------------------------- MODULE BootVariablesProofs -------------------------
(***************************************************************************)
(* The boot variables in any number of boots, for every number of options: *)
(* the registration of the defaults, cut short anywhere, the lock, and     *)
(* what an operating system does to the variables.                         *)
(***************************************************************************)
EXTENDS BootVariables, FiniteSetTheorems, SequenceTheorems, WellFoundedInduction, TLAPS

(* The numbers in an order, and an order that lists none of them twice.    *)
Named(o)    == {o[i] : i \in DOMAIN o}
Distinct(o) == \A i, j \in DOMAIN o : o[i] = o[j] => i = j

-----------------------------------------------------------------------------
(* Orders of option numbers.                                               *)

LEMMA LeastExists ==
  ASSUME NEW T \in SUBSET Nat, T # {}
  PROVE  \E x \in T : \A y \in T : x <= y
<1> DEFINE R == {ss \in Nat \X Nat : ss[1] < ss[2]}
<1>1. IsWellFoundedOn(R, Nat)
  BY NatLessThanWellFounded DEF OpToRel
<1>2. \A x, y \in T : y < x => <<y, x>> \in R
  OBVIOUS
<1> HIDE DEF R
<1>3. PICK x \in T : \A y \in T : <<y, x>> \notin R
  BY <1>1, WFMin
<1>4. \A y \in T : ~(y < x) /\ x \in Nat /\ y \in Nat
  BY <1>2, <1>3
<1> QED BY <1>3, <1>4

LEMMA FreeIsFree ==
  ASSUME NEW o \in Seq(Numbers), ToSet(o) # Numbers
  PROVE  Free(o) \in Numbers /\ Free(o) \notin Named(o)
<1>1. ToSet(o) = Named(o) /\ Named(o) \subseteq Numbers /\ Numbers \subseteq Nat
  BY BoundsAssumption DEF ToSet, Named, Numbers
<1>2. \E n \in Numbers \ ToSet(o) : \A m \in Numbers \ ToSet(o) : n <= m
  BY <1>1, LeastExists
<1> QED BY <1>1, <1>2 DEF Free

(***************************************************************************)
(* What Without keeps up to an entry.  The recursion is over the entries;  *)
(* the function it defines exists because otherwise there were a shortest  *)
(* order without one.                                                      *)
(***************************************************************************)
KeptStep(o, gone, f, i) ==
    IF i = 0 THEN <<>> ELSE IF o[i] \in gone THEN f[i - 1] ELSE Append(f[i - 1], o[i])

IsKept(o, gone, n, f) == f = [i \in 0 .. n |-> KeptStep(o, gone, f, i)]

LEMMA KeptExists ==
  ASSUME NEW o, NEW gone, NEW n \in Nat
  PROVE  \E f : IsKept(o, gone, n, f)
<1> DEFINE T == {k \in Nat : ~ \E f : IsKept(o, gone, k, f)}
<1> SUFFICES ASSUME T # {} PROVE FALSE
  OBVIOUS
<1>1. PICK m \in T : \A k \in T : m <= k
  BY LeastExists
<1>2. m # 0
  <2> DEFINE f == [i \in 0 .. 0 |-> <<>>]
  <2>1. f = [i \in 0 .. 0 |-> KeptStep(o, gone, f, i)]
    BY DEF KeptStep
  <2> QED BY <1>1, <2>1 DEF IsKept
<1>3. m \in Nat /\ m - 1 \in Nat /\ m - 1 \notin T
  BY <1>1, <1>2
<1>4. PICK f : f = [i \in 0 .. m - 1 |-> KeptStep(o, gone, f, i)]
  BY <1>3 DEF IsKept
<1> DEFINE g == [i \in 0 .. m |-> IF i < m THEN f[i] ELSE KeptStep(o, gone, f, m)]
<1>5. \A i \in 0 .. m : KeptStep(o, gone, g, i) = KeptStep(o, gone, f, i)
  BY <1>2, <1>3 DEF KeptStep
<1>6. \A i \in 0 .. m : g[i] = KeptStep(o, gone, f, i)
  BY <1>3, <1>4
<1>7. g = [i \in 0 .. m |-> KeptStep(o, gone, g, i)]
  BY <1>5, <1>6
<1> QED BY <1>1, <1>7 DEF IsKept

(* The numbers that are not gone stay, each once if it was there once.     *)
LEMMA WithoutProperties ==
  ASSUME NEW o \in Seq(Numbers), NEW gone
  PROVE  LET r == Without(o, gone)
         IN  /\ r \in Seq(Numbers) /\ Named(r) = Named(o) \ gone
             /\ Distinct(o) => Distinct(r)
<1> DEFINE f == CHOOSE f : IsKept(o, gone, Len(o), f)
<1>1. Len(o) \in Nat /\ DOMAIN o = 1 .. Len(o) /\ \A i \in 1 .. Len(o) : o[i] \in Numbers
  BY LenProperties
<1>2. IsKept(o, gone, Len(o), f)
  BY <1>1, KeptExists
<1>3. Without(o, gone) = f[Len(o)]
  BY DEF Without, IsKept, KeptStep
<1> HIDE DEF f
<1>4. \A i \in 0 .. Len(o) : f[i] = KeptStep(o, gone, f, i)
  BY <1>1, <1>2 DEF IsKept
<1> DEFINE Good(i) ==
             /\ f[i] \in Seq(Numbers) /\ Named(f[i]) = {o[j] : j \in 1 .. i} \ gone
             /\ Distinct(o) => Distinct(f[i])
           T == {i \in 0 .. Len(o) : ~Good(i)}
<1>5. ASSUME T # {} PROVE FALSE
  <2>1. PICK m \in T : \A k \in T : m <= k
    <3> HIDE DEF Good
    <3>1. T \in SUBSET Nat
      BY <1>1
    <3> HIDE DEF T
    <3> QED BY <1>5, <3>1, LeastExists
  <2>2. m # 0
    <3> SUFFICES Good(0)
      BY <2>1
    <3>1. f[0] = <<>>
      BY <1>1, <1>4 DEF KeptStep
    <3> QED BY <3>1, EmptySeq DEF Named, Distinct
  <2>3. m \in 1 .. Len(o) /\ m - 1 \in 0 .. Len(o) /\ m - 1 \notin T
    <3> HIDE DEF Good
    <3> QED BY <1>1, <2>1, <2>2
  <2> DEFINE p == f[m - 1]
  <2>4. Good(m - 1)
    BY <2>3
  <2>5. f[m] = IF o[m] \in gone THEN p ELSE Append(p, o[m])
    BY <1>4, <2>2, <2>3 DEF KeptStep
  <2>6. {o[j] : j \in 1 .. m} = {o[j] : j \in 1 .. m - 1} \cup {o[m]}
    BY <1>1, <2>3
  <2> HIDE DEF p
  <2>7. CASE o[m] \in gone
    BY <2>1, <2>4, <2>5, <2>6, <2>7 DEF p
  <2>8. CASE o[m] \notin gone
    <3>1. p \in Seq(Numbers) /\ o[m] \in Numbers /\ Len(p) \in Nat /\ DOMAIN p = 1 .. Len(p)
      BY <1>1, <2>3, <2>4, LenProperties DEF p
    <3>2. /\ f[m] \in Seq(Numbers) /\ DOMAIN f[m] = 1 .. Len(p) + 1
          /\ \A i \in 1 .. Len(p) : f[m][i] = p[i]
          /\ f[m][Len(p) + 1] = o[m]
      BY <2>5, <2>8, <3>1, AppendProperties, LenProperties
    <3>3. Named(f[m]) = Named(p) \cup {o[m]}
      <4>1. DOMAIN f[m] = (1 .. Len(p)) \cup {Len(p) + 1}
        BY <3>1, <3>2
      <4>2. Named(f[m]) = {f[m][i] : i \in 1 .. Len(p)} \cup {f[m][Len(p) + 1]}
        BY <4>1 DEF Named
      <4>3. {f[m][i] : i \in 1 .. Len(p)} = Named(p)
        BY <3>1, <3>2 DEF Named
      <4> QED BY <3>2, <4>2, <4>3
    <3>4. Distinct(o) => o[m] \notin Named(p)
      <4>1. Named(p) \subseteq {o[j] : j \in 1 .. m - 1}
        BY <2>4 DEF p
      <4>2. \A j \in 1 .. m - 1 : j \in DOMAIN o /\ m \in DOMAIN o /\ j # m
        BY <1>1, <2>3
      <4> QED BY <4>1, <4>2 DEF Distinct
    <3>5. Distinct(o) => Distinct(f[m])
      <4> SUFFICES ASSUME Distinct(o), NEW i \in 1 .. Len(p) + 1, NEW j \in 1 .. Len(p) + 1,
                          f[m][i] = f[m][j], i # j
                   PROVE  FALSE
        BY <3>2 DEF Distinct
      <4>1. i \in 1 .. Len(p) \/ i = Len(p) + 1
        BY <3>1
      <4>2. j \in 1 .. Len(p) \/ j = Len(p) + 1
        BY <3>1
      <4>3. \A k \in 1 .. Len(p) : p[k] \in Named(p)
        BY <3>1 DEF Named
      <4>4. Distinct(p)
        BY <2>4 DEF p
      <4> QED BY <3>1, <3>2, <3>4, <4>1, <4>2, <4>3, <4>4 DEF Distinct
    <3>6. Named(p) = {o[j] : j \in 1 .. m - 1} \ gone
      BY <2>4 DEF p
    <3> QED BY <2>1, <2>6, <2>8, <3>2, <3>3, <3>5, <3>6
  <2> QED BY <2>7, <2>8
<1>6. Good(Len(o))
  <2> HIDE DEF Good
  <2> QED BY <1>1, <1>5
<1>7. {o[j] : j \in 1 .. Len(o)} = Named(o)
  BY <1>1 DEF Named
<1> QED BY <1>3, <1>6, <1>7

(* A number that is not in the order goes to its end or to its front.      *)
LEMMA AppendNumber ==
  ASSUME NEW o \in Seq(Numbers), NEW n \in Numbers, n \notin Named(o)
  PROVE  /\ Append(o, n) \in Seq(Numbers) /\ Named(Append(o, n)) = Named(o) \cup {n}
         /\ Distinct(o) => Distinct(Append(o, n))
<1> DEFINE r == Append(o, n)
<1>1. Len(o) \in Nat /\ DOMAIN o = 1 .. Len(o)
  BY LenProperties
<1>2. /\ r \in Seq(Numbers) /\ DOMAIN r = (1 .. Len(o)) \cup {Len(o) + 1}
      /\ r[Len(o) + 1] = n /\ \A i \in 1 .. Len(o) : r[i] = o[i]
  BY <1>1, AppendProperties, LenProperties
<1> HIDE DEF r
<1>3. Named(r) = {r[i] : i \in 1 .. Len(o)} \cup {n}
  BY <1>2 DEF Named
<1>4. {r[i] : i \in 1 .. Len(o)} = Named(o)
  BY <1>1, <1>2 DEF Named
<1>5. Distinct(o) => Distinct(r)
  BY <1>1, <1>2 DEF Distinct, Named
<1> QED BY <1>2, <1>3, <1>4, <1>5 DEF r

LEMMA PutFirst ==
  ASSUME NEW o \in Seq(Numbers), NEW n \in Numbers, n \notin Named(o)
  PROVE  /\ <<n>> \o o \in Seq(Numbers) /\ Named(<<n>> \o o) = Named(o) \cup {n}
         /\ Distinct(o) => Distinct(<<n>> \o o)
<1> DEFINE r == <<n>> \o o
<1>1. Len(o) \in Nat /\ DOMAIN o = 1 .. Len(o)
  BY LenProperties
<1>2. <<n>> \in Seq(Numbers) /\ Len(<<n>>) = 1 /\ <<n>>[1] = n
  OBVIOUS
<1>3. /\ r \in Seq(Numbers) /\ Len(r) = 1 + Len(o) /\ DOMAIN r = 1 .. Len(o) + 1
      /\ \A i \in 1 .. 1 + Len(o) : r[i] = IF i <= 1 THEN <<n>>[i] ELSE o[i - 1]
  BY <1>1, <1>2, ConcatProperties, LenProperties
<1> HIDE DEF r
<1>4. r[1] = n /\ \A i \in 1 .. Len(o) : r[i + 1] = o[i]
  BY <1>1, <1>2, <1>3
<1>5. \A i \in 1 .. Len(o) + 1 : i = 1 \/ (i - 1 \in 1 .. Len(o) /\ r[i] = o[i - 1])
  BY <1>1, <1>3
<1>6. Named(r) \subseteq Named(o) \cup {n}
  BY <1>1, <1>3, <1>4, <1>5 DEF Named
<1>7. Named(o) \cup {n} \subseteq Named(r)
  <2>1. n \in Named(r)
    BY <1>1, <1>3, <1>4 DEF Named
  <2>2. \A i \in 1 .. Len(o) : i + 1 \in DOMAIN r /\ r[i + 1] = o[i]
    BY <1>1, <1>3, <1>4
  <2> QED BY <1>1, <2>1, <2>2 DEF Named
<1>8. ASSUME Distinct(o) PROVE Distinct(r)
  <2> SUFFICES ASSUME NEW i \in 1 .. Len(o) + 1, NEW j \in 1 .. Len(o) + 1, r[i] = r[j]
               PROVE  i = j
    BY <1>3 DEF Distinct
  <2>1. \A k \in 1 .. Len(o) : o[k] # n
    BY <1>1 DEF Named
  <2>2. (i = 1) <=> (j = 1)
    BY <1>4, <1>5, <2>1
  <2>3. CASE i = 1
    BY <2>2, <2>3
  <2>4. CASE i # 1
    <3>1. i - 1 \in DOMAIN o /\ j - 1 \in DOMAIN o /\ o[i - 1] = o[j - 1]
      BY <1>1, <1>5, <2>2, <2>4
    <3>2. i - 1 = j - 1
      BY <1>8, <3>1 DEF Distinct
    <3> QED BY <1>1, <3>2
  <2> QED BY <2>3, <2>4
<1> QED BY <1>3, <1>6, <1>7, <1>8 DEF r

(* Moving the first number to the end changes no more than the order.      *)
LEMMA RotateOrder ==
  ASSUME NEW o \in Seq(Numbers), Len(o) > 1
  PROVE  LET r == Tail(o) \o <<Head(o)>>
         IN  /\ r \in Seq(Numbers) /\ Named(r) = Named(o)
             /\ Distinct(o) => Distinct(r)
<1> DEFINE r == Tail(o) \o <<Head(o)>>
<1>1. Len(o) \in Nat /\ DOMAIN o = 1 .. Len(o) /\ o # <<>>
  BY LenProperties, EmptySeq
<1>2. /\ Head(o) \in Numbers /\ Head(o) = o[1] /\ Tail(o) \in Seq(Numbers)
      /\ Len(Tail(o)) = Len(o) - 1 /\ \A i \in 1 .. Len(o) - 1 : Tail(o)[i] = o[i + 1]
  BY <1>1, HeadTailProperties
<1>3. <<Head(o)>> \in Seq(Numbers) /\ Len(<<Head(o)>>) = 1 /\ <<Head(o)>>[1] = o[1]
  BY <1>2
<1>4. /\ r \in Seq(Numbers) /\ Len(r) = Len(o)
      /\ \A i \in 1 .. Len(o) : r[i] = IF i <= Len(o) - 1 THEN Tail(o)[i] ELSE <<Head(o)>>[i - (Len(o) - 1)]
  BY <1>1, <1>2, <1>3, ConcatProperties
<1>5. DOMAIN r = 1 .. Len(o)
  BY <1>4, LenProperties
<1> HIDE DEF r
<1>6. PICK n \in Nat : n = Len(o) /\ n > 1
  BY <1>1
<1>7. ASSUME NEW i \in 1 .. n PROVE r[i] = IF i = n THEN o[1] ELSE o[i + 1]
  <2>1. CASE i = n
    <3>1. ~(i <= n - 1) /\ i - (n - 1) = 1
      BY <1>6, <2>1
    <3> QED BY <1>3, <1>4, <1>6, <2>1, <3>1
  <2>2. CASE i # n
    <3>1. i <= n - 1 /\ i \in 1 .. n - 1
      BY <1>6, <2>2
    <3> QED BY <1>2, <1>4, <1>6, <2>2, <3>1
  <2> QED BY <2>1, <2>2
<1> DEFINE from(i) == IF i = n THEN 1 ELSE i + 1
<1>8. /\ \A i \in 1 .. n : from(i) \in 1 .. n
      /\ \A i, j \in 1 .. n : from(i) = from(j) => i = j
  BY <1>6
<1>9. \A j \in 1 .. n : \E i \in 1 .. n : from(i) = j
  <2> TAKE j \in 1 .. n
  <2>1. CASE j = 1
    BY <1>6, <2>1
  <2>2. CASE j # 1
    <3>1. j - 1 \in 1 .. n /\ from(j - 1) = j
      BY <1>6, <2>2
    <3> QED BY <3>1
  <2> QED BY <2>1, <2>2
<1>10. \A i \in 1 .. n : r[i] = o[from(i)]
  BY <1>7
<1> HIDE DEF from
<1>11. Named(r) = Named(o)
  BY <1>1, <1>5, <1>6, <1>8, <1>9, <1>10 DEF Named
<1>12. Distinct(o) => Distinct(r)
  BY <1>1, <1>5, <1>6, <1>8, <1>10 DEF Distinct
<1> QED BY <1>4, <1>11, <1>12 DEF r

-----------------------------------------------------------------------------
(* What holds between two steps of any boot.                               *)

BootTypeOK ==
    /\ option \in [Numbers -> Option \cup {None}] /\ order \in Seq(Numbers)
    /\ adding \subseteq Numbers
    /\ pc \in {"register1", "write1", "register2", "write2", "ready", "running", "returned"}

(* BootOrder lists a number once, every option, and a default only once.   *)
NoOrphan  == \A n \in Numbers : option[n] # None => n \in Named(order)
OneOfEach == \A kind \in {"SDD", "USB"} : \A m, n \in Named(order) :
                option[m].kind = kind /\ option[n].kind = kind => m = n

(* Between BootOrder and Boot####, the number stands for nothing, and      *)
(* there is no option of the kind to be written.                           *)
Writing ==
    IF pc \in {"write1", "write2"}
    THEN /\ \E n \in Named(order) : adding = {n} /\ option[n] = None
         /\ FindLoadOption(Defaults[Number(pc)]) = {}
    ELSE adding = {}

(* How far the registration has come on a machine whose writes succeed.    *)
Present ==
    /\ ~faulty /\ pc \in {"register2", "write2", "ready"} => FindLoadOption("SDD") # {}
    /\ ~faulty /\ pc = "ready" => FindLoadOption("USB") # {}

(* Nothing is locked before ReadyToBoot; afterwards what it locked bars    *)
(* every change to what it locked.                                         *)
LockInv ==
    /\ pc \in {"register1", "write1", "register2", "write2", "ready"} => hooked
    /\ hooked => ~lockWanted /\ locks = {}
    /\ LockIsComplete
    /\ LockedBootNextIsAbsent

OrderInv == BootTypeOK /\ Distinct(order) /\ NoOrphan /\ OneOfEach /\ Writing /\ Present
BootInv  == OrderInv /\ LockInv

LEMMA ToSetIsNamed == ASSUME NEW o PROVE ToSet(o) = Named(o)
BY DEF ToSet, Named

LEMMA DefaultKinds ==
  /\ Defaults[1] = "SDD" /\ Defaults[2] = "USB" /\ ToSet(Defaults) = {"SDD", "USB"}
  /\ Number("register1") = 1 /\ Number("write1") = 1
  /\ Number("register2") = 2 /\ Number("write2") = 2
BY DEF Defaults, ToSet, Number

LEMMA OptionKinds ==
  ASSUME NEW e \in Option \cup {None}
  PROVE  e.kind = "none" <=> e = None
BY DEF Option, Kinds, None

LEMMA BootInvInit == Init => BootInv
<1> SUFFICES ASSUME Init PROVE BootInv
  OBVIOUS
<1>1. Named(order) = {} /\ order \in Seq(Numbers) /\ DOMAIN order = {}
  BY EmptySeq DEF Init, Named
<1>2. OrderInv
  BY <1>1 DEF Init, PowerOn, OrderInv, BootTypeOK, Distinct, NoOrphan, OneOfEach, Writing, Present
<1>3. LockInv
  BY DEF Init, PowerOn, LockInv, LockIsComplete, LockedBootNextIsAbsent
<1> QED BY <1>2, <1>3 DEF BootInv

-----------------------------------------------------------------------------
(* The registration.                                                       *)

(* Listing the options loses none and brings none twice.                   *)
LEMMA ListedProperties ==
  ASSUME OrderInv
  PROVE  /\ Listed \in Seq(Numbers) /\ Distinct(Listed)
         /\ Named(Listed) = {n \in Named(order) : option[n] # None}
         /\ \A kind : kind # "none" => FindLoadOption(kind) = {n \in Named(Listed) : option[n].kind = kind}
<1>1. Named(order) \subseteq Numbers
  <2>1. \A i \in DOMAIN order : order[i] \in Numbers
    BY LenProperties DEF OrderInv, BootTypeOK
  <2> QED BY <2>1 DEF Named
<1>2. Listed \in Seq(Numbers) /\ Distinct(Listed) /\ Named(Listed) = Named(order) \ Absent
  BY WithoutProperties DEF OrderInv, BootTypeOK, Listed
<1>3. Named(Listed) = {n \in Named(order) : option[n] # None}
  BY <1>1, <1>2 DEF Absent
<1>4. \A n \in Named(order) : option[n].kind = "none" <=> option[n] = None
  BY <1>1, OptionKinds DEF OrderInv, BootTypeOK
<1> QED BY <1>2, <1>3, <1>4, ToSetIsNamed DEF FindLoadOption

LEMMA RegisterKeeps == OrderInv /\ RegisterFvBootOption => OrderInv'
<1> SUFFICES ASSUME OrderInv, RegisterFvBootOption PROVE OrderInv'
  OBVIOUS
<1> DEFINE i == Number(pc)
           L == Listed
<1>1. /\ pc \in {"register1", "register2"} /\ UNCHANGED <<option, faulty>>
      /\ i \in {1, 2} /\ adding = {}
      /\ option \in [Numbers -> Option \cup {None}]
  BY DefaultKinds DEF RegisterFvBootOption, OrderInv, BootTypeOK, Writing
<1>2. /\ L \in Seq(Numbers) /\ Distinct(L) /\ Named(L) = {n \in Named(order) : option[n] # None}
      /\ \A kind : kind # "none" => FindLoadOption(kind) = {n \in Named(L) : option[n].kind = kind}
  BY ListedProperties
<1>3. \A n \in Numbers : option[n] # None => n \in Named(L)
  BY <1>2 DEF OrderInv, NoOrphan
<1>4. \A kind \in {"SDD", "USB"} : \A m, n \in Named(L) :
         option[m].kind = kind /\ option[n].kind = kind => m = n
  BY <1>2 DEF OrderInv, OneOfEach
<1>5. Defaults[i] \in {"SDD", "USB"}
  BY <1>1, DefaultKinds
<1>6. CASE FindLoadOption(Defaults[i]) # {}
  <2>1. order' = L /\ adding' = {} /\ pc' = After(i)
    BY <1>1, <1>6 DEF RegisterFvBootOption
  <2>2. pc' = IF pc = "register1" THEN "register2" ELSE "ready"
    BY <1>1, <2>1, DefaultKinds DEF After
  <2>3. \A kind : kind # "none" => FindLoadOption(kind)' = FindLoadOption(kind)
    BY <1>1, <1>2, <2>1, ToSetIsNamed DEF FindLoadOption
  <2>4. BootTypeOK' /\ Distinct(order)' /\ NoOrphan' /\ OneOfEach' /\ Writing'
    BY <1>1, <1>2, <1>3, <1>4, <2>1, <2>2
       DEF BootTypeOK, NoOrphan, OneOfEach, Writing
  <2>5. Present'
    BY <1>1, <1>6, <2>2, <2>3, DefaultKinds DEF OrderInv, Present
  <2> QED BY <2>4, <2>5 DEF OrderInv
<1>7. CASE FindLoadOption(Defaults[i]) = {}
  <2> DEFINE n == Free(L)
  <2>1. /\ ToSet(L) # Numbers /\ order' = Append(L, n) /\ adding' = {n}
        /\ pc' = IF i = 1 THEN "write1" ELSE "write2"
    BY <1>7 DEF RegisterFvBootOption
  <2>2. n \in Numbers /\ n \notin Named(L)
    BY <1>2, <2>1, FreeIsFree
  <2> HIDE DEF L, n
  <2>3. option[n] = None
    BY <1>3, <2>2
  <2>4. order' \in Seq(Numbers) /\ Named(order') = Named(L) \cup {n} /\ Distinct(order')
    BY <1>2, <2>1, <2>2, AppendNumber
  <2>5. option[n].kind = "none"
    BY <2>3 DEF None
  <2>6. \A kind : kind # "none" => FindLoadOption(kind)' = FindLoadOption(kind)
    BY <1>1, <1>2, <2>4, <2>5, ToSetIsNamed DEF FindLoadOption
  <2>7. BootTypeOK'
    BY <1>1, <2>1, <2>2, <2>4 DEF BootTypeOK
  <2>8. NoOrphan' /\ OneOfEach'
    BY <1>1, <1>3, <1>4, <2>4, <2>5 DEF NoOrphan, OneOfEach
  <2>9. pc' \in {"write1", "write2"} /\ Number(pc') = i
    BY <1>1, <2>1, DefaultKinds
  <2>10. FindLoadOption(Defaults[i])' = {}
    BY <1>5, <1>7, <2>6, <2>9
  <2>11. Writing'
    BY <1>1, <2>1, <2>3, <2>4, <2>9, <2>10 DEF Writing
  <2>12. Present'
    BY <1>1, <2>1, <2>6, DefaultKinds DEF OrderInv, Present
  <2> QED BY <2>4, <2>7, <2>8, <2>11, <2>12 DEF OrderInv
<1> QED BY <1>6, <1>7

LEMMA WriteKeeps == OrderInv /\ WriteLoadOption => OrderInv'
<1> SUFFICES ASSUME OrderInv, WriteLoadOption PROVE OrderInv'
  OBVIOUS
<1>0. PICK kind \in {"SDD", "USB"} : kind = Defaults[Number(pc)]
  BY DefaultKinds DEF WriteLoadOption
<1>1. PICK n \in Named(order) : adding = {n} /\ option[n] = None
  BY DEF WriteLoadOption, OrderInv, Writing
<1>2. /\ pc \in {"write1", "write2"} /\ adding' = {} /\ UNCHANGED faulty
      /\ pc' = IF pc = "write1" THEN "register2" ELSE "ready"
      /\ kind = IF pc = "write1" THEN "SDD" ELSE "USB"
  BY <1>0, <1>1, DefaultKinds DEF WriteLoadOption, After
<1>3. FindLoadOption(kind) = {} /\ n \in Numbers /\ option[n].kind = "none"
      /\ option \in [Numbers -> Option \cup {None}] /\ order \in Seq(Numbers) /\ Named(order) \subseteq Numbers
  BY <1>0, <1>1, <1>2 DEF OrderInv, Writing, BootTypeOK, None, Named
<1>4. CASE option' = [option EXCEPT ![n] = [kind |-> kind, active |-> TRUE]] /\ UNCHANGED order
  <2>1. [kind |-> kind, active |-> TRUE] \in Option
    BY <1>2 DEF Option, Kinds
  <2>2. option' \in [Numbers -> Option \cup {None}] /\ Named(order') = Named(order)
    BY <1>3, <1>4, <2>1
  <2>3. /\ option'[n].kind = kind
        /\ \A m \in Numbers : m # n => option'[m] = option[m]
    BY <1>3, <1>4
  <2>4. BootTypeOK' /\ Distinct(order)'
    BY <1>2, <1>4, <2>2 DEF OrderInv, BootTypeOK, Distinct
  <2>5. NoOrphan'
    BY <1>4, <2>2, <2>3 DEF OrderInv, NoOrphan
  <2>6. \A m \in Named(order) : m # n => option'[m].kind # kind
    BY <1>3, <2>3, ToSetIsNamed DEF FindLoadOption
  <2>7. OneOfEach'
    <3> SUFFICES ASSUME NEW k \in {"SDD", "USB"}, NEW m \in Named(order), NEW p \in Named(order),
                        option'[m].kind = k, option'[p].kind = k
                 PROVE  m = p
      BY <2>2 DEF OneOfEach
    <3>1. CASE k = kind
      BY <2>6, <3>1
    <3>2. CASE k # kind
      <4>1. m # n /\ p # n /\ option[m].kind = k /\ option[p].kind = k
        BY <1>3, <2>3, <3>2
      <4> QED BY <4>1 DEF OrderInv, OneOfEach
    <3> QED BY <3>1, <3>2
  <2>8. Writing'
    BY <1>2 DEF Writing
  <2>9. n \in FindLoadOption(kind)' /\ \A k : k # "none" => FindLoadOption(k) \subseteq FindLoadOption(k)'
    <3>1. \A k : FindLoadOption(k) = {m \in Named(order) : option[m].kind = k}
      BY ToSetIsNamed DEF FindLoadOption
    <3>2. \A k : FindLoadOption(k)' = {m \in Named(order) : option'[m].kind = k}
      BY <2>2, ToSetIsNamed DEF FindLoadOption
    <3>3. \A k : k # "none" => \A m \in FindLoadOption(k) : m \in Named(order) /\ m # n /\ option'[m].kind = k
      BY <1>3, <2>3, <3>1
    <3> QED BY <1>1, <2>3, <3>2, <3>3
  <2>10. Present'
    <3>1. CASE pc = "write1"
      <4>1. pc' = "register2" /\ FindLoadOption("SDD")' # {}
        BY <1>2, <2>9, <3>1
      <4> QED BY <4>1 DEF Present
    <3>2. CASE pc = "write2"
      <4>1. pc' = "ready" /\ FindLoadOption("USB")' # {}
        BY <1>2, <2>9, <3>2
      <4>2. ~faulty' => FindLoadOption("SDD")' # {}
        BY <1>2, <2>9, <3>2 DEF OrderInv, Present
      <4> QED BY <4>1, <4>2 DEF Present
    <3> QED BY <1>2, <3>1, <3>2
  <2> QED BY <2>4, <2>5, <2>7, <2>8, <2>10 DEF OrderInv
<1>5. CASE faulty /\ order' = Without(order, {n}) /\ UNCHANGED option
  <2>1. order' \in Seq(Numbers) /\ Named(order') = Named(order) \ {n} /\ Distinct(order')
    BY <1>3, <1>5, WithoutProperties DEF OrderInv
  <2>2. BootTypeOK' /\ NoOrphan' /\ OneOfEach'
    BY <1>1, <1>2, <1>5, <2>1 DEF OrderInv, BootTypeOK, NoOrphan, OneOfEach
  <2>3. Writing' /\ Present'
    BY <1>2, <1>5 DEF Writing, Present
  <2> QED BY <2>1, <2>2, <2>3 DEF OrderInv
<1> QED BY <1>0, <1>1, <1>4, <1>5 DEF WriteLoadOption

-----------------------------------------------------------------------------
(* The system that was booted, and the end of a boot.                      *)

LEMMA UserKeepsOrder == OrderInv /\ UserAction => OrderInv'
<1> SUFFICES ASSUME OrderInv, UserAction PROVE OrderInv'
  OBVIOUS
<1>1. /\ pc = "running" /\ adding = {} /\ UNCHANGED <<pc, adding, faulty>>
      /\ option \in [Numbers -> Option \cup {None}] /\ order \in Seq(Numbers) /\ Distinct(order)
      /\ Named(order) \subseteq Numbers
  BY DEF UserAction, boot, OrderInv, BootTypeOK, Writing, Named
<1>2. Writing' /\ Present'
  BY <1>1 DEF Writing, Present
<1>3. SUFFICES /\ option' \in [Numbers -> Option \cup {None}] /\ order' \in Seq(Numbers)
               /\ Distinct(order') /\ NoOrphan' /\ OneOfEach'
  BY <1>1, <1>2 DEF OrderInv, BootTypeOK
<1>4. CASE SetActive
  <2>1. PICK n \in Numbers : /\ option[n] # None /\ UNCHANGED order
                             /\ option' = [option EXCEPT ![n].active = ~@]
    BY <1>4 DEF SetActive
  <2>2. option[n] \in Option
    BY <1>1, <2>1
  <2>3. [option[n] EXCEPT !.active = ~@] \in Option /\ [option[n] EXCEPT !.active = ~@].kind = option[n].kind
    BY <2>2 DEF Option
  <2>4. /\ option' \in [Numbers -> Option \cup {None}]
        /\ \A m \in Numbers : option'[m].kind = option[m].kind /\ (option'[m] = None => option[m] = None)
    <3>1. option'[n] = [option[n] EXCEPT !.active = ~@] /\ \A m \in Numbers : m # n => option'[m] = option[m]
      BY <1>1, <2>1
    <3>2. option'[n] # None
      BY <2>3, <3>1, OptionKinds, <2>1, <2>2
    <3> QED BY <1>1, <2>1, <2>3, <3>1, <3>2
  <2> QED BY <1>1, <2>1, <2>4 DEF OrderInv, NoOrphan, OneOfEach
<1>5. CASE AddOption
  <2> DEFINE n == Free(order)
             os == [kind |-> "OS", active |-> TRUE]
  <2>1. n \in Numbers /\ n \notin Named(order)
    BY <1>1, <1>5, FreeIsFree DEF AddOption
  <2>2. order' = <<n>> \o order /\ option' = [option EXCEPT ![n] = os]
    BY <1>5 DEF AddOption
  <2> HIDE DEF n
  <2>3. order' \in Seq(Numbers) /\ Named(order') = Named(order) \cup {n} /\ Distinct(order')
    BY <1>1, <2>1, <2>2, PutFirst
  <2>4. /\ os \in Option /\ option' \in [Numbers -> Option \cup {None}] /\ option'[n].kind = "OS"
        /\ \A m \in Numbers : m # n => option'[m] = option[m]
    BY <1>1, <2>1, <2>2 DEF Option, Kinds
  <2>5. NoOrphan'
    BY <2>3, <2>4 DEF OrderInv, NoOrphan
  <2>6. OneOfEach'
    BY <1>1, <2>1, <2>3, <2>4 DEF OrderInv, OneOfEach
  <2> QED BY <2>3, <2>4, <2>5, <2>6
<1>6. CASE DeleteOption
  <2>1. PICK n \in Named(order) : order' = Without(order, {n}) /\ option' = [option EXCEPT ![n] = None]
    BY <1>6, ToSetIsNamed DEF DeleteOption
  <2>2. order' \in Seq(Numbers) /\ Named(order') = Named(order) \ {n} /\ Distinct(order')
    BY <1>1, <2>1, WithoutProperties
  <2>3. /\ option' \in [Numbers -> Option \cup {None}] /\ option'[n] = None
        /\ \A m \in Numbers : m # n => option'[m] = option[m]
    BY <1>1, <2>1
  <2> QED BY <1>1, <2>2, <2>3 DEF OrderInv, NoOrphan, OneOfEach
<1>7. CASE Reorder
  <2>1. order' \in Seq(Numbers) /\ Named(order') = Named(order) /\ Distinct(order') /\ UNCHANGED option
    BY <1>1, <1>7, RotateOrder DEF Reorder
  <2> QED BY <1>1, <2>1 DEF OrderInv, NoOrphan, OneOfEach
<1>8. CASE SetBootNext \/ ChangeLockSetting
  BY <1>1, <1>8 DEF SetBootNext, ChangeLockSetting, OrderInv, NoOrphan, OneOfEach
<1> QED BY <1>4, <1>5, <1>6, <1>7, <1>8 DEF UserAction

(* A step that leaves the options alone: registration starts over, or goes *)
(* no further than it is.                                                  *)
LEMMA QuietStepKeeps ==
  ASSUME OrderInv, UNCHANGED <<option, order, faulty>>, adding' = {},
         pc' \in {"register1", "running", "returned"} \/ (adding = {} /\ UNCHANGED pc)
  PROVE  OrderInv'
<1>1. BootTypeOK' /\ Distinct(order)' /\ NoOrphan' /\ OneOfEach'
  BY DEF OrderInv, BootTypeOK, Distinct, NoOrphan, OneOfEach, Named
<1>2. \A kind : FindLoadOption(kind)' = FindLoadOption(kind)
  BY DEF FindLoadOption
<1>3. Writing'
  BY DEF OrderInv, Writing
<1>4. Present'
  BY <1>2 DEF OrderInv, Present
<1> QED BY <1>1, <1>3, <1>4 DEF OrderInv

LEMMA OrderInvNext == OrderInv /\ [Next]_vars => OrderInv'
<1> SUFFICES ASSUME OrderInv, [Next]_vars PROVE OrderInv'
  OBVIOUS
<1>1. CASE RegisterFvBootOption
  BY <1>1, RegisterKeeps
<1>2. CASE WriteLoadOption
  BY <1>2, WriteKeeps
<1>3. CASE UserAction
  BY <1>3, UserKeepsOrder
<1>4. CASE ReadyToBoot
  <2>1. adding = {} /\ UNCHANGED adding
    BY <1>4 DEF ReadyToBoot, OrderInv, Writing
  <2> QED BY <1>4, <2>1, QuietStepKeeps DEF ReadyToBoot
<1>5. CASE Reset \/ ProcessBootCompletion
  <2>1. pc = "running" => adding = {}
    BY DEF OrderInv, Writing
  <2> QED BY <1>5, <2>1, QuietStepKeeps DEF Reset, ProcessBootCompletion, ResetLocals, nv
<1>6. CASE TakeBootNext \/ FrontPageShown \/ BootMenuSetsMsBootNext
  <2>1. adding = {} /\ UNCHANGED <<adding, pc>>
    BY <1>6 DEF TakeBootNext, FrontPageShown, BootMenuSetsMsBootNext, boot, OrderInv, Writing
  <2> QED BY <1>6, <2>1, QuietStepKeeps DEF TakeBootNext, FrontPageShown, BootMenuSetsMsBootNext, nv
<1>7. CASE UNCHANGED vars
  BY <1>7 DEF vars, nv, boot, OrderInv, BootTypeOK, Distinct, NoOrphan, OneOfEach, Named, Writing,
     FindLoadOption, Present
<1> QED BY <1>1, <1>2, <1>3, <1>4, <1>5, <1>6, <1>7 DEF Next

-----------------------------------------------------------------------------
(* The lock.                                                               *)

LEMMA LockInvNext == LockInv /\ [Next]_vars => LockInv'
<1> SUFFICES ASSUME LockInv, [Next]_vars PROVE LockInv'
  OBVIOUS
<1> DEFINE Early == pc \in {"register1", "write1", "register2", "write2", "ready"}
<1>1. CASE RegisterFvBootOption
  <2>1. hooked /\ UNCHANGED <<hooked, lockWanted, locks, bootNext, faulty>>
    BY <1>1 DEF RegisterFvBootOption, LockInv
  <2> QED BY <2>1 DEF LockInv, LockIsComplete, LockedBootNextIsAbsent
<1>2. CASE WriteLoadOption
  <2>1. hooked /\ UNCHANGED <<hooked, lockWanted, locks, bootNext, faulty>>
    BY <1>2 DEF WriteLoadOption, LockInv
  <2> QED BY <2>1 DEF LockInv, LockIsComplete, LockedBootNextIsAbsent
<1>3. CASE ReadyToBoot
  <2>1. pc' = "running" /\ ~hooked' /\ UNCHANGED <<order, faulty>> /\ LockTargets' = LockTargets
    BY <1>3 DEF ReadyToBoot, LockTargets
  <2>2. CASE ~hooked
    <3>1. UNCHANGED <<locks, bootNext, lockWanted>>
      BY <1>3, <2>2 DEF ReadyToBoot
    <3> QED BY <2>1, <3>1 DEF LockInv, LockIsComplete, LockedBootNextIsAbsent
  <2>3. CASE hooked
    <3>1. LockBootVariables /\ lockWanted' = lockSetting /\ locks = {}
      BY <1>3, <2>3 DEF ReadyToBoot, LockInv
    <3>2. CASE ~lockSetting
      <4>1. locks' = {} /\ ~lockWanted'
        BY <3>1, <3>2 DEF LockBootVariables
      <4> QED BY <2>1, <4>1 DEF LockInv, LockIsComplete, LockedBootNextIsAbsent
    <3>3. CASE lockSetting /\ ~faulty
      <4>1. locks' = LockTargets /\ ~bootNext'
        BY <3>1, <3>3 DEF LockBootVariables
      <4> QED BY <2>1, <4>1 DEF LockInv, LockIsComplete, LockedBootNextIsAbsent
    <3>4. CASE faulty
      BY <2>1, <3>4 DEF LockInv, LockIsComplete, LockedBootNextIsAbsent
    <3> QED BY <3>2, <3>3, <3>4
  <2> QED BY <2>2, <2>3
<1>4. CASE TakeBootNext \/ FrontPageShown \/ BootMenuSetsMsBootNext
  <2>1. /\ UNCHANGED <<pc, hooked, locks, order, lockWanted, faulty>>
        /\ bootNext' => bootNext
    BY <1>4 DEF TakeBootNext, FrontPageShown, BootMenuSetsMsBootNext, boot, nv
  <2> QED BY <2>1 DEF LockInv, LockIsComplete, LockedBootNextIsAbsent, LockTargets
<1>5. CASE (ProcessBootCompletion /\ ~msBootNext)
  <2>1. pc' = "returned" /\ UNCHANGED <<hooked, locks, order, bootNext, lockWanted, faulty>>
    BY <1>5 DEF ProcessBootCompletion
  <2> QED BY <2>1 DEF LockInv, LockIsComplete, LockedBootNextIsAbsent, LockTargets
<1>6. CASE Reset \/ (ProcessBootCompletion /\ msBootNext)
  <2>1. ResetLocals
    BY <1>6 DEF Reset, ProcessBootCompletion
  <2> QED BY <2>1 DEF ResetLocals, LockInv, LockIsComplete, LockedBootNextIsAbsent
<1>7. CASE UserAction
  <2>1. pc = "running" /\ UNCHANGED <<pc, hooked, locks, lockWanted, faulty>>
    BY <1>7 DEF UserAction, boot
  <2>2. ~faulty /\ lockWanted => UNCHANGED order
    <3> SUFFICES ASSUME ~faulty, lockWanted PROVE UNCHANGED order
      OBVIOUS
    <3>1. BootOrder \in locks
      BY DEF LockInv, LockIsComplete, LockTargets
    <3> QED BY <1>7, <3>1 DEF UserAction, SetActive, AddOption, DeleteOption, Reorder, SetBootNext,
               ChangeLockSetting, Writable
  <2>3. BootNext \in locks => UNCHANGED bootNext
    BY <1>7 DEF UserAction, SetActive, AddOption, DeleteOption, Reorder, SetBootNext,
       ChangeLockSetting, Writable
  <2> QED BY <2>1, <2>2, <2>3 DEF LockInv, LockIsComplete, LockedBootNextIsAbsent, LockTargets
<1>8. CASE UNCHANGED vars
  BY <1>8 DEF vars, nv, boot, LockInv, LockIsComplete, LockedBootNextIsAbsent, LockTargets
<1> QED BY <1>1, <1>2, <1>3, <1>4, <1>5, <1>6, <1>7, <1>8 DEF Next

LEMMA BootInvHolds == Spec => []BootInv
<1>1. BootInv /\ [Next]_vars => BootInv'
  BY OrderInvNext, LockInvNext DEF BootInv
<1> QED BY <1>1, BootInvInit, PTL DEF Spec

-----------------------------------------------------------------------------
(***************************************************************************)
(* Registering the defaults at every boot, after resets in the middle and  *)
(* whatever was reordered, deleted or turned off, lists none twice.        *)
(***************************************************************************)
THEOREM DefaultsListedOnce == Spec => []NoDuplicateDefaults
<1>1. BootInv => NoDuplicateDefaults
  <2> SUFFICES ASSUME BootInv, NEW kind \in ToSet(Defaults)
               PROVE  Cardinality({i \in DOMAIN order : option[order[i]].kind = kind}) <= 1
    BY DEF NoDuplicateDefaults
  <2> DEFINE places == {i \in DOMAIN order : option[order[i]].kind = kind}
  <2>1. \A i, j \in places : i = j
    <3>1. \A i \in DOMAIN order : order[i] \in Named(order)
      BY DEF Named
    <3> QED BY <3>1, DefaultKinds DEF BootInv, OrderInv, OneOfEach, Distinct
  <2> HIDE DEF places
  <2>2. CASE places = {}
    <3>1. Cardinality(places) = 0
      BY <2>2, FS_EmptySet
    <3> QED BY <3>1 DEF places
  <2>3. CASE places # {}
    <3>1. PICK i \in places : places = {i}
      BY <2>1, <2>3
    <3>2. Cardinality(places) = 1
      BY <3>1, FS_Singleton
    <3> QED BY <3>2 DEF places
  <2> QED BY <2>2, <2>3
<1> QED BY <1>1, BootInvHolds, PTL

(* Both defaults are there when a registration without failures ends.      *)
THEOREM DefaultsComeBack == Spec => []DefaultsRestored
<1>1. BootInv => DefaultsRestored
  <2> SUFFICES ASSUME BootInv, ~faulty, pc = "ready", NEW kind \in {"SDD", "USB"}
               PROVE  \E n \in ToSet(order) : option[n].kind = kind
    BY DefaultKinds DEF DefaultsRestored
  <2>1. FindLoadOption(kind) # {}
    BY DEF BootInv, OrderInv, Present
  <2> QED BY <2>1 DEF FindLoadOption
<1> QED BY <1>1, BootInvHolds, PTL

(* The lock covers the list that is in force, however long ago it was set. *)
THEOREM LockCoversTheOrder == Spec => []LockIsComplete
<1>1. BootInv => LockIsComplete
  BY DEF BootInv, LockInv
<1> QED BY <1>1, BootInvHolds, PTL

(* No boot is redirected by a BootNext that nobody can take off.           *)
THEOREM NoLockedBootNext == Spec => []LockedBootNextIsAbsent
<1>1. BootInv => LockedBootNextIsAbsent
  BY DEF BootInv, LockInv
<1> QED BY <1>1, BootInvHolds, PTL
=============================================================================
