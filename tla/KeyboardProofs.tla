--------------------------- MODULE KeyboardProofs ---------------------------
(***************************************************************************)
(* A started keyboard, for any queue length and number of keystrokes, keys *)
(* and registrations that come and go while they are called.               *)
(***************************************************************************)
EXTENDS TegraKeyboard, FiniteSetTheorems, SequenceTheorems, WellFoundedInduction, TLAPS

(* The handler has a keystroke in hand and walks the list.                 *)
InHand == handler.pc \in {"walk", "call"}

(* The walk has yet to reach the registration of h.                        *)
Ahead(h) ==
  \E i, j \in DOMAIN notifyList :
    /\ notifyList[i].handle = handler.link /\ notifyList[j].handle = h
    /\ i <= j /\ (handler.pc = "call" => i # j)

Matches(h, data) == \A r \in Registrations : r.handle = h => IsKeyRegistered(r.key, data)

(* An address is that of one registration, and the walk is at one of them. *)
ListOK ==
  /\ \A i, j \in DOMAIN notifyList : notifyList[i].handle = notifyList[j].handle => i = j
  /\ handler.pc = "call" => handler.link \in Registered
  /\ handler.pc = "walk" => handler.link \in Registered \cup {NoLink}

(* The keystrokes under way are among those that were accepted.            *)
PressesOK ==
  /\ \A i \in DOMAIN notifyQueue : notifyQueue[i].id <= presses
  /\ InHand => handler.press \in Press /\ handler.press.id <= presses

(***************************************************************************)
(* A keystroke that is owed is under way and matches its registration; if  *)
(* the handler has it in hand, the walk has not passed the registration.   *)
(***************************************************************************)
Owed(x) ==
  /\ x[1] \in Registered
  /\ x[2] \in Pending(notifyQueue)
  /\ \A i \in DOMAIN notifyQueue :
       notifyQueue[i].id = x[2] => Matches(x[1], notifyQueue[i].data)
  /\ InHand /\ handler.press.id = x[2] =>
       Matches(x[1], handler.press.data) /\ Ahead(x[1])

OwedInv == \A x \in Handle \X (1 .. MaxPress) : duty[x] = "owed" => Owed(x)

NotifyTypeOK ==
  /\ notifyQueue \in Seq(Press) /\ Len(notifyQueue) <= Capacity
  /\ notifyList \in Seq(Registration)
  /\ notifyEvent \in BOOLEAN
  /\ handler \in [pc : {"idle", "pop", "walk", "call"},
                  press : Press \cup {NoKey}, link : Handle \cup {NoLink}]
  /\ presses \in 0 .. MaxPress
  /\ duty \in [Handle \X (1 .. MaxPress) -> Duty]

ReaderTypeOK ==
  /\ keyQueue \in Seq(Press) /\ Len(keyQueue) <= Capacity
  /\ toggles \subseteq Toggle
  /\ reading \in BOOLEAN /\ promised \in BOOLEAN

NotifyInv == NotifyTypeOK /\ ListOK /\ PressesOK /\ OwedInv /\ NoLostWakeup
ReaderInv == ReaderTypeOK /\ WaitForKeyTruthful
KeyboardInv == NotifyInv /\ ReaderInv

-----------------------------------------------------------------------------
(* Pushing copies of a keystroke: the queue keeps its bound, holds nothing *)
(* else, and ends with the keystroke; room for it means that nothing goes. *)
LEMMA PushProperties ==
  ASSUME NEW q \in Seq(Press), Len(q) <= Capacity, NEW press \in Press, NEW n \in Nat
  PROVE  LET r == PushEfikeyBufTail(q, press, n)
         IN  /\ r \in Seq(Press) /\ Len(r) <= Capacity
             /\ n = 0 => r = q
             /\ n > 0 => Len(r) > 0 /\ r[Len(r)] = press
             /\ \A i \in DOMAIN r : r[i] = press \/ \E j \in DOMAIN q : r[i] = q[j]
             /\ n = 1 /\ Len(q) < Capacity =>
                  \A j \in DOMAIN q : j \in DOMAIN r /\ r[j] = q[j]
<1> DEFINE copies == [i \in 1 .. n |-> press]
           all    == q \o copies
           first  == IF Len(all) > Capacity THEN Len(all) - Capacity + 1 ELSE 1
           r      == SubSeq(all, first, Len(all))
<1>1. copies \in Seq(Press) /\ Len(copies) = n /\ \A i \in 1 .. n : copies[i] = press
  OBVIOUS
<1>2. q \in Seq(Press) /\ Len(q) \in Nat /\ DOMAIN q = 1 .. Len(q)
  BY LenProperties
<1> HIDE DEF copies
<1>3. /\ all \in Seq(Press) /\ Len(all) = Len(q) + n /\ DOMAIN all = 1 .. Len(all)
      /\ \A i \in 1 .. Len(q) + n : all[i] = IF i <= Len(q) THEN q[i] ELSE copies[i - Len(q)]
  BY <1>1, <1>2, ConcatProperties, LenProperties
<1>4. \A i \in 1 .. Len(all) : all[i] = press \/ \E j \in DOMAIN q : all[i] = q[j]
  BY <1>1, <1>2, <1>3
<1>5. n > 0 => all[Len(all)] = press
  BY <1>1, <1>2, <1>3
<1> HIDE DEF all
<1>6. first \in Int /\ 1 <= first /\ first <= Len(all) + 1 /\ Len(all) - first + 1 <= Capacity
      /\ (Len(all) > 0 => first <= Len(all)) /\ (Len(all) <= Capacity => first = 1)
  BY <1>2, <1>3, CapacityAssumption
<1>7. Len(all) \in Int /\ \A i \in first .. Len(all) : all[i] \in Press
  BY <1>2, <1>3, <1>6, ElementOfSeq
<1> HIDE DEF first
<1>8. /\ r \in Seq(Press)
      /\ Len(r) = IF first <= Len(all) THEN Len(all) - first + 1 ELSE 0
      /\ \A i \in 1 .. Len(all) - first + 1 : r[i] = all[first + i - 1]
  BY <1>6, <1>7, SubSeqProperties
<1> HIDE DEF r
<1>9. DOMAIN r = 1 .. Len(r) /\ Len(r) = Len(all) - first + 1
  BY <1>3, <1>6, <1>7, <1>8, LenProperties
<1>10. Len(r) <= Capacity
  BY <1>6, <1>9
<1>11. n = 0 => r = q
  <2> SUFFICES ASSUME n = 0 PROVE r = q
    OBVIOUS
  <2>1. first = 1 /\ Len(r) = Len(q) /\ \A i \in 1 .. Len(r) : r[i] = q[i]
    BY <1>2, <1>3, <1>6, <1>8, <1>9
  <2> QED BY <2>1, <1>2, <1>8, SeqEqual
<1>12. n > 0 => Len(r) > 0 /\ r[Len(r)] = press
  BY <1>2, <1>3, <1>5, <1>6, <1>8, <1>9
<1>13. \A i \in DOMAIN r : r[i] = press \/ \E j \in DOMAIN q : r[i] = q[j]
  <2> SUFFICES ASSUME NEW i \in 1 .. Len(r)
               PROVE  r[i] = press \/ \E j \in DOMAIN q : r[i] = q[j]
    BY <1>9
  <2>1. Len(r) = Len(all) - first + 1 /\ first \in Int /\ Len(all) \in Int /\ 1 <= first
    BY <1>6, <1>7, <1>9
  <2>2. i \in 1 .. Len(all) - first + 1 /\ first + i - 1 \in 1 .. Len(all)
    BY <2>1
  <2>3. r[i] = all[first + i - 1]
    BY <1>8, <2>2
  <2> QED BY <2>2, <2>3, <1>4
<1>14. n = 1 /\ Len(q) < Capacity => \A j \in DOMAIN q : j \in DOMAIN r /\ r[j] = q[j]
  <2> SUFFICES ASSUME n = 1, Len(q) < Capacity, NEW j \in 1 .. Len(q)
               PROVE  j \in DOMAIN r /\ r[j] = q[j]
    BY <1>2
  <2>1. Len(all) = Len(q) + 1 /\ first = 1
    BY <1>2, <1>3, <1>6, CapacityAssumption
  <2>2. j \in 1 .. Len(all) /\ Len(r) = Len(all) /\ r[j] = all[j] /\ all[j] = q[j]
    BY <2>1, <1>2, <1>3, <1>8, <1>9
  <2> QED BY <2>2, <1>9
<1>15. PushEfikeyBufTail(q, press, n) = r
  BY DEF PushEfikeyBufTail, all, copies, first, r
<1> QED BY <1>8, <1>10, <1>11, <1>12, <1>13, <1>14, <1>15

(* The pushes are counted: some for a match, none without one.             *)
LEMMA MatchingCount ==
  ASSUME notifyList \in Seq(Registration), NEW key
  PROVE  Cardinality(Matching(key)) \in Nat /\ (Cardinality(Matching(key)) = 0 <=> Matching(key) = {})
<1>1. notifyList \in [1 .. Len(notifyList) -> Registration] /\ Len(notifyList) \in Nat
      /\ DOMAIN notifyList = 1 .. Len(notifyList)
  BY LenProperties
<1>2. notifyList \in Surjection(1 .. Len(notifyList), Registrations)
  BY <1>1 DEF Surjection, Registrations
<1>3. IsFiniteSet(Registrations)
  BY <1>1, <1>2, FS_Interval, FS_Surjection
<1>4. Matching(key) \in SUBSET Registrations
  BY DEF Matching
<1>5. IsFiniteSet(Matching(key))
  BY <1>3, <1>4, FS_Subset
<1> QED BY <1>5, FS_CardinalityType, FS_EmptySet

-----------------------------------------------------------------------------
(* What a poll does: to the readers' queue, and to the functions'.         *)

LEMMA NewPressType ==
  ASSUME presses \in 0 .. MaxPress, NEW key \in PolledKey, Accepted(key), presses < MaxPress
  PROVE  NewPress(key) \in Press /\ NewPress(key).id = presses + 1 /\ NewPress(key).data = key
BY MaxPressAssumption DEF NewPress, Press, Accepted, PolledKey

LEMMA PollForReaders ==
  ASSUME NotifyTypeOK, ReaderTypeOK, NEW key \in PolledKey, PollDevice(key)
  PROVE  /\ KeysAfterPoll(key) \in Seq(Press) /\ Len(KeysAfterPoll(key)) <= Capacity
         /\ ~Overflows(key) => \A j \in DOMAIN keyQueue : /\ j \in DOMAIN KeysAfterPoll(key)
                                                          /\ KeysAfterPoll(key)[j] = keyQueue[j]
<1>1. CASE Accepted(key)
  <2>1. NewPress(key) \in Press
    BY <1>1, NewPressType DEF PollDevice, NotifyTypeOK
  <2>2. keyQueue \in Seq(Press) /\ Len(keyQueue) <= Capacity /\ Len(keyQueue) \in Nat
    BY LenProperties DEF ReaderTypeOK
  <2>3. KeysAfterPoll(key) = PushEfikeyBufTail(keyQueue, NewPress(key), 1)
    BY <1>1 DEF KeysAfterPoll
  <2>4. ~Overflows(key) => Len(keyQueue) < Capacity
    BY <1>1, <2>2, CapacityAssumption DEF Overflows
  <2> QED BY <2>1, <2>2, <2>3, <2>4, PushProperties
<1>2. CASE ~Accepted(key)
  BY <1>2 DEF KeysAfterPoll, ReaderTypeOK
<1> QED BY <1>1, <1>2

LEMMA PollForFunctions ==
  ASSUME NotifyInv, NEW key \in PolledKey, PollDevice(key), UNCHANGED <<notifyList, handler>>
  PROVE  NotifyInv'
<1>1. CASE ~Accepted(key)
  BY <1>1 DEF NotifyInv, NotifyTypeOK, ListOK, PressesOK, OwedInv, Owed, NoLostWakeup, PollDevice,
     InHand, Ahead, Matches, Registrations, Registered, Pending
<1>2. CASE Accepted(key)
  <2> DEFINE n == Cardinality(Matching(key))
             new == NewPress(key)
  <2> USE DEF NotifyInv
  <2>1. /\ presses < MaxPress /\ presses' = presses + 1
        /\ notifyQueue' = PushEfikeyBufTail(notifyQueue, new, n)
        /\ notifyEvent' = (notifyEvent \/ Matching(key) # {})
        /\ duty' = Forfeit([x \in DOMAIN duty |->
                              IF x[2] = presses + 1 /\ \E r \in Matching(key) : r.handle = x[1]
                              THEN "owed" ELSE duty[x]], notifyQueue')
    BY <1>2 DEF PollDevice, PushToNotify
  <2>2. new \in Press /\ new.id = presses + 1 /\ new.data = key
    BY <1>2, <2>1, NewPressType DEF NotifyTypeOK
  <2>3. n \in Nat /\ (n = 0 <=> Matching(key) = {})
    BY MatchingCount DEF NotifyTypeOK
  <2> HIDE DEF n, new
  <2>4. /\ notifyQueue' \in Seq(Press) /\ Len(notifyQueue') <= Capacity
        /\ n = 0 => notifyQueue' = notifyQueue
        /\ n > 0 => Len(notifyQueue') > 0 /\ notifyQueue'[Len(notifyQueue')] = new
        /\ \A i \in DOMAIN notifyQueue' :
             notifyQueue'[i] = new \/ \E j \in DOMAIN notifyQueue : notifyQueue'[i] = notifyQueue[j]
    BY <2>1, <2>2, <2>3, PushProperties DEF NotifyTypeOK
  <2>5. presses' \in 0 .. MaxPress /\ presses \in Nat
    BY <2>1, MaxPressAssumption DEF NotifyTypeOK
  <2>6. duty' \in [Handle \X (1 .. MaxPress) -> Duty]
    BY <2>1 DEF NotifyTypeOK, Forfeit, Duty
  <2>7. NotifyTypeOK'
    BY <2>1, <2>4, <2>5, <2>6 DEF NotifyTypeOK
  <2>8. ListOK'
    BY DEF ListOK, Registered, Registrations
  <2>9. \A i \in DOMAIN notifyQueue : notifyQueue[i].id \in Nat /\ notifyQueue[i].id <= presses
    <3>1. \A i \in DOMAIN notifyQueue : notifyQueue[i] \in Press
      BY LenProperties DEF NotifyTypeOK
    <3> QED BY <3>1 DEF PressesOK, Press
  <2>10. InHand => handler.press.id \in Nat /\ handler.press.id <= presses
    BY DEF PressesOK, Press
  <2>11. PressesOK'
    <3>1. \A i \in DOMAIN notifyQueue' : notifyQueue'[i].id <= presses'
      BY <2>1, <2>2, <2>4, <2>5, <2>9
    <3>2. InHand' => handler'.press \in Press /\ handler'.press.id <= presses'
      BY <2>1, <2>5, <2>10 DEF InHand, PressesOK
    <3> QED BY <3>1, <3>2 DEF PressesOK
  <2>12. NoLostWakeup'
    BY <2>1, <2>3, <2>4 DEF NoLostWakeup, NotifyTypeOK
  <2>13. ASSUME NEW x \in Handle \X (1 .. MaxPress), duty'[x] = "owed" PROVE Owed(x)'
    <3> DEFINE isNew == x[2] = presses + 1 /\ \E r \in Matching(key) : r.handle = x[1]
    <3>1. x[2] \in Pending(notifyQueue') /\ (isNew \/ duty[x] = "owed")
      BY <2>1, <2>13 DEF Forfeit, NotifyTypeOK
    <3>2. (x[2] \in Pending(notifyQueue))'
      BY <3>1 DEF Pending
    <3>3. CASE isNew
      <4>1. PICK r \in Matching(key) : r.handle = x[1]
        BY <3>3
      <4>2. x[1] \in Registered' /\ Matches(x[1], key)'
        BY <4>1 DEF Matches, Matching, Registrations, Registered, ListOK
      <4>3. \A i \in DOMAIN notifyQueue' : notifyQueue'[i].id = x[2] => notifyQueue'[i].data = key
        BY <3>3, <2>2, <2>4, <2>5, <2>9
      <4>4. InHand' => handler'.press.id # x[2]
        BY <3>3, <2>5, <2>10 DEF InHand
      <4> QED BY <3>2, <4>2, <4>3, <4>4 DEF Owed
    <3>4. CASE duty[x] = "owed" /\ ~isNew
      <4>1. Owed(x)
        BY <3>4 DEF OwedInv
      <4>2. x[2] <= presses /\ x[2] \in Nat
        BY <4>1, <2>9, <2>10 DEF Owed, Pending, InHand
      <4>3. \A i \in DOMAIN notifyQueue' :
              notifyQueue'[i].id = x[2] => Matches(x[1], notifyQueue'[i].data)
        BY <4>1, <4>2, <2>2, <2>4, <2>5 DEF Owed
      <4>4. (\A i \in DOMAIN notifyQueue : notifyQueue[i].id = x[2] => Matches(x[1], notifyQueue[i].data))'
        BY <4>3 DEF Matches, Registrations
      <4>5. (x[1] \in Registered)'
        BY <4>1 DEF Owed, Registered, Registrations
      <4>6. (InHand /\ handler.press.id = x[2] => Matches(x[1], handler.press.data) /\ Ahead(x[1]))'
        BY <4>1 DEF Owed, InHand, Ahead, Matches, Registrations
      <4> QED BY <3>2, <4>4, <4>5, <4>6 DEF Owed
    <3> QED BY <3>1, <3>3, <3>4
  <2> QED BY <2>7, <2>8, <2>11, <2>12, <2>13 DEF OwedInv
<1> QED BY <1>1, <1>2

-----------------------------------------------------------------------------
(* The readers' queue.                                                     *)

LEMMA TailKeeps ==
  ASSUME NEW q \in Seq(Press), Len(q) <= Capacity
  PROVE  LET t == IF q = <<>> THEN <<>> ELSE Tail(q)
         IN  t \in Seq(Press) /\ Len(t) <= Capacity
<1>1. CASE q = <<>>
  BY <1>1, CapacityAssumption, EmptySeq
<1>2. CASE q # <<>>
  BY <1>2, HeadTailProperties, LenProperties, CapacityAssumption
<1> QED BY <1>1, <1>2

LEMMA LeastExists ==
  ASSUME NEW T \in SUBSET Nat, T # {}
  PROVE  \E x \in T : \A y \in T : x <= y
<1> DEFINE R == {ss \in Nat \X Nat : ss[1] < ss[2]}
<1>1. IsWellFoundedOn(R, Nat)
  BY NatLessThanWellFounded DEF OpToRel
<1>2. \A x, y \in T : y < x => <<y, x>> \in R
  OBVIOUS
<1> HIDE DEF R
<1>3. PICK x \in T : \A y \in T : <<y, x>> \notin R
  BY <1>1, WFMin
<1>4. \A y \in T : ~(y < x) /\ x \in Nat /\ y \in Nat
  BY <1>2, <1>3
<1>5. \A y \in T : x <= y
  BY <1>4
<1> QED BY <1>5

LEMMA SkipPartialProperties ==
  ASSUME NEW q \in Seq(Press), Len(q) <= Capacity
  PROVE  LET r == SkipPartial(q)
         IN  /\ r \in Seq(Press) /\ Len(r) <= Capacity
             /\ r # <<>> => 1 \in DOMAIN r /\ ~IsPartial(r[1].data)
<1> DEFINE real == {i \in DOMAIN q : ~IsPartial(q[i].data)}
           m    == CHOOSE i \in real : \A j \in real : i <= j
<1>1. DOMAIN q = 1 .. Len(q) /\ Len(q) \in Nat
  BY LenProperties
<1>2. CASE real = {}
  BY <1>2, CapacityAssumption, EmptySeq DEF SkipPartial
<1>3. CASE real # {}
  <2>1. PICK k \in real : \A j \in real : k <= j
    <3>1. real \in SUBSET Nat
      BY <1>1
    <3> HIDE DEF real
    <3> QED BY <3>1, <1>3, LeastExists
  <2>2. m \in real
    BY <2>1
  <2>3. m \in 1 .. Len(q) /\ ~IsPartial(q[m].data)
    BY <2>2, <1>1
  <2>4. SkipPartial(q) = SubSeq(q, m, Len(q))
    BY <1>3 DEF SkipPartial
  <2> HIDE DEF m
  <2>5. \A i \in m .. Len(q) : q[i] \in Press
    BY <2>3, ElementOfSeq, <1>1
  <2>6. /\ SubSeq(q, m, Len(q)) \in Seq(Press)
        /\ Len(SubSeq(q, m, Len(q))) = Len(q) - m + 1
        /\ SubSeq(q, m, Len(q))[1] = q[m]
    BY <2>3, <2>5, <1>1, SubSeqProperties
  <2>7. 1 \in DOMAIN SubSeq(q, m, Len(q))
    BY <2>3, <2>6, <1>1, LenProperties
  <2> QED BY <2>3, <2>4, <2>6, <2>7, <1>1, CapacityAssumption
<1> QED BY <1>2, <1>3

LEMMA ReaderInvNext == KeyboardInv /\ [Next]_vars => ReaderInv'
<1> SUFFICES ASSUME KeyboardInv, [Next]_vars PROVE ReaderInv'
  OBVIOUS
<1> USE DEF KeyboardInv, ReaderInv
<1>0. NotifyTypeOK
  BY DEF NotifyInv
<1>1. CASE KeyboardTimerHandler
  <2>1. PICK key \in DeviceKey : /\ PollDevice(key) /\ keyQueue' = KeysAfterPoll(key)
                                 /\ promised' = (promised /\ ~Overflows(key))
    BY <1>1 DEF KeyboardTimerHandler
  <2>2. key \in PolledKey /\ UNCHANGED <<toggles, reading>>
    BY <1>1 DEF KeyboardTimerHandler, PolledKey
  <2>3. /\ keyQueue' \in Seq(Press) /\ Len(keyQueue') <= Capacity
        /\ promised' => \A j \in DOMAIN keyQueue : j \in DOMAIN keyQueue' /\ keyQueue'[j] = keyQueue[j]
    BY <2>1, <2>2, <1>0, PollForReaders
  <2>4. WaitForKeyTruthful'
    BY <2>1, <2>3 DEF WaitForKeyTruthful
  <2>5. promised' \in BOOLEAN
    BY <2>1
  <2> QED BY <2>2, <2>3, <2>4, <2>5 DEF ReaderTypeOK
<1>2. ASSUME NEW key \in PolledKey, ReadKeyStrokeWorker(key), UNCHANGED toggles, reading' \in BOOLEAN
      PROVE  ReaderInv'
  <2>1. KeysAfterPoll(key) \in Seq(Press) /\ Len(KeysAfterPoll(key)) <= Capacity
    BY <1>0, <1>2, PollForReaders DEF ReadKeyStrokeWorker
  <2>2. keyQueue' \in Seq(Press) /\ Len(keyQueue') <= Capacity
    BY <2>1, <1>2, TailKeeps DEF ReadKeyStrokeWorker
  <2> QED BY <1>2, <2>2 DEF ReaderTypeOK, WaitForKeyTruthful, ReadKeyStrokeWorker
<1>3. CASE KeyboardReadKeyStrokeEx
  BY <1>2, <1>3 DEF KeyboardReadKeyStrokeEx, ReaderTypeOK
<1>4. CASE KeyboardReadKeyStroke
  BY <1>4 DEF KeyboardReadKeyStroke, ReaderTypeOK, WaitForKeyTruthful
<1>5. CASE ReadKeyStrokeIteration
  BY <1>2, <1>5 DEF ReadKeyStrokeIteration
<1>6. CASE KeyboardWaitForKey
  <2>1. PICK key \in PolledKey : /\ PollDevice(key) /\ keyQueue' = SkipPartial(KeysAfterPoll(key))
                                 /\ promised' = (keyQueue' # <<>>)
    BY <1>6 DEF KeyboardWaitForKey
  <2>2. KeysAfterPoll(key) \in Seq(Press) /\ Len(KeysAfterPoll(key)) <= Capacity
    BY <1>0, <2>1, PollForReaders
  <2>3. /\ keyQueue' \in Seq(Press) /\ Len(keyQueue') <= Capacity
        /\ keyQueue' # <<>> => 1 \in DOMAIN keyQueue' /\ ~IsPartial(keyQueue'[1].data)
    BY <2>1, <2>2, SkipPartialProperties
  <2>4. WaitForKeyTruthful'
    BY <2>1, <2>3 DEF WaitForKeyTruthful
  <2>5. promised' \in BOOLEAN /\ UNCHANGED <<toggles, reading>>
    BY <1>6, <2>1 DEF KeyboardWaitForKey
  <2> QED BY <2>3, <2>4, <2>5 DEF ReaderTypeOK
<1>7. CASE KeyboardEfiReset
  <2>1. keyQueue' = <<>> /\ toggles' = {} /\ promised' = FALSE /\ reading' = reading
    BY <1>7 DEF KeyboardEfiReset
  <2>2. <<>> \in Seq(Press) /\ Len(<<>>) <= Capacity
    BY EmptySeq, CapacityAssumption
  <2> QED BY <2>1, <2>2 DEF ReaderTypeOK, WaitForKeyTruthful
<1>8. CASE KeyboardSetState
  <2>1. toggles' \subseteq Toggle
    BY <1>8 DEF KeyboardSetState, SetToggles, Toggle
  <2> QED BY <1>8, <2>1 DEF KeyboardSetState, ReaderTypeOK, WaitForKeyTruthful
<1>9. CASE UNCHANGED <<keyQueue, toggles, reading, promised>>
  BY <1>9 DEF ReaderTypeOK, WaitForKeyTruthful
<1>10. CASE KeyboardRegisterKeyNotify \/ KeyboardUnregisterKeyNotify
  BY <1>9, <1>10 DEF KeyboardRegisterKeyNotify, KeyboardUnregisterKeyNotify
<1>11. CASE DispatchKeyNotify \/ HandlerPop \/ HandlerWalk \/ HandlerReturn
  BY <1>9, <1>11 DEF DispatchKeyNotify, HandlerPop, HandlerWalk, HandlerReturn
<1>12. CASE UNCHANGED vars
  BY <1>9, <1>12 DEF vars
<1> QED BY <1>1, <1>3, <1>4, <1>5, <1>6, <1>7, <1>8, <1>10, <1>11, <1>12 DEF Next

-----------------------------------------------------------------------------
(* The list of registrations.                                              *)

(* What the steps that leave the queue and the keystrokes alone keep.      *)
SameQueue == UNCHANGED <<notifyQueue, notifyEvent, presses>>

LEMMA ListFacts ==
  ASSUME notifyList \in Seq(Registration)
  PROVE  /\ Len(notifyList) \in Nat /\ DOMAIN notifyList = 1 .. Len(notifyList)
         /\ \A i \in DOMAIN notifyList : /\ notifyList[i] \in Registration
                                         /\ notifyList[i].handle \in Handle
<1>1. Len(notifyList) \in Nat /\ DOMAIN notifyList = 1 .. Len(notifyList)
  BY LenProperties
<1>2. \A i \in DOMAIN notifyList : notifyList[i] \in Registration
  BY <1>1, ElementOfSeq
<1> QED BY <1>1, <1>2 DEF Registration

LEMMA IndexOfLink ==
  ASSUME notifyList \in Seq(Registration), ListOK, NEW i \in DOMAIN notifyList
  PROVE  /\ IndexOf(notifyList[i].handle) = i
         /\ NextLink(notifyList[i].handle) =
              IF i = Len(notifyList) THEN NoLink ELSE notifyList[i + 1].handle
BY DEF IndexOf, NextLink, ListOK

LEMMA RegisterKeeps == NotifyInv /\ KeyboardRegisterKeyNotify => NotifyInv'
<1> SUFFICES ASSUME NotifyInv, KeyboardRegisterKeyNotify PROVE NotifyInv'
  OBVIOUS
<1> USE DEF NotifyInv
<1>1. PICK key \in RegisterKey, fn \in NotifyFn, h \in Handle \ Registered :
        notifyList' = Append(notifyList, [handle |-> h, key |-> key, fn |-> fn])
  BY DEF KeyboardRegisterKeyNotify
<1>2. SameQueue /\ UNCHANGED <<handler, duty>> /\ handler.pc \in {"idle", "call"}
  BY DEF KeyboardRegisterKeyNotify, SameQueue, CanCall
<1> DEFINE new == [handle |-> h, key |-> key, fn |-> fn]
           m   == Len(notifyList)
<1>3. new \in Registration /\ new.handle = h
  BY DEF Registration
<1> HIDE DEF new
<1>4. m \in Nat /\ DOMAIN notifyList = 1 .. m /\ \A i \in 1 .. m : notifyList[i].handle \in Registered
  BY ListFacts DEF NotifyTypeOK, Registered, Registrations
<1>5. /\ notifyList' \in Seq(Registration) /\ DOMAIN notifyList' = 1 .. m + 1
      /\ \A i \in 1 .. m : notifyList'[i] = notifyList[i]
      /\ notifyList'[m + 1] = new
  BY <1>1, <1>3, <1>4, AppendProperties, LenProperties DEF NotifyTypeOK, new
<1>6. Registrations' = Registrations \cup {new} /\ Registered' = Registered \cup {h}
  BY <1>3, <1>4, <1>5 DEF Registrations, Registered
<1>7. NotifyTypeOK'
  BY <1>2, <1>5 DEF NotifyTypeOK, SameQueue
<1>8. ListOK'
  <2>1. \A i, j \in 1 .. m + 1 : notifyList'[i].handle = notifyList'[j].handle => i = j
    BY <1>3, <1>4, <1>5 DEF ListOK
  <2> QED BY <2>1, <1>2, <1>5, <1>6 DEF ListOK
<1>9. PressesOK' /\ NoLostWakeup'
  BY <1>2 DEF PressesOK, NoLostWakeup, InHand, SameQueue
<1>10. ASSUME NEW x \in Handle \X (1 .. MaxPress), duty[x] = "owed" PROVE Owed(x)'
  <2>1. Owed(x) /\ x[1] # h
    BY <1>10 DEF OwedInv, Owed
  <2>2. \A data : Matches(x[1], data) => Matches(x[1], data)'
    BY <1>3, <1>6, <2>1 DEF Matches
  <2>3. Ahead(x[1]) => Ahead(x[1])'
    BY <1>2, <1>4, <1>5 DEF Ahead
  <2>4. (x[2] \in Pending(notifyQueue))'
    BY <1>2, <2>1 DEF Pending, Owed, SameQueue
  <2> QED BY <1>2, <1>6, <2>1, <2>2, <2>3, <2>4 DEF Owed, InHand, SameQueue
<1> QED BY <1>2, <1>7, <1>8, <1>9, <1>10 DEF OwedInv

LEMMA UnregisterKeeps == NotifyInv /\ KeyboardUnregisterKeyNotify => NotifyInv'
<1> SUFFICES ASSUME NotifyInv, KeyboardUnregisterKeyNotify PROVE NotifyInv'
  OBVIOUS
<1> USE DEF NotifyInv
<1> DEFINE m == Len(notifyList)
<1>1. PICK k \in DOMAIN notifyList :
        /\ MayUnregister(notifyList[k].handle)
        /\ notifyList' = RemoveEntryList(k)
        /\ duty' = [x \in DOMAIN duty |-> IF x[1] = notifyList[k].handle THEN "none" ELSE duty[x]]
  BY DEF KeyboardUnregisterKeyNotify
<1>2. SameQueue /\ UNCHANGED handler /\ handler.pc \in {"idle", "call"}
  BY DEF KeyboardUnregisterKeyNotify, SameQueue, CanCall
<1>3. m \in Nat /\ DOMAIN notifyList = 1 .. m /\ k \in 1 .. m
      /\ \A i \in 1 .. m : notifyList[i] \in Registration
  BY ListFacts DEF NotifyTypeOK
<1>4. \A i \in 1 .. m - 1 : (IF i < k THEN notifyList[i] ELSE notifyList[i + 1]) \in Registration
  BY <1>3
<1>5. /\ notifyList' \in Seq(Registration) /\ DOMAIN notifyList' = 1 .. m - 1
      /\ \A i \in 1 .. m - 1 : notifyList'[i] = IF i < k THEN notifyList[i] ELSE notifyList[i + 1]
  BY <1>1, <1>3, <1>4 DEF RemoveEntryList
<1>6. \A i \in 1 .. m : i # k => \E j \in 1 .. m - 1 : /\ notifyList'[j] = notifyList[i]
                                                       /\ j = IF i < k THEN i ELSE i - 1
  BY <1>3, <1>5
<1>7. Registrations' = {r \in Registrations : r.handle # notifyList[k].handle}
  <2>1. \A i \in 1 .. m : i # k <=> notifyList[i].handle # notifyList[k].handle
    BY <1>3 DEF ListOK
  <2>2. Registrations = {notifyList[i] : i \in 1 .. m}
    BY <1>3 DEF Registrations
  <2>3. Registrations' = {notifyList'[i] : i \in 1 .. m - 1}
    BY <1>5 DEF Registrations
  <2>4. ASSUME NEW j \in 1 .. m - 1
        PROVE  \E i \in 1 .. m : i # k /\ notifyList'[j] = notifyList[i]
    <3>1. CASE j < k
      BY <3>1, <1>3, <1>5
    <3>2. CASE ~(j < k)
      <4>1. j + 1 \in 1 .. m /\ j + 1 # k
        BY <3>2, <1>3
      <4> QED BY <3>2, <4>1, <1>5
    <3> QED BY <3>1, <3>2
  <2>5. \A i \in 1 .. m : i # k => \E j \in 1 .. m - 1 : notifyList'[j] = notifyList[i]
    BY <1>6
  <2>6. ASSUME NEW r \in Registrations' PROVE r \in Registrations /\ r.handle # notifyList[k].handle
    BY <2>1, <2>2, <2>3, <2>4
  <2>7. ASSUME NEW r \in Registrations, r.handle # notifyList[k].handle PROVE r \in Registrations'
    BY <2>2, <2>3, <2>5, <2>7
  <2> QED BY <2>6, <2>7
<1>8. Registered' = Registered \ {notifyList[k].handle}
  BY <1>7 DEF Registered
<1>9. NotifyTypeOK'
  BY <1>1, <1>2, <1>5 DEF NotifyTypeOK, SameQueue, Duty
<1>10. ListOK'
  <2>1. ASSUME NEW i \in 1 .. m - 1, NEW j \in 1 .. m - 1,
               notifyList'[i].handle = notifyList'[j].handle
        PROVE  i = j
    <3> DEFINE old(n) == IF n < k THEN n ELSE n + 1
    <3>1. old(i) \in 1 .. m /\ old(j) \in 1 .. m
      BY <1>3
    <3>2. notifyList'[i] = notifyList[old(i)] /\ notifyList'[j] = notifyList[old(j)]
      BY <1>5
    <3>3. old(i) = old(j)
      BY <2>1, <3>1, <3>2, <1>3 DEF ListOK
    <3> QED BY <3>3, <1>3
  <2>2. handler'.pc = "call" => handler'.link \in Registered'
    BY <1>1, <1>2, <1>8 DEF ListOK, MayUnregister
  <2> QED BY <2>1, <2>2, <1>2, <1>5 DEF ListOK
<1>11. PressesOK' /\ NoLostWakeup'
  BY <1>2 DEF PressesOK, NoLostWakeup, InHand, SameQueue
<1>12. ASSUME NEW x \in Handle \X (1 .. MaxPress), duty'[x] = "owed" PROVE Owed(x)'
  <2>1. duty[x] = "owed" /\ x[1] # notifyList[k].handle
    BY <1>1, <1>12 DEF NotifyTypeOK
  <2>2. Owed(x)
    BY <2>1 DEF OwedInv
  <2>3. \A data : Matches(x[1], data) => Matches(x[1], data)'
    BY <1>7 DEF Matches
  <2>4. Ahead(x[1]) /\ handler.pc = "call" => Ahead(x[1])'
    <3> SUFFICES ASSUME Ahead(x[1]), handler.pc = "call" PROVE Ahead(x[1])'
      OBVIOUS
    <3>1. PICK i, j \in 1 .. m : /\ notifyList[i].handle = handler.link
                                 /\ notifyList[j].handle = x[1] /\ i < j
      BY <1>3 DEF Ahead
    <3>2. i # k /\ j # k
      BY <1>1, <2>1, <3>1 DEF MayUnregister
    <3>3. PICK ii \in 1 .. m - 1 : notifyList'[ii] = notifyList[i] /\ ii = IF i < k THEN i ELSE i - 1
      BY <1>6, <3>2
    <3>4. PICK jj \in 1 .. m - 1 : notifyList'[jj] = notifyList[j] /\ jj = IF j < k THEN j ELSE j - 1
      BY <1>6, <3>2
    <3>5. ii < jj
      BY <1>3, <3>1, <3>2, <3>3, <3>4
    <3>6. /\ notifyList'[ii].handle = handler'.link /\ notifyList'[jj].handle = x[1]
          /\ ii <= jj /\ ii # jj /\ ii \in DOMAIN notifyList' /\ jj \in DOMAIN notifyList'
      BY <1>2, <1>5, <3>1, <3>3, <3>4, <3>5
    <3> QED BY <3>6, Zenon DEF Ahead
  <2>5. (x[2] \in Pending(notifyQueue))'
    BY <1>2, <2>2 DEF Pending, Owed, SameQueue
  <2> QED BY <1>2, <1>8, <2>1, <2>2, <2>3, <2>4, <2>5 DEF Owed, InHand, SameQueue
<1> QED BY <1>9, <1>10, <1>11, <1>12 DEF OwedInv

-----------------------------------------------------------------------------
(* The handler.                                                            *)

LEMMA PopKeeps == NotifyInv /\ HandlerPop => NotifyInv'
<1> SUFFICES ASSUME NotifyInv, HandlerPop PROVE NotifyInv'
  OBVIOUS
<1> USE DEF NotifyInv
<1>1. handler.pc = "pop" /\ UNCHANGED <<notifyList, notifyEvent, presses, duty>>
  BY DEF HandlerPop
<1>2. Len(notifyList) \in Nat /\ DOMAIN notifyList = 1 .. Len(notifyList)
      /\ \A i \in DOMAIN notifyList : notifyList[i].handle \in Handle
  BY ListFacts DEF NotifyTypeOK
<1>3. CASE notifyQueue = <<>>
  <2>1. notifyQueue' = <<>> /\ handler' = [pc |-> "idle", press |-> NoKey, link |-> NoLink]
    BY <1>3 DEF HandlerPop
  <2>2. DOMAIN notifyQueue = {} /\ handler'.pc = "idle" /\ notifyQueue' = notifyQueue
    BY <1>3, <2>1
  <2>3. \A x \in Handle \X (1 .. MaxPress) : duty[x] # "owed"
    BY <1>1, <2>2 DEF OwedInv, Owed, Pending
  <2>4. NotifyTypeOK'
    BY <1>1, <2>1, <2>2 DEF NotifyTypeOK
  <2>5. ListOK' /\ PressesOK' /\ NoLostWakeup'
    BY <1>1, <2>1, <2>2 DEF ListOK, PressesOK, NoLostWakeup, InHand
  <2> QED BY <1>1, <2>3, <2>4, <2>5 DEF OwedInv
<1>4. CASE notifyQueue # <<>>
  <2>1. /\ notifyQueue' = Tail(notifyQueue)
        /\ handler' = [pc |-> "walk", press |-> Head(notifyQueue), link |-> FirstLink]
    BY <1>4 DEF HandlerPop
  <2>2. /\ notifyQueue \in Seq(Press) /\ Len(notifyQueue) \in Nat /\ Len(notifyQueue) <= Capacity
        /\ DOMAIN notifyQueue = 1 .. Len(notifyQueue)
    BY LenProperties DEF NotifyTypeOK
  <2>3. /\ Head(notifyQueue) \in Press /\ notifyQueue' \in Seq(Press)
        /\ Len(notifyQueue') = Len(notifyQueue) - 1
        /\ \A i \in 1 .. Len(notifyQueue') : notifyQueue'[i] = notifyQueue[i + 1]
    BY <1>4, <2>1, <2>2, HeadTailProperties
  <2>4. /\ 1 \in DOMAIN notifyQueue /\ Head(notifyQueue) = notifyQueue[1]
        /\ DOMAIN notifyQueue' = 1 .. Len(notifyQueue) - 1
    BY <1>4, <2>2, <2>3, EmptySeq, LenProperties
  <2>5. handler'.pc = "walk" /\ handler'.press = notifyQueue[1] /\ handler'.link = FirstLink
    BY <2>1, <2>4
  <2>6. \A i \in DOMAIN notifyQueue : i = 1 \/ (i - 1 \in DOMAIN notifyQueue' /\ notifyQueue'[i - 1] = notifyQueue[i])
    BY <2>2, <2>3, <2>4
  <2>7. \A i \in DOMAIN notifyQueue' : i + 1 \in DOMAIN notifyQueue /\ notifyQueue'[i] = notifyQueue[i + 1]
    BY <2>2, <2>3, <2>4
  <2>8. FirstLink \in Registered \cup {NoLink} /\ FirstLink \in Handle \cup {NoLink}
        /\ (notifyList # <<>> => 1 \in DOMAIN notifyList /\ FirstLink = notifyList[1].handle)
    <3>1. CASE notifyList = <<>>
      BY <3>1 DEF FirstLink
    <3>2. CASE notifyList # <<>>
      <4>1. 1 \in DOMAIN notifyList
        BY <1>2, <3>2, EmptySeq DEF NotifyTypeOK
      <4> QED BY <1>2, <3>2, <4>1 DEF FirstLink, Registered, Registrations
    <3> QED BY <3>1, <3>2
  <2>9. NotifyTypeOK'
    <3>1. Len(notifyQueue') <= Capacity
      BY <2>2, <2>3, CapacityAssumption
    <3>2. handler' \in [pc : {"idle", "pop", "walk", "call"},
                       press : Press \cup {NoKey}, link : Handle \cup {NoLink}]
      BY <2>1, <2>3, <2>8
    <3> QED BY <1>1, <2>3, <3>1, <3>2 DEF NotifyTypeOK
  <2>10. Registered' = Registered /\ Registrations' = Registrations
    BY <1>1 DEF Registered, Registrations
  <2>11. ListOK'
    BY <1>1, <2>5, <2>8, <2>10 DEF ListOK
  <2>12. PressesOK'
    <3>1. \A i \in DOMAIN notifyQueue' : notifyQueue'[i].id <= presses'
      BY <1>1, <2>7 DEF PressesOK
    <3>2. handler'.press \in Press /\ handler'.press.id <= presses'
      BY <1>1, <2>3, <2>4, <2>5 DEF PressesOK
    <3> QED BY <3>1, <3>2 DEF PressesOK
  <2>13. NoLostWakeup'
    BY <2>5 DEF NoLostWakeup
  <2>14. ASSUME NEW x \in Handle \X (1 .. MaxPress), duty[x] = "owed" PROVE Owed(x)'
    <3>1. Owed(x)
      BY <2>14 DEF OwedInv
    <3>2. \E i \in DOMAIN notifyQueue : notifyQueue[i].id = x[2]
      BY <3>1, <1>1 DEF Owed, Pending
    <3>3. (x[2] \in Pending(notifyQueue))'
      BY <3>2, <2>5, <2>6 DEF Pending
    <3>4. \A data : Matches(x[1], data)' <=> Matches(x[1], data)
      BY <2>10 DEF Matches
    <3>5. \A i \in DOMAIN notifyQueue' : notifyQueue'[i].id = x[2] => Matches(x[1], notifyQueue'[i].data)
      BY <3>1, <2>7 DEF Owed
    <3>6. notifyQueue[1].id = x[2] => Matches(x[1], notifyQueue[1].data)
      BY <3>1, <2>4 DEF Owed
    <3>7. Ahead(x[1])'
      <4>1. PICK j \in DOMAIN notifyList : notifyList[j].handle = x[1]
        BY <3>1 DEF Owed, Registered, Registrations
      <4>2. notifyList # <<>> /\ 1 <= j
        BY <4>1, <1>2
      <4>3. 1 \in DOMAIN notifyList /\ notifyList[1].handle = handler'.link
        BY <4>2, <2>5, <2>8
      <4>4. notifyList' = notifyList /\ handler'.pc # "call"
        BY <1>1, <2>5
      <4> QED BY <4>1, <4>2, <4>3, <4>4 DEF Ahead
    <3> QED BY <2>5, <2>10, <3>1, <3>3, <3>4, <3>5, <3>6, <3>7 DEF Owed
  <2> QED BY <1>1, <2>9, <2>11, <2>12, <2>13, <2>14 DEF OwedInv
<1> QED BY <1>3, <1>4

(***************************************************************************)
(* The walk goes on behind a registration that the keystroke in hand does  *)
(* not match or whose function was called; nobody who is owed it is passed *)
(* over.                                                                   *)
(***************************************************************************)
LEMMA NextLinkKeeps ==
  ASSUME NotifyInv, InHand, NEW k \in DOMAIN notifyList, handler.link = notifyList[k].handle,
         handler' = [handler EXCEPT !.pc = "walk", !.link = NextLink(notifyList[k].handle)],
         UNCHANGED <<notifyQueue, notifyList, notifyEvent, presses, duty>>,
         \A x \in Handle \X (1 .. MaxPress) :
           duty[x] = "owed" /\ x[2] = handler.press.id => x[1] # handler.link
  PROVE  NotifyInv'
<1> USE DEF NotifyInv
<1> DEFINE m == Len(notifyList)
<1>1. m \in Nat /\ DOMAIN notifyList = 1 .. m /\ \A i \in 1 .. m : notifyList[i].handle \in Handle
  BY ListFacts DEF NotifyTypeOK
<1>2. NextLink(notifyList[k].handle) = IF k = m THEN NoLink ELSE notifyList[k + 1].handle
  BY IndexOfLink DEF NotifyTypeOK
<1>3. /\ handler'.pc = "walk" /\ handler'.press = handler.press
      /\ handler'.link = IF k = m THEN NoLink ELSE notifyList[k + 1].handle
  BY <1>2 DEF NotifyTypeOK
<1>4. k # m => k + 1 \in 1 .. m
  BY <1>1
<1>5. handler'.link \in Registered \cup {NoLink} /\ handler'.link \in Handle \cup {NoLink}
  BY <1>1, <1>3, <1>4 DEF Registered, Registrations
<1>6. NotifyTypeOK'
  BY <1>3, <1>5 DEF NotifyTypeOK
<1>7. Registered' = Registered /\ Registrations' = Registrations
  BY DEF Registered, Registrations
<1>8. ListOK' /\ PressesOK' /\ NoLostWakeup'
  BY <1>3, <1>5, <1>7 DEF ListOK, PressesOK, NoLostWakeup, InHand
<1>9. ASSUME NEW x \in Handle \X (1 .. MaxPress), duty[x] = "owed" PROVE Owed(x)'
  <2>1. Owed(x)
    BY <1>9 DEF OwedInv
  <2>2. (x[2] \in Pending(notifyQueue))'
    BY <1>3, <2>1 DEF Pending, Owed, InHand
  <2>3. \A data : Matches(x[1], data)' <=> Matches(x[1], data)
    BY <1>7 DEF Matches
  <2>4. handler.press.id = x[2] => Ahead(x[1])'
    <3> SUFFICES ASSUME handler.press.id = x[2] PROVE Ahead(x[1])'
      OBVIOUS
    <3>1. Ahead(x[1]) /\ x[1] # handler.link
      BY <1>9, <2>1 DEF Owed
    <3>2. PICK i, j \in 1 .. m : notifyList[i].handle = handler.link /\ notifyList[j].handle = x[1] /\ i <= j
      BY <1>1, <3>1 DEF Ahead
    <3>3. i = k /\ j # k
      BY <1>1, <3>1, <3>2 DEF ListOK
    <3>4. k # m /\ k + 1 \in 1 .. m /\ k + 1 <= j
      BY <1>1, <3>2, <3>3
    <3>5. notifyList' = notifyList /\ handler'.pc # "call" /\ notifyList[k + 1].handle = handler'.link
      BY <1>3, <3>4
    <3> QED BY <1>1, <3>2, <3>4, <3>5 DEF Ahead
  <2> QED BY <1>3, <1>7, <2>1, <2>2, <2>3, <2>4 DEF Owed, InHand
<1> QED BY <1>6, <1>8, <1>9 DEF OwedInv

LEMMA WalkKeeps == NotifyInv /\ HandlerWalk => NotifyInv'
<1> SUFFICES ASSUME NotifyInv, HandlerWalk PROVE NotifyInv'
  OBVIOUS
<1> USE DEF NotifyInv
<1>1. handler.pc = "walk" /\ InHand /\ UNCHANGED <<notifyQueue, notifyList, notifyEvent, presses>>
  BY DEF HandlerWalk, InHand
<1>2. /\ handler \in [pc : {"idle", "pop", "walk", "call"},
                      press : Press \cup {NoKey}, link : Handle \cup {NoLink}]
      /\ handler.press \in Press
  BY <1>1 DEF NotifyTypeOK, PressesOK
<1>3. /\ \A i \in DOMAIN notifyList : notifyList[i].handle \in Handle
      /\ Registered' = Registered /\ Registrations' = Registrations
  BY <1>1, ListFacts DEF NotifyTypeOK, Registered, Registrations
<1>4. CASE handler.link = NoLink
  <2>1. handler' = [handler EXCEPT !.pc = "pop"] /\ UNCHANGED duty
    BY <1>4 DEF HandlerWalk
  <2>2. handler'.pc = "pop" /\ handler' \in [pc : {"idle", "pop", "walk", "call"},
                                            press : Press \cup {NoKey}, link : Handle \cup {NoLink}]
    BY <1>2, <2>1
  <2>3. NotifyTypeOK'
    BY <1>1, <2>1, <2>2 DEF NotifyTypeOK
  <2>4. ListOK' /\ PressesOK' /\ NoLostWakeup'
    BY <1>1, <2>2 DEF ListOK, PressesOK, NoLostWakeup, InHand
  <2>5. ASSUME NEW x \in Handle \X (1 .. MaxPress), duty[x] = "owed" PROVE Owed(x)'
    <3>1. Owed(x)
      BY <2>5 DEF OwedInv
    <3>2. handler.press.id # x[2]
      BY <1>1, <1>3, <1>4, <3>1, LinkAssumption DEF Owed, Ahead
    <3>3. \E i \in DOMAIN notifyQueue : notifyQueue[i].id = x[2]
      BY <3>1, <3>2 DEF Owed, Pending
    <3>4. \A data : Matches(x[1], data)' <=> Matches(x[1], data)
      BY <1>3 DEF Matches
    <3> QED BY <1>1, <1>3, <2>2, <3>1, <3>3, <3>4 DEF Owed, InHand, Pending
  <2> QED BY <2>1, <2>3, <2>4, <2>5 DEF OwedInv
<1>5. CASE handler.link # NoLink
  <2>1. PICK k \in DOMAIN notifyList : notifyList[k].handle = handler.link
    BY <1>1, <1>5 DEF ListOK, Registered, Registrations
  <2>2. IndexOf(handler.link) = k
    BY <2>1, IndexOfLink DEF NotifyTypeOK
  <2> DEFINE r == notifyList[k]
  <2>3. CASE IsKeyRegistered(r.key, handler.press.data)
    <3>1. /\ handler' = [handler EXCEPT !.pc = "call"]
          /\ duty' = [duty EXCEPT ![<<r.handle, handler.press.id>>] = "served"]
      BY <1>5, <2>2, <2>3 DEF HandlerWalk
    <3>2. handler'.pc = "call" /\ handler'.press = handler.press /\ handler'.link = handler.link
          /\ handler' \in [pc : {"idle", "pop", "walk", "call"},
                           press : Press \cup {NoKey}, link : Handle \cup {NoLink}]
      BY <1>2, <3>1
    <3>3. duty' \in [Handle \X (1 .. MaxPress) -> Duty]
      BY <3>1 DEF NotifyTypeOK, Duty
    <3>4. NotifyTypeOK'
      BY <1>1, <3>2, <3>3 DEF NotifyTypeOK
    <3>5. handler.link \in Registered
      BY <2>1 DEF Registered, Registrations
    <3>6. ListOK' /\ PressesOK' /\ NoLostWakeup'
      BY <1>1, <1>3, <3>2, <3>5 DEF ListOK, PressesOK, NoLostWakeup, InHand
    <3>7. ASSUME NEW x \in Handle \X (1 .. MaxPress), duty'[x] = "owed" PROVE Owed(x)'
      <4>1. r.handle \in Handle /\ handler.press.id \in 1 .. MaxPress
        BY <1>2, <1>3 DEF Press
      <4>2. duty[x] = "owed" /\ x # <<r.handle, handler.press.id>>
        BY <3>1, <3>7, <4>1 DEF NotifyTypeOK
      <4>3. Owed(x)
        BY <4>2 DEF OwedInv
      <4>4. \A data : Matches(x[1], data)' <=> Matches(x[1], data)
        BY <1>3 DEF Matches
      <4>5. handler.press.id = x[2] => Ahead(x[1])'
        <5> SUFFICES ASSUME handler.press.id = x[2] PROVE Ahead(x[1])'
          OBVIOUS
        <5>1. x[1] # handler.link
          BY <2>1, <4>2
        <5>2. PICK i, j \in DOMAIN notifyList :
                notifyList[i].handle = handler.link /\ notifyList[j].handle = x[1] /\ i <= j
          BY <1>1, <4>3 DEF Owed, Ahead
        <5>3. i # j
          BY <5>1, <5>2
        <5> QED BY <1>1, <3>2, <5>2, <5>3 DEF Ahead
      <4>6. (x[2] \in Pending(notifyQueue))'
        BY <1>1, <3>2, <4>3 DEF Pending, Owed
      <4> QED BY <1>1, <1>3, <3>2, <4>3, <4>4, <4>5, <4>6 DEF Owed, InHand
    <3> QED BY <3>4, <3>6, <3>7 DEF OwedInv
  <2>4. CASE ~IsKeyRegistered(r.key, handler.press.data)
    <3>1. handler' = [handler EXCEPT !.link = NextLink(r.handle)] /\ UNCHANGED duty
      BY <1>5, <2>2, <2>4 DEF HandlerWalk
    <3>2. handler' = [handler EXCEPT !.pc = "walk", !.link = NextLink(r.handle)]
      BY <1>1, <1>2, <3>1
    <3>3. ASSUME NEW x \in Handle \X (1 .. MaxPress), duty[x] = "owed", x[2] = handler.press.id
          PROVE  x[1] # handler.link
      <4>1. Matches(x[1], handler.press.data)
        BY <1>1, <3>3 DEF OwedInv, Owed
      <4>2. r \in Registrations
        BY <2>1 DEF Registrations
      <4> QED BY <2>1, <2>4, <4>1, <4>2 DEF Matches
    <3> QED BY <1>1, <2>1, <3>1, <3>2, <3>3, NextLinkKeeps
  <2> QED BY <2>3, <2>4
<1> QED BY <1>4, <1>5

LEMMA ReturnKeeps == NotifyInv /\ HandlerReturn => NotifyInv'
<1> SUFFICES ASSUME NotifyInv, HandlerReturn PROVE NotifyInv'
  OBVIOUS
<1> USE DEF NotifyInv
<1>1. /\ handler.pc = "call" /\ InHand
      /\ UNCHANGED <<notifyQueue, notifyList, notifyEvent, presses, duty>>
      /\ handler' = [handler EXCEPT !.pc = "walk", !.link = NextLink(handler.link)]
  BY DEF HandlerReturn, InHand
<1>2. PICK k \in DOMAIN notifyList : notifyList[k].handle = handler.link
  BY <1>1 DEF ListOK, Registered, Registrations
<1>3. ASSUME NEW x \in Handle \X (1 .. MaxPress), duty[x] = "owed", x[2] = handler.press.id
      PROVE  x[1] # handler.link
  <2>1. Ahead(x[1])
    BY <1>1, <1>3 DEF OwedInv, Owed
  <2>2. PICK i, j \in DOMAIN notifyList :
          notifyList[i].handle = handler.link /\ notifyList[j].handle = x[1] /\ i # j
    BY <1>1, <2>1 DEF Ahead
  <2> QED BY <2>2 DEF ListOK
<1> QED BY <1>1, <1>2, <1>3, NextLinkKeeps

-----------------------------------------------------------------------------
LEMMA NotifyInvNext == NotifyInv /\ [Next]_vars => NotifyInv'
<1> SUFFICES ASSUME NotifyInv, [Next]_vars PROVE NotifyInv'
  OBVIOUS
<1>1. CASE KeyboardTimerHandler
  BY <1>1, PollForFunctions DEF KeyboardTimerHandler, PolledKey
<1>2. CASE KeyboardReadKeyStrokeEx
  BY <1>2, PollForFunctions DEF KeyboardReadKeyStrokeEx, ReadKeyStrokeWorker
<1>3. CASE ReadKeyStrokeIteration
  BY <1>3, PollForFunctions DEF ReadKeyStrokeIteration, ReadKeyStrokeWorker
<1>4. CASE KeyboardWaitForKey
  BY <1>4, PollForFunctions DEF KeyboardWaitForKey
<1>5. CASE KeyboardEfiReset
  <2>1. /\ notifyQueue' = <<>> /\ duty' = Forfeit(duty, <<>>)
        /\ UNCHANGED <<notifyList, notifyEvent, handler, presses>>
    BY <1>5 DEF KeyboardEfiReset
  <2>2. notifyQueue' \in Seq(Press) /\ Len(notifyQueue') <= Capacity /\ DOMAIN notifyQueue' = {}
    BY <2>1, EmptySeq, CapacityAssumption
  <2>3. duty' \in [Handle \X (1 .. MaxPress) -> Duty]
    BY <2>1 DEF NotifyInv, NotifyTypeOK, Forfeit, Duty
  <2>4. NotifyTypeOK'
    BY <2>1, <2>2, <2>3 DEF NotifyInv, NotifyTypeOK
  <2>5. Registered' = Registered /\ Registrations' = Registrations
    BY <2>1 DEF Registered, Registrations
  <2>6. ListOK' /\ PressesOK' /\ NoLostWakeup'
    BY <2>1, <2>2, <2>5 DEF NotifyInv, ListOK, PressesOK, NoLostWakeup, InHand
  <2>7. ASSUME NEW x \in Handle \X (1 .. MaxPress), duty'[x] = "owed" PROVE Owed(x)'
    <3>1. duty[x] = "owed" /\ x[2] \in Pending(<<>>)
      BY <2>1, <2>7 DEF NotifyInv, NotifyTypeOK, Forfeit
    <3>2. Owed(x)
      BY <3>1 DEF NotifyInv, OwedInv
    <3>3. (x[2] \in Pending(notifyQueue))'
      BY <2>1, <3>1 DEF Pending
    <3>4. \A data : Matches(x[1], data)' <=> Matches(x[1], data)
      BY <2>5 DEF Matches
    <3>5. Ahead(x[1])' <=> Ahead(x[1])
      BY <2>1 DEF Ahead
    <3> QED BY <2>1, <2>2, <2>5, <3>2, <3>3, <3>4, <3>5 DEF Owed, InHand
  <2> QED BY <2>4, <2>6, <2>7 DEF NotifyInv, OwedInv
<1>6. CASE UNCHANGED <<notifyQueue, notifyList, notifyEvent, handler, presses, duty>>
  BY <1>6 DEF NotifyInv, NotifyTypeOK, ListOK, PressesOK, OwedInv, Owed, NoLostWakeup,
     InHand, Ahead, Matches, Registrations, Registered, Pending
<1>7. CASE KeyboardReadKeyStroke \/ KeyboardSetState \/ UNCHANGED vars
  BY <1>6, <1>7 DEF KeyboardReadKeyStroke, KeyboardSetState, vars
<1>8. CASE DispatchKeyNotify
  <2>1. handler.pc = "idle" /\ handler' = [handler EXCEPT !.pc = "pop"] /\ notifyEvent' = FALSE
        /\ UNCHANGED <<notifyQueue, notifyList, presses, duty>>
    BY <1>8 DEF DispatchKeyNotify
  <2>2. handler'.pc = "pop" /\ handler' \in [pc : {"idle", "pop", "walk", "call"},
                                            press : Press \cup {NoKey}, link : Handle \cup {NoLink}]
    BY <2>1 DEF NotifyInv, NotifyTypeOK
  <2>3. NotifyTypeOK'
    BY <2>1, <2>2 DEF NotifyInv, NotifyTypeOK
  <2>4. ListOK' /\ PressesOK' /\ NoLostWakeup'
    BY <2>1, <2>2 DEF NotifyInv, ListOK, PressesOK, NoLostWakeup, InHand
  <2>5. Registered' = Registered /\ Registrations' = Registrations
    BY <2>1 DEF Registered, Registrations
  <2>6. ASSUME NEW x \in Handle \X (1 .. MaxPress), duty[x] = "owed" PROVE Owed(x)'
    <3>1. Owed(x)
      BY <2>6 DEF NotifyInv, OwedInv
    <3>2. (x[2] \in Pending(notifyQueue))'
      BY <2>1, <2>2, <3>1 DEF Pending, Owed
    <3>3. \A data : Matches(x[1], data)' <=> Matches(x[1], data)
      BY <2>5 DEF Matches
    <3> QED BY <2>1, <2>2, <2>5, <3>1, <3>2, <3>3 DEF Owed, InHand
  <2> QED BY <2>1, <2>3, <2>4, <2>6 DEF NotifyInv, OwedInv
<1>9. CASE KeyboardRegisterKeyNotify
  BY <1>9, RegisterKeeps
<1>10. CASE KeyboardUnregisterKeyNotify
  BY <1>10, UnregisterKeeps
<1>11. CASE HandlerPop
  BY <1>11, PopKeeps
<1>12. CASE HandlerWalk
  BY <1>12, WalkKeeps
<1>13. CASE HandlerReturn
  BY <1>13, ReturnKeeps
<1> QED BY <1>1, <1>2, <1>3, <1>4, <1>5, <1>7, <1>8, <1>9, <1>10, <1>11, <1>12, <1>13 DEF Next

LEMMA KeyboardInvInit == Init => KeyboardInv
<1> SUFFICES ASSUME Init PROVE KeyboardInv
  OBVIOUS
<1>1. <<>> \in Seq(Press) /\ <<>> \in Seq(Registration) /\ Len(<<>>) <= Capacity
  BY EmptySeq, CapacityAssumption
<1>2. handler \in [pc : {"idle", "pop", "walk", "call"},
                  press : Press \cup {NoKey}, link : Handle \cup {NoLink}]
  BY DEF Init
<1>3. duty \in [Handle \X (1 .. MaxPress) -> Duty]
  BY DEF Init, Duty
<1>4. presses \in 0 .. MaxPress
  BY MaxPressAssumption DEF Init
<1>5. NotifyTypeOK /\ ReaderTypeOK
  BY <1>1, <1>2, <1>3, <1>4 DEF Init, NotifyTypeOK, ReaderTypeOK
<1>6. OwedInv
  BY DEF Init, OwedInv
<1>7. ListOK /\ PressesOK /\ NoLostWakeup /\ WaitForKeyTruthful
  BY DEF Init, ListOK, PressesOK, NoLostWakeup, WaitForKeyTruthful, InHand
<1> QED BY <1>5, <1>6, <1>7 DEF KeyboardInv, NotifyInv, ReaderInv

(***************************************************************************)
(* What is under way in a started keyboard, for every queue length, set of *)
(* keys and number of registrations.                                       *)
(***************************************************************************)
THEOREM KeyboardInvariant == Spec => []KeyboardInv
<1>1. KeyboardInv /\ [Next]_vars => KeyboardInv'
  BY NotifyInvNext, ReaderInvNext DEF KeyboardInv
<1> QED BY <1>1, KeyboardInvInit, PTL DEF Spec

(* Head, queues, list and flags keep their types.                          *)
THEOREM KeyboardTypes == Spec => []TypeOK
<1>1. KeyboardInv => TypeOK
  BY DEF KeyboardInv, NotifyInv, NotifyTypeOK, ReaderInv, ReaderTypeOK, TypeOK
<1> QED BY <1>1, KeyboardInvariant, PTL

(* No keystroke waits in the notify queue without a signal or a handler.   *)
THEOREM WakeupsArrive == Spec => []NoLostWakeup
<1>1. KeyboardInv => NoLostWakeup
  BY DEF KeyboardInv, NotifyInv
<1> QED BY <1>1, KeyboardInvariant, PTL

(* The walk over a list that changes under it skips no registration.       *)
THEOREM NobodyIsSkipped == Spec => []NothingOwedWhenDone
<1>1. KeyboardInv => NothingOwedWhenDone
  <2> SUFFICES ASSUME KeyboardInv, handler.pc = "idle", notifyQueue = <<>>,
                      NEW x \in DOMAIN duty, duty[x] = "owed"
               PROVE  FALSE
    BY DEF NothingOwedWhenDone
  <2>1. x \in Handle \X (1 .. MaxPress) /\ Owed(x)
    BY DEF KeyboardInv, NotifyInv, NotifyTypeOK, OwedInv
  <2>2. x[2] \in Pending(notifyQueue)
    BY <2>1 DEF Owed
  <2> QED BY <2>2 DEF Pending
<1> QED BY <1>1, KeyboardInvariant, PTL

(* A signalled WaitForKey means a real keystroke for the next reader.      *)
THEOREM WaitForKeyIsTrue == Spec => []WaitForKeyTruthful
<1>1. KeyboardInv => WaitForKeyTruthful
  BY DEF KeyboardInv, ReaderInv
<1> QED BY <1>1, KeyboardInvariant, PTL
=============================================================================
