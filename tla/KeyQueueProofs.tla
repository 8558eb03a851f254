--------------------------- MODULE KeyQueueProofs ---------------------------
(***************************************************************************)
(* KeyQueue is type correct and implements KeyFifo, for every number of    *)
(* slots and every set of keystrokes; and the keys of the controller come  *)
(* through it in the order typed, for every depth of the controller's FIFO *)
(* and whatever GetKeys loses.                                             *)
(***************************************************************************)
EXTENDS KeyboardPath, Sequences, SequenceTheorems, TLAPS

(* The successor of a slot, without the modulus. *)
LEMMA SuccValue ==
  ASSUME NEW i \in Slot
  PROVE  /\ Succ(i) = IF i + 1 = KeyMaxCount THEN 0 ELSE i + 1
         /\ Succ(i) \in Slot
<1>1. CASE i + 1 = KeyMaxCount
  BY <1>1, KeyMaxCountAssumption DEF Slot, Succ
<1>2. CASE i + 1 < KeyMaxCount
  BY <1>2, KeyMaxCountAssumption DEF Slot, Succ
<1> QED BY <1>1, <1>2, KeyMaxCountAssumption DEF Slot

(***************************************************************************)
(* TypeOK: both indices stay inside the buffer of the source, so that no   *)
(* push or pop touches memory outside of it.                               *)
(***************************************************************************)
LEMMA TypeOKInit == Init => TypeOK
BY KeyMaxCountAssumption, ZeroKeyAssumption DEF Init, TypeOK, Slot

LEMMA TypeOKNext == TypeOK /\ [Next]_vars => TypeOK'
<1> SUFFICES ASSUME TypeOK, [Next]_vars PROVE TypeOK'
  OBVIOUS
<1> USE DEF TypeOK
<1>1. ASSUME NEW k \in Key, PushEfikeyBufTail(k) PROVE TypeOK'
  BY <1>1, SuccValue DEF PushEfikeyBufTail
<1>2. CASE PopEfikeyBufHead
  BY <1>2, SuccValue DEF PopEfikeyBufHead
<1>3. CASE ClearQueue
  BY <1>3, KeyMaxCountAssumption DEF ClearQueue, Slot
<1>4. CASE UNCHANGED vars
  BY <1>4 DEF vars
<1> QED BY <1>1, <1>2, <1>3, <1>4 DEF Next

THEOREM TypeCorrect == Spec => []TypeOK
BY TypeOKInit, TypeOKNext, PTL DEF Spec

-----------------------------------------------------------------------------

(* Count and SlotOf name slots of the buffer. *)
LEMMA CountRange ==
  TypeOK => /\ Count \in 0 .. KeyMaxCount - 1
            /\ \A i \in 1 .. Count : SlotOf(i) \in Slot
            /\ IsEfikeyBufEmpty <=> Count = 0
BY KeyMaxCountAssumption DEF TypeOK, Count, SlotOf, Slot, IsEfikeyBufEmpty

(* What the mapped queue is, slot by slot. *)
ContentsFacts ==
  /\ Contents \in Seq(Key)
  /\ Len(Contents) = Count
  /\ Contents = <<>> <=> IsEfikeyBufEmpty
  /\ \A i \in 1 .. Count : Contents[i] = buffer[SlotOf(i)]

LEMMA ContentsSeq == TypeOK => ContentsFacts
<1> SUFFICES ASSUME TypeOK PROVE ContentsFacts
  OBVIOUS
<1>1. /\ Count \in Nat
      /\ \A i \in 1 .. Count : buffer[SlotOf(i)] \in Key
  BY CountRange, KeyMaxCountAssumption DEF TypeOK
<1>2. Contents \in Seq(Key) /\ Len(Contents) = Count
  BY <1>1 DEF Contents
<1>3. Contents = <<>> <=> Count = 0
  BY <1>1, <1>2
<1> QED BY <1>2, <1>3, CountRange DEF Contents, ContentsFacts

(* Two sequences of the same length and elements are equal. *)
LEMMA SameSequence ==
  ASSUME NEW S, NEW s \in Seq(S), NEW t \in Seq(S), Len(s) = Len(t),
         \A i \in 1 .. Len(s) : s[i] = t[i]
  PROVE  s = t
OBVIOUS

(* The queue is full exactly when one slot is left. *)
LEMMA FullCount == TypeOK => (IsFull <=> Count = KeyMaxCount - 1)
BY SuccValue, KeyMaxCountAssumption DEF TypeOK, IsFull, Count, Slot

-----------------------------------------------------------------------------
(***************************************************************************)
(* Each operation of the ring buffer is the operation of KeyFifo.          *)
(***************************************************************************)
LEMMA PushIsFifoPush ==
  ASSUME TypeOK, TypeOK', NEW k \in Key, PushEfikeyBufTail(k)
  PROVE  Fifo!Push(k)
<1>0. PICK dropped \in 0 .. 1 : dropped = IF IsFull THEN 1 ELSE 0
  OBVIOUS
<1>1. PICK n \in 0 .. KeyMaxCount - 1 : n = Count
  BY CountRange
<1> DEFINE kept == Fifo!MakeRoom(Contents)
<1>2. /\ head' = IF dropped = 1 THEN Succ(head) ELSE head
      /\ tail' = Succ(tail)
      /\ buffer' = [buffer EXCEPT ![tail] = k]
      /\ answer' = answer
      /\ latest' = k
  BY <1>0 DEF PushEfikeyBufTail
<1>3. /\ kept \in Seq(Key)
      /\ Len(kept) = n - dropped
      /\ \A i \in 1 .. n - dropped : kept[i] = buffer[SlotOf(i + dropped)]
  <2>1. CASE dropped = 1
    <3>1. kept = Tail(Contents) /\ n = KeyMaxCount - 1
      BY <2>1, <1>0, <1>1, ContentsSeq, FullCount
         DEF Fifo!MakeRoom, ContentsFacts
    <3> QED BY <3>1, <2>1, <1>1, ContentsSeq, KeyMaxCountAssumption
            DEF ContentsFacts
  <2>2. CASE dropped = 0
    <3>1. kept = Contents
      BY <2>2, <1>0, <1>1, ContentsSeq, FullCount
         DEF Fifo!MakeRoom, ContentsFacts
    <3> QED BY <3>1, <2>2, <1>1, ContentsSeq, KeyMaxCountAssumption
            DEF ContentsFacts
  <2> QED BY <2>1, <2>2
(* The arithmetic of the indices, with Succ and IsFull expanded. *)
<1>4. /\ head \in Nat /\ head < KeyMaxCount
      /\ tail \in Nat /\ tail < KeyMaxCount
      /\ KeyMaxCount \in Nat /\ KeyMaxCount > 1
      /\ tail' = IF tail + 1 = KeyMaxCount THEN 0 ELSE tail + 1
      /\ dropped = 0 => head' = head /\ tail' # head
      /\ dropped = 1 =>
           /\ head' = IF head + 1 = KeyMaxCount THEN 0 ELSE head + 1
           /\ tail' = head
      /\ n = IF tail >= head THEN tail - head ELSE tail - head + KeyMaxCount
  BY <1>0, <1>1, <1>2, SuccValue, KeyMaxCountAssumption
     DEF TypeOK, Slot, IsFull, Count
<1>5. Count' = n - dropped + 1
  <2>1. CASE dropped = 0 BY <2>1, <1>4 DEF Count
  <2>2. CASE dropped = 1 BY <2>2, <1>4 DEF Count
  <2> QED BY <2>1, <2>2
<1>6. ASSUME NEW i \in 1 .. n - dropped
      PROVE  /\ SlotOf(i)' = SlotOf(i + dropped)
             /\ SlotOf(i)' \in Slot
             /\ SlotOf(i)' # tail
  <2>1. CASE dropped = 0 BY <2>1, <1>4 DEF SlotOf, Slot
  <2>2. CASE dropped = 1 BY <2>2, <1>4 DEF SlotOf, Slot
  <2> QED BY <2>1, <2>2
<1>7. ASSUME NEW i \in Nat, i = n - dropped + 1
      PROVE  SlotOf(i)' = tail
  <2>1. CASE dropped = 0 BY <2>1, <1>4, <1>7 DEF SlotOf
  <2>2. CASE dropped = 1 BY <2>2, <1>4, <1>7 DEF SlotOf
  <2> QED BY <2>1, <2>2
<1>8. ContentsFacts'
  BY ContentsSeq, PTL
<1>9. Append(kept, k) \in Seq(Key) /\ Len(Append(kept, k)) = n - dropped + 1
  BY <1>3
<1>10. ASSUME NEW i \in 1 .. n - dropped + 1
       PROVE  Contents'[i] = Append(kept, k)[i]
  <2>0. Contents'[i] = buffer'[SlotOf(i)']
    BY <1>5, <1>8 DEF ContentsFacts
  <2>1. CASE i \in 1 .. n - dropped
    <3>1. buffer'[SlotOf(i)'] = buffer[SlotOf(i + dropped)]
      BY <2>1, <1>2, <1>6 DEF TypeOK
    <3>2. Append(kept, k)[i] = kept[i]
      BY <2>1, <1>3
    <3> QED BY <2>0, <2>1, <3>1, <3>2, <1>3
  <2>2. CASE i = n - dropped + 1
    <3>1. buffer'[SlotOf(i)'] = k
      BY <2>2, <1>2, <1>7 DEF TypeOK
    <3>2. Append(kept, k)[i] = k
      BY <2>2, <1>3
    <3> QED BY <2>0, <3>1, <3>2
  <2>3. i \in 1 .. n - dropped \/ i = n - dropped + 1
    BY <1>0, <1>1, KeyMaxCountAssumption
  <2> QED BY <2>1, <2>2, <2>3
<1>11. Contents' = Append(kept, k)
  BY <1>5, <1>8, <1>9, <1>10, SameSequence DEF ContentsFacts
<1> QED BY <1>2, <1>11 DEF Fifo!Push

LEMMA PopIsFifoPop ==
  ASSUME TypeOK, TypeOK', PopEfikeyBufHead
  PROVE  Fifo!Pop \/ Fifo!PopEmpty
<1>0. ContentsFacts /\ ContentsFacts'
  BY ContentsSeq, PTL
<1>1. CASE IsEfikeyBufEmpty
  <2>1. /\ head' = head /\ tail' = tail /\ buffer' = buffer /\ answer' = NotReady
      /\ latest' = latest
    BY <1>1 DEF PopEfikeyBufHead
  <2>2. Contents' = Contents
    BY <2>1 DEF Contents, Count, SlotOf
  <2> QED BY <1>0, <1>1, <2>1, <2>2 DEF ContentsFacts, Fifo!PopEmpty
<1>2. CASE ~IsEfikeyBufEmpty
  <2>1. PICK n \in 1 .. KeyMaxCount - 1 : n = Count
    BY <1>2, CountRange, KeyMaxCountAssumption
  <2>2. /\ head' = Succ(head) /\ tail' = tail /\ buffer' = buffer
        /\ answer' = buffer[head] /\ latest' = latest
    BY <1>2 DEF PopEfikeyBufHead
  (* The arithmetic of the indices, with Succ expanded. *)
  <2>3. /\ head \in Nat /\ head < KeyMaxCount
        /\ tail \in Nat /\ tail < KeyMaxCount
        /\ KeyMaxCount \in Nat
        /\ tail' = tail /\ tail # head
        /\ head' = IF head + 1 = KeyMaxCount THEN 0 ELSE head + 1
        /\ n = IF tail >= head THEN tail - head ELSE tail - head + KeyMaxCount
    BY <1>2, <2>1, <2>2, SuccValue, KeyMaxCountAssumption
       DEF TypeOK, Slot, IsEfikeyBufEmpty, Count
  <2>4. Count' = n - 1
    BY <2>3 DEF Count
  <2>5. ASSUME NEW i \in 1 .. n - 1 PROVE SlotOf(i)' = SlotOf(i + 1)
    BY <2>3 DEF SlotOf
  <2>6. SlotOf(1) = head
    BY <2>3 DEF SlotOf
  <2>7. /\ Tail(Contents) \in Seq(Key)
        /\ Len(Tail(Contents)) = n - 1
        /\ \A i \in 1 .. n - 1 : Tail(Contents)[i] = buffer[SlotOf(i + 1)]
    BY <1>0, <2>1 DEF ContentsFacts
  <2>8. \A i \in 1 .. n - 1 : Contents'[i] = Tail(Contents)[i]
    BY <1>0, <2>2, <2>4, <2>5, <2>7 DEF ContentsFacts
  <2>9. Contents' = Tail(Contents)
    BY <1>0, <2>4, <2>7, <2>8, SameSequence DEF ContentsFacts
  <2>10. Contents # <<>> /\ Head(Contents) = buffer[head]
    BY <1>0, <1>2, <2>1, <2>6 DEF ContentsFacts
  <2> QED BY <2>2, <2>9, <2>10 DEF Fifo!Pop
<1> QED BY <1>1, <1>2

LEMMA ClearIsFifoClear ==
  ASSUME TypeOK', ClearQueue
  PROVE  Fifo!Clear
<1>1. ContentsFacts'
  BY ContentsSeq, PTL
<1>2. IsEfikeyBufEmpty'
  BY DEF ClearQueue, IsEfikeyBufEmpty
<1> QED BY <1>1, <1>2 DEF ContentsFacts, ClearQueue, Fifo!Clear

(***************************************************************************)
(* ImplementsFifo: the keystrokes between head and tail behave as the      *)
(* bounded first-in first-out queue of KeyFifo, whatever the ring's size.  *)
(***************************************************************************)
THEOREM Refinement == Spec => ImplementsFifo
<1>1. Init => Fifo!Init
  <2> SUFFICES ASSUME Init PROVE Fifo!Init
    OBVIOUS
  <2>1. TypeOK /\ IsEfikeyBufEmpty /\ answer = NotReady
      /\ latest = NotReady
    BY TypeOKInit DEF Init, IsEfikeyBufEmpty
  <2> QED BY <2>1, ContentsSeq DEF ContentsFacts, Fifo!Init
<1>2. TypeOK /\ TypeOK' /\ [Next]_vars => [Fifo!Next]_(Fifo!vars)
  <2> SUFFICES ASSUME TypeOK, TypeOK', [Next]_vars
               PROVE  [Fifo!Next]_(Fifo!vars)
    OBVIOUS
  <2>1. ASSUME NEW k \in Key, PushEfikeyBufTail(k) PROVE Fifo!Next
    BY <2>1, PushIsFifoPush DEF Fifo!Next
  <2>2. CASE PopEfikeyBufHead
    BY <2>2, PopIsFifoPop DEF Fifo!Next
  <2>3. CASE ClearQueue
    BY <2>3, ClearIsFifoClear DEF Fifo!Next
  <2>4. CASE UNCHANGED vars
    BY <2>4 DEF vars, Fifo!vars, Contents, Count, SlotOf
  <2> QED BY <2>1, <2>2, <2>3, <2>4 DEF Next
<1> QED BY <1>1, <1>2, TypeCorrect, PTL DEF Spec, ImplementsFifo, Fifo!Spec

-----------------------------------------------------------------------------
(* The way of a key: the controller's FIFO into the ring.                  *)

(* A key of the ring was typed before those the controller still holds,    *)
(* and the entries of the controller are in the order of typing.           *)
EntriesInOrder(q) ==
  /\ \A i \in 1 .. Len(q) :
       /\ q[i].ent0 # Kbc!NoKey /\ q[i].ent0 <= typed /\ q[i].ent1 <= typed
       /\ q[i].ent1 # Kbc!NoKey => q[i].ent0 < q[i].ent1
  /\ \A i, j \in 1 .. Len(q) :
       i < j => q[i].ent0 < q[j].ent0 /\ q[i].ent1 < q[j].ent0

(* The keys s of a queue, of which low is the one read before them.        *)
InOrder(low, s) ==
  /\ \A i \in 1 .. Len(s) : low < s[i]
  /\ \A i, j \in 1 .. Len(s) : i < j => s[i] < s[j]

Before(k, q) == \A j \in 1 .. Len(q) : k < q[j].ent0

TypedBeforeHeld ==
  /\ lastRead <= typed /\ Before(lastRead, fifo)
  /\ \A i \in 1 .. Len(Contents) : Contents[i] <= typed /\ Before(Contents[i], fifo)

PathTypeOK == TypeOK /\ fifo \in Seq(Kbc!Entry) /\ typed \in 0 .. MaxTyped /\ lastRead \in Key

PathInv == PathTypeOK /\ EntriesInOrder(fifo) /\ InOrder(lastRead, Contents) /\ TypedBeforeHeld

LEMMA KeysAreNumbers ==
  /\ MaxTyped \in Nat /\ Key = 0 .. MaxTyped
  /\ Kbc!NoKey = 0 /\ Kbc!KeyNo = 1 .. MaxTyped /\ Kbc!KeyNo \cup {Kbc!NoKey} = Key
  /\ Kbc!Entry = [ent0 : Key, ent1 : Key]
<1>1. MaxTyped \in Nat /\ Key = 0 .. MaxTyped
  BY KeyNumbers
<1>2. (1 .. MaxTyped) \cup {0} = 0 .. MaxTyped
  BY <1>1
<1> QED BY <1>1, <1>2 DEF Kbc!NoKey, Kbc!KeyNo, Kbc!Entry

(* A push of a later key, and a read, keep a queue in order.               *)
LEMMA PushInOrder ==
  ASSUME NEW s \in Seq(Key), NEW k \in Key, NEW low \in Key, InOrder(low, s),
         low < k, \A i \in 1 .. Len(s) : s[i] < k
  PROVE  LET r == Append(Fifo!MakeRoom(s), k)
         IN  InOrder(low, r) /\ \A i \in 1 .. Len(r) : r[i] <= k
<1> DEFINE t == Fifo!MakeRoom(s)
           r == Append(t, k)
<1>1. Key \subseteq Int /\ Len(s) \in Nat
  BY KeysAreNumbers, LenProperties
<1>2. t \in Seq(Key) /\ Len(t) \in Nat /\ InOrder(low, t) /\ \A i \in 1 .. Len(t) : t[i] < k
  <2>1. CASE t = s
    BY <1>1, <2>1
  <2>2. CASE t # s
    <3>1. t = Tail(s) /\ s # <<>>
      BY <2>2, KeyMaxCountAssumption, EmptySeq DEF Fifo!MakeRoom
    <3>2. t \in Seq(Key) /\ Len(t) = Len(s) - 1 /\ \A i \in 1 .. Len(s) - 1 : t[i] = s[i + 1]
      BY <3>1, HeadTailProperties
    <3>3. \A i \in 1 .. Len(t) : i + 1 \in 1 .. Len(s) /\ t[i] = s[i + 1]
      BY <1>1, <3>2
    <3>4. Len(t) \in Nat
      BY <3>2, LenProperties
    <3>5. InOrder(low, t)
      <4>1. \A i \in 1 .. Len(t) : low < t[i]
        BY <3>3 DEF InOrder
      <4>2. ASSUME NEW i \in 1 .. Len(t), NEW j \in 1 .. Len(t), i < j PROVE t[i] < t[j]
        <5>1. i + 1 \in 1 .. Len(s) /\ j + 1 \in 1 .. Len(s) /\ i + 1 < j + 1
          BY <3>3, <4>2
        <5>2. t[i] = s[i + 1] /\ t[j] = s[j + 1]
          BY <3>3
        <5> QED BY <5>1, <5>2 DEF InOrder
      <4> HIDE DEF t
      <4> QED BY <4>1, <4>2 DEF InOrder
    <3> QED BY <3>2, <3>3, <3>4, <3>5
  <2> QED BY <2>1, <2>2
<1> HIDE DEF t
<1>3. /\ r \in Seq(Key) /\ Len(r) = Len(t) + 1 /\ r[Len(t) + 1] = k
      /\ \A i \in 1 .. Len(t) : r[i] = t[i]
  BY <1>2, AppendProperties
<1> HIDE DEF r
<1>4. \A i \in 1 .. Len(r) : i \in 1 .. Len(t) \/ i = Len(t) + 1
  BY <1>2, <1>3
<1>5. low \in Int /\ k \in Int /\ \A i \in 1 .. Len(t) : t[i] \in Int
  BY <1>1, <1>2, ElementOfSeq
<1>6. \A i \in 1 .. Len(r) : low < r[i] /\ r[i] <= k
  BY <1>2, <1>3, <1>4, <1>5 DEF InOrder
<1>7. ASSUME NEW i \in 1 .. Len(r), NEW j \in 1 .. Len(r), i < j PROVE r[i] < r[j]
  <2>1. i \in 1 .. Len(t)
    BY <1>2, <1>3, <1>7
  <2>2. CASE j \in 1 .. Len(t)
    BY <1>2, <1>3, <1>7, <2>1, <2>2 DEF InOrder
  <2>3. CASE j = Len(t) + 1
    BY <1>2, <1>3, <2>1, <2>3
  <2> QED BY <1>4, <2>2, <2>3
<1> QED BY <1>6, <1>7 DEF InOrder, r, t

LEMMA TailInOrder ==
  ASSUME NEW s \in Seq(Key), s # <<>>, NEW low \in Key, InOrder(low, s)
  PROVE  /\ low < Head(s) /\ InOrder(Head(s), Tail(s)) /\ InOrder(low, Tail(s))
         /\ \A i \in 1 .. Len(Tail(s)) : i + 1 \in 1 .. Len(s) /\ Tail(s)[i] = s[i + 1]
<1> DEFINE t == Tail(s)
<1>1. Len(s) \in Nat /\ Len(s) > 0 /\ Head(s) = s[1]
  BY LenProperties, EmptySeq, HeadTailProperties
<1>2. t \in Seq(Key) /\ Len(t) = Len(s) - 1 /\ \A i \in 1 .. Len(s) - 1 : t[i] = s[i + 1]
  BY HeadTailProperties
<1> HIDE DEF t
<1>3. \A i \in 1 .. Len(t) : i + 1 \in 1 .. Len(s) /\ t[i] = s[i + 1] /\ 1 < i + 1 /\ i \in Nat
  BY <1>1, <1>2
<1>4. 1 \in 1 .. Len(s)
  BY <1>1
<1>5. /\ \A i \in 1 .. Len(t) : s[1] < t[i] /\ low < t[i]
      /\ \A i, j \in 1 .. Len(t) : i < j => t[i] < t[j]
  <2>1. \A i \in 1 .. Len(t) : s[1] < s[i + 1] /\ low < s[i + 1]
    BY <1>3, <1>4 DEF InOrder
  <2>2. ASSUME NEW i \in 1 .. Len(t), NEW j \in 1 .. Len(t), i < j PROVE t[i] < t[j]
    <3>1. i + 1 \in 1 .. Len(s) /\ j + 1 \in 1 .. Len(s) /\ i + 1 < j + 1
      BY <1>3, <2>2
    <3> QED BY <1>3, <3>1 DEF InOrder
  <2> QED BY <1>3, <2>1, <2>2
<1>6. low < s[1]
  BY <1>4 DEF InOrder
<1> QED BY <1>1, <1>3, <1>5, <1>6 DEF InOrder, t

(* Taking the head off the controller's FIFO.                              *)
LEMMA PopEntryProperties ==
  ASSUME NEW q \in Seq(Kbc!Entry), EntriesInOrder(q)
  PROVE  LET r == Kbc!PopEntry(q)
         IN  /\ r \in Seq(Kbc!Entry) /\ EntriesInOrder(r)
             /\ Before(Kbc!HeadEnt0(q), r) /\ Before(Kbc!HeadEnt1(q), r)
             /\ \A k : Before(k, q) => Before(k, r)
<1> DEFINE r == Kbc!PopEntry(q)
<1>1. CASE q = <<>>
  <2>1. r = q /\ Len(r) = 0
    BY <1>1 DEF Kbc!PopEntry
  <2> HIDE DEF r
  <2>2. \A k : Before(k, r)
    BY <2>1 DEF Before
  <2> QED BY <2>1, <2>2 DEF r
<1>2. CASE q # <<>>
  <2>1. /\ r = Tail(q) /\ Kbc!HeadEnt0(q) = q[1].ent0 /\ Kbc!HeadEnt1(q) = q[1].ent1
        /\ Len(q) \in Nat /\ Len(q) > 0
    BY <1>2, LenProperties, EmptySeq DEF Kbc!PopEntry, Kbc!HeadEnt0, Kbc!HeadEnt1
  <2>2. r \in Seq(Kbc!Entry) /\ Len(r) = Len(q) - 1 /\ \A i \in 1 .. Len(q) - 1 : r[i] = q[i + 1]
    BY <1>2, <2>1, HeadTailProperties
  <2> HIDE DEF r
  <2>3. \A i \in 1 .. Len(r) : i + 1 \in 1 .. Len(q) /\ r[i] = q[i + 1] /\ 1 < i + 1 /\ i \in Nat
    BY <2>1, <2>2
  <2>4. 1 \in 1 .. Len(q)
    BY <2>1
  <2>5. Before(q[1].ent0, r) /\ Before(q[1].ent1, r)
    BY <2>3, <2>4 DEF EntriesInOrder, Before
  <2>6. \A k : Before(k, q) => Before(k, r)
    BY <2>3 DEF Before
  <2>7. EntriesInOrder(r)
    <3>1. ASSUME NEW i \in 1 .. Len(r), NEW j \in 1 .. Len(r), i < j
          PROVE  r[i].ent0 < r[j].ent0 /\ r[i].ent1 < r[j].ent0
      <4>1. i + 1 \in 1 .. Len(q) /\ j + 1 \in 1 .. Len(q) /\ i + 1 < j + 1
        BY <2>3, <3>1
      <4> QED BY <2>3, <4>1 DEF EntriesInOrder
    <3> QED BY <2>3, <3>1 DEF EntriesInOrder
  <2> QED BY <2>1, <2>2, <2>5, <2>6, <2>7 DEF r
<1> QED BY <1>1, <1>2

-----------------------------------------------------------------------------
(* The steps of the way.                                                   *)

LEMMA QueueUnchanged == UNCHANGED vars => Contents' = Contents /\ (TypeOK' <=> TypeOK)
BY DEF vars, Contents, Count, SlotOf, TypeOK

(* The controller finds keys of higher numbers than all before.            *)
LEMMA ScanKeeps == PathInv /\ Scan => PathInv'
<1> SUFFICES ASSUME PathInv, Scan PROVE PathInv'
  OBVIOUS
<1>1. PICK n \in {1, 2} :
        LET e == [ent0 |-> typed + 1, ent1 |-> IF n = 2 THEN typed + 2 ELSE Kbc!NoKey]
        IN  /\ typed + n <= MaxTyped /\ typed' = typed + n
            /\ fifo' = Append(fifo, e) \/ UNCHANGED fifo
  BY DEF Scan, Kbc!KbcScan
<1> DEFINE e == [ent0 |-> typed + 1, ent1 |-> IF n = 2 THEN typed + 2 ELSE 0]
<1>2. /\ typed \in Nat /\ typed' \in 0 .. MaxTyped /\ typed < typed' /\ e \in Kbc!Entry
      /\ e.ent0 # 0 /\ typed < e.ent0 /\ e.ent0 <= typed' /\ e.ent1 <= typed'
      /\ e.ent1 # 0 => e.ent0 < e.ent1
  BY <1>1, KeysAreNumbers DEF PathInv, PathTypeOK
<1>3. fifo' = Append(fifo, e) \/ UNCHANGED fifo
  BY <1>1, KeysAreNumbers
<1> HIDE DEF e
<1>4. /\ UNCHANGED lastRead /\ Contents' = Contents /\ TypeOK'
      /\ fifo \in Seq(Kbc!Entry) /\ lastRead \in Key /\ EntriesInOrder(fifo)
  BY QueueUnchanged DEF Scan, PathInv, PathTypeOK
<1>5. Len(fifo) \in Nat /\ \A i \in 1 .. Len(fifo) : fifo[i].ent0 \in Int /\ fifo[i].ent1 \in Int
  <2>1. \A i \in 1 .. Len(fifo) : fifo[i] \in Kbc!Entry
    BY <1>4, ElementOfSeq
  <2> QED BY <1>4, <2>1, KeysAreNumbers, LenProperties
<1>6. lastRead <= typed /\ lastRead \in Int /\ \A i \in 1 .. Len(Contents) : Contents[i] <= typed /\ Contents[i] \in Int
  <2>1. ContentsFacts
    BY ContentsSeq DEF PathInv, PathTypeOK
  <2>2. \A i \in 1 .. Len(Contents) : Contents[i] \in Key
    BY <2>1, ElementOfSeq DEF ContentsFacts
  <2> QED BY <1>4, <2>2, KeysAreNumbers DEF PathInv, TypedBeforeHeld
<1>7. CASE UNCHANGED fifo
  <2>1. EntriesInOrder(fifo)'
    BY <1>2, <1>4, <1>5, <1>7 DEF EntriesInOrder
  <2>2. TypedBeforeHeld'
    BY <1>2, <1>4, <1>6, <1>7 DEF PathInv, TypedBeforeHeld, Before
  <2> QED BY <1>2, <1>4, <1>7, <2>1, <2>2 DEF PathInv, PathTypeOK
<1>8. CASE fifo' = Append(fifo, e)
  <2>1. /\ fifo' \in Seq(Kbc!Entry) /\ Len(fifo') = Len(fifo) + 1 /\ fifo'[Len(fifo) + 1] = e
        /\ \A i \in 1 .. Len(fifo) : fifo'[i] = fifo[i]
    BY <1>2, <1>4, <1>8, AppendProperties
  <2>2. \A i \in 1 .. Len(fifo') : (i \in 1 .. Len(fifo) /\ fifo'[i] = fifo[i]) \/ (i = Len(fifo) + 1 /\ fifo'[i] = e)
    BY <1>5, <2>1
  <2>3. EntriesInOrder(fifo)'
    <3>1. ASSUME NEW i \in 1 .. Len(fifo')
          PROVE  /\ fifo'[i].ent0 # Kbc!NoKey /\ fifo'[i].ent0 <= typed' /\ fifo'[i].ent1 <= typed'
                 /\ fifo'[i].ent1 # Kbc!NoKey => fifo'[i].ent0 < fifo'[i].ent1
      <4>1. CASE i \in 1 .. Len(fifo) /\ fifo'[i] = fifo[i]
        <5>1. fifo[i].ent0 \in Int /\ fifo[i].ent1 \in Int /\ typed \in Int /\ typed' \in Int
          BY <1>2, <1>5, <4>1
        <5> QED BY <1>2, <1>4, <4>1, <5>1 DEF EntriesInOrder
      <4>2. CASE fifo'[i] = e
        BY <1>2, <4>2, KeysAreNumbers
      <4> QED BY <2>2, <4>1, <4>2
    <3>2. ASSUME NEW i \in 1 .. Len(fifo'), NEW j \in 1 .. Len(fifo'), i < j
          PROVE  fifo'[i].ent0 < fifo'[j].ent0 /\ fifo'[i].ent1 < fifo'[j].ent0
      <4>1. i \in 1 .. Len(fifo) /\ fifo'[i] = fifo[i]
        BY <1>5, <2>1, <2>2, <3>2
      <4>2. CASE j \in 1 .. Len(fifo)
        BY <1>4, <2>1, <3>2, <4>1, <4>2 DEF EntriesInOrder
      <4>3. CASE fifo'[j] = e
        <5>1. fifo[i].ent0 <= typed /\ fifo[i].ent1 <= typed
          BY <1>4, <4>1 DEF EntriesInOrder
        <5>2. e.ent0 \in Int /\ typed \in Int
          BY <1>2, KeysAreNumbers
        <5> QED BY <1>2, <1>5, <4>1, <4>3, <5>1, <5>2
      <4> QED BY <2>2, <4>2, <4>3
    <3> QED BY <3>1, <3>2 DEF EntriesInOrder
  <2>4. \A k \in Int : k <= typed /\ Before(k, fifo) => Before(k, fifo')
    <3> SUFFICES ASSUME NEW k \in Int, k <= typed, Before(k, fifo), NEW j \in 1 .. Len(fifo')
                 PROVE  k < fifo'[j].ent0
      BY DEF Before
    <3>1. e.ent0 \in Int /\ typed \in Int
      BY <1>2, KeysAreNumbers
    <3> QED BY <1>2, <2>2, <3>1 DEF Before
  <2>5. TypedBeforeHeld'
    BY <1>2, <1>4, <1>6, <2>4 DEF PathInv, TypedBeforeHeld
  <2> QED BY <1>2, <1>4, <2>1, <2>3, <2>5 DEF PathInv, PathTypeOK
<1> QED BY <1>3, <1>7, <1>8

(* A word that is read is a key, and later than all that was read before.  *)
LEMMA WordRead ==
  ASSUME PathInv, Kbc!ReadFirstWord \/ Kbc!ReadSecondWord
  PROVE  /\ reported' \in Key /\ typed' = typed /\ Before(reported', fifo')
         /\ fifo' \in Seq(Kbc!Entry) /\ EntriesInOrder(fifo)'
         /\ \A k : Before(k, fifo) => Before(k, fifo')
         /\ reported' # Kbc!NoKey =>
              reported' <= typed /\ \A k \in Int : Before(k, fifo) => k < reported'
<1> DEFINE rest == Kbc!PopEntry(fifo)
<1>1. fifo \in Seq(Kbc!Entry) /\ EntriesInOrder(fifo) /\ typed' = typed
  BY DEF PathInv, PathTypeOK, Kbc!ReadFirstWord, Kbc!ReadSecondWord
<1>2. /\ rest \in Seq(Kbc!Entry) /\ EntriesInOrder(rest)
      /\ Before(Kbc!HeadEnt0(fifo), rest) /\ Before(Kbc!HeadEnt1(fifo), rest)
      /\ \A k : Before(k, fifo) => Before(k, rest)
  BY <1>1, PopEntryProperties
<1>3. /\ Kbc!PopEntry(rest) \in Seq(Kbc!Entry) /\ EntriesInOrder(Kbc!PopEntry(rest))
      /\ \A k : Before(k, rest) => Before(k, Kbc!PopEntry(rest))
  BY <1>2, PopEntryProperties
<1>4. \/ reported' = Kbc!HeadEnt0(fifo) /\ fifo' = rest
      \/ reported' = Kbc!HeadEnt1(fifo) /\ fifo' = Kbc!PopEntry(rest)
  BY DEF Kbc!ReadFirstWord, Kbc!ReadSecondWord, Kbc!Report
<1>5. reported' \in {Kbc!HeadEnt0(fifo), Kbc!HeadEnt1(fifo)}
  BY <1>4
<1> HIDE DEF rest
<1>6. \A q : EntriesInOrder(q)' <=> EntriesInOrder(q)
  BY <1>1 DEF EntriesInOrder
<1>7. /\ fifo' \in Seq(Kbc!Entry) /\ EntriesInOrder(fifo)' /\ Before(reported', fifo')
      /\ \A k : Before(k, fifo) => Before(k, fifo')
  <2>1. CASE fifo' = rest
    BY <1>1, <1>2, <1>5, <2>1 DEF EntriesInOrder
  <2>2. CASE fifo' = Kbc!PopEntry(rest)
    BY <1>1, <1>2, <1>3, <1>5, <2>2 DEF EntriesInOrder
  <2> QED BY <1>4, <2>1, <2>2
<1>8. CASE fifo = <<>>
  BY <1>1, <1>5, <1>7, <1>8, KeysAreNumbers DEF Kbc!HeadEnt0, Kbc!HeadEnt1
<1>9. CASE fifo # <<>>
  <2>1. Kbc!HeadEnt0(fifo) = fifo[1].ent0 /\ Kbc!HeadEnt1(fifo) = fifo[1].ent1
    BY <1>9 DEF Kbc!HeadEnt0, Kbc!HeadEnt1
  <2>2. 1 \in 1 .. Len(fifo) /\ fifo[1] \in Kbc!Entry
    BY <1>1, <1>9, LenProperties, EmptySeq, ElementOfSeq
  <2>3. fifo[1].ent0 \in Key /\ fifo[1].ent1 \in Key
    BY <2>2, KeysAreNumbers
  <2>4. /\ fifo[1].ent0 <= typed /\ fifo[1].ent1 <= typed
        /\ fifo[1].ent1 # Kbc!NoKey => fifo[1].ent0 < fifo[1].ent1
    BY <1>1, <2>2 DEF EntriesInOrder
  <2>5. \A k \in Int : Before(k, fifo) => k < fifo[1].ent0
    BY <2>2 DEF Before
  <2>6. ASSUME reported' # Kbc!NoKey, NEW k \in Int, Before(k, fifo) PROVE k < reported'
    <3>1. k < fifo[1].ent0 /\ fifo[1].ent0 \in Int /\ fifo[1].ent1 \in Int
      BY <2>3, <2>5, <2>6, KeysAreNumbers
    <3> QED BY <1>5, <2>1, <2>4, <2>6, <3>1
  <2> QED BY <1>1, <1>5, <1>7, <2>1, <2>3, <2>4, <2>6
<1> QED BY <1>8, <1>9

LEMMA KeysOfTheQueue ==
  PathTypeOK => /\ Contents \in Seq(Key) /\ Len(Contents) \in Nat
                /\ lastRead \in Int /\ \A i \in 1 .. Len(Contents) : Contents[i] \in Int
<1> SUFFICES ASSUME PathTypeOK
             PROVE  /\ Contents \in Seq(Key) /\ Len(Contents) \in Nat
                    /\ lastRead \in Int /\ \A i \in 1 .. Len(Contents) : Contents[i] \in Int
  OBVIOUS
<1>1. Contents \in Seq(Key) /\ lastRead \in Key
  BY ContentsSeq DEF PathTypeOK, ContentsFacts
<1> QED BY <1>1, KeysAreNumbers, ElementOfSeq, LenProperties

LEMMA DeliverKeeps == PathInv /\ Deliver => PathInv'
<1> SUFFICES ASSUME PathInv, Deliver PROVE PathInv'
  OBVIOUS
<1>1. /\ reported' \in Key /\ typed' = typed /\ Before(reported', fifo')
      /\ fifo' \in Seq(Kbc!Entry) /\ EntriesInOrder(fifo)'
      /\ \A k : Before(k, fifo) => Before(k, fifo')
      /\ reported' # Kbc!NoKey =>
           reported' <= typed /\ \A k \in Int : Before(k, fifo) => k < reported'
  BY WordRead DEF Deliver
<1>2. /\ lastRead' = lastRead /\ Contents \in Seq(Key) /\ Len(Contents) \in Nat
      /\ lastRead \in Int /\ \A i \in 1 .. Len(Contents) : Contents[i] \in Int
  BY KeysOfTheQueue DEF PathInv, Deliver
<1>3. CASE reported' = Kbc!NoKey
  <2>1. Contents' = Contents /\ TypeOK'
    BY <1>3, QueueUnchanged DEF Deliver, PathInv, PathTypeOK
  <2> QED BY <1>1, <1>2, <2>1 DEF PathInv, PathTypeOK, TypedBeforeHeld
<1>4. CASE reported' # Kbc!NoKey
  <2>1. PICK k \in Key : k = reported' /\ PushEfikeyBufTail(k)
    BY <1>1, <1>4 DEF Deliver
  <2>2. TypeOK'
    BY <2>1, TypeOKNext DEF Next, PathInv, PathTypeOK
  <2>3. Contents' = Append(Fifo!MakeRoom(Contents), k)
    BY <2>1, <2>2, PushIsFifoPush DEF Fifo!Push, PathInv, PathTypeOK
  <2>4. lastRead < k /\ \A i \in 1 .. Len(Contents) : Contents[i] < k
    BY <1>1, <1>2, <1>4, <2>1 DEF PathInv, TypedBeforeHeld
  <2>5. InOrder(lastRead, Contents') /\ \A i \in 1 .. Len(Contents') : Contents'[i] <= k
    BY <1>2, <2>1, <2>3, <2>4, PushInOrder DEF PathInv, PathTypeOK
  <2>6. PathTypeOK'
    BY <1>1, <1>2, <2>2 DEF PathInv, PathTypeOK
  <2>7. (\A i \in 1 .. Len(Contents) : Contents[i] \in Int)'
    BY <2>6, KeysOfTheQueue, PTL
  <2>8. k \in Int /\ typed \in Int /\ k <= typed /\ Before(k, fifo')
    BY <1>1, <1>4, <2>1, KeysAreNumbers DEF PathInv, PathTypeOK
  <2>9. \A j \in 1 .. Len(fifo') : fifo'[j].ent0 \in Int
    <3>1. ASSUME NEW j \in 1 .. Len(fifo') PROVE fifo'[j].ent0 \in Int
      <4>1. fifo'[j] \in Kbc!Entry
        BY <1>1, ElementOfSeq
      <4> QED BY <4>1, KeysAreNumbers
    <3> QED BY <3>1
  <2>10. ASSUME NEW i \in 1 .. Len(Contents') PROVE Contents'[i] <= typed /\ Before(Contents'[i], fifo')
    BY <2>5, <2>7, <2>8, <2>9 DEF Before
  <2>11. TypedBeforeHeld'
    BY <1>1, <1>2, <2>10 DEF PathInv, TypedBeforeHeld
  <2> QED BY <1>1, <1>2, <2>5, <2>6, <2>11 DEF PathInv
<1> QED BY <1>3, <1>4

(* A read takes the first key, and a clear all of them.                    *)
LEMMA ReadKeeps == PathInv /\ (Read \/ Reset) => PathInv'
<1> SUFFICES ASSUME PathInv, Read \/ Reset PROVE PathInv'
  OBVIOUS
<1>1. /\ UNCHANGED <<fifo, typed>> /\ TypeOK /\ TypeOK' /\ (EntriesInOrder(fifo)' <=> EntriesInOrder(fifo))
      /\ Contents \in Seq(Key) /\ Len(Contents) \in Nat /\ InOrder(lastRead, Contents) /\ lastRead \in Key
  BY TypeOKNext, KeysOfTheQueue DEF PathInv, PathTypeOK, Read, Reset, Idle, Next, EntriesInOrder
<1>2. CASE Contents' = <<>> /\ UNCHANGED lastRead
  BY <1>1, <1>2 DEF PathInv, PathTypeOK, InOrder, TypedBeforeHeld
<1>3. CASE Contents # <<>> /\ Contents' = Tail(Contents) /\ lastRead' \in {lastRead, Head(Contents)}
  <2>1. /\ InOrder(lastRead', Contents')
        /\ \A i \in 1 .. Len(Contents') : i + 1 \in 1 .. Len(Contents) /\ Contents'[i] = Contents[i + 1]
    BY <1>1, <1>3, TailInOrder
  <2>2. 1 \in 1 .. Len(Contents) /\ Head(Contents) = Contents[1] /\ Head(Contents) \in Key
    BY <1>1, <1>3, EmptySeq, HeadTailProperties
  <2>3. lastRead' \in Key /\ lastRead' <= typed /\ Before(lastRead', fifo)
    BY <1>1, <1>3, <2>2 DEF PathInv, TypedBeforeHeld
  <2>4. TypedBeforeHeld'
    BY <1>1, <2>1, <2>3 DEF PathInv, TypedBeforeHeld
  <2> QED BY <1>1, <2>1, <2>3, <2>4 DEF PathInv, PathTypeOK
<1>4. CASE Contents = <<>> /\ UNCHANGED <<Contents, lastRead>>
  BY <1>2, <1>4
<1>5. CASE Read
  <2>1. Fifo!Pop \/ Fifo!PopEmpty
    BY <1>1, <1>5, PopIsFifoPop DEF Read
  <2>2. CASE Fifo!PopEmpty
    BY <1>2, <1>5, <2>2 DEF Fifo!PopEmpty, Read
  <2>3. CASE Fifo!Pop
    BY <1>3, <1>5, <2>3 DEF Fifo!Pop, Read
  <2> QED BY <2>1, <2>2, <2>3
<1>6. CASE Reset
  BY <1>1, <1>2, <1>6, ClearIsFifoClear DEF Reset, Fifo!Clear
<1> QED BY <1>5, <1>6

LEMMA PathInvHolds == PathSpec => []PathInv
<1>1. PathInit => PathInv
  <2> SUFFICES ASSUME PathInit PROVE PathInv
    OBVIOUS
  <2>1. /\ TypeOK /\ IsEfikeyBufEmpty /\ fifo = <<>> /\ typed = 0 /\ lastRead = 0
    BY TypeOKInit DEF PathInit, Init, Kbc!Init, IsEfikeyBufEmpty
  <2>2. Contents = <<>>
    BY <2>1, ContentsSeq DEF ContentsFacts
  <2>3. /\ fifo \in Seq(Kbc!Entry) /\ typed \in 0 .. MaxTyped /\ lastRead \in Key
        /\ Len(fifo) = 0 /\ Len(Contents) = 0
    BY <2>1, <2>2, KeysAreNumbers, EmptySeq
  <2> QED BY <2>1, <2>3 DEF PathInv, PathTypeOK, EntriesInOrder, InOrder, TypedBeforeHeld, Before
<1>2. PathInv /\ [PathNext]_pathVars => PathInv'
  <2> SUFFICES ASSUME PathInv, [PathNext]_pathVars PROVE PathInv'
    OBVIOUS
  <2>1. CASE UNCHANGED <<vars, fifo, typed, lastRead>>
    BY <2>1, QueueUnchanged DEF PathInv, PathTypeOK, EntriesInOrder, TypedBeforeHeld
  <2>2. CASE Poll \/ UNCHANGED pathVars
    BY <2>1, <2>2 DEF Poll, Kbc!GetKeys, pathVars, Kbc!vars
  <2> QED BY <2>2, ScanKeeps, DeliverKeeps, ReadKeeps DEF PathNext
<1> QED BY <1>1, <1>2, PTL DEF PathSpec

(***************************************************************************)
(* For every number of slots, of entries of the controller and of keys,    *)
(* the keys come to a reader in the order they were typed, none twice.     *)
(***************************************************************************)
THEOREM KeysComeInOrder == PathSpec => []ReadInOrder
<1>1. PathInv => ReadInOrder
  BY ContentsSeq DEF PathInv, PathTypeOK, InOrder, ReadInOrder, ContentsFacts
<1> QED BY <1>1, PathInvHolds, PTL

(* What the controller and the readers do to the ring are steps of its own. *)
THEOREM PathKeepsTheFifo == PathSpec => ImplementsFifo
<1>1. PathInit => Init
  BY DEF PathInit
<1>2. PathInv /\ [PathNext]_pathVars => [Next]_vars
  <2> SUFFICES ASSUME PathInv, [PathNext]_pathVars PROVE [Next]_vars
    OBVIOUS
  <2>1. CASE Deliver
    <3>1. reported' \in Key
      BY <2>1, WordRead DEF Deliver
    <3> QED BY <2>1, <3>1 DEF Deliver, Next
  <2>2. CASE Read \/ Reset
    BY <2>2 DEF Read, Reset, Next
  <2>3. CASE Scan \/ Poll \/ UNCHANGED pathVars
    BY <2>3 DEF Scan, Poll, pathVars
  <2> QED BY <2>1, <2>2, <2>3 DEF PathNext
<1> QED BY <1>1, <1>2, PathInvHolds, Refinement, PTL DEF PathSpec, Spec
=============================================================================
