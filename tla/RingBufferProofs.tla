-------------------------- MODULE RingBufferProofs --------------------------
(***************************************************************************)
(* The circular array: what its index arithmetic and the shift of          *)
(* push_sorted do, for every capacity and every position of the queue in   *)
(* the array.  The queue and the thread pool both rest on these lemmas.    *)
(***************************************************************************)
EXTENDS RingBuffer, SequenceTheorems, TLAPS

\* A ring that is well-formed: push_index is at the end of the queue, and
\* every slot of the queue holds a value.
RingOK(array, popIndex, pushIndex, number) ==
    /\ array \in Arrays
    /\ popIndex \in Indices /\ pushIndex \in Indices
    /\ number \in 0 .. Capacity
    /\ pushIndex = SlotAfter(popIndex, number)
    /\ \A k \in 0 .. number - 1 : array[SlotAfter(popIndex, k)] \in Values

\* The values in the queue.
QueuedValues(array, popIndex, number) ==
    {array[SlotAfter(popIndex, k)] : k \in 0 .. number - 1}

-----------------------------------------------------------------------------
(* Arithmetic of the circular array.                                       *)

\* An index that is advanced stays an index of the array.
LEMMA AdvanceType ==
    ASSUME NEW i \in Indices, Capacity > 0
    PROVE  Advance(i) \in Slots
BY RingAssumption DEF Indices, Slots, Advance

\* As long as it goes at most once round, k places after a slot is a slot.
LEMMA SlotAfterType ==
    ASSUME NEW i \in Indices, NEW k \in 0 .. Capacity - 1
    PROVE  SlotAfter(i, k) \in Slots
BY RingAssumption DEF Indices, Slots, SlotAfter

\* Storing one value moves push_index to the end of the longer queue.
LEMMA PushMoves ==
    ASSUME NEW i \in Indices, NEW n \in 0 .. Capacity - 1
    PROVE  Advance(SlotAfter(i, n)) = SlotAfter(i, n + 1)
BY RingAssumption DEF Indices, Slots, SlotAfter, Advance

\* Fetching one moves pop_index and leaves the end where it is.
LEMMA PopMoves ==
    ASSUME NEW i \in Indices, NEW n \in 1 .. Capacity,
           NEW k \in 0 .. n - 1
    PROVE  SlotAfter(Advance(i), k) = SlotAfter(i, k + 1)
BY RingAssumption DEF Indices, Slots, SlotAfter, Advance

\* Different places in the queue are different slots.
LEMMA SlotAfterInjective ==
    ASSUME NEW i \in Indices, NEW j \in 0 .. Capacity - 1,
           NEW k \in 0 .. Capacity - 1, SlotAfter(i, j) = SlotAfter(i, k)
    PROVE  j = k
BY RingAssumption DEF Indices, Slots, SlotAfter

\* The value of the slot before the k-th.
LEMMA RetreatSlot ==
    ASSUME NEW i \in Indices, NEW k \in 1 .. Capacity - 1
    PROVE  Retreat(SlotAfter(i, k)) = SlotAfter(i, k - 1)
BY RingAssumption DEF Indices, Slots, SlotAfter, Retreat

LEMMA DistanceBetween ==
    ASSUME NEW i \in Indices, NEW j \in 0 .. Capacity - 1,
           NEW k \in 0 .. Capacity - 1
    PROVE  Distance(SlotAfter(i, j), SlotAfter(i, k)) =
                IF k >= j THEN k - j ELSE k - j + Capacity
BY RingAssumption DEF Indices, Slots, SlotAfter, Distance

\* The shift of push_sorted: what the queue holds when v was inserted at an
\* offset from pop_index.
LEMMA InsertAtContents ==
    ASSUME NEW array \in Arrays, NEW i \in Indices,
           NEW n \in 0 .. Capacity - 1, NEW offset \in 0 .. n, NEW v
    PROVE  LET new == InsertAt(array, SlotAfter(i, offset), SlotAfter(i, n), v)
           IN \A k \in 0 .. n :
                new[SlotAfter(i, k)] =
                    IF k < offset THEN array[SlotAfter(i, k)]
                    ELSE IF k = offset THEN v
                    ELSE array[SlotAfter(i, k - 1)]
<1> DEFINE new == InsertAt(array, SlotAfter(i, offset), SlotAfter(i, n), v)
<1> SUFFICES ASSUME NEW k \in 0 .. n
             PROVE  new[SlotAfter(i, k)] =
                        IF k < offset THEN array[SlotAfter(i, k)]
                        ELSE IF k = offset THEN v
                        ELSE array[SlotAfter(i, k - 1)]
  OBVIOUS
<1>0. /\ k \in 0 .. Capacity - 1
      /\ offset \in 0 .. Capacity - 1
      /\ n \in 0 .. Capacity - 1
  BY RingAssumption
<1>1. SlotAfter(i, k) \in Slots
  BY <1>0, SlotAfterType
<1>2. new[SlotAfter(i, k)] =
        IF SlotAfter(i, k) = SlotAfter(i, offset)
        THEN v
        ELSE IF Distance(SlotAfter(i, offset), SlotAfter(i, k))
                    <= Distance(SlotAfter(i, offset), SlotAfter(i, n))
             THEN array[Retreat(SlotAfter(i, k))]
             ELSE array[SlotAfter(i, k)]
  BY <1>1 DEF InsertAt
<1>3. /\ Distance(SlotAfter(i, offset), SlotAfter(i, k)) =
            IF k >= offset THEN k - offset ELSE k - offset + Capacity
      /\ Distance(SlotAfter(i, offset), SlotAfter(i, n)) = n - offset
  BY <1>0, DistanceBetween
<1>4. CASE k = offset
  BY <1>2, <1>4
<1>5. CASE k < offset
  <2>1. SlotAfter(i, k) # SlotAfter(i, offset)
    BY <1>0, <1>5, SlotAfterInjective
  <2>2. ~ (k - offset + Capacity <= n - offset)
    BY <1>0, RingAssumption
  <2> QED
    BY <1>0, <1>2, <1>3, <1>5, <2>1, <2>2
<1>6. CASE k > offset
  <2>1. SlotAfter(i, k) # SlotAfter(i, offset)
    BY <1>0, <1>6, SlotAfterInjective
  <2>2. Retreat(SlotAfter(i, k)) = SlotAfter(i, k - 1)
    BY <1>0, <1>6, RetreatSlot
  <2> QED
    BY <1>0, <1>2, <1>3, <1>6, <2>1, <2>2
<1> QED
  BY <1>0, <1>4, <1>5, <1>6

\* InsertAt puts nothing into the array but v.
LEMMA InsertAtType ==
    ASSUME NEW array \in Arrays, NEW target \in Slots,
           NEW pushIndex \in Slots, NEW v \in Values
    PROVE  InsertAt(array, target, pushIndex, v) \in Arrays
<1> SUFFICES ASSUME NEW slot \in Slots
             PROVE  array[Retreat(slot)] \in Values \cup {NoValue}
  BY DEF InsertAt, Arrays
<1>1. Retreat(slot) \in Slots
  BY RingAssumption DEF Retreat, Slots
<1> QED
  BY <1>1 DEF Arrays

-----------------------------------------------------------------------------
(* Storing and fetching a value.                                           *)

\* The parts of a ring that has room.
LEMMA RoomFacts ==
    ASSUME NEW array, NEW i, NEW j, NEW n, RingOK(array, i, j, n), n # Capacity
    PROVE  /\ array \in Arrays /\ i \in Indices
           /\ n \in 0 .. Capacity - 1 /\ j = SlotAfter(i, n)
           /\ j \in Slots
           /\ Advance(j) = SlotAfter(i, n + 1) /\ Advance(j) \in Indices
           /\ \A k \in 0 .. n : SlotAfter(i, k) \in Slots
<1>1. /\ array \in Arrays /\ i \in Indices
      /\ n \in 0 .. Capacity - 1 /\ j = SlotAfter(i, n)
  BY RingAssumption DEF RingOK
<1>2. \A k \in 0 .. n : SlotAfter(i, k) \in Slots
  BY <1>1, RingAssumption, SlotAfterType
<1>3. j \in Slots /\ Advance(j) = SlotAfter(i, n + 1)
  BY <1>1, <1>2, PushMoves
<1>4. Advance(j) \in Indices
  BY <1>1, <1>3, RingAssumption, AdvanceType DEF Indices
<1> QED
  BY <1>1, <1>2, <1>3, <1>4

\* push stores the value in the slot of push_index.
LEMMA StoreLastKeepsRing ==
    ASSUME NEW array, NEW i, NEW j, NEW n, RingOK(array, i, j, n), n # Capacity,
           NEW v \in Values
    PROVE  LET new == [array EXCEPT ![j] = v]
           IN /\ RingOK(new, i, Advance(j), n + 1)
              /\ QueuedValues(new, i, n + 1) = QueuedValues(array, i, n) \cup {v}
<1> DEFINE new == [array EXCEPT ![j] = v]
<1>1. /\ array \in Arrays /\ i \in Indices
      /\ n \in 0 .. Capacity - 1 /\ j = SlotAfter(i, n) /\ j \in Slots
      /\ Advance(j) = SlotAfter(i, n + 1) /\ Advance(j) \in Indices
      /\ \A k \in 0 .. n : SlotAfter(i, k) \in Slots
  BY RoomFacts
<1>2. new \in Arrays
  BY <1>1 DEF Arrays
<1>3. \A k \in 0 .. n - 1 : new[SlotAfter(i, k)] = array[SlotAfter(i, k)]
  <2> SUFFICES ASSUME NEW k \in 0 .. n - 1 PROVE SlotAfter(i, k) # j
    BY <1>1 DEF Arrays
  <2>1. k \in 0 .. Capacity - 1 /\ k # n
    BY <1>1, RingAssumption
  <2> QED
    BY <1>1, <2>1, SlotAfterInjective
<1>4. new[SlotAfter(i, n)] = v
  BY <1>1 DEF Arrays
<1>5. /\ n + 1 \in 0 .. Capacity
      /\ 0 .. (n + 1) - 1 = (0 .. n - 1) \cup {n}
  BY <1>1, RingAssumption
<1>6. \A k \in 0 .. n - 1 : array[SlotAfter(i, k)] \in Values
  BY DEF RingOK
<1>7. RingOK(new, i, Advance(j), n + 1)
  BY <1>1, <1>2, <1>3, <1>4, <1>5, <1>6 DEF RingOK
<1>8. QueuedValues(new, i, n + 1) = QueuedValues(array, i, n) \cup {v}
  BY <1>3, <1>4, <1>5 DEF QueuedValues
<1> QED
  BY <1>7, <1>8

\* push_sorted stores it at an offset from pop_index.
LEMMA InsertKeepsRing ==
    ASSUME NEW array, NEW i, NEW j, NEW n, RingOK(array, i, j, n), n # Capacity,
           NEW v \in Values, NEW offset \in 0 .. n
    PROVE  LET new == InsertAt(array, SlotAfter(i, offset), j, v)
           IN /\ RingOK(new, i, Advance(j), n + 1)
              /\ QueuedValues(new, i, n + 1) = QueuedValues(array, i, n) \cup {v}
<1> DEFINE new == InsertAt(array, SlotAfter(i, offset), j, v)
<1>1. /\ array \in Arrays /\ i \in Indices
      /\ n \in 0 .. Capacity - 1 /\ j = SlotAfter(i, n) /\ j \in Slots
      /\ Advance(j) = SlotAfter(i, n + 1) /\ Advance(j) \in Indices
      /\ \A k \in 0 .. n : SlotAfter(i, k) \in Slots
  BY RoomFacts
<1>2. new \in Arrays
  BY <1>1, InsertAtType
<1>3. \A k \in 0 .. n :
          new[SlotAfter(i, k)] = IF k < offset THEN array[SlotAfter(i, k)]
                                 ELSE IF k = offset THEN v
                                 ELSE array[SlotAfter(i, k - 1)]
  BY <1>1, InsertAtContents
<1>4. \A k \in 0 .. n - 1 : array[SlotAfter(i, k)] \in Values
  BY DEF RingOK
<1>5. n + 1 \in 0 .. Capacity /\ (n + 1) - 1 = n
  BY <1>1, RingAssumption
<1>6. \A k \in 0 .. n : new[SlotAfter(i, k)] \in Values
  <2> SUFFICES ASSUME NEW k \in 0 .. n PROVE new[SlotAfter(i, k)] \in Values
    OBVIOUS
  <2>1. CASE k < offset
    BY <1>1, <1>3, <1>4, <2>1
  <2>2. CASE k = offset
    BY <1>3, <2>2
  <2>3. CASE k > offset
    BY <1>1, <1>3, <1>4, <2>3
  <2> QED
    BY <1>1, <2>1, <2>2, <2>3
<1>7. RingOK(new, i, Advance(j), n + 1)
  BY <1>1, <1>2, <1>5, <1>6 DEF RingOK
<1>8. QueuedValues(new, i, n + 1) \subseteq QueuedValues(array, i, n) \cup {v}
  <2> SUFFICES ASSUME NEW k \in 0 .. n
               PROVE  new[SlotAfter(i, k)] \in QueuedValues(array, i, n) \cup {v}
    BY <1>5 DEF QueuedValues
  <2>1. CASE k < offset
    BY <1>1, <1>3, <2>1 DEF QueuedValues
  <2>2. CASE k = offset
    BY <1>3, <2>2
  <2>3. CASE k > offset
    <3>1. k - 1 \in 0 .. n - 1 /\ new[SlotAfter(i, k)] = array[SlotAfter(i, k - 1)]
      BY <1>1, <1>3, <2>3
    <3> QED
      BY <3>1 DEF QueuedValues
  <2> QED
    BY <1>1, <2>1, <2>2, <2>3
<1>9. QueuedValues(array, i, n) \subseteq QueuedValues(new, i, n + 1)
  <2> SUFFICES ASSUME NEW k \in 0 .. n - 1
               PROVE  \E m \in 0 .. n :
                          new[SlotAfter(i, m)] = array[SlotAfter(i, k)]
    BY <1>5 DEF QueuedValues
  <2>1. CASE k < offset
    BY <1>1, <1>3, <2>1
  <2>2. CASE k >= offset
    <3>1. /\ k + 1 \in 0 .. n /\ ~ (k + 1 < offset) /\ k + 1 # offset
          /\ (k + 1) - 1 = k
      BY <1>1, <2>2
    <3> QED
      BY <1>3, <3>1
  <2> QED
    BY <1>1, <2>1, <2>2
<1>10. v \in QueuedValues(new, i, n + 1)
  BY <1>1, <1>3, <1>5 DEF QueuedValues
<1> QED
  BY <1>7, <1>8, <1>9, <1>10

\* pop takes the value of the slot of pop_index.
LEMMA FetchKeepsRing ==
    ASSUME NEW array, NEW i, NEW j, NEW n, RingOK(array, i, j, n), n # 0
    PROVE  /\ RingOK(array, Advance(i), j, n - 1)
           /\ array[i] \in Values
           /\ QueuedValues(array, i, n) =
                 QueuedValues(array, Advance(i), n - 1) \cup {array[i]}
<1>1. /\ array \in Arrays /\ i \in Indices /\ j \in Indices
      /\ n \in 1 .. Capacity /\ j = SlotAfter(i, n)
      /\ \A k \in 0 .. n - 1 : array[SlotAfter(i, k)] \in Values
  BY RingAssumption DEF RingOK
<1>2. \A k \in 0 .. n - 1 : SlotAfter(Advance(i), k) = SlotAfter(i, k + 1)
  BY <1>1, PopMoves
<1>3. Advance(i) \in Indices /\ n - 1 \in 0 .. Capacity
  BY <1>1, RingAssumption, AdvanceType DEF Indices
<1>4. SlotAfter(i, 0) = i
  BY <1>1, RingAssumption DEF SlotAfter, Indices, Slots
<1>5. j = SlotAfter(Advance(i), n - 1)
  BY <1>1, <1>2
<1>6. \A k \in 0 .. (n - 1) - 1 : array[SlotAfter(Advance(i), k)] \in Values
  <2> SUFFICES ASSUME NEW k \in 0 .. (n - 1) - 1
               PROVE  array[SlotAfter(Advance(i), k)] \in Values
    OBVIOUS
  <2>1. k \in 0 .. n - 1 /\ k + 1 \in 0 .. n - 1
    BY <1>1
  <2> QED
    BY <1>1, <1>2, <2>1
<1>7. RingOK(array, Advance(i), j, n - 1)
  BY <1>1, <1>3, <1>5, <1>6 DEF RingOK
<1>8. array[i] \in Values /\ array[i] \in QueuedValues(array, i, n)
  BY <1>1, <1>4 DEF QueuedValues
<1>9. QueuedValues(array, Advance(i), n - 1) \subseteq QueuedValues(array, i, n)
  <2> SUFFICES ASSUME NEW k \in 0 .. (n - 1) - 1
               PROVE  array[SlotAfter(Advance(i), k)] \in QueuedValues(array, i, n)
    BY DEF QueuedValues
  <2>1. k \in 0 .. n - 1 /\ k + 1 \in 0 .. n - 1
    BY <1>1
  <2> QED
    BY <1>2, <2>1 DEF QueuedValues
<1>10. QueuedValues(array, i, n) \subseteq
          QueuedValues(array, Advance(i), n - 1) \cup {array[i]}
  <2> SUFFICES ASSUME NEW k \in 0 .. n - 1, k # 0
               PROVE  array[SlotAfter(i, k)]
                          \in QueuedValues(array, Advance(i), n - 1)
    BY <1>4 DEF QueuedValues
  <2>1. k - 1 \in 0 .. n - 1 /\ k - 1 \in 0 .. (n - 1) - 1 /\ (k - 1) + 1 = k
    BY <1>1
  <2>2. SlotAfter(Advance(i), k - 1) = SlotAfter(i, k)
    BY <1>2, <2>1
  <2> QED
    BY <2>1, <2>2 DEF QueuedValues
<1> QED
  BY <1>7, <1>8, <1>9, <1>10

-----------------------------------------------------------------------------
(* The contents as a sequence.                                             *)

\* What Contents is made of.
LEMMA ContentsType ==
    ASSUME NEW array, NEW i, NEW j, NEW n, RingOK(array, i, j, n)
    PROVE  /\ Contents(array, i, n) \in Seq(Values)
           /\ Len(Contents(array, i, n)) = n
           /\ \A k \in 1 .. n :
                 Contents(array, i, n)[k] = array[SlotAfter(i, k - 1)]
<1>1. n \in Nat /\ \A k \in 1 .. n : array[SlotAfter(i, k - 1)] \in Values
  BY RingAssumption DEF RingOK
<1>2. Contents(array, i, n) \in [1 .. n -> Values]
  BY <1>1 DEF Contents
<1>3. Contents(array, i, n) \in Seq(Values)
  BY <1>1, <1>2, SeqDef
<1>4. Len(Contents(array, i, n)) = n
  BY <1>1, <1>2, <1>3, LenProperties DEF Contents
<1> QED
  BY <1>3, <1>4 DEF Contents

\* The array with one slot changed, and a sequence with v put in after its
\* first values.
Stored(array, slot, v) == [array EXCEPT ![slot] = v]

InsertedAfter(items, number, v) ==
    SubSeq(items, 1, number) \o <<v>> \o SubSeq(items, number + 1, Len(items))

\* push appends.
LEMMA StoreLastContents ==
    ASSUME NEW array, NEW i, NEW j, NEW n, RingOK(array, i, j, n), n # Capacity,
           NEW v \in Values
    PROVE  Contents(Stored(array, j, v), i, n + 1) =
                Append(Contents(array, i, n), v)
<1> DEFINE new == Stored(array, j, v)
           old == Contents(array, i, n)
           items == Contents(new, i, n + 1)
<1>1. /\ array \in Arrays /\ i \in Indices
      /\ n \in 0 .. Capacity - 1 /\ j = SlotAfter(i, n) /\ j \in Slots
      /\ \A k \in 0 .. n : SlotAfter(i, k) \in Slots
  BY RoomFacts
<1>2. RingOK(new, i, Advance(j), n + 1)
  BY StoreLastKeepsRing DEF Stored
<1>a. \A k \in Slots : new[k] = IF k = j THEN v ELSE array[k]
  BY <1>1 DEF Arrays, Stored
<1> HIDE DEF new
<1>3. /\ old \in Seq(Values) /\ Len(old) = n
      /\ \A k \in 1 .. n : old[k] = array[SlotAfter(i, k - 1)]
  BY ContentsType
<1>b. ASSUME NEW a, RingOK(a, i, Advance(j), n + 1)
      PROVE  /\ Contents(a, i, n + 1) \in Seq(Values)
             /\ Len(Contents(a, i, n + 1)) = n + 1
             /\ \A k \in 1 .. n + 1 :
                   Contents(a, i, n + 1)[k] = a[SlotAfter(i, k - 1)]
  BY <1>b, ContentsType
<1>4. /\ items \in Seq(Values) /\ Len(items) = n + 1
      /\ \A k \in 1 .. n + 1 : items[k] = new[SlotAfter(i, k - 1)]
  BY <1>2, <1>b
<1>5. /\ Append(old, v) \in Seq(Values) /\ Len(Append(old, v)) = n + 1
      /\ \A k \in 1 .. n : Append(old, v)[k] = old[k]
      /\ Append(old, v)[n + 1] = v
  BY <1>3, AppendProperties
<1>6. ASSUME NEW k \in 1 .. n + 1 PROVE items[k] = Append(old, v)[k]
  <2>1. CASE k = n + 1
    <3>1. n \in 0 .. n /\ (n + 1) - 1 = n /\ n + 1 \in 1 .. n + 1
      BY <1>1
    <3>2. new[SlotAfter(i, n)] = v
      BY <1>1, <1>a, <3>1
    <3> QED
      BY <1>4, <1>5, <2>1, <3>1, <3>2
  <2>2. CASE k # n + 1
    <3>1. k \in 1 .. n /\ k - 1 \in 0 .. n /\ k - 1 \in 0 .. Capacity - 1
          /\ n \in 0 .. Capacity - 1 /\ k - 1 # n
      BY <1>1, <2>2, RingAssumption
    <3>2. SlotAfter(i, k - 1) # j
      BY <1>1, <3>1, SlotAfterInjective
    <3>3. new[SlotAfter(i, k - 1)] = array[SlotAfter(i, k - 1)]
      BY <1>1, <1>a, <3>1, <3>2
    <3> QED
      BY <1>3, <1>4, <1>5, <3>1, <3>3
  <2> QED
    BY <2>1, <2>2
<1> HIDE DEF items, old
<1>7. items = Append(old, v)
  BY <1>4, <1>5, <1>6, SeqEqual
<1> QED
  BY <1>7 DEF items, old, new

\* push_sorted inserts.
LEMMA InsertContents ==
    ASSUME NEW array, NEW i, NEW j, NEW n, RingOK(array, i, j, n), n # Capacity,
           NEW v \in Values, NEW offset \in 0 .. n
    PROVE  Contents(InsertAt(array, SlotAfter(i, offset), j, v), i, n + 1) =
                InsertedAfter(Contents(array, i, n), offset, v)
<1> DEFINE new == InsertAt(array, SlotAfter(i, offset), j, v)
           old == Contents(array, i, n)
           items == Contents(new, i, n + 1)
           low == SubSeq(old, 1, offset)
           high == SubSeq(old, offset + 1, n)
           one == <<v>>
<1>1. /\ array \in Arrays /\ i \in Indices
      /\ n \in 0 .. Capacity - 1 /\ j = SlotAfter(i, n)
  BY RoomFacts
<1>2. \A k \in 0 .. n :
          new[SlotAfter(i, k)] = IF k < offset THEN array[SlotAfter(i, k)]
                                 ELSE IF k = offset THEN v
                                 ELSE array[SlotAfter(i, k - 1)]
  BY <1>1, InsertAtContents
<1>3. RingOK(new, i, Advance(j), n + 1)
  BY InsertKeepsRing
<1>4. /\ old \in Seq(Values) /\ Len(old) = n
      /\ \A k \in 1 .. n : old[k] = array[SlotAfter(i, k - 1)]
  BY ContentsType
<1>5. /\ items \in Seq(Values) /\ Len(items) = n + 1
      /\ \A k \in 1 .. n + 1 : items[k] = new[SlotAfter(i, k - 1)]
  BY <1>3, ContentsType
<1>6. one \in Seq(Values) /\ Len(one) = 1 /\ one[1] = v
  OBVIOUS
<1> HIDE DEF items, old, new, one
<1>a. \A k \in 1 .. n : old[k] \in Values
  BY <1>4, ElementOfSeq
<1>7. /\ low \in Seq(Values) /\ Len(low) = offset
      /\ \A k \in 1 .. offset : low[k] = old[k]
  <2>1. \A k \in 1 .. offset : old[k] \in Values
    BY <1>1, <1>a
  <2>2. /\ low \in Seq(Values)
        /\ Len(low) = IF 1 <= offset THEN offset - 1 + 1 ELSE 0
        /\ \A k \in 1 .. offset - 1 + 1 : low[k] = old[1 + k - 1]
    BY <1>1, <2>1, SubSeqProperties
  <2> QED
    BY <1>1, <2>2
<1>8. /\ high \in Seq(Values) /\ Len(high) = n - offset
      /\ \A k \in 1 .. n - offset : high[k] = old[offset + k]
  <2>1. \A k \in offset + 1 .. n : old[k] \in Values
    BY <1>1, <1>a
  <2>2. /\ high \in Seq(Values)
        /\ Len(high) = IF offset + 1 <= n THEN n - (offset + 1) + 1 ELSE 0
        /\ \A k \in 1 .. n - (offset + 1) + 1 :
              high[k] = old[(offset + 1) + k - 1]
    BY <1>1, <2>1, SubSeqProperties
  <2> QED
    BY <1>1, <2>2
<1> HIDE DEF low, high
<1>9. /\ low \o one \in Seq(Values) /\ Len(low \o one) = offset + 1
      /\ \A k \in 1 .. offset + 1 :
            (low \o one)[k] = IF k <= offset THEN low[k] ELSE one[k - offset]
  <2>1. /\ low \o one \in Seq(Values)
        /\ Len(low \o one) = Len(low) + Len(one)
        /\ \A k \in 1 .. Len(low) + Len(one) :
              (low \o one)[k] = IF k <= Len(low) THEN low[k]
                                ELSE one[k - Len(low)]
    BY <1>6, <1>7, ConcatProperties
  <2> QED
    BY <1>6, <1>7, <2>1
<1>10. /\ (low \o one) \o high \in Seq(Values)
       /\ Len((low \o one) \o high) = n + 1
       /\ \A k \in 1 .. n + 1 :
             ((low \o one) \o high)[k] = IF k <= offset + 1 THEN (low \o one)[k]
                                         ELSE high[k - (offset + 1)]
  <2> DEFINE left == low \o one
  <2>1. left \in Seq(Values) /\ Len(left) = offset + 1
    BY <1>9
  <2> HIDE DEF left
  <2>2. /\ left \o high \in Seq(Values)
        /\ Len(left \o high) = Len(left) + Len(high)
        /\ \A k \in 1 .. Len(left) + Len(high) :
              (left \o high)[k] = IF k <= Len(left) THEN left[k]
                                  ELSE high[k - Len(left)]
    BY <1>8, <2>1, ConcatProperties
  <2>3. Len(left) + Len(high) = n + 1
    BY <1>1, <1>8, <2>1
  <2>4. /\ left \o high \in Seq(Values)
        /\ Len(left \o high) = n + 1
        /\ \A k \in 1 .. n + 1 :
             (left \o high)[k] = IF k <= offset + 1 THEN left[k]
                                 ELSE high[k - (offset + 1)]
    BY <2>1, <2>2, <2>3
  <2> QED
    BY <2>4 DEF left
<1>11. ASSUME NEW k \in 1 .. n + 1
       PROVE  items[k] = ((low \o one) \o high)[k]
  <2>0. k - 1 \in 0 .. n /\ items[k] = new[SlotAfter(i, k - 1)]
    BY <1>1, <1>5
  <2>1. CASE k <= offset
    <3>1. /\ k \in 1 .. offset /\ k \in 1 .. n /\ k \in 1 .. offset + 1
          /\ k - 1 < offset
      BY <1>1, <2>1
    <3>2. items[k] = old[k]
      BY <1>2, <1>4, <2>0, <3>1
    <3> QED
      BY <1>7, <1>9, <1>10, <2>1, <3>1, <3>2
  <2>2. CASE k = offset + 1
    <3>1. /\ k - 1 = offset /\ k \in 1 .. offset + 1 /\ ~ (k <= offset)
          /\ k - offset = 1 /\ ~ (k - 1 < offset)
      BY <1>1, <2>2
    <3>2. items[k] = v
      BY <1>2, <2>0, <3>1
    <3>3. (low \o one)[k] = v
      BY <1>6, <1>9, <3>1
    <3>4. k <= offset + 1
      BY <1>1, <2>2
    <3> QED
      BY <1>10, <3>2, <3>3, <3>4
  <2>3. CASE k > offset + 1
    <3>1. /\ ~ (k - 1 < offset) /\ k - 1 # offset /\ k - 1 \in 1 .. n
          /\ ~ (k <= offset + 1) /\ k - (offset + 1) \in 1 .. n - offset
          /\ offset + (k - (offset + 1)) = k - 1
      BY <1>1, <2>3
    <3>2. items[k] = old[k - 1]
      BY <1>2, <1>4, <2>0, <3>1
    <3>3. high[k - (offset + 1)] = old[k - 1]
      BY <1>8, <3>1
    <3> QED
      BY <1>10, <3>1, <3>2, <3>3
  <2>4. k <= offset \/ k = offset + 1 \/ k > offset + 1
    BY <1>1
  <2> QED
    BY <2>1, <2>2, <2>3, <2>4
<1>12. items = (low \o one) \o high
  BY <1>5, <1>10, <1>11, SeqEqual
<1> QED
  BY <1>4, <1>12 DEF items, old, low, high, new, one, InsertedAfter

\* pop takes the first value away.
LEMMA FetchContents ==
    ASSUME NEW array, NEW i, NEW j, NEW n, RingOK(array, i, j, n), n # 0
    PROVE  /\ Contents(array, i, n) # <<>>
           /\ Head(Contents(array, i, n)) = array[i]
           /\ Contents(array, Advance(i), n - 1) = Tail(Contents(array, i, n))
<1> DEFINE old == Contents(array, i, n)
           items == Contents(array, Advance(i), n - 1)
<1>1. i \in Indices /\ n \in 1 .. Capacity
  BY RingAssumption DEF RingOK
<1>2. \A k \in 0 .. n - 1 : SlotAfter(Advance(i), k) = SlotAfter(i, k + 1)
  BY <1>1, PopMoves
<1>3. RingOK(array, Advance(i), j, n - 1)
  BY FetchKeepsRing
<1>4. /\ old \in Seq(Values) /\ Len(old) = n
      /\ \A k \in 1 .. n : old[k] = array[SlotAfter(i, k - 1)]
  BY ContentsType
<1>5. /\ items \in Seq(Values) /\ Len(items) = n - 1
      /\ \A k \in 1 .. n - 1 : items[k] = array[SlotAfter(Advance(i), k - 1)]
  BY <1>3, ContentsType
<1> HIDE DEF items, old
<1>6. old # <<>>
  BY <1>1, <1>4, EmptySeq
<1>7. SlotAfter(i, 0) = i
  BY <1>1, RingAssumption DEF SlotAfter, Indices, Slots
<1>8. Head(old) = array[i]
  <2>1. old[1] = array[i]
    BY <1>1, <1>4, <1>7
  <2> QED
    BY <1>4, <1>6, <2>1
<1>9. /\ Tail(old) \in Seq(Values) /\ Len(Tail(old)) = n - 1
      /\ \A k \in 1 .. n - 1 : Tail(old)[k] = old[k + 1]
  BY <1>4, <1>6, HeadTailProperties
<1>10. ASSUME NEW k \in 1 .. n - 1 PROVE items[k] = Tail(old)[k]
  <2>1. k - 1 \in 0 .. n - 1 /\ k + 1 \in 1 .. n /\ (k - 1) + 1 = (k + 1) - 1
    BY <1>1
  <2> QED
    BY <1>2, <1>4, <1>5, <1>9, <2>1
<1>11. items = Tail(old)
  BY <1>5, <1>9, <1>10, SeqEqual
<1> QED
  BY <1>6, <1>8, <1>11 DEF items, old

\* A queue without values.
LEMMA NoContents ==
    ASSUME NEW array, NEW i, NEW j, NEW n, RingOK(array, i, j, n)
    PROVE  Contents(array, i, n) = <<>> <=> n = 0
BY ContentsType, EmptySeq
=============================================================================
