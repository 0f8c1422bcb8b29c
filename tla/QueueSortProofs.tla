--------------------------- MODULE QueueSortProofs ---------------------------
(***************************************************************************)
(* SortedContents of Queue, proved for every number of threads and every   *)
(* capacity.  Besides Inv, which says that the slots of the queue hold     *)
(* values (keys are only known of values), it needs that no thread is      *)
(* inside a function it may not call.  An insertion keeps the queue sorted *)
(* because of where the scan of push_sorted ends (ScanEndsAt) and of what  *)
(* the shift makes of the array (InsertAtContents).                        *)
(***************************************************************************)
EXTENDS QueueProofs

\* A thread is only inside a function that it may call.
CallsAllowed ==
    \A t \in Threads : operation[t] # "none" => operation[t] \in MayCall[t]

\* Nobody uses the functions that append.
OnlySorted == \A t \in Threads : MayCall[t] \cap {"push", "try_push"} = {}

\* The k-th value of the queue, from 0, and that they are in order.
Item(k) == values_array[SlotAfter(pop_index, k)]

ItemsInOrder ==
    \A i, j \in 0 .. number_of_values - 1 : i < j => Key[Item(i)] <= Key[Item(j)]

SortInv == Inv /\ CallsAllowed /\ (OnlySorted => ItemsInOrder)

-----------------------------------------------------------------------------
\* The keys of the queued values are integers.
LEMMA ItemKeys ==
    ASSUME Inv, NEW k \in 0 .. number_of_values - 1
    PROVE  Key[Item(k)] \in Int
BY RingAssumption DEF Inv, RingInv, Item

\* ItemsInOrder is what SortedContents says of the sequence of values.
LEMMA InOrderIsSorted ==
    ASSUME SortInv PROVE SortedContents
<1> SUFFICES ASSUME OnlySorted,
                    NEW i \in 1 .. number_of_values,
                    NEW j \in 1 .. number_of_values, i < j
             PROVE  ~ LessKey(Contents(values_array, pop_index, number_of_values)[j],
                              Contents(values_array, pop_index, number_of_values)[i])
  BY DEF SortedContents, OnlySorted
<1>1. /\ i - 1 \in 0 .. number_of_values - 1
      /\ j - 1 \in 0 .. number_of_values - 1
      /\ i - 1 < j - 1
  BY DEF SortInv, Inv, TypeOK
<1>2. Key[Item(i - 1)] <= Key[Item(j - 1)]
  BY <1>1 DEF SortInv, ItemsInOrder
<1>3. /\ Contents(values_array, pop_index, number_of_values)[i] = Item(i - 1)
      /\ Contents(values_array, pop_index, number_of_values)[j] = Item(j - 1)
  BY DEF Contents, Item
<1>4. Key[Item(i - 1)] \in Int /\ Key[Item(j - 1)] \in Int
  BY <1>1, ItemKeys DEF SortInv
<1> QED
  BY <1>2, <1>3, <1>4 DEF LessKey

\* Steps that leave the array alone leave it in order.
LEMMA SameRingInOrder ==
    ASSUME ItemsInOrder, UNCHANGED ringVars
    PROVE  ItemsInOrder'
BY DEF ItemsInOrder, Item, ringVars

\* A pop takes the first value away.
LEMMA FetchInOrder ==
    ASSUME Inv, ItemsInOrder, ~ IsEmpty, NEW t \in Threads, Fetch(t)
    PROVE  ItemsInOrder'
<1>1. /\ pop_index \in Indices
      /\ number_of_values \in 1 .. Capacity
      /\ pop_index' = Advance(pop_index)
      /\ number_of_values' = number_of_values - 1
      /\ values_array' = values_array
  BY RingAssumption DEF Inv, TypeOK, IsEmpty, Fetch
<1>2. ASSUME NEW k \in 0 .. number_of_values' - 1
      PROVE  /\ k + 1 \in 0 .. number_of_values - 1
             /\ Item(k)' = Item(k + 1)
  <2>1. k \in 0 .. number_of_values - 1 /\ k + 1 \in 0 .. number_of_values - 1
    BY <1>1, RingAssumption
  <2>2. SlotAfter(Advance(pop_index), k) = SlotAfter(pop_index, k + 1)
    BY <1>1, <2>1, PopMoves
  <2> QED
    BY <1>1, <2>1, <2>2 DEF Item
<1> SUFFICES ASSUME NEW i \in 0 .. number_of_values' - 1,
                    NEW j \in 0 .. number_of_values' - 1, i < j
             PROVE  Key[Item(i)'] <= Key[Item(j)']
  BY DEF ItemsInOrder
<1>3. /\ i + 1 \in 0 .. number_of_values - 1 /\ Item(i)' = Item(i + 1)
      /\ j + 1 \in 0 .. number_of_values - 1 /\ Item(j)' = Item(j + 1)
  BY <1>2
<1>4. i + 1 < j + 1
  OBVIOUS
<1> QED
  BY <1>3, <1>4 DEF ItemsInOrder

\* push_sorted inserts where the order asks for it: the scan has passed no
\* greater value, and stopped at a greater one, since an equal one that it
\* stops at makes the function return 0 instead.
LEMMA InsertInOrder ==
    ASSUME Inv, ItemsInOrder, ~ IsFull, NEW t \in Threads,
           value[t] \in Values, NEW unique \in BOOLEAN,
           NEW offset \in 0 .. number_of_values,
           ScanEndsAt(offset, values_array, pop_index, number_of_values,
                      value[t], unique),
           ~ (/\ offset < number_of_values
              /\ SameKey(value[t], values_array[SlotAfter(pop_index, offset)])),
           Store(t, InsertAt(values_array, SlotAfter(pop_index, offset),
                             push_index, value[t]))
    PROVE  ItemsInOrder'
<1> DEFINE n == number_of_values
           v == value[t]
<1>1. /\ pop_index \in Indices
      /\ n \in 0 .. Capacity - 1
      /\ values_array \in Arrays
      /\ push_index = SlotAfter(pop_index, n)
      /\ pop_index' = pop_index
      /\ n' = n + 1
      /\ values_array' = InsertAt(values_array, SlotAfter(pop_index, offset),
                                  SlotAfter(pop_index, n), v)
  BY RingAssumption DEF Inv, TypeOK, RingInv, IsFull, Store
<1>2. \A k \in 0 .. n : Item(k)' = IF k < offset THEN Item(k)
                                   ELSE IF k = offset THEN v
                                   ELSE Item(k - 1)
  <2>1. \A k \in 0 .. n :
          InsertAt(values_array, SlotAfter(pop_index, offset),
                   SlotAfter(pop_index, n), v)[SlotAfter(pop_index, k)] =
            IF k < offset THEN values_array[SlotAfter(pop_index, k)]
            ELSE IF k = offset THEN v
            ELSE values_array[SlotAfter(pop_index, k - 1)]
    BY <1>1, InsertAtContents
  <2> QED
    BY <1>1, <2>1 DEF Item
<1>3. /\ Key[v] \in Int
      /\ \A k \in 0 .. n - 1 : Key[Item(k)] \in Int
  BY RingAssumption, ItemKeys
<1>4. \A k \in 0 .. offset - 1 : Key[Item(k)] <= Key[v]
  <2> SUFFICES ASSUME NEW k \in 0 .. offset - 1 PROVE Key[Item(k)] <= Key[v]
    OBVIOUS
  <2>1. ~ LessKey(v, Item(k))
    BY DEF ScanEndsAt, Stops, Item
  <2>2. k \in 0 .. n - 1
    BY <1>1
  <2> QED
    BY <1>3, <2>1, <2>2 DEF LessKey
<1>5. \A k \in offset .. n - 1 : Key[v] <= Key[Item(k)]
  <2> SUFFICES ASSUME NEW k \in offset .. n - 1 PROVE Key[v] <= Key[Item(k)]
    OBVIOUS
  <2>1. offset < n /\ offset \in 0 .. n - 1 /\ k \in 0 .. n - 1
    BY <1>1
  <2>2. LessKey(v, Item(offset))
    BY <2>1 DEF ScanEndsAt, Stops, Item
  <2>3. Key[v] < Key[Item(offset)]
    BY <2>2 DEF LessKey
  <2>4. offset < k => Key[Item(offset)] <= Key[Item(k)]
    BY <2>1 DEF ItemsInOrder
  <2> QED
    BY <1>1, <1>3, <2>1, <2>3, <2>4
<1> SUFFICES ASSUME NEW i \in 0 .. n, NEW j \in 0 .. n, i < j
             PROVE  Key[Item(i)'] <= Key[Item(j)']
  BY <1>1 DEF ItemsInOrder
<1>6. CASE j < offset
  BY <1>1, <1>2, <1>6 DEF ItemsInOrder
<1>7. CASE j = offset
  BY <1>1, <1>2, <1>4, <1>7
<1>8. CASE j > offset /\ i < offset
  <2>1. i \in 0 .. n - 1 /\ j - 1 \in 0 .. n - 1 /\ i < j - 1
    BY <1>1, <1>8
  <2> QED
    BY <1>2, <1>8, <2>1 DEF ItemsInOrder
<1>9. CASE j > offset /\ i = offset
  <2>1. j - 1 \in offset .. n - 1
    BY <1>1, <1>9
  <2> QED
    BY <1>2, <1>5, <1>9, <2>1
<1>10. CASE j > offset /\ i > offset
  <2>1. i - 1 \in 0 .. n - 1 /\ j - 1 \in 0 .. n - 1 /\ i - 1 < j - 1
    BY <1>1, <1>10
  <2> QED
    BY <1>2, <1>10, <2>1 DEF ItemsInOrder
<1> QED
  BY <1>1, <1>6, <1>7, <1>8, <1>9, <1>10

-----------------------------------------------------------------------------
LEMMA CallsAllowedKept ==
    ASSUME Inv, CallsAllowed, [Next]_vars
    PROVE  CallsAllowed'
<1>1. CASE UNCHANGED vars
  BY <1>1 DEF vars, CallsAllowed
<1>2. ASSUME NEW t \in Threads,
             Step(t) \/ SpuriousWakeup(t) \/ Free(t)
      PROVE  operation' = operation \/ operation' = [operation EXCEPT ![t] = "none"]
  BY <1>2 DEF Step, Enter, Wake, Leave, Return, Push, TryPush, PushSorted, Pop,
              TryPop, Empty, Holds, SpuriousWakeup, Free
<1>3. ASSUME NEW t \in Threads,
             operation' = operation \/ operation' = [operation EXCEPT ![t] = "none"]
      PROVE  CallsAllowed'
  BY <1>3 DEF CallsAllowed, Inv, TypeOK
<1>4. ASSUME NEW t \in Threads, CallAny(t)
      PROVE  CallsAllowed'
  BY <1>4 DEF CallAny, Call, CallsAllowed, Inv, TypeOK
<1> QED
  BY <1>1, <1>2, <1>3, <1>4 DEF Next

LEMMA InOrderKept ==
    ASSUME SortInv, OnlySorted, [Next]_vars
    PROVE  ItemsInOrder'
<1>0. Inv /\ CallsAllowed /\ ItemsInOrder
  BY DEF SortInv
<1>1. CASE UNCHANGED ringVars
  BY <1>0, <1>1, SameRingInOrder
<1>2. CASE UNCHANGED vars
  BY <1>1, <1>2 DEF vars
<1>3. ASSUME NEW t \in Threads,
             \/ CallAny(t) \/ SpuriousWakeup(t) \/ Free(t)
             \/ Enter(t) \/ Wake(t) \/ Leave(t) \/ Return(t) \/ Empty(t)
      PROVE  UNCHANGED ringVars
  BY <1>3 DEF CallAny, Call, SpuriousWakeup, Free, Enter, Wake, Leave, Return,
              Empty, Sleep, Finish
<1>4. ASSUME NEW t \in Threads, Push(t) \/ TryPush(t)
      PROVE  FALSE
  BY <1>0, <1>4 DEF Push, TryPush, Holds, CallsAllowed, OnlySorted
<1>5. ASSUME NEW t \in Threads, Pop(t) \/ TryPop(t)
      PROVE  ItemsInOrder'
  <2>1. UNCHANGED ringVars \/ (~ IsEmpty /\ Fetch(t))
    BY <1>5 DEF Pop, TryPop, Sleep, Finish
  <2> QED
    BY <1>0, <1>1, <2>1, FetchInOrder
<1>6. ASSUME NEW t \in Threads, PushSorted(t)
      PROVE  ItemsInOrder'
  <2> DEFINE unique == operation[t] = "push_unique"
  <2>1. value[t] \in Values
    BY <1>0, <1>6 DEF PushSorted, Holds, Inv, ThreadInv, Pushes, Blocking
  <2>2. ASSUME ~ IsFull, NEW offset \in 0 .. number_of_values,
               ScanEndsAt(offset, values_array, pop_index, number_of_values,
                          value[t], unique),
               ~ (/\ offset < number_of_values
                  /\ SameKey(value[t],
                             values_array[SlotAfter(pop_index, offset)])),
               Store(t, InsertAt(values_array, SlotAfter(pop_index, offset),
                                 push_index, value[t]))
        PROVE  ItemsInOrder'
    <3>1. unique \in BOOLEAN
      OBVIOUS
    <3> QED
      BY <1>0, <2>1, <2>2, <3>1, InsertInOrder
  <2>3. CASE Sleep(t, "full_condition") \/ Finish(t, 0) \/ Finish(t, -1)
    BY <1>1, <2>3 DEF Sleep, Finish
  <2> QED
    BY <1>6, <2>2, <2>3 DEF PushSorted
<1> QED
  BY <1>1, <1>2, <1>3, <1>4, <1>5, <1>6 DEF Next, Step

LEMMA SortInvInductive == SortInv /\ [Next]_vars => SortInv'
<1> SUFFICES ASSUME SortInv, [Next]_vars PROVE SortInv'
  OBVIOUS
<1>1. Inv' /\ CallsAllowed'
  BY NextInv, CallsAllowedKept DEF SortInv
<1>2. OnlySorted' => OnlySorted
  BY DEF OnlySorted
<1> QED
  BY <1>1, <1>2, InOrderKept DEF SortInv

(* A queue that is only filled by libcthreads_queue_push_sorted is sorted  *)
(* at all times, whatever any number of threads push and pop meanwhile,    *)
(* wherever the array has wrapped and whichever library calls fail.        *)
THEOREM SortedCorrect == Spec => []SortedContents
<1>1. Init => SortInv
  <2>1. Init => CallsAllowed /\ ItemsInOrder
    BY DEF Init, CallsAllowed, ItemsInOrder
  <2> QED
    BY <2>1, InitInv DEF SortInv
<1>2. SortInv => SortedContents
  BY InOrderIsSorted
<1> QED
  BY <1>1, <1>2, SortInvInductive, PTL DEF Spec
=============================================================================
