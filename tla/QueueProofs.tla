---------------------------- MODULE QueueProofs ----------------------------
(***************************************************************************)
(* The invariants of Queue, proved for every number of threads, every      *)
(* capacity (zero included), every use of the queue and every set of       *)
(* library calls that may fail.                                            *)
(*                                                                         *)
(* None of TypeOK, RingInv and NoLostWakeup is inductive alone.  That a    *)
(* popped value is a value needs RingInv; that the array is only changed   *)
(* by a thread for which the test of its loop still holds needs the pc and *)
(* the mutex to agree, which is ThreadInv; and so does NoLostWakeup, since *)
(* a blocked thread must be known to stay in the function it called.       *)
(***************************************************************************)
EXTENDS Queue, RingBufferProofs

Inv == TypeOK /\ RingInv /\ ThreadInv /\ NoLostWakeup

USE DEF Conditions

-----------------------------------------------------------------------------
(* The two changes of the array keep it well-formed.                       *)

LEMMA StoreLastRing ==
    ASSUME TypeOK, RingInv, ~ IsFull, NEW t \in Threads, value[t] \in Values,
           StoreLast(t)
    PROVE  RingInv' /\ values_array' \in Arrays /\ push_index' \in Indices
              /\ number_of_values' \in 1 .. Capacity
<1> DEFINE i == pop_index
           n == number_of_values
<1>1. /\ i \in Indices
      /\ n \in 0 .. Capacity - 1
      /\ values_array \in Arrays
      /\ push_index = SlotAfter(i, n)
      /\ pop_index' = i
      /\ number_of_values' = n + 1
      /\ push_index' = Advance(push_index)
      /\ values_array' = [values_array EXCEPT ![push_index] = value[t]]
  BY RingAssumption DEF TypeOK, RingInv, IsFull, StoreLast, Store
<1>2. push_index \in Slots /\ push_index \in Indices
  BY <1>1, SlotAfterType DEF Indices
<1>3. push_index' = SlotAfter(i, n + 1)
  BY <1>1, PushMoves
<1>4. push_index' \in Indices /\ n + 1 \in 1 .. Capacity
  BY <1>1, <1>2, RingAssumption, AdvanceType DEF Indices
<1>5. values_array' \in Arrays
  BY <1>1, <1>2 DEF Arrays
<1>6. ASSUME NEW k \in 0 .. n
      PROVE  values_array'[SlotAfter(i, k)] \in Values
  <2>1. k \in 0 .. Capacity - 1 /\ SlotAfter(i, k) \in Slots
    BY <1>1, SlotAfterType, RingAssumption
  <2>2. values_array'[SlotAfter(i, k)] =
            IF SlotAfter(i, k) = push_index THEN value[t]
            ELSE values_array[SlotAfter(i, k)]
    BY <1>1, <2>1 DEF Arrays
  <2>3. k = n => SlotAfter(i, k) = push_index
    BY <1>1
  <2>4. k # n => values_array[SlotAfter(i, k)] \in Values
    BY <1>1 DEF RingInv
  <2> QED
    BY <2>2, <2>3, <2>4
<1>7. \A k \in 0 .. number_of_values' - 1 :
          values_array'[SlotAfter(i, k)] \in Values
  <2>1. number_of_values' - 1 = n
    BY <1>1
  <2> QED
    BY <1>6, <2>1
<1> QED
  BY <1>1, <1>3, <1>4, <1>5, <1>7 DEF RingInv

LEMMA StoreSortedRing ==
    ASSUME TypeOK, RingInv, ~ IsFull, NEW t \in Threads, value[t] \in Values,
           NEW offset \in 0 .. number_of_values,
           Store(t, InsertAt(values_array, SlotAfter(pop_index, offset),
                             push_index, value[t]))
    PROVE  RingInv' /\ values_array' \in Arrays /\ push_index' \in Indices
              /\ number_of_values' \in 1 .. Capacity
<1> DEFINE i == pop_index
           n == number_of_values
<1>1. /\ i \in Indices
      /\ n \in 0 .. Capacity - 1
      /\ offset \in 0 .. Capacity - 1
      /\ values_array \in Arrays
      /\ push_index = SlotAfter(i, n)
      /\ pop_index' = i
      /\ number_of_values' = n + 1
      /\ push_index' = Advance(push_index)
      /\ values_array' = InsertAt(values_array, SlotAfter(i, offset),
                                  push_index, value[t])
  BY RingAssumption DEF TypeOK, RingInv, IsFull, Store
<1>2. /\ push_index \in Slots /\ push_index \in Indices
      /\ SlotAfter(i, offset) \in Slots
  BY <1>1, SlotAfterType DEF Indices
<1>3. push_index' = SlotAfter(i, n + 1)
  BY <1>1, PushMoves
<1>4. push_index' \in Indices /\ n + 1 \in 1 .. Capacity
  BY <1>1, <1>2, RingAssumption, AdvanceType DEF Indices
<1>5. values_array' \in Arrays
  BY <1>1, <1>2, InsertAtType
<1>6. ASSUME NEW k \in 0 .. n
      PROVE  values_array'[SlotAfter(i, k)] \in Values
  <2>1. values_array'[SlotAfter(i, k)] =
            IF k < offset THEN values_array[SlotAfter(i, k)]
            ELSE IF k = offset THEN value[t]
            ELSE values_array[SlotAfter(i, k - 1)]
    BY <1>1, InsertAtContents
  <2>2. k < offset => values_array[SlotAfter(i, k)] \in Values
    BY <1>1 DEF RingInv
  <2>3. k > offset => values_array[SlotAfter(i, k - 1)] \in Values
    BY <1>1 DEF RingInv
  <2> QED
    BY <1>1, <2>1, <2>2, <2>3
<1>7. \A k \in 0 .. number_of_values' - 1 :
          values_array'[SlotAfter(i, k)] \in Values
  <2>1. number_of_values' - 1 = n
    BY <1>1
  <2> QED
    BY <1>6, <2>1
<1> QED
  BY <1>1, <1>3, <1>4, <1>5, <1>7 DEF RingInv

LEMMA FetchRing ==
    ASSUME TypeOK, RingInv, ~ IsEmpty, NEW t \in Threads, Fetch(t)
    PROVE  /\ RingInv'
           /\ pop_index' \in Indices
           /\ number_of_values' \in 0 .. Capacity - 1
           /\ values_array[pop_index] \in Values
<1> DEFINE i == pop_index
           n == number_of_values
<1>1. /\ i \in Indices
      /\ n \in 1 .. Capacity
      /\ push_index = SlotAfter(i, n)
      /\ pop_index' = Advance(i)
      /\ number_of_values' = n - 1
      /\ push_index' = push_index
      /\ values_array' = values_array
  BY RingAssumption DEF TypeOK, RingInv, IsEmpty, Fetch
<1>2. pop_index' \in Indices /\ n - 1 \in 0 .. Capacity - 1
  BY <1>1, RingAssumption, AdvanceType DEF Indices
<1>3. \A k \in 0 .. n - 1 : SlotAfter(Advance(i), k) = SlotAfter(i, k + 1)
  BY <1>1, PopMoves
<1>4. push_index' = SlotAfter(pop_index', number_of_values')
  BY <1>1, <1>3
<1>5. \A k \in 0 .. n - 1 : values_array[SlotAfter(i, k)] \in Values
  BY DEF RingInv
<1>6. \A k \in 0 .. number_of_values' - 1 :
          values_array'[SlotAfter(pop_index', k)] \in Values
  <2> SUFFICES ASSUME NEW k \in 0 .. n - 2
               PROVE  values_array[SlotAfter(Advance(i), k)] \in Values
    BY <1>1
  <2>1. k \in 0 .. n - 1 /\ k + 1 \in 0 .. n - 1
    BY <1>1, RingAssumption
  <2> QED
    BY <1>3, <1>5, <2>1
<1>7. SlotAfter(i, 0) = i
  BY <1>1, RingAssumption DEF Indices, Slots, SlotAfter
<1>8. values_array[i] \in Values
  BY <1>1, <1>5, <1>7
<1> QED
  BY <1>1, <1>2, <1>4, <1>6, <1>8 DEF RingInv

-----------------------------------------------------------------------------
(* Steps of a thread that leave the array alone.                           *)

USE DEF ringVars, objectVars, Goto, Answer

\* A waiting thread is one whose pc and operation say so; others are not.
LEMMA NotWaiting ==
    ASSUME ThreadInv, NEW t \in Threads, pc[t] # "wait"
    PROVE  ~ Asleep(t)
BY DEF ThreadInv, Asleep

LEMMA CallInv ==
    ASSUME Inv, NEW t \in Threads, CallAny(t)
    PROVE  Inv'
<1> PICK op \in Operations, v \in Values \cup {NoValue} : Call(t, op, v)
  BY DEF CallAny
<1>1. TypeOK'
  BY DEF Inv, TypeOK, MonitorTypeOK, Call
<1>2. RingInv'
  BY DEF Inv, RingInv, Call
<1>3. ThreadInv'
  BY DEF Inv, TypeOK, ThreadInv, Call
<1>4. NoLostWakeup'
  BY DEF Inv, TypeOK, MonitorTypeOK, ThreadInv, NoLostWakeup, IsEmpty, IsFull, Call
<1> QED
  BY <1>1, <1>2, <1>3, <1>4 DEF Inv

LEMMA EnterInv ==
    ASSUME Inv, NEW t \in Threads, Enter(t)
    PROVE  Inv'
<1>1. TypeOK'
  BY DEF Inv, TypeOK, MonitorTypeOK, Enter, Grab
<1>2. RingInv'
  BY DEF Inv, RingInv, Enter
<1>3. ThreadInv'
  BY QueueAssumption DEF Inv, TypeOK, MonitorTypeOK, ThreadInv, Enter, Grab
<1>4. NoLostWakeup'
  BY DEF Inv, NoLostWakeup, IsEmpty, IsFull, Enter
<1> QED
  BY <1>1, <1>2, <1>3, <1>4 DEF Inv

LEMMA WakeInv ==
    ASSUME Inv, NEW t \in Threads, Wake(t)
    PROVE  Inv'
<1>1. TypeOK'
  BY DEF Inv, TypeOK, MonitorTypeOK, Wake, Grab
<1>2. RingInv'
  BY DEF Inv, RingInv, Wake
<1>3. ThreadInv'
  BY QueueAssumption
     DEF Inv, TypeOK, MonitorTypeOK, ThreadInv, Wake, Grab, Asleep
<1>4. NoLostWakeup'
  BY DEF Inv, NoLostWakeup, IsEmpty, IsFull, Wake
<1> QED
  BY <1>1, <1>2, <1>3, <1>4 DEF Inv

LEMMA SpuriousWakeupInv ==
    ASSUME Inv, NEW t \in Threads, SpuriousWakeup(t)
    PROVE  Inv'
<1>1. TypeOK'
  BY DEF Inv, TypeOK, MonitorTypeOK, SpuriousWakeup, WakeSpuriously
<1>2. RingInv'
  BY DEF Inv, RingInv, SpuriousWakeup
<1>3. ThreadInv'
  BY DEF Inv, TypeOK, MonitorTypeOK, ThreadInv, SpuriousWakeup, WakeSpuriously
<1>4. NoLostWakeup'
  BY DEF Inv, TypeOK, MonitorTypeOK, NoLostWakeup, IsEmpty, IsFull,
         SpuriousWakeup, WakeSpuriously
<1> QED
  BY <1>1, <1>2, <1>3, <1>4 DEF Inv

LEMMA LeaveInv ==
    ASSUME Inv, NEW t \in Threads, Leave(t)
    PROVE  Inv'
<1>1. TypeOK'
  BY DEF Inv, TypeOK, MonitorTypeOK, Leave, Release
<1>2. RingInv'
  BY DEF Inv, RingInv, Leave
<1>3. ThreadInv'
  BY DEF Inv, TypeOK, MonitorTypeOK, ThreadInv, Leave, Release
<1>4. NoLostWakeup'
  BY DEF Inv, NoLostWakeup, IsEmpty, IsFull, Leave
<1> QED
  BY <1>1, <1>2, <1>3, <1>4 DEF Inv

LEMMA ReturnInv ==
    ASSUME Inv, NEW t \in Threads, Return(t)
    PROVE  Inv'
<1>1. TypeOK'
  BY DEF Inv, TypeOK, MonitorTypeOK, Return
<1>2. RingInv'
  BY DEF Inv, RingInv, Return
<1>3. ThreadInv'
  BY DEF Inv, TypeOK, MonitorTypeOK, ThreadInv, Return, Pushes, Blocking, Pops
<1>4. NoLostWakeup'
  BY DEF Inv, TypeOK, MonitorTypeOK, ThreadInv, NoLostWakeup, IsEmpty, IsFull,
         Return
<1> QED
  BY <1>1, <1>2, <1>3, <1>4 DEF Inv

LEMMA FreeInv ==
    ASSUME Inv, NEW t \in Threads, Free(t)
    PROVE  Inv'
<1>1. TypeOK'
  <2>1. \A slot \in Slots : values_array[slot] \in Values \cup {NoValue}
    BY DEF Inv, TypeOK, Arrays
  <2>2. finalized' \subseteq Values
    BY <2>1, Zenon DEF Free
  <2> QED
    BY <2>2 DEF Inv, TypeOK, MonitorTypeOK, Free
<1>2. RingInv'
  BY DEF Inv, RingInv, Free
<1>3. ThreadInv'
  BY DEF Inv, TypeOK, MonitorTypeOK, ThreadInv, Free, Pops
<1>4. NoLostWakeup'
  BY DEF Inv, NoLostWakeup, IsEmpty, IsFull, Free
<1> QED
  BY <1>1, <1>2, <1>3, <1>4 DEF Inv

\* Waiting: the caller shows that t has a reason to wait on the condition.
LEMMA SleepInv ==
    ASSUME Inv, NEW t \in Threads, NEW condition \in Conditions,
           Sleep(t, condition), pc[t] = "check", UNCHANGED <<operation, objectVars>>,
           condition = "empty_condition" => operation[t] = "pop" /\ IsEmpty,
           condition = "full_condition" =>
                \/ operation[t] \in Blocking /\ IsFull
                \/ operation[t] = "empty" /\ ~ IsEmpty
    PROVE  Inv'
<1>1. TypeOK'
  BY DEF Inv, TypeOK, MonitorTypeOK, Sleep, Wait, Release
<1>2. RingInv'
  BY DEF Inv, RingInv, Sleep
<1>3. ThreadInv'
  BY DEF Inv, TypeOK, MonitorTypeOK, ThreadInv, Sleep, Wait, Release
<1>4. NoLostWakeup'
  BY DEF Inv, TypeOK, MonitorTypeOK, ThreadInv, NoLostWakeup, IsEmpty, IsFull,
         Blocking, Sleep, Wait
<1> QED
  BY <1>1, <1>2, <1>3, <1>4 DEF Inv

LEMMA FinishInv ==
    ASSUME Inv, NEW t \in Threads, NEW r \in {-1, 0, 1}, Finish(t, r),
           r = 1 => operation[t] \notin Pops, pc[t] = "check", UNCHANGED <<operation, objectVars>>
    PROVE  Inv'
<1>1. TypeOK'
  BY DEF Inv, TypeOK, MonitorTypeOK, Finish
<1>2. RingInv'
  BY DEF Inv, RingInv, Finish
<1>3. ThreadInv'
  BY DEF Inv, TypeOK, MonitorTypeOK, ThreadInv, Finish
<1>4. NoLostWakeup'
  BY DEF Inv, NoLostWakeup, IsEmpty, IsFull, Finish
<1> QED
  BY <1>1, <1>2, <1>3, <1>4 DEF Inv

-----------------------------------------------------------------------------
(* Steps that change the array.                                            *)

\* A store, seen from outside the array: it announces that the queue is not
\* empty, and leaves a queue with at least one value.
LEMMA StoreInv ==
    ASSUME Inv, NEW t \in Threads, NEW array, Store(t, array),
           pc[t] = "check", ~ IsFull, operation[t] \in Pushes, UNCHANGED <<operation, objectVars>>,
           RingInv', values_array' \in Arrays, push_index' \in Indices,
           number_of_values' \in 1 .. Capacity
    PROVE  Inv'
<1>1. TypeOK'
  BY DEF Inv, TypeOK, MonitorTypeOK, Store, Announce, Broadcast
<1>2. ThreadInv'
  BY DEF Inv, TypeOK, MonitorTypeOK, ThreadInv, Store, Announce, Broadcast,
         Pushes, Pops, Blocking
<1>3. NoLostWakeup'
  <2> SUFFICES ASSUME "broadcast" \notin Faults
               PROVE  /\ waiting'["empty_condition"] # {} => IsEmpty'
                      /\ \A u \in waiting'["full_condition"] :
                            IF operation'[u] = "empty" THEN ~ IsEmpty' ELSE IsFull'
    BY DEF NoLostWakeup
  <2>1. waiting' = [waiting EXCEPT !["empty_condition"] = {}]
    BY DEF Store, Announce, Broadcast
  <2>2. waiting'["empty_condition"] = {}
    BY <2>1 DEF Inv, TypeOK, MonitorTypeOK
  <2>3. waiting'["full_condition"] = waiting["full_condition"]
    BY <2>1 DEF Inv, TypeOK, MonitorTypeOK
  <2>4. ~ IsEmpty'
    BY RingAssumption DEF IsEmpty
  <2> QED
    BY <2>2, <2>3, <2>4 DEF Inv, NoLostWakeup
<1> QED
  BY <1>1, <1>2, <1>3 DEF Inv

LEMMA FetchInv ==
    ASSUME Inv, NEW t \in Threads, Fetch(t), pc[t] = "check", ~ IsEmpty,
           operation[t] \in Pops, UNCHANGED <<operation, objectVars>>
    PROVE  Inv'
<1>1. /\ RingInv'
      /\ pop_index' \in Indices
      /\ number_of_values' \in 0 .. Capacity - 1
      /\ values_array[pop_index] \in Values
  BY FetchRing DEF Inv
<1>2. TypeOK'
  <2>1. number_of_values' \in 0 .. Capacity
    BY <1>1, RingAssumption
  <2> QED
    BY <1>1, <2>1 DEF Inv, TypeOK, MonitorTypeOK, Fetch, Announce, Broadcast
<1>3. ThreadInv'
  BY <1>1 DEF Inv, TypeOK, MonitorTypeOK, ThreadInv, Fetch, Announce, Broadcast
<1>4. NoLostWakeup'
  <2> SUFFICES ASSUME "broadcast" \notin Faults
               PROVE  /\ waiting'["empty_condition"] # {} => IsEmpty'
                      /\ \A u \in waiting'["full_condition"] :
                            IF operation'[u] = "empty" THEN ~ IsEmpty' ELSE IsFull'
    BY DEF NoLostWakeup
  <2>1. waiting' = [waiting EXCEPT !["full_condition"] = {}]
    BY DEF Fetch, Announce, Broadcast
  <2>2. waiting'["full_condition"] = {}
    BY <2>1 DEF Inv, TypeOK, MonitorTypeOK
  <2>3. waiting'["empty_condition"] = waiting["empty_condition"]
    BY <2>1 DEF Inv, TypeOK, MonitorTypeOK
  <2>4. waiting["empty_condition"] = {}
    BY DEF Inv, NoLostWakeup
  <2> QED
    BY <2>2, <2>3, <2>4
<1> QED
  BY <1>1, <1>2, <1>3, <1>4 DEF Inv

-----------------------------------------------------------------------------
(* The functions of the queue.                                             *)

LEMMA PushInv ==
    ASSUME Inv, NEW t \in Threads, Push(t) \/ TryPush(t)
    PROVE  Inv'
<1>1. /\ pc[t] = "check"
      /\ operation[t] \in {"push", "try_push"}
      /\ UNCHANGED <<operation, objectVars>>
  BY DEF Push, TryPush, Holds
<1>2. CASE operation[t] = "push" /\ IsFull /\ Sleep(t, "full_condition")
  BY <1>1, <1>2, SleepInv DEF Blocking
<1>3. CASE IsFull /\ Finish(t, 0)
  BY <1>1, <1>3, FinishInv
<1>4. CASE ~ IsFull /\ StoreLast(t)
  <2>1. value[t] \in Values
    BY <1>1 DEF Inv, ThreadInv, Pushes, Blocking
  <2>2. /\ RingInv'
        /\ values_array' \in Arrays
        /\ push_index' \in Indices
        /\ number_of_values' \in 1 .. Capacity
    BY <1>4, <2>1, StoreLastRing DEF Inv
  <2> QED
    BY <1>1, <1>4, <2>2, StoreInv DEF StoreLast, Pushes, Blocking
<1> QED
  BY <1>2, <1>3, <1>4 DEF Push, TryPush, Holds

LEMMA PushSortedInv ==
    ASSUME Inv, NEW t \in Threads, PushSorted(t)
    PROVE  Inv'
<1>1. /\ pc[t] = "check"
      /\ operation[t] \in {"push_sorted", "push_unique"}
      /\ UNCHANGED <<operation, objectVars>>
  BY DEF PushSorted, Holds
<1>2. CASE IsFull /\ Sleep(t, "full_condition")
  BY <1>1, <1>2, SleepInv DEF Blocking
<1>3. CASE Finish(t, 0) \/ Finish(t, -1)
  BY <1>1, <1>3, FinishInv
<1>4. ASSUME ~ IsFull, NEW offset \in 0 .. number_of_values,
             Store(t, InsertAt(values_array, SlotAfter(pop_index, offset),
                               push_index, value[t]))
      PROVE  Inv'
  <2>1. value[t] \in Values
    BY <1>1 DEF Inv, ThreadInv, Pushes, Blocking
  <2>2. /\ RingInv'
        /\ values_array' \in Arrays
        /\ push_index' \in Indices
        /\ number_of_values' \in 1 .. Capacity
    BY <1>4, <2>1, StoreSortedRing DEF Inv
  <2> QED
    BY <1>1, <1>4, <2>2, StoreInv DEF Pushes, Blocking
<1> QED
  BY <1>2, <1>3, <1>4 DEF PushSorted

LEMMA PopInv ==
    ASSUME Inv, NEW t \in Threads, Pop(t) \/ TryPop(t)
    PROVE  Inv'
<1>1. /\ pc[t] = "check"
      /\ operation[t] \in Pops
      /\ UNCHANGED <<operation, objectVars>>
  BY DEF Pop, TryPop, Holds, Pops
<1>2. CASE operation[t] = "pop" /\ IsEmpty /\ Sleep(t, "empty_condition")
  BY <1>1, <1>2, SleepInv
<1>3. CASE Finish(t, 0)
  BY <1>1, <1>3, FinishInv
<1>4. CASE ~ IsEmpty /\ Fetch(t)
  BY <1>1, <1>4, FetchInv
<1> QED
  BY <1>2, <1>3, <1>4 DEF Pop, TryPop, Holds

LEMMA EmptyInv ==
    ASSUME Inv, NEW t \in Threads, Empty(t)
    PROVE  Inv'
<1>1. /\ pc[t] = "check"
      /\ operation[t] = "empty"
      /\ UNCHANGED <<operation, objectVars>>
  BY DEF Empty, Holds
<1>2. CASE ~ IsEmpty /\ Sleep(t, "full_condition")
  BY <1>1, <1>2, SleepInv
<1>3. CASE Finish(t, 1)
  BY <1>1, <1>3, FinishInv DEF Pops
<1> QED
  BY <1>2, <1>3 DEF Empty

-----------------------------------------------------------------------------
(* The theorems.                                                           *)

LEMMA InitInv == Init => Inv
<1> SUFFICES ASSUME Init PROVE Inv
  OBVIOUS
<1>1. TypeOK
  BY RingAssumption
     DEF Init, TypeOK, MonitorInit, MonitorTypeOK, Arrays, Indices, Slots
<1>2. RingInv
  BY RingAssumption DEF Init, RingInv, SlotAfter
<1>3. ThreadInv
  BY DEF Init, ThreadInv, MonitorInit, Pushes, Pops, Blocking
<1>4. NoLostWakeup
  BY DEF Init, NoLostWakeup, MonitorInit
<1> QED
  BY <1>1, <1>2, <1>3, <1>4 DEF Inv

LEMMA NextInv == Inv /\ [Next]_vars => Inv'
<1> SUFFICES ASSUME Inv, [Next]_vars PROVE Inv'
  OBVIOUS
<1>1. CASE UNCHANGED vars
  BY <1>1 DEF vars, Inv, TypeOK, MonitorTypeOK, RingInv, ThreadInv,
              NoLostWakeup, IsEmpty, IsFull
<1>2. ASSUME NEW t \in Threads, Step(t)
      PROVE  Inv'
  BY <1>2, EnterInv, WakeInv, LeaveInv, ReturnInv, PushInv, PushSortedInv,
     PopInv, EmptyInv DEF Step
<1>3. ASSUME NEW t \in Threads,
             CallAny(t) \/ SpuriousWakeup(t) \/ Free(t)
      PROVE  Inv'
  BY <1>3, CallInv, SpuriousWakeupInv, FreeInv
<1> QED
  BY <1>1, <1>2, <1>3 DEF Next

THEOREM Invariant == Spec => []Inv
BY InitInv, NextInv, PTL DEF Spec

(* Every variable of the queue keeps its type; in particular the number of *)
(* values stays within the capacity and the indices inside the array.      *)
THEOREM TypeCorrect == Spec => []TypeOK
BY Invariant, PTL DEF Inv

(* The circular array of libcthreads_queue.c holds together under every    *)
(* sequence of pushes, sorted pushes and pops of any threads, also when    *)
(* they fail half way.                                                     *)
THEOREM RingCorrect == Spec => []RingInv
BY Invariant, PTL DEF Inv

(* The mutex protects the queue: a thread that is between the grab and the *)
(* release of a function owns it, hence there is at most one; and no pop   *)
(* returns the NULL of a slot that was never pushed to.                    *)
THEOREM ThreadsCorrect == Spec => []ThreadInv
BY Invariant, PTL DEF Inv

(* No push, pop or libcthreads_queue_empty sleeps through the change it    *)
(* waits for, unless a broadcast fails.                                    *)
THEOREM WakeupsCorrect == Spec => []NoLostWakeup
BY Invariant, PTL DEF Inv
=============================================================================
