------------------------- MODULE BoundedQueueProofs -------------------------
(***************************************************************************)
(* What libcthreads_queue promises its callers, proved for every number of *)
(* threads, every capacity, every use of the queue and every set of        *)
(* library calls that may fail: Queue implements BoundedQueue, and a queue *)
(* that is freed accounts for every value it accepted.                     *)
(*                                                                         *)
(* A call takes effect in the step that changes the array, finds it empty  *)
(* or full, or finds the value: there the thread goes to "leave".  What    *)
(* the step does to the sequence of values are the lemmas on Contents; all *)
(* other steps leave it alone, and a step that fails is one of Fail or,    *)
(* when the release fails after the effect, FailLate.                      *)
(***************************************************************************)
EXTENDS QueueWorkload, QueueProofs

USE DEF Conditions, ringVars, objectVars, Goto, Answer

\* A thread outside the functions of the queue, or in queue_free, has no
\* value; one inside has an operation.
IdleInv ==
    \A t \in Threads :
        operation[t] = "none" =>
            value[t] = NoValue /\ pc[t] \in {"idle", "return"}

\* A pop has a value from the step on in which it takes it away.
PoppedInv ==
    \A t \in Threads :
        operation[t] \in Pops /\ value[t] # NoValue =>
            pc[t] \in {"leave", "return"} /\ result[t] # 0

UserInv == Inv /\ IdleInv /\ PoppedInv

-----------------------------------------------------------------------------
(* The invariant.                                                          *)

\* Inv as the ring lemmas have it.
LEMMA RingIsOK ==
    ASSUME Inv
    PROVE  RingOK(values_array, pop_index, push_index, number_of_values)
BY DEF Inv, TypeOK, RingInv, RingOK

LEMMA UserInvInit == Init => UserInv
BY InitInv DEF Init, UserInv, IdleInv, PoppedInv, Pops

LEMMA UserInvNext == UserInv /\ [Next]_vars => UserInv'
<1> SUFFICES ASSUME UserInv, [Next]_vars PROVE UserInv'
  OBVIOUS
<1>1. Inv'
  BY NextInv DEF UserInv
<1>2. CASE UNCHANGED vars
  BY <1>1, <1>2 DEF UserInv, IdleInv, PoppedInv, vars
<1>3. ASSUME NEW t \in Threads,
             \/ CallAny(t) \/ SpuriousWakeup(t) \/ Free(t)
             \/ Enter(t) \/ Wake(t) \/ Leave(t) \/ Return(t)
      PROVE  IdleInv' /\ PoppedInv'
  <2> USE <1>3 DEF UserInv, Inv, TypeOK, ThreadInv
  <2>1. CASE CallAny(t)
    BY <2>1 DEF CallAny, Call, IdleInv, PoppedInv, Operations, Pushes, Pops,
       Blocking
  <2>2. CASE SpuriousWakeup(t)
    BY <2>2 DEF SpuriousWakeup, IdleInv, PoppedInv
  <2>3. CASE Free(t)
    BY <2>3 DEF Free, IdleInv, PoppedInv, Pops
  <2>4. CASE Enter(t)
    BY <2>4 DEF Enter, IdleInv, PoppedInv
  <2>5. CASE Wake(t)
    BY <2>5 DEF Wake, IdleInv, PoppedInv
  <2>6. CASE Leave(t)
    BY <2>6 DEF Leave, IdleInv, PoppedInv
  <2>7. CASE Return(t)
    BY <2>7 DEF Return, IdleInv, PoppedInv, Pops
  <2> QED
    BY <2>1, <2>2, <2>3, <2>4, <2>5, <2>6, <2>7
<1>4. ASSUME NEW t \in Threads,
             \/ Push(t) \/ TryPush(t) \/ PushSorted(t)
             \/ Pop(t) \/ TryPop(t) \/ Empty(t)
      PROVE  IdleInv' /\ PoppedInv'
  <2>1. pc[t] = "check" /\ UNCHANGED operation /\ operation[t] # "none"
    BY <1>4 DEF UserInv, IdleInv, Push, TryPush, PushSorted, Pop, TryPop,
       Empty, Holds
  <2>2. /\ \A u \in Threads \ {t} :
              value'[u] = value[u] /\ pc'[u] = pc[u] /\ result'[u] = result[u]
        /\ \/ value'[t] = value[t]
           \/ operation[t] \in Pops /\ pc'[t] = "leave" /\ result'[t] # 0
    BY <1>4 DEF UserInv, Inv, TypeOK, Push, TryPush, PushSorted, Pop, TryPop,
       Empty, Holds, Sleep, Finish, StoreLast, Store, Fetch, Announce, Pops
  <2>3. operation[t] \in Pops => value[t] = NoValue
    BY <2>1 DEF UserInv, PoppedInv
  <2> QED
    BY <2>1, <2>2, <2>3 DEF UserInv, IdleInv, PoppedInv
<1> QED
  BY <1>1, <1>2, <1>3, <1>4 DEF Next, Step, UserInv

-----------------------------------------------------------------------------
(* How a step looks to the callers.                                        *)

Items == Contents(values_array, pop_index, number_of_values)

\* The view of the callers does not change.
Unseen ==
    UNCHANGED <<Items,
        [t \in Threads |->
            IF operation[t] = "none"
            THEN "idle"
            ELSE IF pc[t] \in {"leave", "return"} THEN "done" ELSE "pending"],
        operation, value,
        [t \in Threads |-> IF operation[t] = "none" THEN 0 ELSE result[t]]>>

\* The effect of a call, and a call that fails.
LEMMA EffectSeen ==
    ASSUME UserInv, NEW t \in Threads, NEW r \in {0, 1}, NEW q \in {-1, 0, 1},
           pc[t] = "check", operation[t] # "none",
           Goto(t, "leave"), Answer(t, q), UNCHANGED operation,
           q = r \/ (q = -1 /\ "broadcast" \in Faults)
    PROVE  BQ!Effect(t, r)
BY DEF BQ!Effect, UserInv, Inv, TypeOK

LEMMA PendingSeen ==
    ASSUME UserInv, NEW t \in Threads, NEW ops, operation[t] \in ops,
           pc[t] = "check"
    PROVE  BQ!Pending(t, ops)
BY DEF BQ!Pending, UserInv, IdleInv

LEMMA FailSeen ==
    ASSUME UserInv, NEW t \in Threads, NEW label \in {"leave", "return"},
           pc[t] \in {"enter", "check"}, Faults \ {"value_free"} # {},
           Goto(t, label), Answer(t, -1),
           UNCHANGED <<operation, value, ringVars>>
    PROVE  BQ!Fail(t)
BY DEF BQ!Fail, UserInv, Inv, TypeOK, IdleInv

LEMMA SleepSeen ==
    ASSUME UserInv, NEW t \in Threads, NEW condition, Sleep(t, condition),
           pc[t] = "check", UNCHANGED operation
    PROVE  BQ!Fail(t) \/ Unseen
<1>1. CASE Goto(t, "wait") /\ UNCHANGED result
  BY <1>1 DEF Sleep, Unseen, UserInv, Inv, TypeOK, Items
<1>2. CASE "wait" \in Faults /\ Goto(t, "leave") /\ Answer(t, -1)
  <2>1. Faults \ {"value_free"} # {}
    BY <1>2
  <2>2. "leave" \in {"leave", "return"} /\ pc[t] \in {"enter", "check"}
    OBVIOUS
  <2> QED
    BY <1>2, <2>1, <2>2, FailSeen DEF Sleep
<1> QED
  BY <1>1, <1>2 DEF Sleep

LEMMA FinishSeen ==
    ASSUME UserInv, NEW t \in Threads, NEW r \in {0, 1},
           pc[t] = "check", operation[t] # "none", UNCHANGED operation,
           Finish(t, r)
    PROVE  BQ!Effect(t, r) /\ UNCHANGED <<Items, value>>
<1>1. Goto(t, "leave") /\ Answer(t, r) /\ UNCHANGED <<ringVars, value>>
  BY DEF Finish
<1>2. r \in {-1, 0, 1}
  OBVIOUS
<1> QED
  BY <1>1, <1>2, EffectSeen DEF Items

\* What a change of the array that is announced does for the callers.
LEMMA AnnounceSeen ==
    ASSUME UserInv, NEW t \in Threads, NEW condition \in Conditions,
           pc[t] = "check", operation[t] # "none", UNCHANGED operation,
           Announce(t, condition)
    PROVE  BQ!Effect(t, 1)
<1>1. Goto(t, "leave")
  BY DEF Announce
<1>2. CASE Answer(t, 1)
  <2>1. 1 \in {0, 1} /\ 1 \in {-1, 0, 1}
    OBVIOUS
  <2> QED
    BY <1>1, <1>2, <2>1, EffectSeen
<1>3. CASE "broadcast" \in Faults /\ Answer(t, -1)
  <2>1. 1 \in {0, 1} /\ -1 \in {-1, 0, 1}
    OBVIOUS
  <2> QED
    BY <1>1, <1>3, <2>1, EffectSeen
<1> QED
  BY <1>2, <1>3 DEF Announce

-----------------------------------------------------------------------------
(* The steps of a thread outside of the critical section.                  *)

LEMMA CallSeen ==
    ASSUME UserInv, NEW t \in Threads, CallAny(t)
    PROVE  BQ!Invoke(t)
<1>1. PICK op \in Operations, v \in Values \cup {NoValue} : Call(t, op, v)
  BY DEF CallAny
<1>2. /\ op \in BQ!Operations
      /\ op \in BQ!Pushes <=> v # NoValue
  BY <1>1, RingAssumption
     DEF Call, BQ!Operations, BQ!Pushes, Operations, Pushes, Blocking, Pops
<1>3. pc[t] = "idle" /\ operation[t] = "none" /\ result[t] = 0
  BY <1>1 DEF Call, UserInv, Inv, ThreadInv, TypeOK
<1>4. op # "none"
  BY DEF Operations, Pushes, Blocking, Pops
<1> QED
  BY <1>1, <1>2, <1>3, <1>4 DEF Call, BQ!Invoke, UserInv, Inv, TypeOK

LEMMA EnterSeen ==
    ASSUME UserInv, NEW t \in Threads, Enter(t)
    PROVE  BQ!Fail(t) \/ Unseen
<1>1. CASE Goto(t, "check") /\ UNCHANGED result
  BY <1>1 DEF Enter, Unseen, UserInv, Inv, TypeOK, Items
<1>2. CASE "grab" \in Faults /\ Goto(t, "return") /\ Answer(t, -1)
  <2>1. Faults \ {"value_free"} # {}
    BY <1>2
  <2>2. "return" \in {"leave", "return"} /\ pc[t] \in {"enter", "check"}
    BY DEF Enter
  <2> QED
    BY <1>2, <2>1, <2>2, FailSeen DEF Enter
<1> QED
  BY <1>1, <1>2 DEF Enter

LEMMA WakeSeen ==
    ASSUME UserInv, NEW t \in Threads, Wake(t) \/ SpuriousWakeup(t)
    PROVE  Unseen
BY DEF Wake, SpuriousWakeup, Unseen, UserInv, Inv, TypeOK, Items

LEMMA LeaveSeen ==
    ASSUME UserInv, NEW t \in Threads, Leave(t)
    PROVE  BQ!FailLate(t) \/ Unseen
<1>1. operation[t] # "none" /\ UNCHANGED <<operation, value, Items>>
  BY DEF Leave, UserInv, IdleInv, Items
<1>2. CASE UNCHANGED result
  BY <1>1, <1>2 DEF Leave, Unseen, UserInv, Inv, TypeOK
<1>3. CASE "release" \in Faults /\ Answer(t, -1)
  BY <1>1, <1>3 DEF Leave, BQ!FailLate, UserInv, Inv, TypeOK, Items
<1> QED
  BY <1>2, <1>3 DEF Leave

LEMMA ReturnSeen ==
    ASSUME UserInv, NEW t \in Threads, Return(t)
    PROVE  BQ!Return(t) \/ Unseen
<1>1. CASE operation[t] # "none"
  BY <1>1 DEF Return, BQ!Return, UserInv, Inv, TypeOK
<1>2. CASE operation[t] = "none"
  BY <1>2 DEF Return, Unseen, UserInv, IdleInv, Inv, TypeOK, Items
<1> QED
  BY <1>1, <1>2

LEMMA FreeSeen ==
    ASSUME UserInv, NEW t \in Threads, Free(t)
    PROVE  Unseen
<1>1. operation[t] = "none"
  BY DEF Free, UserInv, Inv, ThreadInv
<1> QED
  BY <1>1 DEF Free, Unseen, UserInv, Inv, TypeOK, Items

-----------------------------------------------------------------------------
(* The steps in which a call takes effect.                                 *)

LEMMA ItemsFacts ==
    ASSUME UserInv
    PROVE  /\ Items \in Seq(Values)
           /\ Len(Items) = number_of_values
           /\ Items = <<>> <=> IsEmpty
           /\ IsFull <=> Len(Items) = Capacity
           /\ ~ IsFull <=> Len(Items) < Capacity
<1>1. RingOK(values_array, pop_index, push_index, number_of_values)
  BY RingIsOK DEF UserInv
<1>2. /\ Items \in Seq(Values)
      /\ Len(Items) = number_of_values
      /\ Items = <<>> <=> IsEmpty
  BY <1>1, ContentsType, NoContents DEF Items, IsEmpty
<1>3. number_of_values \in 0 .. Capacity
  BY DEF UserInv, Inv, TypeOK
<1> QED
  BY <1>2, <1>3, RingAssumption DEF IsFull

LEMMA StoreLastSeen ==
    ASSUME UserInv, NEW t \in Threads, pc[t] = "check",
           operation[t] \in {"push", "try_push"}, UNCHANGED operation,
           ~ IsFull, StoreLast(t)
    PROVE  BQ!Push(t)
<1>1. value[t] \in Values
  BY DEF UserInv, Inv, ThreadInv, Pushes, Blocking
<1>2. Items' = Append(Items, value[t])
  <2>1. RingOK(values_array, pop_index, push_index, number_of_values)
    BY RingIsOK DEF UserInv
  <2>2. number_of_values # Capacity
    BY DEF IsFull
  <2>3. Contents(Stored(values_array, push_index, value[t]), pop_index,
                 number_of_values + 1)
            = Append(Contents(values_array, pop_index, number_of_values),
                     value[t])
    BY <1>1, <2>1, <2>2, StoreLastContents
  <2> QED
    BY <2>3 DEF StoreLast, Store, Items, Stored
<1>3. BQ!Effect(t, 1)
  <2>1. "empty_condition" \in Conditions /\ Announce(t, "empty_condition")
    BY DEF StoreLast, Store
  <2> QED
    BY <2>1, AnnounceSeen
<1>4. BQ!Pending(t, {"push", "try_push"})
  BY PendingSeen
<1>5. UNCHANGED value
  BY DEF StoreLast, Store
<1> QED
  BY <1>2, <1>3, <1>4, <1>5, ItemsFacts DEF BQ!Push, Items

LEMMA FetchSeen ==
    ASSUME UserInv, NEW t \in Threads, pc[t] = "check",
           operation[t] \in {"pop", "try_pop"}, UNCHANGED operation,
           ~ IsEmpty, Fetch(t)
    PROVE  BQ!Pop(t)
<1>1. Items' = Tail(Items) /\ Head(Items) = values_array[pop_index]
  BY RingIsOK, FetchContents DEF UserInv, Fetch, Items, IsEmpty
<1>2. BQ!Effect(t, 1)
  <2>1. "full_condition" \in Conditions /\ Announce(t, "full_condition")
    BY DEF Fetch
  <2> QED
    BY <2>1, AnnounceSeen
<1>3. BQ!Pending(t, {"pop", "try_pop"})
  BY PendingSeen
<1>4. value' = [value EXCEPT ![t] = values_array[pop_index]]
  BY DEF Fetch
<1> QED
  BY <1>1, <1>2, <1>3, <1>4, ItemsFacts DEF BQ!Pop, Items

LEMMA PushSeen ==
    ASSUME UserInv, NEW t \in Threads, Push(t) \/ TryPush(t)
    PROVE  BQ!Push(t) \/ BQ!FindFull(t) \/ BQ!Fail(t) \/ Unseen
<1>1. /\ pc[t] = "check" /\ UNCHANGED operation
      /\ operation[t] \in {"push", "try_push"} /\ operation[t] # "none"
  BY DEF Push, TryPush, Holds
<1>2. CASE ~ IsFull /\ StoreLast(t)
  BY <1>1, <1>2, StoreLastSeen
<1>3. CASE Sleep(t, "full_condition")
  BY <1>1, <1>3, SleepSeen
<1>4. CASE operation[t] = "try_push" /\ IsFull /\ Finish(t, 0)
  <2>1. BQ!Effect(t, 0) /\ UNCHANGED <<Items, value>>
    <3>1. 0 \in {0, 1}
      OBVIOUS
    <3> QED
      BY <1>1, <1>4, <3>1, FinishSeen
  <2>2. BQ!Pending(t, {"try_push"})
    <3>1. operation[t] \in {"try_push"}
      BY <1>4
    <3> QED
      BY <1>1, <3>1, PendingSeen
  <2> QED
    BY <1>4, <2>1, <2>2, ItemsFacts DEF BQ!FindFull, Items
<1> QED
  BY <1>1, <1>2, <1>3, <1>4 DEF Push, TryPush, Holds

LEMMA PopSeen ==
    ASSUME UserInv, NEW t \in Threads, Pop(t) \/ TryPop(t)
    PROVE  BQ!Pop(t) \/ BQ!FindEmpty(t) \/ BQ!Fail(t) \/ Unseen
<1>1. /\ pc[t] = "check" /\ UNCHANGED operation
      /\ operation[t] \in {"pop", "try_pop"} /\ operation[t] # "none"
  BY DEF Pop, TryPop, Holds
<1>2. CASE ~ IsEmpty /\ Fetch(t)
  BY <1>1, <1>2, FetchSeen
<1>3. CASE Sleep(t, "empty_condition")
  BY <1>1, <1>3, SleepSeen
<1>4. CASE operation[t] = "try_pop" /\ IsEmpty /\ Finish(t, 0)
  <2>1. BQ!Effect(t, 0) /\ UNCHANGED <<Items, value>>
    <3>1. 0 \in {0, 1}
      OBVIOUS
    <3> QED
      BY <1>1, <1>4, <3>1, FinishSeen
  <2>2. BQ!Pending(t, {"try_pop", "empty"})
    <3>1. operation[t] \in {"try_pop", "empty"}
      BY <1>4
    <3> QED
      BY <1>1, <3>1, PendingSeen
  <2>3. (IF operation[t] = "empty" THEN 1 ELSE 0) = 0 /\ Items = <<>>
    BY <1>4, ItemsFacts
  <2> QED
    BY <2>1, <2>2, <2>3 DEF BQ!FindEmpty, BQ!Effect, Items
<1> QED
  BY <1>1, <1>2, <1>3, <1>4 DEF Pop, TryPop, Holds

LEMMA EmptySeen ==
    ASSUME UserInv, NEW t \in Threads, Empty(t)
    PROVE  BQ!FindEmpty(t) \/ BQ!Fail(t) \/ Unseen
<1>1. /\ pc[t] = "check" /\ UNCHANGED operation
      /\ operation[t] = "empty" /\ operation[t] # "none"
  BY DEF Empty, Holds
<1>2. CASE Sleep(t, "full_condition")
  BY <1>1, <1>2, SleepSeen
<1>3. CASE IsEmpty /\ Finish(t, 1)
  <2>1. BQ!Effect(t, 1) /\ UNCHANGED <<Items, value>>
    <3>1. 1 \in {0, 1}
      OBVIOUS
    <3> QED
      BY <1>1, <1>3, <3>1, FinishSeen
  <2>2. BQ!Pending(t, {"try_pop", "empty"})
    <3>1. operation[t] \in {"try_pop", "empty"}
      BY <1>1
    <3> QED
      BY <1>1, <3>1, PendingSeen
  <2>3. (IF operation[t] = "empty" THEN 1 ELSE 0) = 1 /\ Items = <<>>
    BY <1>1, <1>3, ItemsFacts
  <2> QED
    BY <2>1, <2>2, <2>3 DEF BQ!FindEmpty, BQ!Effect, Items
<1> QED
  BY <1>2, <1>3 DEF Empty

\* Where the scan stops in terms of the keys of the queued values.
LEMMA ScanFacts ==
    ASSUME UserInv, NEW t \in Threads, value[t] \in Values,
           NEW offset \in 0 .. number_of_values, NEW unique \in BOOLEAN,
           ScanEndsAt(offset, values_array, pop_index, number_of_values,
                      value[t], unique)
    PROVE  /\ \A j \in 1 .. offset : Key[Items[j]] <= Key[value[t]]
           /\ unique => \A j \in 1 .. offset : Key[Items[j]] # Key[value[t]]
           /\ offset < number_of_values =>
                 /\ Items[offset + 1] =
                       values_array[SlotAfter(pop_index, offset)]
                 /\ \/ Key[Items[offset + 1]] > Key[value[t]]
                    \/ unique /\ Key[Items[offset + 1]] = Key[value[t]]
<1>1. /\ number_of_values \in Nat
      /\ \A k \in 1 .. number_of_values :
            /\ Items[k] = values_array[SlotAfter(pop_index, k - 1)]
            /\ Items[k] \in Values
  <2>1. RingOK(values_array, pop_index, push_index, number_of_values)
    BY RingIsOK DEF UserInv
  <2>2. number_of_values \in Nat /\ Items \in Seq(Values)
    BY ItemsFacts DEF UserInv, Inv, TypeOK
  <2> QED
    BY <2>1, <2>2, ContentsType, ItemsFacts, ElementOfSeq DEF Items
<1>2. \A k \in 1 .. number_of_values : Key[Items[k]] \in Int
  BY <1>1, RingAssumption
<1>3. Key[value[t]] \in Int
  BY RingAssumption
<1>4. ASSUME NEW j \in 1 .. offset
      PROVE  /\ Key[Items[j]] <= Key[value[t]]
             /\ unique => Key[Items[j]] # Key[value[t]]
  <2>1. j - 1 \in 0 .. offset - 1 /\ j \in 1 .. number_of_values
    BY <1>1
  <2>2. ~ Stops(values_array, SlotAfter(pop_index, j - 1), value[t], unique)
    BY <2>1 DEF ScanEndsAt
  <2>3. Items[j] = values_array[SlotAfter(pop_index, j - 1)]
    BY <1>1, <2>1
  <2>4. Key[Items[j]] \in Int
    BY <1>2, <2>1
  <2> QED
    BY <1>3, <2>2, <2>3, <2>4 DEF Stops, LessKey, SameKey
<1>5. ASSUME offset < number_of_values
      PROVE  /\ Items[offset + 1] =
                    values_array[SlotAfter(pop_index, offset)]
             /\ \/ Key[Items[offset + 1]] > Key[value[t]]
                \/ unique /\ Key[Items[offset + 1]] = Key[value[t]]
  <2>1. offset + 1 \in 1 .. number_of_values /\ (offset + 1) - 1 = offset
    BY <1>1, <1>5
  <2>2. Stops(values_array, SlotAfter(pop_index, offset), value[t], unique)
    BY <1>5 DEF ScanEndsAt
  <2>3. Items[offset + 1] = values_array[SlotAfter(pop_index, offset)]
    BY <1>1, <2>1
  <2>4. Key[Items[offset + 1]] \in Int
    BY <1>2, <2>1
  <2> QED
    BY <1>3, <2>2, <2>3, <2>4 DEF Stops, LessKey, SameKey
<1> QED
  BY <1>4, <1>5

LEMMA InsertSeen ==
    ASSUME UserInv, NEW t \in Threads, pc[t] = "check",
           operation[t] \in {"push_sorted", "push_unique"}, UNCHANGED operation,
           ~ IsFull, NEW offset \in 0 .. number_of_values,
           ScanEndsAt(offset, values_array, pop_index, number_of_values,
                      value[t], operation[t] = "push_unique"),
           ~ (/\ offset < number_of_values
              /\ SameKey(value[t], values_array[SlotAfter(pop_index, offset)])),
           Store(t, InsertAt(values_array, SlotAfter(pop_index, offset),
                             push_index, value[t]))
    PROVE  BQ!PushSorted(t)
<1> DEFINE i == offset + 1
<1>1. value[t] \in Values
  BY DEF UserInv, Inv, ThreadInv, Pushes, Blocking
<1>2. /\ \A j \in 1 .. offset : Key[Items[j]] <= Key[value[t]]
      /\ operation[t] = "push_unique" =>
            \A j \in 1 .. offset : Key[Items[j]] # Key[value[t]]
      /\ offset < number_of_values =>
            /\ Items[offset + 1] = values_array[SlotAfter(pop_index, offset)]
            /\ \/ Key[Items[offset + 1]] > Key[value[t]]
               \/ /\ operation[t] = "push_unique"
                  /\ Key[Items[offset + 1]] = Key[value[t]]
  BY <1>1, ScanFacts
<1>3. number_of_values \in Nat /\ Len(Items) = number_of_values
  BY ItemsFacts DEF UserInv, Inv, TypeOK
<1>4. offset < number_of_values =>
          ~ (Key[Items[offset + 1]] <= Key[value[t]])
  <2> SUFFICES ASSUME offset < number_of_values
               PROVE  ~ (Key[Items[offset + 1]] <= Key[value[t]])
    OBVIOUS
  <2>1. Key[Items[offset + 1]] > Key[value[t]]
    BY <1>2 DEF SameKey
  <2>2. Items[offset + 1] \in Values
    <3>1. offset + 1 \in 1 .. number_of_values
      BY <1>3
    <3> QED
      BY <1>3, <3>1, ItemsFacts, ElementOfSeq
  <2> QED
    BY <1>1, <2>1, <2>2, RingAssumption
<1>5. Items' = SubSeq(Items, 1, offset) \o <<value[t]>>
                  \o SubSeq(Items, offset + 1, Len(Items))
  <2>1. RingOK(values_array, pop_index, push_index, number_of_values)
    BY RingIsOK DEF UserInv
  <2>2. number_of_values # Capacity
    BY DEF IsFull
  <2>3. Contents(InsertAt(values_array, SlotAfter(pop_index, offset),
                          push_index, value[t]),
                 pop_index, number_of_values + 1)
            = InsertedAfter(Items, offset, value[t])
    BY <1>1, <2>1, <2>2, InsertContents DEF Items
  <2> QED
    BY <2>3 DEF Store, Items, InsertedAfter
<1>6. BQ!Effect(t, 1)
  <2>1. "empty_condition" \in Conditions /\ Announce(t, "empty_condition")
    BY DEF Store
  <2> QED
    BY <2>1, AnnounceSeen
<1>7. BQ!Pending(t, {"push_sorted", "push_unique"})
  BY PendingSeen
<1>8. UNCHANGED value
  BY DEF Store
<1>9. i \in 1 .. Len(Items) + 1 /\ i - 1 = offset
      /\ (i <= Len(Items) <=> offset < number_of_values)
  BY <1>3
<1>10. /\ i \in 1 .. Len(Items) + 1
       /\ \A j \in 1 .. i - 1 : BQ!NotGreater(j, t)
       /\ i <= Len(Items) => ~ BQ!NotGreater(i, t)
       /\ operation[t] = "push_unique" =>
             \A j \in 1 .. i - 1 : ~ BQ!Equal(j, t)
       /\ Items' = BQ!Inserted(value[t], i)
  BY <1>2, <1>4, <1>5, <1>9
     DEF BQ!NotGreater, BQ!Equal, BQ!Inserted, Items
<1>11. Len(Items) < Capacity
  BY ItemsFacts
<1> QED
  BY <1>6, <1>7, <1>8, <1>10, <1>11 DEF BQ!PushSorted, Items

LEMMA RejectSeen ==
    ASSUME UserInv, NEW t \in Threads, pc[t] = "check",
           operation[t] \in {"push_sorted", "push_unique"}, UNCHANGED operation,
           NEW offset \in 0 .. number_of_values,
           ScanEndsAt(offset, values_array, pop_index, number_of_values,
                      value[t], operation[t] = "push_unique"),
           offset < number_of_values,
           SameKey(value[t], values_array[SlotAfter(pop_index, offset)]),
           Finish(t, 0)
    PROVE  BQ!RejectDuplicate(t)
<1> DEFINE i == offset + 1
<1>1. value[t] \in Values
  BY DEF UserInv, Inv, ThreadInv, Pushes, Blocking
<1>2. /\ \A j \in 1 .. offset : Key[Items[j]] <= Key[value[t]]
      /\ Items[offset + 1] = values_array[SlotAfter(pop_index, offset)]
      /\ \/ Key[Items[offset + 1]] > Key[value[t]]
         \/ /\ operation[t] = "push_unique"
            /\ Key[Items[offset + 1]] = Key[value[t]]
  BY <1>1, ScanFacts
<1>3. number_of_values \in Nat /\ Len(Items) = number_of_values
  BY ItemsFacts DEF UserInv, Inv, TypeOK
<1>4. /\ Key[Items[offset + 1]] = Key[value[t]]
      /\ Key[value[t]] \in Int
  BY <1>1, <1>2, RingAssumption DEF SameKey
<1>5. operation[t] = "push_unique"
  BY <1>2, <1>4
<1>6. BQ!Effect(t, 0) /\ UNCHANGED <<Items, value>>
  <2>1. 0 \in {0, 1} /\ operation[t] # "none"
    OBVIOUS
  <2> QED
    BY <2>1, FinishSeen
<1>7. BQ!Pending(t, {"push_unique"})
  <2>1. operation[t] \in {"push_unique"}
    BY <1>5
  <2> QED
    BY <2>1, PendingSeen
<1>8. i \in 1 .. Len(Items) /\ i - 1 = offset
  BY <1>3
<1>9. BQ!Equal(i, t) /\ \A j \in 1 .. i - 1 : BQ!NotGreater(j, t)
  BY <1>2, <1>4, <1>8 DEF BQ!NotGreater, BQ!Equal, Items
<1> QED
  BY <1>6, <1>7, <1>8, <1>9 DEF BQ!RejectDuplicate, Items

LEMMA PushSortedSeen ==
    ASSUME UserInv, NEW t \in Threads, PushSorted(t)
    PROVE  \/ BQ!PushSorted(t) \/ BQ!RejectDuplicate(t)
           \/ BQ!Fail(t) \/ Unseen
<1>1. /\ pc[t] = "check" /\ UNCHANGED operation
      /\ operation[t] \in {"push_sorted", "push_unique"}
      /\ operation[t] # "none"
  BY DEF PushSorted, Holds
<1>2. CASE IsFull /\ Sleep(t, "full_condition")
  BY <1>1, <1>2, SleepSeen
<1>3. ASSUME ~ IsFull, NEW offset \in 0 .. number_of_values,
             ScanEndsAt(offset, values_array, pop_index, number_of_values,
                        value[t], operation[t] = "push_unique"),
             LET target == SlotAfter(pop_index, offset)
                 exists == /\ offset < number_of_values
                           /\ SameKey(value[t], values_array[target])
             IN \/ exists /\ Finish(t, 0)
                \/ /\ ~ exists
                   /\ Store(t, InsertAt(values_array, target, push_index,
                                        value[t]))
      PROVE  BQ!PushSorted(t) \/ BQ!RejectDuplicate(t)
  BY <1>1, <1>3, InsertSeen, RejectSeen
<1>4. CASE "compare" \in Faults /\ Finish(t, -1)
  <2>1. Faults \ {"value_free"} # {}
    BY <1>4
  <2>2. "leave" \in {"leave", "return"} /\ pc[t] \in {"enter", "check"}
    BY <1>1
  <2> QED
    BY <1>1, <1>4, <2>1, <2>2, FailSeen DEF Finish
<1> QED
  BY <1>2, <1>3, <1>4 DEF PushSorted

-----------------------------------------------------------------------------
(* Queue implements BoundedQueue.                                          *)

LEMMA InitSeen == Init => BQ!Init
<1> SUFFICES ASSUME Init PROVE BQ!Init
  OBVIOUS
<1>1. Items = <<>>
  BY UserInvInit, ItemsFacts DEF Init, IsEmpty
<1> QED
  BY <1>1 DEF Init, BQ!Init, Items

LEMMA NextSeen == UserInv /\ [Next]_vars => BQ!Next \/ Unseen
<1> SUFFICES ASSUME UserInv, [Next]_vars PROVE BQ!Next \/ Unseen
  OBVIOUS
<1>1. CASE UNCHANGED vars
  BY <1>1 DEF vars, Unseen, Items
<1>2. ASSUME NEW t \in Threads,
             CallAny(t) \/ Step(t) \/ SpuriousWakeup(t) \/ Free(t)
      PROVE  BQ!Next \/ Unseen
  <2>1. \/ BQ!Invoke(t) \/ BQ!Return(t) \/ BQ!Fail(t) \/ BQ!FailLate(t)
        \/ BQ!Push(t) \/ BQ!PushSorted(t) \/ BQ!RejectDuplicate(t)
        \/ BQ!Pop(t) \/ BQ!FindFull(t) \/ BQ!FindEmpty(t)
        \/ Unseen
    BY <1>2, CallSeen, EnterSeen, WakeSeen, LeaveSeen, ReturnSeen, FreeSeen,
       PushSeen, PushSortedSeen, PopSeen, EmptySeen DEF Step
  <2> QED
    BY <2>1 DEF BQ!Next
<1> QED
  BY <1>1, <1>2 DEF Next

\* The invariant of the proof below.
LEMMA UserInvariant == Spec => []UserInv
BY UserInvInit, UserInvNext, PTL DEF Spec

(* libcthreads_queue is the bounded FIFO queue of BoundedQueue: whatever   *)
(* the threads do, and whichever library calls fail, every call takes      *)
(* effect at one moment between its invocation and its return, values      *)
(* leave in the order of arrival or of their keys, each exactly once, and  *)
(* a result of 1 or 0 is the truth about the queue at that moment.         *)
THEOREM QueueIsBoundedQueue == Spec => ImplementsBoundedQueue
<1>1. Init => BQ!Init
  BY InitSeen
<1>2. UserInv /\ [Next]_vars => [BQ!Next]_(BQ!vars)
  BY NextSeen DEF Unseen, BQ!vars, Items
<1> QED
  BY <1>1, <1>2, UserInvariant, PTL DEF Spec, ImplementsBoundedQueue, BQ!Spec

-----------------------------------------------------------------------------
(* What becomes of the values: the invariant of QueueWorkload.             *)

Queued == QueuedValues(values_array, pop_index, number_of_values)

\* The values that calls of pop have taken away and are about to return.
Held == {value[t] : t \in {u \in Threads : operation[u] \in Pops}} \ {NoValue}

Accounted == Queued \cup Held \cup popped \cup dropped

\* What a push has accepted, or is about to report as accepted, is accounted
\* for.
AcceptedInv ==
    /\ accepted \subseteq Accounted
    /\ \A t \in Threads :
          operation[t] \in Pushes /\ result[t] = 1 => value[t] \in Accounted

\* The calls of a thread are those of its script.
ScriptInv ==
    /\ made \in [Threads -> Nat]
    /\ \A t \in Threads :
          /\ made[t] <= Len(Script[t])
          /\ operation[t] # "none" =>
                made[t] >= 1 /\ operation[t] = Script[t][made[t]][1]
          /\ operation[t] \in Pushes => value[t] = Script[t][made[t]][2]

\* After queue_free nobody is inside the queue and every queued value has
\* been finalized.
FreedInv ==
    ~ alive =>
        /\ \A t \in Threads : operation[t] = "none" /\ made[t] = Len(Script[t])
        /\ Queued \subseteq finalized

Waits == {"push", "push_sorted"}

\* While no call fails, no call of a thread has failed.
SoundInv ==
    Faults \subseteq {"value_free"} =>
        /\ dropped = {}
        /\ \A t \in Threads :
              /\ operation[t] # "none" => result[t] # -1
              /\ operation[t] \in Waits /\ pc[t] \in {"leave", "return"} =>
                    result[t] = 1
              /\ \A i \in 1 .. made[t] :
                    /\ i < made[t] \/ operation[t] = "none"
                    /\ Script[t][i][1] \in Waits
                    => Script[t][i][2] \in accepted

HistoryInv == AcceptedInv /\ ScriptInv /\ FreedInv /\ SoundInv

\* The threads other than t, and the queue as an object.
Frame(t) ==
    /\ \A u \in Threads \ {t} :
          /\ pc'[u] = pc[u] /\ operation'[u] = operation[u]
          /\ value'[u] = value[u] /\ result'[u] = result[u]
    /\ UNCHANGED objectVars

\* A step inside a function that moves no value.
Quiet(t) ==
    /\ pc[t] # "return"
    /\ UNCHANGED <<operation, value, Queued>>
    /\ operation[t] \in Pushes /\ result'[t] = 1 => result[t] = 1

\* A push stores its value.
Adds(t) ==
    /\ operation[t] \in Pushes
    /\ UNCHANGED <<operation, value>>
    /\ Queued' = Queued \cup {value[t]}

\* A pop takes a value.
Takes(t) ==
    /\ operation[t] \in Pops /\ value[t] = NoValue
    /\ UNCHANGED operation
    /\ Queued = Queued' \cup {value'[t]}
    /\ value'[t] \in Values

LEMMA StepFrame ==
    ASSUME UserInv, NEW t \in Threads, Step(t)
    PROVE  Frame(t)
<1> USE DEF Frame, UserInv, Inv, TypeOK
<1>1. CASE Enter(t)
  BY <1>1 DEF Enter
<1>2. CASE Wake(t)
  BY <1>2 DEF Wake
<1>3. CASE Leave(t)
  BY <1>3 DEF Leave
<1>4. CASE Return(t)
  BY <1>4 DEF Return
<1>5. CASE Push(t) \/ TryPush(t) \/ PushSorted(t)
  BY <1>5 DEF Push, TryPush, PushSorted, Holds, Sleep, Finish, StoreLast,
     Store, Announce
<1>6. CASE Pop(t) \/ TryPop(t) \/ Empty(t)
  BY <1>6 DEF Pop, TryPop, Empty, Holds, Sleep, Finish, Fetch, Announce
<1> QED
  BY <1>1, <1>2, <1>3, <1>4, <1>5, <1>6 DEF Step

LEMMA StoreLastAdds ==
    ASSUME UserInv, NEW t \in Threads, operation[t] \in Pushes,
           UNCHANGED operation, ~ IsFull, StoreLast(t)
    PROVE  Adds(t)
<1>1. value[t] \in Values
  BY DEF UserInv, Inv, ThreadInv
<1>2. RingOK(values_array, pop_index, push_index, number_of_values)
  BY RingIsOK DEF UserInv
<1>3. number_of_values # Capacity
  BY DEF IsFull
<1>4. QueuedValues([values_array EXCEPT ![push_index] = value[t]], pop_index,
                   number_of_values + 1)
          = QueuedValues(values_array, pop_index, number_of_values)
                \cup {value[t]}
  BY <1>1, <1>2, <1>3, StoreLastKeepsRing
<1> QED
  BY <1>4 DEF Adds, Queued, StoreLast, Store

LEMMA InsertAdds ==
    ASSUME UserInv, NEW t \in Threads, operation[t] \in Pushes,
           UNCHANGED operation, ~ IsFull, NEW offset \in 0 .. number_of_values,
           Store(t, InsertAt(values_array, SlotAfter(pop_index, offset),
                             push_index, value[t]))
    PROVE  Adds(t)
<1>1. value[t] \in Values
  BY DEF UserInv, Inv, ThreadInv
<1>2. RingOK(values_array, pop_index, push_index, number_of_values)
  BY RingIsOK DEF UserInv
<1>3. number_of_values # Capacity
  BY DEF IsFull
<1>4. QueuedValues(InsertAt(values_array, SlotAfter(pop_index, offset),
                            push_index, value[t]),
                   pop_index, number_of_values + 1)
          = QueuedValues(values_array, pop_index, number_of_values)
                \cup {value[t]}
  BY <1>1, <1>2, <1>3, InsertKeepsRing
<1> QED
  BY <1>4 DEF Adds, Queued, Store

LEMMA FetchTakes ==
    ASSUME UserInv, NEW t \in Threads, operation[t] \in Pops,
           UNCHANGED operation, pc[t] = "check", ~ IsEmpty, Fetch(t)
    PROVE  Takes(t)
<1>1. RingOK(values_array, pop_index, push_index, number_of_values)
  BY RingIsOK DEF UserInv
<1>2. number_of_values # 0
  BY DEF IsEmpty
<1>3. /\ values_array[pop_index] \in Values
      /\ Queued = QueuedValues(values_array, Advance(pop_index),
                               number_of_values - 1)
                      \cup {values_array[pop_index]}
  BY <1>1, <1>2, FetchKeepsRing DEF Queued
<1>4. value'[t] = values_array[pop_index] /\ value[t] = NoValue
  BY DEF Fetch, UserInv, Inv, TypeOK, PoppedInv
<1> QED
  BY <1>3, <1>4 DEF Takes, Fetch, Queued

\* What a step does with the values.
LEMMA StepMoves ==
    ASSUME UserInv, NEW t \in Threads, Step(t)
    PROVE  Quiet(t) \/ Adds(t) \/ Takes(t) \/ Return(t)
<1> USE DEF UserInv, Inv, TypeOK
<1>1. CASE Enter(t)
  BY <1>1 DEF Enter, Quiet, Queued
<1>2. CASE Wake(t)
  BY <1>2 DEF Wake, Quiet, Queued
<1>3. CASE Leave(t)
  BY <1>3 DEF Leave, Quiet, Queued
<1>4. ASSUME NEW condition, pc[t] = "check", UNCHANGED operation,
             Sleep(t, condition)
      PROVE  Quiet(t)
  BY <1>4 DEF Sleep, Quiet, Queued
<1>5. ASSUME NEW r \in {-1, 0, 1}, pc[t] = "check", UNCHANGED operation,
             Finish(t, r), operation[t] \in Pushes => r # 1
      PROVE  Quiet(t)
  BY <1>5 DEF Finish, Quiet, Queued
<1>6. CASE Push(t) \/ TryPush(t)
  <2>1. /\ pc[t] = "check" /\ UNCHANGED operation
        /\ operation[t] \in Pushes
    BY <1>6 DEF Push, TryPush, Holds, Pushes, Blocking
  <2>2. CASE Sleep(t, "full_condition")
    BY <1>4, <2>1, <2>2
  <2>3. CASE Finish(t, 0)
    BY <1>5, <2>1, <2>3
  <2>4. CASE ~ IsFull /\ StoreLast(t)
    BY <2>1, <2>4, StoreLastAdds
  <2> QED
    BY <1>6, <2>2, <2>3, <2>4 DEF Push, TryPush
<1>7. CASE PushSorted(t)
  <2>1. /\ pc[t] = "check" /\ UNCHANGED operation
        /\ operation[t] \in Pushes
    BY <1>7 DEF PushSorted, Holds, Pushes, Blocking
  <2>2. CASE Sleep(t, "full_condition")
    BY <1>4, <2>1, <2>2
  <2>3. CASE Finish(t, 0) \/ Finish(t, -1)
    BY <1>5, <2>1, <2>3
  <2>4. ASSUME ~ IsFull, NEW offset \in 0 .. number_of_values,
               Store(t, InsertAt(values_array, SlotAfter(pop_index, offset),
                                 push_index, value[t]))
        PROVE  Adds(t)
    BY <2>1, <2>4, InsertAdds
  <2> QED
    BY <1>7, <2>2, <2>3, <2>4 DEF PushSorted
<1>8. CASE Pop(t) \/ TryPop(t)
  <2>1. /\ pc[t] = "check" /\ UNCHANGED operation
        /\ operation[t] \in Pops /\ operation[t] \notin Pushes
    BY <1>8 DEF Pop, TryPop, Holds, Pops, Pushes, Blocking
  <2>2. CASE Sleep(t, "empty_condition")
    BY <1>4, <2>1, <2>2
  <2>3. CASE Finish(t, 0)
    BY <1>5, <2>1, <2>3
  <2>4. CASE ~ IsEmpty /\ Fetch(t)
    BY <2>1, <2>4, FetchTakes
  <2> QED
    BY <1>8, <2>2, <2>3, <2>4 DEF Pop, TryPop
<1>9. CASE Empty(t)
  <2>1. /\ pc[t] = "check" /\ UNCHANGED operation
        /\ operation[t] \notin Pushes
    BY <1>9 DEF Empty, Holds, Pushes, Blocking
  <2>2. CASE Sleep(t, "full_condition")
    BY <1>4, <2>1, <2>2
  <2>3. CASE Finish(t, 1)
    BY <1>5, <2>1, <2>3
  <2> QED
    BY <1>9, <2>2, <2>3 DEF Empty
<1> QED
  BY <1>1, <1>2, <1>3, <1>6, <1>7, <1>8, <1>9 DEF Step

-----------------------------------------------------------------------------
(* No value is lost.                                                       *)

\* What is accounted for stays so.
LEMMA AccountedGrows ==
    ASSUME UserInv, NEW t \in Threads, Proceed(t)
    PROVE  Accounted \subseteq Accounted'
<1>0. Step(t) /\ Frame(t)
  BY StepFrame DEF Proceed
<1>1. popped \cup dropped \subseteq popped' \cup dropped'
  BY DEF Proceed
<1>2. ASSUME NEW u \in Threads, u # t, operation[u] \in Pops,
             value[u] # NoValue
      PROVE  value[u] \in Held'
  BY <1>0, <1>2 DEF Frame, Held
<1>3. CASE Quiet(t) \/ Adds(t)
  <2>1. operation' = operation /\ value' = value /\ Queued \subseteq Queued'
    BY <1>3 DEF Quiet, Adds
  <2>2. Held' = Held
    BY <2>1 DEF Held
  <2> QED
    BY <1>1, <2>1, <2>2 DEF Accounted
<1>4. CASE Takes(t)
  <2>1. value'[t] \in Held'
    BY <1>4, RingAssumption DEF Takes, Held
  <2>2. Queued \subseteq Queued' \cup Held'
    BY <1>4, <2>1 DEF Takes
  <2>3. Held \subseteq Held'
    BY <1>2, <1>4 DEF Takes, Held
  <2> QED
    BY <1>1, <2>2, <2>3 DEF Accounted
<1>5. CASE Return(t)
  <2>1. Queued' = Queued
    BY <1>5 DEF Return, Queued
  <2>2. ASSUME operation[t] \in Pops, value[t] # NoValue
        PROVE  value[t] \in popped' \cup dropped'
    <3>1. pc[t] = "return" /\ result[t] \in {-1, 1}
      BY <1>5, <2>2 DEF Return, UserInv, PoppedInv, Inv, TypeOK
    <3> QED
      BY <2>2, <3>1 DEF Proceed, Returned
  <2>3. Held \subseteq Held' \cup popped' \cup dropped'
    BY <1>2, <2>2 DEF Held
  <2> QED
    BY <1>1, <2>1, <2>3 DEF Accounted
<1> QED
  BY <1>0, <1>3, <1>4, <1>5, StepMoves

LEMMA ProceedAccepted ==
    ASSUME UserInv, AcceptedInv, NEW t \in Threads, Proceed(t)
    PROVE  AcceptedInv'
<1>0. Step(t) /\ Frame(t) /\ Accounted \subseteq Accounted'
  BY StepFrame, AccountedGrows DEF Proceed
<1>1. accepted' \subseteq Accounted'
  <2>1. Returned(t, Pushes, 1) \subseteq Accounted
    BY DEF Returned, AcceptedInv
  <2> QED
    BY <1>0, <2>1 DEF Proceed, AcceptedInv
<1>2. ASSUME NEW u \in Threads, operation'[u] \in Pushes, result'[u] = 1
      PROVE  value'[u] \in Accounted'
  <2>1. CASE u # t
    BY <1>0, <1>2, <2>1 DEF Frame, AcceptedInv
  <2>2. CASE u = t /\ Quiet(t)
    BY <1>0, <1>2, <2>2 DEF Quiet, AcceptedInv
  <2>3. CASE u = t /\ Adds(t)
    BY <2>3 DEF Adds, Accounted
  <2>4. CASE u = t /\ Takes(t)
    BY <1>2, <2>4 DEF Takes, Pushes, Pops, Blocking
  <2>5. CASE u = t /\ Return(t)
    BY <1>2, <2>5
       DEF Return, UserInv, Inv, TypeOK, Pushes, Blocking
  <2> QED
    BY <1>0, <2>1, <2>2, <2>3, <2>4, <2>5, StepMoves
<1> QED
  BY <1>1, <1>2 DEF AcceptedInv

LEMMA CallAccepted ==
    ASSUME UserInv, AcceptedInv, NEW t \in Threads, NextCall(t)
    PROVE  AcceptedInv'
<1>1. PICK op \in Operations, v \in Values \cup {NoValue} : Call(t, op, v)
  BY DEF NextCall, Call
<1>2. /\ operation[t] = "none" /\ result[t] = 0 /\ result' = result
      /\ \A u \in Threads \ {t} :
            operation'[u] = operation[u] /\ value'[u] = value[u]
      /\ UNCHANGED <<Queued, accepted, popped, dropped>>
  BY <1>1
     DEF Call, UserInv, Inv, ThreadInv, TypeOK, NextCall, Queued, historyVars
<1>3. Held \subseteq Held'
  BY <1>2 DEF Held, Pops
<1>4. Accounted \subseteq Accounted'
  BY <1>2, <1>3 DEF Accounted
<1> QED
  BY <1>2, <1>4 DEF AcceptedInv

LEMMA OtherAccepted ==
    ASSUME UserInv, AcceptedInv, NEW t \in Threads,
           BoundedSpuriousWakeup(t) \/ FreeAtTheEnd(t)
    PROVE  AcceptedInv'
<1>1. /\ UNCHANGED <<Queued, operation, value, accepted, popped, dropped>>
      /\ \A u \in Threads : result'[u] = result[u] \/ operation[u] = "none"
  BY DEF BoundedSpuriousWakeup, SpuriousWakeup, FreeAtTheEnd, Free, UserInv,
     Inv, ThreadInv, TypeOK, Queued, historyVars
<1>2. Accounted' = Accounted
  BY <1>1 DEF Accounted, Held
<1> QED
  BY <1>1, <1>2 DEF AcceptedInv, Pushes, Blocking

-----------------------------------------------------------------------------
(* The calls are those of the scripts, and a freed queue stays as it was.  *)

LEMMA ScriptType ==
    ASSUME NEW t \in Threads
    PROVE  Len(Script[t]) \in Nat /\ DOMAIN Script[t] = 1 .. Len(Script[t])
BY WorkloadAssumption

LEMMA ScriptNext ==
    ASSUME UserInv, ScriptInv, NEW t \in Threads,
           \/ NextCall(t) \/ Proceed(t)
           \/ BoundedSpuriousWakeup(t) \/ FreeAtTheEnd(t)
    PROVE  ScriptInv'
<1>1. CASE NextCall(t)
  <2>1. /\ operation' = [operation EXCEPT ![t] = Script[t][made[t] + 1][1]]
        /\ value' = [value EXCEPT ![t] = Script[t][made[t] + 1][2]]
        /\ made' = [made EXCEPT ![t] = made[t] + 1]
        /\ made[t] < Len(Script[t])
    BY <1>1 DEF NextCall, Call
  <2> QED
    BY <2>1, ScriptType DEF ScriptInv, UserInv, Inv, TypeOK
<1>2. CASE Proceed(t)
  <2>1. Step(t) /\ Frame(t) /\ UNCHANGED made
    BY <1>2, StepFrame DEF Proceed
  <2>2. CASE UNCHANGED operation /\ (operation[t] \in Pushes => UNCHANGED value)
    BY <2>1, <2>2 DEF ScriptInv, Frame
  <2>3. CASE Return(t)
    BY <2>1, <2>3
       DEF ScriptInv, Return, UserInv, Inv, TypeOK, Pushes, Blocking
  <2>4. Takes(t) => operation[t] \notin Pushes
    BY DEF Takes, Pops, Pushes, Blocking
  <2> QED
    BY <2>1, <2>2, <2>3, <2>4, StepMoves DEF Quiet, Adds, Takes
<1>3. CASE BoundedSpuriousWakeup(t) \/ FreeAtTheEnd(t)
  BY <1>3
     DEF BoundedSpuriousWakeup, SpuriousWakeup, FreeAtTheEnd, Free, ScriptInv
<1> QED
  BY <1>1, <1>2, <1>3

LEMMA FreedNext ==
    ASSUME UserInv, FreedInv, NEW t \in Threads,
           \/ NextCall(t) \/ Proceed(t)
           \/ BoundedSpuriousWakeup(t) \/ FreeAtTheEnd(t)
    PROVE  FreedInv'
<1>1. CASE NextCall(t)
  BY <1>1 DEF NextCall, Call, FreedInv
<1>2. CASE Proceed(t)
  <2>1. Step(t) /\ Frame(t) /\ UNCHANGED made
    BY <1>2, StepFrame DEF Proceed
  <2>2. CASE ~ alive
    <3>1. operation[t] = "none"
      BY <2>2 DEF FreedInv
    <3>2. /\ UNCHANGED Queued
          /\ operation'[t] = "none"
      <4>1. CASE Return(t)
        BY <4>1 DEF Return, Queued, UserInv, Inv, TypeOK
      <4>2. ~ Adds(t) /\ ~ Takes(t)
        BY <3>1 DEF Adds, Takes, Pushes, Pops, Blocking
      <4> QED
        BY <2>1, <3>1, <4>1, <4>2, StepMoves DEF Quiet
    <3> QED
      BY <2>1, <2>2, <3>2 DEF FreedInv, Frame
  <2> QED
    BY <2>1, <2>2 DEF FreedInv, Frame
<1>3. CASE BoundedSpuriousWakeup(t)
  BY <1>3 DEF BoundedSpuriousWakeup, SpuriousWakeup, FreedInv, Queued
<1>4. CASE FreeAtTheEnd(t)
  <2>1. /\ \A u \in Threads :
              operation[u] = "none" /\ made[u] = Len(Script[u])
        /\ UNCHANGED <<operation, made, Queued>>
    BY <1>4 DEF FreeAtTheEnd, AllFinished, Finished, Free, UserInv, Inv,
       ThreadInv, Queued
  <2>2. Queued \subseteq finalized'
    <3> SUFFICES ASSUME NEW k \in 0 .. number_of_values - 1
                 PROVE  values_array[SlotAfter(pop_index, k)] \in finalized'
      BY DEF Queued, QueuedValues
    <3>1. SlotAfter(pop_index, k) \in Slots
      <4>1. pop_index \in Indices /\ k \in 0 .. Capacity - 1
        BY RingAssumption DEF UserInv, Inv, TypeOK
      <4> QED
        BY <4>1, SlotAfterType
    <3>2. values_array[SlotAfter(pop_index, k)] \in Values
      BY DEF UserInv, Inv, RingInv
    <3> QED
      BY <1>4, <3>1, <3>2, RingAssumption DEF FreeAtTheEnd, Free
  <2> QED
    BY <2>1, <2>2 DEF FreedInv
<1> QED
  BY <1>1, <1>2, <1>3, <1>4

-----------------------------------------------------------------------------
(* Without failing calls every push that waits is accepted.                *)

\* How the result of a call comes about then.
LEMMA Outcome ==
    ASSUME UserInv, Faults \subseteq {"value_free"}, NEW t \in Threads,
           Step(t), ~ Return(t)
    PROVE  /\ UNCHANGED operation
           /\ result'[t] = -1 => result[t] = -1
           /\ operation[t] \in Waits /\ pc'[t] \in {"leave", "return"} =>
                 \/ result'[t] = 1
                 \/ pc[t] = "leave" /\ result'[t] = result[t]
<1> USE DEF UserInv, Inv, TypeOK
<1>1. CASE Enter(t)
  BY <1>1 DEF Enter
<1>2. CASE Wake(t)
  BY <1>2 DEF Wake
<1>3. CASE Leave(t)
  BY <1>3 DEF Leave
<1>4. CASE Push(t) \/ TryPush(t)
  BY <1>4 DEF Push, TryPush, Holds, Sleep, Finish, StoreLast, Store,
     Announce, Waits
<1>5. CASE PushSorted(t)
  <2>1. UNCHANGED operation /\ operation[t] \in Pushes
    BY <1>5 DEF PushSorted, Holds, Pushes, Blocking
  <2>2. CASE Sleep(t, "full_condition")
    BY <2>1, <2>2 DEF Sleep
  <2>3. ASSUME NEW array, Store(t, array)
        PROVE  result'[t] = 1
    BY <2>3 DEF Store, Announce
  <2>4. ASSUME NEW offset \in 0 .. number_of_values,
               ScanEndsAt(offset, values_array, pop_index, number_of_values,
                          value[t], operation[t] = "push_unique"),
               offset < number_of_values,
               SameKey(value[t], values_array[SlotAfter(pop_index, offset)])
        PROVE  operation[t] = "push_unique"
    <3>1. value[t] \in Values
      BY <2>1 DEF ThreadInv
    <3>2. /\ Items[offset + 1] = values_array[SlotAfter(pop_index, offset)]
          /\ \/ Key[Items[offset + 1]] > Key[value[t]]
             \/ /\ operation[t] = "push_unique"
                /\ Key[Items[offset + 1]] = Key[value[t]]
      BY <2>4, <3>1, ScanFacts
    <3> QED
      BY <2>4, <3>1, <3>2, RingAssumption DEF SameKey
  <2>5. CASE operation[t] = "push_unique" /\ Finish(t, 0)
    BY <2>1, <2>5 DEF Finish, Waits
  <2>6. "compare" \notin Faults
    OBVIOUS
  <2> QED
    BY <1>5, <2>1, <2>2, <2>3, <2>4, <2>5, <2>6 DEF PushSorted
<1>6. CASE Pop(t) \/ TryPop(t) \/ Empty(t)
  BY <1>6 DEF Pop, TryPop, Empty, Holds, Sleep, Finish, Fetch, Announce,
     Waits
<1> QED
  BY <1>1, <1>2, <1>3, <1>4, <1>5, <1>6 DEF Step

LEMMA SoundNext ==
    ASSUME UserInv, ScriptInv, SoundInv, NEW t \in Threads,
           \/ NextCall(t) \/ Proceed(t)
           \/ BoundedSpuriousWakeup(t) \/ FreeAtTheEnd(t)
    PROVE  SoundInv'
<1> SUFFICES ASSUME Faults \subseteq {"value_free"}
             PROVE  /\ dropped' = {}
                    /\ \A u \in Threads :
                          /\ operation'[u] # "none" => result'[u] # -1
                          /\ operation'[u] \in Waits
                             /\ pc'[u] \in {"leave", "return"}
                             => result'[u] = 1
                          /\ \A i \in 1 .. made'[u] :
                                /\ i < made'[u] \/ operation'[u] = "none"
                                /\ Script[u][i][1] \in Waits
                                => Script[u][i][2] \in accepted'
  BY DEF SoundInv
<1> USE DEF UserInv, Inv, TypeOK
<1>1. CASE NextCall(t)
  <2>1. /\ \A u \in Threads \ {t} :
              /\ operation'[u] = operation[u] /\ pc'[u] = pc[u]
              /\ made'[u] = made[u]
        /\ operation[t] = "none" /\ pc'[t] = "enter" /\ result[t] = 0
        /\ operation'[t] # "none"
        /\ UNCHANGED <<result, accepted, dropped>>
        /\ made[t] \in Nat /\ made'[t] = made[t] + 1
    BY <1>1 DEF NextCall, Call, ThreadInv, ScriptInv, historyVars,
       Operations, Pushes, Pops, Blocking
  <2> QED
    BY <2>1 DEF SoundInv, ScriptInv
<1>2. CASE Proceed(t)
  <2>1. Step(t) /\ Frame(t) /\ UNCHANGED made /\ accepted \subseteq accepted'
    BY <1>2, StepFrame DEF Proceed
  <2>2. dropped' = {}
    <3>1. Returned(t, Pops, -1) = {}
      BY DEF Returned, SoundInv, Pops
    <3> QED
      BY <1>2, <3>1 DEF Proceed, SoundInv
  <2>3. ASSUME NEW u \in Threads, u # t
        PROVE  /\ operation'[u] # "none" => result'[u] # -1
               /\ operation'[u] \in Waits /\ pc'[u] \in {"leave", "return"}
                  => result'[u] = 1
               /\ \A i \in 1 .. made'[u] :
                     /\ i < made'[u] \/ operation'[u] = "none"
                     /\ Script[u][i][1] \in Waits
                     => Script[u][i][2] \in accepted'
    BY <2>1, <2>3 DEF SoundInv, Frame
  <2>4. CASE ~ Return(t)
    BY <2>1, <2>2, <2>3, <2>4, Outcome DEF SoundInv, Waits
  <2>5. CASE Return(t)
    <3>1. operation'[t] = "none"
      BY <2>5 DEF Return
    <3>2. ASSUME NEW i \in 1 .. made[t], Script[t][i][1] \in Waits
          PROVE  Script[t][i][2] \in accepted'
      <4>1. CASE i < made[t] \/ operation[t] = "none"
        BY <2>1, <3>2, <4>1 DEF SoundInv
      <4>2. CASE i = made[t] /\ operation[t] # "none"
        <5>1. /\ operation[t] = Script[t][i][1] /\ operation[t] \in Pushes
              /\ value[t] = Script[t][i][2] /\ value[t] \in Values
          BY <3>2, <4>2
             DEF ScriptInv, Waits, Pushes, Blocking, ThreadInv
        <5>2. pc[t] = "return" /\ result[t] = 1
          BY <2>5, <3>2, <5>1 DEF Return, SoundInv
        <5>3. value[t] \in Returned(t, Pushes, 1)
          BY <5>1, <5>2, RingAssumption DEF Returned
        <5> QED
          BY <1>2, <5>1, <5>3 DEF Proceed
      <4>3. made[t] \in Nat
        BY DEF ScriptInv
      <4> QED
        BY <4>1, <4>2, <4>3
    <3>3. operation'[t] \notin Waits
      BY <3>1 DEF Waits
    <3> QED
      BY <2>1, <2>2, <2>3, <3>1, <3>2, <3>3
  <2> QED
    BY <2>4, <2>5
<1>3. CASE BoundedSpuriousWakeup(t)
  BY <1>3 DEF BoundedSpuriousWakeup, SpuriousWakeup, SoundInv, historyVars
<1>4. CASE FreeAtTheEnd(t)
  <2>1. /\ UNCHANGED <<operation, made, accepted, dropped>>
        /\ \A u \in Threads : operation[u] = "none"
    BY <1>4 DEF FreeAtTheEnd, Free, ThreadInv, historyVars
  <2> QED
    BY <2>1 DEF SoundInv, Waits
<1> QED
  BY <1>1, <1>2, <1>3, <1>4

-----------------------------------------------------------------------------
(* The workload is one of the uses of the queue, and what it shows.        *)

LEMMA WNextIsNext == [WNext]_workloadVars => [Next]_vars
<1> SUFFICES ASSUME [WNext]_workloadVars PROVE [Next]_vars
  OBVIOUS
<1>1. ASSUME NEW t \in Threads, NextCall(t) PROVE Next
  <2>1. CallAny(t)
    BY <1>1 DEF NextCall, Call, CallAny
  <2> QED
    BY <2>1 DEF Next
<1> QED
  BY <1>1 DEF WNext, workloadVars, Terminating, Next, Proceed,
     BoundedSpuriousWakeup, FreeAtTheEnd

(* What is proved of every use of the queue holds for the scripts.         *)
THEOREM WorkloadUsesQueue == WSpec => Spec
<1>1. WInit => Init
  BY DEF WInit
<1> QED
  BY <1>1, WNextIsNext, PTL DEF WSpec, Spec

LEMMA HistoryInit == WInit => HistoryInv
<1> SUFFICES ASSUME WInit PROVE HistoryInv
  OBVIOUS
<1>1. \A t \in Threads :
          /\ made[t] = 0 /\ operation[t] = "none" /\ Len(Script[t]) \in Nat
          /\ 1 .. 0 = {}
  BY ScriptType DEF WInit, Init
<1>2. made \in [Threads -> Nat] /\ accepted = {} /\ dropped = {} /\ alive
  BY DEF WInit, Init
<1> QED
  BY <1>1, <1>2 DEF HistoryInv, AcceptedInv, ScriptInv, FreedInv, SoundInv,
     Pushes, Blocking, Waits

LEMMA HistoryNext ==
    UserInv /\ HistoryInv /\ [WNext]_workloadVars => HistoryInv'
<1> SUFFICES ASSUME UserInv, HistoryInv, [WNext]_workloadVars
             PROVE  HistoryInv'
  OBVIOUS
<1>1. CASE UNCHANGED workloadVars
  BY <1>1 DEF workloadVars, historyVars, vars, HistoryInv, AcceptedInv,
     ScriptInv, FreedInv, SoundInv, Accounted, Queued, Held
<1>2. ASSUME NEW t \in Threads,
             \/ NextCall(t) \/ Proceed(t)
             \/ BoundedSpuriousWakeup(t) \/ FreeAtTheEnd(t)
      PROVE  HistoryInv'
  BY <1>2, CallAccepted, ProceedAccepted, OtherAccepted, ScriptNext,
     FreedNext, SoundNext DEF HistoryInv
<1> QED
  BY <1>1, <1>2 DEF WNext, Terminating

(* When the queue is freed every value that it accepted has been popped or *)
(* is given to the value_free_function, or a pop that failed took it; and  *)
(* while nothing fails every push and push_sorted was accepted and no      *)
(* value was lost.                                                         *)
THEOREM FreeLosesNothing == WSpec => []FreeLeavesNoValue
<1>1. UserInv /\ HistoryInv => FreeLeavesNoValue
  <2> SUFFICES ASSUME UserInv, HistoryInv, ~ alive
               PROVE  /\ accepted \subseteq popped \cup dropped \cup finalized
                      /\ Faults \subseteq {"value_free"} =>
                            /\ dropped = {}
                            /\ \A t \in Threads : \A i \in DOMAIN Script[t] :
                                  Script[t][i][1] \in {"push", "push_sorted"}
                                  => Script[t][i][2] \in accepted
    BY DEF FreeLeavesNoValue
  <2>1. \A t \in Threads :
            /\ operation[t] = "none" /\ made[t] = Len(Script[t])
            /\ DOMAIN Script[t] = 1 .. Len(Script[t])
    BY ScriptType DEF HistoryInv, FreedInv
  <2>2. Held = {}
    BY <2>1 DEF Held, Pops
  <2>3. accepted \subseteq popped \cup dropped \cup finalized
    BY <2>2 DEF HistoryInv, AcceptedInv, Accounted, FreedInv
  <2> QED
    BY <2>1, <2>3 DEF HistoryInv, SoundInv, Waits
<1>2. WSpec => []HistoryInv
  <2>1. WSpec => []UserInv
    BY WorkloadUsesQueue, UserInvariant, PTL
  <2> QED
    BY <2>1, HistoryInit, HistoryNext, PTL DEF WSpec
<1>3. WSpec => []UserInv
  BY WorkloadUsesQueue, UserInvariant, PTL
<1> QED
  BY <1>1, <1>2, <1>3, PTL

(* With any scripts, too, nobody sleeps through the change he waits for.   *)
THEOREM WorkloadWakeups == WSpec => []NoLostWakeup
BY WorkloadUsesQueue, WakeupsCorrect, PTL
=============================================================================
