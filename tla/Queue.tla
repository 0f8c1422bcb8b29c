------------------------------- MODULE Queue -------------------------------
(***************************************************************************)
(* libcthreads_queue.c: the blocking queue of pointers that any number of  *)
(* threads share.  Every function grabs condition_mutex, does its work,    *)
(* waiting on a condition while it cannot, and releases the mutex:         *)
(*                                                                         *)
(*    idle -> enter -> check <-> wait                                      *)
(*                       |                                                 *)
(*                       v                                                 *)
(*                     leave -> return -> idle                             *)
(*                                                                         *)
(* "enter" is a thread in libcthreads_mutex_grab, "check" holds the mutex  *)
(* and tests number_of_values, "wait" is in libcthreads_condition_wait,    *)
(* "leave" holds the mutex and is about to release it, "return" has        *)
(* returned to its caller with result[t].  What a function does between    *)
(* the test and the release is one step: the mutex protects it.            *)
(***************************************************************************)
EXTENDS RingBuffer, Sequences

CONSTANTS Threads, NoThread,
          MayCall,      \* MayCall[t]: the functions thread t may call
          Faults        \* the library calls that may fail

Blocking == {"push", "push_sorted", "push_unique"}
Pushes == Blocking \cup {"try_push"}
Pops == {"pop", "try_pop"}
Operations == Pushes \cup Pops \cup {"empty"}

\* empty_condition: no longer empty; full_condition: no longer full.
Conditions == {"empty_condition", "full_condition"}

ASSUME QueueAssumption ==
    /\ NoThread \notin Threads
    /\ MayCall \in [Threads -> SUBSET (Operations \cup {"free"})]
    /\ Faults \subseteq
          {"grab", "wait", "broadcast", "release", "compare", "value_free"}

VARIABLES owner, waiting,                               \* of the monitor
          values_array, pop_index, push_index, number_of_values,
          pc, operation, value, result,                 \* of each thread
          alive,        \* the queue has not been freed
          finalized     \* the values given to the value_free_function

INSTANCE Monitor

ringVars == <<values_array, pop_index, push_index, number_of_values>>
objectVars == <<alive, finalized>>
vars == <<owner, waiting, ringVars, pc, operation, value, result, objectVars>>

TypeOK ==
    /\ MonitorTypeOK
    /\ values_array \in Arrays
    /\ pop_index \in Indices
    /\ push_index \in Indices
    /\ number_of_values \in 0 .. Capacity
    /\ pc \in [Threads ->
                {"idle", "enter", "check", "wait", "leave", "return"}]
    /\ operation \in [Threads -> Operations \cup {"none"}]
    /\ value \in [Threads -> Values \cup {NoValue}]
    /\ result \in [Threads -> {-1, 0, 1}]
    /\ alive \in BOOLEAN
    /\ finalized \subseteq Values

\* libcthreads_queue_initialize: the array is cleared, all counters are 0.
Init ==
    /\ MonitorInit
    /\ values_array = [slot \in Slots |-> NoValue]
    /\ pop_index = 0
    /\ push_index = 0
    /\ number_of_values = 0
    /\ pc = [t \in Threads |-> "idle"]
    /\ operation = [t \in Threads |-> "none"]
    /\ value = [t \in Threads |-> NoValue]
    /\ result = [t \in Threads |-> 0]
    /\ alive = TRUE
    /\ finalized = {}

Goto(t, label) == pc' = [pc EXCEPT ![t] = label]

\* int result = 1, set to 0 or -1 later
Answer(t, r) == result' = [result EXCEPT ![t] = r]

-----------------------------------------------------------------------------
(* Entering and leaving a function.                                        *)

Call(t, op, v) ==
    /\ pc[t] = "idle"
    /\ alive
    /\ op \in MayCall[t] \cap Operations
    /\ v \in (IF op \in Pushes THEN Values ELSE {NoValue})
    /\ Goto(t, "enter")
    /\ operation' = [operation EXCEPT ![t] = op]
    /\ value' = [value EXCEPT ![t] = v]
    /\ UNCHANGED <<owner, waiting, ringVars, result, objectVars>>

Enter(t) ==
    /\ pc[t] = "enter"
    /\ \/ Grab(t) /\ Goto(t, "check") /\ UNCHANGED result
       \/ /\ "grab" \in Faults
          /\ Goto(t, "return") /\ Answer(t, -1) /\ UNCHANGED owner
    /\ UNCHANGED <<waiting, ringVars, operation, value, objectVars>>

\* Mutant of Wake: the thread goes on without getting the mutex back.
WakeWithoutGrab(t) ==
    /\ pc[t] = "wait"
    /\ ~ Asleep(t)
    /\ Goto(t, "check")
    /\ UNCHANGED <<owner, waiting, ringVars, operation, value, result,
                   objectVars>>

\* Back in the while loop of the function, with the mutex held.
Wake(t) ==
    /\ pc[t] = "wait"
    /\ ~ Asleep(t)
    /\ Grab(t)
    /\ Goto(t, "check")
    /\ UNCHANGED <<waiting, ringVars, operation, value, result, objectVars>>

SpuriousWakeup(t) ==
    /\ pc[t] = "wait"
    /\ WakeSpuriously(t)
    /\ UNCHANGED <<ringVars, pc, operation, value, result, objectVars>>

\* When the release fails the function returns -1 and the mutex stays
\* held; on the error path the outcome of the release is ignored.
Leave(t) ==
    /\ pc[t] = "leave"
    /\ Goto(t, "return")
    /\ \/ Release(t) /\ UNCHANGED result
       \/ "release" \in Faults /\ Answer(t, -1) /\ UNCHANGED owner
    /\ UNCHANGED <<waiting, ringVars, operation, value, objectVars>>

Return(t) ==
    /\ pc[t] = "return"
    /\ Goto(t, "idle")
    /\ operation' = [operation EXCEPT ![t] = "none"]
    /\ value' = [value EXCEPT ![t] = NoValue]
    /\ Answer(t, 0)
    /\ UNCHANGED <<owner, waiting, ringVars, objectVars>>

-----------------------------------------------------------------------------
(* What the functions do with the mutex held.                              *)

Holds(t, ops) ==
    /\ pc[t] = "check"
    /\ operation[t] \in ops
    /\ UNCHANGED <<operation, objectVars>>

\* One turn of a while loop: wait, or fail to.
Sleep(t, condition) ==
    /\ \/ Wait(t, condition) /\ Goto(t, "wait") /\ UNCHANGED result
       \/ /\ "wait" \in Faults
          /\ Goto(t, "leave") /\ Answer(t, -1) /\ UNCHANGED <<owner, waiting>>
    /\ UNCHANGED <<ringVars, value>>

\* Mutant of Announce: a failing broadcast is reported as "not done".
AnnounceFailsSoftly(t, condition) ==
    /\ \/ Broadcast(condition) /\ Answer(t, 1)
       \/ "broadcast" \in Faults /\ Answer(t, 0) /\ UNCHANGED waiting
    /\ Goto(t, "leave")
    /\ UNCHANGED owner

\* The broadcast comes after the change: if it fails the change stays.
Announce(t, condition) ==
    /\ \/ Broadcast(condition) /\ Answer(t, 1)
       \/ "broadcast" \in Faults /\ Answer(t, -1) /\ UNCHANGED waiting
    /\ Goto(t, "leave")
    /\ UNCHANGED owner

Finish(t, r) ==
    /\ Answer(t, r)
    /\ Goto(t, "leave")
    /\ UNCHANGED <<owner, waiting, ringVars, value>>

IsFull == number_of_values = Capacity
IsEmpty == number_of_values = 0

\* push_index and number_of_values move on after values_array changed.
Store(t, array) ==
    /\ values_array' = array
    /\ push_index' = Advance(push_index)
    /\ number_of_values' = number_of_values + 1
    /\ Announce(t, "empty_condition")
    /\ UNCHANGED <<pop_index, value>>

StoreLast(t) == Store(t, [values_array EXCEPT ![push_index] = value[t]])

\* Mutant of Fetch: the index is only advanced when the broadcast succeeds.
FetchAdvancesLast(t) ==
    /\ value' = [value EXCEPT ![t] = values_array[pop_index]]
    /\ number_of_values' = number_of_values - 1
    /\ Announce(t, "full_condition")
    /\ pop_index' = IF result'[t] = 1 THEN Advance(pop_index) ELSE pop_index
    /\ UNCHANGED <<values_array, push_index>>

\* The popped value stays behind in its slot.
Fetch(t) ==
    /\ value' = [value EXCEPT ![t] = values_array[pop_index]]
    /\ pop_index' = Advance(pop_index)
    /\ number_of_values' = number_of_values - 1
    /\ Announce(t, "full_condition")
    /\ UNCHANGED <<values_array, push_index>>

Push(t) ==
    /\ Holds(t, {"push"})
    /\ \/ IsFull /\ Sleep(t, "full_condition")
       \/ ~ IsFull /\ StoreLast(t)

\* Mutant of TryPush: the last slot counts as a full queue.
TryPushSparesASlot(t) ==
    /\ Holds(t, {"try_push"})
    /\ \/ number_of_values >= Capacity - 1 /\ Finish(t, 0)
       \/ number_of_values < Capacity - 1 /\ StoreLast(t)

TryPush(t) ==
    /\ Holds(t, {"try_push"})
    /\ \/ IsFull /\ Finish(t, 0)
       \/ ~ IsFull /\ StoreLast(t)

\* The scan ends at some slot; there the value is either inserted or, when
\* it must be unique and its key is found, rejected.  The callback is asked
\* about every slot up to that one and may fail at each.
PushSorted(t) ==
    LET v == value[t]
        unique == operation[t] = "push_unique"
    IN /\ Holds(t, {"push_sorted", "push_unique"})
       /\ \/ IsFull /\ Sleep(t, "full_condition")
          \/ /\ ~ IsFull
             /\ \E offset \in 0 .. number_of_values :
                  LET target == SlotAfter(pop_index, offset)
                      exists == /\ offset < number_of_values
                                /\ SameKey(v, values_array[target])
                  IN /\ ScanEndsAt(offset, values_array, pop_index,
                                   number_of_values, v, unique)
                     /\ \/ exists /\ Finish(t, 0)
                        \/ /\ ~ exists
                           /\ Store(t, InsertAt(values_array, target,
                                                push_index, v))
          \/ /\ ~ IsFull /\ ~ IsEmpty
             /\ "compare" \in Faults
             /\ Finish(t, -1)

Pop(t) ==
    /\ Holds(t, {"pop"})
    /\ \/ IsEmpty /\ Sleep(t, "empty_condition")
       \/ ~ IsEmpty /\ Fetch(t)

TryPop(t) ==
    /\ Holds(t, {"try_pop"})
    /\ \/ IsEmpty /\ Finish(t, 0)
       \/ ~ IsEmpty /\ Fetch(t)

\* Mutant of Empty: it waits on the condition of the pushes.
EmptyWaitsForPush(t) ==
    /\ Holds(t, {"empty"})
    /\ \/ ~ IsEmpty /\ Sleep(t, "empty_condition")
       \/ IsEmpty /\ Finish(t, 1)

\* libcthreads_queue_empty removes nothing: it waits for other threads.
Empty(t) ==
    /\ Holds(t, {"empty"})
    /\ \/ ~ IsEmpty /\ Sleep(t, "full_condition")
       \/ IsEmpty /\ Finish(t, 1)

-----------------------------------------------------------------------------
\* Mutant of Free: it looks at the first number_of_values slots.
FreeFirstSlots(t) ==
    /\ "free" \in MayCall[t]
    /\ alive
    /\ \A u \in Threads : pc[u] = "idle"
    /\ alive' = FALSE
    /\ finalized' = {values_array[slot] : slot \in 0 .. number_of_values - 1}
                      \ {NoValue}
    /\ Goto(t, "return")
    /\ Answer(t, 1)
    /\ UNCHANGED <<owner, waiting, ringVars, operation, value>>

\* libcthreads_queue_free, called once nobody uses the queue any more:
\* every slot goes to the value_free_function, whichever values are queued.
\* pthread_mutex_destroy refuses a mutex that a failed release left locked.
Free(t) ==
    /\ "free" \in MayCall[t]
    /\ alive
    /\ \A u \in Threads : pc[u] = "idle"
    /\ alive' = FALSE
    /\ finalized' = {values_array[slot] : slot \in Slots} \ {NoValue}
    /\ Goto(t, "return")
    /\ \/ owner = NoThread /\ Answer(t, 1)
       \/ (owner # NoThread \/ "value_free" \in Faults) /\ Answer(t, -1)
    /\ UNCHANGED <<owner, waiting, ringVars, operation, value>>

\* The steps of a thread inside a function.
Step(t) ==
    \/ Enter(t) \/ Wake(t) \/ Leave(t) \/ Return(t)
    \/ Push(t) \/ TryPush(t) \/ PushSorted(t)
    \/ Pop(t) \/ TryPop(t) \/ Empty(t)

CallAny(t) == \E op \in Operations, v \in Values \cup {NoValue} : Call(t, op, v)

Next == \E t \in Threads : CallAny(t) \/ Step(t) \/ SpuriousWakeup(t) \/ Free(t)

Spec == Init /\ [][Next]_vars

-----------------------------------------------------------------------------
(* The circular array holds together: push_index is number_of_values slots *)
(* after pop_index, wherever both have wrapped to, and every slot between  *)
(* them holds a value some thread pushed, not the NULL of memory_set.      *)
RingInv ==
    /\ push_index = SlotAfter(pop_index, number_of_values)
    /\ \A k \in 0 .. number_of_values - 1 :
          values_array[SlotAfter(pop_index, k)] \in Values

(* Only the thread that holds the mutex is between grab and release, a     *)
(* blocked thread is inside condition_wait of a function that waits on     *)
(* that condition, a push in progress has a value, and a pop that succeeds *)
(* never hands out the NULL of a slot that was not pushed to.              *)
ThreadInv ==
    \A t \in Threads :
        /\ pc[t] \in {"check", "leave"} => owner = t
        /\ t \in waiting["empty_condition"] =>
              pc[t] = "wait" /\ operation[t] = "pop"
        /\ t \in waiting["full_condition"] =>
              pc[t] = "wait" /\ operation[t] \in Blocking \cup {"empty"}
        /\ operation[t] \in Pushes => value[t] \in Values
        /\ operation[t] \in Pops /\ result[t] = 1 => value[t] \in Values
        /\ result[t] # 0 => pc[t] \in {"leave", "return"}
        /\ pc[t] = "idle" => operation[t] = "none"

(* No wakeup is lost: while no broadcast fails, a thread that is still     *)
(* blocked has a reason to be.  A pop is blocked on an empty queue, a push *)
(* on a full one, libcthreads_queue_empty on a queue that has values; the  *)
(* last two share full_condition.                                          *)
NoLostWakeup ==
    "broadcast" \notin Faults =>
        /\ waiting["empty_condition"] # {} => IsEmpty
        /\ \A t \in waiting["full_condition"] :
              IF operation[t] = "empty" THEN ~ IsEmpty ELSE IsFull

(* When threads only push with push_sorted, with or without                *)
(* LIBCTHREADS_SORT_FLAG_UNIQUE_VALUES, the queue is sorted by key at all  *)
(* times, whatever pops happen in between.                                 *)
SortedContents ==
    LET items == Contents(values_array, pop_index, number_of_values)
    IN (\A t \in Threads : MayCall[t] \cap {"push", "try_push"} = {}) =>
          \A i, j \in 1 .. number_of_values :
              i < j => ~ LessKey(items[j], items[i])

\* The queue as its callers see it; freeing it is not part of that.
BQ == INSTANCE BoundedQueue WITH
        items <- Contents(values_array, pop_index, number_of_values),
        phase <- [t \in Threads |->
                    IF operation[t] = "none"
                    THEN "idle"
                    ELSE IF pc[t] \in {"leave", "return"}
                         THEN "done"
                         ELSE "pending"],
        result <- [t \in Threads |->
                    IF operation[t] = "none" THEN 0 ELSE result[t]],
        MayFail <- Faults \ {"value_free"} # {},
        MayFailLate <- Faults \cap {"broadcast", "release"} # {}

(* The queue implements the bounded FIFO queue: values leave in the order  *)
(* of arrival, or of their keys, each exactly once, and every result       *)
(* reported is the truth about the queue at one step of the call.          *)
ImplementsBoundedQueue == BQ!Spec
=============================================================================
