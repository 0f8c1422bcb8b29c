----------------------------- MODULE ThreadPool -----------------------------
(***************************************************************************)
(* libcthreads_thread_pool.c: worker threads pop values from a bounded     *)
(* queue and call the callback function with each.  One thread, Main,      *)
(* creates the pool and joins it; producers push values in between, and so *)
(* may a callback, which runs in a worker.                                 *)
(*                                                                         *)
(* In the builds "pthread" and "winapi" (before Windows 8) the workers are *)
(* threads that loop until the join; in the build "work_items" (since      *)
(* Windows 8) they are the threads of a pool of the system, and every push *)
(* submits a work item, in which one of them pops one value.               *)
(*                                                                         *)
(* The queue is guarded by condition_mutex as in libcthreads_queue.c: a    *)
(* thread at a "..._enter" label is in libcthreads_mutex_grab, at a        *)
(* "..._check" label it holds the mutex, at a "..._wait" label it is in    *)
(* libcthreads_condition_wait, at a "..._leave" label it still holds the   *)
(* mutex and at a "..._return" label it has released it.                   *)
(***************************************************************************)
EXTENDS RingBuffer, Sequences, FiniteSets

CONSTANTS NumberOfThreads, Producers, Main, NoThread,
          Script,       \* Script[p]: the pushes of p, <<function, value>>
          Spawn,        \* Spawn[v]: the push the callback makes for v, or <<>>
          Builds,       \* the builds to look at
          Faults,       \* the library calls that may fail
          MaxSpurious   \* bound: spurious wakeups in one behaviour

Workers == 1 .. NumberOfThreads
Threads == Workers \cup Producers \cup {Main}
Conditions == {"empty_condition", "full_condition"}
Pushes == {"push", "push_sorted", "push_unique"}

ASSUME PoolAssumption ==
    /\ NumberOfThreads \in Nat \ {0}
    /\ Capacity > 0
    /\ NoValue \notin {-1, 1}
    /\ IsFiniteSet(Producers)
    /\ Workers \cap Producers = {} /\ Main \notin Workers \cup Producers
    /\ NoThread \notin Threads
    /\ Script \in [Producers -> Seq(Pushes \X Values)]
    /\ Spawn \in [Values -> (Pushes \X Values) \cup {<<>>}]
    /\ Builds \subseteq {"pthread", "winapi", "work_items"}
    /\ Faults \subseteq {"grab", "wait", "broadcast", "release", "compare",
                         "memory", "create", "submit", "join", "free"}
    /\ MaxSpurious \in Nat

VARIABLES owner, waiting,
          values_array, pop_index, push_index, number_of_values,
          status,         \* status of the pool: 0 or LIBCTHREADS_STATUS_EXIT
          pc,
          value,          \* value[w]: the value w has popped and not finished
          answer,         \* answer[t]: result of the function t is in
          thread_result,  \* what the int allocated by worker w holds, or NoValue
          thread_index,   \* of the loops of create and join
          made,           \* made[p]: how many calls of its script p has begun
          spurious,       \* spurious wakeups so far
          build,          \* the build, the same for ever
          work_items,     \* how many submitted work items wait for a thread
          alive,          \* the pool has not been freed
          accepted,       \* history: the values that were queued
          completed,      \* history: the values whose callback returned
          dropped,        \* history: the values popped by a pop that failed
          failed,         \* history: some callback did not return 1
          unjoined,       \* history: the workers for which waiting has failed
          failures        \* history: the library calls that have failed

INSTANCE Monitor

ringVars == <<values_array, pop_index, push_index, number_of_values>>
workVars == <<value, thread_result, completed, dropped, failed>>
mainVars == <<status, thread_index, alive, unjoined>>
systemVars == <<spurious, build, work_items>>
vars == <<owner, waiting, ringVars, pc, answer, made, workVars, mainVars,
          systemVars, accepted, failures>>

STATUS_EXIT == 1

PushLabels ==
    {"push_enter", "push_check", "push_wait", "push_leave", "push_submit"}
WorkerLabels ==
    {"none", "start", "pop_enter", "pop_check", "pop_wait", "pop_leave",
     "pop_return", "callback", "exited"}
MainLabels ==
    {"create", "create_error", "created", "join_enter", "join_begin",
     "join_check", "join_wait", "join_leave", "join_threads", "ended"}

FailuresTypeOK == unjoined \subseteq Workers /\ failures \subseteq Faults

TypeOK ==
    /\ MonitorTypeOK
    /\ values_array \in Arrays
    /\ pop_index \in Indices
    /\ push_index \in Indices
    /\ number_of_values \in 0 .. Capacity
    /\ status \in {0, STATUS_EXIT}
    /\ pc \in [Threads -> PushLabels \cup WorkerLabels \cup MainLabels
                            \cup {"idle"}]
    /\ pc[Main] \in MainLabels
    /\ \A p \in Producers : pc[p] \in PushLabels \cup {"idle"}
    /\ \A w \in Workers : pc[w] \in PushLabels \cup WorkerLabels
    /\ value \in [Workers -> Values \cup {NoValue}]
    /\ answer \in [Threads -> {-1, 0, 1}]
    /\ thread_result \in [Workers -> {NoValue, -1, 1}]
    /\ thread_index \in 0 .. NumberOfThreads
    /\ made \in [Producers -> Nat]
    /\ spurious \in 0 .. MaxSpurious
    /\ build \in Builds
    /\ work_items \in Nat
    /\ alive \in BOOLEAN
    /\ {accepted, completed, dropped} \subseteq SUBSET Values
    /\ failed \in BOOLEAN
    /\ FailuresTypeOK

Goto(t, label) == pc' = [pc EXCEPT ![t] = label]

Answer(t, r) == answer' = [answer EXCEPT ![t] = r]

\* Windows releases a mutex to the thread that gives it back, and since Vista
\* its mutex is a critical section, whose calls cannot fail.  There are no
\* threads to wait for with work items.
CanFail(call) ==
    /\ call \in Faults
    /\ call \in {"release", "memory"} => build = "pthread"
    /\ call \in {"grab", "broadcast", "join", "free"} => build # "work_items"
    /\ call = "submit" => build = "work_items"

\* The library call named fails; the system leaves everything as it was.
Fail(call) == CanFail(call) /\ failures' = failures \cup {call}

Succeed == UNCHANGED failures

\* thread_pool_create up to the loop that creates the threads.
Init ==
    /\ MonitorInit
    /\ values_array = [slot \in Slots |-> NoValue]
    /\ pop_index = 0
    /\ push_index = 0
    /\ number_of_values = 0
    /\ status = 0
    /\ pc = [t \in Threads |->
                IF t = Main THEN "create"
                ELSE IF t \in Workers THEN "none" ELSE "idle"]
    /\ value = [w \in Workers |-> NoValue]
    /\ answer = [t \in Threads |-> 1]
    /\ thread_result = [w \in Workers |-> NoValue]
    /\ thread_index = 0
    /\ made = [p \in Producers |-> 0]
    /\ spurious = 0
    /\ build \in Builds
    /\ work_items = 0
    /\ alive = TRUE
    /\ accepted = {}
    /\ completed = {}
    /\ dropped = {}
    /\ failed = FALSE
    /\ unjoined = {}
    /\ failures = {}

-----------------------------------------------------------------------------
(* Steps that every function has.                                          *)

EnterFrom(t, enter, check, return) ==
    /\ pc[t] = enter
    /\ \/ Grab(t) /\ Goto(t, check) /\ Succeed /\ UNCHANGED answer
       \/ /\ Fail("grab")
          /\ Goto(t, return) /\ Answer(t, -1) /\ UNCHANGED owner
    /\ UNCHANGED <<waiting, ringVars, made, workVars, mainVars, systemVars,
                   accepted>>

WakeTo(t, wait, check) ==
    /\ pc[t] = wait
    /\ ~ Asleep(t)
    /\ Grab(t)
    /\ Goto(t, check)
    /\ UNCHANGED <<waiting, ringVars, answer, made, workVars, mainVars,
                   systemVars, accepted, failures>>

LeaveTo(t, leave, return, failure) ==
    /\ pc[t] = leave
    /\ \/ Release(t) /\ Goto(t, return) /\ Succeed /\ UNCHANGED answer
       \/ /\ Fail("release")
          /\ Goto(t, failure) /\ Answer(t, -1) /\ UNCHANGED owner
    /\ UNCHANGED <<waiting, ringVars, made, workVars, mainVars, systemVars,
                   accepted>>

SleepOr(t, condition, wait, leave) ==
    /\ \/ Wait(t, condition) /\ Goto(t, wait) /\ Succeed /\ UNCHANGED answer
       \/ /\ Fail("wait")
          /\ Goto(t, leave) /\ Answer(t, -1) /\ UNCHANGED <<owner, waiting>>
    /\ UNCHANGED <<ringVars, workVars, accepted>>

\* Mutant of Announce: a failing broadcast is reported as "not done".
AnnounceFailsSoftly(t, condition) ==
    /\ \/ Broadcast(condition) /\ Answer(t, 1) /\ Succeed
       \/ Fail("broadcast") /\ Answer(t, 0) /\ UNCHANGED waiting
    /\ UNCHANGED owner

Announce(t, condition) ==
    /\ \/ Broadcast(condition) /\ Answer(t, 1) /\ Succeed
       \/ Fail("broadcast") /\ Answer(t, -1) /\ UNCHANGED waiting
    /\ UNCHANGED owner

SpuriousWakeup(t) ==
    /\ alive
    /\ spurious < MaxSpurious
    /\ WakeSpuriously(t)
    /\ spurious' = spurious + 1
    /\ UNCHANGED <<build, work_items>>
    /\ UNCHANGED <<ringVars, pc, answer, made, workVars, mainVars, accepted,
                   failures>>

-----------------------------------------------------------------------------
(* libcthreads_thread_pool_create and _join, called by Main.               *)

Created(w) ==
    /\ pc' = [pc EXCEPT ![Main] = "create", ![w] = "start"]
    /\ thread_index' = thread_index + 1

\* One turn of the loop that creates the threads; with work items the system
\* has them, and may refuse the pool.
CreateThread ==
    /\ pc[Main] = "create"
    /\ thread_index < NumberOfThreads
    /\ \/ build # "work_items" /\ Created(thread_index + 1) /\ Succeed
       \/ /\ Fail("create")
          /\ Goto(Main, "create_error") /\ UNCHANGED thread_index
    /\ UNCHANGED <<owner, waiting, ringVars, answer, made, workVars, status,
                   alive, unjoined, systemVars, accepted>>

CreateDone ==
    /\ pc[Main] = "create"
    /\ thread_index = NumberOfThreads \/ build = "work_items"
    /\ Goto(Main, "created")
    /\ UNCHANGED <<owner, waiting, ringVars, answer, made, workVars, mainVars,
                   systemVars, accepted, failures>>

\* Mutant of CreateError: the pool is freed without joining its threads.
CreateErrorFreesNow ==
    /\ pc[Main] = "create_error"
    /\ alive' = FALSE
    /\ Goto(Main, "ended") /\ Answer(Main, -1)
    /\ UNCHANGED <<owner, waiting, ringVars, made, workVars, status,
                   thread_index, unjoined, systemVars, accepted, failures>>

\* on_error joins the threads that were created, the last one first.  It
\* begins with the one that was not: the wait for a handle that is NULL fails,
\* but pthread_join of a cleared pthread_t is undefined.  It returns with an
\* error, which leaves everything as it was, or the program crashes: a
\* behaviour that stops here, which no safety property tells from one that is
\* cut short.  What the waits return is not looked at: when one fails the pool
\* is freed all the same.
CreateError ==
    /\ pc[Main] = "create_error"
    /\ \/ /\ thread_index > 0
          /\ \/ pc[thread_index] = "exited" /\ Succeed /\ UNCHANGED unjoined
             \/ Fail("join") /\ unjoined' = unjoined \cup {thread_index}
          /\ thread_index' = thread_index - 1
          /\ UNCHANGED <<pc, answer, alive>>
       \/ /\ thread_index = 0
          /\ alive' = FALSE
          /\ Goto(Main, "ended") /\ Answer(Main, -1)
          /\ UNCHANGED <<thread_index, unjoined, failures>>
    /\ UNCHANGED <<owner, waiting, ringVars, made, workVars, status, systemVars,
                   accepted>>

ProducersDone ==
    \A p \in Producers : pc[p] = "idle" /\ made[p] = Len(Script[p])

\* Join invalidates the pool: the producers must be done with it.
JoinCalled ==
    /\ pc[Main] = "created"
    /\ ProducersDone
    /\ Goto(Main, "join_enter")
    /\ UNCHANGED <<owner, waiting, ringVars, answer, made, workVars, mainVars,
                   systemVars, accepted, failures>>

\* A failing grab returns -1 with the pool and its threads left behind.
JoinEnter == EnterFrom(Main, "join_enter", "join_begin", "ended")

\* Mutant of JoinBegin: the workers are not woken up.
JoinBeginSilently ==
    /\ pc[Main] = "join_begin"
    /\ status' = STATUS_EXIT
    /\ Goto(Main, "join_check")
    /\ UNCHANGED <<owner, waiting, answer, ringVars, made, workVars,
                   thread_index, alive, unjoined, systemVars, accepted,
                   failures>>

JoinBegin ==
    /\ pc[Main] = "join_begin"
    /\ status' = STATUS_EXIT
    /\ Announce(Main, "empty_condition")
    /\ Goto(Main, "join_check")
    /\ UNCHANGED <<ringVars, made, workVars, thread_index, alive, unjoined,
                   systemVars, accepted>>

JoinCheck ==
    /\ pc[Main] = "join_check"
    /\ \/ /\ number_of_values # 0
          /\ SleepOr(Main, "full_condition", "join_wait", "join_leave")
       \/ /\ number_of_values = 0
          /\ Goto(Main, "join_leave")
          /\ UNCHANGED <<owner, waiting, ringVars, answer, workVars, accepted,
                         failures>>
    /\ UNCHANGED <<made, mainVars, systemVars>>

JoinWake == WakeTo(Main, "join_wait", "join_check")

JoinRelease ==
    /\ pc[Main] = "join_leave"
    /\ \/ /\ Release(Main)
          /\ Goto(Main, "join_threads")
          /\ thread_index' = 0
          /\ Succeed /\ UNCHANGED answer
       \/ /\ Fail("release")
          /\ Goto(Main, "ended") /\ Answer(Main, -1)
          /\ UNCHANGED <<owner, thread_index>>
    /\ UNCHANGED <<waiting, ringVars, made, workVars, status, alive, unjoined,
                   systemVars, accepted>>

\* Mutant of JoinThread: it does not wait for the thread to exit.
JoinThreadNow ==
    /\ pc[Main] = "join_threads"
    /\ thread_index < NumberOfThreads
    /\ thread_index' = thread_index + 1
    /\ IF thread_result[thread_index + 1] = -1
       THEN Answer(Main, -1)
       ELSE UNCHANGED answer
    /\ UNCHANGED <<owner, waiting, ringVars, pc, made, workVars, status, alive,
                   unjoined, systemVars, accepted, failures>>

\* Mutant of JoinThread: the loop ends at the first wait that fails.
JoinThreadStopsAtFailure ==
    /\ pc[Main] = "join_threads"
    /\ build # "work_items"
    /\ thread_index < NumberOfThreads
    /\ \/ /\ pc[thread_index + 1] = "exited"
          /\ IF thread_result[thread_index + 1] = -1
             THEN Answer(Main, -1)
             ELSE UNCHANGED answer
          /\ thread_index' = thread_index + 1
          /\ Succeed /\ UNCHANGED unjoined
       \/ /\ Fail("join") /\ Answer(Main, -1)
          /\ thread_index' = NumberOfThreads
          /\ unjoined' = unjoined \cup {thread_index + 1}
    /\ UNCHANGED <<owner, waiting, ringVars, pc, made, workVars, status, alive,
                   systemVars, accepted>>

\* A NULL return value is no error; any other that is not 1 is.  The builds
\* for Windows do not look at what a thread returns.  When waiting for a thread
\* fails the loop goes on, and the pool is freed whether it runs or not.
JoinThread ==
    /\ pc[Main] = "join_threads"
    /\ build # "work_items"
    /\ thread_index < NumberOfThreads
    /\ \/ /\ pc[thread_index + 1] = "exited"
          /\ IF thread_result[thread_index + 1] = -1
             THEN Answer(Main, -1)
             ELSE UNCHANGED answer
          /\ Succeed /\ UNCHANGED unjoined
       \/ /\ Fail("join") /\ Answer(Main, -1)
          /\ unjoined' = unjoined \cup {thread_index + 1}
    /\ thread_index' = thread_index + 1
    /\ UNCHANGED <<owner, waiting, ringVars, pc, made, workVars, status, alive,
                   systemVars, accepted>>

\* CloseThreadpoolCleanupGroupMembers waits for the work items, those that
\* their callbacks submit included.
Closed == work_items = 0 /\ \A w \in Workers : pc[w] = "none"

\* pthread_mutex_destroy refuses a mutex that a failed release left locked.  A
\* condition or mutex that cannot be freed does not keep the rest from it.
JoinDone ==
    /\ pc[Main] = "join_threads"
    /\ IF build = "work_items" THEN Closed ELSE thread_index = NumberOfThreads
    /\ alive' = FALSE
    /\ Goto(Main, "ended")
    /\ \/ /\ IF owner = NoThread THEN UNCHANGED answer ELSE Answer(Main, -1)
          /\ Succeed
       \/ Fail("free") /\ Answer(Main, -1)
    /\ UNCHANGED <<owner, waiting, ringVars, made, workVars, status,
                   thread_index, unjoined, systemVars, accepted>>

MainStep ==
    \/ CreateThread \/ CreateDone \/ CreateError
    \/ JoinCalled \/ JoinEnter \/ JoinBegin \/ JoinCheck \/ JoinWake
    \/ JoinRelease \/ JoinThread \/ JoinDone

-----------------------------------------------------------------------------
(* libcthreads_thread_pool_push and _push_sorted, called by a producer or  *)
(* by the callback that worker t runs.                                     *)

Argument(t) == IF t \in Producers THEN Script[t][made[t]] ELSE Spawn[value[t]]

AfterPush(t) == IF t \in Producers THEN "idle" ELSE "callback"

PushCall(p) ==
    /\ pc[p] = "idle"
    /\ pc[Main] = "created"
    /\ made[p] < Len(Script[p])
    /\ made' = [made EXCEPT ![p] = @ + 1]
    /\ Goto(p, "push_enter")
    /\ UNCHANGED <<owner, waiting, ringVars, answer, workVars, mainVars,
                   systemVars, accepted, failures>>

PushEnter(t) == EnterFrom(t, "push_enter", "push_check", AfterPush(t))

IsFull == number_of_values = Capacity
IsEmpty == number_of_values = 0

Store(t, array) ==
    /\ values_array' = array
    /\ push_index' = Advance(push_index)
    /\ number_of_values' = number_of_values + 1
    /\ accepted' = accepted \cup {Argument(t)[2]}
    /\ Announce(t, "empty_condition")
    /\ Goto(t, "push_leave")
    /\ UNCHANGED <<pop_index, workVars>>

\* Nothing is queued: the value already exists (0) or a call failed (-1).
Refuse(t, r) ==
    /\ Answer(t, r)
    /\ Goto(t, "push_leave")
    /\ UNCHANGED <<owner, waiting, ringVars, workVars, accepted>>

Push(t) ==
    /\ pc[t] = "push_check"
    /\ Argument(t)[1] = "push"
    /\ \/ IsFull /\ SleepOr(t, "full_condition", "push_wait", "push_leave")
       \/ ~ IsFull /\ Store(t, [values_array EXCEPT
                                    ![push_index] = Argument(t)[2]])
    /\ UNCHANGED <<made, mainVars, systemVars>>

PushSorted(t) ==
    LET v == Argument(t)[2]
        unique == Argument(t)[1] = "push_unique"
    IN /\ pc[t] = "push_check"
       /\ Argument(t)[1] \in {"push_sorted", "push_unique"}
       /\ \/ IsFull /\ SleepOr(t, "full_condition", "push_wait", "push_leave")
          \/ /\ ~ IsFull
             /\ \E offset \in 0 .. number_of_values :
                  LET target == SlotAfter(pop_index, offset)
                      exists == /\ offset < number_of_values
                                /\ SameKey(v, values_array[target])
                  IN /\ ScanEndsAt(offset, values_array, pop_index,
                                   number_of_values, v, unique)
                     /\ \/ exists /\ Refuse(t, 0) /\ Succeed
                        \/ /\ ~ exists
                           /\ Store(t, InsertAt(values_array, target,
                                                push_index, v))
          \/ ~ IsFull /\ ~ IsEmpty /\ Fail("compare") /\ Refuse(t, -1)
       /\ UNCHANGED <<made, mainVars, systemVars>>

PushWake(t) == WakeTo(t, "push_wait", "push_check")

AfterLeave(t) ==
    IF build = "work_items" /\ answer[t] # -1 THEN "push_submit"
    ELSE AfterPush(t)

PushLeave(t) == LeaveTo(t, "push_leave", AfterLeave(t), AfterPush(t))

\* Mutant of SubmitWork: no work item for a callback's own push.
SubmitWorkOfProducers(t) ==
    /\ pc[t] = "push_submit"
    /\ IF t \in Producers
       THEN work_items' = work_items + 1
       ELSE UNCHANGED work_items
    /\ Goto(t, AfterPush(t))
    /\ UNCHANGED <<owner, waiting, ringVars, answer, made, workVars, mainVars,
                   spurious, build, accepted, failures>>

\* Every push submits a work item, one that has refused its value too.
SubmitWork(t) ==
    /\ pc[t] = "push_submit"
    /\ \/ work_items' = work_items + 1 /\ Succeed /\ UNCHANGED answer
       \/ Fail("submit") /\ Answer(t, -1) /\ UNCHANGED work_items
    /\ Goto(t, AfterPush(t))
    /\ UNCHANGED <<owner, waiting, ringVars, made, workVars, mainVars,
                   spurious, build, accepted>>

PushStep(t) ==
    \/ PushEnter(t) \/ Push(t) \/ PushSorted(t) \/ PushWake(t) \/ PushLeave(t)
    \/ SubmitWork(t)

-----------------------------------------------------------------------------
(* libcthreads_thread_pool_callback_function_helper, run by every worker,  *)
(* and libcthreads_internal_thread_pool_pop.                               *)

\* A thread of the system begins the helper for a work item.
Launch(w) ==
    /\ build = "work_items"
    /\ pc[w] = "none"
    /\ work_items > 0
    /\ work_items' = work_items - 1
    /\ Goto(w, "pop_enter")
    /\ UNCHANGED <<owner, waiting, ringVars, answer, made, workVars, mainVars,
                   spurious, build, accepted, failures>>

\* Without the int for its result, which only a pthread has, the helper leaves
\* at once.
Start(w) ==
    /\ pc[w] = "start"
    /\ \/ /\ build = "pthread"
          /\ thread_result' = [thread_result EXCEPT ![w] = 1]
          /\ Goto(w, "pop_enter") /\ Succeed
       \/ /\ build = "winapi"
          /\ Goto(w, "pop_enter") /\ Succeed
          /\ UNCHANGED thread_result
       \/ /\ Fail("memory")
          /\ Goto(w, "exited")
          /\ UNCHANGED thread_result
    /\ UNCHANGED <<owner, waiting, ringVars, answer, made, value, completed,
                   dropped, failed, mainVars, systemVars, accepted>>

PopEnter(w) == EnterFrom(w, "pop_enter", "pop_check", "pop_return")

Fetch(w) ==
    /\ value' = [value EXCEPT ![w] = values_array[pop_index]]
    /\ pop_index' = Advance(pop_index)
    /\ number_of_values' = number_of_values - 1
    /\ Announce(w, "full_condition")
    /\ Goto(w, "pop_leave")
    /\ UNCHANGED <<values_array, push_index, thread_result, completed, dropped,
                   failed, accepted>>

\* The pool is empty and joined: result 0.
FindNothing(w) ==
    /\ Answer(w, 0)
    /\ Goto(w, "pop_leave")
    /\ UNCHANGED <<owner, waiting, ringVars, workVars, accepted, failures>>

\* Mutant of Pop: a pool that is joined hands out no more values.
PopExitsFirst(w) ==
    /\ pc[w] = "pop_check"
    /\ \/ status = STATUS_EXIT /\ FindNothing(w)
       \/ status # STATUS_EXIT /\ ~ IsEmpty /\ Fetch(w)
       \/ /\ IsEmpty /\ status # STATUS_EXIT
          /\ SleepOr(w, "empty_condition", "pop_wait", "pop_leave")
    /\ UNCHANGED <<made, mainVars, systemVars>>

Pop(w) ==
    /\ pc[w] = "pop_check"
    /\ \/ ~ IsEmpty /\ Fetch(w)
       \/ IsEmpty /\ status = STATUS_EXIT /\ FindNothing(w)
       \/ /\ IsEmpty /\ status # STATUS_EXIT
          /\ SleepOr(w, "empty_condition", "pop_wait", "pop_leave")
    /\ UNCHANGED <<made, mainVars, systemVars>>

PopWake(w) == WakeTo(w, "pop_wait", "pop_check")

PopLeave(w) == LeaveTo(w, "pop_leave", "pop_return", "pop_return")

\* A worker that leaves the helper.
Out == IF build = "work_items" THEN "none" ELSE "exited"

\* Mutant of PopReturn: a worker whose pop failed still reports success.
PopReturnForgets(w) ==
    /\ pc[w] = "pop_return"
    /\ \/ /\ answer[w] = -1
          /\ dropped' = dropped \cup ({value[w]} \ {NoValue})
          /\ value' = [value EXCEPT ![w] = NoValue]
          /\ Goto(w, Out)
       \/ /\ answer[w] = 1
          /\ Goto(w, IF Spawn[value[w]] = <<>> THEN "callback" ELSE "push_enter")
          /\ UNCHANGED <<dropped, value>>
       \/ /\ answer[w] = 0
          /\ Goto(w, IF status = STATUS_EXIT THEN Out ELSE "pop_enter")
          /\ UNCHANGED <<dropped, value>>
    /\ UNCHANGED <<owner, waiting, ringVars, answer, made, thread_result,
                   completed, failed, mainVars, systemVars, accepted,
                   failures>>

\* The helper looks at the result of the pop, and at status without the
\* mutex.  A pop that failed may have taken a value, which is then lost; only
\* a pthread reports that.
PopReturn(w) ==
    /\ pc[w] = "pop_return"
    /\ \/ /\ answer[w] = -1
          /\ thread_result' = IF build = "pthread"
                              THEN [thread_result EXCEPT ![w] = -1]
                              ELSE thread_result
          /\ dropped' = dropped \cup ({value[w]} \ {NoValue})
          /\ value' = [value EXCEPT ![w] = NoValue]
          /\ Goto(w, Out)
       \/ /\ answer[w] = 1
          /\ Goto(w, IF Spawn[value[w]] = <<>> THEN "callback" ELSE "push_enter")
          /\ UNCHANGED <<thread_result, dropped, value>>
       \/ /\ answer[w] = 0
          /\ Goto(w, IF status = STATUS_EXIT \/ build = "work_items"
                     THEN Out ELSE "pop_enter")
          /\ UNCHANGED <<thread_result, dropped, value>>
    /\ UNCHANGED <<owner, waiting, ringVars, answer, made, completed, failed,
                   mainVars, systemVars, accepted, failures>>

\* Where a worker goes on after a callback: a work item is for one value.
AfterCallback == IF build = "work_items" THEN "none" ELSE "pop_enter"

\* Mutant of CallbackReturns: the last result is kept instead.
CallbackReturnsLast(w) ==
    /\ pc[w] = "callback"
    /\ \E r \in {-1, 1} :
          /\ thread_result' = [thread_result EXCEPT ![w] = r]
          /\ failed' = (failed \/ r # 1)
    /\ completed' = completed \cup {value[w]}
    /\ value' = [value EXCEPT ![w] = NoValue]
    /\ Goto(w, AfterCallback)
    /\ UNCHANGED <<owner, waiting, ringVars, answer, made, dropped, mainVars,
                   systemVars, accepted, failures>>

\* The callback returns; a pthread keeps the first result that is not 1.
CallbackReturns(w) ==
    /\ pc[w] = "callback"
    /\ \E r \in {-1, 1} :
          /\ thread_result' = [thread_result EXCEPT ![w] = IF @ = 1 THEN r ELSE @]
          /\ failed' = (failed \/ r # 1)
    /\ completed' = completed \cup {value[w]}
    /\ value' = [value EXCEPT ![w] = NoValue]
    /\ Goto(w, AfterCallback)
    /\ UNCHANGED <<owner, waiting, ringVars, answer, made, dropped, mainVars,
                   systemVars, accepted, failures>>

\* A worker whose pool has been freed behaves in undefined ways: not here.
WorkerStep(w) ==
    /\ alive
    /\ \/ Launch(w) \/ Start(w)
       \/ PopEnter(w) \/ Pop(w) \/ PopWake(w) \/ PopLeave(w) \/ PopReturn(w)
       \/ CallbackReturns(w) \/ PushStep(w)

ProducerStep(p) == PushCall(p) \/ PushStep(p)

Terminating ==
    /\ pc[Main] = "ended"
    /\ ~ alive
    /\ UNCHANGED vars

Next ==
    \/ MainStep
    \/ \E p \in Producers : ProducerStep(p)
    \/ \E w \in Workers : WorkerStep(w)
    \/ \E t \in Threads : SpuriousWakeup(t)
    \/ Terminating

Spec == Init /\ [][Next]_vars

\* The scheduler runs every thread that can run.
Fairness ==
    /\ WF_vars(MainStep)
    /\ \A p \in Producers : WF_vars(ProducerStep(p))
    /\ \A w \in Workers : WF_vars(WorkerStep(w))

FairSpec == Spec /\ Fairness

-----------------------------------------------------------------------------
(* No wakeup is lost: until a broadcast fails, a worker is blocked only on *)
(* an empty pool that nobody has begun to join, a push only on a full one, *)
(* and the join only while there are values.                               *)
NoLostWakeup ==
    "broadcast" \notin failures =>
        /\ waiting["empty_condition"] # {} => IsEmpty /\ status # STATUS_EXIT
        /\ \A t \in waiting["full_condition"] :
              IF t = Main THEN ~ IsEmpty ELSE IsFull

\* On Windows join does not learn of a worker that stopped because a call had
\* failed, nor of a work item that could not be submitted.
StopsUnnoticed ==
    build # "pthread" /\ failures \cap {"grab", "broadcast", "submit"} # {}

\* The failures of calls that create, join or the pop of a worker makes: what
\* fails only in a push, or before a worker has begun, is no business of join.
FailuresOfJoin == failures \ {"compare", "submit", "memory"}

(* When join returns 1, every value that was queued, by a producer or by a *)
(* callback that ran while the pool was being joined, has had its callback *)
(* or, on Windows, was lost by a pop that failed; but where workers stop   *)
(* unnoticed the values that callbacks push may stay behind.  In the       *)
(* pthread build none was lost and every callback has returned 1.  Join,   *)
(* or a create that gave up, returns -1 only when a callback has failed in *)
(* the pthread build, or a call of its own or of a worker's pop.           *)
JoinTellsTheTruth ==
    pc[Main] = "ended" =>
        /\ answer[Main] = 1 =>
              /\ \/ StopsUnnoticed /\ \E v \in Values : Spawn[v] # <<>>
                 \/ accepted = completed \cup dropped
              /\ build = "pthread" => dropped = {} /\ ~ failed
        /\ answer[Main] = -1 =>
              (build = "pthread" /\ failed) \/ FailuresOfJoin # {}

(* The loop of join waits until all the values in the queue have been      *)
(* processed: when join returns 1 none is left.                            *)
JoinLeavesNoValue ==
    pc[Main] = "ended" /\ answer[Main] = 1 => accepted = completed \cup dropped

(* The pool is freed only when nobody is inside it: no worker still has to *)
(* read a field of it, no work item is left that would, and no thread is   *)
(* blocked on its conditions.  The workers for which waiting has failed    *)
(* are the exception: the pool is freed under them, but under no other.    *)
FreedWhenUnused ==
    ~ alive =>
        /\ work_items = 0
        /\ \A w \in Workers \ unjoined : pc[w] \in {"none", "exited"}
        /\ \A t \in Threads \ unjoined : ~ Asleep(t)

\* Who is about to pop a value, or to submit a work item for one.
Poppers == {w \in Workers : pc[w] \in {"pop_enter", "pop_check", "pop_wait"}}
Submitters == {t \in Threads : pc[t] \in {"push_leave", "push_submit"}}

(* A queued value is not forgotten: with work items, whose number is not   *)
(* tied to the number of values by any lock, there is always one left, or  *)
(* under way, for every value in the queue.                                *)
WorkForEveryValue ==
    build = "work_items" /\ "submit" \notin failures =>
        number_of_values <=
            work_items + Cardinality(Poppers) + Cardinality(Submitters)

\* The push functions that the producers and the callbacks use.
PushKinds ==
    UNION {{Script[p][i][1] : i \in DOMAIN Script[p]} : p \in Producers}
        \cup {Spawn[v][1] : v \in {u \in Values : Spawn[u] # <<>>}}

\* The pool as its users see it.
TP == INSTANCE TaskPool WITH
        items <- Contents(values_array, pop_index, number_of_values),
        busy <- {value[w] : w \in Workers} \ {NoValue},
        outcome <- IF pc[Main] = "ended" THEN answer[Main] ELSE 0,
        reporting <- build = "pthread",
        PushKinds <- PushKinds,
        MayFail <- Faults # {}

(* The pool implements its abstract description: no value is lost, handled *)
(* twice or taken out of order, and join waits for all of them.            *)
ImplementsTaskPool == TP!Spec

(* Every pool that is created, used and joined comes to its end: pushes    *)
(* return, every worker exits and join returns.                            *)
Termination == <>(pc[Main] = "ended" /\ ~ alive)

(* libcthreads_thread_pool_create returns 1 if successful or -1 on error:  *)
(* it returns.                                                             *)
CreateReturns == <>(pc[Main] \in {"created", "ended"})

(* libcthreads_thread_pool_join returns 1 if successful or -1 on error: it *)
(* returns once it is called.                                              *)
JoinReturns == pc[Main] = "join_enter" ~> pc[Main] = "ended"
=============================================================================
