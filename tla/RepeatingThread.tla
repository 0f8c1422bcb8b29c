-------------------------- MODULE RepeatingThread --------------------------
(***************************************************************************)
(* libcthreads_repeating_thread.c: one worker runs a callback once for     *)
(* every push.  Main creates the repeating thread and joins it; producers  *)
(* push in between, and so may the callback.                               *)
(*                                                                         *)
(* A push adds one to active_tasks under condition_mutex and signals       *)
(* status_condition; the worker takes all pending tasks at once and runs   *)
(* them without the mutex.  Labels: "..._enter" is in                      *)
(* libcthreads_mutex_grab, "..._check" holds the mutex, "loop_wait" is in  *)
(* libcthreads_condition_wait, "..._leave" is about to release the mutex.  *)
(*                                                                         *)
(* The worker ignores what its calls return.  A grab of its own that fails *)
(* is not modelled: it goes on without the mutex, and waiting with a mutex *)
(* one does not hold is undefined.                                         *)
(***************************************************************************)
EXTENDS Integers

CONSTANTS Producers, Main, Worker, NoThread,
          Pushes,       \* bound: Pushes[p] calls of push by producer p
          MaxNested,    \* bound: pushes made by callbacks
          MaxSpurious,  \* bound: spurious wakeups in one behaviour
          IntMax,       \* the greatest int
          Builds,       \* the builds to look at, "pthread" or "winapi"
          Faults        \* the library calls that may fail

Threads == Producers \cup {Main, Worker}
Conditions == {"status_condition"}

ASSUME RepeatingAssumption ==
    /\ Main \notin Producers /\ Worker \notin Producers /\ Main # Worker
    /\ NoThread \notin Threads
    /\ Pushes \in [Producers -> Nat]
    /\ MaxNested \in Nat /\ MaxSpurious \in Nat
    /\ IntMax \in Nat \ {0}
    /\ Builds \subseteq {"pthread", "winapi"}
    /\ Faults \subseteq {"create", "grab", "signal", "wait", "release",
                         "worker_release", "join", "free"}

VARIABLES owner, waiting,
          active_tasks, total_tasks, status, callback_function_result,
          number_of_tasks,  \* local variables of the worker: the tasks taken,
          task_index,       \* how many of them it has run,
          seen_status,      \* and the status it has read
          pc,
          answer,           \* answer[t]: what the function t is in returns
          made,             \* made[p]: how many pushes p has begun
          nested,           \* how many pushes callbacks have begun
          spurious,         \* spurious wakeups so far
          alive,            \* the repeating thread has not been freed
          build,            \* the build, the same for ever
          accepted,         \* history: how often active_tasks was incremented
          runs,             \* history: how many callbacks have returned
          failed,           \* history: one of them did not return 1
          overflowed,       \* history: active_tasks has passed IntMax
          failures          \* history: the library calls that have failed

INSTANCE Monitor

countVars == <<active_tasks, total_tasks, accepted, overflowed>>
batchVars == <<number_of_tasks, task_index, seen_status>>
callVars == <<callback_function_result, runs, failed>>
boundVars == <<made, nested, spurious, build>>
vars == <<owner, waiting, countVars, status, batchVars, callVars, boundVars,
          pc, answer, alive, failures>>

STATUS_EXIT == 1

Ints == -IntMax - 1 .. IntMax

WorkerLabels == {"none", "start", "loop_enter", "loop_check", "loop_wait",
                 "loop_leave", "tasks", "callback", "exited"}
PushLabels == {"push_enter", "push_check", "push_leave"}
MainLabels == {"create", "created", "join_enter", "join_check", "join_leave",
               "join_thread", "ended"}

TypeOK ==
    /\ MonitorTypeOK
    /\ active_tasks \in Ints /\ total_tasks \in Ints
    /\ status \in {0, STATUS_EXIT} /\ seen_status \in {0, STATUS_EXIT}
    /\ callback_function_result \in {-1, 0, 1}
    /\ number_of_tasks \in Ints
    /\ task_index \in 0 .. IntMax
    /\ pc \in [Threads -> WorkerLabels \cup PushLabels \cup MainLabels
                            \cup {"idle"}]
    /\ pc[Main] \in MainLabels
    /\ pc[Worker] \in WorkerLabels \cup PushLabels
    /\ \A p \in Producers : pc[p] \in PushLabels \cup {"idle"}
    /\ answer \in [Threads -> {-1, 1}]
    /\ made \in [Producers -> Nat] /\ nested \in Nat /\ spurious \in Nat
    /\ alive \in BOOLEAN /\ failed \in BOOLEAN /\ overflowed \in BOOLEAN
    /\ build \in Builds
    /\ accepted \in Nat /\ runs \in Nat
    /\ failures \subseteq Faults

Init ==
    /\ MonitorInit
    /\ active_tasks = 0 /\ total_tasks = 0
    /\ status = 0 /\ seen_status = 0
    /\ callback_function_result = 0
    /\ number_of_tasks = 0 /\ task_index = 0
    /\ pc = [t \in Threads |->
                IF t = Main THEN "create"
                ELSE IF t = Worker THEN "none" ELSE "idle"]
    /\ answer = [t \in Threads |-> 1]
    /\ made = [p \in Producers |-> 0] /\ nested = 0 /\ spurious = 0
    /\ alive = TRUE
    /\ build \in Builds
    /\ accepted = 0 /\ runs = 0
    /\ failed = FALSE /\ overflowed = FALSE
    /\ failures = {}

Goto(t, label) == pc' = [pc EXCEPT ![t] = label]

Answer(t, r) == answer' = [answer EXCEPT ![t] = r]

\* The library call named fails; the system leaves everything as it was.
Fail(call) ==
    /\ call \in Faults
    /\ failures' = failures \cup {call}

Succeed == UNCHANGED failures

\* libcthreads_mutex_grab of push and join: when it fails they return -1.
Enter(t, enter, check, return) ==
    /\ pc[t] = enter
    /\ \/ Grab(t) /\ Goto(t, check) /\ Answer(t, 1) /\ Succeed
       \/ Fail("grab") /\ Goto(t, return) /\ Answer(t, -1) /\ UNCHANGED owner
    /\ UNCHANGED <<waiting, countVars, status, batchVars, callVars, boundVars,
                   alive>>

\* libcthreads_condition_signal of push and join.
Announce(t) ==
    \/ Signal("status_condition") /\ Succeed /\ UNCHANGED answer
    \/ Fail("signal") /\ Answer(t, -1) /\ UNCHANGED waiting

-----------------------------------------------------------------------------
(* libcthreads_repeating_thread_push, by a producer or by the callback.    *)

AfterPush(t) == IF t = Worker THEN "callback" ELSE "idle"

PushCall(p) ==
    /\ pc[p] = "idle"
    /\ pc[Main] = "created"
    /\ made[p] < Pushes[p]
    /\ made' = [made EXCEPT ![p] = @ + 1]
    /\ Goto(p, "push_enter")
    /\ UNCHANGED <<owner, waiting, countVars, status, batchVars, callVars,
                   nested, spurious, build, answer, alive, failures>>

PushEnter(t) == Enter(t, "push_enter", "push_check", AfterPush(t))

\* Signed overflow wraps in the builds of these compilers.
Increment(i) == IF i = IntMax THEN -IntMax - 1 ELSE i + 1

\* Mutant of Push: a worker that may be busy is not signalled.
PushSignalsTheFirst(t) ==
    /\ pc[t] = "push_check"
    /\ active_tasks' = Increment(active_tasks)
    /\ total_tasks' = Increment(total_tasks)
    /\ accepted' = accepted + 1
    /\ overflowed' = (overflowed \/ active_tasks = IntMax)
    /\ IF total_tasks = 0 THEN Announce(t)
       ELSE UNCHANGED <<waiting, answer, failures>>
    /\ Goto(t, "push_leave")
    /\ UNCHANGED <<owner, status, batchVars, callVars, boundVars, alive>>

\* A signal that fails returns -1 for a task that is counted all the same.
Push(t) ==
    /\ pc[t] = "push_check"
    /\ active_tasks' = Increment(active_tasks)
    /\ total_tasks' = Increment(total_tasks)
    /\ accepted' = accepted + 1
    /\ overflowed' = (overflowed \/ active_tasks = IntMax)
    /\ Announce(t)
    /\ Goto(t, "push_leave")
    /\ UNCHANGED <<owner, status, batchVars, callVars, boundVars, alive>>

PushLeave(t) ==
    /\ pc[t] = "push_leave"
    /\ \/ Release(t) /\ Succeed /\ UNCHANGED answer
       \/ Fail("release") /\ Answer(t, -1) /\ UNCHANGED owner
    /\ Goto(t, AfterPush(t))
    /\ UNCHANGED <<waiting, countVars, status, batchVars, callVars, boundVars,
                   alive>>

PushStep(t) == PushEnter(t) \/ Push(t) \/ PushLeave(t)

-----------------------------------------------------------------------------
(* The worker: libcthreads_repeating_thread_callback_function_helper.      *)

Start ==
    /\ pc[Worker] = "start"
    /\ callback_function_result' = 1
    /\ Goto(Worker, "loop_enter")
    /\ UNCHANGED <<owner, waiting, countVars, status, batchVars, runs, failed,
                   boundVars, answer, alive, failures>>

LoopEnter ==
    /\ pc[Worker] = "loop_enter"
    /\ Grab(Worker)
    /\ Goto(Worker, "loop_check")
    /\ UNCHANGED <<waiting, countVars, status, batchVars, callVars, boundVars,
                   answer, alive, failures>>

LoopWake ==
    /\ pc[Worker] = "loop_wait"
    /\ ~ Asleep(Worker)
    /\ Grab(Worker)
    /\ Goto(Worker, "loop_check")
    /\ UNCHANGED <<waiting, countVars, status, batchVars, callVars, boundVars,
                   answer, alive, failures>>

\* Mutant of LoopWait: only the tasks are looked at, not the status.
LoopWaitIgnoresExit ==
    /\ pc[Worker] = "loop_check"
    /\ active_tasks = 0
    /\ \/ /\ Wait(Worker, "status_condition") /\ Succeed
          /\ Goto(Worker, "loop_wait")
       \/ Fail("wait") /\ UNCHANGED <<owner, waiting, pc>>
    /\ UNCHANGED <<countVars, status, batchVars, callVars, boundVars, answer,
                   alive>>

\* A wait that fails returns at once: the worker looks again, with the mutex.
LoopWait ==
    /\ pc[Worker] = "loop_check"
    /\ active_tasks = 0
    /\ status # STATUS_EXIT
    /\ \/ /\ Wait(Worker, "status_condition") /\ Succeed
          /\ Goto(Worker, "loop_wait")
       \/ Fail("wait") /\ UNCHANGED <<owner, waiting, pc>>
    /\ UNCHANGED <<countVars, status, batchVars, callVars, boundVars, answer,
                   alive>>

\* Mutant of Take: the tasks taken stay pending.
TakeKeepsTheTasks ==
    /\ pc[Worker] = "loop_check"
    /\ active_tasks # 0 \/ status = STATUS_EXIT
    /\ number_of_tasks' = active_tasks
    /\ seen_status' = status
    /\ active_tasks' = IF status = STATUS_EXIT THEN 0 ELSE active_tasks
    /\ task_index' = 0
    /\ Goto(Worker, "loop_leave")
    /\ UNCHANGED <<owner, waiting, total_tasks, accepted, overflowed, status,
                   callVars, boundVars, answer, alive, failures>>

Take ==
    /\ pc[Worker] = "loop_check"
    /\ active_tasks # 0 \/ status = STATUS_EXIT
    /\ number_of_tasks' = active_tasks
    /\ seen_status' = status
    /\ active_tasks' = 0
    /\ task_index' = 0
    /\ Goto(Worker, "loop_leave")
    /\ UNCHANGED <<owner, waiting, total_tasks, accepted, overflowed, status,
                   callVars, boundVars, answer, alive, failures>>

LoopLeave ==
    /\ pc[Worker] = "loop_leave"
    /\ \/ Release(Worker) /\ Succeed
       \/ Fail("worker_release") /\ UNCHANGED owner
    /\ Goto(Worker, "tasks")
    /\ UNCHANGED <<waiting, countVars, status, batchVars, callVars, boundVars,
                   answer, alive>>

\* Mutant of CallTask: the loop runs once too often.
CallTaskOnceMore ==
    /\ pc[Worker] = "tasks"
    /\ task_index <= number_of_tasks
    /\ Goto(Worker, "callback")
    /\ UNCHANGED <<owner, waiting, countVars, status, batchVars, callVars,
                   boundVars, answer, alive, failures>>

CallTask ==
    /\ pc[Worker] = "tasks"
    /\ task_index < number_of_tasks
    /\ Goto(Worker, "callback")
    /\ UNCHANGED <<owner, waiting, countVars, status, batchVars, callVars,
                   boundVars, answer, alive, failures>>

CallbackPushes ==
    /\ pc[Worker] = "callback"
    /\ nested < MaxNested
    /\ nested' = nested + 1
    /\ Goto(Worker, "push_enter")
    /\ UNCHANGED <<owner, waiting, countVars, status, batchVars, callVars,
                   made, spurious, build, answer, alive, failures>>

\* Mutant of CallbackReturns: the result of the last callback is kept.
CallbackReturnsLast ==
    /\ pc[Worker] = "callback"
    /\ \E r \in {-1, 1} :
          /\ callback_function_result' = r
          /\ failed' = (failed \/ r # 1)
    /\ runs' = runs + 1
    /\ task_index' = task_index + 1
    /\ Goto(Worker, "tasks")
    /\ UNCHANGED <<owner, waiting, countVars, status, number_of_tasks,
                   seen_status, boundVars, answer, alive, failures>>

\* The first result that is not 1 is kept.
CallbackReturns ==
    /\ pc[Worker] = "callback"
    /\ \E r \in {-1, 1} :
          /\ callback_function_result' =
                IF callback_function_result = 1 THEN r
                ELSE callback_function_result
          /\ failed' = (failed \/ r # 1)
    /\ runs' = runs + 1
    /\ task_index' = task_index + 1
    /\ Goto(Worker, "tasks")
    /\ UNCHANGED <<owner, waiting, countVars, status, number_of_tasks,
                   seen_status, boundVars, answer, alive, failures>>

\* The end of the loop: while( number_of_tasks > 0 || status != EXIT ).
LoopEnd ==
    /\ pc[Worker] = "tasks"
    /\ task_index >= number_of_tasks
    /\ Goto(Worker, IF number_of_tasks > 0 \/ seen_status # STATUS_EXIT
                    THEN "loop_enter" ELSE "exited")
    /\ UNCHANGED <<owner, waiting, countVars, status, batchVars, callVars,
                   boundVars, answer, alive, failures>>

SpuriousWakeup ==
    /\ spurious < MaxSpurious
    /\ WakeSpuriously(Worker)
    /\ spurious' = spurious + 1
    /\ UNCHANGED <<countVars, status, batchVars, callVars, made, nested, build,
                   pc, answer, alive, failures>>

\* A worker whose object has been freed behaves in undefined ways: not here.
WorkerStep ==
    /\ alive
    /\ \/ Start \/ LoopEnter \/ LoopWake \/ LoopWait \/ Take \/ LoopLeave
       \/ CallTask \/ CallbackPushes \/ CallbackReturns \/ LoopEnd
       \/ PushStep(Worker)

-----------------------------------------------------------------------------
(* libcthreads_repeating_thread_create and _join, by Main.                 *)

Create ==
    /\ pc[Main] = "create"
    /\ \/ /\ pc' = [pc EXCEPT ![Main] = "created", ![Worker] = "start"]
          /\ Succeed
          /\ UNCHANGED <<answer, alive>>
       \/ /\ Fail("create")
          /\ Goto(Main, "ended") /\ Answer(Main, -1)
          /\ alive' = FALSE
    /\ UNCHANGED <<owner, waiting, countVars, status, batchVars, callVars,
                   boundVars>>

\* Join invalidates the object: the producers must be done with it.
JoinCalled ==
    /\ pc[Main] = "created"
    /\ \A p \in Producers : pc[p] = "idle" /\ made[p] = Pushes[p]
    /\ Goto(Main, "join_enter")
    /\ UNCHANGED <<owner, waiting, countVars, status, batchVars, callVars,
                   boundVars, answer, alive, failures>>

\* A grab that fails leaves the object and its thread behind.
JoinEnter == Enter(Main, "join_enter", "join_check", "ended")

\* Mutant of JoinCheck: the worker is told to exit but not woken up.
JoinCheckSilently ==
    /\ pc[Main] = "join_check"
    /\ status' = STATUS_EXIT
    /\ Goto(Main, "join_leave")
    /\ UNCHANGED <<owner, waiting, countVars, batchVars, callVars, boundVars,
                   answer, alive, failures>>

JoinCheck ==
    /\ pc[Main] = "join_check"
    /\ status' = STATUS_EXIT
    /\ Announce(Main)
    /\ Goto(Main, "join_leave")
    /\ UNCHANGED <<owner, countVars, batchVars, callVars, boundVars, alive>>

\* When the signal or the release has failed join returns here.
JoinLeave ==
    /\ pc[Main] = "join_leave"
    /\ \/ /\ Release(Main) /\ Succeed
          /\ Goto(Main, IF answer[Main] = 1 THEN "join_thread" ELSE "ended")
          /\ UNCHANGED answer
       \/ /\ Fail("release") /\ Answer(Main, -1)
          /\ Goto(Main, "ended")
          /\ UNCHANGED owner
    /\ UNCHANGED <<waiting, countVars, status, batchVars, callVars, boundVars,
                   alive>>

\* Mutant of JoinThread: it does not wait for the worker.
JoinThreadNow ==
    /\ pc[Main] = "join_thread"
    /\ \/ /\ Answer(Main, IF build = "pthread" /\ callback_function_result = -1
                          THEN -1 ELSE 1)
          /\ Succeed
       \/ Fail("join") /\ Answer(Main, -1)
    /\ alive' = FALSE
    /\ Goto(Main, "ended")
    /\ UNCHANGED <<owner, waiting, countVars, status, batchVars, callVars,
                   boundVars>>

\* Only the pthread build looks at the worker's result, and cannot destroy a
\* mutex that was not released.  When waiting for the thread fails, or freeing
\* the condition or the mutex, the rest is freed nevertheless.
JoinThread ==
    /\ pc[Main] = "join_thread"
    /\ \/ /\ pc[Worker] = "exited"
          /\ Answer(Main, IF /\ build = "pthread"
                             /\ callback_function_result # 1 \/ owner # NoThread
                          THEN -1 ELSE 1)
          /\ Succeed
       \/ pc[Worker] = "exited" /\ Fail("free") /\ Answer(Main, -1)
       \/ Fail("join") /\ Answer(Main, -1)
    /\ alive' = FALSE
    /\ Goto(Main, "ended")
    /\ UNCHANGED <<owner, waiting, countVars, status, batchVars, callVars,
                   boundVars>>

JoinStep == JoinEnter \/ JoinCheck \/ JoinLeave \/ JoinThread

ProducerStep(p) == PushCall(p) \/ PushStep(p)

Next ==
    \/ Create \/ JoinCalled \/ JoinStep
    \/ \E p \in Producers : ProducerStep(p)
    \/ WorkerStep
    \/ SpuriousWakeup

Spec == Init /\ [][Next]_vars

\* Every thread that can run does run, and no call is bound to fail; when to
\* call join is Main's choice.
FairSpec ==
    /\ Spec
    /\ WF_vars(WorkerStep /\ Succeed)
    /\ WF_vars(JoinStep /\ Succeed)
    /\ \A p \in Producers : WF_vars(ProducerStep(p) /\ Succeed)

-----------------------------------------------------------------------------
(* No task is lost and none is run twice: every push that was counted has  *)
(* been run, or is pending, or is in the batch the worker has taken.  An   *)
(* active_tasks that passes the greatest int breaks this.                  *)
TasksConserved ==
    ~ overflowed =>
        accepted = runs + active_tasks + (number_of_tasks - task_index)

(* While no signal fails, the worker is blocked only when there is neither *)
(* a task nor a join.                                                      *)
NoLostWakeup ==
    "signal" \notin failures /\ Asleep(Worker) =>
        active_tasks = 0 /\ status # STATUS_EXIT

(* When join returns 1 every task has been run, also the ones that         *)
(* callbacks pushed while it waited, and in the pthread build every        *)
(* callback has returned 1; it returns -1 only after a failure.            *)
JoinTellsTheTruth ==
    pc[Main] = "ended" =>
        /\ answer[Main] = 1 =>
              /\ overflowed \/ runs = accepted
              /\ build = "pthread" => ~ failed
        /\ answer[Main] = -1 => failed \/ failures # {}

(* The object is freed only when the worker has exited, so that nobody     *)
(* reads its fields or waits on its condition after that; waiting for the  *)
(* thread must not have failed.                                            *)
FreedWhenUnused ==
    ~ alive /\ "join" \notin failures =>
        pc[Worker] \in {"none", "exited"} /\ ~ Asleep(Worker)

(* A join that is called returns, whatever the callbacks return and even   *)
(* when the count of tasks has overflowed; but not when a wait or a        *)
(* release has failed, which keeps the mutex from the others.              *)
JoinReturns ==
    pc[Main] = "join_enter"
        ~> \/ pc[Main] = "ended"
           \/ failures \cap {"wait", "release", "worker_release"} # {}

(* Tasks are run without waiting for the join, unless a call that wakes or *)
(* blocks the worker has failed.                                           *)
PushedTasksRun ==
    runs # accepted
        ~> \/ runs = accepted
           \/ failures \cap {"signal", "wait", "release", "worker_release",
                             "join"} # {}
           \/ overflowed
=============================================================================
