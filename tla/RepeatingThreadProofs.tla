----------------------- MODULE RepeatingThreadProofs -----------------------
(***************************************************************************)
(* The repeating thread, proved for every set of producers, every number   *)
(* of pushes, every greatest int and every set of calls that may fail.     *)
(***************************************************************************)
EXTENDS RepeatingThread, TLAPS

\* Where a thread holds condition_mutex.
HoldingLabels == {"push_check", "push_leave", "loop_check", "loop_leave",
                  "join_check", "join_leave"}

\* Where the worker is while the batch it has taken is done.
BetweenBatches == {"none", "start", "loop_enter", "loop_check", "loop_wait",
                   "exited"}

\* Whoever is between a grab and a release owns the mutex, and while no call
\* has failed nobody else does.
MutexInv ==
    /\ \A t \in Threads : pc[t] \in HoldingLabels => owner = t
    /\ failures = {} /\ owner # NoThread => pc[owner] \in HoldingLabels

\* Only the worker is ever blocked on the condition.
WaitInv ==
    \A t \in waiting["status_condition"] : t = Worker /\ pc[t] = "loop_wait"

\* What the threads do follows from how far Main has got.
PhaseInv ==
    /\ pc[Main] = "create" => pc[Worker] = "none"
    /\ pc[Main] # "created" => \A p \in Producers : pc[p] = "idle"
    /\ status = STATUS_EXIT =>
          pc[Main] \in {"join_leave", "join_thread", "ended"}
    /\ seen_status = STATUS_EXIT => status = STATUS_EXIT
    /\ ~ alive => pc[Main] = "ended"

\* The batch of the worker.
BatchInv ==
    /\ ~ overflowed => active_tasks >= 0 /\ task_index <= number_of_tasks
    /\ pc[Worker] \in PushLabels \cup {"callback"} =>
          task_index < number_of_tasks
    /\ pc[Worker] \in BetweenBatches => number_of_tasks <= task_index
    /\ pc[Worker] = "loop_leave" => task_index = 0

\* A worker that took nothing after the join was announced is at its end, and
\* nobody is left who pushes.
LastBatchInv ==
    /\ pc[Worker] = "exited" =>
          seen_status = STATUS_EXIT /\ number_of_tasks <= 0
    /\ seen_status = STATUS_EXIT /\ number_of_tasks <= 0 =>
          /\ pc[Worker] \in {"loop_leave", "tasks", "exited"}
          /\ active_tasks = 0

\* The worker keeps 1 until a callback returns something else.
ResultInv ==
    IF pc[Worker] \in {"none", "start"} THEN ~ failed
    ELSE callback_function_result = 1 <=> ~ failed

\* What join answers.
JoinInv ==
    /\ pc[Main] = "ended" /\ answer[Main] = 1 =>
          /\ pc[Worker] = "exited"
          /\ build = "pthread" => callback_function_result = 1
    /\ answer[Main] = -1 => failures # {} \/ (pc[Main] = "ended" /\ failed)

IInv == /\ TypeOK /\ MutexInv /\ WaitInv /\ PhaseInv /\ BatchInv
        /\ LastBatchInv /\ ResultInv /\ JoinInv
        /\ TasksConserved /\ NoLostWakeup /\ FreedWhenUnused

-----------------------------------------------------------------------------
(* Types.                                                                  *)

\* Signed overflow apart, Increment adds one.
LEMMA IncrementType ==
    ASSUME NEW i \in Ints
    PROVE  Increment(i) \in Ints /\ (i # IntMax => Increment(i) = i + 1)
BY RepeatingAssumption DEF Ints, Increment

\* The labels of the code that t runs.
LabelsOf(t) ==
    CASE t = Main -> MainLabels
      [] t = Worker -> WorkerLabels \cup PushLabels
      [] OTHER -> PushLabels \cup {"idle"}

\* A step of t within its code, that may set what its function returns and
\* record a failure.
LEMMA CallType ==
    ASSUME TypeOK, MonitorTypeOK',
           NEW t \in Threads, \E label \in LabelsOf(t) : Goto(t, label),
           \/ UNCHANGED answer \/ Answer(t, 1) \/ Answer(t, -1),
           \/ UNCHANGED failures \/ \E call : Fail(call),
           status' \in {0, STATUS_EXIT}, alive' \in BOOLEAN,
           UNCHANGED <<countVars, batchVars, callVars, boundVars>>
    PROVE  TypeOK'
<1>1. /\ pc' \in [Threads -> WorkerLabels \cup PushLabels \cup MainLabels
                                \cup {"idle"}]
      /\ pc[Main]' \in MainLabels
      /\ pc[Worker]' \in WorkerLabels \cup PushLabels
      /\ \A p \in Producers : pc[p]' \in PushLabels \cup {"idle"}
  BY RepeatingAssumption DEF TypeOK, LabelsOf, Goto
<1>2. answer' \in [Threads -> {-1, 1}]
  BY DEF TypeOK, Answer
<1>3. failures' \subseteq Faults
  BY DEF TypeOK, Fail
<1> QED
  BY <1>1, <1>2, <1>3
     DEF TypeOK, countVars, batchVars, callVars, boundVars

-----------------------------------------------------------------------------
(* Every action keeps the invariant.                                       *)

LEMMA PushKeepsIInv ==
    ASSUME IInv, NEW t \in Producers \cup {Worker}, PushStep(t)
    PROVE  IInv'
<1> USE RepeatingAssumption
    DEF IInv, Threads, Conditions, STATUS_EXIT, Goto, Answer, Fail, Succeed,
        countVars, batchVars, callVars, boundVars,
        PushLabels, WorkerLabels, MainLabels
<1>1. CASE PushEnter(t)
  <2> USE <1>1 DEF PushEnter, Enter, AfterPush, Grab
  <2>1. TypeOK'
    <3>1. MonitorTypeOK'
      BY DEF TypeOK, MonitorTypeOK
    <3> QED
      BY <3>1, CallType DEF TypeOK, LabelsOf
  <2>2. (MutexInv /\ WaitInv /\ NoLostWakeup /\ FreedWhenUnused)'
    BY DEF TypeOK, Asleep, MutexInv, WaitInv, NoLostWakeup, FreedWhenUnused,
           HoldingLabels
  <2>3. (PhaseInv /\ ResultInv /\ JoinInv)'
    BY DEF TypeOK, PhaseInv, ResultInv, JoinInv
  <2>4. (BatchInv /\ LastBatchInv /\ TasksConserved)'
    BY DEF TypeOK, BatchInv, LastBatchInv, TasksConserved, BetweenBatches
  <2> QED
    BY <2>1, <2>2, <2>3, <2>4
<1>2. CASE Push(t)
  <2> USE <1>2 DEF Push, Announce, Signal
  <2>a. /\ active_tasks' \in Ints /\ total_tasks' \in Ints
        /\ accepted' = accepted + 1 /\ accepted' \in Nat
        /\ active_tasks # IntMax => active_tasks' = active_tasks + 1
    BY IncrementType DEF TypeOK
  <2>b. /\ overflowed' \in BOOLEAN
        /\ overflowed' <=> overflowed \/ active_tasks = IntMax
    BY Zenon
  <2>1. TypeOK'
    <3>1. MonitorTypeOK'
      BY DEF TypeOK, MonitorTypeOK
    <3>2. /\ pc' \in [Threads -> WorkerLabels \cup PushLabels \cup MainLabels
                                    \cup {"idle"}]
          /\ pc[Main]' \in MainLabels
          /\ pc[Worker]' \in WorkerLabels \cup PushLabels
          /\ \A p \in Producers : pc[p]' \in PushLabels \cup {"idle"}
      BY DEF TypeOK
    <3>3. answer' \in [Threads -> {-1, 1}] /\ failures' \subseteq Faults
      BY DEF TypeOK
    <3> QED
      BY <2>a, <2>b, <3>1, <3>2, <3>3 DEF TypeOK
  <2>2. (MutexInv /\ WaitInv /\ NoLostWakeup /\ FreedWhenUnused)'
    BY DEF TypeOK, MonitorTypeOK, Asleep, MutexInv, WaitInv, NoLostWakeup,
           FreedWhenUnused, HoldingLabels
  <2>3. (PhaseInv /\ ResultInv /\ JoinInv)'
    BY DEF TypeOK, PhaseInv, ResultInv, JoinInv
  <2>4. (BatchInv /\ LastBatchInv /\ TasksConserved)'
    BY <2>a, <2>b DEF TypeOK, BatchInv, LastBatchInv, TasksConserved, Ints, PhaseInv,
           BetweenBatches
  <2> QED
    BY <2>1, <2>2, <2>3, <2>4
<1>3. CASE PushLeave(t)
  <2> USE <1>3 DEF PushLeave, AfterPush, Release
  <2>1. TypeOK'
    <3>1. MonitorTypeOK'
      BY DEF TypeOK, MonitorTypeOK
    <3> QED
      BY <3>1, CallType DEF TypeOK, LabelsOf
  <2>2. (MutexInv /\ WaitInv /\ NoLostWakeup /\ FreedWhenUnused)'
    BY DEF TypeOK, Asleep, MutexInv, WaitInv, NoLostWakeup, FreedWhenUnused,
           HoldingLabels
  <2>3. (PhaseInv /\ ResultInv /\ JoinInv)'
    BY DEF TypeOK, PhaseInv, ResultInv, JoinInv
  <2>4. (BatchInv /\ LastBatchInv /\ TasksConserved)'
    BY DEF BatchInv, LastBatchInv, TasksConserved, BetweenBatches
  <2> QED
    BY <2>1, <2>2, <2>3, <2>4
<1> QED
  BY <1>1, <1>2, <1>3 DEF PushStep

LEMMA WorkerKeepsIInv ==
    ASSUME IInv, WorkerStep
    PROVE  IInv'
<1> USE RepeatingAssumption
    DEF IInv, Threads, Conditions, STATUS_EXIT, Goto, Answer, Fail, Succeed,
        countVars, batchVars, callVars, boundVars,
        PushLabels, WorkerLabels, MainLabels
<1>a. alive
  BY DEF WorkerStep
<1> USE <1>a
<1>1. CASE Start
  <2> USE <1>1 DEF Start
  <2>1. TypeOK'
    BY DEF TypeOK, MonitorTypeOK
  <2>2. (MutexInv /\ WaitInv /\ NoLostWakeup /\ FreedWhenUnused)'
    BY DEF Asleep, MutexInv, WaitInv, NoLostWakeup, FreedWhenUnused,
           HoldingLabels
  <2>3. (PhaseInv /\ ResultInv /\ JoinInv)'
    BY DEF PhaseInv, ResultInv, JoinInv
  <2>4. (BatchInv /\ LastBatchInv /\ TasksConserved)'
    BY DEF BatchInv, LastBatchInv, TasksConserved, BetweenBatches
  <2> QED
    BY <2>1, <2>2, <2>3, <2>4
<1>2. CASE LoopEnter
  <2> USE <1>2 DEF LoopEnter, Grab
  <2>1. TypeOK'
    BY DEF TypeOK, MonitorTypeOK
  <2>2. (MutexInv /\ WaitInv /\ NoLostWakeup /\ FreedWhenUnused)'
    BY DEF TypeOK, Asleep, MutexInv, WaitInv, NoLostWakeup, FreedWhenUnused,
           HoldingLabels
  <2>3. (PhaseInv /\ ResultInv /\ JoinInv)'
    BY DEF PhaseInv, ResultInv, JoinInv
  <2>4. (BatchInv /\ LastBatchInv /\ TasksConserved)'
    BY DEF BatchInv, LastBatchInv, TasksConserved, BetweenBatches
  <2> QED
    BY <2>1, <2>2, <2>3, <2>4
<1>3. CASE LoopWake
  <2> USE <1>3 DEF LoopWake, Grab, Asleep
  <2>1. TypeOK'
    BY DEF TypeOK, MonitorTypeOK
  <2>2. (MutexInv /\ WaitInv /\ NoLostWakeup /\ FreedWhenUnused)'
    BY DEF TypeOK, MutexInv, WaitInv, NoLostWakeup, FreedWhenUnused,
           HoldingLabels
  <2>3. (PhaseInv /\ ResultInv /\ JoinInv)'
    BY DEF PhaseInv, ResultInv, JoinInv
  <2>4. (BatchInv /\ LastBatchInv /\ TasksConserved)'
    BY DEF BatchInv, LastBatchInv, TasksConserved, BetweenBatches
  <2> QED
    BY <2>1, <2>2, <2>3, <2>4
<1>4. CASE LoopWait
  <2> USE <1>4 DEF LoopWait, Wait, Release
  <2>1. TypeOK'
    <3>1. MonitorTypeOK'
      BY DEF TypeOK, MonitorTypeOK
    <3>2. CASE UNCHANGED pc
      BY <3>1, <3>2 DEF TypeOK
    <3>3. CASE Goto(Worker, "loop_wait")
      BY <3>1, <3>3, CallType DEF TypeOK
    <3> QED
      BY <3>2, <3>3
  <2>2. (MutexInv /\ WaitInv /\ NoLostWakeup /\ FreedWhenUnused)'
    BY DEF TypeOK, MonitorTypeOK, MutexInv, WaitInv, NoLostWakeup,
           FreedWhenUnused, HoldingLabels
  <2>3. (PhaseInv /\ ResultInv /\ JoinInv)'
    BY DEF TypeOK, PhaseInv, ResultInv, JoinInv
  <2>4. (BatchInv /\ LastBatchInv /\ TasksConserved)'
    BY DEF TypeOK, BatchInv, LastBatchInv, TasksConserved, BetweenBatches
  <2> QED
    BY <2>1, <2>2, <2>3, <2>4
<1>5. CASE Take
  <2> USE <1>5 DEF Take
  <2>1. TypeOK'
    BY DEF TypeOK, MonitorTypeOK, Ints
  <2>2. (MutexInv /\ WaitInv /\ NoLostWakeup /\ FreedWhenUnused)'
    BY DEF Asleep, MutexInv, WaitInv, NoLostWakeup, FreedWhenUnused,
           HoldingLabels
  <2>3. (PhaseInv /\ ResultInv /\ JoinInv)'
    BY DEF PhaseInv, ResultInv, JoinInv
  <2>4. (BatchInv /\ LastBatchInv /\ TasksConserved)'
    BY DEF TypeOK, BatchInv, LastBatchInv, TasksConserved, Ints, BetweenBatches
  <2> QED
    BY <2>1, <2>2, <2>3, <2>4
<1>6. CASE LoopLeave
  <2> USE <1>6 DEF LoopLeave, Release
  <2>1. TypeOK'
    BY DEF TypeOK, MonitorTypeOK
  <2>2. (MutexInv /\ WaitInv /\ NoLostWakeup /\ FreedWhenUnused)'
    BY DEF TypeOK, Asleep, MutexInv, WaitInv, NoLostWakeup, FreedWhenUnused,
           HoldingLabels
  <2>3. (PhaseInv /\ ResultInv /\ JoinInv)'
    BY DEF PhaseInv, ResultInv, JoinInv
  <2>4. (BatchInv /\ LastBatchInv /\ TasksConserved)'
    BY DEF BatchInv, LastBatchInv, TasksConserved, BetweenBatches
  <2> QED
    BY <2>1, <2>2, <2>3, <2>4
<1>7. CASE CallTask
  <2> USE <1>7 DEF CallTask
  <2>1. TypeOK'
    BY DEF TypeOK, MonitorTypeOK
  <2>2. (MutexInv /\ WaitInv /\ NoLostWakeup /\ FreedWhenUnused)'
    BY DEF Asleep, MutexInv, WaitInv, NoLostWakeup, FreedWhenUnused,
           HoldingLabels
  <2>3. (PhaseInv /\ ResultInv /\ JoinInv)'
    BY DEF PhaseInv, ResultInv, JoinInv
  <2>4. (BatchInv /\ LastBatchInv /\ TasksConserved)'
    BY DEF TypeOK, BatchInv, LastBatchInv, TasksConserved, Ints, BetweenBatches
  <2> QED
    BY <2>1, <2>2, <2>3, <2>4
<1>8. CASE CallbackPushes
  <2> USE <1>8 DEF CallbackPushes
  <2>1. TypeOK'
    BY DEF TypeOK, MonitorTypeOK
  <2>2. (MutexInv /\ WaitInv /\ NoLostWakeup /\ FreedWhenUnused)'
    BY DEF Asleep, MutexInv, WaitInv, NoLostWakeup, FreedWhenUnused,
           HoldingLabels
  <2>3. (PhaseInv /\ ResultInv /\ JoinInv)'
    BY DEF PhaseInv, ResultInv, JoinInv
  <2>4. (BatchInv /\ LastBatchInv /\ TasksConserved)'
    BY DEF BatchInv, LastBatchInv, TasksConserved, BetweenBatches
  <2> QED
    BY <2>1, <2>2, <2>3, <2>4
<1>9. CASE CallbackReturns
  <2> USE <1>9 DEF CallbackReturns
  <2>1. TypeOK'
    BY DEF TypeOK, MonitorTypeOK, BatchInv, Ints
  <2>2. (MutexInv /\ WaitInv /\ NoLostWakeup /\ FreedWhenUnused)'
    BY DEF Asleep, MutexInv, WaitInv, NoLostWakeup, FreedWhenUnused,
           HoldingLabels
  <2>3. (PhaseInv /\ ResultInv /\ JoinInv)'
    BY DEF TypeOK, PhaseInv, ResultInv, JoinInv
  <2>4. (BatchInv /\ LastBatchInv /\ TasksConserved)'
    BY DEF TypeOK, BatchInv, LastBatchInv, TasksConserved, Ints, BetweenBatches
  <2> QED
    BY <2>1, <2>2, <2>3, <2>4
<1>10. CASE LoopEnd
  <2> USE <1>10 DEF LoopEnd
  <2>1. TypeOK'
    BY DEF TypeOK, MonitorTypeOK
  <2>2. (MutexInv /\ WaitInv /\ NoLostWakeup /\ FreedWhenUnused)'
    BY DEF Asleep, MutexInv, WaitInv, NoLostWakeup, FreedWhenUnused,
           HoldingLabels
  <2>3. (PhaseInv /\ ResultInv /\ JoinInv)'
    BY DEF PhaseInv, ResultInv, JoinInv
  <2>4. (BatchInv /\ LastBatchInv /\ TasksConserved)'
    BY DEF TypeOK, BatchInv, LastBatchInv, TasksConserved, Ints
  <2> QED
    BY <2>1, <2>2, <2>3, <2>4
<1>11. CASE PushStep(Worker)
  BY <1>11, PushKeepsIInv
<1> QED
  BY <1>1, <1>2, <1>3, <1>4, <1>5, <1>6, <1>7, <1>8, <1>9, <1>10, <1>11
     DEF WorkerStep

LEMMA MainKeepsIInv ==
    ASSUME IInv, Create \/ JoinCalled \/ JoinStep
    PROVE  IInv'
<1> USE RepeatingAssumption
    DEF IInv, Threads, Conditions, STATUS_EXIT, Goto, Answer, Fail, Succeed,
        countVars, batchVars, callVars, boundVars,
        PushLabels, WorkerLabels, MainLabels
<1>1. CASE Create
  <2> USE <1>1 DEF Create
  <2>1. TypeOK'
    <3>1. MonitorTypeOK'
      BY DEF TypeOK, MonitorTypeOK
    <3>2. CASE Goto(Main, "ended") /\ Fail("create")
      BY <3>1, <3>2, CallType DEF TypeOK
    <3>3. CASE pc' = [pc EXCEPT ![Main] = "created", ![Worker] = "start"]
      BY <3>1, <3>3 DEF TypeOK
    <3> QED
      BY <3>2, <3>3
  <2>2. (MutexInv /\ WaitInv /\ NoLostWakeup /\ FreedWhenUnused)'
    BY DEF TypeOK, MonitorTypeOK, Asleep, MutexInv, WaitInv, NoLostWakeup,
           FreedWhenUnused, HoldingLabels, PhaseInv
  <2>3. (PhaseInv /\ ResultInv /\ JoinInv)'
    BY DEF TypeOK, PhaseInv, ResultInv, JoinInv
  <2>4. (BatchInv /\ LastBatchInv /\ TasksConserved)'
    BY DEF TypeOK, BatchInv, LastBatchInv, TasksConserved, PhaseInv,
           BetweenBatches
  <2> QED
    BY <2>1, <2>2, <2>3, <2>4
<1>2. CASE JoinCalled
  <2> USE <1>2 DEF JoinCalled
  <2>1. TypeOK'
    BY DEF TypeOK, MonitorTypeOK
  <2>2. (MutexInv /\ WaitInv /\ NoLostWakeup /\ FreedWhenUnused)'
    BY DEF Asleep, MutexInv, WaitInv, NoLostWakeup, FreedWhenUnused,
           HoldingLabels
  <2>3. (PhaseInv /\ ResultInv /\ JoinInv)'
    BY DEF PhaseInv, ResultInv, JoinInv
  <2>4. (BatchInv /\ LastBatchInv /\ TasksConserved)'
    BY DEF BatchInv, LastBatchInv, TasksConserved
  <2> QED
    BY <2>1, <2>2, <2>3, <2>4
<1>3. CASE JoinEnter
  <2> USE <1>3 DEF JoinEnter, Enter, Grab
  <2>1. TypeOK'
    <3>1. MonitorTypeOK'
      BY DEF TypeOK, MonitorTypeOK
    <3> QED
      BY <3>1, CallType DEF TypeOK, LabelsOf
  <2>2. (MutexInv /\ WaitInv /\ NoLostWakeup /\ FreedWhenUnused)'
    BY DEF TypeOK, Asleep, MutexInv, WaitInv, NoLostWakeup, FreedWhenUnused,
           HoldingLabels
  <2>3. (PhaseInv /\ ResultInv /\ JoinInv)'
    BY DEF TypeOK, PhaseInv, ResultInv, JoinInv
  <2>4. (BatchInv /\ LastBatchInv /\ TasksConserved)'
    BY DEF TypeOK, BatchInv, LastBatchInv, TasksConserved
  <2> QED
    BY <2>1, <2>2, <2>3, <2>4
<1>4. CASE JoinCheck
  <2> USE <1>4 DEF JoinCheck, Announce, Signal
  <2>1. TypeOK'
    <3>1. MonitorTypeOK'
      BY DEF TypeOK, MonitorTypeOK
    <3> QED
      BY <3>1, CallType DEF TypeOK
  <2>2. (MutexInv /\ WaitInv /\ NoLostWakeup /\ FreedWhenUnused)'
    BY DEF TypeOK, MonitorTypeOK, Asleep, MutexInv, WaitInv, NoLostWakeup,
           FreedWhenUnused, HoldingLabels
  <2>3. (PhaseInv /\ ResultInv /\ JoinInv)'
    BY DEF TypeOK, PhaseInv, ResultInv, JoinInv
  <2>4. (BatchInv /\ LastBatchInv /\ TasksConserved)'
    BY DEF BatchInv, LastBatchInv, TasksConserved
  <2> QED
    BY <2>1, <2>2, <2>3, <2>4
<1>5. CASE JoinLeave
  <2> USE <1>5 DEF JoinLeave, Release
  <2>1. TypeOK'
    <3>1. MonitorTypeOK'
      BY DEF TypeOK, MonitorTypeOK
    <3> QED
      BY <3>1, CallType DEF TypeOK, LabelsOf
  <2>2. (MutexInv /\ WaitInv /\ NoLostWakeup /\ FreedWhenUnused)'
    BY DEF TypeOK, Asleep, MutexInv, WaitInv, NoLostWakeup, FreedWhenUnused,
           HoldingLabels
  <2>3. (PhaseInv /\ ResultInv /\ JoinInv)'
    BY DEF TypeOK, PhaseInv, ResultInv, JoinInv
  <2>4. (BatchInv /\ LastBatchInv /\ TasksConserved)'
    BY DEF TypeOK, BatchInv, LastBatchInv, TasksConserved
  <2> QED
    BY <2>1, <2>2, <2>3, <2>4
<1>6. CASE JoinThread
  <2> USE <1>6 DEF JoinThread
  <2>1. TypeOK'
    <3>1. MonitorTypeOK'
      BY DEF TypeOK, MonitorTypeOK
    <3> QED
      BY <3>1, CallType DEF TypeOK
  <2>2. (MutexInv /\ WaitInv /\ NoLostWakeup /\ FreedWhenUnused)'
    BY DEF Asleep, MutexInv, WaitInv, NoLostWakeup, FreedWhenUnused,
           HoldingLabels
  <2>3. (PhaseInv /\ ResultInv /\ JoinInv)'
    BY DEF TypeOK, MonitorTypeOK, PhaseInv, ResultInv, JoinInv, MutexInv,
           HoldingLabels
  <2>4. (BatchInv /\ LastBatchInv /\ TasksConserved)'
    BY DEF BatchInv, LastBatchInv, TasksConserved
  <2> QED
    BY <2>1, <2>2, <2>3, <2>4
<1> QED
  BY <1>1, <1>2, <1>3, <1>4, <1>5, <1>6 DEF JoinStep

LEMMA OthersKeepIInv ==
    ASSUME IInv,
           \/ \E p \in Producers : PushCall(p)
           \/ SpuriousWakeup
           \/ UNCHANGED vars
    PROVE  IInv'
<1> USE RepeatingAssumption
    DEF IInv, Threads, Conditions, STATUS_EXIT, Goto, Answer, Fail, Succeed,
        countVars, batchVars, callVars, boundVars,
        PushLabels, WorkerLabels, MainLabels
<1>1. ASSUME NEW p \in Producers, PushCall(p)
      PROVE  IInv'
  <2> USE <1>1 DEF PushCall
  <2>1. TypeOK'
    BY DEF TypeOK, MonitorTypeOK
  <2>2. (MutexInv /\ WaitInv /\ NoLostWakeup /\ FreedWhenUnused)'
    BY DEF Asleep, MutexInv, WaitInv, NoLostWakeup, FreedWhenUnused,
           HoldingLabels
  <2>3. (PhaseInv /\ ResultInv /\ JoinInv)'
    BY DEF PhaseInv, ResultInv, JoinInv
  <2>4. (BatchInv /\ LastBatchInv /\ TasksConserved)'
    BY DEF BatchInv, LastBatchInv, TasksConserved
  <2> QED
    BY <2>1, <2>2, <2>3, <2>4
<1>2. CASE SpuriousWakeup
  <2> USE <1>2 DEF SpuriousWakeup, WakeSpuriously, Asleep
  <2>1. TypeOK'
    BY DEF TypeOK, MonitorTypeOK
  <2>2. (MutexInv /\ WaitInv /\ NoLostWakeup /\ FreedWhenUnused)'
    BY DEF MutexInv, WaitInv, NoLostWakeup, FreedWhenUnused
  <2>3. (PhaseInv /\ ResultInv /\ JoinInv)'
    BY DEF PhaseInv, ResultInv, JoinInv
  <2>4. (BatchInv /\ LastBatchInv /\ TasksConserved)'
    BY DEF BatchInv, LastBatchInv, TasksConserved
  <2> QED
    BY <2>1, <2>2, <2>3, <2>4
<1>3. CASE UNCHANGED vars
  <2> USE <1>3 DEF vars
  <2>1. (TypeOK /\ MutexInv /\ WaitInv)'
    BY DEF TypeOK, MonitorTypeOK, MutexInv, WaitInv
  <2>2. (PhaseInv /\ BatchInv /\ LastBatchInv /\ ResultInv /\ JoinInv)'
    BY DEF PhaseInv, BatchInv, LastBatchInv, ResultInv, JoinInv
  <2>3. (TasksConserved /\ NoLostWakeup /\ FreedWhenUnused)'
    BY DEF TasksConserved, NoLostWakeup, FreedWhenUnused, Asleep
  <2> QED
    BY <2>1, <2>2, <2>3
<1> QED
  BY <1>1, <1>2, <1>3

LEMMA InitIInv == Init => IInv
<1> SUFFICES ASSUME Init PROVE IInv
  OBVIOUS
<1> USE RepeatingAssumption DEF Threads, Conditions, STATUS_EXIT
<1>1. /\ pc \in [Threads -> WorkerLabels \cup PushLabels \cup MainLabels
                               \cup {"idle"}]
      /\ \A t \in Threads : pc[t] \in {"create", "none", "idle"}
      /\ pc[Main] = "create" /\ pc[Worker] = "none"
      /\ \A p \in Producers : pc[p] = "idle"
  BY DEF Init, WorkerLabels, MainLabels
<1>2. /\ answer \in [Threads -> {-1, 1}] /\ answer[Main] = 1
      /\ made \in [Producers -> Nat]
  BY DEF Init
<1>3. MonitorTypeOK /\ owner = NoThread /\ waiting["status_condition"] = {}
  BY DEF Init, MonitorInit, MonitorTypeOK
<1>4. /\ active_tasks = 0 /\ total_tasks = 0
      /\ status = 0 /\ seen_status = 0 /\ callback_function_result = 0
      /\ number_of_tasks = 0 /\ task_index = 0
      /\ nested = 0 /\ spurious = 0 /\ accepted = 0 /\ runs = 0
      /\ alive = TRUE /\ failed = FALSE /\ overflowed = FALSE
      /\ build \in Builds /\ failures = {}
  BY DEF Init
<1>5. TypeOK
  <2>1. 0 \in Ints /\ 0 \in 0 .. IntMax
    BY DEF Ints
  <2>2. pc[Main] \in MainLabels /\ pc[Worker] \in WorkerLabels
    BY <1>1 DEF MainLabels, WorkerLabels
  <2> QED
    BY <1>1, <1>2, <1>3, <1>4, <2>1, <2>2 DEF TypeOK
<1>6. MutexInv /\ WaitInv /\ PhaseInv
  BY <1>1, <1>3, <1>4 DEF MutexInv, WaitInv, PhaseInv, HoldingLabels
<1>7. BatchInv /\ LastBatchInv /\ ResultInv /\ JoinInv
  BY <1>1, <1>2, <1>4
     DEF BatchInv, LastBatchInv, ResultInv, JoinInv, PushLabels
<1>8. TasksConserved /\ NoLostWakeup /\ FreedWhenUnused
  BY <1>1, <1>3, <1>4 DEF TasksConserved, NoLostWakeup, FreedWhenUnused
<1> QED
  BY <1>5, <1>6, <1>7, <1>8 DEF IInv

LEMMA NextIInv == IInv /\ [Next]_vars => IInv'
BY PushKeepsIInv, WorkerKeepsIInv, MainKeepsIInv, OthersKeepIInv
   DEF Next, ProducerStep

\* The inductive invariant holds in every reachable state.
THEOREM Invariant == Spec => []IInv
BY InitIInv, NextIInv, PTL DEF Spec

-----------------------------------------------------------------------------
(* What it gives.                                                          *)

\* Types, and: the worker never counts its tasks past what an int can hold.
THEOREM TypeCorrect == Spec => []TypeOK
<1>1. IInv => TypeOK
  BY DEF IInv
<1> QED
  BY <1>1, Invariant, PTL

\* No push is lost and none is run twice, whoever pushes, until active_tasks
\* passes the greatest int.
THEOREM TasksAreConserved == Spec => []TasksConserved
<1>1. IInv => TasksConserved
  BY DEF IInv
<1> QED
  BY <1>1, Invariant, PTL

\* While no signal fails the worker does not sleep on a task or a join.
THEOREM NoWakeupIsLost == Spec => []NoLostWakeup
<1>1. IInv => NoLostWakeup
  BY DEF IInv
<1> QED
  BY <1>1, Invariant, PTL

\* What join answers is true of the tasks, the callbacks and the calls.
THEOREM JoinIsTruthful == Spec => []JoinTellsTheTruth
<1>1. IInv => JoinTellsTheTruth
  <2> SUFFICES ASSUME IInv, pc[Main] = "ended" PROVE JoinTellsTheTruth
    BY DEF JoinTellsTheTruth
  <2>1. answer[Main] = 1 => overflowed \/ runs = accepted
    BY DEF IInv, TypeOK, Ints, JoinInv, BatchInv, LastBatchInv, TasksConserved
  <2>2. answer[Main] = 1 /\ build = "pthread" => ~ failed
    BY DEF IInv, JoinInv, ResultInv
  <2>3. answer[Main] = -1 => failed \/ failures # {}
    BY DEF IInv, JoinInv
  <2> QED
    BY <2>1, <2>2, <2>3 DEF JoinTellsTheTruth
<1> QED
  BY <1>1, Invariant, PTL

\* The object is freed under nobody, unless waiting for the thread failed.
THEOREM FreedUnderNobody == Spec => []FreedWhenUnused
<1>1. IInv => FreedWhenUnused
  BY DEF IInv
<1> QED
  BY <1>1, Invariant, PTL
=============================================================================
