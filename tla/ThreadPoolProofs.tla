-------------------------- MODULE ThreadPoolProofs --------------------------
(***************************************************************************)
(* The thread pool, proved for every capacity, number of worker threads,   *)
(* set of producers and values, for everything the callbacks push, for     *)
(* every set of calls that may fail and for the three builds.              *)
(***************************************************************************)
EXTENDS ThreadPool, RingBufferProofs, FiniteSetTheorems

\* Where a thread holds condition_mutex.
HoldingLabels == {"push_check", "push_leave", "pop_check", "pop_leave",
                  "join_begin", "join_check", "join_leave"}

\* A call has failed that makes create, join or a pop fail.
JoinFailed == FailuresOfJoin # {}

\* Where the join has been announced and is under way.
JoiningLabels == {"join_check", "join_wait", "join_leave", "join_threads"}

\* The values in the queue, and those that the workers have popped.
Queued == QueuedValues(values_array, pop_index, number_of_values)
Held == {value[w] : w \in Workers} \ {NoValue}

\* The queue is a part of the circular array.
RingInv == RingOK(values_array, pop_index, push_index, number_of_values)

\* Whoever is between a grab and a release owns the mutex, and until a release
\* fails nobody else does.
MutexInv ==
    /\ \A t \in Threads : pc[t] \in HoldingLabels => owner = t
    /\ "release" \notin failures /\ owner # NoThread =>
          pc[owner] \in HoldingLabels

\* Who is blocked on a condition is in the wait for it.
WaitInv ==
    /\ \A t \in waiting["empty_condition"] : t \in Workers /\ pc[t] = "pop_wait"
    /\ \A t \in waiting["full_condition"] :
          pc[t] = IF t = Main THEN "join_wait" ELSE "push_wait"

\* Producers push between the create and the join.
ProducerInv ==
    \A p \in Producers :
        pc[p] # "idle" => /\ pc[Main] = "created"
                          /\ made[p] \in 1 .. Len(Script[p])

\* What a worker holds follows from where it is; it is in a push only for a
\* value whose callback pushes.
WorkerInv ==
    \A w \in Workers :
        /\ pc[w] \in {"none", "start", "pop_enter", "pop_check", "pop_wait",
                      "exited"} => value[w] = NoValue
        /\ pc[w] = "callback" => value[w] \in Values
        /\ pc[w] \in PushLabels => value[w] \in Values /\ Spawn[value[w]] # <<>>
        /\ pc[w] \in {"pop_leave", "pop_return"} =>
              /\ answer[w] = 1 => value[w] \in Values
              /\ answer[w] = 0 => value[w] = NoValue
              /\ answer[w] = -1 => JoinFailed

\* Work items have no threads of their own, and nothing else has work items.
BuildInv ==
    IF build = "work_items"
    THEN \A w \in Workers : pc[w] \notin {"start", "exited"}
    ELSE work_items = 0 /\ \A t \in Threads : pc[t] # "push_submit"

\* Create has begun the threads up to thread_index, and on_error has joined
\* those after it that it could.
CreateInv ==
    /\ pc[Main] = "create" =>
          /\ work_items = 0
          /\ \A w \in Workers : w > thread_index => pc[w] = "none"
    /\ pc[Main] = "create_error" =>
          /\ work_items = 0 /\ JoinFailed
          /\ \A w \in Workers \ unjoined :
                w > thread_index => pc[w] \in {"none", "exited"}
    /\ pc[Main] \in {"create", "create_error"} /\ build = "work_items" =>
          \A w \in Workers : pc[w] = "none"

\* How far the join has got, and what it has learnt on the way.
JoinInv ==
    /\ status = STATUS_EXIT => pc[Main] \in JoiningLabels \cup {"ended"}
    /\ pc[Main] \in JoiningLabels => status = STATUS_EXIT
    /\ pc[Main] = "join_threads" /\ build # "work_items" =>
          \A w \in Workers \ unjoined : w <= thread_index =>
              pc[w] = "exited" /\ (thread_result[w] = -1 => answer[Main] = -1)
    /\ answer[Main] # 0
    /\ answer[Main] = -1 =>
          (build = "pthread" /\ failed) \/ JoinFailed

\* When waiting for a worker has failed create or join returns -1.
UnjoinedInv ==
    unjoined # {} =>
        /\ "join" \in failures /\ build # "work_items"
        /\ pc[Main] \in {"create_error", "join_threads", "ended"}
        /\ pc[Main] # "create_error" => answer[Main] = -1

\* The pool is freed at the end of a join, and a join that learnt of no error
\* has freed it.
EndedInv ==
    /\ ~ alive => pc[Main] = "ended"
    /\ pc[Main] = "ended" /\ answer[Main] # -1 =>
          ~ alive /\ \A w \in Workers : thread_result[w] # -1

\* Only a pthread has the int for its result, and -1 in it has a reason.
ResultInv ==
    \A w \in Workers :
        /\ pc[w] \in {"none", "start"} => thread_result[w] = NoValue
        /\ IF build = "pthread"
           THEN thread_result[w] = NoValue =>
                    pc[w] \in {"none", "start", "exited"}
           ELSE thread_result[w] = NoValue
        /\ thread_result[w] = -1 => failed \/ JoinFailed

\* A pthread whose callback or pop has failed will tell the join.
ReportInv ==
    build = "pthread" /\ (failed \/ dropped # {}) =>
        \E w \in Workers : thread_result[w] = -1

\* Every value that was queued is in the queue, with a worker, or done with.
ValuesInv == accepted = Queued \cup Held \cup completed \cup dropped

\* Worker w will look into the queue once more before it exits, or it will
\* have reported a failure to join.
LooksAgain(w) ==
    \/ pc[w] \in PushLabels \cup {"callback", "pop_enter", "pop_check"}
    \/ pc[w] \in {"pop_leave", "pop_return"} /\ answer[w] = 1
    \/ /\ build = "pthread"
       /\ \/ thread_result[w] = -1
          \/ pc[w] \in {"pop_leave", "pop_return"} /\ answer[w] = -1

\* Once the join has seen the queue empty only callbacks can have filled it
\* again, and the worker whose callback did will look into it again.
EndInv ==
    /\ pc[Main] \in {"join_leave", "join_threads", "ended"}
    /\ answer[Main] # -1 /\ number_of_values # 0
    => /\ \E v \in Values : Spawn[v] # <<>>
       /\ build # "work_items" /\ ~ StopsUnnoticed =>
              \E w \in Workers : LooksAgain(w)

\* Who will submit a work item: not a push that has failed.
SureSubmitters ==
    {t \in Threads : \/ pc[t] = "push_submit"
                     \/ pc[t] = "push_leave" /\ answer[t] # -1}

\* Every value in the queue has a work item, a worker about to pop, or a push
\* that is still to submit one.
WorkInv ==
    build = "work_items" /\ "submit" \notin failures =>
        number_of_values <=
            work_items + Cardinality(Poppers) + Cardinality(SureSubmitters)

\* The inductive invariant.
IInv == /\ TypeOK /\ RingInv /\ MutexInv /\ WaitInv /\ ProducerInv /\ WorkerInv
        /\ BuildInv /\ CreateInv /\ JoinInv /\ EndedInv /\ ResultInv
        /\ ReportInv /\ UnjoinedInv
        /\ NoLostWakeup /\ FreedWhenUnused

-----------------------------------------------------------------------------
(* Types.                                                                  *)

\* The labels of the code that t runs.
LabelsOf(t) ==
    IF t = Main THEN MainLabels
    ELSE IF t \in Producers THEN PushLabels \cup {"idle"}
    ELSE PushLabels \cup WorkerLabels

PcTypeOK ==
    /\ pc \in [Threads -> PushLabels \cup WorkerLabels \cup MainLabels
                            \cup {"idle"}]
    /\ pc[Main] \in MainLabels
    /\ \A p \in Producers : pc[p] \in PushLabels \cup {"idle"}
    /\ \A w \in Workers : pc[w] \in PushLabels \cup WorkerLabels

\* A step of t within its code, which may set the result of its function.
LEMMA StepType ==
    ASSUME TypeOK, NEW t \in Threads, \E label \in LabelsOf(t) : Goto(t, label),
           UNCHANGED answer \/ \E r \in {-1, 0, 1} : Answer(t, r)
    PROVE  PcTypeOK' /\ answer' \in [Threads -> {-1, 0, 1}]
<1>1. PcTypeOK'
  BY PoolAssumption DEF TypeOK, PcTypeOK, LabelsOf, Goto
<1>2. answer' \in [Threads -> {-1, 0, 1}]
  BY DEF TypeOK, Answer
<1> QED
  BY <1>1, <1>2

\* A thread blocks on a condition, or all that are blocked on it wake up.
LEMMA MonitorType ==
    ASSUME MonitorTypeOK, NEW t \in Threads, NEW condition \in Conditions,
           \/ UNCHANGED owner /\ (Broadcast(condition) \/ UNCHANGED waiting)
           \/ Wait(t, condition)
    PROVE  MonitorTypeOK'
<1>1. owner' \in Threads \cup {NoThread}
  BY DEF MonitorTypeOK, Wait, Release
<1>2. waiting' \in [Conditions -> SUBSET Threads]
  <2>1. CASE UNCHANGED waiting
    BY <2>1 DEF MonitorTypeOK
  <2>2. CASE Broadcast(condition)
    BY <2>2 DEF MonitorTypeOK, Broadcast
  <2>3. CASE Wait(t, condition)
    BY <2>3 DEF MonitorTypeOK, Wait
  <2> QED
    BY <2>1, <2>2, <2>3
<1> QED
  BY <1>1, <1>2 DEF MonitorTypeOK

\* What a push pushes is a value.
LEMMA ArgumentType ==
    ASSUME IInv, NEW t \in Producers \cup Workers, pc[t] \in PushLabels
    PROVE  Argument(t)[1] \in Pushes /\ Argument(t)[2] \in Values
<1>1. Argument(t) \in Pushes \X Values
  BY PoolAssumption
     DEF IInv, ProducerInv, WorkerInv, Argument, PushLabels
<1> QED
  BY <1>1

-----------------------------------------------------------------------------
(* Every action keeps the invariant.                                       *)

\* A failure that join learns of is not forgotten.
LEMMA FailuresKept ==
    ASSUME FailuresTypeOK, unjoined' \subseteq Workers, NEW call,
           \/ failures' = failures
           \/ call \in Faults /\ failures' = failures \cup {call}
    PROVE  /\ FailuresTypeOK'
           /\ JoinFailed => JoinFailed'
           /\ call \in failures' /\ call \notin {"compare", "submit", "memory"}
                  => JoinFailed'
BY DEF FailuresTypeOK, JoinFailed, FailuresOfJoin

LEMMA NoCallFails ==
    ASSUME FailuresTypeOK, UNCHANGED failures, unjoined' \subseteq Workers
    PROVE  FailuresTypeOK' /\ JoinFailed' = JoinFailed
BY DEF FailuresTypeOK, JoinFailed, FailuresOfJoin

USE PoolAssumption
    DEF IInv, TypeOK, Threads, Conditions, STATUS_EXIT, Goto, Answer, CanFail,
        Fail, Succeed, ringVars, workVars, mainVars, systemVars, MonitorTypeOK,
        PushLabels, WorkerLabels, MainLabels

LEMMA CreateThreadKeeps ==
    ASSUME IInv, CreateThread
    PROVE  IInv'
<1> USE DEF CreateThread
<1>a. /\ pc[Main] = "create" /\ thread_index + 1 \in Workers
      /\ thread_index + 1 # Main /\ pc[thread_index + 1] = "none"
  BY DEF CreateInv, Workers
<1>b. \/ /\ build # "work_items" /\ thread_index' = thread_index + 1
         /\ pc' = [pc EXCEPT ![thread_index + 1] = "start"]
         /\ failures' = failures
      \/ /\ "create" \in Faults /\ thread_index' = thread_index
         /\ pc' = [pc EXCEPT ![Main] = "create_error"]
         /\ failures' = failures \cup {"create"}
  BY <1>a DEF Created
<1>c. UNCHANGED <<owner, waiting, ringVars, answer, made, workVars, status,
                  alive, unjoined, systemVars, accepted>>
  OBVIOUS
<1> HIDE DEF CreateThread
<1> USE <1>a, <1>b, <1>c
<1>f. /\ FailuresTypeOK'
      /\ JoinFailed => JoinFailed'
      /\ "create" \in failures' => JoinFailed'
  <2>1. /\ FailuresTypeOK /\ unjoined' \subseteq Workers
        /\ \/ failures' = failures
           \/ "create" \in Faults /\ failures' = failures \cup {"create"}
    BY DEF FailuresTypeOK
  <2> QED
    BY ONLY <2>1, FailuresKept
<1> USE <1>f
<1>0. RingInv'
  BY DEF RingInv
<1>1. TypeOK'
  <2>1. thread_index' \in 0 .. NumberOfThreads
    BY DEF Workers
  <2>2. PcTypeOK'
    <3>1. CASE pc' = [pc EXCEPT ![thread_index + 1] = "start"]
      BY <3>1 DEF PcTypeOK
    <3>2. CASE pc' = [pc EXCEPT ![Main] = "create_error"]
      BY <3>2 DEF PcTypeOK
    <3> QED
      BY <3>1, <3>2
  <2> QED
    BY <2>1, <2>2 DEF PcTypeOK
<1>2. MutexInv' /\ WaitInv' /\ ProducerInv' /\ BuildInv'
  BY DEF MutexInv, HoldingLabels, WaitInv, ProducerInv, BuildInv
<1>3. CreateInv'
  <2>1. CASE build # "work_items" /\ thread_index' = thread_index + 1
             /\ pc' = [pc EXCEPT ![thread_index + 1] = "start"]
    BY <2>1 DEF CreateInv, Workers
  <2>2. CASE /\ "create" \in Faults /\ thread_index' = thread_index
             /\ pc' = [pc EXCEPT ![Main] = "create_error"]
             /\ failures' = failures \cup {"create"}
    BY <2>2 DEF CreateInv
  <2> QED
    BY <2>1, <2>2
<1>4. WorkerInv' /\ ResultInv' /\ ReportInv'
  BY DEF WorkerInv, ResultInv, ReportInv
<1>5. JoinInv' /\ EndedInv' /\ UnjoinedInv'
  BY DEF JoinInv, JoiningLabels, EndedInv, UnjoinedInv
<1>6. NoLostWakeup' /\ FreedWhenUnused'
  BY DEF NoLostWakeup, IsFull, IsEmpty, FreedWhenUnused, EndedInv
<1> QED
  BY <1>0, <1>1, <1>2, <1>3, <1>4, <1>5, <1>6

LEMMA CreateDoneKeeps ==
    ASSUME IInv, CreateDone
    PROVE  IInv'
<1> USE DEF CreateDone
<1>f. FailuresTypeOK' /\ failures' = failures /\ JoinFailed' = JoinFailed
  BY NoCallFails DEF FailuresTypeOK
<1> USE <1>f
<1>0. RingInv'
  BY DEF RingInv
<1>1. TypeOK'
  <2>1. PcTypeOK' /\ answer' \in [Threads -> {-1, 0, 1}]
    BY StepType DEF LabelsOf
  <2>2. MonitorTypeOK'
    OBVIOUS
  <2> QED
    BY <2>1, <2>2
<1>2. MutexInv' /\ WaitInv' /\ ProducerInv' /\ BuildInv' /\ CreateInv'
  BY DEF MutexInv, HoldingLabels, WaitInv, ProducerInv, BuildInv, CreateInv
<1>3. WorkerInv' /\ ResultInv' /\ ReportInv'
  BY DEF WorkerInv, ResultInv, ReportInv
<1>4. JoinInv' /\ EndedInv' /\ UnjoinedInv'
  BY DEF JoinInv, JoiningLabels, EndedInv, UnjoinedInv
<1>5. NoLostWakeup' /\ FreedWhenUnused'
  BY DEF NoLostWakeup, IsFull, IsEmpty, FreedWhenUnused, Asleep
<1> QED
  BY <1>0, <1>1, <1>2, <1>3, <1>4, <1>5

LEMMA CreateErrorKeeps ==
    ASSUME IInv, CreateError
    PROVE  IInv'
<1> USE DEF CreateError
<1>a. pc[Main] = "create_error" /\ thread_index \in 0 .. NumberOfThreads
  OBVIOUS
<1>b. \/ /\ thread_index \in Workers
         /\ \/ /\ pc[thread_index] = "exited"
               /\ UNCHANGED <<unjoined, failures>>
            \/ /\ unjoined' = unjoined \cup {thread_index}
               /\ failures' = failures \cup {"join"}
               /\ "join" \in Faults /\ build # "work_items"
         /\ thread_index' = thread_index - 1
         /\ UNCHANGED <<pc, answer, alive>>
      \/ /\ \A w \in Workers : w > thread_index
         /\ alive' = FALSE /\ thread_index' = thread_index
         /\ UNCHANGED <<unjoined, failures>>
         /\ Goto(Main, "ended") /\ Answer(Main, -1)
  BY DEF Workers
<1>c. UNCHANGED <<owner, waiting, ringVars, made, workVars, status, systemVars,
                  accepted>>
  OBVIOUS
<1>d. \A w \in Workers \ unjoined' :
          w > thread_index' => pc[w] \in {"none", "exited"}
  BY <1>a, <1>b DEF CreateInv, Workers
<1> HIDE DEF CreateError
<1> USE <1>a, <1>b, <1>c
<1>f. /\ FailuresTypeOK'
      /\ JoinFailed => JoinFailed'
      /\ "join" \in failures' => JoinFailed'
  <2>1. /\ FailuresTypeOK /\ unjoined' \subseteq Workers
        /\ \/ failures' = failures
           \/ "join" \in Faults /\ failures' = failures \cup {"join"}
    BY DEF FailuresTypeOK
  <2> QED
    BY ONLY <2>1, FailuresKept
<1> USE <1>f
<1>0. RingInv'
  BY DEF RingInv
<1>1. TypeOK'
  <2>1. CASE UNCHANGED <<pc, answer, alive>>
    BY <2>1 DEF Workers
  <2>2. CASE Goto(Main, "ended") /\ Answer(Main, -1) /\ alive' = FALSE
    <3>1. PcTypeOK' /\ answer' \in [Threads -> {-1, 0, 1}]
      BY <2>2, StepType DEF LabelsOf
    <3> QED
      BY <2>2, <3>1
  <2> QED
    BY <2>1, <2>2
<1>2. MutexInv' /\ WaitInv' /\ ProducerInv' /\ BuildInv'
  BY DEF MutexInv, HoldingLabels, WaitInv, ProducerInv, BuildInv
<1>3. CreateInv'
  <2>1. CASE UNCHANGED <<pc, answer, alive>>
    BY <1>d, <2>1 DEF CreateInv
  <2>2. CASE Goto(Main, "ended")
    BY <2>2 DEF CreateInv
  <2> QED
    BY <2>1, <2>2
<1>4. WorkerInv' /\ ResultInv' /\ ReportInv'
  BY DEF WorkerInv, ResultInv, ReportInv
<1>5. EndedInv' /\ UnjoinedInv'
  BY DEF EndedInv, UnjoinedInv
<1>6. JoinInv'
  BY <1>d DEF JoinInv, JoiningLabels, CreateInv
<1>7. NoLostWakeup' /\ FreedWhenUnused'
  BY DEF WaitInv, NoLostWakeup, IsFull, IsEmpty, FreedWhenUnused, CreateInv,
         ProducerInv, Asleep
<1> QED
  BY <1>0, <1>1, <1>2, <1>3, <1>4, <1>5, <1>6, <1>7

LEMMA JoinCalledKeeps ==
    ASSUME IInv, JoinCalled
    PROVE  IInv'
<1> USE DEF JoinCalled, ProducersDone
<1>f. FailuresTypeOK' /\ failures' = failures /\ JoinFailed' = JoinFailed
  BY NoCallFails DEF FailuresTypeOK
<1> USE <1>f
<1>0. RingInv'
  BY DEF RingInv
<1>1. TypeOK'
  <2>1. PcTypeOK' /\ answer' \in [Threads -> {-1, 0, 1}]
    BY StepType DEF LabelsOf
  <2>2. MonitorTypeOK'
    OBVIOUS
  <2> QED
    BY <2>1, <2>2
<1>2. MutexInv' /\ WaitInv' /\ ProducerInv' /\ BuildInv' /\ CreateInv'
  BY DEF MutexInv, HoldingLabels, WaitInv, ProducerInv, BuildInv, CreateInv
<1>3. WorkerInv' /\ ResultInv' /\ ReportInv'
  BY DEF WorkerInv, ResultInv, ReportInv
<1>4. JoinInv' /\ EndedInv' /\ UnjoinedInv'
  BY DEF JoinInv, JoiningLabels, EndedInv, UnjoinedInv
<1>5. NoLostWakeup' /\ FreedWhenUnused'
  BY DEF NoLostWakeup, IsFull, IsEmpty, FreedWhenUnused, Asleep
<1> QED
  BY <1>0, <1>1, <1>2, <1>3, <1>4, <1>5

LEMMA JoinEnterKeeps ==
    ASSUME IInv, JoinEnter
    PROVE  IInv'
<1> USE DEF JoinEnter, EnterFrom, Grab
<1>f. /\ FailuresTypeOK'
      /\ JoinFailed => JoinFailed'
      /\ "grab" \in failures' => JoinFailed'
  <2>1. /\ FailuresTypeOK /\ unjoined' \subseteq Workers
        /\ \/ failures' = failures
           \/ "grab" \in Faults /\ failures' = failures \cup {"grab"}
    BY DEF FailuresTypeOK
  <2> QED
    BY ONLY <2>1, FailuresKept
<1> USE <1>f
<1>0. RingInv'
  BY DEF RingInv
<1>1. TypeOK'
  <2>1. PcTypeOK' /\ answer' \in [Threads -> {-1, 0, 1}]
    BY StepType DEF LabelsOf
  <2>2. MonitorTypeOK'
    OBVIOUS
  <2> QED
    BY <2>1, <2>2 DEF PcTypeOK
<1>2. MutexInv' /\ WaitInv' /\ ProducerInv' /\ BuildInv' /\ CreateInv'
  BY DEF MutexInv, HoldingLabels, WaitInv, ProducerInv, BuildInv, CreateInv
<1>3. WorkerInv' /\ ResultInv' /\ ReportInv'
  BY DEF WorkerInv, ResultInv, ReportInv
<1>4. JoinInv' /\ EndedInv' /\ UnjoinedInv'
  BY DEF JoinInv, JoiningLabels, EndedInv, UnjoinedInv
<1>5. NoLostWakeup' /\ FreedWhenUnused'
  BY DEF NoLostWakeup, IsFull, IsEmpty, FreedWhenUnused, Asleep
<1> QED
  BY <1>0, <1>1, <1>2, <1>3, <1>4, <1>5

LEMMA JoinBeginKeeps ==
    ASSUME IInv, JoinBegin
    PROVE  IInv'
<1> USE DEF JoinBegin, Announce
<1>f. /\ FailuresTypeOK'
      /\ JoinFailed => JoinFailed'
      /\ "broadcast" \in failures' => JoinFailed'
  <2>1. /\ FailuresTypeOK /\ unjoined' \subseteq Workers
        /\ \/ failures' = failures
           \/ "broadcast" \in Faults /\ failures' = failures \cup {"broadcast"}
    BY DEF FailuresTypeOK
  <2> QED
    BY ONLY <2>1, FailuresKept
<1> USE <1>f
<1>0. RingInv'
  BY DEF RingInv
<1>1. TypeOK'
  <2>1. PcTypeOK' /\ answer' \in [Threads -> {-1, 0, 1}]
    BY StepType DEF LabelsOf
  <2>2. MonitorTypeOK'
    BY MonitorType
  <2> QED
    BY <2>1, <2>2
<1>2. MutexInv' /\ WaitInv' /\ ProducerInv' /\ BuildInv' /\ CreateInv'
  <2>1. MutexInv'
    BY DEF MutexInv, HoldingLabels
  <2>2. WaitInv'
    BY DEF Broadcast, WaitInv
  <2>3. ProducerInv' /\ BuildInv' /\ CreateInv'
    BY DEF ProducerInv, BuildInv, CreateInv
  <2> QED
    BY <2>1, <2>2, <2>3
<1>3. WorkerInv' /\ ResultInv' /\ ReportInv'
  BY DEF WorkerInv, ResultInv, ReportInv
<1>4. JoinInv' /\ EndedInv' /\ UnjoinedInv'
  BY DEF JoinInv, JoiningLabels, EndedInv, UnjoinedInv
<1>5. NoLostWakeup' /\ FreedWhenUnused'
  <2>1. FreedWhenUnused'
    BY DEF FreedWhenUnused, EndedInv
  <2>2. CASE Broadcast("empty_condition") /\ failures' = failures
    BY <2>1, <2>2 DEF NoLostWakeup, IsFull, IsEmpty, Broadcast
  <2>3. CASE "broadcast" \in failures'
    BY <2>1, <2>3 DEF NoLostWakeup
  <2> QED
    BY <2>2, <2>3
<1> QED
  BY <1>0, <1>1, <1>2, <1>3, <1>4, <1>5

LEMMA JoinSeesNothing ==
    ASSUME IInv, pc[Main] = "join_check", number_of_values = 0,
           Goto(Main, "join_leave"),
           UNCHANGED <<owner, waiting, ringVars, answer, made, workVars,
                       mainVars, systemVars, accepted, failures>>
    PROVE  IInv'
<1>f. FailuresTypeOK' /\ failures' = failures /\ JoinFailed' = JoinFailed
  BY NoCallFails DEF FailuresTypeOK
<1> USE <1>f
<1>0. RingInv'
  BY DEF RingInv
<1>1. TypeOK'
  <2>1. PcTypeOK' /\ answer' \in [Threads -> {-1, 0, 1}]
    BY StepType DEF LabelsOf
  <2>2. MonitorTypeOK'
    OBVIOUS
  <2> QED
    BY <2>1, <2>2
<1>2. MutexInv' /\ WaitInv' /\ ProducerInv' /\ BuildInv' /\ CreateInv'
  BY DEF MutexInv, HoldingLabels, WaitInv, ProducerInv, BuildInv, CreateInv
<1>3. WorkerInv' /\ ResultInv' /\ ReportInv'
  BY DEF WorkerInv, ResultInv, ReportInv
<1>4. JoinInv' /\ EndedInv' /\ UnjoinedInv'
  BY DEF JoinInv, JoiningLabels, EndedInv, UnjoinedInv
<1>5. NoLostWakeup' /\ FreedWhenUnused'
  BY DEF NoLostWakeup, IsFull, IsEmpty, FreedWhenUnused, Asleep
<1> QED
  BY <1>0, <1>1, <1>2, <1>3, <1>4, <1>5

LEMMA JoinWakeKeeps ==
    ASSUME IInv, JoinWake
    PROVE  IInv'
<1> USE DEF JoinWake, WakeTo, Grab, Asleep
<1>f. FailuresTypeOK' /\ failures' = failures /\ JoinFailed' = JoinFailed
  BY NoCallFails DEF FailuresTypeOK
<1> USE <1>f
<1>0. RingInv'
  BY DEF RingInv
<1>1. TypeOK'
  <2>1. PcTypeOK' /\ answer' \in [Threads -> {-1, 0, 1}]
    BY StepType DEF LabelsOf
  <2>2. MonitorTypeOK'
    OBVIOUS
  <2> QED
    BY <2>1, <2>2
<1>2. MutexInv' /\ WaitInv' /\ ProducerInv' /\ BuildInv' /\ CreateInv'
  BY DEF MutexInv, HoldingLabels, WaitInv, ProducerInv, BuildInv, CreateInv
<1>3. WorkerInv' /\ ResultInv' /\ ReportInv'
  BY DEF WorkerInv, ResultInv, ReportInv
<1>4. JoinInv' /\ EndedInv' /\ UnjoinedInv'
  BY DEF JoinInv, JoiningLabels, EndedInv, UnjoinedInv
<1>5. NoLostWakeup' /\ FreedWhenUnused'
  BY DEF NoLostWakeup, IsFull, JoinInv, JoiningLabels, FreedWhenUnused
<1> QED
  BY <1>0, <1>1, <1>2, <1>3, <1>4, <1>5

LEMMA JoinReleaseKeeps ==
    ASSUME IInv, JoinRelease
    PROVE  IInv'
<1> USE DEF JoinRelease, Release
<1>f. /\ FailuresTypeOK'
      /\ JoinFailed => JoinFailed'
      /\ "release" \in failures' => JoinFailed'
  <2>1. /\ FailuresTypeOK /\ unjoined' \subseteq Workers
        /\ \/ failures' = failures
           \/ "release" \in Faults /\ failures' = failures \cup {"release"}
    BY DEF FailuresTypeOK
  <2> QED
    BY ONLY <2>1, FailuresKept
<1> USE <1>f
<1>0. RingInv'
  BY DEF RingInv
<1>1. TypeOK'
  <2>1. PcTypeOK' /\ answer' \in [Threads -> {-1, 0, 1}]
    BY StepType DEF LabelsOf
  <2>2. MonitorTypeOK'
    OBVIOUS
  <2> QED
    BY <2>1, <2>2 DEF PcTypeOK
<1>2. MutexInv' /\ WaitInv' /\ ProducerInv' /\ BuildInv' /\ CreateInv'
  BY DEF MutexInv, HoldingLabels, WaitInv, ProducerInv, BuildInv, CreateInv
<1>3. WorkerInv'
  BY DEF WorkerInv
<1>4. ResultInv'
  BY DEF ResultInv
<1>5. ReportInv'
  BY DEF ReportInv
<1>6. JoinInv' /\ EndedInv' /\ UnjoinedInv'
  BY DEF JoinInv, JoiningLabels, Workers, EndedInv, UnjoinedInv
<1>7. NoLostWakeup' /\ FreedWhenUnused'
  BY DEF NoLostWakeup, IsFull, IsEmpty, FreedWhenUnused, Asleep
<1> QED
  BY <1>0, <1>1, <1>2, <1>3, <1>4, <1>5, <1>6, <1>7

LEMMA JoinThreadKeeps ==
    ASSUME IInv, JoinThread
    PROVE  IInv'
<1>a. /\ pc[Main] = "join_threads" /\ build # "work_items"
      /\ thread_index \in 0 .. NumberOfThreads
      /\ thread_index + 1 \in Workers /\ thread_index' = thread_index + 1
  BY DEF JoinThread, Workers
<1>b. \/ /\ pc[thread_index + 1] = "exited"
         /\ answer' = IF thread_result[thread_index + 1] = -1
                      THEN [answer EXCEPT ![Main] = -1] ELSE answer
         /\ unjoined' = unjoined /\ failures' = failures
      \/ /\ answer' = [answer EXCEPT ![Main] = -1]
         /\ unjoined' = unjoined \cup {thread_index + 1}
         /\ "join" \in Faults /\ failures' = failures \cup {"join"}
  BY DEF JoinThread
<1>c. UNCHANGED <<owner, waiting, ringVars, pc, made, workVars, status, alive,
                  systemVars, accepted>>
  BY DEF JoinThread
<1> USE <1>a, <1>b, <1>c
<1>f. /\ FailuresTypeOK'
      /\ JoinFailed => JoinFailed'
      /\ "join" \in failures' => JoinFailed'
  <2>1. /\ FailuresTypeOK /\ unjoined' \subseteq Workers
        /\ \/ failures' = failures
           \/ "join" \in Faults /\ failures' = failures \cup {"join"}
    BY DEF FailuresTypeOK
  <2> QED
    BY ONLY <2>1, FailuresKept
<1> USE <1>f
<1>0. RingInv'
  BY DEF RingInv
<1>1. TypeOK'
  <2>1. answer' \in [Threads -> {-1, 0, 1}]
    OBVIOUS
  <2>2. thread_index' \in 0 .. NumberOfThreads
    BY DEF Workers
  <2> QED
    BY <2>1, <2>2
<1>2. MutexInv' /\ WaitInv' /\ ProducerInv' /\ BuildInv' /\ CreateInv'
  BY DEF MutexInv, WaitInv, ProducerInv, BuildInv, CreateInv
<1>3. WorkerInv' /\ ResultInv' /\ ReportInv'
  BY DEF WorkerInv, ResultInv, ReportInv
<1>4. EndedInv' /\ UnjoinedInv'
  BY DEF EndedInv, UnjoinedInv
<1>5. JoinInv'
  <2>1. \A w \in Workers : w <= thread_index' =>
                              w <= thread_index \/ w = thread_index + 1
    BY DEF Workers
  <2>2. CASE unjoined' = unjoined /\ pc[thread_index + 1] = "exited"
    BY <2>1, <2>2 DEF JoinInv, ResultInv
  <2>3. CASE /\ unjoined' = unjoined \cup {thread_index + 1}
             /\ answer'[Main] = -1 /\ JoinFailed'
    BY <2>1, <2>3 DEF JoinInv
  <2> QED
    BY <2>2, <2>3
<1>6. NoLostWakeup' /\ FreedWhenUnused'
  BY DEF NoLostWakeup, IsFull, IsEmpty, FreedWhenUnused, Asleep
<1> QED
  BY <1>0, <1>1, <1>2, <1>3, <1>4, <1>5, <1>6

LEMMA JoinDoneKeeps ==
    ASSUME IInv, JoinDone
    PROVE  IInv'
<1> USE DEF JoinDone, Closed
<1>a. \A w \in Workers \ unjoined :
          pc[w] = IF build = "work_items" THEN "none" ELSE "exited"
  BY DEF JoinInv, Workers
<1>b. work_items = 0
  BY DEF BuildInv
<1>c. owner # NoThread => JoinFailed
  <2>1. "release" \in failures \/ "join" \in failures => JoinFailed
    BY ONLY DEF JoinFailed, FailuresOfJoin
  <2>2. unjoined # {} => JoinFailed
    BY <2>1 DEF UnjoinedInv
  <2>3. ASSUME unjoined = {}, NEW t \in Threads
        PROVE  pc[t] \notin HoldingLabels
    BY <1>a, <2>3 DEF HoldingLabels, ProducerInv
  <2> QED
    BY <2>1, <2>2, <2>3 DEF MutexInv
<1>f. /\ FailuresTypeOK'
      /\ JoinFailed => JoinFailed'
      /\ "free" \in failures' => JoinFailed'
  <2>1. /\ FailuresTypeOK /\ unjoined' \subseteq Workers
        /\ \/ failures' = failures
           \/ "free" \in Faults /\ failures' = failures \cup {"free"}
    BY DEF FailuresTypeOK
  <2> QED
    BY ONLY <2>1, FailuresKept
<1> USE <1>f
<1>0. RingInv'
  BY DEF RingInv
<1>1. TypeOK'
  <2>1. PcTypeOK' /\ answer' \in [Threads -> {-1, 0, 1}]
    BY StepType DEF LabelsOf
  <2>2. MonitorTypeOK'
    OBVIOUS
  <2> QED
    BY <2>1, <2>2
<1>2. MutexInv' /\ WaitInv' /\ ProducerInv' /\ BuildInv' /\ CreateInv'
  BY DEF MutexInv, HoldingLabels, WaitInv, ProducerInv, BuildInv, CreateInv
<1>3. WorkerInv' /\ ResultInv' /\ ReportInv'
  BY DEF WorkerInv, ResultInv, ReportInv
<1>4. JoinInv'
  BY <1>c DEF JoinInv, JoiningLabels
<1>5. EndedInv' /\ UnjoinedInv'
  BY <1>a DEF EndedInv, JoinInv, ResultInv, UnjoinedInv, Workers
<1>6. NoLostWakeup'
  BY DEF NoLostWakeup, IsFull, IsEmpty
<1>7. FreedWhenUnused'
  BY <1>a, <1>b DEF FreedWhenUnused, WaitInv, ProducerInv, Asleep
<1> QED
  BY <1>0, <1>1, <1>2, <1>3, <1>4, <1>5, <1>6, <1>7

LEMMA SleepKeeps ==
    ASSUME IInv, alive, NEW t \in Threads,
           NEW condition, NEW check, NEW wait, NEW leave,
           \/ /\ t = Main /\ condition = "full_condition" /\ ~ IsEmpty
              /\ check = "join_check" /\ wait = "join_wait"
              /\ leave = "join_leave"
           \/ /\ t \in Producers \cup Workers
              /\ condition = "full_condition" /\ IsFull
              /\ check = "push_check" /\ wait = "push_wait"
              /\ leave = "push_leave"
           \/ /\ t \in Workers /\ condition = "empty_condition"
              /\ IsEmpty /\ status # STATUS_EXIT
              /\ check = "pop_check" /\ wait = "pop_wait"
              /\ leave = "pop_leave",
           pc[t] = check, SleepOr(t, condition, wait, leave),
           UNCHANGED <<made, mainVars, systemVars>>
    PROVE  IInv'
<1> USE DEF SleepOr
<1>f. /\ FailuresTypeOK'
      /\ JoinFailed => JoinFailed'
      /\ "wait" \in failures' => JoinFailed'
  <2>1. /\ FailuresTypeOK /\ unjoined' \subseteq Workers
        /\ \/ failures' = failures
           \/ "wait" \in Faults /\ failures' = failures \cup {"wait"}
    BY DEF FailuresTypeOK
  <2> QED
    BY ONLY <2>1, FailuresKept
<1> USE <1>f
<1>0. RingInv'
  BY DEF RingInv
<1>1. TypeOK'
  <2>1. PcTypeOK' /\ answer' \in [Threads -> {-1, 0, 1}]
    BY StepType DEF LabelsOf
  <2>2. MonitorTypeOK'
    BY MonitorType
  <2> QED
    BY <2>1, <2>2 DEF PcTypeOK
<1>2. MutexInv'
  <2>1. CASE Wait(t, condition) /\ Goto(t, wait) /\ Succeed
    BY <2>1 DEF MutexInv, HoldingLabels, Wait, Release
  <2>2. CASE Fail("wait") /\ Goto(t, leave) /\ UNCHANGED owner
    <3>1. "release" \notin failures' => "release" \notin failures
      BY <2>2
    <3> QED
      BY <2>2, <3>1 DEF MutexInv, HoldingLabels
  <2> QED
    BY <2>1, <2>2
<1>3. WaitInv'
  <2>1. CASE Wait(t, condition) /\ Goto(t, wait)
    BY <2>1 DEF WaitInv, Wait
  <2>2. CASE Goto(t, leave) /\ UNCHANGED waiting
    BY <2>2 DEF WaitInv
  <2> QED
    BY <2>1, <2>2
<1>4. ProducerInv'
  BY DEF ProducerInv
<1>5. BuildInv'
  BY DEF BuildInv
<1>6. CreateInv'
  <2>1. pc[Main] \notin {"create", "create_error"} \/ t \in Workers
    BY DEF ProducerInv
  <2>2. t \in Workers => pc[t] \notin {"none", "exited"}
    OBVIOUS
  <2>3. pc' = [pc EXCEPT ![t] = wait] \/ pc' = [pc EXCEPT ![t] = leave]
    OBVIOUS
  <2> QED
    BY <2>1, <2>2, <2>3 DEF CreateInv
<1>7. WorkerInv'
  BY DEF WorkerInv
<1>8. ResultInv'
  BY DEF ResultInv
<1>9. ReportInv'
  BY DEF ReportInv
<1>10. JoinInv' /\ EndedInv' /\ UnjoinedInv'
  BY DEF JoinInv, JoiningLabels, EndedInv, UnjoinedInv
<1>11. NoLostWakeup'
  BY DEF NoLostWakeup, IsFull, IsEmpty, Wait
<1>12. FreedWhenUnused'
  BY DEF FreedWhenUnused, EndedInv, ProducerInv
<1> QED
  BY <1>0, <1>1, <1>2, <1>3, <1>4, <1>5, <1>6, <1>7, <1>8, <1>9, <1>10, <1>11,
     <1>12

LEMMA StoreKeeps ==
    ASSUME IInv, alive, NEW t \in Producers \cup Workers, pc[t] = "push_check",
           ~ IsFull, NEW array, Store(t, array),
           UNCHANGED <<made, mainVars, systemVars>>,
           RingOK(array, pop_index, Advance(push_index), number_of_values + 1)
    PROVE  IInv'
<1> USE DEF Store, IsFull, Announce
<1>f. /\ FailuresTypeOK'
      /\ JoinFailed => JoinFailed'
      /\ "broadcast" \in failures' => JoinFailed'
  <2>1. /\ FailuresTypeOK /\ unjoined' \subseteq Workers
        /\ \/ failures' = failures
           \/ "broadcast" \in Faults /\ failures' = failures \cup {"broadcast"}
    BY DEF FailuresTypeOK
  <2> QED
    BY ONLY <2>1, FailuresKept
<1> USE <1>f
<1>0. RingInv'
  BY DEF RingInv
<1>1. TypeOK'
  <2>1. PcTypeOK' /\ answer' \in [Threads -> {-1, 0, 1}]
    BY StepType DEF LabelsOf
  <2>2. MonitorTypeOK'
    BY MonitorType
  <2>3. accepted' \subseteq Values
    BY ArgumentType
  <2> QED
    BY <2>3, <1>0, <2>1, <2>2 DEF RingOK
<1>2. MutexInv'
  BY DEF MutexInv, HoldingLabels
<1>3. WaitInv'
  BY DEF WaitInv, Broadcast
<1>4. ProducerInv'
  BY DEF ProducerInv
<1>5. BuildInv'
  BY DEF BuildInv
<1>6. CreateInv'
  BY DEF CreateInv
<1>7. WorkerInv' /\ ResultInv' /\ ReportInv'
  BY DEF WorkerInv, ResultInv, ReportInv
<1>8. JoinInv' /\ EndedInv' /\ UnjoinedInv'
  BY DEF JoinInv, EndedInv, UnjoinedInv
<1>9. FreedWhenUnused'
  BY DEF FreedWhenUnused, EndedInv, ProducerInv
<1>10. NoLostWakeup'
  <2>1. CASE Broadcast("empty_condition") /\ failures' = failures
    <3>1. number_of_values' # 0
      OBVIOUS
    <3> QED
      BY <2>1, <3>1 DEF NoLostWakeup, IsEmpty, Broadcast
  <2>2. CASE "broadcast" \in failures'
    BY <2>2 DEF NoLostWakeup
  <2> QED
    BY <2>1, <2>2
<1> QED
  BY <1>0, <1>1, <1>2, <1>3, <1>4, <1>5, <1>6, <1>7, <1>8, <1>9, <1>10

LEMMA RefuseKeeps ==
    ASSUME IInv, alive, NEW t \in Producers \cup Workers, pc[t] = "push_check",
           NEW r \in {-1, 0}, Refuse(t, r),
           Succeed \/ Fail("compare"),
           UNCHANGED <<made, mainVars, systemVars>>
    PROVE  IInv'
<1> USE DEF Refuse
<1>f. /\ FailuresTypeOK'
      /\ JoinFailed => JoinFailed'
  <2>1. /\ FailuresTypeOK /\ unjoined' \subseteq Workers
        /\ \/ failures' = failures
           \/ "compare" \in Faults /\ failures' = failures \cup {"compare"}
    BY DEF FailuresTypeOK
  <2> QED
    BY ONLY <2>1, FailuresKept
<1> USE <1>f
<1>0. RingInv'
  BY DEF RingInv
<1>1. TypeOK'
  <2>1. PcTypeOK' /\ answer' \in [Threads -> {-1, 0, 1}]
    BY StepType DEF LabelsOf
  <2>2. MonitorTypeOK'
    OBVIOUS
  <2> QED
    BY <2>1, <2>2
<1>2. MutexInv' /\ WaitInv' /\ ProducerInv' /\ BuildInv' /\ CreateInv'
  BY DEF MutexInv, HoldingLabels, WaitInv, ProducerInv, BuildInv, CreateInv
<1>3. WorkerInv' /\ ResultInv' /\ ReportInv'
  BY DEF WorkerInv, ResultInv, ReportInv
<1>4. JoinInv' /\ EndedInv' /\ UnjoinedInv'
  BY DEF JoinInv, EndedInv, UnjoinedInv
<1>5. NoLostWakeup' /\ FreedWhenUnused'
  BY DEF NoLostWakeup, IsFull, IsEmpty, FreedWhenUnused, Asleep
<1> QED
  BY <1>0, <1>1, <1>2, <1>3, <1>4, <1>5

LEMMA FetchKeeps ==
    ASSUME IInv, alive, NEW w \in Workers, pc[w] = "pop_check",
           ~ IsEmpty, Fetch(w), UNCHANGED <<made, mainVars, systemVars>>
    PROVE  IInv'
<1> USE DEF Fetch, IsEmpty, Announce
<1>a. /\ RingOK(values_array, Advance(pop_index), push_index,
                number_of_values - 1)
      /\ values_array[pop_index] \in Values
  BY FetchKeepsRing DEF RingInv
<1>f. /\ FailuresTypeOK'
      /\ JoinFailed => JoinFailed'
      /\ "broadcast" \in failures' => JoinFailed'
  <2>1. /\ FailuresTypeOK /\ unjoined' \subseteq Workers
        /\ \/ failures' = failures
           \/ "broadcast" \in Faults /\ failures' = failures \cup {"broadcast"}
    BY DEF FailuresTypeOK
  <2> QED
    BY ONLY <2>1, FailuresKept
<1> USE <1>f
<1>0. RingInv'
  BY <1>a DEF RingInv
<1>1. TypeOK'
  <2>1. PcTypeOK' /\ answer' \in [Threads -> {-1, 0, 1}]
    BY StepType DEF LabelsOf
  <2>2. MonitorTypeOK'
    BY MonitorType
  <2> QED
    BY <1>a, <1>0, <2>1, <2>2 DEF RingOK
<1>2. MutexInv' /\ WaitInv' /\ ProducerInv' /\ BuildInv' /\ CreateInv'
  <2>1. MutexInv'
    BY DEF MutexInv, HoldingLabels
  <2>2. WaitInv'
    BY DEF Broadcast, WaitInv
  <2>3. ProducerInv' /\ BuildInv' /\ CreateInv'
    BY DEF ProducerInv, BuildInv, CreateInv
  <2> QED
    BY <2>1, <2>2, <2>3
<1>3. ResultInv' /\ ReportInv'
  BY DEF ResultInv, ReportInv
<1>4. WorkerInv'
  BY <1>a DEF WorkerInv
<1>5. JoinInv' /\ EndedInv' /\ UnjoinedInv'
  BY DEF JoinInv, EndedInv, UnjoinedInv
<1>6. FreedWhenUnused'
  BY DEF FreedWhenUnused
<1>7. NoLostWakeup'
  BY <1>0 DEF NoLostWakeup, Broadcast
<1> QED
  BY <1>0, <1>1, <1>2, <1>3, <1>4, <1>5, <1>6, <1>7

LEMMA FindNothingKeeps ==
    ASSUME IInv, alive, NEW w \in Workers, pc[w] = "pop_check",
           FindNothing(w), UNCHANGED <<made, mainVars, systemVars>>
    PROVE  IInv'
<1> USE DEF FindNothing
<1>f. FailuresTypeOK' /\ failures' = failures /\ JoinFailed' = JoinFailed
  BY NoCallFails DEF FailuresTypeOK
<1> USE <1>f
<1>0. RingInv'
  BY DEF RingInv
<1>1. TypeOK'
  <2>1. PcTypeOK' /\ answer' \in [Threads -> {-1, 0, 1}]
    BY StepType DEF LabelsOf
  <2>2. MonitorTypeOK'
    OBVIOUS
  <2> QED
    BY <2>1, <2>2
<1>2. MutexInv' /\ WaitInv' /\ ProducerInv' /\ BuildInv' /\ CreateInv'
  BY DEF MutexInv, HoldingLabels, WaitInv, ProducerInv, BuildInv, CreateInv
<1>3. WorkerInv' /\ ResultInv' /\ ReportInv'
  BY DEF WorkerInv, ResultInv, ReportInv
<1>4. JoinInv' /\ EndedInv' /\ UnjoinedInv'
  BY DEF JoinInv, EndedInv, UnjoinedInv
<1>5. NoLostWakeup' /\ FreedWhenUnused'
  BY DEF NoLostWakeup, IsFull, IsEmpty, FreedWhenUnused
<1> QED
  BY <1>0, <1>1, <1>2, <1>3, <1>4, <1>5

LEMMA PushCallKeeps ==
    ASSUME IInv, NEW p \in Producers, PushCall(p)
    PROVE  IInv'
<1> USE DEF PushCall
<1>f. FailuresTypeOK' /\ failures' = failures /\ JoinFailed' = JoinFailed
  BY NoCallFails DEF FailuresTypeOK
<1> USE <1>f
<1>0. RingInv'
  BY DEF RingInv
<1>1. TypeOK'
  <2>1. PcTypeOK' /\ answer' \in [Threads -> {-1, 0, 1}]
    BY StepType DEF LabelsOf
  <2>2. MonitorTypeOK'
    OBVIOUS
  <2> QED
    BY <2>1, <2>2
<1>2. MutexInv' /\ WaitInv' /\ ProducerInv' /\ BuildInv' /\ CreateInv'
  BY DEF MutexInv, HoldingLabels, WaitInv, ProducerInv, BuildInv, CreateInv
<1>3. WorkerInv' /\ ResultInv' /\ ReportInv'
  BY DEF WorkerInv, ResultInv, ReportInv
<1>4. JoinInv' /\ EndedInv' /\ UnjoinedInv'
  BY DEF JoinInv, EndedInv, UnjoinedInv
<1>5. NoLostWakeup' /\ FreedWhenUnused'
  BY DEF NoLostWakeup, IsFull, IsEmpty, FreedWhenUnused, Asleep
<1> QED
  BY <1>0, <1>1, <1>2, <1>3, <1>4, <1>5

LEMMA PushEnterKeeps ==
    ASSUME IInv, alive, NEW t \in Producers \cup Workers, PushEnter(t)
    PROVE  IInv'
<1> USE DEF PushEnter, AfterPush, EnterFrom, Grab
<1>f. /\ FailuresTypeOK'
      /\ JoinFailed => JoinFailed'
      /\ "grab" \in failures' => JoinFailed'
  <2>1. /\ FailuresTypeOK /\ unjoined' \subseteq Workers
        /\ \/ failures' = failures
           \/ "grab" \in Faults /\ failures' = failures \cup {"grab"}
    BY DEF FailuresTypeOK
  <2> QED
    BY ONLY <2>1, FailuresKept
<1> USE <1>f
<1>0. RingInv'
  BY DEF RingInv
<1>1. TypeOK'
  <2>1. PcTypeOK' /\ answer' \in [Threads -> {-1, 0, 1}]
    BY StepType DEF LabelsOf
  <2>2. MonitorTypeOK'
    OBVIOUS
  <2> QED
    BY <2>1, <2>2 DEF PcTypeOK
<1>2. MutexInv'
  BY DEF MutexInv, HoldingLabels
<1>3. WaitInv'
  BY DEF WaitInv
<1>4. ProducerInv'
  BY DEF ProducerInv
<1>5. BuildInv'
  BY DEF BuildInv
<1>6. CreateInv'
  BY DEF CreateInv, BuildInv, ProducerInv
<1>7. WorkerInv'
  BY DEF WorkerInv
<1>8. ResultInv'
  BY DEF ResultInv, WorkerInv
<1>9. ReportInv'
  BY DEF ReportInv
<1>10. JoinInv' /\ EndedInv' /\ UnjoinedInv'
  BY DEF JoinInv, EndedInv, UnjoinedInv
<1>11. NoLostWakeup' /\ FreedWhenUnused'
  BY DEF NoLostWakeup, IsFull, IsEmpty, FreedWhenUnused, Asleep
<1> QED
  BY <1>0, <1>1, <1>2, <1>3, <1>4, <1>5, <1>6, <1>7, <1>8, <1>9, <1>10, <1>11

LEMMA PushWakeKeeps ==
    ASSUME IInv, alive, NEW t \in Producers \cup Workers, PushWake(t)
    PROVE  IInv'
<1> USE DEF PushWake, WakeTo, Grab, Asleep
<1>f. FailuresTypeOK' /\ failures' = failures /\ JoinFailed' = JoinFailed
  BY NoCallFails DEF FailuresTypeOK
<1> USE <1>f
<1>0. RingInv'
  BY DEF RingInv
<1>1. TypeOK'
  <2>1. PcTypeOK' /\ answer' \in [Threads -> {-1, 0, 1}]
    BY StepType DEF LabelsOf
  <2>2. MonitorTypeOK'
    OBVIOUS
  <2> QED
    BY <2>1, <2>2
<1>2. MutexInv' /\ WaitInv' /\ ProducerInv' /\ BuildInv' /\ CreateInv'
  BY DEF MutexInv, HoldingLabels, WaitInv, ProducerInv, BuildInv, CreateInv
<1>3. WorkerInv' /\ ResultInv' /\ ReportInv'
  BY DEF WorkerInv, ResultInv, ReportInv
<1>4. JoinInv' /\ EndedInv' /\ UnjoinedInv'
  BY DEF JoinInv, EndedInv, UnjoinedInv
<1>5. NoLostWakeup' /\ FreedWhenUnused'
  BY DEF NoLostWakeup, IsFull, IsEmpty, FreedWhenUnused
<1> QED
  BY <1>0, <1>1, <1>2, <1>3, <1>4, <1>5

LEMMA PushLeaveKeeps ==
    ASSUME IInv, alive, NEW t \in Producers \cup Workers, PushLeave(t)
    PROVE  IInv'
<1> USE DEF PushLeave, AfterLeave, AfterPush, LeaveTo, Release
<1>f. /\ FailuresTypeOK'
      /\ JoinFailed => JoinFailed'
      /\ "release" \in failures' => JoinFailed'
  <2>1. /\ FailuresTypeOK /\ unjoined' \subseteq Workers
        /\ \/ failures' = failures
           \/ "release" \in Faults /\ failures' = failures \cup {"release"}
    BY DEF FailuresTypeOK
  <2> QED
    BY ONLY <2>1, FailuresKept
<1> USE <1>f
<1>0. RingInv'
  BY DEF RingInv
<1>1. TypeOK'
  <2>1. PcTypeOK' /\ answer' \in [Threads -> {-1, 0, 1}]
    BY StepType DEF LabelsOf
  <2>2. MonitorTypeOK'
    OBVIOUS
  <2> QED
    BY <2>1, <2>2 DEF PcTypeOK
<1>2. MutexInv'
  <2>1. CASE Release(t) /\ pc' = [pc EXCEPT ![t] = pc'[t]]
                /\ pc'[t] \notin HoldingLabels
    BY <2>1 DEF MutexInv, HoldingLabels
  <2>2. CASE /\ Fail("release") /\ UNCHANGED owner
             /\ pc' = [pc EXCEPT ![t] = pc'[t]] /\ pc'[t] \notin HoldingLabels
    BY <2>2 DEF MutexInv, HoldingLabels
  <2> QED
    BY <2>1, <2>2 DEF HoldingLabels
<1>3. WaitInv'
  BY DEF WaitInv
<1>4. ProducerInv'
  BY DEF ProducerInv
<1>5. BuildInv'
  BY DEF BuildInv
<1>6. CreateInv'
  BY DEF CreateInv, ProducerInv
<1>7. WorkerInv' /\ ResultInv' /\ ReportInv'
  BY DEF WorkerInv, ResultInv, ReportInv
<1>8. JoinInv' /\ EndedInv' /\ UnjoinedInv'
  BY DEF JoinInv, EndedInv, UnjoinedInv
<1>9. NoLostWakeup' /\ FreedWhenUnused'
  BY DEF NoLostWakeup, IsFull, IsEmpty, FreedWhenUnused, Asleep
<1> QED
  BY <1>0, <1>1, <1>2, <1>3, <1>4, <1>5, <1>6, <1>7, <1>8, <1>9

LEMMA SubmitWorkKeeps ==
    ASSUME IInv, alive, NEW t \in Producers \cup Workers, SubmitWork(t)
    PROVE  IInv'
<1> USE DEF SubmitWork, AfterPush
<1>f. /\ FailuresTypeOK'
      /\ JoinFailed => JoinFailed'
  <2>1. /\ FailuresTypeOK /\ unjoined' \subseteq Workers
        /\ \/ failures' = failures
           \/ "submit" \in Faults /\ failures' = failures \cup {"submit"}
    BY DEF FailuresTypeOK
  <2> QED
    BY ONLY <2>1, FailuresKept
<1> USE <1>f
<1>0. RingInv'
  BY DEF RingInv
<1>1. TypeOK'
  <2>1. PcTypeOK' /\ answer' \in [Threads -> {-1, 0, 1}]
    BY StepType DEF LabelsOf
  <2>2. MonitorTypeOK'
    OBVIOUS
  <2> QED
    BY <2>1, <2>2
<1>2. MutexInv' /\ WaitInv' /\ ProducerInv' /\ BuildInv' /\ CreateInv'
  BY DEF MutexInv, HoldingLabels, WaitInv, ProducerInv, BuildInv, CreateInv
<1>3. WorkerInv' /\ ResultInv' /\ ReportInv'
  BY DEF WorkerInv, ResultInv, ReportInv
<1>4. JoinInv' /\ EndedInv' /\ UnjoinedInv'
  BY DEF JoinInv, EndedInv, UnjoinedInv
<1>5. NoLostWakeup' /\ FreedWhenUnused'
  BY DEF NoLostWakeup, IsFull, IsEmpty, FreedWhenUnused, EndedInv, ProducerInv
<1> QED
  BY <1>0, <1>1, <1>2, <1>3, <1>4, <1>5

LEMMA LaunchKeeps ==
    ASSUME IInv, alive, NEW w \in Workers, Launch(w)
    PROVE  IInv'
<1> USE DEF Launch
<1>f. FailuresTypeOK' /\ failures' = failures /\ JoinFailed' = JoinFailed
  BY NoCallFails DEF FailuresTypeOK
<1> USE <1>f
<1>0. RingInv'
  BY DEF RingInv
<1>1. TypeOK'
  <2>1. PcTypeOK' /\ answer' \in [Threads -> {-1, 0, 1}]
    BY StepType DEF LabelsOf
  <2>2. MonitorTypeOK'
    OBVIOUS
  <2> QED
    BY <2>1, <2>2
<1>2. MutexInv' /\ WaitInv' /\ ProducerInv' /\ BuildInv' /\ CreateInv'
  BY DEF MutexInv, HoldingLabels, WaitInv, ProducerInv, BuildInv, CreateInv
<1>3. WorkerInv' /\ ResultInv' /\ ReportInv'
  BY DEF WorkerInv, ResultInv, ReportInv
<1>4. JoinInv' /\ EndedInv' /\ UnjoinedInv'
  BY DEF JoinInv, EndedInv, UnjoinedInv
<1>5. NoLostWakeup' /\ FreedWhenUnused'
  BY DEF NoLostWakeup, IsFull, IsEmpty, FreedWhenUnused
<1> QED
  BY <1>0, <1>1, <1>2, <1>3, <1>4, <1>5

LEMMA StartKeeps ==
    ASSUME IInv, alive, NEW w \in Workers, Start(w)
    PROVE  IInv'
<1> USE DEF Start
<1>f. /\ FailuresTypeOK'
      /\ JoinFailed => JoinFailed'
  <2>1. /\ FailuresTypeOK /\ unjoined' \subseteq Workers
        /\ \/ failures' = failures
           \/ "memory" \in Faults /\ failures' = failures \cup {"memory"}
    BY DEF FailuresTypeOK
  <2> QED
    BY ONLY <2>1, FailuresKept
<1> USE <1>f
<1>0. RingInv'
  BY DEF RingInv
<1>1. TypeOK'
  <2>1. PcTypeOK' /\ answer' \in [Threads -> {-1, 0, 1}]
    BY StepType DEF LabelsOf
  <2>2. MonitorTypeOK'
    OBVIOUS
  <2> QED
    BY <2>1, <2>2 DEF PcTypeOK
<1>2. MutexInv' /\ WaitInv' /\ ProducerInv' /\ BuildInv' /\ CreateInv'
  <2>1. MutexInv' /\ WaitInv'
    BY DEF MutexInv, HoldingLabels, WaitInv
  <2>2. ProducerInv' /\ BuildInv'
    BY DEF ProducerInv, BuildInv
  <2>3. CreateInv'
    BY DEF CreateInv
  <2> QED
    BY <2>1, <2>2, <2>3
<1>3. WorkerInv' /\ ResultInv' /\ ReportInv'
  BY DEF WorkerInv, ResultInv, ReportInv
<1>4. JoinInv' /\ EndedInv' /\ UnjoinedInv'
  BY DEF JoinInv, EndedInv, UnjoinedInv
<1>5. NoLostWakeup' /\ FreedWhenUnused'
  BY DEF NoLostWakeup, IsFull, IsEmpty, FreedWhenUnused
<1> QED
  BY <1>0, <1>1, <1>2, <1>3, <1>4, <1>5

LEMMA PopEnterKeeps ==
    ASSUME IInv, alive, NEW w \in Workers, PopEnter(w)
    PROVE  IInv'
<1> USE DEF PopEnter, EnterFrom, Grab
<1>f. /\ FailuresTypeOK'
      /\ JoinFailed => JoinFailed'
      /\ "grab" \in failures' => JoinFailed'
  <2>1. /\ FailuresTypeOK /\ unjoined' \subseteq Workers
        /\ \/ failures' = failures
           \/ "grab" \in Faults /\ failures' = failures \cup {"grab"}
    BY DEF FailuresTypeOK
  <2> QED
    BY ONLY <2>1, FailuresKept
<1> USE <1>f
<1>0. RingInv'
  BY DEF RingInv
<1>1. TypeOK'
  <2>1. PcTypeOK' /\ answer' \in [Threads -> {-1, 0, 1}]
    BY StepType DEF LabelsOf
  <2>2. MonitorTypeOK'
    OBVIOUS
  <2> QED
    BY <2>1, <2>2 DEF PcTypeOK
<1>2. MutexInv'
  BY DEF MutexInv, HoldingLabels
<1>3. WaitInv'
  BY DEF WaitInv
<1>4. ProducerInv'
  BY DEF ProducerInv
<1>5. BuildInv'
  BY DEF BuildInv
<1>6. CreateInv'
  BY DEF CreateInv, BuildInv
<1>7. WorkerInv'
  BY DEF WorkerInv
<1>8. ResultInv'
  BY DEF ResultInv
<1>9. ReportInv'
  BY DEF ReportInv
<1>10. JoinInv' /\ EndedInv' /\ UnjoinedInv'
  BY DEF JoinInv, EndedInv, UnjoinedInv
<1>11. NoLostWakeup' /\ FreedWhenUnused'
  BY DEF NoLostWakeup, IsFull, IsEmpty, FreedWhenUnused
<1> QED
  BY <1>0, <1>1, <1>2, <1>3, <1>4, <1>5, <1>6, <1>7, <1>8, <1>9, <1>10, <1>11

LEMMA PopWakeKeeps ==
    ASSUME IInv, alive, NEW w \in Workers, PopWake(w)
    PROVE  IInv'
<1> USE DEF PopWake, WakeTo, Grab, Asleep
<1>f. FailuresTypeOK' /\ failures' = failures /\ JoinFailed' = JoinFailed
  BY NoCallFails DEF FailuresTypeOK
<1> USE <1>f
<1>0. RingInv'
  BY DEF RingInv
<1>1. TypeOK'
  <2>1. PcTypeOK' /\ answer' \in [Threads -> {-1, 0, 1}]
    BY StepType DEF LabelsOf
  <2>2. MonitorTypeOK'
    OBVIOUS
  <2> QED
    BY <2>1, <2>2
<1>2. MutexInv' /\ WaitInv' /\ ProducerInv' /\ BuildInv' /\ CreateInv'
  BY DEF MutexInv, HoldingLabels, WaitInv, ProducerInv, BuildInv, CreateInv
<1>3. WorkerInv' /\ ResultInv' /\ ReportInv'
  BY DEF WorkerInv, ResultInv, ReportInv
<1>4. JoinInv' /\ EndedInv' /\ UnjoinedInv'
  BY DEF JoinInv, EndedInv, UnjoinedInv
<1>5. NoLostWakeup' /\ FreedWhenUnused'
  BY DEF NoLostWakeup, IsFull, IsEmpty, FreedWhenUnused
<1> QED
  BY <1>0, <1>1, <1>2, <1>3, <1>4, <1>5

LEMMA PopLeaveKeeps ==
    ASSUME IInv, alive, NEW w \in Workers, PopLeave(w)
    PROVE  IInv'
<1> USE DEF PopLeave, LeaveTo, Release
<1>f. /\ FailuresTypeOK'
      /\ JoinFailed => JoinFailed'
      /\ "release" \in failures' => JoinFailed'
  <2>1. /\ FailuresTypeOK /\ unjoined' \subseteq Workers
        /\ \/ failures' = failures
           \/ "release" \in Faults /\ failures' = failures \cup {"release"}
    BY DEF FailuresTypeOK
  <2> QED
    BY ONLY <2>1, FailuresKept
<1> USE <1>f
<1>0. RingInv'
  BY DEF RingInv
<1>1. TypeOK'
  <2>1. PcTypeOK' /\ answer' \in [Threads -> {-1, 0, 1}]
    BY StepType DEF LabelsOf
  <2>2. MonitorTypeOK'
    OBVIOUS
  <2> QED
    BY <2>1, <2>2 DEF PcTypeOK
<1>2. MutexInv'
  BY DEF MutexInv, HoldingLabels
<1>3. WaitInv'
  BY DEF WaitInv
<1>4. ProducerInv'
  BY DEF ProducerInv
<1>5. BuildInv'
  BY DEF BuildInv
<1>6. CreateInv'
  BY DEF CreateInv
<1>7. WorkerInv'
  BY DEF WorkerInv
<1>8. ResultInv'
  BY DEF ResultInv
<1>9. ReportInv'
  BY DEF ReportInv
<1>10. JoinInv' /\ EndedInv' /\ UnjoinedInv'
  BY DEF JoinInv, EndedInv, UnjoinedInv
<1>11. NoLostWakeup' /\ FreedWhenUnused'
  BY DEF NoLostWakeup, IsFull, IsEmpty, FreedWhenUnused
<1> QED
  BY <1>0, <1>1, <1>2, <1>3, <1>4, <1>5, <1>6, <1>7, <1>8, <1>9, <1>10, <1>11

LEMMA PopReturnKeeps ==
    ASSUME IInv, alive, NEW w \in Workers, PopReturn(w)
    PROVE  IInv'
<1> USE DEF PopReturn, Out
<1>f. FailuresTypeOK' /\ failures' = failures /\ JoinFailed' = JoinFailed
  BY NoCallFails DEF FailuresTypeOK
<1> USE <1>f
<1>0. RingInv'
  BY DEF RingInv
<1>1. TypeOK'
  <2>1. PcTypeOK' /\ answer' \in [Threads -> {-1, 0, 1}]
    BY StepType DEF LabelsOf
  <2>2. MonitorTypeOK'
    OBVIOUS
  <2>3. thread_result' \in [Workers -> {NoValue, -1, 1}]
    OBVIOUS
  <2>5. value' \in [Workers -> Values \cup {NoValue}]
    <3>1. value' = [value EXCEPT ![w] = NoValue] \/ value' = value
      OBVIOUS
    <3> QED
      BY <3>1
  <2>4. dropped' \subseteq Values
    <3>1. value[w] \in Values \cup {NoValue} /\ dropped \subseteq Values
      OBVIOUS
    <3>2. dropped' = dropped \cup ({value[w]} \ {NoValue}) \/ dropped' = dropped
      OBVIOUS
    <3> QED
      BY <3>1, <3>2
  <2> QED
    BY <2>1, <2>3, <2>4, <2>5, <2>2 DEF PcTypeOK
<1>2. MutexInv' /\ WaitInv' /\ ProducerInv' /\ BuildInv' /\ CreateInv'
  <2>1. MutexInv'
    BY DEF MutexInv, HoldingLabels
  <2>2. WaitInv' /\ ProducerInv'
    BY DEF WaitInv, ProducerInv
  <2>3. BuildInv'
    BY DEF BuildInv
  <2>4. CreateInv'
    BY DEF CreateInv
  <2> QED
    BY <2>1, <2>2, <2>3, <2>4
<1>3. WorkerInv' /\ ResultInv' /\ ReportInv'
  <2>1. WorkerInv'
    BY DEF WorkerInv
  <2>2. ResultInv'
    BY DEF WorkerInv, ResultInv
  <2>3. ReportInv'
    BY DEF WorkerInv, ResultInv, ReportInv
  <2> QED
    BY <2>1, <2>2, <2>3
<1>4. JoinInv' /\ EndedInv' /\ UnjoinedInv'
  BY DEF JoinInv, ResultInv, EndedInv, UnjoinedInv, FreedWhenUnused, ProducerInv
<1>5. NoLostWakeup' /\ FreedWhenUnused'
  BY DEF NoLostWakeup, IsFull, IsEmpty, FreedWhenUnused
<1> QED
  BY <1>0, <1>1, <1>2, <1>3, <1>4, <1>5

LEMMA CallbackReturnsKeeps ==
    ASSUME IInv, alive, NEW w \in Workers, CallbackReturns(w)
    PROVE  IInv'
<1> USE DEF CallbackReturns, AfterCallback
<1>f. FailuresTypeOK' /\ failures' = failures /\ JoinFailed' = JoinFailed
  BY NoCallFails DEF FailuresTypeOK
<1> USE <1>f
<1>0. RingInv'
  BY DEF RingInv
<1>1. TypeOK'
  <2>1. PcTypeOK' /\ answer' \in [Threads -> {-1, 0, 1}]
    BY StepType DEF LabelsOf
  <2>2. MonitorTypeOK'
    OBVIOUS
  <2>3. /\ thread_result' \in [Workers -> {NoValue, -1, 1}]
        /\ value' \in [Workers -> Values \cup {NoValue}]
        /\ completed' \subseteq Values
    BY DEF WorkerInv
  <2>4. failed' \in BOOLEAN
    BY Zenon
  <2> QED
    BY <2>1, <2>3, <2>4, <2>2
<1>2. MutexInv' /\ WaitInv' /\ ProducerInv' /\ BuildInv' /\ CreateInv'
  BY DEF MutexInv, HoldingLabels, WaitInv, ProducerInv, BuildInv, CreateInv
<1>3. WorkerInv' /\ ReportInv'
  BY DEF WorkerInv, ResultInv, ReportInv
<1>4. ResultInv'
  <2>1. PICK r \in {-1, 1} :
             /\ thread_result' = [thread_result EXCEPT
                                     ![w] = IF @ = 1 THEN r ELSE @]
             /\ failed' = (failed \/ r # 1)
    BY Zenon
  <2>2. CASE r = 1
    <3>1. failed' = failed
      BY <2>1, <2>2
    <3>2. thread_result' = thread_result
      BY <2>1, <2>2
    <3> QED
      BY <3>1, <3>2 DEF ResultInv
  <2>3. CASE r # 1
    <3>1. failed'
      BY <2>1, <2>3
    <3>2. \A u \in Workers : thread_result'[u] = NoValue <=> thread_result[u] = NoValue
      BY <2>1, <2>3
    <3> QED
      BY <3>1, <3>2, <2>1 DEF ResultInv
  <2> QED
    BY <2>2, <2>3
<1>5. JoinInv' /\ EndedInv' /\ UnjoinedInv'
  BY DEF JoinInv, EndedInv, UnjoinedInv, FreedWhenUnused
<1>6. NoLostWakeup' /\ FreedWhenUnused'
  BY DEF NoLostWakeup, IsFull, IsEmpty, FreedWhenUnused
<1> QED
  BY <1>0, <1>1, <1>2, <1>3, <1>4, <1>5, <1>6

LEMMA SpuriousWakeupKeeps ==
    ASSUME IInv, NEW t \in Threads, SpuriousWakeup(t)
    PROVE  IInv'
<1> USE DEF SpuriousWakeup, WakeSpuriously, Asleep
<1>f. FailuresTypeOK' /\ failures' = failures /\ JoinFailed' = JoinFailed
  BY NoCallFails DEF FailuresTypeOK
<1> USE <1>f
<1>0. RingInv'
  BY DEF RingInv
<1>1. TypeOK'
  OBVIOUS
<1>2. MutexInv' /\ WaitInv' /\ ProducerInv' /\ BuildInv' /\ CreateInv'
  BY DEF MutexInv, WaitInv, ProducerInv, BuildInv, CreateInv
<1>3. WorkerInv' /\ ResultInv' /\ ReportInv'
  BY DEF WorkerInv, ResultInv, ReportInv
<1>4. JoinInv' /\ EndedInv' /\ UnjoinedInv'
  BY DEF JoinInv, EndedInv, UnjoinedInv
<1>5. NoLostWakeup' /\ FreedWhenUnused'
  BY DEF NoLostWakeup, IsFull, IsEmpty, FreedWhenUnused
<1> QED
  BY <1>0, <1>1, <1>2, <1>3, <1>4, <1>5

HIDE PoolAssumption
    DEF IInv, TypeOK, Threads, Conditions, STATUS_EXIT, Goto, Answer, CanFail,
        Fail, Succeed, ringVars, workVars, mainVars, systemVars, MonitorTypeOK,
        PushLabels, WorkerLabels, MainLabels

LEMMA JoinCheckKeeps ==
    ASSUME IInv, JoinCheck
    PROVE  IInv'
<1>1. CASE number_of_values # 0
  BY <1>1, SleepKeeps DEF JoinCheck, IsEmpty, Threads, IInv, EndedInv
<1>2. CASE number_of_values = 0
  BY <1>2, JoinSeesNothing DEF JoinCheck
<1> QED
  BY <1>1, <1>2

LEMMA PushKeeps ==
    ASSUME IInv, alive, NEW t \in Producers \cup Workers, Push(t)
    PROVE  IInv'
<1>1. pc[t] = "push_check" /\ UNCHANGED <<made, mainVars, systemVars>>
  BY DEF Push
<1>2. CASE IsFull
  BY <1>1, <1>2, SleepKeeps DEF Push, Threads
<1>3. CASE ~ IsFull
  <2> DEFINE v == Argument(t)[2]
             array == [values_array EXCEPT ![push_index] = v]
  <2>1. v \in Values
    BY <1>1, ArgumentType DEF PushLabels
  <2>2. RingOK(array, pop_index, Advance(push_index), number_of_values + 1)
    BY <1>3, <2>1, StoreLastKeepsRing DEF IInv, RingInv, IsFull
  <2>3. Store(t, array)
    BY <1>3 DEF Push
  <2> HIDE DEF array
  <2> QED
    BY <1>1, <1>3, <2>2, <2>3, StoreKeeps
<1> QED
  BY <1>2, <1>3

LEMMA PushSortedKeeps ==
    ASSUME IInv, alive, NEW t \in Producers \cup Workers, PushSorted(t)
    PROVE  IInv'
<1> DEFINE v == Argument(t)[2]
           Target(offset) == SlotAfter(pop_index, offset)
           array(offset) == InsertAt(values_array, Target(offset), push_index, v)
<1>1. pc[t] = "push_check" /\ UNCHANGED <<made, mainVars, systemVars>>
  BY DEF PushSorted
<1>2. \/ IsFull /\ SleepOr(t, "full_condition", "push_wait", "push_leave")
      \/ ~ IsFull /\ \E offset \in 0 .. number_of_values :
                        \/ Refuse(t, 0) /\ Succeed
                        \/ Store(t, array(offset))
      \/ Fail("compare") /\ Refuse(t, -1)
  BY DEF PushSorted
<1>3. CASE IsFull /\ SleepOr(t, "full_condition", "push_wait", "push_leave")
  BY <1>1, <1>3, SleepKeeps DEF Threads
<1>4. ASSUME ~ IsFull, NEW offset \in 0 .. number_of_values,
             (Refuse(t, 0) /\ Succeed) \/ Store(t, array(offset))
      PROVE  IInv'
  <2>1. CASE Refuse(t, 0) /\ Succeed
    BY <1>1, <2>1, RefuseKeeps
  <2>2. CASE Store(t, array(offset))
    <3>1. v \in Values
      BY <1>1, ArgumentType DEF PushLabels
    <3>2. RingOK(array(offset), pop_index, Advance(push_index),
                 number_of_values + 1)
      BY <1>4, <3>1, InsertKeepsRing DEF IInv, RingInv, IsFull
    <3> HIDE DEF array
    <3> QED
      BY <1>1, <1>4, <2>2, <3>2, StoreKeeps
  <2> QED
    BY <1>4, <2>1, <2>2
<1>5. CASE Fail("compare") /\ Refuse(t, -1)
  BY <1>1, <1>5, RefuseKeeps
<1> HIDE DEF array
<1> QED
  BY <1>2, <1>3, <1>4, <1>5

LEMMA PopKeeps ==
    ASSUME IInv, alive, NEW w \in Workers, Pop(w)
    PROVE  IInv'
<1>1. pc[w] = "pop_check" /\ UNCHANGED <<made, mainVars, systemVars>>
  BY DEF Pop
<1>2. CASE ~ IsEmpty /\ Fetch(w)
  BY <1>1, <1>2, FetchKeeps
<1>3. CASE FindNothing(w)
  BY <1>1, <1>3, FindNothingKeeps
<1>4. CASE /\ IsEmpty /\ status # STATUS_EXIT
           /\ SleepOr(w, "empty_condition", "pop_wait", "pop_leave")
  BY <1>1, <1>4, SleepKeeps DEF Threads
<1> QED
  BY <1>2, <1>3, <1>4 DEF Pop

LEMMA UnchangedKeeps ==
    ASSUME IInv, UNCHANGED vars
    PROVE  IInv'
BY DEF IInv, vars, ringVars, workVars, mainVars, systemVars, TypeOK,
       MonitorTypeOK, FailuresTypeOK, RingInv, MutexInv, WaitInv,
       ProducerInv, WorkerInv,
       BuildInv, CreateInv, JoinInv, EndedInv, ResultInv, ReportInv,
       UnjoinedInv, JoinFailed,
       FailuresOfJoin, NoLostWakeup, FreedWhenUnused, IsEmpty, IsFull, Asleep

-----------------------------------------------------------------------------
(* The invariant holds in every state.                                     *)

LEMMA InitIInv == Init => IInv
<1> SUFFICES ASSUME Init
             PROVE  IInv
  OBVIOUS
<1>1. /\ owner = NoThread /\ waiting = [c \in Conditions |-> {}]
      /\ values_array = [slot \in Slots |-> NoValue]
      /\ pop_index = 0 /\ push_index = 0 /\ number_of_values = 0 /\ status = 0
      /\ value = [w \in Workers |-> NoValue] /\ answer = [t \in Threads |-> 1]
      /\ thread_result = [w \in Workers |-> NoValue]
      /\ thread_index = 0 /\ made = [p \in Producers |-> 0] /\ spurious = 0
      /\ build \in Builds /\ work_items = 0 /\ alive = TRUE
      /\ accepted = {} /\ completed = {} /\ dropped = {} /\ failed = FALSE
      /\ unjoined = {} /\ failures = {}
  BY DEF Init, MonitorInit
<1>2. /\ pc \in [Threads -> PushLabels \cup WorkerLabels \cup MainLabels
                                \cup {"idle"}]
      /\ pc[Main] = "create"
      /\ \A p \in Producers : pc[p] = "idle"
      /\ \A w \in Workers : pc[w] = "none"
  BY PoolAssumption DEF Init, Threads, WorkerLabels, MainLabels
<1> USE PoolAssumption, <1>1, <1>2
    DEF Threads, Conditions, PushLabels, WorkerLabels, MainLabels, STATUS_EXIT
<1>3. RingInv
  BY RingAssumption DEF RingInv, RingOK, Arrays, Indices, SlotAfter
<1>4. TypeOK
  <2>1. MonitorTypeOK
    BY DEF MonitorTypeOK
  <2>2. /\ value \in [Workers -> Values \cup {NoValue}]
        /\ answer \in [Threads -> {-1, 0, 1}]
        /\ thread_result \in [Workers -> {NoValue, -1, 1}]
        /\ made \in [Producers -> Nat]
    OBVIOUS
  <2>3. thread_index \in 0 .. NumberOfThreads /\ spurious \in 0 .. MaxSpurious
    OBVIOUS
  <2>4. alive \in BOOLEAN /\ failed \in BOOLEAN
    BY Zenon
  <2> QED
    BY <1>3, <2>1, <2>2, <2>3, <2>4 DEF TypeOK, FailuresTypeOK, RingInv, RingOK
<1>5. MutexInv /\ WaitInv /\ ProducerInv
  BY DEF MutexInv, HoldingLabels, WaitInv, ProducerInv
<1>6. WorkerInv /\ BuildInv /\ CreateInv
  BY DEF WorkerInv, BuildInv, CreateInv
<1>7. JoinInv /\ EndedInv
  BY DEF JoinInv, JoiningLabels, EndedInv
<1>8. ResultInv /\ ReportInv /\ UnjoinedInv
  BY DEF ResultInv, ReportInv, UnjoinedInv
<1>9. NoLostWakeup /\ FreedWhenUnused
  BY DEF NoLostWakeup, FreedWhenUnused
<1> QED
  BY <1>3, <1>4, <1>5, <1>6, <1>7, <1>8, <1>9 DEF IInv

LEMMA PushStepKeeps ==
    ASSUME IInv, alive, NEW t \in Producers \cup Workers, PushStep(t)
    PROVE  IInv'
BY PushEnterKeeps, PushKeeps, PushSortedKeeps, PushWakeKeeps, PushLeaveKeeps,
   SubmitWorkKeeps
   DEF PushStep

LEMMA NextIInv ==
    ASSUME IInv, [Next]_vars
    PROVE  IInv'
<1>1. CASE MainStep
  BY <1>1, CreateThreadKeeps, CreateDoneKeeps, CreateErrorKeeps,
     JoinCalledKeeps, JoinEnterKeeps, JoinBeginKeeps, JoinCheckKeeps,
     JoinWakeKeeps, JoinReleaseKeeps, JoinThreadKeeps, JoinDoneKeeps
     DEF MainStep
<1>2. ASSUME NEW p \in Producers, ProducerStep(p)
      PROVE  IInv'
  <2>1. PushStep(p) => alive
    BY DEF PushStep, PushEnter, EnterFrom, Push, PushSorted, PushWake, WakeTo,
           PushLeave, LeaveTo, SubmitWork, IInv, ProducerInv, EndedInv
  <2> QED
    BY <1>2, <2>1, PushCallKeeps, PushStepKeeps DEF ProducerStep
<1>3. ASSUME NEW w \in Workers, WorkerStep(w)
      PROVE  IInv'
  BY <1>3, LaunchKeeps, StartKeeps, PopEnterKeeps, PopKeeps, PopWakeKeeps,
     PopLeaveKeeps, PopReturnKeeps, CallbackReturnsKeeps, PushStepKeeps
     DEF WorkerStep
<1>4. ASSUME NEW t \in Threads, SpuriousWakeup(t)
      PROVE  IInv'
  BY <1>4, SpuriousWakeupKeeps
<1>5. CASE UNCHANGED vars
  BY <1>5, UnchangedKeeps
<1> QED
  BY <1>1, <1>2, <1>3, <1>4, <1>5 DEF Next, Terminating

\* The invariant of libcthreads_thread_pool.c.
THEOREM Invariant == Spec => []IInv
<1>1. Init => IInv
  BY InitIInv
<1>2. IInv /\ [Next]_vars => IInv'
  BY NextIInv
<1> QED
  BY <1>1, <1>2, PTL DEF Spec

-----------------------------------------------------------------------------
(* No value is lost.                                                       *)

\* t stores the value that it pushes.
Stores(t) ==
    /\ pc[t] = "push_check" /\ ~ IsFull
    /\ \E array : Store(t, array)
    /\ Queued' = Queued \cup {Argument(t)[2]}

LEMMA PushStores ==
    ASSUME IInv, NEW t \in Producers \cup Workers, Push(t) \/ PushSorted(t)
    PROVE  \/ Stores(t)
           \/ UNCHANGED <<ringVars, value, completed, dropped, accepted>>
<1> DEFINE v == Argument(t)[2]
           Target(offset) == SlotAfter(pop_index, offset)
           last == [values_array EXCEPT ![push_index] = v]
           inserted(offset) == InsertAt(values_array, Target(offset),
                                        push_index, v)
<1>1. pc[t] = "push_check" /\ v \in Values
  BY ArgumentType DEF Push, PushSorted, PushLabels
<1>2. RingOK(values_array, pop_index, push_index, number_of_values)
  BY DEF IInv, RingInv
<1>3. CASE ~ IsFull /\ Store(t, last)
  <2>1. number_of_values # Capacity
    BY <1>3 DEF IsFull
  <2>2. QueuedValues(last, pop_index, number_of_values + 1) =
            QueuedValues(values_array, pop_index, number_of_values) \cup {v}
    BY <1>1, <1>2, <2>1, StoreLastKeepsRing
  <2>3. /\ values_array' = last /\ pop_index' = pop_index
        /\ number_of_values' = number_of_values + 1
    BY <1>3 DEF Store
  <2> QED
    BY <1>1, <1>3, <2>2, <2>3 DEF Stores, Queued
<1>4. ASSUME NEW offset \in 0 .. number_of_values, ~ IsFull,
             Store(t, inserted(offset))
      PROVE  Stores(t)
  <2>1. number_of_values # Capacity
    BY <1>4 DEF IsFull
  <2>2. QueuedValues(inserted(offset), pop_index, number_of_values + 1) =
            QueuedValues(values_array, pop_index, number_of_values) \cup {v}
    BY <1>1, <1>2, <2>1, InsertKeepsRing
  <2>3. /\ values_array' = inserted(offset) /\ pop_index' = pop_index
        /\ number_of_values' = number_of_values + 1
    BY <1>4 DEF Store
  <2> HIDE DEF inserted
  <2> QED
    BY <1>1, <1>4, <2>2, <2>3 DEF Stores, Queued
<1>5. CASE SleepOr(t, "full_condition", "push_wait", "push_leave")
           \/ Refuse(t, 0) \/ Refuse(t, -1)
  BY <1>5 DEF SleepOr, Refuse, workVars
<1> HIDE DEF last, inserted
<1> QED
  BY <1>3, <1>4, <1>5 DEF Push, PushSorted, last, inserted

\* The steps that move a value, and all the others.
LEMMA ValuesMove ==
    ASSUME IInv, [Next]_vars
    PROVE  \/ UNCHANGED <<ringVars, value, completed, dropped, accepted>>
           \/ \E t \in Producers \cup Workers : Stores(t)
           \/ \E w \in Workers : /\ pc[w] = "pop_check" /\ ~ IsEmpty
                                 /\ Fetch(w)
           \/ \E w \in Workers : PopReturn(w) \/ CallbackReturns(w)
<1> DEFINE Still == UNCHANGED <<ringVars, value, completed, dropped, accepted>>
<1>1. MainStep => Still
  BY DEF MainStep, CreateThread, CreateDone, CreateError, JoinCalled, JoinEnter,
         EnterFrom, JoinBegin, JoinCheck, SleepOr, JoinWake, WakeTo, JoinRelease,
         JoinThread, JoinDone, workVars
<1>2. ASSUME NEW t \in Producers \cup Workers, PushStep(t)
      PROVE  Stores(t) \/ Still
  BY <1>2, PushStores
     DEF PushStep, PushEnter, EnterFrom, PushWake, WakeTo, PushLeave, LeaveTo,
         SubmitWork, workVars
<1>3. ASSUME NEW p \in Producers, PushCall(p)
      PROVE  Still
  BY <1>3 DEF PushCall, workVars
<1>4. ASSUME NEW w \in Workers, Pop(w)
      PROVE  Still \/ (pc[w] = "pop_check" /\ ~ IsEmpty /\ Fetch(w))
  BY <1>4 DEF Pop, FindNothing, SleepOr, workVars
<1>5. ASSUME NEW w \in Workers,
             Launch(w) \/ Start(w) \/ PopEnter(w) \/ PopWake(w) \/ PopLeave(w)
      PROVE  Still
  BY <1>5 DEF Launch, Start, PopEnter, EnterFrom, PopWake, WakeTo, PopLeave,
              LeaveTo, workVars
<1>6. ASSUME NEW t \in Threads, SpuriousWakeup(t)
      PROVE  Still
  BY <1>6 DEF SpuriousWakeup, workVars
<1>7. UNCHANGED vars => Still
  BY DEF vars, workVars
<1> HIDE DEF Still
<1> QED
  BY <1>1, <1>2, <1>3, <1>4, <1>5, <1>6, <1>7
     DEF Next, ProducerStep, WorkerStep, Terminating, Still

\* Every value that was queued is in the queue, with a worker, or done with.
LEMMA ValuesKept ==
    ASSUME IInv, ValuesInv, [Next]_vars
    PROVE  ValuesInv'
<1>1. CASE UNCHANGED <<ringVars, value, completed, dropped, accepted>>
  BY <1>1 DEF ValuesInv, Queued, Held, ringVars
<1>2. ASSUME NEW t \in Producers \cup Workers, Stores(t)
      PROVE  ValuesInv'
  BY <1>2 DEF Stores, Store, ValuesInv, Held, workVars
<1>3. ASSUME NEW w \in Workers, pc[w] = "pop_check", ~ IsEmpty, Fetch(w)
      PROVE  ValuesInv'
  <2> DEFINE v == values_array[pop_index]
  <2>1. Queued = Queued' \cup {v} /\ v \in Values
    BY <1>3, FetchKeepsRing DEF IInv, RingInv, Queued, Fetch, IsEmpty
  <2>2. Held' = Held \cup {v}
    <3>1. value' = [value EXCEPT ![w] = v] /\ value[w] = NoValue
      BY <1>3 DEF Fetch, IInv, WorkerInv
    <3>2. value \in [Workers -> Values \cup {NoValue}]
      BY DEF IInv, TypeOK
    <3> HIDE DEF v
    <3> QED
      BY <2>1, <3>1, <3>2, RingAssumption DEF Held
  <2>3. UNCHANGED <<completed, dropped, accepted>>
    BY <1>3 DEF Fetch
  <2> QED
    BY <2>1, <2>2, <2>3 DEF ValuesInv
<1>4. ASSUME NEW w \in Workers, PopReturn(w) \/ CallbackReturns(w)
      PROVE  ValuesInv'
  <2>1. UNCHANGED <<ringVars, accepted>>
    BY <1>4 DEF PopReturn, CallbackReturns
  <2>2. CASE UNCHANGED <<value, completed, dropped>>
    BY <2>1, <2>2 DEF ValuesInv, Queued, Held, ringVars
  <2>3. CASE /\ value' = [value EXCEPT ![w] = NoValue]
             /\ completed' \cup dropped' =
                   completed \cup dropped \cup ({value[w]} \ {NoValue})
    <3>1. value \in [Workers -> Values \cup {NoValue}]
      BY DEF IInv, TypeOK
    <3>2. Held = Held' \cup ({value[w]} \ {NoValue})
      BY <2>3, <3>1 DEF Held
    <3> QED
      BY <2>1, <2>3, <3>2 DEF ValuesInv, Queued, ringVars
  <2>4. CallbackReturns(w) => value[w] \in Values
    BY DEF CallbackReturns, IInv, WorkerInv
  <2> QED
    BY <1>4, <2>2, <2>3, <2>4, RingAssumption DEF PopReturn, CallbackReturns
<1> QED
  BY <1>1, <1>2, <1>3, <1>4, ValuesMove

-----------------------------------------------------------------------------
(* What is left in the queue when join has seen it empty.                  *)

\* Only a push makes the queue longer, and none begins after the join.
LEMMA EndKept ==
    ASSUME IInv, IInv', EndInv, [Next]_vars
    PROVE  EndInv'
<1> USE PoolAssumption
    DEF EndInv, LooksAgain, StopsUnnoticed, Threads, Goto, Answer, CanFail,
        Fail, Succeed,
        ringVars, workVars, mainVars, systemVars
<1>t. /\ pc \in [Threads -> PushLabels \cup WorkerLabels \cup MainLabels
                                \cup {"idle"}]
      /\ answer \in [Threads -> {-1, 0, 1}]
      /\ pc[Main] \in MainLabels
      /\ \A p \in Producers : pc[p] \in PushLabels \cup {"idle"}
      /\ \A w \in Workers : pc[w] \in PushLabels \cup WorkerLabels
      /\ thread_result \in [Workers -> {NoValue, -1, 1}]
      /\ number_of_values \in 0 .. Capacity
  BY DEF IInv, TypeOK
<1> USE <1>t DEF PushLabels, WorkerLabels, MainLabels
<1>1. CASE CreateThread
  BY <1>1 DEF CreateThread, Created
<1>2. CASE CreateDone \/ JoinCalled \/ JoinBegin
  BY <1>2 DEF CreateDone, JoinCalled, JoinBegin
<1>3. CASE CreateError \/ JoinEnter
  BY <1>3 DEF CreateError, JoinEnter, EnterFrom
<1>4. CASE JoinCheck
  BY <1>4 DEF JoinCheck, SleepOr
<1>5. CASE JoinWake \/ JoinRelease \/ JoinThread \/ JoinDone
  BY <1>5 DEF JoinWake, WakeTo, JoinRelease, JoinThread, JoinDone
<1>6. ASSUME NEW p \in Producers, PushCall(p)
      PROVE  EndInv'
  BY <1>6 DEF PushCall
<1>7. ASSUME NEW p \in Producers, PushStep(p)
      PROVE  EndInv'
  <2>1. pc'[Main] = "created"
    BY <1>7
       DEF IInv, ProducerInv, PushStep, PushEnter, EnterFrom, Push, PushSorted,
           SleepOr, Store, Refuse, PushWake, WakeTo, PushLeave, LeaveTo, SubmitWork
  <2> QED
    BY <2>1
<1>8. ASSUME NEW w \in Workers, PushStep(w)
      PROVE  EndInv'
  <2>1. pc[w] \in PushLabels /\ pc'[w] \in PushLabels \cup {"callback"}
    BY <1>8
       DEF PushStep, PushEnter, EnterFrom, Push, PushSorted,
           SleepOr, Store, Refuse, PushWake, WakeTo, PushLeave, LeaveTo, SubmitWork,
           AfterPush, AfterLeave
  <2>2. \E v \in Values : Spawn[v] # <<>>
    BY <2>1 DEF IInv, WorkerInv
  <2> QED
    BY <2>1, <2>2
<1>9. ASSUME NEW w \in Workers, Launch(w) \/ Start(w)
      PROVE  EndInv'
  BY <1>9 DEF Launch, Start
<1>10. ASSUME NEW w \in Workers, PopEnter(w) \/ PopWake(w)
       PROVE  EndInv'
  BY <1>10 DEF PopEnter, PopWake, EnterFrom, WakeTo
<1>11. ASSUME NEW w \in Workers, Pop(w)
       PROVE  EndInv'
  BY <1>11 DEF Pop, Fetch, FindNothing, SleepOr, IsEmpty, Announce
<1>12. ASSUME NEW w \in Workers, PopLeave(w)
       PROVE  EndInv'
  BY <1>12 DEF PopLeave, LeaveTo
<1>13. ASSUME NEW w \in Workers, PopReturn(w)
       PROVE  EndInv'
  BY <1>13 DEF PopReturn
<1>14. ASSUME NEW w \in Workers, CallbackReturns(w)
       PROVE  EndInv'
  BY <1>14 DEF CallbackReturns, AfterCallback
<1>15. CASE UNCHANGED vars \/ \E t \in Threads : SpuriousWakeup(t)
  BY <1>15 DEF vars, SpuriousWakeup
<1> QED
  BY <1>1, <1>2, <1>3, <1>4, <1>5, <1>6, <1>7, <1>8, <1>9, <1>10, <1>11, <1>12,
     <1>13, <1>14, <1>15
     DEF Next, MainStep, ProducerStep, WorkerStep, Terminating

-----------------------------------------------------------------------------
(* With work items, one is under way for every value.                      *)

LEMMA WorkIsFinite ==
    /\ IsFiniteSet(Threads) /\ IsFiniteSet(Poppers)
    /\ IsFiniteSet(SureSubmitters) /\ IsFiniteSet(Submitters)
    /\ Cardinality(Poppers) \in Nat /\ Cardinality(SureSubmitters) \in Nat
    /\ Cardinality(Submitters) \in Nat
<1>1. IsFiniteSet(Workers)
  BY PoolAssumption, FS_Interval DEF Workers
<1>2. IsFiniteSet(Threads)
  BY <1>1, PoolAssumption, FS_Union, FS_Singleton DEF Threads
<1>3. Poppers \subseteq Workers
  BY DEF Poppers
<1>4. SureSubmitters \subseteq Threads /\ Submitters \subseteq Threads
  BY DEF SureSubmitters, Submitters
<1>5. /\ IsFiniteSet(Poppers) /\ IsFiniteSet(SureSubmitters)
      /\ IsFiniteSet(Submitters)
  BY <1>1, <1>2, <1>3, <1>4, FS_Subset
<1> QED
  BY <1>2, <1>5, FS_CardinalityType

LEMMA WorkIsFiniteNext ==
    /\ Cardinality(Poppers') \in Nat /\ Cardinality(SureSubmitters') \in Nat
<1>1. IsFiniteSet(Workers)
  BY PoolAssumption, FS_Interval DEF Workers
<1>2. IsFiniteSet(Threads)
  BY <1>1, PoolAssumption, FS_Union, FS_Singleton DEF Threads
<1>3. Poppers' \subseteq Workers /\ SureSubmitters' \subseteq Threads
  BY DEF Poppers, SureSubmitters
<1> QED
  BY <1>1, <1>2, <1>3, FS_Subset, FS_CardinalityType

\* One more thread, or one less, in one of the two sets.
LEMMA WorkCounts ==
    ASSUME NEW t
    PROVE  /\ Poppers' = Poppers \cup {t} /\ t \notin Poppers =>
                Cardinality(Poppers') = Cardinality(Poppers) + 1
           /\ Poppers' = Poppers \ {t} /\ t \in Poppers =>
                Cardinality(Poppers') = Cardinality(Poppers) - 1
           /\ SureSubmitters' = SureSubmitters \cup {t} /\ t \notin SureSubmitters =>
                Cardinality(SureSubmitters') = Cardinality(SureSubmitters) + 1
           /\ SureSubmitters' = SureSubmitters \ {t} /\ t \in SureSubmitters =>
                Cardinality(SureSubmitters') = Cardinality(SureSubmitters) - 1
<1>1. IsFiniteSet(Poppers) /\ IsFiniteSet(SureSubmitters)
  BY WorkIsFinite
<1>2. \A S, T : IsFiniteSet(S) /\ T = S \cup {t} /\ t \notin S =>
          Cardinality(T) = Cardinality(S) + 1
  BY FS_AddElement
<1>3. \A S, T : IsFiniteSet(S) /\ T = S \ {t} /\ t \in S =>
          Cardinality(T) = Cardinality(S) - 1
  BY FS_RemoveElement
<1> QED
  BY <1>1, <1>2, <1>3

LEMMA WorkKept ==
    ASSUME IInv, IInv', WorkInv, [Next]_vars
    PROVE  WorkInv'
<1> SUFFICES ASSUME build' = "work_items", "submit" \notin failures'
             PROVE  number_of_values' <= work_items'
                        + Cardinality(Poppers') + Cardinality(SureSubmitters')
  BY DEF WorkInv
<1>b. build' = build
  BY DEF Next, MainStep, CreateThread, CreateDone, CreateError, JoinCalled,
         JoinEnter, JoinBegin, JoinCheck, JoinWake, JoinRelease, JoinThread,
         JoinDone, ProducerStep, PushCall, WorkerStep, Launch, Start, PopEnter,
         Pop, PopWake, PopLeave, PopReturn, CallbackReturns, PushStep,
         PushEnter, Push, PushSorted, PushWake, PushLeave, SubmitWork,
         EnterFrom, WakeTo, LeaveTo, SpuriousWakeup, Terminating, vars,
         systemVars
<1>f. failures \subseteq failures'
  BY DEF Next, MainStep, CreateThread, CreateDone, CreateError, JoinCalled,
         JoinEnter, JoinBegin, Announce, JoinCheck, SleepOr, JoinWake,
         JoinRelease, JoinThread, JoinDone, ProducerStep, PushCall, WorkerStep,
         Launch, Start, PopEnter, Pop, Fetch, FindNothing, PopWake, PopLeave,
         PopReturn, CallbackReturns, PushStep, PushEnter, Push, PushSorted,
         Store, PushWake, PushLeave, SubmitWork, EnterFrom, WakeTo, LeaveTo,
         SpuriousWakeup, Terminating, vars, Fail, Succeed
<1>w. number_of_values <= work_items + Cardinality(Poppers)
                                     + Cardinality(SureSubmitters)
  BY <1>b, <1>f DEF WorkInv
<1>n. /\ number_of_values \in Nat /\ work_items \in Nat
      /\ number_of_values' \in Nat /\ work_items' \in Nat
      /\ Cardinality(Poppers) \in Nat /\ Cardinality(SureSubmitters) \in Nat
      /\ Cardinality(Poppers') \in Nat /\ Cardinality(SureSubmitters') \in Nat
  BY WorkIsFinite, WorkIsFiniteNext DEF IInv, TypeOK
<1> DEFINE Enough == number_of_values <= work_items + Cardinality(Poppers)
                                                  + Cardinality(SureSubmitters)
           Still == UNCHANGED <<number_of_values, work_items>>
           SamePoppers == Poppers' = Poppers
           SameSubmitters == SureSubmitters' = SureSubmitters
<1>1. CASE Still /\ SamePoppers /\ SameSubmitters
  BY <1>1, <1>w
<1>2. CASE number_of_values' = 0
  BY <1>2, <1>n
<1>3. ASSUME NEW t, t \notin SureSubmitters, number_of_values' = number_of_values + 1,
             SureSubmitters' = SureSubmitters \cup {t}, SamePoppers,
             UNCHANGED work_items
      PROVE  Enough'
  <2>1. Cardinality(SureSubmitters') = Cardinality(SureSubmitters) + 1
    BY <1>3, WorkCounts
  <2> QED
    BY <1>3, <1>w, <1>n, <2>1
<1>4. ASSUME NEW t, t \notin SureSubmitters, Still, SamePoppers,
             SureSubmitters' = SureSubmitters \cup {t}
      PROVE  Enough'
  <2>1. Cardinality(SureSubmitters') = Cardinality(SureSubmitters) + 1
    BY <1>4, WorkCounts
  <2> QED
    BY <1>4, <1>w, <1>n, <2>1
<1>5. ASSUME NEW t, t \in SureSubmitters, UNCHANGED number_of_values,
             work_items' = work_items + 1, SamePoppers,
             SureSubmitters' = SureSubmitters \ {t}
      PROVE  Enough'
  <2>1. Cardinality(SureSubmitters') = Cardinality(SureSubmitters) - 1
    BY <1>5, WorkCounts
  <2> QED
    BY <1>5, <1>w, <1>n, <2>1
<1>6. ASSUME NEW w, w \notin Poppers, UNCHANGED number_of_values,
             work_items' = work_items - 1, SameSubmitters,
             Poppers' = Poppers \cup {w}
      PROVE  Enough'
  <2>1. Cardinality(Poppers') = Cardinality(Poppers) + 1
    BY <1>6, WorkCounts
  <2> QED
    BY <1>6, <1>w, <1>n, <2>1
<1>7. ASSUME NEW w, w \in Poppers, number_of_values' = number_of_values - 1,
             UNCHANGED work_items, SameSubmitters,
             Poppers' = Poppers \ {w}
      PROVE  Enough'
  <2>1. Cardinality(Poppers') = Cardinality(Poppers) - 1
    BY <1>7, WorkCounts
  <2> QED
    BY <1>7, <1>w, <1>n, <2>1
<1> USE PoolAssumption
    DEF Threads, Goto, Answer, CanFail, Fail, Succeed, ringVars, workVars,
        mainVars, systemVars, Poppers, SureSubmitters
<1>t. /\ pc \in [Threads -> PushLabels \cup WorkerLabels \cup MainLabels
                                \cup {"idle"}]
      /\ answer \in [Threads -> {-1, 0, 1}]
      /\ pc[Main] \in MainLabels
      /\ \A p \in Producers : pc[p] \in PushLabels \cup {"idle"}
      /\ \A w \in Workers : pc[w] \in PushLabels \cup WorkerLabels
      /\ number_of_values \in 0 .. Capacity
  BY DEF IInv, TypeOK
<1> USE <1>t, <1>b DEF PushLabels, WorkerLabels, MainLabels
<1> DEFINE Same == Still /\ SamePoppers /\ SameSubmitters
<1>8. ASSUME MainStep
      PROVE  Same
  <2>1. /\ Still
        /\ \A w \in Workers : pc'[w] = pc[w]
        /\ \A t \in Threads : t # Main => pc'[t] = pc[t] /\ answer'[t] = answer[t]
        /\ pc'[Main] \in MainLabels
    BY <1>8
       DEF MainStep, CreateThread, CreateDone, CreateError, JoinCalled,
           JoinEnter, EnterFrom, JoinBegin, Announce, JoinCheck, SleepOr,
           JoinWake, WakeTo, JoinRelease, JoinThread, JoinDone
  <2>2. SamePoppers
    BY <2>1
  <2>3. SameSubmitters
    BY <2>1
  <2> QED
    BY <2>1, <2>2, <2>3
<1>9. ASSUME NEW p \in Producers, PushCall(p)
      PROVE  Same
  BY <1>9 DEF PushCall
<1>10. ASSUME NEW t \in Producers \cup Workers,
              PushEnter(t) \/ PushWake(t) \/ PushLeave(t)
       PROVE  Same
  BY <1>10 DEF PushEnter, EnterFrom, PushWake, WakeTo, PushLeave, LeaveTo,
               AfterLeave, AfterPush
<1>11. ASSUME NEW t \in Producers \cup Workers, Push(t) \/ PushSorted(t)
       PROVE  Enough'
  <2>1. /\ pc[t] = "push_check" /\ t \notin SureSubmitters /\ t \notin Poppers
        /\ UNCHANGED systemVars
    BY <1>11 DEF Push, PushSorted
  <2>2. CASE SleepOr(t, "full_condition", "push_wait", "push_leave")
    <3>1. Same
      BY <2>1, <2>2 DEF SleepOr
    <3> QED
      BY <1>1, <3>1
  <2>3. ASSUME NEW array, Store(t, array)
        PROVE  Enough'
    <3>1. SamePoppers /\ SureSubmitters' = SureSubmitters \cup {t}
      BY <2>1, <2>3 DEF Store, Announce
    <3> QED
      BY <1>3, <2>1, <2>3, <3>1 DEF Store
  <2>4. CASE Refuse(t, -1)
    <3>1. Same
      BY <2>1, <2>4 DEF Refuse
    <3> QED
      BY <1>1, <3>1
  <2>5. CASE Refuse(t, 0)
    <3>1. Still /\ SamePoppers /\ SureSubmitters' = SureSubmitters \cup {t}
      BY <2>1, <2>5 DEF Refuse
    <3> QED
      BY <1>4, <2>1, <3>1
  <2> QED
    BY <1>11, <2>2, <2>3, <2>4, <2>5 DEF Push, PushSorted
<1>12. ASSUME NEW t \in Producers \cup Workers, SubmitWork(t)
       PROVE  Enough'
  <2>1. /\ t \in SureSubmitters /\ UNCHANGED number_of_values
        /\ work_items' = work_items + 1
    BY <1>12 DEF SubmitWork
  <2>2. SamePoppers /\ SureSubmitters' = SureSubmitters \ {t}
    BY <1>12 DEF SubmitWork, AfterPush
  <2> QED
    BY <1>5, <2>1, <2>2
<1>13. ASSUME NEW w \in Workers, Launch(w)
       PROVE  Enough'
  <2>1. /\ w \notin Poppers /\ UNCHANGED number_of_values
        /\ work_items' = work_items - 1
    BY <1>13 DEF Launch
  <2>2. SameSubmitters /\ Poppers' = Poppers \cup {w}
    BY <1>13 DEF Launch
  <2> QED
    BY <1>6, <2>1, <2>2
<1>14. ASSUME NEW w \in Workers,
              \/ Start(w) \/ PopEnter(w) \/ PopWake(w) \/ PopLeave(w)
              \/ PopReturn(w) \/ CallbackReturns(w)
       PROVE  Same
  <2>1. CASE PopEnter(w) \/ PopWake(w) \/ PopLeave(w)
    BY <2>1 DEF PopEnter, EnterFrom, PopWake, WakeTo, PopLeave, LeaveTo
  <2>2. CASE PopReturn(w) \/ CallbackReturns(w)
    BY <2>2 DEF PopReturn, CallbackReturns, Out, AfterCallback
  <2>3. ~ Start(w)
    BY DEF Start
  <2> QED
    BY <1>14, <2>1, <2>2, <2>3
<1>15. ASSUME NEW w \in Workers, Pop(w)
       PROVE  Enough'
  <2>1. CASE ~ IsEmpty /\ Fetch(w)
    <3>1. /\ w \in Poppers /\ UNCHANGED work_items
          /\ number_of_values' = number_of_values - 1
      BY <1>15, <2>1 DEF Pop, Fetch
    <3>2. SameSubmitters /\ Poppers' = Poppers \ {w}
      BY <1>15, <2>1 DEF Pop, Fetch, Announce
    <3> QED
      BY <1>7, <3>1, <3>2
  <2>2. CASE IsEmpty /\ UNCHANGED number_of_values
    BY <1>2, <2>2 DEF IsEmpty
  <2> QED
    BY <1>15, <2>1, <2>2 DEF Pop, FindNothing, SleepOr
<1>16. ASSUME UNCHANGED vars \/ \E t \in Threads : SpuriousWakeup(t)
       PROVE  Same
  BY <1>16 DEF vars, SpuriousWakeup
<1> HIDE DEF Enough, Same
<1>17. Same => Enough'
  BY <1>1 DEF Same, Enough
<1>18. Enough'
  BY <1>8, <1>9, <1>10, <1>11, <1>12, <1>13, <1>14, <1>15, <1>16, <1>17
     DEF Next, PushStep, ProducerStep, WorkerStep, Terminating
<1> QED
  BY <1>18 DEF Enough

-----------------------------------------------------------------------------
(* The properties.                                                         *)

LEMMA InitValues == Init => ValuesInv /\ EndInv /\ WorkInv
<1> SUFFICES ASSUME Init
             PROVE  ValuesInv /\ EndInv /\ WorkInv
  OBVIOUS
<1>1. /\ number_of_values = 0 /\ work_items = 0
      /\ value = [w \in Workers |-> NoValue]
      /\ accepted = {} /\ completed = {} /\ dropped = {}
  BY DEF Init
<1>2. Queued = {} /\ Held = {}
  BY <1>1 DEF Queued, QueuedValues, Held
<1> QED
  BY <1>1, <1>2, WorkIsFinite DEF ValuesInv, EndInv, WorkInv

\* Where the values are, what join may leave behind and who works on it.
THEOREM ValuesInvariant == Spec => [](ValuesInv /\ EndInv /\ WorkInv)
<1>1. Init => ValuesInv /\ EndInv /\ WorkInv
  BY InitValues
<1>2. IInv /\ IInv' /\ ValuesInv /\ EndInv /\ WorkInv /\ [Next]_vars
        => ValuesInv' /\ EndInv' /\ WorkInv'
  BY ValuesKept, EndKept, WorkKept
<1> QED
  BY <1>1, <1>2, Invariant, PTL DEF Spec

\* Type correctness of libcthreads_thread_pool.c: every index stays inside
\* values_array, for every capacity, number of threads and set of failing calls.
THEOREM TypeCorrect == Spec => []TypeOK
<1>1. IInv => TypeOK
  BY DEF IInv
<1> QED
  BY <1>1, Invariant, PTL

\* Until a broadcast fails, a worker that waits for a value, a push that waits
\* for a slot and the join that waits for the end have been woken up, or have no
\* reason to be.
THEOREM NoWakeupIsLost == Spec => []NoLostWakeup
<1>1. IInv => NoLostWakeup
  BY DEF IInv
<1> QED
  BY <1>1, Invariant, PTL

\* Nobody is inside a pool that libcthreads_thread_pool_join, or a create that
\* failed, has freed, but for the workers for which pthread_join, or
\* WaitForSingleObject, has failed: the code goes on and frees the pool under
\* them, after it has waited for all the others.
THEOREM FreedUnderNobody == Spec => []FreedWhenUnused
<1>1. IInv => FreedWhenUnused
  BY DEF IInv
<1> QED
  BY <1>1, Invariant, PTL

\* Pushes that submit a work item of the system after the value is queued, and
\* without the mutex, leave no value without one until a submission fails.
THEOREM NoValueIsForgotten == Spec => []WorkForEveryValue
<1>1. IInv /\ WorkInv => WorkForEveryValue
  <2> SUFFICES ASSUME IInv, WorkInv
               PROVE  WorkForEveryValue
    OBVIOUS
  <2>1. SureSubmitters \subseteq Submitters
    BY DEF SureSubmitters, Submitters
  <2>2. Cardinality(SureSubmitters) <= Cardinality(Submitters)
    BY <2>1, WorkIsFinite, FS_Subset
  <2>3. number_of_values \in Nat /\ work_items \in Nat
    BY DEF IInv, TypeOK
  <2> QED
    BY <2>2, <2>3, WorkIsFinite DEF WorkInv, WorkForEveryValue
<1> QED
  BY <1>1, Invariant, ValuesInvariant, PTL

\* libcthreads_thread_pool_join returns 1 only after every value was handled,
\* except where the builds for Windows do not learn that nobody is left to
\* handle what a callback has pushed, and -1 only when a callback has failed in
\* the pthread build, or a call of create, of join or of the pop of a worker.
THEOREM JoinIsTruthful == Spec => []JoinTellsTheTruth
<1>1. IInv /\ ValuesInv /\ EndInv /\ WorkInv => JoinTellsTheTruth
  <2> SUFFICES ASSUME IInv, ValuesInv, EndInv, WorkInv, pc[Main] = "ended"
               PROVE  /\ answer[Main] = 1 =>
                            /\ \/ StopsUnnoticed /\ \E v \in Values : Spawn[v] # <<>>
                               \/ accepted = completed \cup dropped
                            /\ build = "pthread" => dropped = {} /\ ~ failed
                      /\ answer[Main] = -1 =>
                            \/ build = "pthread" /\ failed
                            \/ FailuresOfJoin # {}
    BY DEF JoinTellsTheTruth
  <2>1. answer[Main] = -1 =>
            (build = "pthread" /\ failed) \/ FailuresOfJoin # {}
    BY DEF IInv, JoinInv, JoinFailed
  <2>2. ASSUME answer[Main] = 1
        PROVE  /\ \A w \in Workers : pc[w] \in {"none", "exited"}
               /\ \A w \in Workers : thread_result[w] # -1
               /\ work_items = 0
    BY <2>2 DEF IInv, EndedInv, UnjoinedInv, FreedWhenUnused
  <2>3. ASSUME answer[Main] = 1, build = "pthread"
        PROVE  dropped = {} /\ ~ failed
    BY <2>2, <2>3 DEF IInv, ReportInv
  <2>4. ASSUME answer[Main] = 1, number_of_values # 0
        PROVE  StopsUnnoticed /\ \E v \in Values : Spawn[v] # <<>>
    <3>1. \E v \in Values : Spawn[v] # <<>>
      BY <2>4 DEF EndInv
    <3>2. build # "work_items" => StopsUnnoticed
      <4>1. ASSUME NEW w \in Workers
            PROVE  ~ LooksAgain(w)
        BY <2>2, <2>4 DEF LooksAgain, PushLabels
      <4> QED
        BY <2>4, <4>1 DEF EndInv
    <3>3. build = "work_items" => StopsUnnoticed
      <4> SUFFICES ASSUME build = "work_items", "submit" \notin failures
                   PROVE  FALSE
        BY DEF StopsUnnoticed
      <4>1. Poppers = {}
        BY <2>2, <2>4 DEF Poppers
      <4>2. SureSubmitters = {}
        BY <2>2, <2>4, PoolAssumption
           DEF SureSubmitters, Threads, IInv, ProducerInv
      <4>3. number_of_values <= 0
        BY <2>2, <2>4, <4>1, <4>2, FS_EmptySet DEF WorkInv
      <4> QED
        BY <2>4, <4>3 DEF IInv, TypeOK
    <3> QED
      BY <3>1, <3>2, <3>3
  <2>5. ASSUME answer[Main] = 1, number_of_values = 0
        PROVE  accepted = completed \cup dropped
    <3>1. Queued = {}
      BY <2>5 DEF Queued, QueuedValues
    <3>2. Held = {}
      BY <2>2, <2>5 DEF Held, IInv, WorkerInv
    <3> QED
      BY <3>1, <3>2 DEF ValuesInv
  <2> QED
    BY <2>1, <2>3, <2>4, <2>5
<1> QED
  BY <1>1, Invariant, ValuesInvariant, PTL
=============================================================================
