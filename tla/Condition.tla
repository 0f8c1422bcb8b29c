----------------------------- MODULE Condition -----------------------------
(***************************************************************************)
(* libcthreads_mutex.c with libcthreads_condition.c: one mutex and one     *)
(* condition.  The pthread build calls pthread_mutex and pthread_cond.     *)
(* The build for Windows before Vista makes the condition from a semaphore *)
(* on which threads wait, a count of these threads, and an event by which  *)
(* the last thread of a broadcast tells the broadcaster that all are out.  *)
(*                                                                         *)
(* One step is what happens between two calls of the system that others    *)
(* can notice: the critical section around the count is held for one step. *)
(* A released semaphore may be taken by any thread that waits for it, the  *)
(* one that comes last included.  As the comments of the functions demand, *)
(* wait, signal and broadcast are called with the mutex held.              *)
(***************************************************************************)
EXTENDS Calls

CONSTANTS SemaphoreMax  \* the maximum count of the semaphore, INT_MAX

\* There are fewer threads than that.
ASSUME ConditionAssumption ==
    /\ SemaphoreMax \in Nat
    /\ Cardinality(Threads) <= SemaphoreMax

VARIABLES owner,        \* the thread that holds the mutex
          blocked,      \* threads that wait for the condition or semaphore
          number_of_waiting_threads, signal_is_broadcast,
          semaphore,    \* the count of signal_semaphore
          signal_event, \* the event, reset by the wait that it satisfies
          cond_pc       \* where a thread is in the functions

winCondVars == <<number_of_waiting_threads, signal_is_broadcast, semaphore,
                 signal_event>>
condVars == <<owner, blocked, winCondVars, cond_pc>>

CondLabels ==
    {"out", "grab", "try_grab", "release",
     "wait", "wait_sleep", "wait_blocked", "wait_uncount", "wait_last",
     "wait_mutex", "signal", "signal_release", "broadcast",
     "broadcast_wait", "broadcast_end"}

ConditionTypeOK ==
    /\ CallsTypeOK
    /\ owner \in Threads \cup {NoThread}
    /\ blocked \subseteq Threads
    /\ number_of_waiting_threads \in 0 .. SemaphoreMax
    /\ signal_is_broadcast \in BOOLEAN
    /\ semaphore \in 0 .. SemaphoreMax
    /\ signal_event \in BOOLEAN
    /\ cond_pc \in [Threads -> CondLabels]

ConditionInit ==
    /\ owner = NoThread
    /\ blocked = {}
    /\ number_of_waiting_threads = 0
    /\ signal_is_broadcast = FALSE
    /\ semaphore = 0
    /\ signal_event = FALSE
    /\ cond_pc = [t \in Threads |-> "out"]

CondGoto(t, label) == cond_pc' = [cond_pc EXCEPT ![t] = label]

CondCall(t, to) ==
    /\ cond_pc[t] = "out"
    /\ CondGoto(t, to)
    /\ UNCHANGED <<owner, blocked, winCondVars, callVars>>

CallGrab(t) == owner # t /\ CondCall(t, "grab")
CallTryGrab(t) == owner # t /\ CondCall(t, "try_grab")
CallRelease(t) == owner = t /\ CondCall(t, "release")
CallWait(t) == owner = t /\ CondCall(t, "wait")
CallSignal(t) == owner = t /\ CondCall(t, "signal")
CallBroadcast(t) == owner = t /\ CondCall(t, "broadcast")

-----------------------------------------------------------------------------
(* The mutex.                                                              *)

Acquire(t) == owner = NoThread /\ owner' = t

MutexGrab(t) ==
    /\ cond_pc[t] = "grab"
    /\ \/ Acquire(t) /\ Return(t)
       \/ ReturnError(t, "grab") /\ UNCHANGED owner
    /\ CondGoto(t, "out")
    /\ UNCHANGED <<build, blocked, winCondVars>>

\* Mutant of MutexTryGrab: the mutex is taken from whoever holds it.
MutexTryGrabAlways(t) ==
    /\ cond_pc[t] = "try_grab"
    /\ owner' = t /\ Return(t)
    /\ CondGoto(t, "out")
    /\ UNCHANGED <<build, blocked, winCondVars>>

\* Result 0 when another thread holds the mutex.
MutexTryGrab(t) ==
    /\ cond_pc[t] = "try_grab"
    /\ \/ Acquire(t) /\ Return(t)
       \/ owner # NoThread /\ Answer(t, 0) /\ Succeed /\ UNCHANGED owner
       \/ ReturnError(t, "grab") /\ UNCHANGED owner
    /\ CondGoto(t, "out")
    /\ UNCHANGED <<build, blocked, winCondVars>>

MutexRelease(t) ==
    /\ cond_pc[t] = "release"
    /\ \/ owner' = NoThread /\ Return(t)
       \/ ReturnError(t, "release") /\ UNCHANGED owner
    /\ CondGoto(t, "out")
    /\ UNCHANGED <<build, blocked, winCondVars>>

MutexStep(t) == MutexGrab(t) \/ MutexTryGrab(t) \/ MutexRelease(t)

\* The end of a wait: the thread gets the mutex back.
WaitMutex(t) ==
    /\ cond_pc[t] = "wait_mutex"
    /\ \/ Acquire(t) /\ Return(t)
       \/ build = "winapi" /\ ReturnError(t, "rejoin") /\ UNCHANGED owner
    /\ CondGoto(t, "out")
    /\ UNCHANGED <<build, blocked, winCondVars>>

-----------------------------------------------------------------------------
(* The pthread build.  It wakes a waiting thread by taking it out of the   *)
(* set of blocked threads.                                                 *)

CondWait(t) ==
    /\ cond_pc[t] = "wait"
    /\ \/ /\ owner' = NoThread
          /\ blocked' = blocked \cup {t}
          /\ CondGoto(t, "wait_blocked")
          /\ Silent
       \/ /\ ReturnError(t, "wait")
          /\ CondGoto(t, "out")
          /\ UNCHANGED <<owner, blocked>>

CondAwake(t) ==
    /\ cond_pc[t] = "wait_blocked"
    /\ t \notin blocked
    /\ CondGoto(t, "wait_mutex")
    /\ Silent
    /\ UNCHANGED <<owner, blocked>>

CondSignal(t) ==
    /\ cond_pc[t] = "signal"
    /\ \/ blocked = {} /\ Return(t) /\ UNCHANGED blocked
       \/ \E w \in blocked : blocked' = blocked \ {w} /\ Return(t)
       \/ ReturnError(t, "signal") /\ UNCHANGED blocked
    /\ CondGoto(t, "out")
    /\ UNCHANGED owner

CondBroadcast(t) ==
    /\ cond_pc[t] = "broadcast"
    /\ \/ blocked' = {} /\ Return(t)
       \/ ReturnError(t, "signal") /\ UNCHANGED blocked
    /\ CondGoto(t, "out")
    /\ UNCHANGED owner

PthreadCondStep(t) ==
    /\ build = "pthread"
    /\ CondWait(t) \/ CondAwake(t) \/ CondSignal(t) \/ CondBroadcast(t)
    /\ UNCHANGED <<build, winCondVars>>

-----------------------------------------------------------------------------
(* The build for Windows before Vista: wait.                               *)

WinWait(t) ==
    /\ cond_pc[t] = "wait"
    /\ number_of_waiting_threads' = number_of_waiting_threads + 1
    /\ CondGoto(t, "wait_sleep")
    /\ Silent
    /\ UNCHANGED <<owner, blocked, signal_is_broadcast, semaphore,
                   signal_event>>

\* SignalObjectAndWait releases the mutex.  When it fails the thread is
\* still counted as waiting.
WinSleep(t) ==
    /\ cond_pc[t] = "wait_sleep"
    /\ \/ /\ owner' = NoThread
          /\ blocked' = blocked \cup {t}
          /\ CondGoto(t, "wait_blocked")
          /\ Silent
       \/ /\ ReturnError(t, "wait")
          /\ CondGoto(t, "out")
          /\ UNCHANGED <<owner, blocked>>
    /\ UNCHANGED <<winCondVars>>

WinAwake(t) ==
    /\ cond_pc[t] = "wait_blocked"
    /\ semaphore > 0
    /\ semaphore' = semaphore - 1
    /\ blocked' = blocked \ {t}
    /\ CondGoto(t, "wait_uncount")
    /\ Silent
    /\ UNCHANGED <<owner, number_of_waiting_threads, signal_is_broadcast,
                   signal_event>>

\* Mutant of WinUncount: the first thread reports instead of the last.
WinUncountFirst(t) ==
    /\ cond_pc[t] = "wait_uncount"
    /\ number_of_waiting_threads' = number_of_waiting_threads - 1
    /\ CondGoto(t, IF signal_is_broadcast THEN "wait_last" ELSE "wait_mutex")
    /\ Silent
    /\ UNCHANGED <<owner, blocked, signal_is_broadcast, semaphore,
                   signal_event>>

\* Mutant of WinUncount: the last thread reports also without a broadcast.
WinUncountReportsAlways(t) ==
    /\ cond_pc[t] = "wait_uncount"
    /\ number_of_waiting_threads' = number_of_waiting_threads - 1
    /\ CondGoto(t, IF number_of_waiting_threads = 1
                   THEN "wait_last" ELSE "wait_mutex")
    /\ Silent
    /\ UNCHANGED <<owner, blocked, signal_is_broadcast, semaphore,
                   signal_event>>

WinUncount(t) ==
    /\ cond_pc[t] = "wait_uncount"
    /\ number_of_waiting_threads' = number_of_waiting_threads - 1
    /\ CondGoto(t, IF number_of_waiting_threads = 1 /\ signal_is_broadcast
                   THEN "wait_last" ELSE "wait_mutex")
    /\ Silent
    /\ UNCHANGED <<owner, blocked, signal_is_broadcast, semaphore,
                   signal_event>>

\* SignalObjectAndWait sets the event and waits for the mutex.  When it fails
\* the event need not have been set.
WinLast(t) ==
    /\ cond_pc[t] = "wait_last"
    /\ \/ /\ signal_event' = TRUE
          /\ CondGoto(t, "wait_mutex")
          /\ Silent
       \/ /\ ReturnError(t, "rejoin")
          /\ CondGoto(t, "out")
          /\ UNCHANGED signal_event
    /\ UNCHANGED <<owner, blocked, number_of_waiting_threads,
                   signal_is_broadcast, semaphore>>

-----------------------------------------------------------------------------
(* The build for Windows before Vista: signal and broadcast.               *)

\* ReleaseSemaphore fails also when the count would pass its maximum.
ReleaseSemaphore(n) ==
    /\ semaphore + n <= SemaphoreMax
    /\ semaphore' = semaphore + n

SemaphoreFails(t, n) ==
    /\ \/ ReturnError(t, "semaphore")
       \/ /\ semaphore + n > SemaphoreMax
          /\ Answer(t, -1)
          /\ failures' = failures \cup {"semaphore"}
    /\ UNCHANGED semaphore

WinSignal(t) ==
    /\ cond_pc[t] = "signal"
    /\ IF number_of_waiting_threads > 0
       THEN CondGoto(t, "signal_release") /\ Silent
       ELSE CondGoto(t, "out") /\ Return(t)
    /\ UNCHANGED <<owner, blocked, winCondVars>>

\* Mutant of WinSignalRelease: the semaphore is not released.
WinSignalReleaseNothing(t) ==
    /\ cond_pc[t] = "signal_release"
    /\ Return(t)
    /\ CondGoto(t, "out")
    /\ UNCHANGED <<owner, blocked, winCondVars>>

WinSignalRelease(t) ==
    /\ cond_pc[t] = "signal_release"
    /\ \/ ReleaseSemaphore(1) /\ Return(t)
       \/ SemaphoreFails(t, 1)
    /\ CondGoto(t, "out")
    /\ UNCHANGED <<owner, blocked, number_of_waiting_threads,
                   signal_is_broadcast, signal_event>>

WinBroadcast(t) ==
    LET n == number_of_waiting_threads
    IN /\ cond_pc[t] = "broadcast"
       /\ \/ /\ n = 0
             /\ CondGoto(t, "out") /\ Return(t)
             /\ UNCHANGED <<signal_is_broadcast, semaphore>>
          \/ /\ n > 0
             /\ signal_is_broadcast' = TRUE
             /\ ReleaseSemaphore(n)
             /\ CondGoto(t, "broadcast_wait") /\ Silent
          \/ /\ n > 0
             /\ signal_is_broadcast' = FALSE
             /\ SemaphoreFails(t, n)
             /\ CondGoto(t, "out")
       /\ UNCHANGED <<owner, blocked, number_of_waiting_threads, signal_event>>

\* The broadcaster waits for the event with the mutex held.
WinBroadcastWait(t) ==
    /\ cond_pc[t] = "broadcast_wait"
    /\ \/ /\ signal_event /\ signal_event' = FALSE
          /\ CondGoto(t, "broadcast_end") /\ Silent
          /\ UNCHANGED signal_is_broadcast
       \/ /\ ReturnError(t, "event")
          /\ signal_is_broadcast' = FALSE
          /\ CondGoto(t, "out")
          /\ UNCHANGED signal_event
    /\ UNCHANGED <<owner, blocked, number_of_waiting_threads, semaphore>>

WinBroadcastEnd(t) ==
    /\ cond_pc[t] = "broadcast_end"
    /\ signal_is_broadcast' = FALSE
    /\ CondGoto(t, "out") /\ Return(t)
    /\ UNCHANGED <<owner, blocked, number_of_waiting_threads, semaphore,
                   signal_event>>

WinCondStep(t) ==
    /\ build = "winapi"
    /\ \/ WinWait(t) \/ WinSleep(t) \/ WinAwake(t) \/ WinUncount(t)
       \/ WinLast(t) \/ WinSignal(t) \/ WinSignalRelease(t)
       \/ WinBroadcast(t) \/ WinBroadcastWait(t) \/ WinBroadcastEnd(t)
    /\ UNCHANGED build

ConditionStep(t) ==
    MutexStep(t) \/ WaitMutex(t) \/ PthreadCondStep(t) \/ WinCondStep(t)

\* POSIX lets pthread_cond_wait return without any signal or broadcast.
CondSpuriousWakeup(t) ==
    /\ build = "pthread"
    /\ t \in blocked
    /\ blocked' = blocked \ {t}
    /\ UNCHANGED <<owner, winCondVars, cond_pc, callVars>>

-----------------------------------------------------------------------------
\* The threads that number_of_waiting_threads counts.
Counted ==
    {t \in Threads :
        cond_pc[t] \in {"wait_sleep", "wait_blocked", "wait_uncount"}}

(* A broadcast that succeeds returns when every thread that was waiting    *)
(* has been woken: nobody of them can take, or lose, a later wakeup.       *)
BroadcastReachesAll ==
    [][\A t \in Threads :
          /\ cond_pc[t] \in {"broadcast", "broadcast_end"}
          /\ cond_pc'[t] = "out"
          /\ answer'[t] = 1
          /\ failures' = {}
          => blocked' = {} /\ number_of_waiting_threads' = 0]_condVars

(* While no call fails, the semaphore, the count and the event keep in     *)
(* step: every waiting thread is counted, the event is set only while a    *)
(* broadcast waits for it and after its last thread has left, and during a *)
(* broadcast there is a wakeup for every thread that still waits.          *)
HandshakeInv ==
    build = "winapi" /\ failures = {} =>
        /\ number_of_waiting_threads = Cardinality(Counted)
        /\ signal_event =>
              /\ \E t \in Threads : cond_pc[t] = "broadcast_wait"
              /\ number_of_waiting_threads = 0
        /\ signal_is_broadcast =>
              \E t \in Threads :
                 /\ cond_pc[t] \in {"broadcast_wait", "broadcast_end"}
                 /\ owner = t
                 /\ semaphore >= Cardinality(blocked)
=============================================================================
