------------------------------ MODULE Monitor ------------------------------
(***************************************************************************)
(* One libcthreads mutex and the libcthreads conditions used with it, in   *)
(* the pthread build: libcthreads_mutex_grab and _release wrap             *)
(* pthread_mutex_lock and _unlock, libcthreads_condition_wait, _signal and *)
(* _broadcast wrap pthread_cond_wait, _signal and _broadcast.  The         *)
(* operators are the effect of a call that succeeds; a caller adds the     *)
(* failing call, which leaves these variables as they were.                *)
(***************************************************************************)
CONSTANTS Threads,      \* the threads that share the object
          Conditions,   \* its conditions
          NoThread      \* the owner of a mutex nobody holds, no thread

VARIABLES owner,        \* the thread that holds the mutex
          waiting       \* waiting[c]: the threads blocked on condition c

monitorVars == <<owner, waiting>>

MonitorTypeOK ==
    /\ owner \in Threads \cup {NoThread}
    /\ waiting \in [Conditions -> SUBSET Threads]

MonitorInit ==
    /\ owner = NoThread
    /\ waiting = [c \in Conditions |-> {}]

\* A thread blocks in mutex_grab until the mutex is free, then holds it.
Grab(t) ==
    /\ owner = NoThread
    /\ owner' = t

\* Only the holder releases: the mutex is created with default attributes.
Release(t) ==
    /\ owner = t
    /\ owner' = NoThread

\* condition_wait releases the mutex and blocks in one step.
Wait(t, c) ==
    /\ Release(t)
    /\ waiting' = [waiting EXCEPT ![c] = @ \cup {t}]

\* One of the threads blocked on the condition wakes up, if there is any.
Signal(c) ==
    \/ waiting[c] = {} /\ UNCHANGED waiting
    \/ \E t \in waiting[c] : waiting' = [waiting EXCEPT ![c] = @ \ {t}]

\* Mutant of Broadcast: pthread_cond_signal instead of _broadcast.
BroadcastWakesOne(c) == Signal(c)

\* Every thread blocked on the condition wakes up, and then competes for
\* the mutex (Grab) before condition_wait returns.
Broadcast(c) == waiting' = [waiting EXCEPT ![c] = {}]

Asleep(t) == \E c \in Conditions : t \in waiting[c]

\* POSIX lets pthread_cond_wait return without any signal or broadcast.
WakeSpuriously(t) ==
    /\ Asleep(t)
    /\ waiting' = [c \in Conditions |-> waiting[c] \ {t}]
    /\ UNCHANGED owner
=============================================================================
