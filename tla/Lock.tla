-------------------------------- MODULE Lock --------------------------------
(***************************************************************************)
(* libcthreads_lock.c: a pthread_mutex or, in every build for Windows, a   *)
(* critical section, whose calls cannot fail.                              *)
(***************************************************************************)
EXTENDS Calls

VARIABLES lock_owner,   \* the thread that holds the lock
          lock_pc       \* where a thread is in the functions

lockVars == <<lock_owner, lock_pc>>

LockTypeOK ==
    /\ lock_owner \in Threads \cup {NoThread}
    /\ lock_pc \in [Threads -> {"out", "grab", "release"}]

LockInit ==
    /\ lock_owner = NoThread
    /\ lock_pc = [t \in Threads |-> "out"]

LockCall(t, to) ==
    /\ lock_pc[t] = "out"
    /\ lock_pc' = [lock_pc EXCEPT ![t] = to]
    /\ UNCHANGED <<lock_owner, callVars>>

\* A thread that holds the lock does not grab it again.
CallLockGrab(t) == lock_owner # t /\ LockCall(t, "grab")
CallLockRelease(t) == lock_owner = t /\ LockCall(t, "release")

\* Mutant of LockGrab: the lock is taken from whoever holds it.
LockGrabAlways(t) ==
    /\ lock_pc[t] = "grab"
    /\ lock_owner' = t /\ Return(t)
    /\ lock_pc' = [lock_pc EXCEPT ![t] = "out"]
    /\ UNCHANGED build

LockGrab(t) ==
    /\ lock_pc[t] = "grab"
    /\ \/ lock_owner = NoThread /\ lock_owner' = t /\ Return(t)
       \/ build = "pthread" /\ ReturnError(t, "lock") /\ UNCHANGED lock_owner
    /\ lock_pc' = [lock_pc EXCEPT ![t] = "out"]
    /\ UNCHANGED build

LockRelease(t) ==
    /\ lock_pc[t] = "release"
    /\ \/ lock_owner' = NoThread /\ Return(t)
       \/ build = "pthread" /\ ReturnError(t, "unlock") /\ UNCHANGED lock_owner
    /\ lock_pc' = [lock_pc EXCEPT ![t] = "out"]
    /\ UNCHANGED build

LockStep(t) == LockGrab(t) \/ LockRelease(t)
=============================================================================
