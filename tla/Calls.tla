------------------------------- MODULE Calls -------------------------------
(***************************************************************************)
(* What the modules of the single objects share: the threads, the build,   *)
(* the result of the libcthreads function that a thread is in, and the     *)
(* system calls that have failed.                                          *)
(***************************************************************************)
EXTENDS Integers, FiniteSets

CONSTANTS Threads,
          NoThread,     \* the owner of what nobody owns, no thread
          Builds,       \* the builds to look at, "pthread" or "winapi"
          Faults,       \* the system calls that may fail
          MaxFailures   \* bound: different calls that fail in one behaviour

ASSUME CallsAssumption ==
    /\ IsFiniteSet(Threads)
    /\ NoThread \notin Threads
    /\ Builds \subseteq {"pthread", "winapi"}
    /\ MaxFailures \in Nat

VARIABLES answer,       \* answer[t]: what the last function t called returns
          build,        \* the build, the same for ever
          failures      \* history: the system calls that have failed

callVars == <<answer, build, failures>>

CallsTypeOK ==
    /\ answer \in [Threads -> {-1, 0, 1}]
    /\ build \in Builds
    /\ failures \subseteq Faults \cup {"semaphore"}

CallsInit ==
    /\ answer = [t \in Threads |-> 1]
    /\ build \in Builds
    /\ failures = {}

Answer(t, r) == answer' = [answer EXCEPT ![t] = r]

\* The system call named fails and changes nothing.
Fail(call) ==
    /\ call \in Faults
    /\ call \in failures \/ Cardinality(failures) < MaxFailures
    /\ failures' = failures \cup {call}

Succeed == UNCHANGED failures

\* The function t is in returns 1, or -1 because a system call has failed.
Return(t) == Answer(t, 1) /\ Succeed

ReturnError(t, call) == Answer(t, -1) /\ Fail(call)

Silent == UNCHANGED <<answer, failures>>
=============================================================================
