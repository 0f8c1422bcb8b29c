--------------------------- MODULE QueueWorkload ---------------------------
(***************************************************************************)
(* Threads that use one queue in a fixed way: thread t makes the calls of  *)
(* Script[t] in order, and the queue may be freed when all of them are     *)
(* done.  Only a finite use of the queue can be expected to end: a pthread *)
(* mutex is not fair, so a thread that keeps calling may keep every other  *)
(* one out of the queue for ever.                                          *)
(***************************************************************************)
EXTENDS Queue

CONSTANTS Script,       \* Script[t]: the calls of thread t, <<function, value>>
          MaxSpurious   \* bound: spurious wakeups in one behaviour

ASSUME WorkloadAssumption ==
    /\ Script \in [Threads -> Seq(Operations \X (Values \cup {NoValue}))]
    /\ \A t \in Threads : \A i \in DOMAIN Script[t] :
          Script[t][i][1] \in MayCall[t]
    /\ MaxSpurious \in Nat

VARIABLES made,         \* made[t]: how many calls of its script t has begun
          spurious,     \* spurious wakeups so far
          accepted,     \* the values for which a push returned 1
          popped,       \* the values that calls of pop returned, now the callers'
          dropped       \* the values that a pop took away and then returned -1

historyVars == <<accepted, popped, dropped>>
workloadVars == <<vars, made, spurious, historyVars>>

WInit ==
    /\ Init
    /\ made = [t \in Threads |-> 0]
    /\ spurious = 0
    /\ accepted = {}
    /\ popped = {}
    /\ dropped = {}

Finished(t) == made[t] = Len(Script[t]) /\ pc[t] = "idle"
AllFinished == \A t \in Threads : Finished(t)

NextCall(t) ==
    /\ made[t] < Len(Script[t])
    /\ Call(t, Script[t][made[t] + 1][1], Script[t][made[t] + 1][2])
    /\ made' = [made EXCEPT ![t] = @ + 1]
    /\ UNCHANGED <<spurious, historyVars>>

\* The value of t, when it returns r from one of the functions ops.
Returned(t, ops, r) ==
    IF pc[t] = "return" /\ operation[t] \in ops /\ result[t] = r
    THEN {value[t]} \ {NoValue}
    ELSE {}

Proceed(t) ==
    /\ Step(t)
    /\ accepted' = accepted \cup Returned(t, Pushes, 1)
    /\ popped' = popped \cup Returned(t, Pops, 1)
    /\ dropped' = dropped \cup Returned(t, Pops, -1)
    /\ UNCHANGED <<made, spurious>>

BoundedSpuriousWakeup(t) ==
    /\ spurious < MaxSpurious
    /\ SpuriousWakeup(t)
    /\ spurious' = spurious + 1
    /\ UNCHANGED <<made, historyVars>>

FreeAtTheEnd(t) ==
    /\ AllFinished
    /\ Free(t)
    /\ UNCHANGED <<made, spurious, historyVars>>

Terminating == AllFinished /\ UNCHANGED workloadVars

WNext ==
    \/ \E t \in Threads :
          NextCall(t) \/ Proceed(t) \/ BoundedSpuriousWakeup(t) \/ FreeAtTheEnd(t)
    \/ Terminating

\* The scheduler runs every thread that can run; nothing forces a spurious
\* wakeup or the queue to be freed.
Fairness == \A t \in Threads : WF_workloadVars(NextCall(t) \/ Proceed(t))

WSpec == WInit /\ [][WNext]_workloadVars

FairSpec == WSpec /\ Fairness

-----------------------------------------------------------------------------
(* Every call of the scripts returns: no interleaving of waits, broadcasts *)
(* and spurious wakeups leaves a thread blocked for ever, although a push  *)
(* and libcthreads_queue_empty wait on the same condition for opposite     *)
(* reasons.  It asks for scripts in which as many values are popped as are *)
(* pushed and libcthreads_queue_empty is called by somebody else.          *)
Termination == <>AllFinished

(* libcthreads_queue_empty is documented to empty the queue and to return  *)
(* 1, or -1 on error: a call that begins must end.                         *)
EmptyReturns ==
    \A t \in Threads : operation[t] = "empty" ~> pc[t] = "return"

(* libcthreads_queue_free uses the value_free_function to free the values  *)
(* of the queue: a value that a pop handed to its caller is not among them.*)
FreeSparesPoppedValues == popped \cap finalized = {}

(* Once the queue is freed, every value that a push accepted is finalized, *)
(* or was handed to a caller of pop, or was taken by a pop that failed.    *)
(* While no call fails but value_free_function, nothing was lost in that   *)
(* way, and every push and push_sorted was accepted.                       *)
FreeLeavesNoValue ==
    ~ alive =>
        /\ accepted \subseteq popped \cup dropped \cup finalized
        /\ Faults \subseteq {"value_free"} =>
              /\ dropped = {}
              /\ \A t \in Threads : \A i \in DOMAIN Script[t] :
                    Script[t][i][1] \in {"push", "push_sorted"} =>
                        Script[t][i][2] \in accepted
=============================================================================
