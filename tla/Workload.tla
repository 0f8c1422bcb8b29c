----------------------------- MODULE Workload -----------------------------
(***************************************************************************)
(* A program that uses the primitives of the library together: Main        *)
(* makes one lock, one mutex, one condition and one read/write lock and    *)
(* creates threads that run scripts with them, joins the threads and frees *)
(* the objects.                                                            *)
(*                                                                         *)
(* The lock guards a number that threads read, and then write one higher.  *)
(* The condition guards a number of tokens.  A thread that takes one waits *)
(* in a loop, as the queue and the pool do; one that gives one signals,    *)
(* one that gives two broadcasts.  A thread stops at the first call that   *)
(* returns an error, and its callback returns -1.                          *)
(***************************************************************************)
EXTENDS Lock, ReadWriteLock, Condition, Thread, Objects, Sequences

CONSTANTS Scripts,      \* what the program may be: Script[w] for each worker
          MaxSpurious   \* bound: spurious wakeups in one behaviour

Operations == {"count", "read", "write", "take", "give", "give_all", "try_give"}

ASSUME WorkloadAssumption ==
    /\ Scripts \subseteq [Workers -> Seq(Operations)]
    /\ MaxSpurious \in Nat

VARIABLES script,       \* the program, the same for ever
          position,     \* position[w]: the operation of its script w is at
          stage,        \* how far w is in that operation
          tokens,
          number,       \* what the lock guards
          seen,         \* seen[w]: the number that w has read
          counts,       \* history: how many times the number was written
          spurious      \* spurious wakeups so far

numberVars == <<number, seen, counts>>
programVars == <<script, position, stage, tokens, numberVars, spurious>>
primitiveVars == <<lockVars, rwVars, condVars>>
vars == <<primitiveVars, threadVars, objectVars, callVars, programVars>>

WorkloadInit ==
    /\ CallsInit /\ ThreadInit /\ ObjectInit
    /\ LockInit /\ RWInit /\ ConditionInit
    /\ script \in Scripts
    /\ position = [w \in Workers |-> 1]
    /\ stage = [w \in Workers |-> "begin"]
    /\ tokens = 0
    /\ number = 0 /\ counts = 0
    /\ seen = [w \in Workers |-> 0]
    /\ spurious = 0

Operation(w) == script[w][position[w]]

Stage(w, s) == stage' = [stage EXCEPT ![w] = s]

\* A worker that runs, between two calls.
Ready(w) ==
    /\ life[w] = "running"
    /\ lock_pc[w] = "out"
    /\ rw_pc[w] \in RWRest
    /\ cond_pc[w] = "out"

\* A worker's step in one of the primitives.
OnlyLock == UNCHANGED <<rwVars, condVars, threadVars, objectVars, script,
                        position, tokens, spurious>>

OnlyReadWriteLock ==
    UNCHANGED <<lockVars, condVars, threadVars, objectVars, script, position,
                tokens, numberVars, spurious>>

OnlyCondition ==
    UNCHANGED <<lockVars, rwVars, threadVars, objectVars, script, position,
                numberVars, spurious>>

\* The thread begins the next operation of its script.
Begin(w) ==
    /\ Ready(w) /\ stage[w] = "begin"
    /\ position[w] <= Len(script[w])
    /\ \/ /\ Operation(w) = "count"
          /\ CallLockGrab(w) /\ OnlyLock /\ UNCHANGED numberVars
       \/ Operation(w) = "read" /\ CallGrabForRead(w) /\ OnlyReadWriteLock
       \/ Operation(w) = "write" /\ CallGrabForWrite(w) /\ OnlyReadWriteLock
       \/ /\ Operation(w) \in {"take", "give", "give_all"}
          /\ CallGrab(w) /\ OnlyCondition /\ UNCHANGED tokens
       \/ /\ Operation(w) = "try_give"
          /\ CallTryGrab(w) /\ OnlyCondition /\ UNCHANGED tokens
    /\ Stage(w, "inside")

\* It holds the lock or the mutex.
Inside(w) ==
    /\ Ready(w) /\ stage[w] = "inside"
    /\ answer[w] = 1
    /\ \/ /\ Operation(w) = "count"
          /\ seen' = [seen EXCEPT ![w] = number]
          /\ Stage(w, "counting")
          /\ UNCHANGED <<lockVars, callVars, number, counts>> /\ OnlyLock
       \/ /\ Operation(w) = "read" /\ CallReleaseForRead(w) /\ OnlyReadWriteLock
          /\ Stage(w, "leave")
       \/ /\ Operation(w) = "write" /\ CallReleaseForWrite(w) /\ OnlyReadWriteLock
          /\ Stage(w, "leave")
       \/ /\ Operation(w) = "take" /\ tokens = 0
          /\ CallWait(w) /\ OnlyCondition /\ UNCHANGED <<tokens, stage>>
       \/ /\ Operation(w) = "take" /\ tokens > 0
          /\ tokens' = tokens - 1
          /\ CallRelease(w) /\ OnlyCondition
          /\ Stage(w, "leave")
       \/ /\ Operation(w) \in {"give", "try_give"}
          /\ tokens' = tokens + 1
          /\ CallSignal(w) /\ OnlyCondition
          /\ Stage(w, "announced")
       \/ /\ Operation(w) = "give_all"
          /\ tokens' = tokens + 2
          /\ CallBroadcast(w) /\ OnlyCondition
          /\ Stage(w, "announced")

\* It writes what it has read plus one.
Counting(w) ==
    /\ Ready(w) /\ stage[w] = "counting"
    /\ number' = seen[w] + 1
    /\ counts' = counts + 1
    /\ seen' = [seen EXCEPT ![w] = 0]
    /\ UNCHANGED <<lockVars, callVars>> /\ OnlyLock
    /\ Stage(w, "announced")

\* It gives the lock or the mutex back.
Announced(w) ==
    /\ Ready(w) /\ stage[w] = "announced"
    /\ answer[w] = 1
    /\ IF Operation(w) = "count"
       THEN CallLockRelease(w) /\ OnlyLock /\ UNCHANGED numberVars
       ELSE CallRelease(w) /\ OnlyCondition /\ UNCHANGED tokens
    /\ Stage(w, "leave")

\* The operation is over; so is one whose try_grab has returned 0.
Leave(w) ==
    /\ Ready(w)
    /\ \/ stage[w] = "leave" /\ answer[w] = 1
       \/ stage[w] = "inside" /\ answer[w] = 0
    /\ position' = [position EXCEPT ![w] = @ + 1]
    /\ Stage(w, "begin")
    /\ UNCHANGED <<primitiveVars, threadVars, objectVars, callVars, script,
                   tokens, numberVars, spurious>>

\* Windows takes the mutex from a thread that exits with it.
Abandon(w) ==
    owner' = IF build = "winapi" /\ owner = w THEN NoThread ELSE owner

\* The callback returns: -1 after an error, or else as it likes.
Finish(w) ==
    /\ Ready(w)
    /\ \/ stage[w] # "begin" /\ answer[w] = -1 /\ Exit(w, -1)
       \/ /\ stage[w] = "begin" /\ position[w] > Len(script[w])
          /\ \E r \in {-1, 1} : Exit(w, r)
    /\ Abandon(w)
    /\ UNCHANGED <<lockVars, rwVars, blocked, winCondVars, cond_pc, objectVars,
                   callVars, programVars>>

WorkerStep(w) ==
    \/ Launch(w) /\ UNCHANGED <<primitiveVars, objectVars, programVars>>
    \/ Begin(w) \/ Inside(w) \/ Counting(w) \/ Announced(w) \/ Leave(w)
    \/ Finish(w)
    \/ LockStep(w) /\ OnlyLock /\ UNCHANGED <<numberVars, stage>>
    \/ RWStep(w) /\ OnlyReadWriteLock /\ UNCHANGED stage
    \/ ConditionStep(w) /\ OnlyCondition /\ UNCHANGED <<tokens, stage>>

-----------------------------------------------------------------------------
MakeObject ==
    /\ \/ InitializeLock(Main)
       \/ object["lock"] = "live" /\ InitializeMutex(Main)
       \/ object["mutex"] = "live" /\ InitializeCondition(Main)
       \/ object["condition"] = "live" /\ InitializeReadWriteLock(Main)
    /\ UNCHANGED <<primitiveVars, threadVars, programVars>>

\* Main creates all threads before it joins them, one by one.
RunThreads ==
    /\ object["read_write_lock"] = "live"
    /\ \E w \in Workers :
          \/ CreateThread(w)
          \/ (\A x \in Workers : life[x] # "none") /\ JoinThread(w)
    /\ UNCHANGED <<primitiveVars, objectVars, programVars>>

Joined == \A w \in Workers : life[w] = "refused" \/ join_result[w] # 0
AllGone == Joined /\ \A w \in Workers : life[w] \in {"refused", "exited"}

Unmade == \E k \in Kinds : object[k] = "refused"

\* It frees the objects it has made, in their order, when no thread uses
\* them any more; with a thread that it could not join it leaves them.
FreeObject ==
    /\ Unmade \/ AllGone
    /\ \/ FreeLock(Main, lock_owner # NoThread)
       \/ /\ object["lock"] = "freed"
          /\ FreeMutex(Main, owner # NoThread)
       \/ /\ object["mutex"] = "freed"
          /\ FreeCondition(Main)
       \/ /\ object["condition"] = "freed"
          /\ FreeReadWriteLock(Main, RwlockReaders \cup RwlockWriters # {})
    /\ UNCHANGED <<primitiveVars, threadVars, programVars>>

MainStep == MakeObject \/ RunThreads \/ FreeObject

SpuriousWakeup(w) ==
    /\ spurious < MaxSpurious
    /\ CondSpuriousWakeup(w)
    /\ spurious' = spurious + 1
    /\ UNCHANGED <<lockVars, rwVars, threadVars, objectVars, script, position,
                   stage, tokens, numberVars>>

\* Everything that was made has been freed.
Done ==
    /\ \E k \in Kinds : object[k] # "none"
    /\ \A k \in Kinds : object[k] # "live"

Ended ==
    /\ Done
    /\ UNCHANGED vars

Next ==
    \/ MainStep
    \/ \E w \in Workers : WorkerStep(w) \/ SpuriousWakeup(w)
    \/ Ended

Spec == WorkloadInit /\ [][Next]_vars

\* Every thread that can run does run; no call is bound to fail.
FairSpec ==
    /\ Spec
    /\ WF_vars(MainStep /\ Succeed)
    /\ \A w \in Workers : WF_vars(WorkerStep(w) /\ Succeed)

-----------------------------------------------------------------------------
(* The types of all objects of the program.                                *)
TypeOK ==
    /\ LockTypeOK /\ RWTypeOK /\ ConditionTypeOK
    /\ ThreadTypeOK /\ ObjectTypeOK

(* Only the thread that holds the mutex is between getting and releasing   *)
(* it: the tokens are never touched by two threads at once.                *)
MutexExcludes ==
    \A w \in Workers :
        /\ Ready(w) /\ answer[w] = 1
        /\ stage[w] \in {"inside", "announced"}
        /\ Operation(w) \notin {"count", "read", "write"}
        => owner = w

(* No write of the number that the lock guards is lost, also when a grab   *)
(* or a release has failed.                                                *)
NoLostUpdate == number = counts

(* While no call fails, every script comes to its end, Main joins every    *)
(* thread and frees everything: no wakeup is lost, no broadcast waits for  *)
(* ever with the mutex held, and neither readers nor writers keep the lock *)
(* from the others.  Objects that cannot be made or closed do not prevent  *)
(* it.                                                                     *)
Termination ==
    <>(Done \/ ~ (failures \subseteq {"allocate", "init", "close"}))
=============================================================================
