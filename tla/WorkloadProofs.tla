--------------------------- MODULE WorkloadProofs ---------------------------
(***************************************************************************)
(* Programs that use lock, mutex, condition, read/write lock and threads   *)
(* together, proved for every number of threads, every script and every    *)
(* set of system calls that may fail, in both builds.                      *)
(*                                                                         *)
(* None of the properties is inductive.  A worker is in one function at a  *)
(* time, the one its operation calls (CallInv), and how far it is in the   *)
(* operation tells what its last call has returned (StageInv).  From that  *)
(* follows who holds the lock, the mutex and the read/write lock (LockInv, *)
(* MutexInv, RwlockInv): exclusion, and also that an object that is freed  *)
(* is held by nobody, unless a call that should have given it back failed. *)
(* How many threads wait (WaitInv) keeps the count and the semaphore below *)
(* their maximum; how far a broadcast is (BroadcastInv), with the mutex    *)
(* that its thread holds, gives the handshake.  What the read/write lock   *)
(* does is taken from its own proof: each step of a program is one of a    *)
(* thread that uses the lock, or leaves it alone (RWUsage).                *)
(***************************************************************************)
EXTENDS Workload, ReadWriteLockProofs

-----------------------------------------------------------------------------
(* The invariant.                                                          *)

\* The types, without the bound of the count.
CondTypeInv ==
    /\ owner \in Threads \cup {NoThread}
    /\ blocked \subseteq Threads
    /\ number_of_waiting_threads \in Nat
    /\ signal_is_broadcast \in BOOLEAN
    /\ semaphore \in 0 .. SemaphoreMax
    /\ signal_event \in BOOLEAN
    /\ cond_pc \in [Threads -> CondLabels]

ProgramTypeInv ==
    /\ script \in Scripts
    /\ position \in [Workers -> Nat \ {0}]
    /\ stage \in [Workers ->
                    {"begin", "inside", "counting", "announced", "leave"}]
    /\ tokens \in Nat /\ number \in Nat /\ counts \in Nat
    /\ seen \in [Workers -> Nat]
    /\ spurious \in Nat

TypeInv ==
    /\ LockTypeOK /\ CondTypeInv /\ ThreadTypeOK /\ ObjectTypeOK
    /\ ProgramTypeInv

UsesLock(w) == Operation(w) = "count"
UsesRW(w) == Operation(w) \in {"read", "write"}
UsesMutex(w) == Operation(w) \in {"take", "give", "give_all", "try_give"}

\* Where a thread is in the functions of the condition and the mutex.
Getting == {"grab", "try_grab", "wait", "wait_sleep", "wait_blocked",
            "wait_uncount", "wait_last", "wait_mutex"}
Telling == {"signal", "signal_release", "broadcast", "broadcast_wait",
            "broadcast_end"}
Holding == Telling \cup {"release", "wait", "wait_sleep"}

\* The labels before which the result of the call is known.
Late == {"read_leave", "read_leave_write", "write_leave", "unread_leave"}

\* A worker that runs is in one function at a time, in one that its
\* operation calls; Main is in none of them.
CallInv ==
    \A t \in Threads :
        /\ lock_pc[t] # "out" =>
              /\ t \in Workers /\ life[t] = "running" /\ UsesLock(t)
              /\ rw_pc[t] \in RWRest /\ cond_pc[t] = "out"
              /\ answer[t] # -1
              /\ lock_pc[t] = "grab" => stage[t] = "inside"
              /\ lock_pc[t] = "release" => stage[t] = "leave"
        /\ rw_pc[t] \notin RWRest =>
              /\ t \in Workers /\ life[t] = "running" /\ UsesRW(t)
              /\ cond_pc[t] = "out"
              /\ stage[t] \in {"inside", "leave"}
              /\ rw_pc[t] \in {"read_enter", "write_enter"} =>
                    stage[t] = "inside"
              /\ answer[t] = -1 => rw_pc[t] \in Late
        /\ cond_pc[t] # "out" =>
              /\ t \in Workers /\ life[t] = "running" /\ UsesMutex(t)
              /\ answer[t] # -1
              /\ cond_pc[t] \in Getting => stage[t] = "inside"
              /\ cond_pc[t] \in Telling => stage[t] = "announced"
              /\ cond_pc[t] = "release" => stage[t] = "leave"
        /\ rw_pc[t] # "free" => t \in Workers

\* What the stage of a worker says of its operation and its last call.
StageInv ==
    \A w \in Workers :
        /\ stage[w] = "begin" => answer[w] # -1
        /\ stage[w] # "begin" => Operation(w) \in Operations
        /\ stage[w] = "counting" => UsesLock(w) /\ answer[w] = 1
        /\ stage[w] = "announced" =>
              ~ UsesRW(w) /\ (UsesLock(w) => answer[w] = 1)
        /\ life[w] \in {"none", "refused", "created"} => stage[w] = "begin"
        /\ life[w] = "exited" => stage[w] = "begin" \/ answer[w] = -1

\* The worker has got the lock, or the mutex, and not released it.
HoldsLock(w) ==
    \/ stage[w] = "counting"
    \/ stage[w] = "announced" /\ UsesLock(w)
    \/ /\ stage[w] = "inside" /\ UsesLock(w)
       /\ lock_pc[w] = "out" /\ answer[w] = 1
    \/ lock_pc[w] = "release"

HoldsMutex(w) ==
    \/ cond_pc[w] \in Holding
    \/ /\ cond_pc[w] = "out" /\ answer[w] = 1
       /\ stage[w] \in {"inside", "announced"} /\ UsesMutex(w)

\* Whoever holds the lock owns it, and what a thread that counts has read is
\* still the number.  Only a release that failed leaves it with a thread
\* that does not hold it.
LockInv ==
    /\ lock_owner # Main
    /\ number = counts
    /\ \A w \in Workers :
          /\ HoldsLock(w) => lock_owner = w
          /\ stage[w] = "counting" => seen[w] = number
          /\ lock_owner = w => HoldsLock(w) \/ "unlock" \in failures

\* The same for the mutex; in the build for Windows a wait that fails may
\* have the mutex or not.
MutexInv ==
    /\ owner # Main
    /\ \A w \in Workers :
          /\ HoldsMutex(w) => owner = w
          /\ owner = w =>
                \/ HoldsMutex(w)
                \/ build = "winapi"
                \/ failures \cap {"wait", "signal", "release"} # {}

\* And for the read/write lock of the pthread build.
RwlockInv ==
    build = "pthread" =>
        \A w \in Workers :
            rw_pc[w] \in {"reading", "writing"} =>
                \/ stage[w] = "inside" /\ answer[w] = 1 /\ UsesRW(w)
                \/ "rwlock_unlock" \in failures

\* A thread has a result only at its end, and then unless it had no memory.
ResultInv ==
    \A w \in Workers :
        /\ life[w] # "exited" => thread_result[w] = NoResult
        /\ life[w] = "exited" /\ thread_result[w] = NoResult =>
              "memory" \in failures

\* The objects are made one after the other, before the threads, from the
\* parts of the build.
OrderInv ==
    /\ object["mutex"] # "none" => object["lock"] \in {"live", "freed"}
    /\ object["condition"] # "none" => object["mutex"] \in {"live", "freed"}
    /\ object["read_write_lock"] # "none" =>
          object["condition"] \in {"live", "freed"}
    /\ (\E w \in Workers : life[w] # "none") =>
          object["read_write_lock"] \in {"live", "freed"}
    /\ \A k \in Kinds : object[k] = "none" => open \cap Parts(k) = {}
    /\ build = "winapi" => {"condition", "read_write_lock"} \cap open = {}
    /\ build = "pthread" =>
          (ConditionParts \cup ReadWriteLockParts) \cap open = {}

\* Workers whose last call has failed: they are done.
Failed == {w \in Workers : answer[w] = -1}

\* Who waits, and how many are counted: a wait that fails may leave its
\* thread counted, so that the count is at least the number of threads that
\* wait and at most that of those and of the failed ones.
WaitInv ==
    /\ build = "pthread" =>
          /\ number_of_waiting_threads = 0 /\ ~ signal_is_broadcast
          /\ \A t \in Threads :
                cond_pc[t] \notin {"wait_sleep", "wait_uncount", "wait_last",
                    "signal_release", "broadcast_wait", "broadcast_end"}
          /\ \A t \in blocked : cond_pc[t] = "wait_blocked"
    /\ build = "winapi" =>
          /\ \A t \in Threads : t \in blocked <=> cond_pc[t] = "wait_blocked"
          /\ Cardinality(Counted) <= number_of_waiting_threads
          /\ number_of_waiting_threads <= Cardinality(Counted \cup Failed)

\* How far a broadcast is: the last thread that waits reports to it, and it
\* ends after that.
Broadcast ==
    \A t \in Threads :
        /\ cond_pc[t] = "wait_last" =>
              /\ number_of_waiting_threads = 0 /\ ~ signal_event
              /\ \E b \in Threads : cond_pc[b] = "broadcast_wait"
              /\ \A u \in Threads : cond_pc[u] = "wait_last" => u = t
        /\ cond_pc[t] = "broadcast_end" =>
              /\ number_of_waiting_threads = 0 /\ ~ signal_event
              /\ \A u \in Threads : cond_pc[u] # "wait_last"
        /\ cond_pc[t] \in {"broadcast_wait", "broadcast_end"} =>
              signal_is_broadcast
        /\ signal_event => cond_pc[t] # "wait_last"

BroadcastInv == build = "winapi" /\ failures = {} => Broadcast

\* What the other parts of the invariant all rest on.
CallsInv == TypeInv /\ RWInv /\ CallInv /\ StageInv

IInv ==
    /\ CallsInv
    /\ LockInv /\ MutexInv /\ RwlockInv
    /\ ResultInv /\ JoinReportsTheThread
    /\ OrderInv /\ NothingIsLeftOpen
    /\ WaitInv /\ BroadcastInv /\ HandshakeInv

-----------------------------------------------------------------------------
(* What a step of a primitive does to the thread that takes it.            *)

LEMMA WorkersAreThreads ==
    /\ Workers \subseteq Threads /\ Main \in Threads /\ Main \notin Workers
    /\ IsFiniteSet(Workers) /\ NoThread \notin Threads
BY ThreadAssumption, CallsAssumption, FS_Subset DEF Workers

LEMMA RWEffect ==
    ASSUME RWInv, NEW t \in Threads, RWStep(t)
    PROVE  /\ rw_pc[t] \notin RWRest
           /\ \A u \in Threads \ {t} :
                 rw_pc'[u] = rw_pc[u] /\ answer'[u] = answer[u]
           /\ rw_pc'[t] \notin {"read_enter", "write_enter"}
           /\ rw_pc[t] \in Late =>
                 /\ answer'[t] = answer[t]
                 /\ rw_pc'[t] \in RWRest \cup Late
           /\ rw_pc[t] \notin Late =>
                 \/ answer'[t] \in {answer[t], 1}
                 \/ rw_pc'[t] \in RWRest \cup Late
           /\ build = "pthread" /\ rw_pc'[t] \in {"reading", "writing"} =>
                 \/ rw_pc[t] \in {"read_enter", "write_enter"} /\ answer'[t] = 1
                 \/ "rwlock_unlock" \in failures'
           /\ build' = build /\ failures \subseteq failures'
<1> USE DEF RWInv, RWTypeInv, CallsTypeOK, RWGoto, Return, ReturnError,
            Answer, Fail, Succeed, Silent, rwLockVars, RWRest, Late
<1>1. CASE RwlockStep(t)
  BY <1>1 DEF RwlockStep, Rwlock
<1>2. CASE WindowsStep(t)
  <2>1. CASE \/ ReadEnter(t) \/ ReadEnterRead(t) \/ ReadCount(t)
             \/ ReadLeave(t) \/ ReadLeaveWrite(t)
    BY <1>2, <2>1 DEF WindowsStep, ReadEnter, ReadEnterRead, ReadCount,
                      ReadLeave, ReadLeaveWrite
  <2>2. CASE WriteEnter(t) \/ WriteWait(t) \/ WriteLeave(t)
    BY <1>2, <2>2 DEF WindowsStep, WriteEnter, WriteWait, WriteLeave
  <2>3. CASE UnreadEnter(t) \/ UnreadCount(t) \/ UnreadLeave(t) \/ Unwrite(t)
    BY <1>2, <2>3 DEF WindowsStep, UnreadEnter, UnreadCount, UnreadLeave,
                      Unwrite
  <2> QED
    BY <1>2, <2>1, <2>2, <2>3 DEF WindowsStep
<1> QED
  BY <1>1, <1>2 DEF RWStep

LEMMA ConditionEffect ==
    ASSUME CondTypeInv, CallsTypeOK, NEW t \in Threads, ConditionStep(t)
    PROVE  /\ cond_pc[t] # "out"
           /\ cond_pc'[t] \in CondLabels
           /\ cond_pc' = [cond_pc EXCEPT ![t] = cond_pc'[t]]
           /\ \A u \in Threads \ {t} :
                 cond_pc'[u] = cond_pc[u] /\ answer'[u] = answer[u]
           /\ cond_pc'[t] # "out" =>
                 /\ answer'[t] = answer[t]
                 /\ cond_pc[t] \in Getting => cond_pc'[t] \in Getting
                 /\ cond_pc[t] \in Telling => cond_pc'[t] \in Telling
                 /\ cond_pc[t] # "release" /\ cond_pc'[t] # "release"
           /\ build' = build /\ failures \subseteq failures'
<1> USE DEF CondTypeInv, CallsTypeOK, CondGoto, Return, ReturnError, Answer,
            Fail, Succeed, Silent, CondLabels, Getting, Telling
<1>1. CASE MutexStep(t) \/ WaitMutex(t)
  BY <1>1 DEF MutexStep, MutexGrab, MutexTryGrab, MutexRelease, WaitMutex
<1>2. CASE PthreadCondStep(t)
  BY <1>2 DEF PthreadCondStep, CondWait, CondAwake, CondSignal, CondBroadcast
<1>3. CASE WinCondStep(t)
  <2>1. CASE \/ WinWait(t) \/ WinSleep(t) \/ WinAwake(t) \/ WinUncount(t)
             \/ WinLast(t)
    BY <1>3, <2>1 DEF WinCondStep, WinWait, WinSleep, WinAwake, WinUncount,
                      WinLast
  <2>2. CASE \/ WinSignal(t) \/ WinSignalRelease(t) \/ WinBroadcast(t)
             \/ WinBroadcastWait(t) \/ WinBroadcastEnd(t)
    BY <1>3, <2>2 DEF WinCondStep, WinSignal, WinSignalRelease, WinBroadcast,
                      WinBroadcastWait, WinBroadcastEnd, SemaphoreFails
  <2> QED
    BY <1>3, <2>1, <2>2 DEF WinCondStep
<1> QED
  BY <1>1, <1>2, <1>3 DEF ConditionStep

\* What Main does, and a spurious wakeup, leaves the workers where they are.
LEMMA MainEffect ==
    ASSUME RWInv, TypeInv, MainStep
    PROVE  /\ UNCHANGED <<lockVars, rwVars, condVars, programVars, build>>
           /\ \A w \in Workers :
                 /\ answer'[w] = answer[w]
                 /\ \/ life'[w] = life[w]
                    \/ life[w] = "none" /\ life'[w] \in {"created", "refused"}
           /\ failures \subseteq failures'
<1> USE WorkersAreThreads DEF TypeInv, RWInv, RWTypeInv, CallsTypeOK, Return,
        ReturnError, Answer, Fail, Succeed, primitiveVars, threadVars
<1>1. CASE MakeObject
  <2>1. UNCHANGED <<primitiveVars, threadVars, programVars, build>>
    BY <1>1 DEF MakeObject, InitializeLock, InitializeMutex,
           InitializeCondition, InitializeReadWriteLock, Made, NotMade
  <2>2. /\ \A w \in Workers : answer'[w] = answer[w]
        /\ failures \subseteq failures'
    BY <1>1 DEF MakeObject, InitializeLock, InitializeMutex,
           InitializeCondition, InitializeReadWriteLock, Made, NotMade
  <2> QED
    BY <2>1, <2>2
<1>2. CASE RunThreads
  <2>1. PICK w \in Workers : CreateThread(w) \/ JoinThread(w)
    BY <1>2 DEF RunThreads
  <2>2. UNCHANGED <<primitiveVars, programVars, build>>
    BY <1>2, <2>1 DEF RunThreads, CreateThread, JoinThread
  <2>3. /\ \A u \in Workers : answer'[u] = answer[u]
        /\ failures \subseteq failures'
    BY <2>1 DEF CreateThread, JoinThread
  <2>4. \A u \in Workers :
           \/ life'[u] = life[u]
           \/ life[u] = "none" /\ life'[u] \in {"created", "refused"}
    BY <2>1 DEF CreateThread, JoinThread, Live, ThreadTypeOK
  <2> QED
    BY <2>2, <2>3, <2>4
<1>3. CASE FreeObject
  <2>1. UNCHANGED <<primitiveVars, threadVars, programVars, build>>
    BY <1>3 DEF FreeObject, FreeLock, FreeMutex, FreeCondition,
           FreeReadWriteLock, Destroy, Free, FreeBusy
  <2>2. /\ \A w \in Workers : answer'[w] = answer[w]
        /\ failures \subseteq failures'
    BY <1>3 DEF FreeObject, FreeLock, FreeMutex, FreeCondition,
           FreeReadWriteLock, Destroy, Free, FreeBusy
  <2> QED
    BY <2>1, <2>2
<1> QED
  BY <1>1, <1>2, <1>3 DEF MainStep

-----------------------------------------------------------------------------
(* The types.                                                              *)

LEMMA CountedFinite ==
    /\ IsFiniteSet(Counted) /\ Cardinality(Counted) \in Nat
    /\ IsFiniteSet(Counted \cup Failed)
    /\ Cardinality(Counted \cup Failed) <= Cardinality(Threads)
    /\ Cardinality(Counted \cup Failed) \in Nat
    /\ Cardinality(Threads) \in Nat
<1>1. Counted \subseteq Threads /\ Counted \cup Failed \subseteq Threads
  BY WorkersAreThreads DEF Counted, Failed
<1> QED
  BY <1>1, CallsAssumption, FS_Subset, FS_CardinalityType

\* A thread that takes itself out of the count is counted.
LEMMA UncountIsCounted ==
    ASSUME WaitInv, CondTypeInv, build = "winapi", NEW t \in Threads,
           cond_pc[t] = "wait_uncount"
    PROVE  number_of_waiting_threads >= 1
<1>1. Counted # {}
  BY DEF Counted
<1>2. Cardinality(Counted) # 0
  BY <1>1, CountedFinite, FS_EmptySet
<1> QED
  BY <1>2, CountedFinite DEF WaitInv, CondTypeInv

LEMMA CondTypeKept ==
    ASSUME WaitInv, CondTypeInv, CallsTypeOK, NEW t \in Threads,
           ConditionStep(t)
    PROVE  CondTypeInv'
<1>1. cond_pc' \in [Threads -> CondLabels]
  BY ConditionEffect DEF CondTypeInv
<1> USE ConditionAssumption DEF CondTypeInv
<1>2. CASE MutexStep(t) \/ WaitMutex(t)
  BY <1>1, <1>2 DEF MutexStep, MutexGrab, MutexTryGrab, MutexRelease,
         WaitMutex, Acquire, winCondVars
<1>3. CASE PthreadCondStep(t)
  BY <1>1, <1>3 DEF PthreadCondStep, CondWait, CondAwake, CondSignal,
         CondBroadcast, winCondVars
<1>4. CASE WinCondStep(t)
  <2>1. CASE WinWait(t) \/ WinSleep(t) \/ WinAwake(t)
    BY <1>1, <2>1 DEF WinWait, WinSleep, WinAwake, winCondVars
  <2>5. CASE WinLast(t)
    <3>1. signal_event' \in BOOLEAN
      BY <2>5, Zenon DEF WinLast
    <3> QED
      BY <1>1, <2>5, <3>1 DEF WinLast
  <2>2. CASE WinUncount(t)
    <3>1. number_of_waiting_threads >= 1
      BY <1>4, <2>2, UncountIsCounted DEF WinCondStep, WinUncount
    <3> QED
      BY <1>1, <2>2, <3>1 DEF WinUncount
  <2>3. CASE WinSignal(t) \/ WinSignalRelease(t)
    BY <1>1, <2>3 DEF WinSignal, WinSignalRelease, ReleaseSemaphore,
           SemaphoreFails, winCondVars
  <2>6. CASE WinBroadcast(t)
    <3>1. signal_is_broadcast' \in BOOLEAN
      BY <2>6, Zenon DEF WinBroadcast
    <3>2. semaphore' \in 0 .. SemaphoreMax
      BY <2>6 DEF WinBroadcast, ReleaseSemaphore, SemaphoreFails
    <3> QED
      BY <1>1, <2>6, <3>1, <3>2 DEF WinBroadcast
  <2>4. CASE WinBroadcastWait(t) \/ WinBroadcastEnd(t)
    BY <1>1, <2>4 DEF WinBroadcastWait, WinBroadcastEnd
  <2> QED
    BY <1>4, <2>1, <2>2, <2>3, <2>4, <2>5, <2>6 DEF WinCondStep
<1> QED
  BY <1>2, <1>3, <1>4 DEF ConditionStep

LEMMA MainTypes ==
    ASSUME TypeInv, RWInv, MainStep
    PROVE  ThreadTypeOK' /\ ObjectTypeOK' /\ CallsTypeOK'
<1> USE WorkersAreThreads DEF TypeInv, RWInv, RWTypeInv, CallsTypeOK, Return,
        ReturnError, Answer, Fail, Succeed, ThreadTypeOK, ObjectTypeOK
<1>1. CASE MakeObject
  <2>1. /\ object' \in [Kinds -> {"none", "live", "refused", "freed"}]
        /\ UNCHANGED <<build, threadVars>>
    BY <1>1 DEF MakeObject, InitializeLock, InitializeMutex,
           InitializeCondition, InitializeReadWriteLock, Made, NotMade,
           Becomes
  <2>2. open' \subseteq Kinds \cup ConditionParts \cup ReadWriteLockParts
    BY <1>1 DEF MakeObject, InitializeLock, InitializeMutex,
           InitializeCondition, InitializeReadWriteLock, Made, NotMade,
           Kinds, ConditionParts, ReadWriteLockParts
  <2>3. /\ answer' \in [Threads -> {-1, 0, 1}]
        /\ failures' \subseteq Faults \cup {"semaphore"}
    BY <1>1 DEF MakeObject, InitializeLock, InitializeMutex,
           InitializeCondition, InitializeReadWriteLock, Made, NotMade
  <2> QED
    BY <2>1, <2>2, <2>3 DEF threadVars
<1>2. CASE RunThreads
  <2>1. PICK w \in Workers : CreateThread(w) \/ JoinThread(w)
    BY <1>2 DEF RunThreads
  <2>2. UNCHANGED <<object, open, build>>
    BY <1>2, <2>1 DEF RunThreads, objectVars, CreateThread, JoinThread
  <2>3. ThreadTypeOK'
    BY <2>1 DEF CreateThread, JoinThread, Live, NoResult
  <2>4. /\ answer' \in [Threads -> {-1, 0, 1}]
        /\ failures' \subseteq Faults \cup {"semaphore"}
    BY <2>1 DEF CreateThread, JoinThread
  <2> QED
    BY <2>2, <2>3, <2>4
<1>3. CASE FreeObject
  <2>1. PICK k \in Kinds :
           \/ \E deleted, parts : Free(Main, k, deleted, parts)
           \/ FreeBusy(Main, k)
    BY <1>3 DEF FreeObject, FreeLock, FreeMutex, FreeCondition,
           FreeReadWriteLock, Destroy, Kinds
  <2>2. /\ object' \in [Kinds -> {"none", "live", "refused", "freed"}]
        /\ open' \subseteq open
        /\ build' = build
    BY <2>1 DEF Free, FreeBusy, Becomes
  <2>3. /\ answer' \in [Threads -> {-1, 0, 1}]
        /\ failures' \subseteq Faults \cup {"semaphore"}
    BY <2>1 DEF Free, FreeBusy
  <2>4. UNCHANGED threadVars
    BY <1>3 DEF FreeObject
  <2> QED
    BY <2>2, <2>3, <2>4 DEF threadVars
<1> QED
  BY <1>1, <1>2, <1>3 DEF MainStep

LEMMA ConditionAnswers ==
    ASSUME CallsTypeOK, NEW t \in Threads, ConditionStep(t)
    PROVE  CallsTypeOK'
<1> USE DEF CallsTypeOK, Return, ReturnError, Answer, Fail, Succeed, Silent
<1>1. CASE MutexStep(t) \/ WaitMutex(t)
  BY <1>1 DEF MutexStep, MutexGrab, MutexTryGrab, MutexRelease, WaitMutex
<1>2. CASE PthreadCondStep(t)
  BY <1>2 DEF PthreadCondStep, CondWait, CondAwake, CondSignal, CondBroadcast
<1>3. CASE WinCondStep(t)
  <2>1. CASE \/ WinWait(t) \/ WinSleep(t) \/ WinAwake(t) \/ WinUncount(t)
             \/ WinLast(t)
    BY <1>3, <2>1 DEF WinCondStep, WinWait, WinSleep, WinAwake, WinUncount,
                      WinLast
  <2>2. CASE \/ WinSignal(t) \/ WinSignalRelease(t) \/ WinBroadcast(t)
             \/ WinBroadcastWait(t) \/ WinBroadcastEnd(t)
    BY <1>3, <2>2 DEF WinCondStep, WinSignal, WinSignalRelease, WinBroadcast,
                      WinBroadcastWait, WinBroadcastEnd, SemaphoreFails
  <2> QED
    BY <1>3, <2>1, <2>2 DEF WinCondStep
<1> QED
  BY <1>1, <1>2, <1>3 DEF ConditionStep

\* The read/write lock is used as its own specification has it: a step is one
\* of a thread that uses it, or leaves it and its users alone.
LEMMA RWUsage ==
    ASSUME TypeInv, RWInv, CallInv, [Next]_vars
    PROVE  \/ \E w \in Workers : RWUse(w)
           \/ /\ UNCHANGED <<rwVars, build>> /\ CallsTypeOK'
              /\ \A t \in Threads :
                    rw_pc[t] \notin RWRest => answer'[t] = answer[t]
<1> DEFINE Elsewhere == /\ UNCHANGED <<rwVars, build>> /\ CallsTypeOK'
                        /\ \A t \in Threads :
                              rw_pc[t] \notin RWRest => answer'[t] = answer[t]
           Goal == (\E w \in Workers : RWUse(w)) \/ Elsewhere
<1> SUFFICES Goal
  OBVIOUS
<1>1. CallsTypeOK
  BY DEF RWInv, RWTypeInv
<1>2. CASE UNCHANGED <<rwVars, callVars>>
  BY <1>1, <1>2 DEF callVars, CallsTypeOK
<1>3. CASE MainStep
  <2>1. UNCHANGED <<rwVars, build>> /\ \A w \in Workers : answer'[w] = answer[w]
    BY <1>3, MainEffect
  <2>2. CallsTypeOK'
    BY <1>3, MainTypes
  <2> QED
    BY <2>1, <2>2 DEF CallInv
<1>4. ASSUME NEW w \in Workers, WorkerStep(w) PROVE Goal
  <2> USE WorkersAreThreads
  <2>1. CASE Launch(w) /\ UNCHANGED <<primitiveVars, objectVars, programVars>>
    BY <1>1, <2>1 DEF Launch, primitiveVars, CallsTypeOK, Fail, Succeed
  <2>2. CASE Begin(w) \/ Inside(w)
    <3>1. RWUse(w) \/ UNCHANGED <<rwVars, callVars>>
      BY <2>2 DEF Begin, Inside, RWUse, CallLockGrab, LockCall, OnlyLock,
             CallGrab, CallTryGrab, CallWait, CallRelease, CallSignal,
             CallBroadcast, CondCall, OnlyCondition
    <3> QED
      BY <1>2, <3>1
  <2>3. CASE Counting(w) \/ Announced(w) \/ Leave(w) \/ Finish(w)
    <3>1. UNCHANGED <<rwVars, callVars>>
      BY <2>3 DEF Counting, Announced, Leave, Finish, CallLockRelease,
             LockCall, CallRelease, CondCall, OnlyLock, OnlyCondition,
             primitiveVars
    <3> QED
      BY <1>2, <3>1
  <2>4. CASE LockStep(w) /\ OnlyLock
    BY <1>1, <2>4 DEF LockStep, LockGrab, LockRelease, OnlyLock, CallInv,
           CallsTypeOK, Return, ReturnError, Answer, Fail, Succeed
  <2>5. CASE RWStep(w)
    BY <2>5 DEF RWUse
  <2>6. CASE ConditionStep(w) /\ OnlyCondition
    <3>1. CallsTypeOK'
      BY <1>1, <2>6, ConditionAnswers
    <3> QED
      BY <1>1, <2>6, <3>1, ConditionEffect DEF OnlyCondition, TypeInv, CallInv
  <2> QED
    BY <1>4, <2>1, <2>2, <2>3, <2>4, <2>5, <2>6 DEF WorkerStep
<1>5. ASSUME NEW w \in Workers, SpuriousWakeup(w) PROVE Goal
  BY <1>2, <1>5 DEF SpuriousWakeup, CondSpuriousWakeup
<1>6. CASE UNCHANGED vars
  BY <1>2, <1>6 DEF vars, primitiveVars
<1> QED
  BY <1>3, <1>4, <1>5, <1>6 DEF Next, Ended

\* In a step elsewhere the same threads hold the lock.
LEMMA SameHolders ==
    ASSUME UNCHANGED rwVars,
           \A t \in Threads : rw_pc[t] \notin RWRest => answer'[t] = answer[t]
    PROVE  Readers' = Readers /\ Writers' = Writers
<1>1. \A t \in Threads : Reads(t)' <=> Reads(t)
  BY DEF Reads, RWRest, rwVars
<1> QED
  BY <1>1, SameReaders DEF Writers, rwVars

LEMMA RWInvKept ==
    ASSUME TypeInv, RWInv, CallInv, [Next]_vars
    PROVE  RWInv'
<1>1. CASE \E w \in Workers : RWUse(w)
  BY <1>1, WorkersAreThreads, StepKeepsInv
<1>2. CASE /\ UNCHANGED <<rwVars, build>> /\ CallsTypeOK'
           /\ \A t \in Threads :
                 rw_pc[t] \notin RWRest => answer'[t] = answer[t]
  <2>1. RWTypeInv' /\ OwnersInv' /\ PthreadInv'
    BY <1>2 DEF RWInv, RWTypeInv, OwnersInv, PthreadInv, rwVars, rwLockVars
  <2>2. Readers' = Readers /\ Writers' = Writers
    BY <1>2, SameHolders
  <2> QED
    BY <1>2, <2>1, <2>2, NothingNew DEF RWInv, rwVars, rwLockVars
<1> QED
  BY <1>1, <1>2, RWUsage

LEMMA TypeInvKept ==
    ASSUME TypeInv, WaitInv, RWInv, CallInv, StageInv, [Next]_vars
    PROVE  TypeInv'
<1>0. CallsTypeOK
  BY DEF RWInv, RWTypeInv
<1>1. CASE MainStep
  <2>1. UNCHANGED <<lockVars, condVars, programVars>>
    BY <1>1, MainEffect
  <2>2. ThreadTypeOK' /\ ObjectTypeOK'
    BY <1>1, MainTypes
  <2> QED
    BY <2>1, <2>2 DEF TypeInv, LockTypeOK, CondTypeInv, ProgramTypeInv,
           lockVars, condVars, winCondVars, programVars, numberVars
<1>2. ASSUME NEW w \in Workers, WorkerStep(w) PROVE TypeInv'
  <2> USE WorkersAreThreads
  <2>1. CASE Launch(w) /\ UNCHANGED <<primitiveVars, objectVars, programVars>>
    BY <2>1 DEF TypeInv, Launch, Live, primitiveVars, LockTypeOK,
           CondTypeInv, ThreadTypeOK, ObjectTypeOK, ProgramTypeInv, lockVars,
           condVars, winCondVars, objectVars, programVars, numberVars
  <2>2. CASE Begin(w)
    <3>1. ProgramTypeInv' /\ ThreadTypeOK' /\ ObjectTypeOK'
      BY <2>2 DEF TypeInv, Begin, ProgramTypeInv, ThreadTypeOK, ObjectTypeOK,
             OnlyLock, OnlyReadWriteLock, OnlyCondition, threadVars,
             objectVars, numberVars, Stage
    <3>2. LockTypeOK'
      BY <2>2 DEF TypeInv, Begin, LockTypeOK, CallLockGrab, LockCall,
             OnlyReadWriteLock, OnlyCondition, lockVars
    <3>3. CondTypeInv'
      BY <2>2 DEF TypeInv, Begin, CondTypeInv, CallGrab, CallTryGrab,
             CondCall, CondGoto, CondLabels, OnlyLock, OnlyReadWriteLock,
             condVars, winCondVars
    <3> QED
      BY <3>1, <3>2, <3>3 DEF TypeInv
  <2>3. CASE Inside(w)
    <3>1. ProgramTypeInv' /\ ThreadTypeOK' /\ ObjectTypeOK'
      BY <2>3 DEF TypeInv, Inside, ProgramTypeInv, ThreadTypeOK, ObjectTypeOK,
             OnlyLock, OnlyReadWriteLock, OnlyCondition, threadVars,
             objectVars, numberVars, Stage
    <3>2. LockTypeOK'
      BY <2>3 DEF TypeInv, Inside, LockTypeOK, OnlyReadWriteLock,
             OnlyCondition, lockVars
    <3>3. CondTypeInv'
      BY <2>3 DEF TypeInv, Inside, CondTypeInv, CallWait, CallRelease,
             CallSignal, CallBroadcast, CondCall, CondGoto, CondLabels,
             OnlyLock, OnlyReadWriteLock, condVars, winCondVars
    <3> QED
      BY <3>1, <3>2, <3>3 DEF TypeInv
  <2>4. CASE Counting(w)
    BY <2>4 DEF TypeInv, Counting, OnlyLock, LockTypeOK, CondTypeInv,
           ThreadTypeOK, ObjectTypeOK, ProgramTypeInv, lockVars, condVars,
           winCondVars, threadVars, objectVars, Stage
  <2>5. CASE Announced(w)
    <3>1. ProgramTypeInv' /\ ThreadTypeOK' /\ ObjectTypeOK'
      BY <2>5 DEF TypeInv, Announced, ProgramTypeInv, ThreadTypeOK,
             ObjectTypeOK, OnlyLock, OnlyCondition, threadVars, objectVars,
             numberVars, Stage
    <3>2. LockTypeOK'
      BY <2>5 DEF TypeInv, Announced, LockTypeOK, CallLockRelease, LockCall,
             OnlyCondition, lockVars
    <3>3. CondTypeInv'
      BY <2>5 DEF TypeInv, Announced, CondTypeInv, CallRelease, CondCall,
             CondGoto, CondLabels, OnlyLock, condVars, winCondVars
    <3> QED
      BY <3>1, <3>2, <3>3 DEF TypeInv
  <2>6. CASE Leave(w)
    <3>1. position' \in [Workers -> Nat \ {0}]
      BY <2>6 DEF TypeInv, Leave, ProgramTypeInv
    <3> QED
      BY <2>6, <3>1 DEF TypeInv, Leave, primitiveVars, LockTypeOK,
             CondTypeInv, ThreadTypeOK, ObjectTypeOK, ProgramTypeInv,
             lockVars, condVars, winCondVars, threadVars, objectVars,
             numberVars, Stage
  <2>7. CASE Finish(w)
    <3>1. ThreadTypeOK'
      BY <2>7 DEF TypeInv, Finish, Exit, Live, ThreadTypeOK
    <3>2. owner' \in Threads \cup {NoThread}
      BY <2>7 DEF TypeInv, Finish, Abandon, CondTypeInv
    <3> QED
      BY <2>7, <3>1, <3>2 DEF TypeInv, Finish, LockTypeOK, CondTypeInv,
             ObjectTypeOK, ProgramTypeInv, lockVars, winCondVars, objectVars,
             programVars, numberVars
  <2>8. CASE LockStep(w) /\ OnlyLock /\ UNCHANGED <<numberVars, stage>>
    BY <2>8 DEF TypeInv, LockStep, LockGrab, LockRelease, OnlyLock,
           LockTypeOK, CondTypeInv, ThreadTypeOK, ObjectTypeOK,
           ProgramTypeInv, condVars, winCondVars, threadVars, objectVars,
           numberVars
  <2>9. CASE RWStep(w) /\ OnlyReadWriteLock /\ UNCHANGED stage
    BY <2>9 DEF TypeInv, OnlyReadWriteLock, LockTypeOK, CondTypeInv,
           ThreadTypeOK, ObjectTypeOK, ProgramTypeInv, lockVars, condVars,
           winCondVars, threadVars, objectVars, numberVars
  <2>10. CASE ConditionStep(w) /\ OnlyCondition /\ UNCHANGED <<tokens, stage>>
    <3>1. CondTypeInv'
      BY <1>0, <2>10, CondTypeKept DEF TypeInv
    <3> QED
      BY <2>10, <3>1 DEF TypeInv, OnlyCondition, LockTypeOK, ThreadTypeOK,
             ObjectTypeOK, ProgramTypeInv, lockVars, threadVars, objectVars,
             numberVars
  <2> QED
    BY <1>2, <2>1, <2>2, <2>3, <2>4, <2>5, <2>6, <2>7, <2>8, <2>9, <2>10
       DEF WorkerStep
<1>3. ASSUME NEW w \in Workers, SpuriousWakeup(w) PROVE TypeInv'
  BY <1>3 DEF TypeInv, SpuriousWakeup, CondSpuriousWakeup, LockTypeOK,
         CondTypeInv, ThreadTypeOK, ObjectTypeOK, ProgramTypeInv, lockVars,
         winCondVars, threadVars, objectVars, numberVars
<1>4. CASE UNCHANGED vars
  BY <1>4 DEF TypeInv, vars, primitiveVars, LockTypeOK, CondTypeInv,
         ThreadTypeOK, ObjectTypeOK, ProgramTypeInv, lockVars, condVars,
         winCondVars, threadVars, objectVars, programVars, numberVars
<1> QED
  BY <1>1, <1>2, <1>3, <1>4 DEF Next, Ended

-----------------------------------------------------------------------------
(* Where the threads are.                                                  *)

\* An operation that a worker begins is one of those there are.
LEMMA OperationsOnly ==
    ASSUME ProgramTypeInv, NEW w \in Workers, position[w] <= Len(script[w])
    PROVE  Operation(w) \in Operations
<1>1. script \in [Workers -> Seq(Operations)]
  BY WorkloadAssumption DEF ProgramTypeInv
<1>2. script[w] \in Seq(Operations)
  BY <1>1
<1>3. position[w] \in 1 .. Len(script[w])
  BY <1>2 DEF ProgramTypeInv
<1> QED
  BY <1>2, <1>3 DEF Operation

LEMMA CallInvKept ==
    ASSUME TypeInv, RWInv, CallInv, StageInv, [Next]_vars
    PROVE  CallInv'
<1>0. CallsTypeOK
  BY DEF RWInv, RWTypeInv
<1> USE WorkersAreThreads DEF TypeInv, CallInv, CallsTypeOK
<1>1. CASE MainStep
  <2>1. /\ UNCHANGED <<lock_pc, rw_pc, cond_pc, script, position, stage>>
        /\ \A w \in Workers :
              answer'[w] = answer[w]
              /\ (life[w] = "running" => life'[w] = "running")
    BY <1>1, MainEffect DEF lockVars, rwVars, condVars, programVars
  <2> QED
    BY <2>1 DEF UsesLock, UsesRW, UsesMutex, Operation
<1>2. ASSUME NEW w \in Workers, WorkerStep(w) PROVE CallInv'
  <2> USE <1>0 DEF UsesLock, UsesRW, UsesMutex, Operation, ProgramTypeInv,
          LockTypeOK, ThreadTypeOK, CondTypeInv
  <2>1. CASE Launch(w) /\ UNCHANGED <<primitiveVars, objectVars, programVars>>
    BY <2>1 DEF Launch, Live, primitiveVars, lockVars, rwVars, condVars,
           programVars
  <2>2. CASE Begin(w)
    <3>1. CASE Operation(w) = "count" /\ CallLockGrab(w) /\ OnlyLock
      BY <2>2, <3>1 DEF Begin, Ready, CallLockGrab, LockCall, OnlyLock,
         callVars,
             rwVars, condVars, threadVars, Stage, StageInv
    <3>2. CASE /\ OnlyReadWriteLock
               /\ \/ Operation(w) = "read" /\ CallGrabForRead(w)
                  \/ Operation(w) = "write" /\ CallGrabForWrite(w)
      BY <2>2, <3>2 DEF Begin, Ready, OnlyReadWriteLock, CallGrabForRead,
             CallGrabForWrite, RWCall, RWGoto, callVars, lockVars, condVars,
             threadVars, Stage, StageInv, RWInv, RWTypeInv, RWRest, Late
    <3>3. CASE /\ OnlyCondition /\ UsesMutex(w)
               /\ CallGrab(w) \/ CallTryGrab(w)
      BY <2>2, <3>3 DEF Begin, Ready, OnlyCondition, CallGrab, CallTryGrab,
             CondCall, CondGoto, callVars, lockVars, rwVars, threadVars,
             Stage, StageInv, Getting, Telling
    <3> QED
      BY <2>2, <3>1, <3>2, <3>3 DEF Begin
  <2>3. CASE Inside(w)
    <3>1. CASE OnlyLock /\ UNCHANGED <<lockVars, callVars>> /\ Stage(w, "counting")
      BY <2>3, <3>1 DEF Inside, Ready, OnlyLock, callVars, lockVars, rwVars,
             condVars, threadVars, Stage
    <3>2. CASE /\ OnlyReadWriteLock /\ Stage(w, "leave")
               /\ \/ Operation(w) = "read" /\ CallReleaseForRead(w)
                  \/ Operation(w) = "write" /\ CallReleaseForWrite(w)
      BY <2>3, <3>2 DEF Inside, Ready, OnlyReadWriteLock, CallReleaseForRead,
             CallReleaseForWrite, RWCall, RWGoto, callVars, lockVars, condVars,
             threadVars, Stage, RWInv, RWTypeInv, RWRest, Late
    <3>3. CASE /\ OnlyCondition /\ UsesMutex(w)
               /\ \/ CallWait(w) /\ UNCHANGED stage
                  \/ CallRelease(w) /\ Stage(w, "leave")
                  \/ CallSignal(w) /\ Stage(w, "announced")
                  \/ CallBroadcast(w) /\ Stage(w, "announced")
      BY <2>3, <3>3 DEF Inside, Ready, OnlyCondition, CallWait, CallRelease,
             CallSignal, CallBroadcast, CondCall, CondGoto, callVars,
             lockVars, rwVars, threadVars, Stage, Getting, Telling
    <3> QED
      BY <2>3, <3>1, <3>2, <3>3 DEF Inside
  <2>4. CASE Counting(w)
    BY <2>4 DEF Counting, Ready, OnlyLock, callVars, lockVars, rwVars,
           condVars, threadVars, Stage
  <2>5. CASE Announced(w)
    <3>1. CASE Operation(w) = "count"
      BY <2>5, <3>1 DEF Announced, Ready, CallLockRelease, LockCall, OnlyLock,
             callVars, rwVars, condVars, threadVars, Stage
    <3>2. CASE Operation(w) # "count"
      BY <2>5, <3>2 DEF Announced, Ready, CallRelease, CondCall, CondGoto,
             OnlyCondition, callVars, lockVars, rwVars, threadVars, Stage,
             StageInv, Operations, Getting, Telling
    <3> QED
      BY <3>1, <3>2
  <2>6. CASE Leave(w)
    BY <2>6 DEF Leave, Ready, primitiveVars, callVars, lockVars, rwVars,
           condVars, threadVars, Stage
  <2>7. CASE Finish(w)
    BY <2>7 DEF Finish, Exit, Live, Ready, callVars, lockVars, rwVars,
           programVars
  <2>8. CASE LockStep(w) /\ OnlyLock /\ UNCHANGED <<numberVars, stage>>
    BY <2>8 DEF LockStep, LockGrab, LockRelease, OnlyLock, rwVars, condVars,
           threadVars, Return, ReturnError, Answer
  <2>9. CASE RWStep(w) /\ OnlyReadWriteLock /\ UNCHANGED stage
    <3>1. UNCHANGED <<lock_pc, cond_pc, life, script, position, stage>>
      BY <2>9 DEF OnlyReadWriteLock, lockVars, condVars, threadVars
    <3> QED
      BY <2>9, <3>1, RWEffect
  <2>10. CASE ConditionStep(w) /\ OnlyCondition /\ UNCHANGED <<tokens, stage>>
    <3>1. UNCHANGED <<lock_pc, rw_pc, life, script, position, stage>>
      BY <2>10 DEF OnlyCondition, lockVars, rwVars, threadVars
    <3> QED
      BY <2>10, <3>1, ConditionEffect DEF CondLabels, Getting, Telling
  <2> QED
    BY <1>2, <2>1, <2>2, <2>3, <2>4, <2>5, <2>6, <2>7, <2>8, <2>9, <2>10
       DEF WorkerStep
<1>3. ASSUME NEW w \in Workers, SpuriousWakeup(w) PROVE CallInv'
  BY <1>3 DEF SpuriousWakeup, CondSpuriousWakeup, UsesLock, UsesRW, UsesMutex,
         Operation, lockVars, rwVars, threadVars, callVars
<1>4. CASE UNCHANGED vars
  BY <1>4 DEF vars, primitiveVars, lockVars, rwVars, condVars, threadVars,
         callVars, programVars, UsesLock, UsesRW, UsesMutex, Operation
<1> QED
  BY <1>1, <1>2, <1>3, <1>4 DEF Next, Ended

LEMMA StageInvKept ==
    ASSUME TypeInv, RWInv, CallInv, StageInv, [Next]_vars
    PROVE  StageInv'
<1>0. CallsTypeOK
  BY DEF RWInv, RWTypeInv
<1> USE WorkersAreThreads DEF TypeInv, StageInv, CallsTypeOK
<1>1. CASE MainStep
  <2>1. /\ UNCHANGED <<script, position, stage>>
        /\ \A w \in Workers : answer'[w] = answer[w]
        /\ \A w \in Workers :
              \/ life'[w] = life[w]
              \/ life[w] = "none" /\ life'[w] # "exited"
    BY <1>1, MainEffect DEF programVars
  <2> QED
    BY <2>1 DEF UsesLock, UsesRW, Operation
<1>2. ASSUME NEW w \in Workers, WorkerStep(w) PROVE StageInv'
  <2> USE <1>0 DEF UsesLock, UsesRW, Operation, ProgramTypeInv, ThreadTypeOK
  <2>1. CASE Launch(w) /\ UNCHANGED <<primitiveVars, objectVars, programVars>>
    BY <2>1 DEF Launch, Live, programVars
  <2>2. CASE Begin(w)
    <3>1. UNCHANGED <<script, position, life, answer>>
      BY <2>2 DEF Begin, OnlyLock, OnlyReadWriteLock, OnlyCondition,
             threadVars, CallLockGrab, LockCall, CallGrabForRead,
             CallGrabForWrite, RWCall, CallGrab, CallTryGrab, CondCall,
             callVars
    <3> QED
      BY <2>2, <3>1, OperationsOnly DEF Begin, Ready, Stage
  <2>3. CASE Inside(w)
    <3>1. UNCHANGED <<script, position, life, answer>>
      BY <2>3 DEF Inside, OnlyLock, OnlyReadWriteLock, OnlyCondition,
             threadVars, CallReleaseForRead, CallReleaseForWrite, RWCall,
             CallWait, CallRelease, CallSignal, CallBroadcast, CondCall,
             callVars
    <3>2. \/ stage' = stage
          \/ Stage(w, "leave")
          \/ Stage(w, "counting") /\ UsesLock(w)
          \/ Stage(w, "announced") /\ ~ UsesRW(w)
      BY <2>3 DEF Inside
    <3> QED
      BY <2>3, <3>1, <3>2 DEF Inside, Ready, Stage
  <2>4. CASE Counting(w)
    BY <2>4 DEF Counting, Ready, OnlyLock, callVars, threadVars, Stage
  <2>5. CASE Announced(w)
    <3>1. UNCHANGED <<script, position, life, answer>>
      BY <2>5 DEF Announced, OnlyLock, OnlyCondition, threadVars,
             CallLockRelease, LockCall, CallRelease, CondCall, callVars
    <3> QED
      BY <2>5, <3>1 DEF Announced, Ready, Stage
  <2>6. CASE Leave(w)
    BY <2>6 DEF Leave, Ready, callVars, threadVars, Stage
  <2>7. CASE Finish(w)
    BY <2>7 DEF Finish, Exit, Live, Ready, callVars, programVars
  <2>8. CASE LockStep(w) /\ OnlyLock /\ UNCHANGED <<numberVars, stage>>
    BY <2>8 DEF LockStep, LockGrab, LockRelease, OnlyLock, threadVars, Return,
           ReturnError, Answer, CallInv
  <2>9. CASE RWStep(w) /\ OnlyReadWriteLock /\ UNCHANGED stage
    <3>1. UNCHANGED <<life, script, position, stage>>
      BY <2>9 DEF OnlyReadWriteLock, threadVars
    <3>2. stage[w] \in {"inside", "leave"} /\ life[w] = "running"
      BY <2>9, RWEffect DEF CallInv
    <3> QED
      BY <2>9, <3>1, <3>2, RWEffect
  <2>10. CASE ConditionStep(w) /\ OnlyCondition /\ UNCHANGED <<tokens, stage>>
    <3>1. UNCHANGED <<life, script, position, stage>>
      BY <2>10 DEF OnlyCondition, threadVars
    <3>2. /\ cond_pc[w] # "out" /\ cond_pc[w] \in CondLabels
          /\ \A u \in Threads \ {w} : answer'[u] = answer[u]
      BY <2>10, ConditionEffect DEF CondTypeInv
    <3>3. /\ stage[w] \in {"inside", "announced", "leave"}
          /\ life[w] = "running" /\ UsesMutex(w)
      BY <3>2 DEF CallInv, CondLabels, Getting, Telling
    <3> QED
      BY <3>1, <3>2, <3>3 DEF UsesMutex
  <2> QED
    BY <1>2, <2>1, <2>2, <2>3, <2>4, <2>5, <2>6, <2>7, <2>8, <2>9, <2>10
       DEF WorkerStep
<1>3. ASSUME NEW w \in Workers, SpuriousWakeup(w) PROVE StageInv'
  BY <1>3 DEF SpuriousWakeup, CondSpuriousWakeup, UsesLock, UsesRW, Operation,
         threadVars, callVars
<1>4. CASE UNCHANGED vars
  BY <1>4 DEF vars, threadVars, callVars, programVars, UsesLock, UsesRW,
         Operation
<1> QED
  BY <1>1, <1>2, <1>3, <1>4 DEF Next, Ended

-----------------------------------------------------------------------------
(* Who holds what.                                                         *)


LEMMA LockInvKept ==
    ASSUME TypeInv, RWInv, CallInv, StageInv, LockInv, [Next]_vars
    PROVE  LockInv'
<1>0. CallsTypeOK
  BY DEF RWInv, RWTypeInv
<1> USE WorkersAreThreads DEF TypeInv, CallsTypeOK
<1>1. CASE MainStep
  <2>1. /\ UNCHANGED <<lock_owner, lock_pc, script, position, stage, number,
                       counts, seen>>
        /\ \A w \in Workers : answer'[w] = answer[w]
        /\ failures \subseteq failures'
    BY <1>1, MainEffect DEF lockVars, programVars, numberVars
  <2> QED
    BY <2>1 DEF LockInv, HoldsLock, UsesLock, Operation
<1>2. ASSUME NEW w \in Workers, WorkerStep(w) PROVE LockInv'
  <2> USE <1>0 DEF UsesLock, Operation, ProgramTypeInv, LockTypeOK, HoldsLock
  <2>1. CASE Launch(w) /\ UNCHANGED <<primitiveVars, objectVars, programVars>>
    BY <2>1 DEF LockInv, Launch, primitiveVars, lockVars, programVars,
           numberVars, Fail, Succeed
  <2>2. CASE Begin(w)
    <3>1. /\ UNCHANGED <<script, position, answer, failures, lock_owner,
                         numberVars>>
          /\ \A u \in Workers \ {w} : lock_pc'[u] = lock_pc[u]
          /\ \/ lock_pc'[w] = "grab"
             \/ lock_pc'[w] = "out" /\ ~ UsesLock(w)
      <4>1. CASE Operation(w) = "count" /\ CallLockGrab(w) /\ OnlyLock
        BY <2>2, <4>1 DEF Begin, OnlyLock, CallLockGrab, LockCall, callVars
      <4>2. CASE /\ ~ UsesLock(w) /\ UNCHANGED <<callVars, lockVars>>
                 /\ UNCHANGED <<script, position, numberVars>>
        BY <2>2, <4>2 DEF Begin, Ready, lockVars, callVars
      <4> QED
        BY <2>2, <4>1, <4>2 DEF Begin, OnlyReadWriteLock, OnlyCondition,
               CallGrabForRead, CallGrabForWrite, RWCall, CallGrab,
               CallTryGrab, CondCall
    <3>2. stage[w] = "begin" /\ Stage(w, "inside") /\ lock_pc[w] = "out"
      BY <2>2 DEF Begin, Ready
    <3> QED
      BY <3>1, <3>2 DEF LockInv, Stage, numberVars
  <2>3. CASE Inside(w)
    <3>1. CASE Operation(w) = "count"
      BY <2>3, <3>1 DEF LockInv, Inside, Ready, OnlyLock, callVars, lockVars,
             Stage
    <3>2. CASE Operation(w) # "count"
      <4>1. /\ UNCHANGED <<script, position, answer, failures, lock_owner,
                           lock_pc, numberVars>>
            /\ \/ stage' = stage
               \/ Stage(w, "leave")
               \/ Stage(w, "announced")
        BY <2>3, <3>2 DEF Inside, OnlyReadWriteLock, OnlyCondition,
             CallReleaseForRead, CallReleaseForWrite, RWCall, CallWait,
             CallRelease, CallSignal, CallBroadcast, CondCall, callVars,
             lockVars
      <4>2. lock_pc[w] = "out" /\ stage[w] = "inside"
        BY <2>3 DEF Inside, Ready
      <4> QED
        BY <3>2, <4>1, <4>2 DEF LockInv, Stage, numberVars
    <3> QED
      BY <3>1, <3>2
  <2>4. CASE Counting(w)
    <3>1. HoldsLock(w) /\ lock_owner = w /\ seen[w] = number /\ UsesLock(w)
      BY <2>4 DEF Counting, LockInv, StageInv
    <3>2. \A u \in Workers \ {w} : stage[u] # "counting"
      BY <3>1 DEF LockInv
    <3>3. number' = counts'
      BY <2>4, <3>1 DEF Counting, LockInv
    <3> QED
      BY <2>4, <3>1, <3>2, <3>3 DEF Counting, LockInv, Stage, lockVars,
             callVars, OnlyLock
  <2>5. CASE Announced(w)
    <3>1. CASE Operation(w) = "count"
      BY <2>5, <3>1 DEF LockInv, Announced, Ready, CallLockRelease, LockCall,
             OnlyLock, callVars, numberVars, Stage
    <3>2. CASE Operation(w) # "count"
      BY <2>5, <3>2 DEF LockInv, Announced, Ready, CallRelease, CondCall,
             OnlyCondition, callVars, lockVars, numberVars, Stage
    <3> QED
      BY <3>1, <3>2
  <2>6. CASE Leave(w)
    <3>1. UNCHANGED <<lock_owner, lock_pc, script, numberVars, callVars>>
      BY <2>6 DEF Leave, primitiveVars, lockVars
    <3>2. /\ lock_pc[w] = "out"
          /\ \/ stage[w] = "leave"
             \/ stage[w] = "inside" /\ answer[w] = 0
          /\ stage' = [stage EXCEPT ![w] = "begin"]
          /\ \A u \in Workers \ {w} : position'[u] = position[u]
      BY <2>6 DEF TypeInv, Leave, Ready, Stage, ProgramTypeInv
    <3> QED
      BY <3>1, <3>2 DEF LockInv, numberVars, callVars
  <2>7. CASE Finish(w)
    BY <2>7 DEF LockInv, Finish, callVars, lockVars, programVars, numberVars
  <2>8. CASE LockStep(w) /\ OnlyLock /\ UNCHANGED <<numberVars, stage>>
    <3>1. UNCHANGED <<script, position, stage, number, counts, seen>>
      BY <2>8 DEF OnlyLock, numberVars
    <3>2. CASE LockGrab(w)
      BY <3>1, <3>2 DEF LockGrab, LockInv, CallInv, StageInv, Return,
             ReturnError, Answer, Fail, Succeed
    <3>3. CASE LockRelease(w)
      BY <3>1, <3>3 DEF LockRelease, LockInv, CallInv, StageInv, Return,
             ReturnError, Answer, Fail, Succeed
    <3> QED
      BY <2>8, <3>2, <3>3 DEF LockStep
  <2>9. CASE RWStep(w) /\ OnlyReadWriteLock /\ UNCHANGED stage
    <3>1. UNCHANGED <<lock_owner, lock_pc, script, position, stage, number,
                      counts, seen>>
      BY <2>9 DEF OnlyReadWriteLock, lockVars, numberVars
    <3>2. UsesRW(w) /\ stage[w] # "counting" /\ lock_pc[w] = "out"
      BY <2>9, RWEffect DEF CallInv
    <3>3. /\ \A u \in Workers \ {w} : answer'[u] = answer[u]
          /\ failures \subseteq failures'
      BY <2>9, RWEffect
    <3> QED
      BY <3>1, <3>2, <3>3 DEF LockInv, UsesRW
  <2>10. CASE ConditionStep(w) /\ OnlyCondition /\ UNCHANGED <<tokens, stage>>
    <3>1. UNCHANGED <<lock_owner, lock_pc, script, position, stage, number,
                      counts, seen>>
      BY <2>10 DEF OnlyCondition, lockVars, numberVars
    <3>2. /\ cond_pc[w] # "out" /\ cond_pc[w] \in CondLabels
          /\ \A u \in Workers \ {w} : answer'[u] = answer[u]
          /\ failures \subseteq failures'
      BY <2>10, ConditionEffect DEF CondTypeInv
    <3>3. UsesMutex(w) /\ stage[w] # "counting" /\ lock_pc[w] = "out"
      BY <3>2 DEF CallInv, CondLabels, Getting, Telling
    <3> QED
      BY <3>1, <3>2, <3>3 DEF LockInv, UsesMutex
  <2> QED
    BY <1>2, <2>1, <2>2, <2>3, <2>4, <2>5, <2>6, <2>7, <2>8, <2>9, <2>10
       DEF WorkerStep
<1>3. ASSUME NEW w \in Workers, SpuriousWakeup(w) PROVE LockInv'
  BY <1>3 DEF LockInv, HoldsLock, SpuriousWakeup, CondSpuriousWakeup, UsesLock,
         Operation, lockVars, numberVars, callVars
<1>4. CASE UNCHANGED vars
  BY <1>4 DEF LockInv, HoldsLock, vars, primitiveVars, lockVars, callVars,
         programVars, numberVars, UsesLock, Operation
<1> QED
  BY <1>1, <1>2, <1>3, <1>4 DEF Next, Ended

LEMMA MutexInvKept ==
    ASSUME TypeInv, RWInv, CallInv, StageInv, MutexInv, [Next]_vars
    PROVE  MutexInv'
<1>0. CallsTypeOK
  BY DEF RWInv, RWTypeInv
<1> USE WorkersAreThreads DEF TypeInv, CallsTypeOK
<1>1. CASE MainStep
  <2>1. /\ UNCHANGED <<owner, cond_pc, script, position, stage, build>>
        /\ \A w \in Workers : answer'[w] = answer[w]
        /\ failures \subseteq failures'
    BY <1>1, MainEffect DEF condVars, programVars
  <2> QED
    BY <2>1 DEF MutexInv, HoldsMutex, UsesMutex, Operation
<1>2. ASSUME NEW w \in Workers, WorkerStep(w) PROVE MutexInv'
  <2> USE <1>0 DEF UsesMutex, Operation, ProgramTypeInv, CondTypeInv,
          HoldsMutex
  <2>1. CASE Launch(w) /\ UNCHANGED <<primitiveVars, objectVars, programVars>>
    BY <2>1 DEF MutexInv, Launch, primitiveVars, condVars, programVars, Fail,
           Succeed
  <2>2. CASE Begin(w)
    <3>1. /\ UNCHANGED <<script, position, callVars, owner>>
          /\ \A u \in Workers \ {w} : cond_pc'[u] = cond_pc[u]
          /\ \/ cond_pc'[w] \in {"grab", "try_grab"} /\ owner # w
             \/ cond_pc'[w] = "out" /\ ~ UsesMutex(w)
      BY <2>2 DEF Begin, Ready, OnlyLock, OnlyReadWriteLock, OnlyCondition,
             CallLockGrab, LockCall, CallGrabForRead, condVars,
             CallGrabForWrite, RWCall, CallGrab, CallTryGrab, CondCall,
             CondGoto
    <3>2. stage[w] = "begin" /\ Stage(w, "inside") /\ cond_pc[w] = "out"
      BY <2>2 DEF Begin, Ready
    <3> QED
      BY <3>1, <3>2 DEF MutexInv, Stage, callVars, Holding, Telling
  <2>3. CASE Inside(w)
    <3>1. CASE UsesMutex(w)
      BY <2>3, <3>1 DEF MutexInv, Inside, Ready, OnlyCondition, CallWait,
             CallRelease, CallSignal, CallBroadcast, CondCall, CondGoto,
             callVars, Stage, Holding, Telling
    <3>2. CASE ~ UsesMutex(w)
      <4>1. UNCHANGED <<script, position, callVars, owner, cond_pc>>
        BY <2>3, <3>2 DEF Inside, OnlyLock, OnlyReadWriteLock, condVars,
             CallReleaseForRead, CallReleaseForWrite, RWCall
      <4>2. /\ cond_pc[w] = "out"
            /\ \A u \in Workers \ {w} : stage'[u] = stage[u]
        BY <2>3, <3>2 DEF Inside, Ready, Stage
      <4> QED
        BY <3>2, <4>1, <4>2 DEF MutexInv, callVars, Holding, Telling
    <3> QED
      BY <3>1, <3>2
  <2>4. CASE Counting(w)
    BY <2>4 DEF Counting, MutexInv, StageInv, UsesLock, Stage, Ready,
           condVars, callVars, OnlyLock
  <2>5. CASE Announced(w)
    <3>1. CASE Operation(w) = "count"
      BY <2>5, <3>1 DEF MutexInv, Announced, Ready, CallLockRelease, LockCall,
             OnlyLock, callVars, condVars, Stage
    <3>2. CASE Operation(w) # "count"
      BY <2>5, <3>2 DEF MutexInv, Announced, Ready, CallRelease, CondCall,
             CondGoto, OnlyCondition, callVars, Stage, Holding, Telling
    <3> QED
      BY <3>1, <3>2
  <2>6. CASE Leave(w)
    <3>1. UNCHANGED <<owner, cond_pc, script, callVars>>
      BY <2>6 DEF Leave, primitiveVars, condVars
    <3>2. /\ cond_pc[w] = "out"
          /\ \/ stage[w] = "leave"
             \/ stage[w] = "inside" /\ answer[w] = 0
          /\ stage' = [stage EXCEPT ![w] = "begin"]
          /\ \A u \in Workers \ {w} : position'[u] = position[u]
      BY <2>6 DEF TypeInv, Leave, Ready, Stage, ProgramTypeInv
    <3> QED
      BY <3>1, <3>2 DEF MutexInv, callVars, Holding, Telling
  <2>7. CASE Finish(w)
    <3>1. UNCHANGED <<cond_pc, callVars, script, position, stage>>
      BY <2>7 DEF Finish, programVars
    <3>2. ~ HoldsMutex(w) /\ (stage[w] = "begin" \/ answer[w] = -1)
      BY <2>7 DEF Finish, Ready, Holding, Telling
    <3>3. /\ build = "winapi" /\ owner = w => owner' = NoThread
          /\ ~ (build = "winapi" /\ owner = w) => owner' = owner
      BY <2>7 DEF Finish, Abandon
    <3> QED
      BY <3>1, <3>2, <3>3 DEF MutexInv, callVars
  <2>8. CASE LockStep(w) /\ OnlyLock /\ UNCHANGED <<numberVars, stage>>
    <3>1. UNCHANGED <<owner, cond_pc, script, position, stage>>
      BY <2>8 DEF OnlyLock, condVars
    <3>2. /\ \A u \in Workers \ {w} : answer'[u] = answer[u]
          /\ failures \subseteq failures' /\ build' = build
      BY <2>8 DEF LockStep, LockGrab, LockRelease, Return, ReturnError,
             Answer, Fail, Succeed
    <3>3. ~ UsesMutex(w) /\ cond_pc[w] = "out"
      BY <2>8 DEF LockStep, LockGrab, LockRelease, CallInv, UsesLock
    <3> QED
      BY <3>1, <3>2, <3>3 DEF MutexInv
  <2>9. CASE RWStep(w) /\ OnlyReadWriteLock /\ UNCHANGED stage
    <3>1. UNCHANGED <<owner, cond_pc, script, position, stage>>
      BY <2>9 DEF OnlyReadWriteLock, condVars
    <3>2. UsesRW(w) /\ cond_pc[w] = "out"
      BY <2>9, RWEffect DEF CallInv
    <3>3. /\ \A u \in Workers \ {w} : answer'[u] = answer[u]
          /\ failures \subseteq failures' /\ build' = build
      BY <2>9, RWEffect
    <3> QED
      BY <3>1, <3>2, <3>3 DEF MutexInv, UsesRW
  <2>10. CASE ConditionStep(w) /\ OnlyCondition /\ UNCHANGED <<tokens, stage>>
    <3>1. UNCHANGED <<script, position, stage>>
      BY <2>10 DEF OnlyCondition
    <3>2. /\ cond_pc[w] # "out" /\ cond_pc[w] \in CondLabels
          /\ \A u \in Workers \ {w} :
                answer'[u] = answer[u] /\ cond_pc'[u] = cond_pc[u]
          /\ failures \subseteq failures' /\ build' = build
      BY <2>10, ConditionEffect
    <3>3. /\ UsesMutex(w)
          /\ cond_pc[w] \in Getting => stage[w] = "inside"
          /\ cond_pc[w] \in Telling => stage[w] = "announced"
          /\ cond_pc[w] = "release" => stage[w] = "leave"
      BY <3>2 DEF CallInv
    <3> USE <3>1, <3>2, <3>3 DEF MutexInv, Holding, Getting, Telling, CondGoto,
            Return, ReturnError, Answer, Fail, Succeed, Silent
    <3>4. CASE MutexStep(w)
      BY <3>4 DEF MutexStep, MutexGrab, MutexTryGrab, MutexRelease, Acquire
    <3>5. CASE WaitMutex(w)
      BY <3>5 DEF WaitMutex, Acquire
    <3>6. CASE PthreadCondStep(w)
      BY <3>6 DEF PthreadCondStep, CondWait, CondAwake, CondSignal,
             CondBroadcast
    <3>7. CASE WinCondStep(w)
      <4>1. CASE WinWait(w) \/ WinSleep(w) \/ WinAwake(w)
        BY <3>7, <4>1 DEF WinCondStep, WinWait, WinSleep, WinAwake
      <4>2. CASE WinUncount(w) \/ WinLast(w)
        BY <3>7, <4>2 DEF WinCondStep, WinUncount, WinLast
      <4>3. CASE WinSignal(w) \/ WinSignalRelease(w)
        BY <3>7, <4>3 DEF WinCondStep, WinSignal, WinSignalRelease,
               SemaphoreFails
      <4>4. CASE WinBroadcast(w)
        BY <3>7, <4>4 DEF WinCondStep, WinBroadcast, SemaphoreFails
      <4>5. CASE WinBroadcastWait(w) \/ WinBroadcastEnd(w)
        BY <3>7, <4>5 DEF WinCondStep, WinBroadcastWait, WinBroadcastEnd
      <4> QED
        BY <3>7, <4>1, <4>2, <4>3, <4>4, <4>5 DEF WinCondStep
    <3> QED
      BY <2>10, <3>4, <3>5, <3>6, <3>7 DEF ConditionStep
  <2> QED
    BY <1>2, <2>1, <2>2, <2>3, <2>4, <2>5, <2>6, <2>7, <2>8, <2>9, <2>10
       DEF WorkerStep
<1>3. ASSUME NEW w \in Workers, SpuriousWakeup(w) PROVE MutexInv'
  BY <1>3 DEF MutexInv, HoldsMutex, SpuriousWakeup, CondSpuriousWakeup,
         UsesMutex, Operation, callVars
<1>4. CASE UNCHANGED vars
  BY <1>4 DEF MutexInv, HoldsMutex, vars, primitiveVars, condVars, callVars,
         programVars, UsesMutex, Operation
<1> QED
  BY <1>1, <1>2, <1>3, <1>4 DEF Next, Ended

LEMMA RwlockInvKept ==
    ASSUME TypeInv, RWInv, CallInv, StageInv, RwlockInv, [Next]_vars
    PROVE  RwlockInv'
<1>0. CallsTypeOK /\ rw_pc \in [Threads -> RWLabels]
  BY DEF RWInv, RWTypeInv
<1> USE WorkersAreThreads DEF CallsTypeOK, UsesRW, Operation
<1>1. CASE MainStep
  <2>1. /\ UNCHANGED <<rw_pc, script, position, stage, build>>
        /\ \A w \in Workers : answer'[w] = answer[w]
        /\ failures \subseteq failures'
    BY <1>1, MainEffect DEF rwVars, programVars
  <2> QED
    BY <2>1 DEF RwlockInv
<1>2. ASSUME NEW w \in Workers, WorkerStep(w) PROVE RwlockInv'
  <2> USE <1>0 DEF TypeInv, ProgramTypeInv
  <2>1. CASE Launch(w) /\ UNCHANGED <<primitiveVars, objectVars, programVars>>
    BY <2>1 DEF RwlockInv, Launch, primitiveVars, rwVars, programVars, Fail,
           Succeed
  <2>2. CASE Begin(w)
    <3>1. /\ UNCHANGED <<callVars, script, position>>
          /\ \A u \in Workers \ {w} : rw_pc'[u] = rw_pc[u]
          /\ rw_pc'[w] \in {rw_pc[w], "read_enter", "write_enter"}
      BY <2>2 DEF Begin, OnlyLock, OnlyReadWriteLock, OnlyCondition,
             CallLockGrab, LockCall, CallGrabForRead, CallGrabForWrite,
             RWCall, RWGoto, CallGrab, CallTryGrab, CondCall, rwVars
    <3>2. stage[w] = "begin" /\ Stage(w, "inside")
      BY <2>2 DEF Begin
    <3> QED
      BY <3>1, <3>2 DEF RwlockInv, Stage, callVars
  <2>3. CASE Inside(w)
    <3>1. /\ UNCHANGED <<callVars, script, position>>
          /\ \A u \in Workers \ {w} :
                rw_pc'[u] = rw_pc[u] /\ stage'[u] = stage[u]
          /\ \/ rw_pc'[w] = rw_pc[w] /\ ~ UsesRW(w)
             \/ rw_pc'[w] \in {"unread_enter", "unwrite"}
      BY <2>3 DEF Inside, OnlyLock, OnlyReadWriteLock, OnlyCondition,
             CallReleaseForRead, CallReleaseForWrite, RWCall, RWGoto,
             CallWait, CallRelease, CallSignal, CallBroadcast, CondCall,
             rwVars, Stage, UsesRW
    <3> QED
      BY <2>3, <3>1 DEF RwlockInv, callVars
  <2>4. CASE Counting(w) \/ Announced(w) \/ Leave(w) \/ Finish(w)
    <3>1. UNCHANGED <<rw_pc, callVars, script>>
      BY <2>4 DEF Counting, Announced, Leave, Finish, CallLockRelease,
             LockCall, CallRelease, CondCall, OnlyLock, OnlyCondition,
             primitiveVars, programVars, rwVars
    <3>2. /\ \A u \in Workers \ {w} :
                stage'[u] = stage[u] /\ position'[u] = position[u]
          /\ stage[w] = "inside" /\ answer[w] = 1 =>
                stage'[w] = "inside" /\ position'[w] = position[w]
      BY <2>4 DEF Counting, Announced, Leave, Finish, Stage, programVars,
             OnlyLock, OnlyCondition
    <3> QED
      BY <3>1, <3>2 DEF RwlockInv, callVars
  <2>5. CASE LockStep(w) /\ OnlyLock /\ UNCHANGED <<numberVars, stage>>
    BY <2>5 DEF LockStep, LockGrab, LockRelease, OnlyLock, rwVars, RwlockInv,
           Return, ReturnError, Answer, Fail, Succeed, CallInv, UsesLock
  <2>6. CASE RWStep(w) /\ OnlyReadWriteLock /\ UNCHANGED stage
    <3>1. \A u \in Workers \ {w} : answer'[u] = answer[u] /\ rw_pc'[u] = rw_pc[u]
      BY <2>6, RWEffect
    <3>2. /\ build' = build /\ failures \subseteq failures'
          /\ build = "pthread" /\ rw_pc'[w] \in {"reading", "writing"} =>
                \/ rw_pc[w] \in {"read_enter", "write_enter"} /\ answer'[w] = 1
                \/ "rwlock_unlock" \in failures'
      BY <2>6, RWEffect
    <3>3. rw_pc[w] \in {"read_enter", "write_enter"} => stage[w] = "inside"
      BY DEF CallInv, RWRest
    <3>4. /\ UNCHANGED <<script, position, stage>>
          /\ UsesRW(w)
      BY <2>6, RWEffect DEF OnlyReadWriteLock, CallInv
    <3> QED
      BY <2>6, <3>1, <3>2, <3>3, <3>4 DEF RwlockInv
  <2>7. CASE ConditionStep(w) /\ OnlyCondition /\ UNCHANGED <<tokens, stage>>
    <3>1. /\ cond_pc[w] # "out" /\ cond_pc[w] \in CondLabels
          /\ \A u \in Workers \ {w} : answer'[u] = answer[u]
          /\ failures \subseteq failures' /\ build' = build
      BY <2>7, ConditionEffect DEF CondTypeInv
    <3>2. UNCHANGED <<rw_pc, script, position, stage>>
      BY <2>7 DEF OnlyCondition, rwVars
    <3>3. ~ UsesRW(w)
      BY <3>1 DEF CallInv, UsesMutex
    <3> QED
      BY <3>1, <3>2, <3>3 DEF RwlockInv
  <2> QED
    BY <1>2, <2>1, <2>2, <2>3, <2>4, <2>5, <2>6, <2>7 DEF WorkerStep
<1>3. ASSUME NEW w \in Workers, SpuriousWakeup(w) PROVE RwlockInv'
  BY <1>3 DEF RwlockInv, SpuriousWakeup, CondSpuriousWakeup, rwVars, callVars
<1>4. CASE UNCHANGED vars
  BY <1>4 DEF RwlockInv, vars, primitiveVars, rwVars, callVars, programVars
<1> QED
  BY <1>1, <1>2, <1>3, <1>4 DEF Next, Ended

-----------------------------------------------------------------------------
(* Threads and their results.                                              *)

\* Who does not launch or finish a thread, or join one, changes no thread.
LEMMA ThreadsElsewhere ==
    ASSUME RWInv, TypeInv, NEW w \in Workers,
           \/ Begin(w) \/ Inside(w) \/ Counting(w) \/ Announced(w) \/ Leave(w)
           \/ LockStep(w) /\ OnlyLock
           \/ RWStep(w) /\ OnlyReadWriteLock
           \/ ConditionStep(w) /\ OnlyCondition
           \/ SpuriousWakeup(w)
    PROVE  /\ UNCHANGED <<build, threadVars, objectVars>>
           /\ failures \subseteq failures'
<1> USE WorkersAreThreads
<1>1. CASE Begin(w) \/ Inside(w) \/ Counting(w) \/ Announced(w) \/ Leave(w)
  BY <1>1 DEF Begin, Inside, Counting, Announced, Leave, OnlyLock,
       OnlyReadWriteLock, OnlyCondition, CallLockGrab, CallLockRelease,
       LockCall, CallGrabForRead, CallGrabForWrite, CallReleaseForRead,
       CallReleaseForWrite, RWCall, CallGrab, CallTryGrab, CallWait,
       CallRelease, CallSignal, CallBroadcast, CondCall, callVars
<1>2. CASE LockStep(w) /\ OnlyLock
  BY <1>2 DEF LockStep, LockGrab, LockRelease, OnlyLock, Return, ReturnError,
       Fail, Succeed
<1>3. CASE RWStep(w) /\ OnlyReadWriteLock
  BY <1>3, RWEffect DEF OnlyReadWriteLock
<1>4. CASE ConditionStep(w) /\ OnlyCondition
  BY <1>4, ConditionEffect DEF OnlyCondition, TypeInv, RWInv, RWTypeInv
<1>5. CASE SpuriousWakeup(w)
  BY <1>5 DEF SpuriousWakeup, CondSpuriousWakeup, callVars
<1> QED
  BY <1>1, <1>2, <1>3, <1>4, <1>5

LEMMA ResultInvKept ==
    ASSUME TypeInv, RWInv, ResultInv, JoinReportsTheThread, [Next]_vars
    PROVE  ResultInv' /\ JoinReportsTheThread'
<1> USE WorkersAreThreads DEF ResultInv, JoinReportsTheThread
<1>1. CASE UNCHANGED <<build, threadVars>> /\ failures \subseteq failures'
  BY <1>1 DEF threadVars
<1>2. CASE MainStep
  <2>1. CASE RunThreads
    <3>1. PICK w \in Workers : CreateThread(w) \/ JoinThread(w)
      BY <2>1 DEF RunThreads
    <3>2. CASE CreateThread(w)
      BY <3>2 DEF CreateThread, Live, ReturnError, Fail, Succeed, TypeInv,
             ThreadTypeOK
    <3>3. CASE JoinThread(w)
      BY <3>3 DEF JoinThread, ReturnError, Fail, Succeed, TypeInv,
             ThreadTypeOK, NoResult
    <3> QED
      BY <3>1, <3>2, <3>3
  <2>2. CASE ~ RunThreads
    <3>1. UNCHANGED threadVars
      BY <1>2, <2>2 DEF MainStep, MakeObject, FreeObject
    <3> QED
      BY <1>1, <1>2, <3>1, MainEffect
  <2> QED
    BY <2>1, <2>2
<1>3. ASSUME NEW w \in Workers, Launch(w) PROVE ResultInv' /\ JoinReportsTheThread'
  BY <1>3 DEF Launch, Live, Fail, Succeed, TypeInv, ThreadTypeOK
<1>4. ASSUME NEW w \in Workers, Finish(w) PROVE ResultInv' /\ JoinReportsTheThread'
  <2>1. PICK r \in {-1, 1} : Exit(w, r)
    BY <1>4 DEF Finish
  <2> QED
    BY <1>4, <2>1 DEF Finish, Exit, Live, callVars, TypeInv, ThreadTypeOK,
           NoResult
<1>5. CASE UNCHANGED vars
  BY <1>1, <1>5 DEF vars, callVars
<1> QED
  BY <1>1, <1>2, <1>3, <1>4, <1>5, ThreadsElsewhere DEF Next, Ended, WorkerStep

-----------------------------------------------------------------------------
(* The objects.                                                            *)

\* An initialize function makes an object k or refuses it, and touches the
\* parts of no other.
LEMMA MakeEffect ==
    ASSUME TypeInv, OrderInv, MakeObject
    PROVE  \E k \in Kinds, s \in {"live", "refused"} :
              /\ object[k] = "none" /\ Becomes(k, s)
              /\ k = "mutex" => object["lock"] = "live"
              /\ k = "condition" => object["mutex"] = "live"
              /\ k = "read_write_lock" => object["condition"] = "live"
              /\ \A l \in Kinds \ {k} : open' \cap Parts(l) = open \cap Parts(l)
              /\ s = "refused" => open' = open
              /\ build = "winapi" =>
                    {"condition", "read_write_lock"} \cap open' = {}
              /\ build = "pthread" =>
                    (ConditionParts \cup ReadWriteLockParts) \cap open' = {}
<1> USE DEF MakeObject, Made, NotMade, Kinds, Parts, ConditionParts,
            ReadWriteLockParts, OrderInv
<1>1. CASE InitializeLock(Main)
  BY <1>1 DEF InitializeLock
<1>2. CASE object["lock"] = "live" /\ InitializeMutex(Main)
  BY <1>2 DEF InitializeMutex
<1>3. CASE object["mutex"] = "live" /\ InitializeCondition(Main)
  BY <1>3 DEF InitializeCondition
<1>4. CASE object["condition"] = "live" /\ InitializeReadWriteLock(Main)
  BY <1>4 DEF InitializeReadWriteLock
<1> QED
  BY <1>1, <1>2, <1>3, <1>4

\* No free is made while an object is in use, unless a call failed that
\* should have given it back.
LEMMA Unused ==
    ASSUME IInv, Unmade \/ AllGone, NEW w \in Workers, build = "pthread",
           NEW k \in Kinds, object[k] = "live",
           k = "mutex" => object["lock"] = "freed",
           k = "condition" => object["mutex"] = "freed",
           k = "read_write_lock" => object["condition"] = "freed"
    PROVE  /\ lock_owner = w => "unlock" \in failures
           /\ owner = w => failures \cap {"wait", "signal", "release"} # {}
           /\ rw_pc[w] \in {"reading", "writing", "unread_enter", "unwrite"} =>
                 "rwlock_unlock" \in failures
<1>1. life[w] \in {"none", "refused", "exited"}
  <2>1. CASE AllGone
    BY <2>1 DEF AllGone
  <2>2. CASE Unmade
    <3>1. object["read_write_lock"] \notin {"live", "freed"}
      BY <2>2 DEF Unmade, IInv, OrderInv, Kinds
    <3> QED
      BY <3>1 DEF IInv, OrderInv
  <2> QED
    BY <2>1, <2>2
<1>2. stage[w] = "begin" \/ answer[w] = -1
  BY <1>1 DEF IInv, CallsInv, StageInv
<1>3. /\ lock_pc[w] = "out" /\ rw_pc[w] \in RWRest /\ cond_pc[w] = "out"
  BY <1>1, WorkersAreThreads DEF IInv, CallsInv, CallInv
<1>4. ~ HoldsLock(w) /\ ~ HoldsMutex(w)
  BY <1>2, <1>3, WorkersAreThreads
     DEF HoldsLock, HoldsMutex, Holding, Telling, IInv, CallsInv, StageInv
<1> QED
  BY <1>2, <1>3, <1>4 DEF IInv, LockInv, MutexInv, RwlockInv, RWRest

LEMMA FreeEffect ==
    ASSUME IInv, FreeObject
    PROVE  \E k \in Kinds :
              /\ object[k] = "live" /\ Becomes(k, "freed")
              /\ open' \subseteq open
              /\ \/ open' \cap Parts(k) = {}
                 \/ failures' \cap CanStayOpen # {}
<1> USE DEF Kinds, Parts, ConditionParts, ReadWriteLockParts, Free, FreeBusy,
            Destroy
<1>1. build \in {"pthread", "winapi"}
  BY CallsAssumption DEF IInv, CallsInv, RWInv, RWTypeInv, CallsTypeOK
<1>2. /\ build = "winapi" => {"condition", "read_write_lock"} \cap open = {}
      /\ build = "pthread" =>
            (ConditionParts \cup ReadWriteLockParts) \cap open = {}
  BY DEF IInv, OrderInv
<1>3. ASSUME ReturnError(Main, "close") PROVE failures' \cap CanStayOpen # {}
  BY <1>3 DEF ReturnError, Fail, CanStayOpen
<1> USE <1>1, <1>2, <1>3
<1>4. CASE FreeLock(Main, lock_owner # NoThread)
  <2>1. CASE build = "pthread" /\ lock_owner # NoThread
    <3>1. lock_owner \in Workers
      BY <2>1 DEF IInv, LockInv, CallsInv, TypeInv, LockTypeOK, Workers
    <3>2. "unlock" \in failures'
      BY <1>4, <2>1, <3>1, Unused DEF FreeObject, FreeLock, Succeed
    <3> QED
      BY <1>4, <2>1, <3>2 DEF FreeLock, CanStayOpen
  <2>2. CASE ~ (build = "pthread" /\ lock_owner # NoThread)
    BY <1>4, <2>2 DEF FreeLock
  <2> QED
    BY <2>1, <2>2
<1>5. CASE /\ object["lock"] = "freed"
           /\ FreeMutex(Main, owner # NoThread)
  <2>1. CASE build = "pthread" /\ owner # NoThread
    <3>1. owner \in Workers
      BY <2>1 DEF IInv, MutexInv, CallsInv, TypeInv, CondTypeInv, Workers
    <3>2. failures' \cap {"wait", "signal", "release"} # {}
      BY <1>5, <2>1, <3>1, Unused DEF FreeObject, FreeMutex, Succeed
    <3> QED
      BY <1>5, <2>1, <3>2 DEF FreeMutex, CanStayOpen
  <2>2. CASE ~ (build = "pthread" /\ owner # NoThread)
    BY <1>5, <2>2 DEF FreeMutex
  <2> QED
    BY <2>1, <2>2
<1>6. CASE object["mutex"] = "freed" /\ FreeCondition(Main)
  BY <1>6 DEF FreeCondition
<1>7. CASE /\ object["condition"] = "freed"
           /\ FreeReadWriteLock(Main, RwlockReaders \cup RwlockWriters # {})
  <2>1. CASE build = "pthread" /\ RwlockReaders \cup RwlockWriters # {}
    <3>1. PICK w \in Threads :
             rw_pc[w] \in {"reading", "unread_enter", "writing", "unwrite"}
      BY <2>1 DEF RwlockReaders, RwlockWriters
    <3>2. w \in Workers
      BY <3>1 DEF IInv, CallsInv, CallInv
    <3>3. "rwlock_unlock" \in failures'
      BY <1>7, <2>1, <3>1, <3>2, Unused DEF FreeObject, FreeReadWriteLock,
             Succeed
    <3> QED
      BY <1>7, <2>1, <3>3 DEF FreeReadWriteLock, CanStayOpen
  <2>2. CASE ~ (build = "pthread" /\ RwlockReaders \cup RwlockWriters # {})
    BY <1>7, <2>2 DEF FreeReadWriteLock
  <2> QED
    BY <2>1, <2>2
<1> QED
  BY <1>4, <1>5, <1>6, <1>7 DEF FreeObject

LEMMA ObjectsKept ==
    ASSUME IInv, [Next]_vars
    PROVE  OrderInv' /\ NothingIsLeftOpen'
<1>1. TypeInv /\ RWInv /\ OrderInv /\ NothingIsLeftOpen
  BY DEF IInv, CallsInv
<1>2. object \in [Kinds -> {"none", "live", "refused", "freed"}]
  BY <1>1 DEF TypeInv, ObjectTypeOK
<1>3. CanStayOpen = IF build = "winapi" THEN {"close"}
          ELSE {"close", "unlock", "release", "rwlock_unlock", "wait", "signal"}
  BY DEF CanStayOpen
<1>4. CASE /\ UNCHANGED <<build, objectVars>>
           /\ failures \subseteq failures'
           /\ \A w \in Workers : life'[w] # "none" => life[w] # "none"
  <2>1. OrderInv'
    BY <1>1, <1>4 DEF OrderInv, objectVars, Parts
  <2>2. NothingIsLeftOpen'
    BY <1>1, <1>4 DEF NothingIsLeftOpen, CanStayOpen, objectVars, Parts
  <2> QED
    BY <2>1, <2>2
<1>5. CASE MakeObject
  <2>1. PICK k \in Kinds, s \in {"live", "refused"} :
              /\ object[k] = "none" /\ Becomes(k, s)
              /\ k = "mutex" => object["lock"] = "live"
              /\ k = "condition" => object["mutex"] = "live"
              /\ k = "read_write_lock" => object["condition"] = "live"
              /\ \A l \in Kinds \ {k} : open' \cap Parts(l) = open \cap Parts(l)
              /\ s = "refused" => open' = open
              /\ build = "winapi" =>
                    {"condition", "read_write_lock"} \cap open' = {}
              /\ build = "pthread" =>
                    (ConditionParts \cup ReadWriteLockParts) \cap open' = {}
    BY <1>1, <1>5, MakeEffect
  <2>2. UNCHANGED <<build, threadVars>> /\ failures \subseteq failures'
    BY <1>1, <1>5, MainEffect DEF MainStep, MakeObject
  <2>3. /\ object'[k] = s /\ \A l \in Kinds \ {k} : object'[l] = object[l]
        /\ \A l \in Kinds : Parts(l)' = Parts(l)
    BY <1>2, <2>1 DEF Becomes, Parts
  <2>4. OrderInv'
    BY <1>1, <2>1, <2>2, <2>3 DEF OrderInv, Kinds, threadVars
  <2>5. \A l \in Kinds :
           object'[l] = "refused" /\ l = k => open' \cap Parts(l) = {}
    BY <1>1, <2>1, <2>3 DEF OrderInv
  <2>6. NothingIsLeftOpen'
    BY <1>1, <2>1, <2>2, <2>3, <2>5 DEF NothingIsLeftOpen, CanStayOpen
  <2> QED
    BY <2>4, <2>6
<1>6. CASE FreeObject
  <2>1. PICK k \in Kinds :
              /\ object[k] = "live" /\ Becomes(k, "freed")
              /\ open' \subseteq open
              /\ \/ open' \cap Parts(k) = {}
                 \/ failures' \cap CanStayOpen # {}
    BY <1>6, FreeEffect
  <2>2. UNCHANGED <<build, threadVars>> /\ failures \subseteq failures'
    BY <1>1, <1>6, MainEffect DEF MainStep, FreeObject
  <2>3. /\ object'[k] = "freed"
        /\ \A l \in Kinds \ {k} : object'[l] = object[l]
        /\ \A l \in Kinds : Parts(l)' = Parts(l)
    BY <1>2, <2>1 DEF Becomes, Parts
  <2>4. OrderInv'
    BY <1>1, <2>1, <2>2, <2>3 DEF OrderInv, Kinds, threadVars
  <2>5. NothingIsLeftOpen'
    BY <1>1, <2>1, <2>2, <2>3 DEF NothingIsLeftOpen, CanStayOpen
  <2> QED
    BY <2>4, <2>5
<1>7. CASE RunThreads
  <2>1. UNCHANGED <<build, objectVars>> /\ failures \subseteq failures'
    BY <1>1, <1>7, MainEffect DEF MainStep, RunThreads
  <2>2. object["read_write_lock"] = "live"
    BY <1>7 DEF RunThreads
  <2>3. OrderInv'
    BY <1>1, <2>1, <2>2 DEF OrderInv, objectVars, Parts
  <2>4. NothingIsLeftOpen'
    BY <1>1, <2>1 DEF NothingIsLeftOpen, CanStayOpen, objectVars, Parts
  <2> QED
    BY <2>3, <2>4
<1>8. ASSUME NEW w \in Workers, Launch(w), UNCHANGED objectVars
      PROVE  OrderInv' /\ NothingIsLeftOpen'
  BY <1>1, <1>4, <1>8 DEF Launch, Live, Fail, Succeed, TypeInv, ThreadTypeOK
<1>9. ASSUME NEW w \in Workers, Finish(w)
      PROVE  OrderInv' /\ NothingIsLeftOpen'
  BY <1>1, <1>4, <1>9 DEF Finish, Exit, Live, callVars, TypeInv, ThreadTypeOK
<1>10. CASE UNCHANGED vars
  BY <1>4, <1>10 DEF vars, callVars, threadVars
<1>11. ASSUME NEW w \in Workers,
              \/ Begin(w) \/ Inside(w) \/ Counting(w) \/ Announced(w) \/ Leave(w)
              \/ LockStep(w) /\ OnlyLock
              \/ RWStep(w) /\ OnlyReadWriteLock
              \/ ConditionStep(w) /\ OnlyCondition
              \/ SpuriousWakeup(w)
       PROVE  OrderInv' /\ NothingIsLeftOpen'
  BY <1>1, <1>4, <1>11, ThreadsElsewhere DEF threadVars
<1> QED
  BY <1>5, <1>6, <1>7, <1>8, <1>9, <1>10, <1>11
     DEF Next, Ended, MainStep, WorkerStep

-----------------------------------------------------------------------------
(* Who waits, and how many are counted.                                    *)

\* A thread whose call has failed calls nothing more.
LEMMA FailedForEver ==
    ASSUME TypeInv, RWInv, CallInv, StageInv, [Next]_vars
    PROVE  Failed \subseteq Failed'
<1> SUFFICES ASSUME NEW f \in Workers, answer[f] = -1
             PROVE  answer'[f] = -1
  BY DEF Failed
<1> USE WorkersAreThreads
<1>1. CASE UNCHANGED answer
  BY <1>1
<1>2. CASE MainStep
  BY <1>2, MainEffect
<1>3. ASSUME NEW w \in Workers, WorkerStep(w) PROVE answer'[f] = -1
  <2>1. CASE \/ Launch(w) \/ Begin(w) \/ Inside(w) \/ Counting(w)
             \/ Announced(w) \/ Leave(w) \/ Finish(w)
    BY <1>1, <2>1 DEF Launch, Begin, Inside, Counting, Announced, Leave,
         Finish, CallLockGrab, CallLockRelease, LockCall, CallGrabForRead,
         CallGrabForWrite, CallReleaseForRead, CallReleaseForWrite, RWCall,
         CallGrab, CallTryGrab, CallWait, CallRelease, CallSignal,
         CallBroadcast, CondCall, callVars
  <2>2. CASE LockStep(w)
    BY <2>2 DEF LockStep, LockGrab, LockRelease, CallInv, Return, ReturnError,
         Answer, RWInv, RWTypeInv, CallsTypeOK
  <2>3. CASE RWStep(w)
    BY <2>3, RWEffect DEF CallInv
  <2>4. CASE ConditionStep(w)
    BY <2>4, ConditionEffect DEF CallInv, TypeInv, RWInv, RWTypeInv
  <2> QED
    BY <1>3, <2>1, <2>2, <2>3, <2>4 DEF WorkerStep
<1>4. ASSUME NEW w \in Workers, SpuriousWakeup(w) PROVE answer'[f] = -1
  BY <1>1, <1>4 DEF SpuriousWakeup, CondSpuriousWakeup, callVars
<1>5. CASE UNCHANGED vars
  BY <1>1, <1>5 DEF vars, callVars
<1> QED
  BY <1>2, <1>3, <1>4, <1>5 DEF Next, Ended

\* The count still lies between those that wait and those that wait or have
\* failed.
CountInv ==
    /\ Cardinality(Counted) <= number_of_waiting_threads
    /\ number_of_waiting_threads <= Cardinality(Counted \cup Failed)

LEMMA FewerAreFewer ==
    ASSUME NEW S, NEW T, S \subseteq T, T \subseteq Threads
    PROVE  /\ Cardinality(S) <= Cardinality(T)
           /\ Cardinality(S) \in Nat /\ Cardinality(T) \in Nat
           /\ IsFiniteSet(S) /\ IsFiniteSet(T)
BY CallsAssumption, FS_Subset, FS_CardinalityType

\* A step that takes nobody out of those who wait or have failed, adds
\* nobody to those that wait, and does not count.
LEMMA CountKept ==
    ASSUME CondTypeInv, CountInv,
           UNCHANGED number_of_waiting_threads,
           Counted' \subseteq Counted,
           Counted \cup Failed \subseteq Counted' \cup Failed'
    PROVE  CountInv'
<1>1. Counted \subseteq Threads /\ Counted' \cup Failed' \subseteq Threads
  BY WorkersAreThreads DEF Counted, Failed
<1>2. /\ Cardinality(Counted') <= Cardinality(Counted)
      /\ Cardinality(Counted') \in Nat /\ Cardinality(Counted) \in Nat
  BY <1>1, FewerAreFewer
<1>3. /\ Cardinality(Counted \cup Failed) <= Cardinality(Counted' \cup Failed')
      /\ Cardinality(Counted \cup Failed) \in Nat
      /\ Cardinality(Counted' \cup Failed') \in Nat
  BY <1>1, FewerAreFewer
<1> QED
  BY <1>2, <1>3 DEF CountInv, CondTypeInv

Waiting == {"wait_sleep", "wait_blocked", "wait_uncount"}

LEMMA SameCounted ==
    ASSUME \A t \in Threads : cond_pc'[t] \in Waiting <=> cond_pc[t] \in Waiting
    PROVE  Counted' = Counted
BY DEF Counted, Waiting

LEMMA CountInvKept ==
    ASSUME IInv, build = "winapi", [Next]_vars
    PROVE  CountInv'
<1>1. CountInv /\ CondTypeInv
  BY DEF IInv, WaitInv, CountInv, CallsInv, TypeInv
<1>2. TypeInv /\ RWInv /\ CallInv /\ StageInv
  BY DEF IInv, CallsInv
<1>3. Failed \subseteq Failed'
  BY <1>2, FailedForEver
<1>4. ASSUME UNCHANGED number_of_waiting_threads,
             \A t \in Threads :
                cond_pc'[t] \in Waiting <=> cond_pc[t] \in Waiting
      PROVE  CountInv'
  BY <1>1, <1>3, <1>4, SameCounted, CountKept
<1>5. CASE UNCHANGED <<number_of_waiting_threads, cond_pc>>
  BY <1>4, <1>5
<1>6. CASE MainStep
  BY <1>2, <1>5, <1>6, MainEffect DEF condVars, winCondVars
<1>7. ASSUME NEW w \in Workers, ConditionStep(w), OnlyCondition
      PROVE  CountInv'
  <2>1. /\ w \in Threads /\ cond_pc[w] # "out" /\ cond_pc[w] \in CondLabels
        /\ \A u \in Threads \ {w} : cond_pc'[u] = cond_pc[u]
        /\ \A u \in Threads \ {w} : answer'[u] = answer[u]
    BY <1>2, <1>7, ConditionEffect, WorkersAreThreads
       DEF TypeInv, CondTypeInv, RWInv, RWTypeInv
  <2>2. w \notin Failed
    BY <1>2, <2>1 DEF CallInv, Failed
  <2>3. CASE cond_pc[w] \notin Waiting /\ cond_pc'[w] \notin Waiting
    <3>1. UNCHANGED number_of_waiting_threads
      <4>1. ~ WinWait(w) /\ ~ WinUncount(w)
        BY <1>2, <2>1, <2>3 DEF WinWait, WinUncount, CondGoto, Waiting,
             TypeInv, CondTypeInv
      <4>2. CASE MutexStep(w) \/ WaitMutex(w) \/ PthreadCondStep(w)
        BY <4>2 DEF MutexStep, MutexGrab, MutexTryGrab, MutexRelease,
             WaitMutex, PthreadCondStep, winCondVars
      <4>3. CASE WinCondStep(w)
        BY <4>1, <4>3 DEF WinCondStep, WinSleep, WinAwake, WinLast, WinSignal,
             WinSignalRelease, WinBroadcast, WinBroadcastWait,
             WinBroadcastEnd, winCondVars
      <4> QED
        BY <1>7, <4>2, <4>3 DEF ConditionStep
    <3> QED
      BY <1>4, <2>1, <2>3, <3>1
  <2>4. CASE WinWait(w)
    <3>1. cond_pc'[w] = "wait_sleep" /\ answer' = answer
      BY <1>2, <2>1, <2>4 DEF WinWait, CondGoto, Silent, TypeInv, CondTypeInv
    <3>2. w \notin Counted /\ Counted' = Counted \cup {w} /\ Failed' = Failed
      BY <2>1, <2>4, <3>1 DEF WinWait, Counted, Failed
    <3>3. Cardinality(Counted') = Cardinality(Counted) + 1
      BY <3>2, CountedFinite, FS_AddElement
    <3>4. (Counted \cup Failed)' = (Counted \cup Failed) \cup {w}
      BY <3>2
    <3>5. Cardinality((Counted \cup Failed)') = Cardinality(Counted \cup Failed) + 1
      BY <2>2, <3>2, <3>4, CountedFinite, FS_AddElement
    <3> QED
      BY <1>1, <2>4, <3>3, <3>5, CountedFinite
         DEF WinWait, CountInv, CondTypeInv
  <2>5. CASE WinUncount(w)
    <3>1. cond_pc'[w] \notin Waiting /\ answer' = answer
      BY <1>2, <2>1, <2>5 DEF WinUncount, CondGoto, Silent, TypeInv,
         CondTypeInv,
             Waiting
    <3>2. w \in Counted /\ Counted' = Counted \ {w} /\ Failed' = Failed
      BY <2>1, <2>5, <3>1 DEF WinUncount, Counted, Failed, Waiting
    <3>3. Cardinality(Counted') = Cardinality(Counted) - 1
      BY <3>2, CountedFinite, FS_RemoveElement
    <3>4. (Counted \cup Failed)' = (Counted \cup Failed) \ {w}
      BY <2>2, <3>2
    <3>5. Cardinality((Counted \cup Failed)') = Cardinality(Counted \cup Failed) - 1
      BY <2>2, <3>2, <3>4, CountedFinite, FS_RemoveElement
    <3> QED
      BY <1>1, <2>5, <3>3, <3>5, CountedFinite
         DEF WinUncount, CountInv, CondTypeInv
  <2>6. CASE WinSleep(w)
    <3>1. UNCHANGED number_of_waiting_threads
      BY <2>6 DEF WinSleep, winCondVars
    <3>2. CASE cond_pc'[w] \in Waiting
      BY <1>4, <2>1, <2>6, <3>1, <3>2 DEF WinSleep, Waiting
    <3>3. CASE cond_pc'[w] \notin Waiting
      <4>1. answer'[w] = -1
        BY <1>2, <2>1, <2>6, <3>3 DEF WinSleep, CondGoto, ReturnError, Answer,
           Waiting, TypeInv, CondTypeInv, RWInv, RWTypeInv, CallsTypeOK
      <4>2. Counted' \subseteq Counted /\ Counted \subseteq Counted' \cup {w}
        BY <2>1, <3>3 DEF Counted, Waiting
      <4>3. Counted \cup Failed \subseteq Counted' \cup Failed'
        BY <1>3, <4>1, <4>2 DEF Failed
      <4> QED
        BY <1>1, <3>1, <4>2, <4>3, CountKept
    <3> QED
      BY <3>2, <3>3
  <2>7. CASE WinAwake(w)
    <3>1. cond_pc[w] \in Waiting /\ cond_pc'[w] \in Waiting
      BY <1>2, <2>1, <2>7 DEF WinAwake, CondGoto, Waiting, TypeInv, CondTypeInv
    <3> QED
      BY <1>4, <2>1, <2>7, <3>1 DEF WinAwake
  <2>8. cond_pc[w] \in Waiting \/ cond_pc'[w] \in Waiting =>
           WinWait(w) \/ WinUncount(w) \/ WinSleep(w) \/ WinAwake(w)
    <3> USE <1>2, <2>1 DEF TypeInv, CondTypeInv, CondGoto, Waiting
    <3>1. CASE MutexStep(w) \/ WaitMutex(w)
      BY <3>1 DEF MutexStep, MutexGrab, MutexTryGrab, MutexRelease, WaitMutex
    <3>2. ~ PthreadCondStep(w)
      BY DEF PthreadCondStep
    <3>3. CASE WinLast(w) \/ WinSignal(w) \/ WinSignalRelease(w)
      BY <3>3 DEF WinLast, WinSignal, WinSignalRelease
    <3>4. CASE WinBroadcast(w) \/ WinBroadcastWait(w) \/ WinBroadcastEnd(w)
      BY <3>4 DEF WinBroadcast, WinBroadcastWait, WinBroadcastEnd
    <3> QED
      BY <1>7, <3>1, <3>2, <3>3, <3>4 DEF ConditionStep, WinCondStep
  <2> QED
    BY <2>3, <2>4, <2>5, <2>6, <2>7, <2>8
<1>8. ASSUME NEW w \in Workers, Begin(w) \/ Inside(w) \/ Announced(w)
      PROVE  CountInv'
  <2>1. UNCHANGED number_of_waiting_threads
    BY <1>8 DEF Begin, Inside, Announced, OnlyLock, OnlyReadWriteLock, CallGrab,
         CallTryGrab, CallWait, CallRelease, CallSignal, CallBroadcast,
         CondCall, condVars, winCondVars
  <2>2. \/ cond_pc' = cond_pc
        \/ \E to \in CondLabels \ Waiting : CondCall(w, to)
    BY <1>8 DEF Begin, Inside, Announced, OnlyLock, OnlyReadWriteLock, CallGrab,
         CallTryGrab, CallWait, CallRelease, CallSignal, CallBroadcast,
         condVars, CondLabels, Waiting
  <2>3. \A t \in Threads : cond_pc'[t] \in Waiting <=> cond_pc[t] \in Waiting
    BY <1>1, <2>2, WorkersAreThreads
       DEF CondCall, CondGoto, CondTypeInv, Waiting
  <2> QED
    BY <1>4, <2>1, <2>3
<1>9. ASSUME NEW w \in Workers,
             \/ Launch(w) /\ UNCHANGED <<primitiveVars, objectVars, programVars>>
             \/ Counting(w) \/ Leave(w) \/ Finish(w)
             \/ LockStep(w) /\ OnlyLock
             \/ RWStep(w) /\ OnlyReadWriteLock
             \/ SpuriousWakeup(w)
      PROVE  CountInv'
  <2>1. UNCHANGED <<number_of_waiting_threads, cond_pc>>
    BY <1>9 DEF Counting, Leave, Finish, OnlyLock, OnlyReadWriteLock,
         SpuriousWakeup, CondSpuriousWakeup, primitiveVars, condVars,
         winCondVars
  <2> QED
    BY <1>5, <2>1
<1>10. CASE UNCHANGED vars
  BY <1>5, <1>10 DEF vars, primitiveVars, condVars, winCondVars
<1> QED
  BY <1>6, <1>7, <1>8, <1>9, <1>10 DEF Next, Ended, WorkerStep

\* The build is the same for ever, and no failure is forgotten.
LEMMA BuildStays ==
    ASSUME TypeInv, RWInv, [Next]_vars
    PROVE  build' = build /\ failures \subseteq failures'
<1>1. CASE MainStep
  BY <1>1, MainEffect
<1>2. ASSUME NEW w \in Workers, WorkerStep(w)
      PROVE  build' = build /\ failures \subseteq failures'
  <2>1. CASE Launch(w) \/ Finish(w)
    BY <2>1 DEF Launch, Finish, callVars, Fail, Succeed
  <2> QED
    BY <1>2, <2>1, ThreadsElsewhere DEF WorkerStep
<1> QED
  BY <1>1, <1>2, ThreadsElsewhere DEF Next, Ended, vars, callVars

LEMMA WaitInvKept ==
    ASSUME IInv, [Next]_vars
    PROVE  WaitInv'
<1>1. WaitInv /\ CondTypeInv /\ TypeInv /\ RWInv
  BY DEF IInv, CallsInv, TypeInv
<1>2. build = "winapi" => CountInv'
  BY CountInvKept
<1>3. build' = build
  BY <1>1, BuildStays
<1> DEFINE
      P == /\ number_of_waiting_threads = 0 /\ ~ signal_is_broadcast
           /\ \A t \in Threads :
                 cond_pc[t] \notin {"wait_sleep", "wait_uncount", "wait_last",
                     "signal_release", "broadcast_wait", "broadcast_end"}
           /\ \A t \in blocked : cond_pc[t] = "wait_blocked"
      B == \A t \in Threads : t \in blocked <=> cond_pc[t] = "wait_blocked"
<1>4. /\ WaitInv = /\ build = "pthread" => P
                   /\ build = "winapi" => B /\ CountInv
      /\ WaitInv' = /\ build' = "pthread" => P'
                    /\ build' = "winapi" => B' /\ CountInv'
  BY Zenon DEF WaitInv, CountInv
<1>5. ASSUME UNCHANGED <<blocked, winCondVars>>,
             \A t \in Threads :
                \/ cond_pc'[t] = cond_pc[t]
                \/ cond_pc[t] = "out" /\ cond_pc'[t] \in
                       {"grab", "try_grab", "wait", "release", "signal",
                        "broadcast"}
      PROVE  WaitInv'
  <2>1. B => B'
    BY <1>5
  <2>2. P => P'
    BY <1>1, <1>5 DEF winCondVars, CondTypeInv
  <2> QED
    BY <1>1, <1>2, <1>3, <1>4, <2>1, <2>2
<1>6. CASE UNCHANGED condVars
  BY <1>5, <1>6 DEF condVars
<1>7. CASE MainStep
  BY <1>1, <1>6, <1>7, MainEffect
<1>8. ASSUME NEW w \in Workers, ConditionStep(w), OnlyCondition
      PROVE  WaitInv'
  <2> USE WorkersAreThreads
  <2>1. CASE MutexStep(w) \/ WaitMutex(w)
    <3>1. UNCHANGED <<blocked, winCondVars>>
      BY <2>1 DEF MutexStep, MutexGrab, MutexTryGrab, MutexRelease, WaitMutex
    <3>2. /\ cond_pc' = [cond_pc EXCEPT ![w] = "out"]
          /\ cond_pc[w] # "wait_blocked"
      BY <2>1 DEF MutexStep, MutexGrab, MutexTryGrab, MutexRelease, WaitMutex,
             CondGoto
    <3>3. B => B'
      BY <1>1, <3>1, <3>2 DEF CondTypeInv
    <3>4. P => P'
      BY <1>1, <3>1, <3>2 DEF CondTypeInv, winCondVars
    <3> QED
      BY <1>1, <1>2, <1>3, <1>4, <3>3, <3>4
  <2>2. CASE PthreadCondStep(w)
    <3>1. build = "pthread" /\ P
      BY <1>1, <1>4, <2>2 DEF PthreadCondStep
    <3>2. UNCHANGED winCondVars
      BY <2>2 DEF PthreadCondStep
    <3>3. P'
      BY <1>1, <2>2, <3>1, <3>2 DEF PthreadCondStep, CondWait, CondAwake,
         CondSignal, CondBroadcast, CondGoto, CondTypeInv, winCondVars
    <3> QED
      BY <1>3, <1>4, <3>1, <3>3
  <2>3. CASE WinCondStep(w)
    <3>1. build = "winapi" /\ B
      BY <1>1, <1>4, <2>3 DEF WinCondStep
    <3> USE <1>1 DEF CondTypeInv, CondGoto
    <3>2. B'
      <4>1. CASE WinWait(w) \/ WinSleep(w) \/ WinAwake(w) \/ WinUncount(w)
        BY <3>1, <4>1 DEF WinWait, WinSleep, WinAwake, WinUncount
      <4>2. CASE WinLast(w) \/ WinSignal(w) \/ WinSignalRelease(w)
        BY <3>1, <4>2 DEF WinLast, WinSignal, WinSignalRelease, winCondVars
      <4>3. CASE WinBroadcast(w) \/ WinBroadcastWait(w) \/ WinBroadcastEnd(w)
        BY <3>1, <4>3 DEF WinBroadcast, WinBroadcastWait, WinBroadcastEnd
      <4> QED
        BY <2>3, <4>1, <4>2, <4>3 DEF WinCondStep
    <3> QED
      BY <1>2, <1>3, <1>4, <3>1, <3>2
  <2> QED
    BY <1>8, <2>1, <2>2, <2>3 DEF ConditionStep
<1>9. ASSUME NEW w \in Workers, Begin(w) \/ Inside(w) \/ Announced(w)
      PROVE  WaitInv'
  <2>1. UNCHANGED <<blocked, winCondVars>>
    BY <1>9 DEF Begin, Inside, Announced, OnlyLock, OnlyReadWriteLock, CallGrab,
         CallTryGrab, CallWait, CallRelease, CallSignal, CallBroadcast,
         CondCall, condVars
  <2>2. \/ cond_pc' = cond_pc
        \/ \E to \in {"grab", "try_grab", "wait", "release", "signal",
                      "broadcast"} : CondCall(w, to)
    BY <1>9 DEF Begin, Inside, Announced, OnlyLock, OnlyReadWriteLock, CallGrab,
         CallTryGrab, CallWait, CallRelease, CallSignal, CallBroadcast,
         condVars
  <2> QED
    BY <1>1, <1>5, <2>1, <2>2 DEF CondCall, CondGoto, CondTypeInv
<1>10. ASSUME NEW w \in Workers,
             \/ Launch(w) /\ UNCHANGED <<primitiveVars, objectVars, programVars>>
             \/ Counting(w) \/ Leave(w) \/ Finish(w)
             \/ LockStep(w) /\ OnlyLock
             \/ RWStep(w) /\ OnlyReadWriteLock
      PROVE  WaitInv'
  <2>1. UNCHANGED <<blocked, winCondVars, cond_pc>>
    BY <1>10 DEF Counting, Leave, Finish, OnlyLock, OnlyReadWriteLock,
         primitiveVars, condVars
  <2> QED
    BY <1>5, <2>1
<1>11. ASSUME NEW w \in Workers, SpuriousWakeup(w) PROVE WaitInv'
  <2>1. P => P'
    BY <1>11 DEF SpuriousWakeup, CondSpuriousWakeup, winCondVars
  <2>2. build = "pthread"
    BY <1>11 DEF SpuriousWakeup, CondSpuriousWakeup
  <2> QED
    BY <1>1, <1>3, <1>4, <2>1, <2>2
<1>12. CASE UNCHANGED vars
  BY <1>6, <1>12 DEF vars, primitiveVars
<1> QED
  BY <1>7, <1>8, <1>9, <1>10, <1>11, <1>12 DEF Next, Ended, WorkerStep

-----------------------------------------------------------------------------
(* The handshake of a broadcast, while no call has failed.                 *)

\* What HandshakeInv says of a state.
Handshake ==
    /\ number_of_waiting_threads = Cardinality(Counted)
    /\ signal_event =>
          /\ \E t \in Threads : cond_pc[t] = "broadcast_wait"
          /\ number_of_waiting_threads = 0
    /\ signal_is_broadcast =>
          \E t \in Threads :
             /\ cond_pc[t] \in {"broadcast_wait", "broadcast_end"}
             /\ owner = t
             /\ semaphore >= Cardinality(blocked)

\* What holds in the build for Windows while no call has failed.
Undisturbed ==
    /\ Handshake /\ Broadcast /\ CondTypeInv
    /\ \A t \in Threads : cond_pc[t] \in Holding => owner = t
    /\ \A t \in Threads : t \in blocked <=> cond_pc[t] = "wait_blocked"

LEMMA UndisturbedHolds ==
    ASSUME IInv, build = "winapi", failures = {}
    PROVE  Undisturbed
<1>1. Handshake /\ Broadcast
  BY DEF IInv, HandshakeInv, BroadcastInv, Handshake
<1>2. CondTypeInv /\ \A t \in Threads : t \in blocked <=> cond_pc[t] = "wait_blocked"
  BY DEF IInv, CallsInv, TypeInv, WaitInv
<1>3. \A t \in Threads : cond_pc[t] \in Holding => t \in Workers
  BY DEF IInv, CallsInv, CallInv, Holding, Telling
<1>4. \A t \in Threads : cond_pc[t] \in Holding => owner = t
  BY <1>3 DEF IInv, MutexInv, HoldsMutex
<1> QED
  BY <1>1, <1>2, <1>4 DEF Undisturbed

\* The labels that the handshake is about.
InHandshake == Waiting \cup {"wait_last", "broadcast_wait", "broadcast_end"}

LEMMA NotInHandshake ==
    ASSUME Undisturbed, UNCHANGED <<blocked, number_of_waiting_threads,
                                    signal_is_broadcast, signal_event>>,
           semaphore' \in Nat, semaphore' >= semaphore,
           \A t \in Threads :
              \/ cond_pc'[t] = cond_pc[t]
              \/ {cond_pc[t], cond_pc'[t]} \cap InHandshake = {},
           \A t \in Threads :
              cond_pc[t] \in {"broadcast_wait", "broadcast_end"} /\ owner = t
                 => owner' = t
    PROVE  Handshake' /\ Broadcast'
<1>1. \A t \in Threads, l \in InHandshake : cond_pc'[t] = l <=> cond_pc[t] = l
  OBVIOUS
<1>2. Counted' = Counted
  BY <1>1 DEF Counted, InHandshake, Waiting
<1>3. Cardinality(blocked) \in Nat
  BY FewerAreFewer DEF Undisturbed, CondTypeInv
<1>4. Handshake'
  BY <1>1, <1>2, <1>3 DEF Undisturbed, Handshake, InHandshake, CondTypeInv
<1>5. Broadcast'
  BY <1>1 DEF Undisturbed, Broadcast, InHandshake
<1> QED
  BY <1>4, <1>5

\* The steps of a thread that waits.
LEMMA WaitKeepsHandshake ==
    ASSUME Undisturbed, NEW t \in Threads, WinWait(t) \/ WinSleep(t),
           failures' = {}
    PROVE  Handshake' /\ Broadcast'
<1> USE DEF Undisturbed, CondTypeInv, CondGoto
<1>1. cond_pc[t] \in {"wait", "wait_sleep"}
  BY DEF WinWait, WinSleep
<1>2. \A u \in Threads : cond_pc[u] \notin {"broadcast_wait", "broadcast_end"}
  BY <1>1 DEF Holding, Telling
<1>3. ~ signal_is_broadcast /\ ~ signal_event
  BY <1>2 DEF Handshake
<1>4. \A u \in Threads : cond_pc[u] # "wait_last"
  BY <1>2 DEF Broadcast
<1>5. /\ ~ signal_is_broadcast' /\ ~ signal_event'
      /\ \A u \in Threads :
            cond_pc'[u] \notin {"broadcast_wait", "broadcast_end", "wait_last"}
  BY <1>2, <1>3, <1>4 DEF WinWait, WinSleep, ReturnError, Fail, winCondVars
<1>6. number_of_waiting_threads' = Cardinality(Counted')
  <2>1. CASE WinWait(t)
    <3>1. t \notin Counted /\ Counted' = Counted \cup {t}
      BY <2>1 DEF WinWait, Counted
    <3>2. Cardinality(Counted') = Cardinality(Counted) + 1
      BY <3>1, CountedFinite, FS_AddElement
    <3> QED
      BY <2>1, <3>2, CountedFinite DEF WinWait, Handshake
  <2>2. CASE WinSleep(t)
    <3>1. cond_pc' = [cond_pc EXCEPT ![t] = "wait_blocked"]
      BY <2>2 DEF WinSleep, ReturnError, Fail
    <3>2. Counted' = Counted
      BY <2>2, <3>1 DEF WinSleep, Counted
    <3> QED
      BY <2>2, <3>2 DEF WinSleep, winCondVars, Handshake
  <2> QED
    BY <2>1, <2>2
<1> QED
  BY <1>5, <1>6 DEF Handshake, Broadcast

LEMMA AwakeKeepsHandshake ==
    ASSUME Undisturbed, NEW t \in Threads, WinAwake(t)
    PROVE  Handshake' /\ Broadcast'
<1> USE DEF Undisturbed, CondTypeInv, CondGoto, WinAwake
<1>1. Counted' = Counted
  BY DEF Counted
<1>2. Cardinality(blocked') = Cardinality(blocked) - 1 /\ Cardinality(blocked) \in Nat
  BY FewerAreFewer, FS_RemoveElement
<1>3. \A u \in Threads, l \in {"broadcast_wait", "broadcast_end", "wait_last"} :
         cond_pc'[u] = l <=> cond_pc[u] = l
  OBVIOUS
<1>4. semaphore >= Cardinality(blocked) => semaphore' >= Cardinality(blocked')
  BY <1>2
<1>5. Handshake'
  BY <1>1, <1>3, <1>4 DEF Handshake
<1>6. Broadcast'
  BY <1>3 DEF Broadcast
<1> QED
  BY <1>5, <1>6

LEMMA UncountKeepsHandshake ==
    ASSUME Undisturbed, NEW t \in Threads, WinUncount(t)
    PROVE  Handshake' /\ Broadcast'
<1> USE DEF Undisturbed, CondTypeInv, CondGoto, WinUncount
<1>1. t \in Counted /\ Counted' = Counted \ {t}
  BY DEF Counted
<1>2. Cardinality(Counted') = Cardinality(Counted) - 1
  BY <1>1, CountedFinite, FS_RemoveElement
<1>3. Cardinality(Counted') \in Nat
  BY <1>1, CountedFinite, FS_RemoveElement, FS_CardinalityType
<1>4. /\ number_of_waiting_threads' = Cardinality(Counted')
      /\ number_of_waiting_threads > 0
  BY <1>2, <1>3, CountedFinite DEF Handshake
<1>5. /\ ~ signal_event
      /\ \A u \in Threads : cond_pc[u] \notin {"wait_last", "broadcast_end"}
  BY <1>4 DEF Handshake, Broadcast
<1>6. Handshake'
  <2>1. \A u \in Threads, l \in {"broadcast_wait", "broadcast_end"} :
         cond_pc'[u] = l <=> cond_pc[u] = l
    OBVIOUS
  <2> QED
    BY <1>4, <1>5, <2>1 DEF Handshake
<1>7. CASE number_of_waiting_threads = 1 /\ signal_is_broadcast
  <2>1. PICK b \in Threads : cond_pc[b] = "broadcast_wait"
    BY <1>5, <1>7 DEF Handshake
  <2>2. cond_pc'[b] = "broadcast_wait"
    BY <1>7, <2>1
  <2>3. \A u \in Threads : /\ cond_pc'[u] = "wait_last" <=> u = t
                           /\ cond_pc'[u] # "broadcast_end"
    BY <1>5, <1>7
  <2>4. number_of_waiting_threads' = 0
    BY <1>7
  <2> QED
    BY <1>5, <1>6, <1>7, <2>2, <2>3, <2>4 DEF Broadcast
<1>8. CASE ~ (number_of_waiting_threads = 1 /\ signal_is_broadcast)
  <2>1. cond_pc' = [cond_pc EXCEPT ![t] = "wait_mutex"]
    BY <1>8
  <2>2. \A u \in Threads :
           /\ cond_pc'[u] \notin {"wait_last", "broadcast_end"}
           /\ cond_pc'[u] = "broadcast_wait" => cond_pc[u] = "broadcast_wait"
    BY <1>5, <2>1
  <2> QED
    BY <1>6, <2>2 DEF Broadcast
<1> QED
  BY <1>7, <1>8

LEMMA LastKeepsHandshake ==
    ASSUME Undisturbed, NEW t \in Threads, WinLast(t), failures' = {}
    PROVE  Handshake' /\ Broadcast'
<1> USE DEF Undisturbed, CondTypeInv, CondGoto
<1>1. signal_event' = TRUE /\ cond_pc' = [cond_pc EXCEPT ![t] = "wait_mutex"]
  BY DEF WinLast, ReturnError, Fail
<1>2. /\ number_of_waiting_threads = 0
      /\ \A u \in Threads : cond_pc[u] = "wait_last" => u = t
      /\ \A u \in Threads : cond_pc[u] # "broadcast_end"
  BY DEF WinLast, Broadcast
<1>3. PICK b \in Threads : cond_pc[b] = "broadcast_wait"
  BY DEF WinLast, Broadcast
<1>4. cond_pc'[b] = "broadcast_wait"
  BY <1>1, <1>3 DEF WinLast
<1>5. \A u \in Threads : cond_pc'[u] \notin {"wait_last", "broadcast_end"}
  BY <1>1, <1>2
<1>6. Counted' = Counted
  BY <1>1 DEF Counted, WinLast
<1>7. \A u \in Threads, l \in {"broadcast_wait", "broadcast_end"} :
         cond_pc'[u] = l <=> cond_pc[u] = l
  BY <1>1 DEF WinLast
<1>8. Handshake'
  BY <1>2, <1>4, <1>6, <1>7 DEF Handshake, WinLast
<1>9. Broadcast'
  BY <1>5, <1>7 DEF Broadcast, WinLast
<1> QED
  BY <1>8, <1>9

\* The steps of a thread that broadcasts.
LEMMA BroadcastKeepsHandshake ==
    ASSUME Undisturbed, NEW t \in Threads, failures' = {},
           WinBroadcast(t) \/ WinBroadcastWait(t) \/ WinBroadcastEnd(t)
    PROVE  Handshake' /\ Broadcast'
<1> USE DEF Undisturbed, CondTypeInv, CondGoto
<1>1. cond_pc[t] \in {"broadcast", "broadcast_wait", "broadcast_end"}
  BY DEF WinBroadcast, WinBroadcastWait, WinBroadcastEnd
<1>2. owner = t /\ \A u \in Threads \ {t} : cond_pc[u] \notin Holding
  BY <1>1 DEF Holding, Telling
<1>3. \A u \in Threads \ {t} :
         cond_pc[u] \notin {"broadcast_wait", "broadcast_end"}
  BY <1>2 DEF Holding, Telling
<1>4. Counted' = Counted
  BY <1>1 DEF Counted, WinBroadcast, WinBroadcastWait, WinBroadcastEnd
<1>5. CASE WinBroadcast(t)
  <2>1. /\ ~ signal_event /\ ~ signal_is_broadcast
        /\ \A u \in Threads : cond_pc[u] # "wait_last"
    BY <1>3, <1>5 DEF WinBroadcast, Handshake, Broadcast
  <2>2. CASE number_of_waiting_threads = 0
    <3>1. cond_pc' = [cond_pc EXCEPT ![t] = "out"]
      BY <1>5, <2>2 DEF WinBroadcast
    <3>2. UNCHANGED <<signal_is_broadcast, signal_event,
                      number_of_waiting_threads>>
      BY <1>5, <2>2 DEF WinBroadcast
    <3>3. \A u \in Threads :
             cond_pc'[u] \notin {"broadcast_wait", "broadcast_end", "wait_last"}
      BY <1>3, <2>1, <3>1
    <3> QED
      BY <1>4, <2>1, <3>2, <3>3 DEF Handshake, Broadcast
  <2>3. CASE number_of_waiting_threads > 0
    <3>1. /\ cond_pc' = [cond_pc EXCEPT ![t] = "broadcast_wait"]
          /\ signal_is_broadcast'
          /\ semaphore' = semaphore + number_of_waiting_threads
          /\ UNCHANGED <<owner, blocked, number_of_waiting_threads, signal_event>>
      BY <1>5, <2>3 DEF WinBroadcast, ReleaseSemaphore, SemaphoreFails,
             ReturnError, Fail
    <3>2. Cardinality(blocked) <= number_of_waiting_threads
      <4>1. blocked \subseteq Counted /\ Counted \subseteq Threads
        BY DEF Counted
      <4> QED
        BY <4>1, FewerAreFewer DEF Handshake
    <3>3. Cardinality(blocked) \in Nat
      BY FewerAreFewer
    <3>4. semaphore' >= Cardinality(blocked')
      BY <3>1, <3>2, <3>3
    <3>5. Handshake'
      BY <1>2, <1>4, <2>1, <3>1, <3>4 DEF Handshake
    <3>6. Broadcast'
      BY <1>3, <2>1, <3>1 DEF Broadcast
    <3> QED
      BY <3>5, <3>6
  <2> QED
    BY <2>2, <2>3
<1>6. CASE WinBroadcastWait(t)
  <2>1. /\ signal_event /\ ~ signal_event'
        /\ cond_pc' = [cond_pc EXCEPT ![t] = "broadcast_end"]
        /\ UNCHANGED <<owner, blocked, number_of_waiting_threads, semaphore,
                       signal_is_broadcast>>
    BY <1>6 DEF WinBroadcastWait, ReturnError, Fail
  <2>2. /\ number_of_waiting_threads = 0
        /\ \A u \in Threads : cond_pc[u] # "wait_last"
    BY <2>1 DEF Handshake, Broadcast
  <2>3. \A u \in Threads :
           /\ cond_pc'[u] \notin {"wait_last", "broadcast_wait"}
           /\ cond_pc'[u] = "broadcast_end" <=> u = t
    BY <1>3, <2>1, <2>2
  <2>4. signal_is_broadcast
    BY <1>6 DEF WinBroadcastWait, Broadcast
  <2>5. semaphore >= Cardinality(blocked)
    BY <2>4 DEF Handshake
  <2>6. Handshake'
    BY <1>2, <1>4, <2>1, <2>3, <2>5 DEF Handshake
  <2>7. Broadcast'
    BY <2>1, <2>2, <2>3, <2>4 DEF Broadcast
  <2> QED
    BY <2>6, <2>7
<1>7. CASE WinBroadcastEnd(t)
  <2>1. /\ ~ signal_is_broadcast'
        /\ cond_pc' = [cond_pc EXCEPT ![t] = "out"]
        /\ UNCHANGED <<number_of_waiting_threads, signal_event>>
    BY <1>7 DEF WinBroadcastEnd
  <2>2. ~ signal_event /\ \A u \in Threads : cond_pc[u] # "wait_last"
    BY <1>7 DEF WinBroadcastEnd, Broadcast
  <2>3. \A u \in Threads :
           cond_pc'[u] \notin {"broadcast_wait", "broadcast_end", "wait_last"}
    BY <1>3, <2>1, <2>2
  <2> QED
    BY <1>4, <2>1, <2>2, <2>3 DEF Handshake, Broadcast
<1> QED
  BY <1>5, <1>6, <1>7

LEMMA HandshakeKept ==
    ASSUME IInv, [Next]_vars
    PROVE  BroadcastInv' /\ HandshakeInv'
<1>1. TypeInv /\ RWInv /\ CallInv
  BY DEF IInv, CallsInv
<1>2. build' = build /\ failures \subseteq failures'
  BY <1>1, BuildStays
<1> SUFFICES ASSUME build = "winapi", failures' = {}
             PROVE  Handshake' /\ Broadcast'
  BY <1>2 DEF BroadcastInv, HandshakeInv, Handshake
<1>3. Undisturbed
  BY <1>2, UndisturbedHolds
<1>4. CondTypeInv /\ \A t \in Threads : cond_pc[t] \in Holding => owner = t
  BY <1>3 DEF Undisturbed
<1>5. ASSUME UNCHANGED <<blocked, winCondVars>>,
             \A t \in Threads :
                cond_pc[t] \in {"broadcast_wait", "broadcast_end"} /\ owner = t
                   => owner' = t,
             \A t \in Threads :
                \/ cond_pc'[t] = cond_pc[t]
                \/ {cond_pc[t], cond_pc'[t]} \cap InHandshake = {}
      PROVE  Handshake' /\ Broadcast'
  <2>1. semaphore' \in Nat /\ semaphore' >= semaphore
    BY <1>4, <1>5, ConditionAssumption DEF winCondVars, CondTypeInv
  <2> QED
    BY <1>3, <1>5, <2>1, NotInHandshake DEF winCondVars
<1>6. CASE UNCHANGED condVars
  BY <1>5, <1>6 DEF condVars
<1>7. CASE MainStep
  BY <1>1, <1>6, <1>7, MainEffect
<1>8. ASSUME NEW w \in Workers, ConditionStep(w)
      PROVE  Handshake' /\ Broadcast'
  <2> USE WorkersAreThreads
  <2>1. CASE MutexStep(w) \/ WaitMutex(w)
    <3>1. UNCHANGED <<blocked, winCondVars>>
      BY <2>1 DEF MutexStep, MutexGrab, MutexTryGrab, MutexRelease, WaitMutex
    <3>2. /\ cond_pc' = [cond_pc EXCEPT ![w] = "out"]
          /\ cond_pc[w] \in {"grab", "try_grab", "release", "wait_mutex"}
          /\ \/ owner' = owner
             \/ owner = NoThread
             \/ cond_pc[w] = "release"
      BY <2>1 DEF MutexStep, MutexGrab, MutexTryGrab, MutexRelease, WaitMutex,
             CondGoto, Acquire
    <3>3. \A t \in Threads :
             cond_pc[t] \in {"broadcast_wait", "broadcast_end"} /\ owner = t
                => owner' = t
      <4>1. cond_pc[w] = "release" => owner = w
        BY <1>4 DEF Holding
      <4> QED
        BY <3>2, <4>1
    <3>4. \A t \in Threads :
             \/ cond_pc'[t] = cond_pc[t]
             \/ {cond_pc[t], cond_pc'[t]} \cap InHandshake = {}
      BY <1>4, <3>2 DEF CondTypeInv, InHandshake, Waiting
    <3> QED
      BY <1>5, <3>1, <3>3, <3>4
  <2>2. CASE WinWait(w) \/ WinSleep(w)
    BY <1>3, <2>2, WaitKeepsHandshake
  <2>3. CASE WinAwake(w)
    BY <1>3, <2>3, AwakeKeepsHandshake
  <2>4. CASE WinUncount(w)
    BY <1>3, <2>4, UncountKeepsHandshake
  <2>5. CASE WinLast(w)
    BY <1>3, <2>5, LastKeepsHandshake
  <2>6. CASE WinSignal(w) \/ WinSignalRelease(w)
    <3>1. /\ UNCHANGED <<owner, blocked, number_of_waiting_threads,
                         signal_is_broadcast, signal_event>>
          /\ semaphore' \in {semaphore, semaphore + 1}
          /\ cond_pc[w] \in {"signal", "signal_release"}
          /\ \/ cond_pc' = [cond_pc EXCEPT ![w] = "out"]
             \/ cond_pc' = [cond_pc EXCEPT ![w] = "signal_release"]
      BY <2>6 DEF WinSignal, WinSignalRelease, ReleaseSemaphore,
         SemaphoreFails, CondGoto, winCondVars
    <3>2. semaphore' \in Nat /\ semaphore' >= semaphore
      BY <1>4, <3>1, ConditionAssumption DEF CondTypeInv
    <3>3. \A t \in Threads :
             \/ cond_pc'[t] = cond_pc[t]
             \/ {cond_pc[t], cond_pc'[t]} \cap InHandshake = {}
      BY <1>4, <3>1 DEF CondTypeInv, InHandshake, Waiting
    <3> QED
      BY <1>3, <3>1, <3>2, <3>3, NotInHandshake
  <2>7. CASE WinBroadcast(w) \/ WinBroadcastWait(w) \/ WinBroadcastEnd(w)
    BY <1>3, <2>7, BroadcastKeepsHandshake
  <2> QED
    BY <1>8, <2>1, <2>2, <2>3, <2>4, <2>5, <2>6, <2>7
       DEF ConditionStep, PthreadCondStep, WinCondStep
<1>9. ASSUME NEW w \in Workers, Begin(w) \/ Inside(w) \/ Announced(w)
      PROVE  Handshake' /\ Broadcast'
  <2>1. UNCHANGED <<owner, blocked, winCondVars>>
    BY <1>9 DEF Begin, Inside, Announced, OnlyLock, OnlyReadWriteLock, CallGrab,
         CallTryGrab, CallWait, CallRelease, CallSignal, CallBroadcast,
         CondCall, condVars
  <2>2. \/ cond_pc' = cond_pc
        \/ \E to \in CondLabels \ InHandshake : CondCall(w, to)
    BY <1>9 DEF Begin, Inside, Announced, OnlyLock, OnlyReadWriteLock, CallGrab,
         CallTryGrab, CallWait, CallRelease, CallSignal, CallBroadcast,
         condVars, CondLabels, InHandshake, Waiting
  <2>3. \A t \in Threads :
           \/ cond_pc'[t] = cond_pc[t]
           \/ {cond_pc[t], cond_pc'[t]} \cap InHandshake = {}
    BY <1>4, <2>2, WorkersAreThreads
       DEF CondCall, CondGoto, CondTypeInv, InHandshake, Waiting
  <2> QED
    BY <1>5, <2>1, <2>3
<1>10. ASSUME NEW w \in Workers, Finish(w) PROVE Handshake' /\ Broadcast'
  <2>1. UNCHANGED <<blocked, winCondVars, cond_pc>> /\ cond_pc[w] = "out"
    BY <1>10 DEF Finish, Ready
  <2>2. owner' = owner \/ owner = w
    BY <1>10 DEF Finish, Abandon
  <2> QED
    BY <1>5, <2>1, <2>2
<1>11. ASSUME NEW w \in Workers,
             \/ Launch(w) /\ UNCHANGED <<primitiveVars, objectVars, programVars>>
             \/ Counting(w) \/ Leave(w)
             \/ LockStep(w) /\ OnlyLock
             \/ RWStep(w) /\ OnlyReadWriteLock
      PROVE  Handshake' /\ Broadcast'
  <2>1. UNCHANGED condVars
    BY <1>11 DEF Counting, Leave, OnlyLock, OnlyReadWriteLock, primitiveVars
  <2> QED
    BY <1>6, <2>1
<1>12. ASSUME NEW w \in Workers, SpuriousWakeup(w)
       PROVE  Handshake' /\ Broadcast'
  BY <1>12 DEF SpuriousWakeup, CondSpuriousWakeup
<1>13. CASE UNCHANGED vars
  BY <1>6, <1>13 DEF vars, primitiveVars
<1> QED
  BY <1>7, <1>8, <1>9, <1>10, <1>11, <1>12, <1>13 DEF Next, Ended, WorkerStep

-----------------------------------------------------------------------------
(* The invariant.                                                          *)

LEMMA InitIInv == WorkloadInit => IInv
<1> SUFFICES ASSUME WorkloadInit PROVE IInv
  OBVIOUS
<1> USE WorkersAreThreads
<1>1. RWInv
  BY InitInv DEF WorkloadInit
<1>2. /\ lock_owner = NoThread /\ lock_pc = [t \in Threads |-> "out"]
      /\ rw_pc = [t \in Threads |-> "free"]
      /\ owner = NoThread /\ blocked = {} /\ number_of_waiting_threads = 0
      /\ ~ signal_is_broadcast /\ semaphore = 0 /\ ~ signal_event
      /\ signal_is_broadcast \in BOOLEAN /\ signal_event \in BOOLEAN
      /\ cond_pc = [t \in Threads |-> "out"]
      /\ answer = [t \in Threads |-> 1] /\ failures = {}
  BY DEF WorkloadInit, LockInit, RWInit, ConditionInit, CallsInit
<1>3. /\ life = [w \in Workers |-> "none"]
      /\ thread_result = [w \in Workers |-> NoResult]
      /\ join_result = [w \in Workers |-> 0]
      /\ object = [k \in Kinds |-> "none"] /\ open = {}
      /\ script \in Scripts
      /\ position = [w \in Workers |-> 1]
      /\ stage = [w \in Workers |-> "begin"]
      /\ tokens = 0 /\ number = 0 /\ counts = 0 /\ spurious = 0
      /\ seen = [w \in Workers |-> 0]
  BY DEF WorkloadInit, ThreadInit, ObjectInit
<1>4. TypeInv
  <2>1. LockTypeOK /\ ThreadTypeOK /\ ObjectTypeOK /\ ProgramTypeInv
    BY <1>2, <1>3 DEF LockTypeOK, ThreadTypeOK, ObjectTypeOK, ProgramTypeInv
  <2>2. CondTypeInv
    BY <1>2, ConditionAssumption DEF CondTypeInv, CondLabels
  <2> QED
    BY <2>1, <2>2 DEF TypeInv
<1>5. CallInv /\ StageInv
  BY <1>2, <1>3 DEF CallInv, StageInv, RWRest
<1>6. LockInv /\ MutexInv /\ RwlockInv
  BY <1>2, <1>3 DEF LockInv, MutexInv, RwlockInv, HoldsLock, HoldsMutex,
     Holding, Telling
<1>7. ResultInv /\ JoinReportsTheThread /\ OrderInv /\ NothingIsLeftOpen
  BY <1>2, <1>3 DEF ResultInv, JoinReportsTheThread, OrderInv,
     NothingIsLeftOpen, Kinds
<1>8. Counted = {} /\ Failed = {}
  BY <1>2 DEF Counted, Failed
<1>9. Cardinality(Counted) = 0 /\ Cardinality(Counted \cup Failed) = 0
  BY <1>8, FS_EmptySet
<1>10. WaitInv /\ BroadcastInv /\ HandshakeInv
  BY <1>2, <1>9 DEF WaitInv, BroadcastInv, Broadcast, HandshakeInv
<1> QED
  BY <1>1, <1>4, <1>5, <1>6, <1>7, <1>10 DEF IInv, CallsInv

LEMMA NextIInv == IInv /\ [Next]_vars => IInv'
<1> SUFFICES ASSUME IInv, [Next]_vars PROVE IInv'
  OBVIOUS
<1>1. /\ TypeInv /\ RWInv /\ CallInv /\ StageInv /\ WaitInv /\ LockInv
      /\ MutexInv /\ RwlockInv /\ ResultInv /\ JoinReportsTheThread
  BY DEF IInv, CallsInv
<1>2. TypeInv' /\ RWInv' /\ CallInv' /\ StageInv'
  BY <1>1, TypeInvKept, RWInvKept, CallInvKept, StageInvKept
<1>3. LockInv' /\ MutexInv' /\ RwlockInv'
  BY <1>1, LockInvKept, MutexInvKept, RwlockInvKept
<1>4. ResultInv' /\ JoinReportsTheThread'
  BY <1>1, ResultInvKept
<1>5. OrderInv' /\ NothingIsLeftOpen'
  BY ObjectsKept
<1>6. WaitInv' /\ BroadcastInv' /\ HandshakeInv'
  BY WaitInvKept, HandshakeKept
<1> QED
  BY <1>2, <1>3, <1>4, <1>5, <1>6 DEF IInv, CallsInv

(* The inductive invariant holds in every state of every program.          *)
THEOREM Invariant == Spec => []IInv
  BY InitIInv, NextIInv, PTL DEF Spec

-----------------------------------------------------------------------------
(* What it says to a user of the library.                                  *)

(* The types of all objects.  That the counter of readers stays below the  *)
(* number of threads, and the count of waiting threads and the semaphore   *)
(* below the maximum of a semaphore, also after calls that failed, is part *)
(* of it.                                                                  *)
THEOREM ProgramTypeCorrect == Spec => []TypeOK
<1>1. IInv => TypeOK
  <2> SUFFICES ASSUME IInv PROVE TypeOK
    OBVIOUS
  <2>1. RWTypeOK
    BY RWInvTypes DEF IInv, CallsInv
  <2>2. build \in {"pthread", "winapi"}
    BY <2>1, CallsAssumption DEF RWTypeOK, CallsTypeOK
  <2>3. number_of_waiting_threads \in 0 .. SemaphoreMax
    BY <2>2, CountedFinite, ConditionAssumption
       DEF IInv, WaitInv, CallsInv, TypeInv, CondTypeInv
  <2> QED
    BY <2>1, <2>3 DEF TypeOK, ConditionTypeOK, RWTypeOK, IInv, CallsInv,
       TypeInv, CondTypeInv
<1> QED
  BY <1>1, Invariant, PTL

(* Only the holder of the mutex touches what it guards, also when calls of *)
(* the mutex or the condition have failed.                                 *)
THEOREM MutexCorrect == Spec => []MutexExcludes
<1>1. IInv => MutexExcludes
  <2> SUFFICES ASSUME IInv, NEW w \in Workers,
                      Ready(w), answer[w] = 1,
                      stage[w] \in {"inside", "announced"},
                      Operation(w) \notin {"count", "read", "write"}
               PROVE  owner = w
    BY DEF MutexExcludes
  <2>1. Operation(w) \in Operations
    BY DEF IInv, CallsInv, StageInv
  <2>2. HoldsMutex(w)
    BY <2>1 DEF Ready, HoldsMutex, UsesMutex, Operations
  <2> QED
    BY <2>2 DEF IInv, MutexInv
<1> QED
  BY <1>1, Invariant, PTL

(* No write under the lock is lost.                                        *)
THEOREM LockCorrect == Spec => []NoLostUpdate
<1>1. IInv => NoLostUpdate
  BY DEF IInv, LockInv, NoLostUpdate
<1> QED
  BY <1>1, Invariant, PTL

(* Readers exclude writers, and the counter and the event of the build for *)
(* Windows tell of the readers, in every program that uses the lock.       *)
THEOREM ReadWriteLockCorrect ==
    Spec => [](ReadersExcludeWriters /\ EventMeansNoReaders)
<1>1. IInv => ReadersExcludeWriters /\ EventMeansNoReaders
  BY DEF IInv, CallsInv, RWInv
<1> QED
  BY <1>1, Invariant, PTL

(* The count, the semaphore and the event of a broadcast keep in step.     *)
THEOREM HandshakeCorrect == Spec => []HandshakeInv
<1>1. IInv => HandshakeInv
  BY DEF IInv
<1> QED
  BY <1>1, Invariant, PTL

(* What a free or a refused initialize leaves open: nothing, unless the    *)
(* system refused to destroy it (free of the five objects).                *)
THEOREM FreeCorrect == Spec => []NothingIsLeftOpen
<1>1. IInv => NothingIsLeftOpen
  BY DEF IInv
<1> QED
  BY <1>1, Invariant, PTL

(* The result that join has for a worker is the one its function left      *)
(* (libcthreads_thread_join).                                              *)
THEOREM JoinCorrect == Spec => []JoinReportsTheThread
<1>1. IInv => JoinReportsTheThread
  BY DEF IInv
<1> QED
  BY <1>1, Invariant, PTL

-----------------------------------------------------------------------------
(* What a step may not do.                                                 *)

\* Only a thread itself goes on in a function of the mutex or the condition.
LEMMA OwnStep ==
    ASSUME IInv, [Next]_vars, NEW t \in Threads,
           cond_pc[t] # "out", cond_pc'[t] # cond_pc[t]
    PROVE  ConditionStep(t)
<1>1. TypeInv /\ RWInv
  BY DEF IInv, CallsInv
<1>2. ASSUME UNCHANGED condVars PROVE FALSE
  BY <1>2 DEF condVars
<1>3. ~ MainStep
  BY <1>1, <1>2, MainEffect
<1>4. ASSUME NEW w \in Workers, WorkerStep(w) PROVE ConditionStep(t)
  <2> USE WorkersAreThreads
  <2>1. ~ (Begin(w) \/ Inside(w) \/ Announced(w))
    <3> SUFFICES ASSUME Begin(w) \/ Inside(w) \/ Announced(w) PROVE FALSE
      OBVIOUS
    <3>1. cond_pc[w] = "out"
      BY DEF Begin, Inside, Announced, Ready
    <3>2. cond_pc' = cond_pc \/ \E to \in CondLabels : CondCall(w, to)
      BY DEF Begin, Inside, Announced, OnlyLock, OnlyReadWriteLock, CallGrab,
           CallTryGrab, CallWait, CallRelease, CallSignal, CallBroadcast,
           condVars, CondLabels
    <3> QED
      BY <1>1, <3>1, <3>2 DEF CondCall, CondGoto, TypeInv, CondTypeInv
  <2>2. ~ (\/ Launch(w) /\ UNCHANGED <<primitiveVars, objectVars, programVars>>
           \/ Counting(w) \/ Leave(w)
           \/ LockStep(w) /\ OnlyLock
           \/ RWStep(w) /\ OnlyReadWriteLock)
    BY <1>2 DEF Counting, Leave, OnlyLock, OnlyReadWriteLock, primitiveVars
  <2>3. ~ Finish(w)
    BY DEF Finish
  <2>4. ConditionStep(w)
    BY <1>4, <2>1, <2>2, <2>3 DEF WorkerStep
  <2> QED
    BY <1>1, <2>4, ConditionEffect DEF TypeInv, RWInv, RWTypeInv
<1>5. ASSUME NEW w \in Workers, SpuriousWakeup(w) PROVE FALSE
  BY <1>5 DEF SpuriousWakeup, CondSpuriousWakeup
<1> QED
  BY <1>2, <1>3, <1>4, <1>5 DEF Next, Ended, vars, primitiveVars

(* A broadcast that returns 1, no call having failed, has woken everybody. *)
THEOREM BroadcastCorrect == Spec => BroadcastReachesAll
<1>1. ASSUME IInv, [Next]_vars, NEW t \in Threads,
             cond_pc[t] \in {"broadcast", "broadcast_end"},
             cond_pc'[t] = "out", answer'[t] = 1, failures' = {}
      PROVE  blocked' = {} /\ number_of_waiting_threads' = 0
  <2>1. ConditionStep(t) /\ failures = {}
    BY <1>1, OwnStep, BuildStays DEF IInv, CallsInv
  <2>2. CondTypeInv /\ CallsTypeOK
    BY <1>1 DEF IInv, CallsInv, TypeInv, RWInv, RWTypeInv
  <2>3. CASE build = "pthread"
    <3>1. CondBroadcast(t) /\ UNCHANGED winCondVars
      BY <1>1, <2>1, <2>3 DEF ConditionStep, MutexStep, MutexGrab,
           MutexTryGrab, MutexRelease, WaitMutex, PthreadCondStep, CondWait,
           CondAwake, CondSignal, CondBroadcast, WinCondStep
    <3>2. blocked' = {}
      BY <1>1, <2>1, <3>1 DEF CondBroadcast, ReturnError, Fail
    <3> QED
      BY <1>1, <2>3, <3>1, <3>2 DEF winCondVars, IInv, WaitInv
  <2>4. CASE build = "winapi"
    <3>1. Undisturbed
      BY <1>1, <2>1, <2>4, UndisturbedHolds
    <3>2. WinBroadcast(t) \/ WinBroadcastEnd(t)
      BY <1>1, <2>1, <2>4 DEF ConditionStep, MutexStep, MutexGrab,
           MutexTryGrab, MutexRelease, WaitMutex, PthreadCondStep,
           WinCondStep, WinWait, WinSleep, WinAwake, WinUncount, WinLast,
           WinSignal, WinSignalRelease, WinBroadcast, WinBroadcastWait,
           WinBroadcastEnd
    <3>3. UNCHANGED <<blocked, number_of_waiting_threads>>
      BY <3>2 DEF WinBroadcast, WinBroadcastEnd
    <3>4. number_of_waiting_threads = 0
      <4>1. CASE WinBroadcastEnd(t)
        BY <3>1, <4>1 DEF WinBroadcastEnd, Undisturbed, Broadcast
      <4>2. CASE WinBroadcast(t)
        BY <1>1, <2>1, <2>2, <4>2 DEF WinBroadcast, CondGoto, SemaphoreFails,
             ReturnError, Fail, CondTypeInv
      <4> QED
        BY <3>2, <4>1, <4>2
    <3>5. Cardinality(Counted) = 0
      BY <3>1, <3>4 DEF Undisturbed, Handshake
    <3>6. Counted = {}
      BY <3>5, CountedFinite, FS_EmptySet
    <3>7. blocked = {}
      BY <2>2, <3>1, <3>6 DEF Counted, Undisturbed, CondTypeInv
    <3> QED
      BY <3>3, <3>4, <3>7
  <2> QED
    BY <2>2, <2>3, <2>4, CallsAssumption DEF CallsTypeOK
<1>2. IInv /\ [Next]_vars =>
         [\A t \in Threads :
             /\ cond_pc[t] \in {"broadcast", "broadcast_end"}
             /\ cond_pc'[t] = "out"
             /\ answer'[t] = 1
             /\ failures' = {}
             => blocked' = {} /\ number_of_waiting_threads' = 0]_condVars
  BY <1>1
<1> QED
  BY <1>2, Invariant, PTL DEF Spec, BroadcastReachesAll

(* While a writer waits for the readers to leave, no thread of a program   *)
(* becomes a reader.                                                       *)
THEOREM WriterIsNextInPrograms == Spec => WriterIsNext
<1>1. ASSUME IInv, [Next]_vars, NEW u \in Threads, rw_pc[u] = "write_wait"
      PROVE  Readers' \subseteq Readers
  <2>1. TypeInv /\ RWInv /\ CallInv
    BY <1>1 DEF IInv, CallsInv
  <2>2. CASE \E w \in Workers : RWUse(w)
    BY <1>1, <2>1, <2>2, NobodyPassesTheWriter, WorkersAreThreads
  <2> QED
    BY <1>1, <2>1, <2>2, RWUsage, SameHolders
<1>2. IInv /\ [Next]_vars
          => [(\E t \in Threads : rw_pc[t] = "write_wait")
                  => Readers' \subseteq Readers]_rwVars
  BY <1>1
<1> QED
  BY <1>2, Invariant, PTL DEF Spec, WriterIsNext

(* To a program that uses it with the other primitives, and whose threads  *)
(* stop at the first error, the read/write lock is the shared lock.        *)
THEOREM RefinementInPrograms == Spec => ImplementsSharedLock
<1>1. WorkloadInit => SL!SharedLockInit
  BY DEF WorkloadInit, RWInit, CallsInit, SL!SharedLockInit, Readers, Reads,
         Writers
<1>2. IInv /\ IInv' /\ [Next]_vars
          => [SL!SharedLockNext]_<<Readers, writer>>
  <2> SUFFICES ASSUME IInv, IInv', [Next]_vars
               PROVE  [SL!SharedLockNext]_<<Readers, writer>>
    OBVIOUS
  <2>1. TypeInv /\ RWInv /\ CallInv /\ RWInv'
    BY DEF IInv, CallsInv
  <2>2. CASE \E w \in Workers : RWUse(w)
    BY <2>1, <2>2, StepRefines, WorkersAreThreads
  <2>3. CASE Readers' = Readers /\ Writers' = Writers
    BY <2>3 DEF writer
  <2> QED
    BY <2>1, <2>2, <2>3, RWUsage, SameHolders
<1> QED
  BY <1>1, <1>2, Invariant, PTL DEF Spec, ImplementsSharedLock,
     SL!SharedLockSpec, writer
=============================================================================
