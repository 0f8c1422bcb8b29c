# A formal model of libcthreads

libcthreads is a C library that gives one API for threads on POSIX threads and on
Windows: locks, mutexes, conditions, read/write locks, threads, a thread that
repeats a callback, a queue and a thread pool. Every component that has a
behaviour is modelled, in the builds in which the library does more than pass a
call on:

- **pthread**: the build with POSIX threads (`HAVE_PTHREAD_H`).
- **winapi**: Windows before Vista (`WINVER < 0x0600`), where the library makes
  conditions and read/write locks from semaphores, events and critical sections;
  for thread, repeating thread and thread pool, every build with threads of
  Windows (the pool: before Windows 8).
- **work_items**: the thread pool since Windows 8 (`WINVER >= 0x0602`), which uses
  the thread pool of the system.

Since Vista the mutex, the condition and the read/write lock are one system object
each (`CRITICAL_SECTION`, `CONDITION_VARIABLE`, `SRWLOCK`) whose calls, but one, have
no result: they are the pthread build with nearly no failures.

## 1. The system

| component | state | operations | what makes it correct |
|---|---|---|---|
| mutex (`libcthreads_mutex.c`) | a `pthread_mutex_t` with default attributes | initialize, free, grab, try_grab, release | one owner; only the owner releases |
| condition (`libcthreads_condition.c`) | a `pthread_cond_t`; before Vista a critical section, a semaphore, an event, a counter of waiters and a flag | initialize, free, broadcast, signal, wait | wait gives up the mutex and blocks in one step; a broadcast wakes everybody that is blocked, and nobody that blocks later |
| queue (`libcthreads_queue.c`) | circular array `values_array` with `pop_index`, `push_index`, `number_of_values`; `condition_mutex`, `empty_condition`, `full_condition` | initialize, free, empty, try_pop, pop, try_push, push, push_sorted | a bounded queue, first in first out or sorted; a call takes effect at one step; no thread sleeps through what it waits for |
| thread pool (`libcthreads_thread_pool.c`) | the same array, mutex and conditions, `status`, the threads; each worker allocates an int for its result | create, push, push_sorted, join, the worker loop | each value is handled once, in order; join waits for all of them and reports the callbacks; workers exit and the pool is freed after them; with work items, each value has one |
| repeating thread (`libcthreads_repeating_thread.c`) | counters of tasks, `status`, mutex and condition, one thread | create, push, join, the worker loop | the callback runs once per push; join waits for all of them and reports the first failure |
| thread (`libcthreads_thread.c`) | the callback with its arguments, the thread | create, join, the helper | join returns what the callback returned |
| read/write lock (`libcthreads_read_write_lock.c`) | a `pthread_rwlock_t`; before Vista two critical sections, an event, a counter of readers | initialize, free, grab and release for read and for write | readers or one writer; a waiting writer comes before new readers |
| lock (`libcthreads_lock.c`) | a `pthread_mutex_t` or a critical section | initialize, free, grab, release | one owner |
| thread attributes, error, support | an attribute object of one thread, or no state | initialize, free, ... | nothing beyond the system's own object |

**How they interact.** Queue, repeating thread and thread pool call mutex and
condition; nothing in the library calls lock, thread or read/write lock, which are
there for programs. Every function of queue and pool grabs `condition_mutex`, tests `number_of_values` in a
`while` loop around `libcthreads_condition_wait`, changes the array, broadcasts,
and releases. Callers and workers share the object by pointer. The pool's workers
call the user's callback without the mutex; the callback may push into the pool
it runs in. `value_compare_function` and `value_free_function` are called by the
queue, the first with the mutex held. The
repeating thread has a counter in place of an array, and its callback may push too.
A condition knows its mutex only as the argument of wait.

**What is hard about it.** Two conditions share one mutex, and `push` and
`libcthreads_queue_empty` wait on the same one for opposite reasons. `push_sorted`
shifts values in an array that may have wrapped. Any library call may fail after
the state has changed. `join` sets `status` while workers test it, and waits for
an empty queue while a callback may still fill it. `create` must undo the threads
it has started. The condition of old Windows wakes threads through a semaphore that
any thread may take from, and counts who is waiting in steps of its own. Its
read/write lock is got in several steps, each of which may fail. The list with its lines is `hazards` in `PROJECT.json`.

## 2. The modules

    Monitor        one mutex and its conditions: owner, waiting
    RingBuffer     operators on the circular array; Capacity, Values, Key, NoValue
    Queue          EXTENDS RingBuffer, INSTANCE Monitor
    BoundedQueue   what the queue promises; Queue!ImplementsBoundedQueue
    QueueWorkload  EXTENDS Queue with threads that follow a script; fairness
    RingBufferProofs EXTENDS RingBuffer, TLAPS: lemmas on the circular array
    QueueProofs    EXTENDS Queue, RingBufferProofs: its invariants
    QueueSortProofs  EXTENDS QueueProofs: sorted queues
    BoundedQueueProofs EXTENDS QueueWorkload, QueueProofs: Queue implements
                   BoundedQueue; what becomes of the values
    ThreadPool     EXTENDS RingBuffer, INSTANCE Monitor
    TaskPool       what the pool promises; ThreadPool!ImplementsTaskPool
    ThreadPoolProofs EXTENDS ThreadPool, RingBufferProofs: its invariants
    RepeatingThread  INSTANCE Monitor
    RepeatingThreadProofs EXTENDS RepeatingThread, TLAPS: its invariants
    Calls          what a call returns, which build it is, what has failed
    Lock, Thread, Objects, Condition, ReadWriteLock    each EXTENDS Calls
    SharedLock     what the read/write lock promises; ImplementsSharedLock
    ReadWriteLockProofs  EXTENDS ReadWriteLock, TLAPS: the theorems on it
    Workload       EXTENDS the five: a program that uses them together
    WorkloadProofs EXTENDS Workload, ReadWriteLockProofs: the theorems on programs
    MCQueue, MCQueueWorkload, MCThreadPool, MCRepeatingThread, MCWorkload
                   values for TLC

Queue, ThreadPool and RepeatingThread use `Monitor`, the coarse form of mutex and
condition in which blocking and waking are one step each. `Condition` is the fine
form, one step for what happens between two calls of the system, where the way
the condition is made is the question.

**Monitor.** `owner` is the thread that holds the mutex, `waiting[c]` the threads
blocked on condition `c`. `Wait` is `pthread_cond_wait` up to the point where it
blocks; a thread that is no longer in `waiting` but has not got the mutex back is
still inside that call (`Grab` is part of the caller's `Wake`). Wakeups may be
spurious. `Signal` wakes one.

**RingBuffer.** `Advance` and `Retreat` are the increments and decrements with
their wrap. `Contents` reads the array from `pop_index`. `Stops`, `ScanEndsAt` and
`InsertAt` are the search and the shift of `push_sorted`, which queue and pool
have in the same form. The loops are replaced by what they compute: the scan ends
at the one offset where it stops, the shift is a new function on the slots.

**Queue.** The variables of the ring have the names of the fields. Per thread
there are `pc` (where in a function it is), `operation` (which one), `value` (the
argument, or what a pop found) and `result`. One step is what a thread does
between two points where another may intervene: getting the mutex (`Enter`,
`Wake`), the body of a function with the mutex held (`Push`, `TryPush`,
`PushSorted`, `Pop`, `TryPop`, `Empty`), giving it back (`Leave`), and returning
to the caller. The body contains the broadcast: waking threads does not let them
run while the mutex is held. `push_unique` is `push_sorted` with
`LIBCTHREADS_SORT_FLAG_UNIQUE_VALUES`. `Free` is called by a thread when no other
is inside, as the API requires. `Faults` is the set of library calls that may
fail; each failing call has the outcome of the code, e.g. a broadcast that fails
returns -1 with the array already changed, a release that fails leaves the mutex
locked for good.

**BoundedQueue** holds a sequence and, per thread, a call that is pending or done.
An effect takes place in one step between the two. With failures, -1 promises
nothing, but 1 and 0 stay the truth.

**QueueWorkload** gives each thread a finite script. Liveness needs that: a
pthread mutex is not fair, so a thread that calls for ever may starve another.
`accepted`, `popped` and `dropped` are history for the properties about `free`: the
values for which a push returned 1, those that pop gave to its callers, and those
that a pop took away before it failed.

**ThreadPool.** `Main` creates and joins the pool, `Producers` push by script, the
workers are `1 .. NumberOfThreads`. The labels carry the function they belong to
(`push_check`, `pop_wait`, `join_leave`). `JoinCalled` has the API's condition
that the producers are done; callbacks may not be. `Spawn[v]` is what the callback
pushes when it is given `v`. A callback returns 1 or -1, by choice. `accepted`,
`completed`, `dropped` and `failed` are history for the properties. So are
`failures`, the library calls that have failed (`Fail`), and `unjoined`, the workers
for which waiting has failed: join, and the error path of create, then go on to the
next worker and free the pool in the end, whether that worker still runs or not. What
it does to freed memory is undefined, so a worker takes no step after the pool is
freed (`alive`); that the pool is freed under it is in the model. On its error
path `create` first joins a `pthread_t` that was never created; that is undefined,
and the model takes the outcome that goes on (the other one ends the program).

`build` says which of the three pools it is. In "winapi" the helper allocates no
result, join ignores what threads return, and the system takes a mutex from a
thread that exits, so its release cannot fail. In "work_items" there are no loops:
a push, having released the mutex, submits a work item (`SubmitWork`), also when
it refused the value, and a thread of the system begins the helper for one item
(`Launch`), pops one value or finds nothing, and leaves. Join then closes the
cleanup group. That `CloseThreadpoolCleanupGroupMembers` also waits for the items
that callbacks submit meanwhile is an assumption about Windows (`Closed`).

**RepeatingThread.** `active_tasks` and `total_tasks` are ints of `-IntMax - 1 ..
IntMax` that wrap. The worker's locals are `number_of_tasks`, `task_index` and
`seen_status`; `Take` is the read of both fields and the subtraction, `LoopEnd` the
test at the end of the loop on what was read before the batch. `JoinThread` is the
wait for the thread and the frees that follow, which go on after a failure.

**Calls.** `answer[t]` is what the function that `t` is in returns. A step in which
a call of the system fails is written `ReturnError(t, call)`: the call is one of
`Faults`, and at most `MaxFailures` different ones fail in a behaviour. `failures`
records them, so that a property can say what it assumes.

**Condition.** Mutex and condition. In "pthread" a thread blocks by joining
`blocked` and is woken by leaving it. In "winapi" the actions follow the code
between two system calls: `WinWait` counts the thread, `WinSleep` is
`SignalObjectAndWait` (release the mutex and wait for the semaphore), `WinAwake`
takes a permit, which any waiting thread may do, `WinUncount` and `WinLast` are the
handshake with a broadcaster, `WaitMutex` gets the mutex back; `WinBroadcast`,
`WinBroadcastWait` and `WinBroadcastEnd` are the other side. The critical section
around the count is held for one step and is not a variable.

**ReadWriteLock.** `rw_pc` is the place of a thread in the four functions, or
"free", "reading" and "writing" between calls. `write_critical_section` and
`read_critical_section` are owners; a writer keeps the first one until it releases.
A reader is counted in `ReadCount`, with the event reset by the first, and counted
out in `UnreadCount`, with the event set by the last. **SharedLock** is the lock as
its users see it: a set of readers or a writer. A reader holds it as soon as it is
counted.

**Thread** has create, the helper and join; **Objects** the initialize and free
functions of lock, mutex, condition and read/write lock with the system objects
each makes and closes; **Lock** grab and release.

**Workload** is the program around them. Main makes the objects, creates threads
that run scripts, joins them and frees the objects. The lock guards a number that
is read and written back one higher in two steps, the condition a number of tokens
for which threads wait in a loop. A thread that gets an error stops. Its actions
belong to no code of the library.

A definition introduced by a comment "Mutant of X" is a version of X with a bug.
It is used by no specification; X replaced by it must make a property fail, which
shows that the property says something about X.

## 3. The runs

| run | cfg | checks | instance |
|---|---|---|---|
| queue_sorted | MCQueueSorted | `SortedContents`, `ImplementsBoundedQueue` | 2 threads with sorted and unique pushes, 1 with pops, 3 slots, 3 values of which 2 are equal |
| queue_faults | MCQueueFaulty | `TypeOK`, `RingInv`, `ThreadInv`, `ImplementsBoundedQueue` | every function, 3 threads, 2 slots, every call may fail |
| queue_workload | MCQueueTermination | `NoLostWakeup`, `Termination`, `FreeLeavesNoValue` | 5 scripted threads, 2 slots, one spurious wakeup, then free |
| queue_free_popped | MCQueueFreeSpares | `FreeSparesPoppedValues` (violated) | the same script |
| queue_empty_stalls | MCQueueEmpty | `EmptyReturns` (violated) | two pushes, an empty, no pop |
| pool_sorted | MCPoolSorted | `TypeOK`, `WorkForEveryValue`, `NoLostWakeup`, `FreedWhenUnused`, `JoinTellsTheTruth`, `ImplementsTaskPool`, `Termination` | three builds; 2 workers, 2 producers with 4 pushes of three kinds and a callback that pushes, 2 slots, one spurious wakeup |
| pool_faults | MCPoolFaults | `JoinTellsTheTruth`, `FreedWhenUnused`, `ImplementsTaskPool` | three builds; 2 workers, 2 producers, 3 pushes of different kinds, every call may fail, those that wait for a thread and those that free included; no spurious wakeup |
| repeating_thread | MCRepeatingThread | `TypeOK`, `TasksConserved`, `NoLostWakeup`, `JoinTellsTheTruth`, `FreedWhenUnused`, `JoinReturns`, `PushedTasksRun` | both builds; 2 producers with 3 pushes, a callback that pushes, ints of -3 .. 2, every call may fail |
| workload | MCWorkload | `TypeOK`, `ReadersExcludeWriters`, `EventMeansNoReaders`, `HandshakeInv`, `MutexExcludes`, `NoLostUpdate`, `NothingIsLeftOpen`, `JoinReportsTheThread`, `ImplementsSharedLock`, `WriterIsNext`, `BroadcastReachesAll`, `Termination` | both builds; 3 threads, 4 programs, up to 2 different calls fail |
| pool_create_stalls | MCPoolCreate | `CreateReturns` (violated) | the second `pthread_create` fails |
| pool_join_stalls | MCPoolJoin | `JoinReturns` (violated) | no worker can allocate its result |
| pool_join_forgets | MCPoolForgets | `JoinLeavesNoValue` (violated) | the two builds of Windows; a callback that pushes, a grab and `CreateThreadpoolWork` may fail |

**Why the bounds are enough.** Two slots are the least for which full, empty and
in between differ and the indices wrap apart; three let a sorted insertion shift
two values across the end of the array. The five threads of `queue_workload` on two slots are two blocked
on each condition beside one that runs, and `empty` beside a push on
`full_condition`: a broadcast that woke one thread only is caught there. Two equal
values are what a stable insertion and the unique flag tell apart. Nothing bounds
the length of behaviours but the scripts. `MaxSpurious` bounds spurious wakeups
except in Queue, where they are unbounded; it is 0 in `pool_faults`, where `pool_sorted`
has one in the same pool, to keep the run with every failure small. The capacities 0 and
1 are in no run, only in the theorems `QueueProofs!TypeCorrect` and `RingCorrect`.

Two workers suffice for the pool: one runs a callback that pushes while the other
takes, or finds, nothing. `IntMax` is 2, so that three of the
four pushes overflow a counter; `MaxNested` is one push from a callback. Three threads are two readers and a writer, or two threads that wait and
one that signals and broadcasts, or a waiter, a late waiter and a permit too many.
The programs of `MCScripts` use one primitive each, since the primitives share no
state: readers and writers; takers with a signal and a broadcast; takers with
`try_grab`; counters under the lock. `MaxFailures` of 2 lets the failure of one call
meet that of another kind, each as often as it likes. `SemaphoreMax` stands for
INT_MAX and is above what three threads can release, as it is in the code.

**Deadlock** is checked where a stop would be wrong. It is off in the runs of
Queue without scripts (a queue that has been freed is not called any more, threads
that only push fill it), in those where a failed release leaves the mutex locked
or a failed wait leaves a thread behind, and in those that state what has to come in the end as a liveness property.

**Fairness** is weak fairness of each thread's own steps, and nothing more: a
thread that can run does run, as every scheduler has it. Getting the mutex is one
of these steps, so a thread may lose the race for it as often as others ask for
it. No spurious wakeup, no call of free and no failure is ever forced: in
RepeatingThread and Workload fairness is stated of the steps in which the system
call succeeds (`... /\ Succeed`), so that "it may always fail" is no excuse for not
going on, and what comes after a failure is left to the property. When Main calls
join of a repeating thread is its own choice.

What is assumed of failures is written in the properties: `JoinReturns` of
RepeatingThread gives up after a failed wait or release, which keeps the mutex for
good; `FreedWhenUnused` of ThreadPool and RepeatingThread
excepts the threads for which waiting has failed, since the code frees the object under
them; `NoLostWakeup` and `WorkForEveryValue` of ThreadPool are claimed until a broadcast,
or the submission of a work item, has failed. `Termination` of Workload covers failing allocations, initializations and
frees, but no failing grab, wait or release, after which a program can only stop.

### What the violated properties show

- **queue_free_popped** - a pop leaves the value in its slot, and
  `libcthreads_queue_free` calls the `value_free_function` for every slot of the
  array, so it frees values that already belong to the caller of pop.
- **queue_empty_stalls** - `libcthreads_queue_empty` is documented as "Empties a
  queue". It removes nothing, it waits until others have.
- **pool_create_stalls** - if a later thread cannot be created, `create` joins the
  earlier ones without setting `status` to `LIBCTHREADS_STATUS_EXIT`; they wait
  for values and `create` never returns.
- **pool_join_stalls** - a worker that cannot allocate its result exits, which
  join tolerates; when all did, join waits for ever for the queue to drain.
- **pool_join_forgets** - join waits for an empty queue once and then for the
  workers. A callback that runs in between may push one value more. On Windows,
  where join learns nothing of the workers, the value stays behind when the worker
  stops at a failing grab, or its push cannot submit a work item: it is never
  processed, and join returns 1.

## 4. The theorems

They hold for every value of the constants. What is assumed of the constants are the
named assumptions, which TLC evaluates in the runs: `RingAssumption` (a capacity, a
NULL that is no value, keys that are integers), `QueueAssumption`, `PoolAssumption`
(at least one worker and one slot, finitely many producers), `RepeatingAssumption`,
`CallsAssumption` (finitely many threads), `ConditionAssumption` (fewer threads than
the semaphore can count), `ThreadAssumption` and the two `WorkloadAssumption`s (scripts
are made of calls). Nearly every invariant below is not inductive; each proof module
names the parts that are missing and proves that all together are kept by every
action, one lemma per action or group of actions.

### The circular array

`RingBufferProofs` has the lemmas that queue and pool share, none of which depends
on where the array wraps. `RingOK` says that the indices belong together and that the
slots between them hold values. `StoreLastKeepsRing`, `InsertKeepsRing` and
`FetchKeepsRing` say that push, push_sorted and pop keep it and what they do to the
set of queued values; `StoreLastContents`, `InsertContents` and `FetchContents` say
what they do to the sequence: append, insert, take the head away.

### The queue

| theorem | states |
|---|---|
| `QueueProofs!TypeCorrect` | `Spec => []TypeOK` |
| `QueueProofs!RingCorrect` | `Spec => []RingInv` |
| `QueueProofs!ThreadsCorrect` | `Spec => []ThreadInv` |
| `QueueProofs!WakeupsCorrect` | `Spec => []NoLostWakeup` |
| `QueueSortProofs!SortedCorrect` | `Spec => []SortedContents` |
| `BoundedQueueProofs!QueueIsBoundedQueue` | `Spec => ImplementsBoundedQueue` |
| `BoundedQueueProofs!WorkloadUsesQueue` | `WSpec => Spec` |
| `BoundedQueueProofs!FreeLosesNothing` | `WSpec => []FreeLeavesNoValue` |

The capacity may be zero, `MayCall` and the set of failing calls are arbitrary.

The inductive invariant of the first four is their conjunction `Inv`: `TypeOK` needs
to know that a popped slot holds a value, which is `RingInv`; `RingInv` needs to know
that a push in progress has a value to store, which is in `ThreadInv`; `NoLostWakeup`
needs to know that a blocked thread is in the function that it says, also `ThreadInv`.
The scan of push_sorted needs no part in that: `RingInv` holds for an insertion at any
offset. `SortInv` adds to `Inv` that threads are only in functions they may call and
that the items are in order; `InsertInOrder` combines `InsertAtContents` with
`ScanEndsAt`.

The refinement maps every step of a thread to one action of BoundedQueue or to a
stutter (`Unseen`): a call takes effect in the step that goes to "leave"
(`StoreLastSeen`, `InsertSeen`, `RejectSeen`, `FetchSeen`, `FinishSeen`), a broadcast
that fails there is an effect with -1, a release that fails after it is `FailLate`, and
everything that fails before is `Fail`. `ScanFacts` turns the slots at which the scan
does not stop into the keys of the items. To the invariant it adds that a thread
outside has no value (`IdleInv`) and a pop only from its effect on (`PoppedInv`).

For `FreeLeavesNoValue` a value that was accepted is followed: it is queued, held by
a pop that is about to return, or was popped or dropped (`AcceptedInv`; `StepMoves` says
which steps move one). `ScriptInv` ties a call to its place in the script and `SoundInv`
says that without failures every push and push_sorted that has returned was accepted;
there `ScanFacts` is needed again, for only a unique push may be refused.

### The thread pool

| `ThreadPoolProofs` theorem | states |
|---|---|
| `TypeCorrect` | `Spec => []TypeOK` |
| `NoWakeupIsLost` | `Spec => []NoLostWakeup` |
| `FreedUnderNobody` | `Spec => []FreedWhenUnused` |
| `NoValueIsForgotten` | `Spec => []WorkForEveryValue` |
| `JoinIsTruthful` | `Spec => []JoinTellsTheTruth` |

For every capacity, number of workers, finite set of producers with their scripts,
everything the callbacks push, every set of calls that may fail, and the three builds. A
worker is blocked only while the pool is not being joined, because join broadcasts
with the mutex held after it has set the status: `NoLostWakeup` needs who owns the
mutex (`MutexInv`), who may be blocked where (`WaitInv`) and how far Main is
(`CreateInv`, `JoinInv`). That the pool is freed under nobody needs that join, or the
error path of create, has seen every worker exit but those in `unjoined`, and with work
items that none is left or under way (`CreateInv`, `JoinInv`, `EndedInv`, `BuildInv`). The
workers in `unjoined` are excepted because the code does free the pool under them; what
`UnjoinedInv` adds is that `join` or `create` then returns -1, so that the conclusions from
a join that returns 1 need no exception. That -1 has a reason is a statement about the
calls that have failed so far, not about those that may: a failing comparison or
submission, or the missing memory of a worker, is none. `WorkForEveryValue` compares a number with the cardinalities of two sets
of threads, which change by one thread at a time; it is proved of the sum with the
theorems on finite sets (`WorkInv`). `JoinTellsTheTruth` follows the values from the
queue over the workers into `completed` or `dropped` (`ValuesInv`), and needs that at
the end nothing is queued (`EndInv`) and that a worker's int in the pthread build
is not 1 once a callback or a pop of it has failed (`ResultInv`, `ReportInv`).

### The repeating thread

| `RepeatingThreadProofs` theorem | states |
|---|---|
| `TypeCorrect` | `Spec => []TypeOK` |
| `TasksAreConserved` | `Spec => []TasksConserved` |
| `NoWakeupIsLost` | `Spec => []NoLostWakeup` |
| `JoinIsTruthful` | `Spec => []JoinTellsTheTruth` |
| `FreedUnderNobody` | `Spec => []FreedWhenUnused` |

For every greatest int, set of producers, number of pushes, set of failing calls and
both builds. The worker decides to exit on a status and a count that it read before its
last batch: `LastBatchInv` says what is known of the tasks then, `BatchInv` where in
the batch it is, `ResultInv` what its result says of the callbacks.

### The read/write lock

| `ReadWriteLockProofs` theorem | states |
|---|---|
| `TypeCorrect` | `RWSpec => []RWTypeOK` |
| `ExclusionCorrect` | `RWSpec => []ReadersExcludeWriters` |
| `EventCorrect` | `RWSpec => []EventMeansNoReaders` |
| `RefinementCorrect` | `RWSpec => ImplementsSharedLock` |
| `WriterIsNextCorrect` | `RWSpec => WriterIsNext` |

`RWSpec` is threads that call the four functions without end, in both builds. That
readers exclude writers is not inductive: a writer gets in because the event is set,
and the event says that nobody reads only if the counter is right, and the counter is
changed under one of two critical sections. `RWInv` adds who owns which section, by
where the threads are (`OwnersInv`), what the pthread build never does (`PthreadInv`),
and `EventMeansNoReaders`, which equates the counter with the cardinality of the set of
readers. `CountOneMore` and `CountOneLess` are the two steps that change that set. A
failing `ResetEvent` or `SetEvent` leaves set, counter and event as they were. The type
invariant follows in the end: that the counter is at most the number of threads is a
fact about the set. For the refinement a step of one thread is one of five cases: it
becomes a reader or ceases to be one, likewise a writer, or nothing changes;
`StepOfOne` says that it leaves the others alone.

### Programs that use the primitives

| `WorkloadProofs` theorem | states |
|---|---|
| `ProgramTypeCorrect` | `Spec => []TypeOK` |
| `MutexCorrect` | `Spec => []MutexExcludes` |
| `LockCorrect` | `Spec => []NoLostUpdate` |
| `ReadWriteLockCorrect` | `Spec => [](ReadersExcludeWriters /\ EventMeansNoReaders)` |
| `HandshakeCorrect` | `Spec => []HandshakeInv` |
| `FreeCorrect` | `Spec => []NothingIsLeftOpen` |
| `JoinCorrect` | `Spec => []JoinReportsTheThread` |
| `BroadcastCorrect` | `Spec => BroadcastReachesAll` |
| `WriterIsNextInPrograms` | `Spec => WriterIsNext` |
| `RefinementInPrograms` | `Spec => ImplementsSharedLock` |

`Spec` is that of Workload: every finite set of threads, every set of scripts, every
set of failing system calls, both builds. A worker is in one function at a time, the
one its operation calls (`CallInv`), and the stage of the operation tells what its last
call has returned (`StageInv`). From that follows who holds what (`LockInv`, `MutexInv`,
`RwlockInv`): exclusion, and that an object is in use when it is freed only after a
failed release. `OrderInv` is the order of Main's calls, `ResultInv` what a thread
leaves for join. `WaitInv` counts the threads that wait: the count and the semaphore
stay below their maximum. `BroadcastInv` is how far a broadcast of old Windows is, with
the mutex held by its thread. What the read/write lock does is taken from its own
proof: a step of a program is one of a thread that uses the lock, or leaves it alone
(`RWUsage`).

### Only model-checked

- `ImplementsTaskPool`. It is a property of the two instances and not of all: TaskPool
  has distinct values, which a script need not have, and an empty queue at the end of
  join, which `pool_join_forgets` shows to be wrong on Windows when callbacks push. A
  theorem needs both as hypotheses.
- All liveness: `Termination`, `JoinReturns`, `PushedTasksRun`. Fairness and ENABLED are
  out of the prover's reach.

What the loops compute (the scan and the shift of push_sorted) is the definition of
`ScanEndsAt` and `InsertAt`, not a theorem about a loop: that is induction over data.

## 5. The plan

Done: all modules of section 2, the theorems of section 4.

Next, in this order:

1. Proofs: ThreadPool implements TaskPool when values are distinct and callbacks push
   nothing or no worker stops unnoticed. The lemmas on `Contents` are those of
   BoundedQueue; what is missing is that a value that is still to be pushed is neither
   queued nor held.
2. `Monitor` as an abstraction of `Condition`: the pthread build is one already, the
   build for old Windows has wakeups that a later waiter may take, which `Monitor`
   has only as spurious ones.

### Not modelled

- Thread attributes (an object that one thread makes and only create reads), error
  objects and the version string: no behaviour depends on them.
- The thread handles of Windows, which `libcthreads_thread_join` does not close.
- The allocation failures of the initialize functions of queue and pool: each is
  followed by the release of what was made before, by a single thread. Those of
  lock, mutex, condition and read/write lock are in Objects.
- Arguments that a function rejects before it does anything (NULL pointers, sizes
  below zero): they leave every state as it was.
- What is undefined: a repeating thread that goes on after its own grab has failed,
  threads that use an object after it was freed because the wait for them failed, a
  push into a pool that is being joined from outside its callbacks, callbacks that
  fill the queue of their own pool.
- Windows before NT 4, for which the source does not compile.
