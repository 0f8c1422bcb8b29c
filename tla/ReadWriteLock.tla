--------------------------- MODULE ReadWriteLock ---------------------------
(***************************************************************************)
(* libcthreads_read_write_lock.c.  The pthread build calls pthread_rwlock. *)
(* The build for Windows before Vista makes the lock from two critical     *)
(* sections, a counter of readers and an event that is set when there are  *)
(* none: a reader passes through the write critical section, a writer      *)
(* stays in it and waits for the event.                                    *)
(*                                                                         *)
(* One step is what happens between two calls of the system.  Threads use  *)
(* the lock as documented for pthread_rwlock: a thread that holds it does  *)
(* not grab it again, and releases what it holds.                          *)
(***************************************************************************)
EXTENDS Calls

VARIABLES write_critical_section,   \* the owner of the critical section
          read_critical_section,
          number_of_readers,
          no_read_event,            \* the event is set
          rw_pc                   \* where a thread is in the functions

rwLockVars == <<write_critical_section, read_critical_section,
              number_of_readers, no_read_event>>
rwVars == <<rwLockVars, rw_pc>>

\* Between calls a thread is at "free", "reading" or "writing".
RWRest == {"free", "reading", "writing"}
RWLabels == RWRest \cup
    {"read_enter", "read_enter_read", "read_count", "read_leave",
     "read_leave_write", "write_enter", "write_wait", "write_leave",
     "unread_enter", "unread_count", "unread_leave", "unwrite"}

RWTypeOK ==
    /\ CallsTypeOK
    /\ write_critical_section \in Threads \cup {NoThread}
    /\ read_critical_section \in Threads \cup {NoThread}
    /\ number_of_readers \in 0 .. Cardinality(Threads)
    /\ no_read_event \in BOOLEAN
    /\ rw_pc \in [Threads -> RWLabels]

RWInit ==
    /\ write_critical_section = NoThread
    /\ read_critical_section = NoThread
    /\ number_of_readers = 0
    /\ no_read_event = TRUE
    /\ rw_pc = [t \in Threads |-> "free"]

RWGoto(t, label) == rw_pc' = [rw_pc EXCEPT ![t] = label]

RWCall(t, from, to) ==
    /\ rw_pc[t] = from
    /\ RWGoto(t, to)
    /\ UNCHANGED <<rwLockVars, callVars>>

CallGrabForRead(t) == RWCall(t, "free", "read_enter")
CallGrabForWrite(t) == RWCall(t, "free", "write_enter")
CallReleaseForRead(t) == RWCall(t, "reading", "unread_enter")
CallReleaseForWrite(t) == RWCall(t, "writing", "unwrite")

-----------------------------------------------------------------------------
(* The pthread build.  A thread holds the pthread_rwlock from the call that *)
(* got it to the call that gives it back.                                  *)

RwlockReaders == {t \in Threads : rw_pc[t] \in {"reading", "unread_enter"}}
RwlockWriters == {t \in Threads : rw_pc[t] \in {"writing", "unwrite"}}

\* What a call of pthread_rwlock does to t, or that it fails.
Rwlock(t, call, done, failed) ==
    /\ build = "pthread"
    /\ \/ Return(t) /\ RWGoto(t, done)
       \/ ReturnError(t, call) /\ RWGoto(t, failed)
    /\ UNCHANGED <<build, rwLockVars>>

RwlockStep(t) ==
    \/ /\ rw_pc[t] = "read_enter" /\ RwlockWriters = {}
       /\ Rwlock(t, "rdlock", "reading", "free")
    \/ /\ rw_pc[t] = "write_enter" /\ RwlockWriters \cup RwlockReaders = {}
       /\ Rwlock(t, "wrlock", "writing", "free")
    \/ /\ rw_pc[t] = "unread_enter"
       /\ Rwlock(t, "rwlock_unlock", "free", "reading")
    \/ /\ rw_pc[t] = "unwrite"
       /\ Rwlock(t, "rwlock_unlock", "free", "writing")

-----------------------------------------------------------------------------
(* The build for Windows before Vista.                                     *)

EnterWrite(t) ==
    /\ write_critical_section = NoThread
    /\ write_critical_section' = t

LeaveWrite == write_critical_section' = NoThread

EnterRead(t) ==
    /\ read_critical_section = NoThread
    /\ read_critical_section' = t

LeaveRead == read_critical_section' = NoThread

\* Mutant of ReadEnter: a reader does not pass through the write section.
ReadEnterDirectly(t) ==
    /\ rw_pc[t] = "read_enter"
    /\ RWGoto(t, "read_enter_read") /\ Silent
    /\ UNCHANGED <<build, rwLockVars>>

ReadEnter(t) ==
    /\ rw_pc[t] = "read_enter"
    /\ EnterWrite(t)
    /\ RWGoto(t, "read_enter_read") /\ Silent
    /\ UNCHANGED <<build, read_critical_section, number_of_readers,
                   no_read_event>>

ReadEnterRead(t) ==
    /\ rw_pc[t] = "read_enter_read"
    /\ EnterRead(t)
    /\ RWGoto(t, "read_count") /\ Silent
    /\ UNCHANGED <<build, write_critical_section, number_of_readers,
                   no_read_event>>

\* Mutant of ReadCount: only a reader after the first is counted.
ReadCountOmitsTheFirst(t) ==
    /\ rw_pc[t] = "read_count"
    /\ number_of_readers' = IF number_of_readers = 0 THEN 0
                             ELSE number_of_readers + 1
    /\ no_read_event' = FALSE
    /\ Return(t)
    /\ RWGoto(t, "read_leave")
    /\ UNCHANGED <<build, write_critical_section, read_critical_section>>

\* The first reader resets the event; if that fails it is not counted.
ReadCount(t) ==
    /\ rw_pc[t] = "read_count"
    /\ \/ /\ number_of_readers' = number_of_readers + 1
          /\ no_read_event' = (no_read_event /\ number_of_readers # 0)
          /\ Return(t)
       \/ /\ number_of_readers = 0
          /\ ReturnError(t, "reset_event")
          /\ UNCHANGED <<number_of_readers, no_read_event>>
    /\ RWGoto(t, "read_leave")
    /\ UNCHANGED <<build, write_critical_section, read_critical_section>>

ReadLeave(t) ==
    /\ rw_pc[t] = "read_leave"
    /\ LeaveRead
    /\ RWGoto(t, "read_leave_write") /\ Silent
    /\ UNCHANGED <<build, write_critical_section, number_of_readers,
                   no_read_event>>

ReadLeaveWrite(t) ==
    /\ rw_pc[t] = "read_leave_write"
    /\ LeaveWrite
    /\ RWGoto(t, IF answer[t] = 1 THEN "reading" ELSE "free") /\ Silent
    /\ UNCHANGED <<build, read_critical_section, number_of_readers,
                   no_read_event>>

WriteEnter(t) ==
    /\ rw_pc[t] = "write_enter"
    /\ EnterWrite(t)
    /\ RWGoto(t, "write_wait") /\ Silent
    /\ UNCHANGED <<build, read_critical_section, number_of_readers,
                   no_read_event>>

\* Mutant of WriteWait: the event is not looked at.
WriteWaitForNothing(t) ==
    /\ rw_pc[t] = "write_wait"
    /\ RWGoto(t, "writing") /\ Return(t)
    /\ UNCHANGED <<build, rwLockVars>>

\* The wait for the event goes on inside the write critical section.
WriteWait(t) ==
    /\ rw_pc[t] = "write_wait"
    /\ \/ no_read_event /\ RWGoto(t, "writing") /\ Return(t)
       \/ RWGoto(t, "write_leave") /\ ReturnError(t, "wait_event")
    /\ UNCHANGED <<build, rwLockVars>>

WriteLeave(t) ==
    /\ rw_pc[t] = "write_leave"
    /\ LeaveWrite
    /\ RWGoto(t, "free") /\ Silent
    /\ UNCHANGED <<build, read_critical_section, number_of_readers,
                   no_read_event>>

UnreadEnter(t) ==
    /\ rw_pc[t] = "unread_enter"
    /\ EnterRead(t)
    /\ RWGoto(t, "unread_count") /\ Silent
    /\ UNCHANGED <<build, write_critical_section, number_of_readers,
                   no_read_event>>

\* Mutant of UnreadCount: a reader that is not the last sets the event.
UnreadCountAlwaysSets(t) ==
    /\ rw_pc[t] = "unread_count"
    /\ number_of_readers' = number_of_readers - 1
    /\ no_read_event' = TRUE
    /\ Return(t)
    /\ RWGoto(t, "unread_leave")
    /\ UNCHANGED <<build, write_critical_section, read_critical_section>>

\* The last reader sets the event; if that fails it counts as a reader still.
UnreadCount(t) ==
    /\ rw_pc[t] = "unread_count"
    /\ \/ /\ number_of_readers' = number_of_readers - 1
          /\ no_read_event' = (no_read_event \/ number_of_readers = 1)
          /\ Return(t)
       \/ /\ number_of_readers = 1
          /\ ReturnError(t, "set_event")
          /\ UNCHANGED <<number_of_readers, no_read_event>>
    /\ RWGoto(t, "unread_leave")
    /\ UNCHANGED <<build, write_critical_section, read_critical_section>>

UnreadLeave(t) ==
    /\ rw_pc[t] = "unread_leave"
    /\ LeaveRead
    /\ RWGoto(t, IF answer[t] = 1 THEN "free" ELSE "reading") /\ Silent
    /\ UNCHANGED <<build, write_critical_section, number_of_readers,
                   no_read_event>>

Unwrite(t) ==
    /\ rw_pc[t] = "unwrite"
    /\ LeaveWrite
    /\ RWGoto(t, "free") /\ Return(t)
    /\ UNCHANGED <<build, read_critical_section, number_of_readers,
                   no_read_event>>

WindowsStep(t) ==
    /\ build = "winapi"
    /\ \/ ReadEnter(t) \/ ReadEnterRead(t) \/ ReadCount(t)
       \/ ReadLeave(t) \/ ReadLeaveWrite(t)
       \/ WriteEnter(t) \/ WriteWait(t) \/ WriteLeave(t)
       \/ UnreadEnter(t) \/ UnreadCount(t) \/ UnreadLeave(t)
       \/ Unwrite(t)

RWStep(t) == RwlockStep(t) \/ WindowsStep(t)

\* Threads that use the lock without end.
RWNext ==
    \E t \in Threads :
        \/ CallGrabForRead(t) \/ CallGrabForWrite(t)
        \/ CallReleaseForRead(t) \/ CallReleaseForWrite(t)
        \/ RWStep(t)

RWSpec == RWInit /\ CallsInit /\ [][RWNext]_<<rwVars, callVars>>

-----------------------------------------------------------------------------
\* The threads that hold the lock.  A Windows reader does as soon as it is
\* counted and until it is counted out.
Reads(t) ==
    \/ rw_pc[t] \in {"reading", "unread_enter", "unread_count"}
    \/ rw_pc[t] \in {"read_leave", "read_leave_write"} /\ answer[t] = 1
    \/ rw_pc[t] = "unread_leave" /\ answer[t] # 1

Readers == {t \in Threads : Reads(t)}
Writers == {t \in Threads : rw_pc[t] \in {"writing", "unwrite"}}

(* A writer excludes every other writer and every reader, whichever calls  *)
(* of the system have failed on the way.                                   *)
ReadersExcludeWriters ==
    \A w \in Writers : Writers = {w} /\ Readers = {}

(* The counter is the number of readers, and the event is set exactly when *)
(* there is none, also after a ResetEvent or a SetEvent that failed.       *)
EventMeansNoReaders ==
    build = "winapi" =>
        /\ number_of_readers = Cardinality(Readers)
        /\ no_read_event <=> number_of_readers = 0

(* Readers do not starve a writer in the build for Windows before Vista:   *)
(* once it waits for the readers to leave, nobody becomes one.             *)
WriterIsNext ==
    [][(\E t \in Threads : rw_pc[t] = "write_wait")
          => Readers' \subseteq Readers]_rwVars

SL == INSTANCE SharedLock WITH
        readers <- Readers,
        writer <- IF Writers = {} THEN NoThread
                  ELSE CHOOSE t \in Threads : t \in Writers

(* Both builds implement the shared lock.                                  *)
ImplementsSharedLock == SL!SharedLockSpec
=============================================================================
