------------------------ MODULE ReadWriteLockProofs ------------------------
(***************************************************************************)
(* The read/write lock, proved in both builds for every number of threads  *)
(* and every set of system calls that may fail.                            *)
(*                                                                         *)
(* That readers exclude writers is not inductive.  In the build for        *)
(* Windows before Vista it rests on three facts: who owns a critical       *)
(* section is known from where the threads are (OwnersInv), the counter is *)
(* the number of readers, and the event is set when it is zero             *)
(* (EventMeansNoReaders).                                                  *)
(***************************************************************************)
EXTENDS ReadWriteLock, FiniteSetTheorems, TLAPS

\* Where a thread is when it owns a critical section.
WriteSection == {"read_enter_read", "read_count", "read_leave",
                 "read_leave_write", "write_wait", "write_leave", "writing",
                 "unwrite"}
ReadSection == {"read_count", "read_leave", "unread_count", "unread_leave"}

PthreadLabels == {"free", "read_enter", "reading", "write_enter", "writing",
                  "unread_enter", "unwrite"}

RWTypeInv ==
    /\ CallsTypeOK
    /\ write_critical_section \in Threads \cup {NoThread}
    /\ read_critical_section \in Threads \cup {NoThread}
    /\ number_of_readers \in Nat
    /\ no_read_event \in BOOLEAN
    /\ rw_pc \in [Threads -> RWLabels]

OwnersInv ==
    build = "winapi" =>
        \A t \in Threads :
            /\ write_critical_section = t <=> rw_pc[t] \in WriteSection
            /\ read_critical_section = t <=> rw_pc[t] \in ReadSection

PthreadInv ==
    build = "pthread" =>
        /\ number_of_readers = 0
        /\ \A t \in Threads : rw_pc[t] \in PthreadLabels

RWInv == /\ RWTypeInv /\ OwnersInv /\ PthreadInv
       /\ EventMeansNoReaders /\ ReadersExcludeWriters

\* A step of one thread.
RWUse(t) ==
    \/ CallGrabForRead(t) \/ CallGrabForWrite(t)
    \/ CallReleaseForRead(t) \/ CallReleaseForWrite(t)
    \/ RWStep(t)

-----------------------------------------------------------------------------
(* Counting.                                                               *)

LEMMA SameReaders ==
    ASSUME \A u \in Threads : Reads(u)' <=> Reads(u)
    PROVE  Readers' = Readers
<1>1. \A u : u \in Readers' <=> u \in Threads /\ Reads(u)'
  BY DEF Readers
<1>2. \A u : u \in Readers <=> u \in Threads /\ Reads(u)
  BY DEF Readers
<1> QED
  BY <1>1, <1>2, Zenon

LEMMA ReadersFinite == Readers \subseteq Threads /\ IsFiniteSet(Readers)
BY CallsAssumption, FS_Subset DEF Readers

\* One reader more.
LEMMA CountOneMore ==
    ASSUME EventMeansNoReaders, build = "winapi",
           NEW t \in Threads, t \notin Readers,
           Readers' = Readers \cup {t},
           number_of_readers' = number_of_readers + 1,
           no_read_event' = (no_read_event /\ number_of_readers # 0)
    PROVE  EventMeansNoReaders'
<1>1. Cardinality(Readers') = Cardinality(Readers) + 1
  BY ReadersFinite, FS_AddElement
<1>2. Cardinality(Readers) \in Nat
  BY ReadersFinite, FS_CardinalityType
<1>3. ~ (no_read_event /\ number_of_readers # 0)
  BY DEF EventMeansNoReaders
<1>4. ~ no_read_event'
  BY <1>3
<1>5. number_of_readers' = Cardinality(Readers') /\ number_of_readers' # 0
  BY <1>1, <1>2 DEF EventMeansNoReaders
<1> QED
  BY <1>4, <1>5 DEF EventMeansNoReaders

\* One reader less.
LEMMA CountOneLess ==
    ASSUME EventMeansNoReaders, build = "winapi",
           NEW t \in Threads, t \in Readers,
           Readers' = Readers \ {t},
           number_of_readers' = number_of_readers - 1,
           no_read_event' = (no_read_event \/ number_of_readers = 1)
    PROVE  EventMeansNoReaders' /\ number_of_readers' \in Nat
<1>1. Cardinality(Readers') = Cardinality(Readers) - 1
  BY ReadersFinite, FS_RemoveElement
<1>2. Cardinality(Readers) \in Nat /\ Cardinality(Readers') \in Nat
  BY ReadersFinite, FS_CardinalityType, FS_RemoveElement
<1>3. number_of_readers > 0
  BY <1>1, <1>2 DEF EventMeansNoReaders
<1>4. /\ number_of_readers' = Cardinality(Readers')
      /\ number_of_readers' = 0 <=> number_of_readers = 1
  BY <1>1, <1>2, <1>3 DEF EventMeansNoReaders
<1>5. ~ no_read_event
  BY <1>3 DEF EventMeansNoReaders
<1>6. no_read_event' <=> number_of_readers = 1
  BY <1>5
<1> QED
  BY <1>2, <1>4, <1>6 DEF EventMeansNoReaders

\* Where nobody is counted, nobody reads.
LEMMA NobodyReads ==
    ASSUME EventMeansNoReaders, build = "winapi", no_read_event
    PROVE  Readers = {}
<1>1. Cardinality(Readers) = 0
  BY DEF EventMeansNoReaders
<1> QED
  BY <1>1, ReadersFinite, FS_EmptySet

\* A step after which the same threads read and nobody has begun to write.
LEMMA NothingNew ==
    ASSUME EventMeansNoReaders, ReadersExcludeWriters,
           Readers' = Readers, Writers' \subseteq Writers,
           UNCHANGED <<build, number_of_readers, no_read_event>>
    PROVE  EventMeansNoReaders' /\ ReadersExcludeWriters'
BY DEF EventMeansNoReaders, ReadersExcludeWriters

-----------------------------------------------------------------------------
(* The calls of the functions, in both builds.                             *)

LEMMA CallsKeepInv ==
    ASSUME RWInv, NEW t \in Threads,
           NEW from, NEW to, RWCall(t, from, to),
           \/ from = "free" /\ to \in {"read_enter", "write_enter"}
           \/ from = "reading" /\ to = "unread_enter"
           \/ from = "writing" /\ to = "unwrite"
    PROVE  RWInv'
<1> USE DEF RWCall, RWGoto, rwLockVars, callVars
<1>1. RWTypeInv'
  BY DEF RWInv, RWTypeInv, CallsTypeOK, RWLabels, RWRest
<1>2. OwnersInv'
  BY DEF RWInv, RWTypeInv, OwnersInv, WriteSection, ReadSection
<1>3. PthreadInv'
  BY DEF RWInv, RWTypeInv, PthreadInv, PthreadLabels
<1>4. Readers' = Readers /\ Writers' \subseteq Writers
  BY DEF RWInv, RWTypeInv, Readers, Reads, Writers
<1>5. EventMeansNoReaders' /\ ReadersExcludeWriters'
  BY <1>4, NothingNew DEF RWInv
<1> QED
  BY <1>1, <1>2, <1>3, <1>5 DEF RWInv

-----------------------------------------------------------------------------
(* The pthread build.                                                      *)

LEMMA PthreadReaders ==
    ASSUME RWTypeInv, PthreadInv, build = "pthread"
    PROVE  Readers = RwlockReaders /\ Writers = RwlockWriters
BY DEF RWTypeInv, PthreadInv, PthreadLabels, Readers, Reads, Writers,
       RwlockReaders, RwlockWriters

LEMMA RwlockKeepsInv ==
    ASSUME RWInv, NEW t \in Threads, RwlockStep(t)
    PROVE  RWInv'
<1> USE DEF RwlockStep, Rwlock, Return, ReturnError, Answer, Succeed, Fail,
            RWGoto, rwLockVars
<1>0. build = "pthread" /\ build' = "pthread"
  OBVIOUS
<1>1. RWTypeInv'
  BY DEF RWInv, RWTypeInv, CallsTypeOK, RWLabels, RWRest
<1>2. OwnersInv'
  BY <1>0 DEF OwnersInv
<1>3. PthreadInv'
  BY <1>0 DEF RWInv, RWTypeInv, PthreadInv, PthreadLabels
<1>4. EventMeansNoReaders'
  BY <1>0 DEF EventMeansNoReaders
<1>5. /\ Readers = RwlockReaders /\ Writers = RwlockWriters
      /\ Readers' = RwlockReaders' /\ Writers' = RwlockWriters'
  <2>1. Readers = RwlockReaders /\ Writers = RwlockWriters
    BY <1>0, PthreadReaders DEF RWInv
  <2>2. Readers' = RwlockReaders' /\ Writers' = RwlockWriters'
    BY <1>0, <1>1, <1>3 DEF RWTypeInv, PthreadInv, PthreadLabels, Readers,
       Reads,
           Writers, RwlockReaders, RwlockWriters
  <2> QED
    BY <2>1, <2>2
<1>6. ReadersExcludeWriters'
  <2>1. RwlockReaders' \subseteq RwlockReaders \cup {t}
    BY DEF RWInv, RWTypeInv, RwlockReaders
  <2>2. RwlockWriters' \subseteq RwlockWriters \cup {t}
    BY DEF RWInv, RWTypeInv, RwlockWriters
  <2>3. t \in RwlockReaders' \ RwlockReaders => RwlockWriters = {} /\ t \notin RwlockWriters'
    BY DEF RWInv, RWTypeInv, RwlockReaders, RwlockWriters
  <2>4. t \in RwlockWriters' \ RwlockWriters =>
            RwlockWriters = {} /\ RwlockReaders = {} /\ t \notin RwlockReaders'
    BY DEF RWInv, RWTypeInv, RwlockReaders, RwlockWriters
  <2> QED
    BY <1>5, <2>1, <2>2, <2>3, <2>4 DEF RWInv, ReadersExcludeWriters
<1> QED
  BY <1>1, <1>2, <1>3, <1>4, <1>6 DEF RWInv

-----------------------------------------------------------------------------
(* The build for Windows before Vista.                                     *)

\* Two threads are not both in a section.
LEMMA OneOwner ==
    ASSUME RWTypeInv, OwnersInv, build = "winapi",
           NEW t \in Threads, NEW u \in Threads,
           rw_pc[t] \in WriteSection, rw_pc[u] \in WriteSection
    PROVE  t = u
BY DEF OwnersInv

\* The steps that neither count nor begin to write.
LEMMA QuietKeepsInv ==
    ASSUME RWInv, NEW t \in Threads, build = "winapi",
           \/ ReadEnter(t) \/ ReadEnterRead(t)
           \/ ReadLeave(t) \/ ReadLeaveWrite(t)
           \/ WriteEnter(t) \/ WriteLeave(t)
           \/ UnreadEnter(t) \/ UnreadLeave(t) \/ Unwrite(t)
    PROVE  RWInv'
<1> USE DEF EnterWrite, LeaveWrite, EnterRead, LeaveRead, RWGoto, Silent,
            Return, Answer, Succeed, ReadEnter, ReadEnterRead, ReadLeave,
            ReadLeaveWrite, WriteEnter, WriteLeave, UnreadEnter, UnreadLeave,
            Unwrite
<1>0. build' = "winapi"
  OBVIOUS
<1>1. RWTypeInv'
  BY DEF RWInv, RWTypeInv, CallsTypeOK, RWLabels, RWRest
<1>2. OwnersInv'
  BY <1>0, CallsAssumption
     DEF RWInv, RWTypeInv, OwnersInv, WriteSection, ReadSection
<1>3. PthreadInv'
  BY <1>0 DEF PthreadInv
<1>4. Readers' = Readers /\ Writers' \subseteq Writers
  <2>1. \A u \in Threads \ {t} : rw_pc'[u] = rw_pc[u] /\ answer'[u] = answer[u]
    BY DEF RWInv, RWTypeInv, CallsTypeOK
  <2>2. \A u \in Threads \ {t} : Reads(u)' <=> Reads(u)
    BY <2>1 DEF Reads
  <2>3. Reads(t)' <=> Reads(t)
    BY DEF RWInv, RWTypeInv, CallsTypeOK, Reads
  <2>4. Readers' = Readers
    BY <2>2, <2>3, SameReaders
  <2>5. Writers' \subseteq Writers
    BY DEF RWInv, RWTypeInv, Writers
  <2> QED
    BY <2>4, <2>5
<1>5. EventMeansNoReaders' /\ ReadersExcludeWriters'
  BY <1>4, NothingNew DEF RWInv
<1> QED
  BY <1>1, <1>2, <1>3, <1>5 DEF RWInv

LEMMA ReadCountKeepsInv ==
    ASSUME RWInv, NEW t \in Threads, build = "winapi", ReadCount(t)
    PROVE  RWInv'
<1> USE DEF RWGoto, Return, ReturnError, Answer, Succeed, Fail, ReadCount
<1>0. build' = "winapi"
  OBVIOUS
<1>1. RWTypeInv'
  <2>1. no_read_event' \in BOOLEAN
    BY DEF RWInv, RWTypeInv
  <2>2. number_of_readers' \in Nat
    BY DEF RWInv, RWTypeInv
  <2> QED
    BY <2>1, <2>2 DEF RWInv, RWTypeInv, CallsTypeOK, RWLabels, RWRest
<1>2. OwnersInv'
  BY <1>0 DEF RWInv, RWTypeInv, OwnersInv, WriteSection, ReadSection
<1>3. PthreadInv'
  BY <1>0 DEF PthreadInv
<1>4. Writers = {} /\ Writers' = {}
  BY OneOwner DEF RWInv, RWTypeInv, Writers, WriteSection
<1>5. CASE number_of_readers' = number_of_readers + 1
  <2>1. t \notin Readers /\ Readers' = Readers \cup {t}
    BY <1>5 DEF RWInv, RWTypeInv, CallsTypeOK, Readers, Reads
  <2>2. no_read_event' = (no_read_event /\ number_of_readers # 0)
    BY <1>5 DEF RWInv, RWTypeInv
  <2> QED
    BY <1>5, <2>1, <2>2, CountOneMore, <1>1, <1>2, <1>3, <1>4
       DEF RWInv, ReadersExcludeWriters
<1>6. CASE UNCHANGED <<number_of_readers, no_read_event>> /\ ReturnError(t, "reset_event")
  <2>1. Readers' = Readers
    BY <1>6 DEF RWInv, RWTypeInv, CallsTypeOK, Readers, Reads
  <2> QED
    BY <1>0, <1>6, <2>1, <1>4, NothingNew, <1>1, <1>2, <1>3 DEF RWInv
<1> QED
  BY <1>5, <1>6

LEMMA UnreadCountKeepsInv ==
    ASSUME RWInv, NEW t \in Threads, build = "winapi", UnreadCount(t)
    PROVE  RWInv'
<1> USE DEF RWGoto, Return, ReturnError, Answer, Succeed, Fail, UnreadCount
<1>0. build' = "winapi"
  OBVIOUS
<1>1. OwnersInv'
  BY <1>0 DEF RWInv, RWTypeInv, OwnersInv, WriteSection, ReadSection
<1>2. PthreadInv'
  BY <1>0 DEF PthreadInv
<1>3. Writers' \subseteq Writers /\ t \in Readers
  BY DEF RWInv, RWTypeInv, Writers, Readers, Reads
<1>4. CASE /\ number_of_readers' = number_of_readers - 1
           /\ no_read_event' = (no_read_event \/ number_of_readers = 1)
           /\ Return(t)
  <2>1. Readers' = Readers \ {t}
    BY <1>4 DEF RWInv, RWTypeInv, CallsTypeOK, Readers, Reads
  <2>2. EventMeansNoReaders' /\ number_of_readers' \in Nat
    BY <1>3, <1>4, <2>1, CountOneLess DEF RWInv
  <2>3. RWTypeInv'
    BY <1>4, <2>2 DEF RWInv, RWTypeInv, CallsTypeOK, RWLabels, RWRest
  <2> QED
    BY <1>1, <1>2, <1>3, <2>1, <2>2, <2>3 DEF RWInv, ReadersExcludeWriters
<1>5. CASE UNCHANGED <<number_of_readers, no_read_event>> /\ ReturnError(t, "set_event")
  <2>1. Readers' = Readers
    BY <1>5 DEF RWInv, RWTypeInv, CallsTypeOK, Readers, Reads
  <2>2. RWTypeInv'
    BY <1>5 DEF RWInv, RWTypeInv, CallsTypeOK, RWLabels, RWRest
  <2> QED
    BY <1>0, <1>1, <1>2, <1>3, <1>5, <2>1, <2>2, NothingNew DEF RWInv
<1> QED
  BY <1>4, <1>5

LEMMA WriteWaitKeepsInv ==
    ASSUME RWInv, NEW t \in Threads, build = "winapi", WriteWait(t)
    PROVE  RWInv'
<1> USE DEF RWGoto, Return, ReturnError, Answer, Succeed, Fail, WriteWait,
            rwLockVars
<1>0. build' = "winapi"
  OBVIOUS
<1>1. RWTypeInv'
  BY DEF RWInv, RWTypeInv, CallsTypeOK, RWLabels, RWRest
<1>2. OwnersInv'
  BY <1>0 DEF RWInv, RWTypeInv, OwnersInv, WriteSection, ReadSection
<1>3. PthreadInv'
  BY <1>0 DEF PthreadInv
<1>4. Readers' = Readers
  BY DEF RWInv, RWTypeInv, CallsTypeOK, Readers, Reads
<1>5. EventMeansNoReaders'
  BY <1>4 DEF RWInv, EventMeansNoReaders
<1>6. Writers = {}
  BY OneOwner DEF RWInv, RWTypeInv, Writers, WriteSection
<1>7. Writers' \subseteq {t}
  BY <1>6 DEF RWInv, RWTypeInv, Writers
<1>8. Writers' # {} => Readers = {}
  <2>1. CASE no_read_event
    BY <2>1, NobodyReads DEF RWInv
  <2>2. CASE ~ no_read_event
    BY <1>6, <2>2 DEF RWInv, RWTypeInv, Writers
  <2> QED
    BY <2>1, <2>2
<1> QED
  BY <1>1, <1>2, <1>3, <1>4, <1>5, <1>7, <1>8 DEF RWInv, ReadersExcludeWriters

-----------------------------------------------------------------------------
LEMMA StepKeepsInv ==
    ASSUME RWInv, NEW t \in Threads, RWUse(t)
    PROVE  RWInv'
<1>1. CASE \/ CallGrabForRead(t) \/ CallGrabForWrite(t)
           \/ CallReleaseForRead(t) \/ CallReleaseForWrite(t)
  BY <1>1, CallsKeepInv DEF CallGrabForRead, CallGrabForWrite,
                            CallReleaseForRead, CallReleaseForWrite
<1>2. CASE RwlockStep(t)
  BY <1>2, RwlockKeepsInv
<1>3. CASE WindowsStep(t)
  BY <1>3, QuietKeepsInv, ReadCountKeepsInv, UnreadCountKeepsInv,
     WriteWaitKeepsInv DEF WindowsStep
<1> QED
  BY <1>1, <1>2, <1>3 DEF RWUse, RWStep

LEMMA StutterKeepsInv ==
    ASSUME RWInv, UNCHANGED <<rwVars, callVars>>
    PROVE  RWInv'
<1> USE DEF rwVars, rwLockVars, callVars
<1>1. RWTypeInv' /\ OwnersInv' /\ PthreadInv'
  BY DEF RWInv, RWTypeInv, CallsTypeOK, OwnersInv, PthreadInv
<1>2. Readers' = Readers /\ Writers' = Writers
  BY DEF Readers, Reads, Writers
<1> QED
  BY <1>1, <1>2, NothingNew DEF RWInv

LEMMA InitInv == RWInit /\ CallsInit => RWInv
<1> SUFFICES ASSUME RWInit, CallsInit PROVE RWInv
  OBVIOUS
<1> USE DEF RWInit, CallsInit
<1>1. RWTypeInv /\ PthreadInv
  BY DEF RWTypeInv, CallsTypeOK, PthreadInv, PthreadLabels, RWLabels, RWRest
<1>2. OwnersInv
  BY CallsAssumption DEF OwnersInv, WriteSection, ReadSection
<1>3. Readers = {} /\ Writers = {}
  BY DEF Readers, Reads, Writers
<1>4. EventMeansNoReaders
  BY <1>3, FS_EmptySet DEF EventMeansNoReaders
<1> QED
  BY <1>1, <1>2, <1>3, <1>4 DEF RWInv, ReadersExcludeWriters

THEOREM InvHolds == RWSpec => []RWInv
<1>1. RWInv /\ [RWNext]_<<rwVars, callVars>> => RWInv'
  BY StepKeepsInv, StutterKeepsInv DEF RWNext, RWUse
<1> QED
  BY <1>1, InitInv, PTL DEF RWSpec

LEMMA RWInvTypes == RWInv => RWTypeOK
<1> SUFFICES ASSUME RWInv PROVE RWTypeOK
  OBVIOUS
<1>1. number_of_readers \in 0 .. Cardinality(Threads)
  <2>1. /\ Cardinality(Readers) \in Nat /\ Cardinality(Threads) \in Nat
        /\ Cardinality(Readers) <= Cardinality(Threads)
    BY ReadersFinite, CallsAssumption, FS_CardinalityType, FS_Subset
  <2>2. build \in {"pthread", "winapi"}
    BY CallsAssumption DEF RWInv, RWTypeInv, CallsTypeOK
  <2> QED
    BY <2>1, <2>2 DEF RWInv, PthreadInv, EventMeansNoReaders
<1> QED
  BY <1>1 DEF RWInv, RWTypeInv, RWTypeOK

(* The type invariant.  That the counter is at most the number of threads  *)
(* is part of it.                                                          *)
THEOREM TypeCorrect == RWSpec => []RWTypeOK
  BY RWInvTypes, InvHolds, PTL

(* A writer excludes all others.                                           *)
THEOREM ExclusionCorrect == RWSpec => []ReadersExcludeWriters
<1>1. RWInv => ReadersExcludeWriters
  BY DEF RWInv
<1> QED
  BY <1>1, InvHolds, PTL

(* The counter and the event tell the truth about the readers.             *)
THEOREM EventCorrect == RWSpec => []EventMeansNoReaders
<1>1. RWInv => EventMeansNoReaders
  BY DEF RWInv
<1> QED
  BY <1>1, InvHolds, PTL

-----------------------------------------------------------------------------
(* The refinement.                                                         *)

writer == IF Writers = {} THEN NoThread
          ELSE CHOOSE t \in Threads : t \in Writers

\* A step of a thread leaves the others where they are, and does not make a
\* reader of a writer or a writer of a reader.
LEMMA StepOfOne ==
    ASSUME RWTypeInv, NEW t \in Threads, RWUse(t)
    PROVE  /\ \A u \in Threads \ {t} :
                  rw_pc'[u] = rw_pc[u] /\ answer'[u] = answer[u]
           /\ ~ (t \in Writers /\ t \in Readers')
           /\ ~ (t \in Readers /\ t \in Writers')
<1> USE DEF RWTypeInv, CallsTypeOK, RWGoto, Return, ReturnError, Answer, Silent,
            rwLockVars, callVars, Readers, Reads, Writers
<1>1. CASE \/ CallGrabForRead(t) \/ CallGrabForWrite(t)
           \/ CallReleaseForRead(t) \/ CallReleaseForWrite(t)
  BY <1>1 DEF CallGrabForRead, CallGrabForWrite, CallReleaseForRead,
              CallReleaseForWrite, RWCall
<1>2. CASE RwlockStep(t)
  BY <1>2 DEF RwlockStep, Rwlock
<1>3. CASE \/ ReadEnter(t) \/ ReadEnterRead(t) \/ ReadCount(t)
           \/ ReadLeave(t) \/ ReadLeaveWrite(t)
  BY <1>3 DEF ReadEnter, ReadEnterRead, ReadCount, ReadLeave, ReadLeaveWrite
<1>4. CASE \/ WriteEnter(t) \/ WriteWait(t) \/ WriteLeave(t)
  BY <1>4 DEF WriteEnter, WriteWait, WriteLeave
<1>5. CASE \/ UnreadEnter(t) \/ UnreadCount(t) \/ UnreadLeave(t) \/ Unwrite(t)
  BY <1>5 DEF UnreadEnter, UnreadCount, UnreadLeave, Unwrite
<1> QED
  BY <1>1, <1>2, <1>3, <1>4, <1>5 DEF RWUse, RWStep, WindowsStep

LEMMA WriterOfNone ==
    ASSUME Writers = {}
    PROVE  writer = NoThread
BY DEF writer

LEMMA WriterOfOne ==
    ASSUME NEW t \in Threads, Writers = {t}
    PROVE  writer = t
BY DEF writer

\* What such a step is to the shared lock.
LEMMA StepRefines ==
    ASSUME RWInv, RWInv', NEW t \in Threads, RWUse(t)
    PROVE  SL!SharedLockNext \/ UNCHANGED <<Readers, writer>>
<1>1. Readers \ {t} = Readers' \ {t} /\ Writers \ {t} = Writers' \ {t}
  BY StepOfOne DEF RWInv, Readers, Reads, Writers
<1>2. ~ (t \in Writers /\ t \in Readers') /\ ~ (t \in Readers /\ t \in Writers')
  BY StepOfOne DEF RWInv
<1>3. ReadersExcludeWriters /\ ReadersExcludeWriters'
  BY DEF RWInv
<1>4. CASE t \in Readers /\ t \notin Readers'
  <2>1. Readers' = Readers \ {t} /\ Writers = {} /\ Writers' = {}
    BY <1>1, <1>2, <1>3, <1>4 DEF ReadersExcludeWriters
  <2> QED
    BY <1>4, <2>1 DEF SL!SharedLockNext, SL!ReleaseForRead, writer
<1>5. CASE t \notin Readers /\ t \in Readers'
  <2>1. Readers' = Readers \cup {t} /\ Writers = {} /\ Writers' = {}
    BY <1>1, <1>2, <1>3, <1>5 DEF ReadersExcludeWriters
  <2> QED
    BY <1>5, <2>1 DEF SL!SharedLockNext, SL!GrabForRead, writer
<1>6. CASE t \in Writers /\ t \notin Writers'
  <2>1. Writers = {t} /\ Writers' = {} /\ Readers = {} /\ Readers' = {}
    BY <1>1, <1>2, <1>3, <1>6 DEF ReadersExcludeWriters
  <2> QED
    BY <2>1 DEF SL!SharedLockNext, SL!ReleaseForWrite, writer
<1>7. CASE t \notin Writers /\ t \in Writers'
  <2>1. Writers = {} /\ Writers' = {t} /\ Readers = {} /\ Readers' = {}
    BY <1>1, <1>2, <1>3, <1>7 DEF ReadersExcludeWriters
  <2> QED
    BY <2>1 DEF SL!SharedLockNext, SL!GrabForWrite, writer
<1>8. CASE (t \in Readers <=> t \in Readers') /\ (t \in Writers <=> t \in Writers')
  <2>1. Readers' = Readers /\ Writers' = Writers
    BY <1>1, <1>8
  <2> QED
    BY <2>1 DEF writer
<1> QED
  BY <1>4, <1>5, <1>6, <1>7, <1>8

(* The functions, of either build, are the shared lock.                    *)
THEOREM RefinementCorrect == RWSpec => ImplementsSharedLock
<1>1. RWInit /\ CallsInit => SL!SharedLockInit
  BY DEF RWInit, CallsInit, SL!SharedLockInit, Readers, Reads, Writers
<1>2. RWInv /\ RWInv' /\ [RWNext]_<<rwVars, callVars>>
          => [SL!SharedLockNext]_<<Readers, writer>>
  <2>1. CASE RWNext
    BY <2>1, StepRefines DEF RWNext, RWUse
  <2>2. CASE UNCHANGED <<rwVars, callVars>>
    BY <2>2 DEF rwVars, rwLockVars, callVars, Readers, Reads, Writers, writer
  <2> QED
    BY <2>1, <2>2
<1> QED
  BY <1>1, <1>2, InvHolds, PTL DEF RWSpec, ImplementsSharedLock,
     SL!SharedLockSpec, writer

\* While a writer waits for the readers to leave nobody becomes a reader.
LEMMA NobodyPassesTheWriter ==
    ASSUME RWInv, NEW t \in Threads, RWUse(t),
           NEW u \in Threads, rw_pc[u] = "write_wait"
    PROVE  Readers' \subseteq Readers
<1>1. build = "winapi"
  BY CallsAssumption DEF RWInv, RWTypeInv, CallsTypeOK, PthreadInv,
     PthreadLabels
<1>2. Readers \ {t} = Readers' \ {t}
  BY StepOfOne DEF RWInv, Readers, Reads
<1>3. rw_pc[t] \notin {"read_count", "read_leave", "read_leave_write"}
  BY <1>1, OneOwner DEF RWInv, WriteSection
<1>4. t \in Readers' => t \in Readers
  BY <1>1, <1>3, StepOfOne
     DEF RWInv, RWTypeInv, CallsTypeOK, RWUse, RWStep,
         RwlockStep, Rwlock, WindowsStep, RWCall, CallGrabForRead,
         CallGrabForWrite, CallReleaseForRead, CallReleaseForWrite, ReadEnter,
         ReadEnterRead, ReadCount, ReadLeave, ReadLeaveWrite, WriteEnter,
         WriteWait, WriteLeave, UnreadEnter, UnreadCount, UnreadLeave, Unwrite,
         RWGoto, Return, ReturnError, Answer, Silent, rwLockVars, callVars,
         Readers, Reads
<1> QED
  BY <1>2, <1>4

(* While a writer waits for the readers to leave, nobody becomes one.      *)
THEOREM WriterIsNextCorrect == RWSpec => WriterIsNext
<1>1. RWInv /\ [RWNext]_<<rwVars, callVars>>
          => [(\E t \in Threads : rw_pc[t] = "write_wait")
                  => Readers' \subseteq Readers]_rwVars
  BY NobodyPassesTheWriter DEF RWNext, RWUse
<1> QED
  BY <1>1, InvHolds, PTL DEF RWSpec, WriterIsNext
=============================================================================
