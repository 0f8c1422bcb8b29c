----------------------------- MODULE SharedLock -----------------------------
(***************************************************************************)
(* What the read/write lock promises: it is held by any number of readers  *)
(* or by one writer.  This is also what the objects of the system do that  *)
(* the pthread build, and Windows from Vista on, delegate to.              *)
(***************************************************************************)
CONSTANTS Threads, NoThread

VARIABLES readers,      \* the threads that hold the lock for reading
          writer        \* the thread that holds it for writing, or NoThread

SharedLockInit == readers = {} /\ writer = NoThread

GrabForRead(t) ==
    /\ writer = NoThread
    /\ t \notin readers
    /\ readers' = readers \cup {t}
    /\ UNCHANGED writer

GrabForWrite(t) ==
    /\ writer = NoThread /\ readers = {}
    /\ writer' = t
    /\ UNCHANGED readers

ReleaseForRead(t) ==
    /\ t \in readers
    /\ readers' = readers \ {t}
    /\ UNCHANGED writer

ReleaseForWrite(t) ==
    /\ writer = t
    /\ writer' = NoThread
    /\ UNCHANGED readers

SharedLockNext ==
    \E t \in Threads : \/ GrabForRead(t) \/ GrabForWrite(t)
                       \/ ReleaseForRead(t) \/ ReleaseForWrite(t)

SharedLockSpec ==
    SharedLockInit /\ [][SharedLockNext]_<<readers, writer>>
=============================================================================
