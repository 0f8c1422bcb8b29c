------------------------------ MODULE Objects ------------------------------
(***************************************************************************)
(* The _initialize and _free functions of lock, mutex, condition and       *)
(* read/write lock, and the system objects that they make and close.       *)
(*                                                                         *)
(* An initialize that fails half way closes what it has made.  A free that *)
(* fails to close a system object returns -1, but goes on and frees the    *)
(* memory: the system object is left.  A pthread object that is in use     *)
(* cannot be destroyed (EBUSY).                                            *)
(***************************************************************************)
EXTENDS Calls

Kinds == {"lock", "mutex", "condition", "read_write_lock"}

VARIABLES object,   \* object[k]: "none", "live", "refused" or "freed"
          open      \* the system objects that exist

objectVars == <<object, open>>

ConditionParts == {"wait_critical_section", "semaphore", "event"}
ReadWriteLockParts ==
    {"write_critical_section", "read_critical_section", "no_read_event"}

ObjectTypeOK ==
    /\ object \in [Kinds -> {"none", "live", "refused", "freed"}]
    /\ open \subseteq Kinds \cup ConditionParts \cup ReadWriteLockParts

ObjectInit ==
    /\ object = [k \in Kinds |-> "none"]
    /\ open = {}

Becomes(k, s) == object' = [object EXCEPT ![k] = s]

Made(t, k, parts) ==
    /\ object[k] = "none"
    /\ Becomes(k, "live")
    /\ open' = open \cup parts
    /\ Return(t) /\ UNCHANGED build

\* The call named fails after some parts were made, which are closed again.
NotMade(t, k, call, made, closed) ==
    /\ object[k] = "none"
    /\ Becomes(k, "refused")
    /\ open' = (open \cup made) \ closed
    /\ ReturnError(t, call) /\ UNCHANGED build

InitializeLock(t) ==
    \/ Made(t, "lock", {"lock"})
    \/ NotMade(t, "lock", "allocate", {}, {})
    \/ build = "pthread" /\ NotMade(t, "lock", "init", {}, {})

InitializeMutex(t) ==
    \/ Made(t, "mutex", {"mutex"})
    \/ NotMade(t, "mutex", "allocate", {}, {})
    \/ NotMade(t, "mutex", "init", {}, {})

\* Mutant of InitializeCondition: an event that cannot be made leaves the
\* semaphore behind.
InitializeConditionKeepsSemaphore(t) ==
    LET k == "condition"
        section == {"wait_critical_section"}
    IN \/ NotMade(t, k, "allocate", {}, {})
       \/ build = "pthread" /\ Made(t, k, {k})
       \/ build = "pthread" /\ NotMade(t, k, "init", {}, {})
       \/ build = "winapi" /\ Made(t, k, ConditionParts)
       \/ build = "winapi" /\
             \E made \in {section, section \cup {"semaphore"}} :
                NotMade(t, k, "init", made, section)

InitializeCondition(t) ==
    LET k == "condition"
        section == {"wait_critical_section"}
    IN \/ NotMade(t, k, "allocate", {}, {})
       \/ build = "pthread" /\ Made(t, k, {k})
       \/ build = "pthread" /\ NotMade(t, k, "init", {}, {})
       \/ build = "winapi" /\ Made(t, k, ConditionParts)
       \/ build = "winapi" /\
             \E made \in {section, section \cup {"semaphore"}} :
                NotMade(t, k, "init", made, section \cup {"semaphore"})

InitializeReadWriteLock(t) ==
    LET k == "read_write_lock"
        sections == {"write_critical_section", "read_critical_section"}
    IN \/ NotMade(t, k, "allocate", {}, {})
       \/ build = "pthread" /\ Made(t, k, {k})
       \/ build = "pthread" /\ NotMade(t, k, "init", {}, {})
       \/ build = "winapi" /\ Made(t, k, ReadWriteLockParts)
       \/ build = "winapi" /\ NotMade(t, k, "init", sections, sections)

-----------------------------------------------------------------------------
\* Deletes critical sections, which cannot fail, and closes parts, any of
\* which may fail and is left then.
Free(t, k, deleted, parts) ==
    /\ object[k] = "live"
    /\ Becomes(k, "freed")
    /\ \E left \in SUBSET parts :
          /\ open' = open \ ((deleted \cup parts) \ left)
          /\ IF left = {} THEN Return(t) ELSE ReturnError(t, "close")
    /\ UNCHANGED build

FreeBusy(t, k) ==
    /\ object[k] = "live"
    /\ Becomes(k, "freed")
    /\ Answer(t, -1) /\ Succeed
    /\ UNCHANGED <<open, build>>

\* Free for the pthread build.
Destroy(t, k, busy) ==
    /\ build = "pthread"
    /\ IF busy THEN FreeBusy(t, k) ELSE Free(t, k, {}, {k})

FreeLock(t, busy) ==
    \/ Destroy(t, "lock", busy)
    \/ build = "winapi" /\ Free(t, "lock", {"lock"}, {})

FreeMutex(t, busy) ==
    \/ Destroy(t, "mutex", busy)
    \/ build = "winapi" /\ Free(t, "mutex", {}, {"mutex"})

\* Nobody may wait for the condition any more.
FreeCondition(t) ==
    \/ Destroy(t, "condition", FALSE)
    \/ build = "winapi" /\ Free(t, "condition", {"wait_critical_section"},
                                {"semaphore", "event"})

FreeReadWriteLock(t, busy) ==
    \/ Destroy(t, "read_write_lock", busy)
    \/ build = "winapi" /\ Free(t, "read_write_lock",
            {"write_critical_section", "read_critical_section"},
            {"no_read_event"})

Parts(k) ==
    {k} \cup (IF k = "condition" THEN ConditionParts
              ELSE IF k = "read_write_lock" THEN ReadWriteLockParts ELSE {})

\* The calls whose failure a free may suffer from: a pthread object that a
\* thread has not given back is in use.
CanStayOpen ==
    IF build = "winapi" THEN {"close"}
    ELSE {"close", "unlock", "release", "rwlock_unlock", "wait", "signal"}

(* An object that could not be made, or has been freed, leaves no system   *)
(* object behind: whatever else has failed, it was not in use any more.    *)
NothingIsLeftOpen ==
    failures \cap CanStayOpen = {} =>
        \A k \in Kinds :
            object[k] \in {"refused", "freed"} => open \cap Parts(k) = {}
=============================================================================
