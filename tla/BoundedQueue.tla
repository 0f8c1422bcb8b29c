---------------------------- MODULE BoundedQueue ----------------------------
(***************************************************************************)
(* What libcthreads_queue promises its callers: a queue of at most         *)
(* Capacity values, on which every call takes effect in one step between   *)
(* its invocation and its return.  push_sorted inserts a value before the  *)
(* first greater one, hence after the equal ones; push_unique is           *)
(* push_sorted with LIBCTHREADS_SORT_FLAG_UNIQUE_VALUES.  A result of 1 or *)
(* 0 is the truth about the queue at that step; -1 only says that          *)
(* something failed, before or after the value was queued.                 *)
(***************************************************************************)
EXTENDS Integers, Sequences

CONSTANTS Threads, Capacity, Values, Key, NoValue,
          MayFail,      \* whether a call may return -1
          MayFailLate   \* whether it may do so after it took effect

VARIABLES items,        \* the queued values, the next to pop first
          phase,        \* phase[t]: "idle", "pending" or "done"
          operation,    \* operation[t]: the call in progress or the last one
          value,        \* value[t]: the value pushed or popped by that call
          result        \* result[t]: what that call returned

vars == <<items, phase, operation, value, result>>

Pushes == {"push", "try_push", "push_sorted", "push_unique"}

Operations == Pushes \cup {"pop", "try_pop", "empty"}

Init ==
    /\ items = <<>>
    /\ phase = [t \in Threads |-> "idle"]
    /\ operation = [t \in Threads |-> "none"]
    /\ value = [t \in Threads |-> NoValue]
    /\ result = [t \in Threads |-> 0]

Invoke(t) ==
    /\ phase[t] = "idle"
    /\ phase' = [phase EXCEPT ![t] = "pending"]
    /\ \E op \in Operations, v \in Values \cup {NoValue} :
          /\ op \in Pushes <=> v # NoValue
          /\ operation' = [operation EXCEPT ![t] = op]
          /\ value' = [value EXCEPT ![t] = v]
    /\ UNCHANGED <<items, result>>

Pending(t, ops) == phase[t] = "pending" /\ operation[t] \in ops

\* The call takes effect and will return r, or -1 when something fails late.
Effect(t, r) ==
    /\ phase' = [phase EXCEPT ![t] = "done"]
    /\ \/ result' = [result EXCEPT ![t] = r]
       \/ MayFailLate /\ result' = [result EXCEPT ![t] = -1]
    /\ UNCHANGED operation

Push(t) ==
    /\ Pending(t, {"push", "try_push"})
    /\ Len(items) < Capacity
    /\ items' = Append(items, value[t])
    /\ Effect(t, 1)
    /\ UNCHANGED value

\* v goes in front of items[i]; i = Len(items) + 1 appends it.
Inserted(v, i) ==
    SubSeq(items, 1, i - 1) \o <<v>> \o SubSeq(items, i, Len(items))

NotGreater(j, t) == Key[items[j]] <= Key[value[t]]
Equal(j, t) == Key[items[j]] = Key[value[t]]

PushSorted(t) ==
    /\ Pending(t, {"push_sorted", "push_unique"})
    /\ Len(items) < Capacity
    /\ \E i \in 1 .. Len(items) + 1 :
          /\ \A j \in 1 .. i - 1 : NotGreater(j, t)
          /\ i <= Len(items) => ~ NotGreater(i, t)
          /\ operation[t] = "push_unique" => \A j \in 1 .. i - 1 : ~ Equal(j, t)
          /\ items' = Inserted(value[t], i)
    /\ Effect(t, 1)
    /\ UNCHANGED value

\* The value already exists, and nothing greater is in front of it.
RejectDuplicate(t) ==
    /\ Pending(t, {"push_unique"})
    /\ \E i \in 1 .. Len(items) :
          /\ Equal(i, t)
          /\ \A j \in 1 .. i - 1 : NotGreater(j, t)
    /\ Effect(t, 0)
    /\ UNCHANGED <<items, value>>

Pop(t) ==
    /\ Pending(t, {"pop", "try_pop"})
    /\ items # <<>>
    /\ items' = Tail(items)
    /\ value' = [value EXCEPT ![t] = Head(items)]
    /\ Effect(t, 1)

FindFull(t) ==
    /\ Pending(t, {"try_push"})
    /\ Len(items) = Capacity
    /\ Effect(t, 0)
    /\ UNCHANGED <<items, value>>

FindEmpty(t) ==
    /\ Pending(t, {"try_pop", "empty"})
    /\ items = <<>>
    /\ Effect(t, IF operation[t] = "empty" THEN 1 ELSE 0)
    /\ UNCHANGED <<items, value>>

\* A call that fails without any effect on the queue.
Fail(t) ==
    /\ MayFail
    /\ phase[t] = "pending"
    /\ phase' = [phase EXCEPT ![t] = "done"]
    /\ result' = [result EXCEPT ![t] = -1]
    /\ UNCHANGED <<items, operation, value>>

FailLate(t) ==
    /\ MayFailLate
    /\ phase[t] = "done"
    /\ result' = [result EXCEPT ![t] = -1]
    /\ UNCHANGED <<items, phase, operation, value>>

Return(t) ==
    /\ phase[t] = "done"
    /\ phase' = [phase EXCEPT ![t] = "idle"]
    /\ operation' = [operation EXCEPT ![t] = "none"]
    /\ value' = [value EXCEPT ![t] = NoValue]
    /\ result' = [result EXCEPT ![t] = 0]
    /\ UNCHANGED items

Next ==
    \E t \in Threads :
        \/ Invoke(t) \/ Return(t) \/ Fail(t) \/ FailLate(t)
        \/ Push(t) \/ PushSorted(t) \/ RejectDuplicate(t)
        \/ Pop(t) \/ FindFull(t) \/ FindEmpty(t)

Spec == Init /\ [][Next]_vars
=============================================================================
