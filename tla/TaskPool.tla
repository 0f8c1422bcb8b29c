------------------------------ MODULE TaskPool ------------------------------
(***************************************************************************)
(* What libcthreads_thread_pool promises: every value that is pushed is    *)
(* handed to exactly one worker, in the order of the queue, its callback   *)
(* runs to its end, and join returns 1 only when nothing is left to do     *)
(* and, where the workers report to it, every callback has returned 1.     *)
(* Values are distinct.                                                    *)
(***************************************************************************)
EXTENDS Integers, Sequences

CONSTANTS Capacity, Values, Key,
          PushKinds,    \* the push functions in use
          MayFail       \* whether a call of the library may fail

VARIABLES items,        \* the queued values, the next to take first
          busy,         \* the values whose callback has not returned
          completed,    \* the values whose callback has returned
          dropped,      \* the values lost by a call that failed
          failed,       \* some callback has not returned 1
          outcome,      \* of join: 0 before it returns
          reporting     \* whether the workers report to join

vars == <<items, busy, completed, dropped, failed, outcome, reporting>>

Init ==
    /\ items = <<>>
    /\ busy = {}
    /\ completed = {}
    /\ dropped = {}
    /\ failed = FALSE
    /\ outcome = 0
    /\ reporting \in BOOLEAN

Queued == {items[i] : i \in 1 .. Len(items)}

Known == Queued \cup busy \cup completed \cup dropped

Idle == items = <<>> /\ busy = {}

\* v goes in front of items[i], or at the end.
Place(v, i) == items' =
    SubSeq(items, 1, i - 1) \o <<v>> \o SubSeq(items, i, Len(items))

InOrder(v, i) ==
    /\ \A j \in 1 .. i - 1 : Key[items[j]] <= Key[v]
    /\ i <= Len(items) => Key[items[i]] > Key[v]

Fresh(v) == \A j \in 1 .. Len(items) : Key[items[j]] # Key[v]

Submit(v) ==
    /\ outcome # 1
    /\ v \notin Known
    /\ Len(items) < Capacity
    /\ \/ "push" \in PushKinds /\ Place(v, Len(items) + 1)
       \/ /\ \/ "push_sorted" \in PushKinds
             \/ "push_unique" \in PushKinds /\ Fresh(v)
          /\ \E i \in 1 .. Len(items) + 1 : InOrder(v, i) /\ Place(v, i)
    /\ UNCHANGED <<busy, completed, dropped, failed, outcome>>

Take ==
    /\ outcome # 1
    /\ items # <<>>
    /\ busy' = busy \cup {Head(items)}
    /\ items' = Tail(items)
    /\ UNCHANGED <<completed, dropped, failed, outcome>>

Complete(v) ==
    /\ v \in busy
    /\ busy' = busy \ {v}
    /\ completed' = completed \cup {v}
    /\ failed' \in {failed, TRUE}
    /\ UNCHANGED <<items, dropped, outcome>>

Drop(v) ==
    /\ MayFail
    /\ v \in busy
    /\ busy' = busy \ {v}
    /\ dropped' = dropped \cup {v}
    /\ UNCHANGED <<items, completed, failed, outcome>>

Join ==
    /\ outcome = 0
    /\ \/ /\ Idle
          /\ reporting => dropped = {} /\ ~ failed
          /\ outcome' = 1
       \/ reporting /\ Idle /\ failed /\ outcome' = -1
       \/ MayFail /\ outcome' = -1
    /\ UNCHANGED <<items, busy, completed, dropped, failed>>

Next ==
    /\ Take \/ Join \/ \E v \in Values : Submit(v) \/ Complete(v) \/ Drop(v)
    /\ UNCHANGED reporting

Spec == Init /\ [][Next]_vars
=============================================================================
