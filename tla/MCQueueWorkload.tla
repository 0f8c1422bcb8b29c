-------------------------- MODULE MCQueueWorkload --------------------------
(***************************************************************************)
(* Scripts for TLC.  The keys of the values are their tens digits.         *)
(***************************************************************************)
EXTENDS QueueWorkload, TLC

CONSTANTS p1, p2, c1, c2, e1

MCKey == [v \in Values |-> v \div 10]

\* A thread may call what its script says, and e1 frees the queue.
MCMayCall ==
    [t \in Threads |->
        {Script[t][i][1] : i \in DOMAIN Script[t]}
            \cup (IF t = e1 THEN {"free"} ELSE {})]

\* e1 waits until the queue has drained and then pushes one value more
\* than is popped: a value is left for queue_free.
LeftoverScript ==
    p1 :> << <<"push", 10>>, <<"push_sorted", 20>> >> @@
    p2 :> << <<"push_sorted", 11>>, <<"try_pop", NoValue>> >> @@
    c1 :> << <<"pop", NoValue>>, <<"pop", NoValue>> >> @@
    c2 :> << <<"pop", NoValue>> >> @@
    e1 :> << <<"empty", NoValue>>, <<"push", 21>> >>

\* Nobody pops.
StalledScript ==
    p1 :> << <<"push", 10>>, <<"push", 20>> >> @@
    e1 :> << <<"empty", NoValue>> >>
=============================================================================
