---------------------------- MODULE MCThreadPool ----------------------------
(***************************************************************************)
(* Instances of ThreadPool for TLC.  The keys of the values are their tens *)
(* digits.                                                                 *)
(***************************************************************************)
EXTENDS ThreadPool, TLC

CONSTANTS p1, p2

MCKey == [v \in Values |-> v \div 10]

NoSpawn == [v \in Values |-> <<>>]

\* Values that are sorted by the pool, 10 and 11 being duplicates; the
\* callback of 10 pushes 15.
SortedScript ==
    p1 :> << <<"push_sorted", 20>>, <<"push_unique", 10>> >> @@
    p2 :> << <<"push_unique", 11>>, <<"push", 12>> >>
SortedSpawn ==
    [v \in Values |-> IF v = 10 THEN <<"push_sorted", 15>> ELSE <<>>]

\* Both kinds of push, for the run in which every call may fail.
FaultyScript ==
    p1 :> << <<"push_sorted", 20>>, <<"push_unique", 10>> >> @@
    p2 :> << <<"push", 11>> >>

\* The callback of 10 pushes 15, which has a callback of its own.
SpawnScript == p1 :> << <<"push", 10>>, <<"push", 20>> >>
SpawnOnce == [v \in Values |-> IF v = 10 THEN <<"push", 15>> ELSE <<>>]
=============================================================================
