------------------------------ MODULE MCQueue ------------------------------
(***************************************************************************)
(* Instances of Queue for TLC.  A value is a number whose key is its tens  *)
(* digit: 10 and 11 compare equal, both are less than 20.                  *)
(***************************************************************************)
EXTENDS Queue, TLC

CONSTANTS p1, p2, c1, c2

MCKey == [v \in Values |-> v \div 10]

\* Two threads that insert in order and one that takes values away.
SortedCalls ==
    p1 :> {"push_sorted", "push_unique"} @@ p2 :> {"push_sorted"} @@
    c1 :> {"pop", "try_pop"}

\* Every function, by threads few enough to let every call fail.
FaultyCalls ==
    p1 :> {"push", "try_push", "push_sorted", "push_unique", "free"} @@
    c1 :> {"pop", "try_pop", "empty"} @@ c2 :> {"pop"}
=============================================================================
