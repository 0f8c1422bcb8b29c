---------------------------- MODULE MCWorkload ----------------------------
(***************************************************************************)
(* Instance of Workload for TLC: programs of three threads.                *)
(***************************************************************************)
EXTENDS Workload, TLC

CONSTANTS w1, w2, w3

Program(a, b, c) == w1 :> a @@ w2 :> b @@ w3 :> c

MCScripts ==
    { Program(<<"read", "read">>, <<"write">>, <<"write", "read">>),
      Program(<<"take", "take">>, <<"take">>, <<"give", "give_all">>),
      Program(<<"take">>, <<"try_give", "give">>, <<>>),
      Program(<<"count", "count">>, <<"count">>, <<>>) }
=============================================================================
