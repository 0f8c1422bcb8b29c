------------------------- MODULE MCRepeatingThread -------------------------
(***************************************************************************)
(* Instance of RepeatingThread for TLC.                                    *)
(***************************************************************************)
EXTENDS RepeatingThread, TLC

CONSTANTS p1, p2

TwoAndOne == p1 :> 2 @@ p2 :> 1
=============================================================================
