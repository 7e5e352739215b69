-------------------------------- MODULE MCOta --------------------------------
(***************************************************************************)
(* Ota with a version whose pieces are whole, one whose last piece is as   *)
(* long as Begin and one whose last piece is as long as End.               *)
(***************************************************************************)
EXTENDS Ota

MCLength == [v \in Versions |-> CASE v = 1 -> 6 [] v = 2 -> 5 [] OTHER -> 4]
=============================================================================
