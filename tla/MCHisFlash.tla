----------------------------- MODULE MCHisFlash -----------------------------
(***************************************************************************)
(* Small values for HisFlash: one quarter of an hour of the 8th, and a     *)
(* byte of two low bits and bit 7.                                         *)
(***************************************************************************)
EXTENDS HisFlash

MCQuantities == {{}, {1}}
=============================================================================
