------------------------------ MODULE MCUartRing ------------------------------
(* The receive ring with a few cells, read less than all of them at a time. *)
EXTENDS UartRing
=============================================================================
