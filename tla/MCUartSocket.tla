---------------------------- MODULE MCUartSocket ----------------------------
(***************************************************************************)
(* UartSocket with two tasks: the receive task, and HAPNotifyHandle, which *)
(* the supervisor restarts.                                                *)
(***************************************************************************)
EXTENDS UartSocket
=============================================================================
