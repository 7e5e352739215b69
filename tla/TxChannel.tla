------------------------------ MODULE TxChannel ------------------------------
(***************************************************************************)
(* What uart_write promises its callers (component/common/utilities/       *)
(* uart_socket.c): a channel with room for one message.  A message is      *)
(* accepted when the room is free and transmitted, whole, before the next  *)
(* one is accepted.                                                        *)
(***************************************************************************)
EXTENDS Sequences

CONSTANTS
  Messages,  \* what callers send
  None       \* no message

VARIABLES
  slot,  \* the message accepted and not yet transmitted, or None
  out    \* the messages transmitted so far

Init == slot = None /\ out = <<>>

Accept ==
  /\ slot = None
  /\ slot' \in Messages
  /\ out' = out

Transmit ==
  /\ slot # None
  /\ out' = Append(out, slot)
  /\ slot' = None

Next == Accept \/ Transmit

Spec == Init /\ [][Next]_<<slot, out>>
=============================================================================
