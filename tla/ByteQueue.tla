------------------------------ MODULE ByteQueue ------------------------------
(***************************************************************************)
(* What the receive side of component/common/utilities/uart_socket.c       *)
(* promises uart_socket_example: a queue of bytes.  The interrupt appends  *)
(* at the tail; one call of uart_read takes some bytes from the head.  A   *)
(* call that passes the end of the ring takes its bytes first and settles  *)
(* the ring afterwards: a byte that arrives in between empties the queue.  *)
(***************************************************************************)
EXTENDS Naturals, Sequences

CONSTANT Bytes   \* what may arrive

VARIABLES
  queue,      \* the bytes received and not yet returned or lost
  out,        \* the bytes returned by uart_read so far
  finishing   \* a call of uart_read has taken its bytes and not settled yet

Init == queue = <<>> /\ out = <<>> /\ finishing = FALSE

Arrive ==
  /\ ~finishing
  /\ \E b \in Bytes : queue' = Append(queue, b)
  /\ UNCHANGED <<out, finishing>>

Lose ==
  /\ finishing
  /\ queue' = <<>>
  /\ UNCHANGED <<out, finishing>>

Take ==
  /\ ~finishing
  /\ \E n \in 0 .. Len(queue) :
       /\ out' = out \o SubSeq(queue, 1, n)
       /\ queue' = SubSeq(queue, n + 1, Len(queue))
  /\ finishing' \in BOOLEAN

Settle ==
  /\ finishing /\ finishing' = FALSE
  /\ UNCHANGED <<queue, out>>

Next == Arrive \/ Lose \/ Take \/ Settle

Spec == Init /\ [][Next]_<<queue, out, finishing>>
=============================================================================
