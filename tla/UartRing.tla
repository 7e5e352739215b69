------------------------------- MODULE UartRing -------------------------------
(***************************************************************************)
(* The receive ring of component/common/utilities/uart_socket.c: recv_buf  *)
(* with its indices prxread and prxwrite and the flag rxoverlap, written   *)
(* by the interrupt uart_irq and read by uart_read.  There is no lock: the *)
(* interrupt may come between any two accesses of uart_read to the shared  *)
(* fields, each of which is a step here: its loads of the indices and of   *)
(* the flag, each byte memcpy copies, and its stores of prxread and of     *)
(* rxoverlap.  Module UartSocket models when uart_read is called; this one *)
(* models what it returns.                                                 *)
(*                                                                         *)
(* A byte is its arrival number, so that order, loss and repetition show.  *)
(***************************************************************************)
EXTENDS Integers, Sequences

CONSTANTS
  BufLen,     \* UART_RECV_BUFFER_LEN
  ReadSize,   \* sizeof(rxbuf), what uart_socket_example asks for
  Preempt,    \* when a byte may come while uart_read runs: see MayInterrupt
  MaxBacklog, \* environment: unread bytes at most (BufLen: no overrun)
  MaxBytes    \* bound: bytes received

ASSUME ConstantsAssumption ==
  /\ BufLen \in Nat \ {0}
  /\ ReadSize \in 1 .. BufLen
  /\ Preempt \in {"nowrap", "any"}
  /\ MaxBacklog \in Nat /\ MaxBytes \in Nat

VARIABLES
  recv_buf, prxread, prxwrite, rxoverlap,
  arrived,      \* bytes received so far
  pc,           \* where uart_read stands
  pread_local, pwrite_local, read_bytes,
  through,      \* the flag as memcpy's branch saw it ("write through")
  chunk,        \* what memcpy copied to read_buf so far
  returned,     \* history: all the bytes uart_read returned
  gone          \* history: how many bytes prxread has passed

ringVars == <<recv_buf, prxread, prxwrite, rxoverlap>>
localVars == <<pread_local, pwrite_local, read_bytes, through>>
readVars == <<pc, localVars, chunk, returned>>
vars == <<ringVars, arrived, readVars, gone>>

Garbage == -1   \* a cell nothing was received into, or memory beyond recv_buf

Init ==
  /\ recv_buf = [i \in 0 .. BufLen - 1 |-> Garbage]
  /\ prxread = 0 /\ prxwrite = 0 /\ rxoverlap = 0
  /\ arrived = 0
  /\ pc = "idle" /\ pread_local = 0 /\ pwrite_local = 0 /\ read_bytes = 0 /\ through = 0
  /\ chunk = <<>> /\ returned = <<>> /\ gone = 0

-----------------------------------------------------------------------------
(***************************************************************************)
(* What is in the ring, by the formula uart_read uses.                     *)
(***************************************************************************)
Unread(pread, pwrite, overlap) ==
  IF overlap = 0 THEN pwrite - pread ELSE (BufLen - pread) + pwrite

\* The cell that is i bytes after pread; beyond the end only a ring that
\* wrapped continues at the beginning.
Cell(pread, i, overlap) ==
  IF pread + i < BufLen THEN recv_buf[pread + i]
  ELSE IF overlap = 1 THEN recv_buf[(pread + i) % BufLen] ELSE Garbage

\* Between its last two stores uart_read has moved prxread to the beginning
\* of recv_buf and not yet cleared the flag.
Flag == IF pc = "clear" THEN 0 ELSE rxoverlap

Content ==
  [i \in 1 .. Unread(prxread, prxwrite, Flag) |-> Cell(prxread, i - 1, Flag)]

\* The bytes prxread has not passed.
Backlog == arrived - gone

-----------------------------------------------------------------------------
\* "nowrap": a byte that arrives while uart_read runs does not fill the last
\* cell of recv_buf; "any": whenever it likes.
MayInterrupt ==
  Preempt = "any" \/ pc = "idle" \/ prxwrite + 1 < BufLen

\* How far the interrupt pushes prxread.
Pushed == (prxread' - prxread) % BufLen

\* Mutant: prxwrite restarts one cell too late.
IrqOffByOne ==
  /\ arrived < MaxBytes /\ Backlog < MaxBacklog /\ MayInterrupt
  /\ arrived' = arrived + 1
  /\ recv_buf' = [recv_buf EXCEPT ![prxwrite % BufLen] = arrived']
  /\ prxwrite' = IF prxwrite + 1 > BufLen THEN 0 ELSE prxwrite + 1
  /\ rxoverlap' = IF prxwrite' = 0 THEN 1 ELSE rxoverlap
  /\ prxread' = IF rxoverlap' = 1 /\ prxwrite' + 1 > prxread THEN prxwrite' ELSE prxread
  /\ gone' = gone + Pushed
  /\ UNCHANGED readVars

\* uart_irq: store the byte, wrap, and push prxread ahead of an overrun.
Irq ==
  /\ arrived < MaxBytes /\ Backlog < MaxBacklog /\ MayInterrupt
  /\ arrived' = arrived + 1
  /\ recv_buf' = [recv_buf EXCEPT ![prxwrite] = arrived']
  /\ prxwrite' = (prxwrite + 1) % BufLen
  /\ rxoverlap' = IF prxwrite' = 0 THEN 1 ELSE rxoverlap
  /\ prxread' = IF rxoverlap' = 1 /\ prxwrite' + 1 > prxread THEN prxwrite' ELSE prxread
  /\ gone' = gone + Pushed
  /\ UNCHANGED readVars

-----------------------------------------------------------------------------
(***************************************************************************)
(* uart_read.                                                              *)
(***************************************************************************)
RGoto(from, to) == pc = from /\ pc' = to

\* pread_local = u->prxread.
ReadIndex ==
  /\ RGoto("idle", "limit")
  /\ pread_local' = prxread
  /\ UNCHANGED <<ringVars, arrived, pwrite_local, read_bytes, through, chunk, returned, gone>>

\* pwrite_local = u->prxwrite.
ReadLimit ==
  /\ RGoto("limit", "count")
  /\ pwrite_local' = prxwrite
  /\ UNCHANGED <<ringVars, arrived, pread_local, read_bytes, through, chunk, returned, gone>>

\* Calculate how much was not read, ReadSize at most.  The comparison with
\* size is unsigned: a negative count is more than size.
ReadCount ==
  /\ RGoto("count", "test")
  /\ read_bytes' = LET n == Unread(pread_local, pwrite_local, rxoverlap)
                   IN IF n < 0 \/ ReadSize < n THEN ReadSize ELSE n
  /\ UNCHANGED <<ringVars, arrived, pread_local, pwrite_local, through, chunk, returned, gone>>

\* if(!u->rxoverlap): the flag is read again, to copy in one piece or two.
ReadTest ==
  /\ RGoto("test", "copy")
  /\ through' = rxoverlap
  /\ UNCHANGED <<ringVars, arrived, pread_local, pwrite_local, read_bytes, chunk, returned, gone>>

\* Mutant: memcpy does not continue at the beginning of recv_buf.
ReadCopyStraight ==
  /\ RGoto("copy", "copy")
  /\ Len(chunk) < read_bytes
  /\ chunk' = Append(chunk, Cell(pread_local, Len(chunk), 0))
  /\ UNCHANGED <<ringVars, arrived, localVars, returned, gone>>

\* memcpy, a byte.
ReadCopy ==
  /\ RGoto("copy", "copy")
  /\ Len(chunk) < read_bytes
  /\ chunk' = Append(chunk, Cell(pread_local, Len(chunk), through))
  /\ UNCHANGED <<ringVars, arrived, localVars, returned, gone>>

\* Store prxread and, unless it wrapped, return the bytes.
ReadAdvance ==
  /\ RGoto("copy", IF pread_local + read_bytes >= BufLen THEN "clear" ELSE "idle")
  /\ Len(chunk) = read_bytes
  /\ prxread' = (pread_local + read_bytes) % BufLen
  /\ returned' = returned \o chunk /\ chunk' = <<>>
  /\ gone' = gone + read_bytes
  /\ UNCHANGED <<recv_buf, prxwrite, rxoverlap, arrived, localVars>>

\* Mutant: rxoverlap stays set when prxread wraps.
ReadClearSticky ==
  /\ RGoto("clear", "idle")
  /\ UNCHANGED <<ringVars, arrived, localVars, chunk, returned, gone>>

\* prxread wrapped: clear rxoverlap, a store of its own.
ReadClear ==
  /\ RGoto("clear", "idle")
  /\ rxoverlap' = 0
  /\ UNCHANGED <<recv_buf, prxread, prxwrite, arrived, localVars, chunk, returned, gone>>

Read ==
  \/ ReadIndex \/ ReadLimit \/ ReadCount \/ ReadTest
  \/ ReadCopy \/ ReadAdvance \/ ReadClear

Next == Irq \/ Read

Spec == Init /\ [][Next]_vars

-----------------------------------------------------------------------------
(***************************************************************************)
(* Properties.                                                             *)
(***************************************************************************)

\* The indices stay inside recv_buf, and a read copies no more than rxbuf has
\* room for.
TypeOK ==
  /\ recv_buf \in [0 .. BufLen - 1 -> Nat \cup {Garbage}]
  /\ prxread \in 0 .. BufLen - 1 /\ prxwrite \in 0 .. BufLen - 1
  /\ rxoverlap \in {0, 1}
  /\ arrived \in Nat /\ gone \in Nat
  /\ pc \in {"idle", "limit", "count", "test", "copy", "clear"}
  /\ pread_local \in 0 .. BufLen - 1 /\ pwrite_local \in 0 .. BufLen - 1
  /\ read_bytes \in 0 .. ReadSize /\ through \in {0, 1}
  /\ chunk \in Seq(Nat \cup {Garbage}) 
  /\ Len(chunk) <= IF pc = "copy" THEN read_bytes ELSE 0
  /\ returned \in Seq(Nat \cup {Garbage})

Queue == INSTANCE ByteQueue WITH
  Bytes <- 1 .. MaxBytes, queue <- Content, out <- returned, finishing <- pc = "clear"

\* As long as the backlog fits in the ring, uart_read returns the bytes
\* received in order and none of them twice, across any number of wraps; and
\* it returns each of them, but for those that are unread when a byte arrives
\* between the two stores that end a read past the end of recv_buf
\* (prxread = ..., rxoverlap = 0): that byte takes them with it.
ImplementsByteQueue == Queue!Spec

\* The two indices and the flag tell a full ring from an empty one: between
\* reads they count every byte that prxread has not passed.
CountsBacklog ==
  pc = "idle" => Unread(prxread, prxwrite, rxoverlap) = Backlog
=============================================================================
