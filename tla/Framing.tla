------------------------------- MODULE Framing -------------------------------
(***************************************************************************)
(* From bytes to handled frames: the receive loop of uart_socket_example,  *)
(* get_smart_frame and set_parameter (uart_socket.c, protocol.c).          *)
(*                                                                         *)
(* A frame is 0x7e, two addresses, a sequence number, the length of what   *)
(* follows, a command with its items, and a checksum.  An item is a data   *)
(* identifier of two bytes, a control byte with the length, and the data.  *)
(* What one uart_read returned is parsed frame by frame.  Each frame is    *)
(* handled where it lies in rxbuf: set_parameter writes its answer over    *)
(* the frame, and an error answer (5 bytes) is longer than an item with    *)
(* less than 2 bytes of data, so that it may reach into the next frame,    *)
(* and past what was read: rxbuf here is the part of it that uart_read     *)
(* filled, the only one that is read again, and reach how far it was       *)
(* written.                                                                *)
(*                                                                         *)
(* Positions in a buffer count from 0 as in the code; the byte at p of the *)
(* sequence b is b[p + 1].                                                 *)
(***************************************************************************)
EXTENDS Integers, Sequences, SequencesExt, FiniteSetsExt

CONSTANTS
  FrameHead, \* SHS_FRAME_HEAD: the bytes of a frame before infor
  ReadSize,  \* sizeof(rxbuf)
  Streams    \* what the MCU may send, as sequences of bytes

ASSUME FramingAssumption ==
  /\ FrameHead \in Nat /\ FrameHead >= 5     \* the five fields of a head
  /\ ReadSize \in Nat \ {0}
  /\ \A s \in Streams : s \in Seq(0 .. 255)

VARIABLES
  stream,    \* what the MCU sends
  pos,       \* how much of it uart_read has returned
  rxbuf,     \* what the last uart_read returned, and the answers over it
  reach,     \* where the furthest byte an answer wrote since then ends
  raw,       \* history: the same without the answers
  frame_len, \* how much of rxbuf the loop takes for done
  found,     \* where in rxbuf the frame to handle starts
  pc,        \* "select", "parse" or "handle"
  handled,   \* history: where in stream the handled frames began, in order
  before,    \* history: how many were handled before the last uart_read
  altered    \* history: which of them were no longer what was read: an answer
             \* to an earlier one had been written into them

vars == <<stream, pos, rxbuf, reach, raw, frame_len, found, pc, handled, before, altered>>

-----------------------------------------------------------------------------
STC == 126                                        \* 0x7e
Close == <<99, 108, 111, 115, 101>>               \* "close"
NULL == -1

Byte(b, p) == b[p + 1]
Bytes(b, p, n) == SubSeq(b, p + 1, p + n)
Checksum(b) ==
  LET sum[k \in 0 .. Len(b)] == IF k = 0 THEN 0 ELSE (sum[k - 1] + b[k]) % 256
  IN sum[Len(b)]

\* What the frame at p of b says of its own length, and its length with head
\* and checksum.
Length(b, p) == Byte(b, p + FrameHead - 1)
FrameSize(b, p) == FrameHead + Length(b, p) + 1

\* Whether a whole frame with the right checksum starts at p of the first n
\* bytes of b.
IsFrame(b, n, p) ==
  /\ Byte(b, p) = STC
  /\ p + FrameSize(b, p) <= n
  /\ Byte(b, p + FrameHead + Length(b, p)) = Checksum(Bytes(b, p, FrameHead + Length(b, p)))

\* The least of the places, NULL when there is none.
First(places) == IF places = {} THEN NULL ELSE Min(places)

\* Mutant: the checksum is not compared.
get_smart_frameNoSum(b) ==
  LET n == Len(b) % 256
  IN First({p \in 0 .. n - FrameHead : Byte(b, p) = STC /\ p + FrameSize(b, p) <= n})

\* get_smart_frame: the first frame in b, whose length arrives in a uint8.
get_smart_frame(b) ==
  LET n == Len(b) % 256
  IN First({p \in 0 .. n - FrameHead : IsFrame(b, n, p)})

-----------------------------------------------------------------------------
(***************************************************************************)
(* set_parameter.                                                          *)
(***************************************************************************)

\* The identifiers with a write function in func_items, and the length of data
\* each insists on (-1: any).
Written ==
  [d \in {<<16, 144>>, <<0, 148>>, <<17, 181>>, <<33, 181>>, <<48, 181>>,
          <<63, 181>>, <<17, 192>>, <<18, 192>>, <<5, 192>>, <<36, 182>>} |->
    CASE d \in {<<16, 144>>, <<17, 181>>} -> 5    \* set_metqua, set_thrvol
      [] d = <<0, 148>> -> 7                      \* set_hisdata
      [] d \in {<<33, 181>>, <<48, 181>>} -> 4    \* set_thrcur, set_thrpow
      [] d = <<63, 181>> -> 10                    \* set_meter
      [] d = <<18, 192>> -> 2                     \* set_onoff
      [] OTHER -> -1]                             \* get_time, reset, alarm

\* NO_ERR, DATA_ERR or DID_ERR.
Answer(did, n) == IF did \notin DOMAIN Written THEN 4
                  ELSE IF Written[did] \in {-1, n} THEN 0 ELSE 3

\* b with the bytes of s written from p on.  Nothing stops the code at the end
\* of b; what it writes past it is not read again, and Item counts how far.
Overwrite(b, p, s) ==
  [k \in 1 .. Len(b) |-> IF k - 1 \in p .. (p + Len(s) - 1) THEN s[k - p] ELSE b[k]]

\* An error answer to the item at p: a length of 2 with bit 7 set, and the error.
WithError(b, p, e) == Overwrite(b, p + 2, <<130, e, 0>>)

Further(x, y) == IF x < y THEN y ELSE x

\* One item of src, the copy of the frame's data: the item is copied to where
\* the answer goes, and an error answer written over its length and data.
Item(o, src) ==
  LET n == Byte(src, o.next + 2) % 128
      did == Bytes(src, o.next, 2)
      copied == Overwrite(o.b, o.p, Bytes(src, o.next, 3 + n))
      end == o.next + 3 + n
  IN CASE end > Len(src) ->                                  \* LEN_ERR, break
            [b |-> WithError(Overwrite(o.b, o.p, did), o.p, 1), p |-> o.p + 5,
             next |-> Len(src), top |-> Further(o.top, o.p + 5)]
       [] end <= Len(src) /\ Answer(did, n) = 0 ->
            [b |-> copied, p |-> o.p + 3 + n, next |-> end, top |-> Further(o.top, o.p + 3 + n)]
       [] OTHER ->
            [b |-> WithError(copied, o.p, Answer(did, n)), p |-> o.p + 5, next |-> end,
             top |-> Further(Further(o.top, o.p + 3 + n), o.p + 5)]

\* The n bytes of data at p of b are answered in place: after k items.
Items(b, p, n) ==
  LET src == Bytes(b, p, n)
      Next3(o) == IF n - o.next < 3 THEN o ELSE Item(o, src)
      after[k \in 0 .. n \div 3] ==
        IF k = 0 THEN [b |-> b, p |-> p, next |-> 0, top |-> p] ELSE Next3(after[k - 1])
  IN after

set_parameter(b, p, n) == Items(b, p, n)[n \div 3].b

\* Where the furthest byte it wrote ends.
AnswerTop(b, p, n) == Items(b, p, n)[n \div 3].top

\* CMD_SET, CMD_READ, CMD_NOTIFY and CMD_ALARM come to set_parameter; CMD_UPDATE
\* (5) and the others leave the frame as it is.
SetCommands == {7, 2, 1, 0}

IsSet(b, p) == Length(b, p) >= 1 /\ Byte(b, p + FrameHead) % 8 \in SetCommands

\* frame_handle and remote_frame_opt on the frame at p of b; no answer is sent.
frame_handle(b, p) ==
  IF IsSet(b, p) THEN set_parameter(b, p + FrameHead + 1, Length(b, p) - 1) ELSE b

FrameTop(b, p) ==
  IF IsSet(b, p) THEN AnswerTop(b, p + FrameHead + 1, Length(b, p) - 1) ELSE 0

-----------------------------------------------------------------------------
Init ==
  /\ stream \in Streams /\ pos = 0
  /\ rxbuf = <<>> /\ reach = 0 /\ raw = <<>> /\ frame_len = 0 /\ found = NULL
  /\ pc = "select" /\ handled = <<>> /\ before = 0 /\ altered = {}

\* select() and uart_read: some of what has come in, all of it if the MCU paused.
Read ==
  /\ pc = "select" /\ pos < Len(stream)
  /\ \E n \in 1 .. ReadSize :
       /\ pos + n <= Len(stream)
       /\ raw' = Bytes(stream, pos, n)
       /\ pos' = pos + n
  /\ rxbuf' = raw' /\ reach' = 0 /\ frame_len' = 0 /\ pc' = "parse" /\ before' = Len(handled)
  /\ UNCHANGED <<stream, found, handled, altered>>

Unparsed == Bytes(rxbuf, frame_len, Len(rxbuf) - frame_len)

\* Mutant: the loop does not end when no frame is left.
ParseForever ==
  /\ pc = "parse"
  /\ LET p == get_smart_frame(Unparsed)
     IN IF p = NULL THEN UNCHANGED <<pc, found>>
                    ELSE pc' = "handle" /\ found' = frame_len + p
  /\ UNCHANGED <<stream, pos, rxbuf, reach, raw, frame_len, handled, before, altered>>

\* while (read_len > frame_len): the next frame, or NULL, which drops the rest.
Parse ==
  /\ pc = "parse"
  /\ LET p == IF frame_len < Len(rxbuf) THEN get_smart_frame(Unparsed) ELSE NULL
     IN IF p = NULL THEN pc' = "select" /\ found' = NULL
                    ELSE pc' = "handle" /\ found' = frame_len + p
  /\ UNCHANGED <<stream, pos, rxbuf, reach, raw, frame_len, handled, before, altered>>

\* The frame at found joins the handled ones.
AddHandled ==
  LET n == FrameSize(rxbuf, found)
  IN /\ handled' = Append(handled, (pos - Len(rxbuf)) + found)
     /\ altered' = altered \cup
          (IF Bytes(rxbuf, found, n) = Bytes(raw, found, n) THEN {} ELSE {Len(handled) + 1})

\* Mutant: the loop goes one byte too far.
HandleTooFar ==
  /\ pc = "handle"
  /\ frame_len' = frame_len + FrameSize(rxbuf, found) + 1
  /\ rxbuf' = frame_handle(rxbuf, found)
  /\ reach' = Further(reach, FrameTop(rxbuf, found))
  /\ AddHandled
  /\ pc' = "parse" /\ found' = NULL
  /\ UNCHANGED <<stream, pos, raw, before>>

\* The loop goes on by the length of the frame, not by what was skipped to find
\* it, and ends when the buffer begins with "close".
Handle ==
  /\ pc = "handle"
  /\ frame_len' = frame_len + FrameSize(rxbuf, found)
  /\ rxbuf' = frame_handle(rxbuf, found)
  /\ reach' = Further(reach, FrameTop(rxbuf, found))
  /\ AddHandled
  /\ pc' = IF Bytes(rxbuf', 0, 5) = Close THEN "select" ELSE "parse"
  /\ found' = NULL
  /\ UNCHANGED <<stream, pos, raw, before>>

Next == Read \/ Parse \/ Handle

Spec == Init /\ [][Next]_vars

\* The receive task is scheduled again and again.
FairSpec == Spec /\ WF_vars(Next)

-----------------------------------------------------------------------------
\* Where frames start in the stream, if it is nothing but whole frames: l, with
\* the place after the frame at its last place.
WithNext(l, s) ==
  LET e == Last(l)
  IN IF e + FrameHead <= Len(s) /\ IsFrame(s, Len(s), e)
     THEN Append(l, e + FrameSize(s, e)) ELSE l

Starts(s) ==
  LET most == Len(s) \div FrameHead
      at[k \in 0 .. most] == IF k = 0 THEN <<0>> ELSE WithNext(at[k - 1], s)
  IN at[most]

\* The stream is whole frames, and no answer is longer than the frame it answers.
WellFormed(s) ==
  /\ Last(Starts(s)) = Len(s)
  /\ \A k \in 1 .. Len(Starts(s)) - 1 :
       LET after == Starts(s)[k + 1]
       IN Bytes(frame_handle(s, Starts(s)[k]), after, Len(s) - after) =
            Bytes(s, after, Len(s) - after)

\* How far past what was read an answer may go: a frame holds 254 bytes of items,
\* and an answer of 5 bytes replaces 3 of them at least.
MaxPast == 168

\* Every variable keeps to its values, the loop never takes more for done than
\* was read, and what set_parameter writes ends no further than MaxPast bytes
\* after what was read: after a full read, as far past the end of rxbuf.
TypeOK ==
  /\ stream \in Streams /\ pos \in 0 .. Len(stream)
  /\ {rxbuf, raw} \subseteq Seq(0 .. 255)
  /\ Len(rxbuf) = Len(raw) /\ Len(raw) <= ReadSize
  /\ frame_len \in 0 .. Len(rxbuf) /\ reach \in 0 .. Len(raw) + MaxPast
  /\ pc \in {"select", "parse", "handle"}
  /\ found \in {NULL} \cup 0 .. Len(rxbuf)
  /\ handled \in Seq(Nat) /\ before \in 0 .. Len(handled)
  /\ altered \subseteq 1 .. Len(handled)

\* Only what the MCU sent as a frame, checksum and all, is ever handled, wherever
\* the reads cut the stream and whatever was skipped to find it: except where an
\* answer to an earlier frame of the same read was written into the frame.
HandledWasSent ==
  \A k \in 1 .. Len(handled) : k \notin altered =>
    LET h == handled[k]
    IN h + FrameHead <= Len(stream) /\ IsFrame(stream, Len(stream), h)

\* Of a read of fewer than 256 bytes that is nothing but whole frames, each is
\* handled, once, and in the order they came.
FramesInOrder ==
  (pc = "select" /\ Len(raw) < 256 /\ WellFormed(stream)) =>
    LET starts == Starts(stream)
    IN \A i, j \in 1 .. Len(starts) :
         (starts[i] = pos - Len(raw) /\ starts[j] = pos) =>
           SubSeq(handled, before + 1, Len(handled)) = SubSeq(starts, i, j - 1)

\* The loop over one read comes to an end, whatever the bytes.
LoopEnds == pc # "select" ~> pc = "select"

\* protocol.c:30, on too few bytes for a head: "wait to receive the length".  So
\* once everything was read, every frame of a stream of whole frames has been
\* handled.  (The caller does not wait: it forgets what it could not parse.)
WaitsForLength ==
  (pc = "select" /\ pos = Len(stream) /\ WellFormed(stream)) =>
    \A k \in 1 .. Len(Starts(stream)) - 1 : Starts(stream)[k] \in Range(handled)
=============================================================================
