----------------------------- MODULE MCFraming ------------------------------
(***************************************************************************)
(* Streams for Framing: up to three pieces, of frames whose answers fit,   *)
(* a frame with an unknown empty item, whose answer does not, a frame of   *)
(* the MCU's update, the tail of a frame, and a stray 0x7e; a frame of     *)
(* unknown empty items at the end of a full read, whose answer goes 3      *)
(* bytes past rxbuf; and a frame behind as many stray bytes, which is      *)
(* found again after it was answered, because the answer has the same sum. *)
(***************************************************************************)
EXTENDS Framing

\* A frame with the given command and items.
Frame(infor) ==
  LET b == <<STC, 0, 0, 0, 0, 17, 17, 17, 17, 1, Len(infor)>> \o infor
  IN Append(b, Checksum(b))

OnOff == Frame(<<7, 18, 192, 2, 1, 1>>)
Date == Frame(<<1, 17, 192, 0>>)
Empty == Frame(<<>>)
Unknown == Frame(<<1, 85, 85, 0>>)
Refused == Frame(<<1, 85, 85, 0, 85, 85, 0>>)
Update == Frame(<<5, 1, 0, 1, 0, 0, 0>>)
Cut == Frame(<<0, 18, 192, 9, 126>>)

TailOfOne == Bytes(OnOff, 3, 15)
Noise == Bytes(OnOff, 1, 17) \o <<0>>
SameSum == Frame(<<1, 85, 85, 2, 100, 32>>)

MCStreams ==
  {a \o b : a \in {OnOff, Date, Unknown, TailOfOne, <<STC>>}, b \in {OnOff, Empty, Update}} \cup
  {OnOff \o Date \o Empty, Cut \o Unknown \o OnOff, TailOfOne \o Date \o Empty, Noise \o SameSum,
   TailOfOne \o Empty \o Refused}

\* Two frames that follow each other, for the cut between two reads.
MCTwoFrames == {Date \o OnOff}
=============================================================================
