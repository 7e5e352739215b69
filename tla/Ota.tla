--------------------------------- MODULE Ota ---------------------------------
(***************************************************************************)
(* Updates of the Wi-Fi module's and of the MCU's firmware.                *)
(*                                                                         *)
(* The phone writes an update to a characteristic, message by message:     *)
(* Begin erases the place in flash, each piece is written where the last   *)
(* one ended, End marks the Wi-Fi image as the one to start and restarts   *)
(* the module (ES_phytrex_update_ota_amazon_cloud_task), or offers the MCU *)
(* its image (ES_mcu_ota_task).  The two handlers tell the three kinds by  *)
(* the length of the message alone, and keep the place of the next piece   *)
(* in a static that only a restart sets back.  The MCU takes the offer and *)
(* fetches the image block by block over the serial line                   *)
(* (update_frame_opt).                                                     *)
(*                                                                         *)
(* The phytrex_ functions are a library: an address that cannot be read    *)
(* ends a Wi-Fi Begin before it erases, one that cannot be written ends a  *)
(* Wi-Fi End before the restart, when the image is marked already; neither *)
(* is told to the phone.  flash_stream_write returns 1 whatever happens    *)
(* (flash_api.c 235-330), so the MCU's pieces have no such outcome.        *)
(*                                                                         *)
(* An image is a row of units: its header, then its blocks.  A piece has   *)
(* whole units.  The phone may give up and begin another download at any   *)
(* time, and goes on with its download when the module restarts.           *)
(***************************************************************************)
EXTENDS Integers

CONSTANTS
  Versions,    \* of the firmware
  Length,      \* units of each version's image
  Room,        \* units of the place for an image
  Piece,       \* units of a piece; the last one has the rest
  BeginUnits,  \* units in a message as long as Begin
  EndUnits,    \* units in a message as long as End
  NoVersion, Erased, Mixed, None,
  MaxBegins,   \* bound: downloads begun
  MaxRestarts  \* bound: restarts but for an update

Places == {"wifi", "mcu"}

ASSUME OtaAssumption ==
  /\ Room \in Nat /\ Length \in [Versions -> 2 .. Room]
  /\ {Piece, BeginUnits, EndUnits} \subseteq Nat \ {0}
  /\ NoVersion \notin Versions /\ None \notin Versions \cup {NoVersion}
  /\ None \notin [to : Places, v : Versions, sent : Nat]
  /\ {Erased, Mixed} \cap (Versions \X Nat) = {}
  /\ {MaxBegins, MaxRestarts} \subseteq Nat

VARIABLES
  phone,     \* the phone's download: to a place, of version v, so much sent
  begins, restarts,  \* those the bounds still allow
  size,      \* the statics resource_size and size
  aimed,     \* has Begin set NewImg2Addr since the module started?
  flash,     \* what stands in the two places, unit by unit
  low,       \* is what stands at address 0 of the flash intact?
  erasing,   \* the units of phone's place that Begin has still to erase
  running,   \* the version the module runs; NoVersion: it cannot start
  kept,      \* the version in the other of the Wi-Fi images' two places
  marked,    \* is flash["wifi"] marked to start, and not the other one?
  header,    \* the version each task read for creatFristPacket, or None
  tmp,       \* mcu_ota_tmp.ver
  line,      \* the frame on its way to the MCU, or None
  mcu,       \* the MCU: the version it was offered, the blocks it has, and
             \* whether each of them is that version's
  ready,     \* history: the version the MCU's place holds since its End
  stale,     \* history: was the MCU's offer of something else than ready?
  strayed    \* history: may the place's present download go wrong?

phoneVars == <<phone, begins, restarts>>
placeVars == <<erasing, kept, marked>>
moduleVars == <<size, aimed, flash, low, running, placeVars>>
serveVars == <<header, tmp, line>>
historyVars == <<ready, stale, strayed>>
vars == <<phoneVars, moduleVars, serveVars, mcu, historyVars>>

-----------------------------------------------------------------------------
Tasks == {"server", "rx"}

Whole(f, v) == \A i \in 1 .. Length[v] : f[i] = <<v, i>>

\* The version a place's header names.
HeaderIn(f) == IF \E v \in Versions : f[1] = <<v, 1>> THEN f[1][1] ELSE NoVersion

\* The image in the Wi-Fi place, and what starts when that place is the
\* marked one (m) and address 0 intact (l).
Image == IF \E v \in Versions : Whole(flash["wifi"], v)
         THEN CHOOSE v \in Versions : Whole(flash["wifi"], v) ELSE NoVersion
Started(m, l) == IF ~l THEN NoVersion ELSE IF m THEN Image ELSE kept
Starts == Started(marked, low)

Rest == Length[phone.v] - phone.sent
Count == IF Rest < Piece THEN Rest ELSE Piece

\* Programming clears bits only; what goes beyond the place is lost.
Program(f, first, n) ==
  [i \in 1 .. Room |->
     IF i \notin first + 1 .. first + n THEN f[i]
     ELSE IF f[i] = Erased THEN <<phone.v, phone.sent + i - first>> ELSE Mixed]

Init ==
  /\ phone = None /\ begins = MaxBegins /\ restarts = MaxRestarts
  /\ size = [t \in Places |-> 0] /\ aimed = FALSE
  /\ flash = [t \in Places |-> [i \in 1 .. Room |-> Mixed]]
  /\ low = TRUE /\ running \in Versions
  /\ erasing = 0 /\ kept = running /\ marked = FALSE
  /\ header = [k \in Tasks |-> None] /\ tmp = NoVersion /\ line = None
  /\ mcu = [v |-> NoVersion, has |-> 0, good |-> TRUE]
  /\ ready = NoVersion /\ stale = FALSE
  /\ strayed = [t \in Places |-> FALSE]

-----------------------------------------------------------------------------
(* What the handlers do with a message.                                    *)
\* The module comes up: the statics are as they were compiled.
Up ==
  /\ size' = [t \in Places |-> 0] /\ aimed' = FALSE /\ erasing' = 0
  /\ header' = [k \in Tasks |-> None] /\ tmp' = NoVersion /\ line' = None

\* When the Wi-Fi place is the marked one (m), the other is written next.
Spare(m) == IF m THEN [flash EXCEPT !["wifi"] = [i \in 1 .. Room |-> Mixed]] ELSE flash

Reset(m, l) ==
  /\ running' = Started(m, l) /\ kept' = Started(m, l) /\ marked' = FALSE
  /\ flash' = Spare(m) /\ low' = l
  /\ Up

\* Begin finds the place to be written, the one that is not marked to start.
Erase(t) ==
  /\ erasing' = Room
  /\ IF t = "wifi"
     THEN /\ aimed' = TRUE /\ marked' = FALSE
          /\ kept' = (IF marked THEN Image ELSE kept) /\ flash' = Spare(marked)
          /\ UNCHANGED <<ready, stale>>
     ELSE ready' = NoVersion /\ stale' = TRUE /\ UNCHANGED <<aimed, marked, kept, flash>>
  /\ UNCHANGED <<size, low, running, serveVars>>

\* The address cannot be read.
EraseNot(t) == t = "wifi" /\ UNCHANGED <<moduleVars, serveVars, ready, stale>>

\* The loop goes on; the receive task runs meanwhile.
EraseUnit ==
  /\ erasing > 0 /\ erasing' = erasing - 1
  /\ flash' = [flash EXCEPT ![phone.to][Room - erasing'] = Erased]
  /\ UNCHANGED <<phoneVars, size, aimed, low, running, kept, marked, serveVars>>
  /\ UNCHANGED <<mcu, historyVars>>

\* Mutant: the two bytes of length are counted as well.
WriteAll(t, n) ==
  /\ IF t = "wifi" /\ ~aimed
     THEN low' = FALSE /\ UNCHANGED flash
     ELSE flash' = [flash EXCEPT ![t] = Program(@, size[t], n)] /\ UNCHANGED low
  /\ size' = [size EXCEPT ![t] = @ + n + 1]
  /\ UNCHANGED <<aimed, running, placeVars, serveVars, ready, stale>>

Write(t, n) ==
  /\ IF t = "wifi" /\ ~aimed
     THEN low' = FALSE /\ UNCHANGED flash
     ELSE flash' = [flash EXCEPT ![t] = Program(@, size[t], n)] /\ UNCHANGED low
  /\ size' = [size EXCEPT ![t] = @ + n]
  /\ UNCHANGED <<aimed, running, placeVars, serveVars, ready, stale>>

\* WriteSwapSig marks the image, and the module is restarted; or the address
\* cannot be written, and the module goes on.
Swap ==
  LET m == marked \/ aimed
      l == low /\ aimed
  IN /\ \/ Reset(m, l)
        \/ /\ marked' = m /\ low' = l
           /\ UNCHANGED <<size, aimed, flash, running, erasing, kept, serveVars>>
     /\ UNCHANGED <<ready, stale>>

\* creatFristPacket, first part.
Offer ==
  /\ header' = [header EXCEPT !["server"] = HeaderIn(flash["mcu"])]
  /\ ready' = IF strayed'["mcu"] THEN NoVersion ELSE phone.v
  /\ UNCHANGED <<moduleVars, tmp, line, stale>>

Finish(t) == IF t = "wifi" THEN Swap ELSE Offer

-----------------------------------------------------------------------------
(* The phone.                                                              *)
Serving == running # NoVersion /\ erasing = 0 /\ header["server"] = None

Begin(t, v) ==
  /\ Serving /\ begins > 0 /\ begins' = begins - 1
  /\ phone' = [to |-> t, v |-> v, sent |-> 0]
  /\ \/ /\ Erase(t)
        /\ strayed' = [strayed EXCEPT
             ![t] = size[t] # 0 \/ (t = "wifi" /\ Starts = NoVersion)]
     \/ EraseNot(t) /\ strayed' = [strayed EXCEPT ![t] = TRUE]
  /\ UNCHANGED <<restarts, mcu>>

SendPiece ==
  /\ Serving /\ phone # None /\ Rest > 0
  /\ phone' = [phone EXCEPT !.sent = @ + Count]
  /\ strayed' = IF Count \in {BeginUnits, EndUnits}
                THEN [strayed EXCEPT ![phone.to] = TRUE] ELSE strayed
  /\ CASE Count = BeginUnits -> Erase(phone.to) \/ EraseNot(phone.to)
       [] Count = EndUnits -> Finish(phone.to)
       [] OTHER -> Write(phone.to, Count)
  /\ UNCHANGED <<begins, restarts, mcu>>

SendEnd ==
  /\ Serving /\ phone # None /\ Rest = 0
  /\ phone' = None /\ UNCHANGED <<begins, restarts, mcu, strayed>>
  /\ Finish(phone.to)

-----------------------------------------------------------------------------
(* Serving the MCU.                                                        *)
\* Mutant: the packet is sent although no header was read.
FirstPacketAnyhow(k) ==
  /\ running # NoVersion /\ line = None
  /\ tmp' = header[k] /\ line' = [v |-> header[k], seq |-> 0, unit |-> Mixed]
  /\ header' = [header EXCEPT ![k] = None]
  /\ UNCHANGED <<phoneVars, moduleVars, mcu, historyVars>>

\* creatFristPacket, second part: the version is kept, the packet sent.
FirstPacket(k) ==
  /\ running # NoVersion /\ header[k] # None /\ line = None
  /\ tmp' = header[k] /\ line' = [v |-> header[k], seq |-> 0, unit |-> Mixed]
  /\ header' = [header EXCEPT ![k] = None]
  /\ UNCHANGED <<phoneVars, moduleVars, mcu, historyVars>>

\* The MCU asks for the offer (again), or for a block up to its next one.
AskFirst ==
  /\ running # NoVersion /\ header["rx"] = None
  /\ header' = [header EXCEPT !["rx"] = HeaderIn(flash["mcu"])]
  /\ UNCHANGED <<phoneVars, moduleVars, tmp, line, mcu, historyVars>>

\* Mutant: blocks are counted from 0.
AskBlockFromZero(seq) ==
  /\ running # NoVersion /\ header["rx"] = None /\ line = None
  /\ mcu.v \in Versions /\ seq \in 1 .. mcu.has + 1 /\ seq < Length[mcu.v]
  /\ line' = [v |-> tmp, seq |-> seq, unit |-> flash["mcu"][seq]]
  /\ UNCHANGED <<phoneVars, moduleVars, header, tmp, mcu, historyVars>>

AskBlock(seq) ==
  /\ running # NoVersion /\ header["rx"] = None /\ line = None
  /\ mcu.v \in Versions /\ seq \in 1 .. mcu.has + 1 /\ seq < Length[mcu.v]
  /\ line' = [v |-> tmp, seq |-> seq, unit |-> flash["mcu"][seq + 1]]
  /\ UNCHANGED <<phoneVars, moduleVars, header, tmp, mcu, historyVars>>

\* A block counts only under the version of the offer.
McuReceives ==
  /\ line # None /\ line' = None
  /\ IF line.seq = 0
     THEN mcu' = [v |-> line.v, has |-> 0, good |-> TRUE] /\ stale' = (line.v # ready)
     ELSE /\ mcu' = IF line.v = mcu.v
                    THEN [v |-> mcu.v,
                          has |-> IF line.seq > mcu.has THEN line.seq ELSE mcu.has,
                          good |-> mcu.good /\ line.unit = <<mcu.v, line.seq + 1>>]
                    ELSE mcu
          /\ UNCHANGED stale
  /\ UNCHANGED <<phoneVars, moduleVars, header, tmp, ready, strayed>>

Lost ==
  /\ line # None /\ line' = None
  /\ UNCHANGED <<phoneVars, moduleVars, header, tmp, mcu, historyVars>>

Restart ==
  /\ running # NoVersion /\ restarts > 0 /\ restarts' = restarts - 1
  /\ Reset(marked, low)
  /\ strayed' = IF phone = None THEN strayed ELSE [strayed EXCEPT ![phone.to] = TRUE]
  /\ UNCHANGED <<phone, begins, mcu, ready, stale>>

Next ==
  \/ \E t \in Places, v \in Versions : Begin(t, v)
  \/ EraseUnit \/ SendPiece \/ SendEnd
  \/ \E k \in Tasks : FirstPacket(k)
  \/ AskFirst \/ (\E seq \in 1 .. Room : AskBlock(seq))
  \/ McuReceives \/ Lost \/ Restart

Spec == Init /\ [][Next]_vars

-----------------------------------------------------------------------------
Cells == {Erased, Mixed} \cup (Versions \X (1 .. Room))

TypeOK ==
  /\ phone = None \/
       /\ phone \in [to : Places, v : Versions, sent : 0 .. Room]
       /\ phone.sent <= Length[phone.v]
  /\ begins \in 0 .. MaxBegins /\ restarts \in 0 .. MaxRestarts
  /\ size \in [Places -> Nat] /\ aimed \in BOOLEAN
  /\ flash \in [Places -> [1 .. Room -> Cells]]
  /\ low \in BOOLEAN /\ {running, kept} \subseteq Versions \cup {NoVersion}
  /\ erasing \in 0 .. Room /\ marked \in BOOLEAN
  /\ header \in [Tasks -> Versions \cup {NoVersion, None}]
  /\ tmp \in Versions \cup {NoVersion}
  /\ line \in [v : Versions \cup {NoVersion}, seq : 0 .. Room, unit : Cells] \cup {None}
  /\ mcu \in [v : Versions \cup {NoVersion}, has : 0 .. Room, good : BOOLEAN]
  /\ mcu.v \in Versions => mcu.has < Length[mcu.v]
  /\ ready \in Versions \cup {NoVersion} /\ stale \in BOOLEAN
  /\ strayed \in [Places -> BOOLEAN]

(***************************************************************************)
(* There is always an image that would start -- before, during and after   *)
(* the restart of End, and when that does not come -- unless the download  *)
(* to the Wi-Fi place may go wrong: a restart fell into it, it was not the *)
(* first since a restart, its Begin did not erase or came when nothing     *)
(* would have started, or a piece was as long as Begin or End.  Nothing    *)
(* checks what End marks, so every piece must stand in its place.          *)
(***************************************************************************)
StartsWhole == Starts = NoVersion => strayed["wifi"]

(***************************************************************************)
(* Every block the MCU took under an offer is that version's, however      *)
(* often it asks, whatever is lost, and although the module restarts and   *)
(* two tasks make offers -- unless the offer was not of the image that has *)
(* been downloaded, once, from Begin to End, and stands there still.       *)
(***************************************************************************)
McuImageIsWhole == ~stale => mcu.good
=============================================================================
