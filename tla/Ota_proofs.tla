------------------------------ MODULE Ota_proofs ------------------------------
(***************************************************************************)
(* Proofs about the updates for any versions, images, pieces and places.   *)
(***************************************************************************)
EXTENDS Ota, TLAPS

-----------------------------------------------------------------------------
(***************************************************************************)
(* The invariant.                                                          *)
(***************************************************************************)
\* A download that cannot go wrong stands in flash as far as it was sent.
InPlace(t) ==
  phone # None /\ phone.to = t /\ ~strayed[t] =>
    /\ size[t] = phone.sent
    /\ t = "wifi" => aimed /\ ~marked
    /\ \A i \in 1 .. phone.sent : flash[t][i] = <<phone.v, i>>
    /\ \A i \in 1 .. Room : i > phone.sent /\ i <= Room - erasing => flash[t][i] = Erased
    /\ erasing > 0 => phone.sent = 0

\* Only the place of a download is erased, and never the marked one.
ErasingKept == erasing > 0 => phone # None /\ (phone.to = "wifi" => ~marked)

\* The MCU's place holds what End left there until the next Begin.
ReadyWhole ==
  /\ ready # NoVersion => Whole(flash["mcu"], ready)
  /\ phone # None /\ phone.to = "mcu" => ready = NoVersion

\* An offer of something else is stale; the blocks of one that is not are right.
OfferKept == ~stale => mcu.good /\ mcu.v \in {NoVersion, ready}

LineKept ==
  line # None /\ line.seq > 0 =>
    /\ mcu.v \in Versions /\ line.seq < Length[mcu.v]
    /\ ~stale /\ line.v = mcu.v => line.unit = <<mcu.v, line.seq + 1>>

IInv ==
  /\ TypeOK /\ (\A t \in Places : InPlace(t))
  /\ ErasingKept /\ StartsWhole /\ ReadyWhole /\ OfferKept /\ LineKept

ModuleType ==
  /\ size \in [Places -> Nat] /\ aimed \in BOOLEAN
  /\ flash \in [Places -> [1 .. Room -> Cells]]
  /\ low \in BOOLEAN /\ {running, kept} \subseteq Versions \cup {NoVersion}
  /\ erasing \in 0 .. Room /\ marked \in BOOLEAN
  /\ header \in [Tasks -> Versions \cup {NoVersion, None}]
  /\ tmp \in Versions \cup {NoVersion}
  /\ line \in [v : Versions \cup {NoVersion}, seq : 0 .. Room, unit : Cells] \cup {None}
  /\ ready \in Versions \cup {NoVersion} /\ stale \in BOOLEAN

PhoneType ==
  /\ phone = None \/
       /\ phone \in [to : Places, v : Versions, sent : 0 .. Room]
       /\ phone.sent <= Length[phone.v]
  /\ begins \in 0 .. MaxBegins /\ restarts \in 0 .. MaxRestarts
  /\ strayed \in [Places -> BOOLEAN]

McuType ==
  /\ mcu \in [v : Versions \cup {NoVersion}, has : 0 .. Room, good : BOOLEAN]
  /\ mcu.v \in Versions => mcu.has < Length[mcu.v]

-----------------------------------------------------------------------------
(***************************************************************************)
(* What the handlers do keeps the types.                                   *)
(***************************************************************************)
LEMMA TypeParts == TypeOK <=> ModuleType /\ PhoneType /\ McuType
BY DEF TypeOK, ModuleType, PhoneType, McuType

LEMMA TypeNext == ModuleType' /\ PhoneType' /\ McuType' => TypeOK'
BY DEF TypeOK, ModuleType, PhoneType, McuType

LEMMA HeaderType == ASSUME NEW f PROVE HeaderIn(f) \in Versions \cup {NoVersion}
BY DEF HeaderIn

LEMMA PieceType ==
  ASSUME PhoneType, phone # None, Rest > 0
  PROVE  /\ phone \in [to : Places, v : Versions, sent : 0 .. Room]
         /\ Count \in Nat \ {0} /\ phone.sent + Count <= Length[phone.v]
         /\ Length[phone.v] \in 2 .. Room
<1>1. /\ phone \in [to : Places, v : Versions, sent : 0 .. Room]
      /\ phone.sent <= Length[phone.v] /\ Length[phone.v] \in 2 .. Room
      /\ Room \in Nat /\ Piece \in Nat \ {0}
  BY OtaAssumption DEF PhoneType
<1>2. Rest \in Nat \ {0}
  BY <1>1 DEF Rest
<1>3. Count \in Nat \ {0} /\ Count <= Rest
  BY <1>1, <1>2 DEF Count
<1>4. QED
  BY <1>1, <1>2, <1>3 DEF Rest

LEMMA ImageType == Image \in Versions \cup {NoVersion}
BY DEF Image

LEMMA SpareType ==
  ASSUME ModuleType, NEW m PROVE Spare(m) \in [Places -> [1 .. Room -> Cells]]
<1>1. [i \in 1 .. Room |-> Mixed] \in [1 .. Room -> Cells]
  BY DEF Cells
<1>2. QED
  BY <1>1 DEF Spare, ModuleType

LEMMA StartedType ==
  ASSUME ModuleType, NEW m, NEW l PROVE Started(m, l) \in Versions \cup {NoVersion}
BY ImageType DEF Started, ModuleType

\* Only the Wi-Fi place ever holds the spare one.
LEMMA SpareMcu == ASSUME ModuleType, NEW m PROVE Spare(m)["mcu"] = flash["mcu"]
BY DEF Spare, ModuleType

LEMMA EraseType ==
  ASSUME ModuleType, NEW t \in Places, Erase(t) PROVE ModuleType'
<1>1. erasing' \in 0 .. Room
  BY OtaAssumption DEF Erase
<1>2. CASE t = "wifi"
  <2>1. flash' \in [Places -> [1 .. Room -> Cells]]
    BY <1>2, SpareType DEF Erase
  <2>2. kept' \in Versions \cup {NoVersion} /\ aimed' \in BOOLEAN /\ marked' \in BOOLEAN
    BY <1>2, ImageType DEF Erase, ModuleType
  <2>3. QED
    BY <1>1, <1>2, <2>1, <2>2 DEF Erase, ModuleType, serveVars
<1>3. CASE t # "wifi"
  BY <1>1, <1>3 DEF Erase, ModuleType, serveVars
<1>4. QED
  BY <1>2, <1>3

LEMMA WriteType ==
  ASSUME ModuleType, PhoneType, phone # None, Rest > 0, Write(phone.to, Count)
  PROVE  ModuleType'
<1>1. /\ phone \in [to : Places, v : Versions, sent : 0 .. Room]
      /\ Count \in Nat \ {0} /\ phone.sent + Count <= Length[phone.v]
      /\ Length[phone.v] \in 2 .. Room /\ Room \in Nat
  BY PieceType, OtaAssumption
<1> DEFINE t == phone.to
           first == size[t]
<1>2. t \in Places /\ first \in Nat /\ phone.v \in Versions
  BY <1>1 DEF ModuleType
<1>3. Program(flash[t], first, Count) \in [1 .. Room -> Cells]
  <2>1. ASSUME NEW i \in 1 .. Room, i \in first + 1 .. first + Count
        PROVE  <<phone.v, phone.sent + i - first>> \in Cells
    <3>1. phone.sent + i - first \in 1 .. Room
      BY <1>1, <1>2, <2>1
    <3>2. QED
      BY <1>2, <3>1 DEF Cells
  <2>2. \A i \in 1 .. Room : flash[t][i] \in Cells
    BY <1>2 DEF ModuleType
  <2>3. Mixed \in Cells
    BY DEF Cells
  <2>4. QED
    BY <2>1, <2>2, <2>3 DEF Program
<1>4. flash' \in [Places -> [1 .. Room -> Cells]]
  BY <1>2, <1>3 DEF Write, ModuleType
<1>5. size' \in [Places -> Nat]
  BY <1>1, <1>2 DEF Write, ModuleType
<1>6. QED
  BY <1>4, <1>5 DEF Write, ModuleType, serveVars, placeVars

LEMMA ResetType ==
  ASSUME ModuleType, NEW m, NEW l \in BOOLEAN, Reset(m, l), UNCHANGED <<ready, stale>>
  PROVE  ModuleType'
<1>0. erasing' \in 0 .. Room
  BY OtaAssumption DEF Reset, Up
<1>1. /\ size' \in [Places -> Nat] /\ aimed' \in BOOLEAN
      /\ header' \in [Tasks -> Versions \cup {NoVersion, None}]
      /\ tmp' \in Versions \cup {NoVersion}
      /\ line' \in [v : Versions \cup {NoVersion}, seq : 0 .. Room, unit : Cells] \cup {None}
  BY DEF Reset, Up
<1>2. flash' \in [Places -> [1 .. Room -> Cells]]
  BY SpareType DEF Reset
<1>3. {running, kept}' \subseteq Versions \cup {NoVersion}
  BY StartedType DEF Reset
<1>4. low' \in BOOLEAN /\ marked' \in BOOLEAN
  BY DEF Reset
<1>5. QED
  BY <1>0, <1>1, <1>2, <1>3, <1>4 DEF ModuleType

LEMMA FinishType ==
  ASSUME ModuleType, PhoneType, phone # None, Finish(phone.to) PROVE ModuleType'
<1>1. phone.v \in Versions
  BY DEF PhoneType
<1>2. CASE phone.to = "wifi"
  <2> DEFINE m == marked \/ aimed
             l == low /\ aimed
  <2>1. Reset(m, l) \/ (/\ marked' = m /\ low' = l
                        /\ UNCHANGED <<size, aimed, flash, running, erasing, kept, serveVars>>)
    BY <1>2 DEF Finish, Swap
  <2>2. UNCHANGED <<ready, stale>> /\ m \in BOOLEAN /\ l \in BOOLEAN
    BY <1>2 DEF Finish, Swap, ModuleType
  <2>3. CASE Reset(m, l)
    <3> HIDE DEF m, l
    <3>1. QED
      BY <2>2, <2>3, ResetType
  <2>4. CASE ~Reset(m, l)
    BY <2>1, <2>2, <2>4 DEF ModuleType, serveVars
  <2>5. QED
    BY <2>3, <2>4
<1>3. CASE phone.to # "wifi"
  <2>1. Offer
    BY <1>3 DEF Finish
  <2>2. HeaderIn(flash["mcu"]) \in Versions \cup {NoVersion}
    BY HeaderType
  <2>3. header' \in [Tasks -> Versions \cup {NoVersion, None}]
    BY <2>1, <2>2 DEF Offer, ModuleType
  <2>4. QED
    BY <1>1, <2>1, <2>3 DEF Offer, ModuleType, moduleVars, placeVars
<1>4. QED
  BY <1>2, <1>3

-----------------------------------------------------------------------------
LEMMA TypeInit == Init => TypeOK
<1> SUFFICES ASSUME Init PROVE TypeOK
    OBVIOUS
<1>1. Room \in Nat /\ MaxBegins \in Nat /\ MaxRestarts \in Nat /\ NoVersion \notin Versions
  BY OtaAssumption
<1>2. ModuleType
  <2>1. erasing \in 0 .. Room
    BY <1>1 DEF Init
  <2>2. {running, kept} \subseteq Versions \cup {NoVersion} /\ {low, marked} \subseteq BOOLEAN
    BY DEF Init
  <2>3. /\ size \in [Places -> Nat] /\ aimed \in BOOLEAN
        /\ flash \in [Places -> [1 .. Room -> Cells]]
        /\ header \in [Tasks -> Versions \cup {NoVersion, None}]
        /\ tmp \in Versions \cup {NoVersion} /\ line = None
        /\ ready \in Versions \cup {NoVersion} /\ stale \in BOOLEAN
    BY DEF Init, Cells
  <2>4. QED
    BY <2>1, <2>2, <2>3 DEF ModuleType
<1>3. PhoneType
  BY <1>1 DEF Init, PhoneType
<1>4. McuType
  BY <1>1 DEF Init, McuType
<1>5. QED
  BY <1>2, <1>3, <1>4, TypeParts

-----------------------------------------------------------------------------
(***************************************************************************)
(* The steps of the phone.                                                 *)
(***************************************************************************)
\* A Begin that erases leaves what would start as it is.
LEMMA EraseStarts == ASSUME NEW t \in Places, Erase(t) PROVE Starts' = Starts
<1>1. CASE t = "wifi"
  <2>1. UNCHANGED low /\ marked' = FALSE /\ kept' = (IF marked THEN Image ELSE kept)
    BY <1>1 DEF Erase
  <2>2. QED
    BY <2>1 DEF Starts, Started
<1>2. CASE t # "wifi"
  <2>1. UNCHANGED <<low, marked, kept, flash>>
    BY <1>2 DEF Erase
  <2>2. QED
    BY <2>1 DEF Starts, Started, Image, Whole
<1>3. QED
  BY <1>1, <1>2

LEMMA InvBegin ==
  ASSUME IInv, NEW t \in Places, NEW v \in Versions, Begin(t, v) PROVE IInv'
<1>1. ModuleType /\ PhoneType /\ McuType
  BY TypeParts DEF IInv
<1>2. /\ phone' = [to |-> t, v |-> v, sent |-> 0] /\ erasing = 0 /\ running # NoVersion
      /\ begins > 0 /\ begins' = begins - 1 /\ UNCHANGED <<restarts, mcu>>
  BY DEF Begin, Serving
<1>3. \/ Erase(t) /\ strayed' = [strayed EXCEPT
               ![t] = size[t] # 0 \/ (t = "wifi" /\ Starts = NoVersion)]
      \/ EraseNot(t) /\ strayed' = [strayed EXCEPT ![t] = TRUE]
  BY DEF Begin
<1>4. ModuleType'
  <2>1. CASE Erase(t)
    BY <1>1, <2>1, EraseType
  <2>2. CASE EraseNot(t)
    BY <1>1, <2>2 DEF EraseNot, moduleVars, placeVars, serveVars, ModuleType
  <2>3. QED
    BY <1>3, <2>1, <2>2
<1>5. /\ strayed' \in [Places -> BOOLEAN]
      /\ \A u \in Places : u # t => strayed'[u] = strayed[u]
  BY <1>1, <1>3 DEF PhoneType
<1>6. PhoneType'
  <2>1. phone' \in [to : Places, v : Versions, sent : 0 .. Room]
        /\ phone'.sent <= Length[phone'.v]
    BY <1>2, OtaAssumption
  <2>2. begins' \in 0 .. MaxBegins /\ restarts' \in 0 .. MaxRestarts
    BY <1>1, <1>2, OtaAssumption DEF PhoneType
  <2>3. QED
    BY <1>5, <2>1, <2>2 DEF PhoneType
<1>7. McuType'
  BY <1>1, <1>2 DEF McuType
<1>8. phone'.to = t /\ phone'.v = v /\ phone'.sent = 0
  BY <1>2
<1>9. CASE Erase(t) /\ strayed' = [strayed EXCEPT
               ![t] = size[t] # 0 \/ (t = "wifi" /\ Starts = NoVersion)]
  <2>1. erasing' = Room /\ UNCHANGED <<size, line>> /\ (t = "wifi" => aimed' /\ ~marked')
    BY <1>9 DEF Erase, serveVars
  <2>2. ASSUME NEW u \in Places PROVE InPlace(u)'
    <3>1. CASE u # t
      BY <1>8, <3>1 DEF InPlace
    <3>2. CASE u = t /\ ~strayed'[t]
      <4>1. size'[t] = 0
        BY <1>1, <1>9, <2>1, <3>2 DEF PhoneType
      <4>2. \A i \in 1 .. Room : ~(i <= Room - erasing')
        BY <2>1, OtaAssumption
      <4>3. QED
        BY <1>8, <2>1, <3>2, <4>1, <4>2 DEF InPlace
    <3>3. CASE u = t /\ strayed'[t]
      BY <3>3 DEF InPlace
    <3>4. QED
      BY <3>1, <3>2, <3>3
  <2>3. ErasingKept'
    <3>1. phone' # None
      BY <1>2, OtaAssumption
    <3>2. QED
      BY <1>8, <2>1, <3>1 DEF ErasingKept
  <2>4. StartsWhole'
    <3>1. Starts' = Starts
      BY <1>9, EraseStarts
    <3>2. CASE t = "wifi"
      BY <1>1, <1>9, <3>1, <3>2 DEF StartsWhole, PhoneType
    <3>3. CASE t # "wifi"
      BY <1>5, <3>1, <3>3 DEF IInv, StartsWhole, Places
    <3>4. QED
      BY <3>2, <3>3
  <2>5. ReadyWhole' /\ OfferKept'
    <3>1. CASE t = "mcu"
      BY <1>9, <3>1 DEF ReadyWhole, OfferKept, Erase
    <3>2. CASE t # "mcu"
      <4>1. flash'["mcu"] = flash["mcu"] /\ UNCHANGED <<ready, stale, mcu>>
        BY <1>1, <1>2, <1>9, <3>2, SpareMcu DEF Erase, Places
      <4>2. ReadyWhole'
        BY <1>8, <3>2, <4>1 DEF IInv, ReadyWhole, Whole
      <4>3. OfferKept'
        BY <4>1 DEF IInv, OfferKept
      <4>4. QED
        BY <4>2, <4>3
    <3>3. QED
      BY <3>1, <3>2
  <2>6. LineKept'
    <3>1. stale' = stale \/ stale'
      BY <1>9 DEF Erase
    <3>2. QED
      BY <1>2, <2>1, <3>1 DEF IInv, LineKept
  <2>7. QED
    BY <1>4, <1>6, <1>7, <2>2, <2>3, <2>4, <2>5, <2>6, TypeNext DEF IInv
<1>10. CASE EraseNot(t) /\ strayed' = [strayed EXCEPT ![t] = TRUE]
  <2>1. /\ t = "wifi" /\ UNCHANGED <<flash, low, kept, marked, erasing, line, ready, stale>>
        /\ strayed'[t]
    BY <1>1, <1>10 DEF EraseNot, moduleVars, placeVars, serveVars, PhoneType
  <2>2. \A u \in Places : InPlace(u)'
    BY <1>8, <2>1 DEF InPlace
  <2>3. ErasingKept' /\ StartsWhole'
    BY <1>2, <2>1 DEF ErasingKept, StartsWhole
  <2>4. ReadyWhole' /\ OfferKept'
    BY <1>2, <1>8, <2>1 DEF IInv, ReadyWhole, OfferKept, Whole
  <2>5. LineKept'
    BY <1>2, <2>1 DEF IInv, LineKept
  <2>6. QED
    BY <1>4, <1>6, <1>7, <2>2, <2>3, <2>4, <2>5, TypeNext DEF IInv
<1>11. QED
  BY <1>3, <1>9, <1>10

\* The loop erases the place of the download, from its first unit on.
LEMMA InvEraseUnit == ASSUME IInv, EraseUnit PROVE IInv'
<1>1. ModuleType /\ PhoneType /\ McuType
  BY TypeParts DEF IInv
<1>2. /\ erasing > 0 /\ erasing' = erasing - 1
      /\ flash' = [flash EXCEPT ![phone.to][Room - erasing'] = Erased]
      /\ UNCHANGED <<phone, begins, restarts, size, aimed, low, running, kept, marked>>
      /\ UNCHANGED <<header, tmp, line, mcu, ready, stale, strayed>>
  BY DEF EraseUnit, phoneVars, serveVars, historyVars
<1>3. /\ phone # None /\ phone \in [to : Places, v : Versions, sent : 0 .. Room]
      /\ phone.to = "wifi" => ~marked
  BY <1>1, <1>2 DEF IInv, ErasingKept, PhoneType
<1> DEFINE t == phone.to
           n == Room - erasing'
<1>4. t \in Places /\ Room \in Nat /\ erasing \in 1 .. Room
  BY <1>1, <1>2, <1>3, OtaAssumption DEF ModuleType
<1>5. n \in 1 .. Room /\ erasing' \in 0 .. Room
  BY <1>2, <1>4
<1>6. ASSUME NEW u \in Places, NEW i \in 1 .. Room
      PROVE  flash'[u][i] = IF u = t /\ i = n THEN Erased ELSE flash[u][i]
  <2>1. flash' = [flash EXCEPT ![t][n] = Erased]
    BY <1>2
  <2> HIDE DEF n, t
  <2>2. QED
    BY <1>1, <1>4, <1>5, <2>1 DEF ModuleType
<1>7. ModuleType'
  <2>1. flash' \in [Places -> [1 .. Room -> Cells]]
    <3>1. flash' = [flash EXCEPT ![t][n] = Erased] /\ Erased \in Cells
      BY <1>2 DEF Cells
    <3> HIDE DEF n, t
    <3>2. QED
      BY <1>1, <1>4, <1>5, <3>1 DEF ModuleType
  <2>2. QED
    BY <1>1, <1>2, <1>5, <2>1 DEF ModuleType
<1>8. PhoneType' /\ McuType'
  BY <1>1, <1>2 DEF PhoneType, McuType
<1>9. ASSUME NEW u \in Places PROVE InPlace(u)'
  <2>1. CASE u # t
    BY <1>2, <2>1 DEF InPlace
  <2>2. CASE u = t /\ strayed[t]
    BY <1>2, <2>2 DEF InPlace
  <2>3. CASE u = t /\ ~strayed[t]
    <3>1. /\ size[t] = phone.sent /\ phone.sent = 0 /\ (t = "wifi" => aimed /\ ~marked)
          /\ \A i \in 1 .. Room : i > phone.sent /\ i <= Room - erasing => flash[t][i] = Erased
      BY <1>2, <1>3, <1>4, <2>3 DEF IInv, InPlace
    <3>2. ASSUME NEW i \in 1 .. Room, i <= Room - erasing' PROVE flash'[t][i] = Erased
      <4>1. i = n \/ i <= Room - erasing
        BY <1>2, <1>4, <3>2
      <4>2. i > phone.sent
        BY <3>1
      <4>3. QED
        BY <1>4, <1>6, <3>1, <4>1, <4>2
    <3>3. \A i \in 1 .. 0 : flash'[t][i] = <<phone.v, i>>
      OBVIOUS
    <3>4. QED
      BY <1>2, <2>3, <3>1, <3>2, <3>3 DEF InPlace
  <2>4. QED
    BY <2>1, <2>2, <2>3
<1>10. ErasingKept'
  BY <1>2, <1>3 DEF ErasingKept
<1>11. StartsWhole'
  <2>1. CASE t = "wifi"
    <3>1. Starts' = Starts
      BY <1>2, <1>3, <2>1 DEF Starts, Started
    <3>2. QED
      BY <1>2, <3>1 DEF IInv, StartsWhole
  <2>2. CASE t # "wifi"
    <3>1. flash'["wifi"] = flash["wifi"]
      BY <1>1, <1>2, <2>2 DEF ModuleType
    <3>2. Starts' = Starts
      BY <1>2, <3>1 DEF Starts, Started, Image, Whole
    <3>3. QED
      BY <1>2, <3>2 DEF IInv, StartsWhole
  <2>3. QED
    BY <2>1, <2>2
<1>12. ReadyWhole'
  <2>1. CASE t = "mcu"
    BY <1>2, <1>3, <2>1 DEF IInv, ReadyWhole
  <2>2. CASE t # "mcu"
    <3>1. flash'["mcu"] = flash["mcu"]
      BY <1>1, <1>2, <2>2 DEF ModuleType
    <3>2. QED
      BY <1>2, <2>2, <3>1 DEF IInv, ReadyWhole, Whole
  <2>3. QED
    BY <2>1, <2>2
<1>13. OfferKept' /\ LineKept'
  BY <1>2 DEF IInv, OfferKept, LineKept
<1>14. QED
  BY <1>7, <1>8, <1>9, <1>10, <1>11, <1>12, <1>13, TypeNext DEF IInv

\* End of a Wi-Fi download: with the restart or without, the same image starts.
LEMMA SwapStarts ==
  ASSUME ModuleType, erasing = 0, Swap
  PROVE  /\ Starts' = Started(marked \/ aimed, low /\ aimed)
         /\ erasing' = 0 /\ flash'["mcu"] = flash["mcu"] /\ UNCHANGED <<ready, stale>>
         /\ UNCHANGED line \/ line' = None
<1> DEFINE m == marked \/ aimed
           l == low /\ aimed
<1>1. /\ UNCHANGED <<ready, stale>>
      /\ \/ Reset(m, l)
         \/ /\ marked' = m /\ low' = l
            /\ UNCHANGED <<size, aimed, flash, running, erasing, kept, serveVars>>
  BY DEF Swap
<1>2. CASE Reset(m, l)
  <2>1. /\ kept' = Started(m, l) /\ marked' = FALSE /\ flash' = Spare(m) /\ low' = l
        /\ erasing' = 0 /\ line' = None
    BY <1>2 DEF Reset, Up
  <2>2. Starts' = IF l THEN Started(m, l) ELSE NoVersion
    BY <2>1 DEF Starts, Started
  <2>3. Starts' = Started(m, l)
    BY <2>2 DEF Started
  <2>4. QED
    BY <1>1, <2>1, <2>3, SpareMcu
<1>3. CASE ~Reset(m, l)
  <2>1. marked' = m /\ low' = l /\ UNCHANGED <<flash, erasing, kept, line>>
    BY <1>1, <1>3 DEF serveVars
  <2>2. Starts' = Started(m, l)
    BY <2>1 DEF Starts, Started, Image, Whole
  <2>3. QED
    BY <1>1, <2>1, <2>2
<1>4. QED
  BY <1>2, <1>3

\* What SendPiece does to a place whose download may already go wrong.
LEMMA InvMistaken ==
  ASSUME IInv, SendPiece, Count = BeginUnits \/ Count = EndUnits PROVE IInv'
<1>1. ModuleType /\ PhoneType /\ McuType
  BY TypeParts DEF IInv
<1>2. phone # None /\ Rest > 0 /\ running # NoVersion /\ erasing = 0
  BY DEF SendPiece, Serving
<1>3. /\ phone \in [to : Places, v : Versions, sent : 0 .. Room]
      /\ Count \in Nat \ {0} /\ phone.sent + Count <= Length[phone.v]
      /\ Length[phone.v] \in 2 .. Room /\ Room \in Nat
  BY <1>1, <1>2, PieceType, OtaAssumption
<1> DEFINE t == phone.to
<1>4. t \in Places
  BY <1>3
<1>5. /\ Erase(t) \/ EraseNot(t) \/ Finish(t)
      /\ phone' = [phone EXCEPT !.sent = @ + Count]
      /\ strayed' = [strayed EXCEPT ![t] = TRUE]
      /\ UNCHANGED <<begins, restarts, mcu>>
  BY DEF SendPiece
<1>6. phone' \in [to : Places, v : Versions, sent : 0 .. Room]
      /\ phone'.to = t /\ phone'.v = phone.v /\ phone'.sent <= Length[phone'.v]
  BY <1>3, <1>5
<1>7. strayed' \in [Places -> BOOLEAN] /\ strayed'[t] = TRUE
      /\ \A u \in Places : u # t => strayed'[u] = strayed[u]
  BY <1>1, <1>4, <1>5 DEF PhoneType
<1>8. ModuleType'
  <2>1. CASE Erase(t)
    BY <1>1, <1>4, <2>1, EraseType
  <2>2. CASE EraseNot(t)
    BY <1>1, <2>2 DEF EraseNot, moduleVars, placeVars, serveVars, ModuleType
  <2>3. CASE Finish(t)
    BY <1>1, <1>2, <2>3, FinishType
  <2>4. QED
    BY <1>5, <2>1, <2>2, <2>3
<1>9. PhoneType'
  BY <1>1, <1>5, <1>6, <1>7 DEF PhoneType
<1>10. McuType'
  BY <1>1, <1>5 DEF McuType
<1>11. \A u \in Places : InPlace(u)'
  BY <1>6, <1>7 DEF InPlace
<1>12. phone' # None
  BY <1>6, OtaAssumption
<1>13. CASE Erase(t)
  <2>1. ErasingKept'
    BY <1>6, <1>12, <1>13 DEF ErasingKept, Erase
  <2>2. StartsWhole'
    <3>1. Starts' = Starts
      BY <1>4, <1>13, EraseStarts
    <3>2. QED
      BY <1>4, <1>7, <3>1 DEF IInv, StartsWhole, Places
  <2>3. ReadyWhole' /\ OfferKept'
    <3>1. CASE t = "mcu"
      BY <1>13, <3>1 DEF ReadyWhole, OfferKept, Erase
    <3>2. CASE t # "mcu"
      <4>1. flash'["mcu"] = flash["mcu"] /\ UNCHANGED <<ready, stale>>
        BY <1>1, <1>4, <1>13, <3>2, SpareMcu DEF Erase, Places
      <4>2. QED
        BY <1>5, <1>6, <3>2, <4>1 DEF IInv, ReadyWhole, OfferKept, Whole
    <3>3. QED
      BY <3>1, <3>2
  <2>4. LineKept'
    <3>1. UNCHANGED <<line, mcu>> /\ (~stale' => ~stale)
      BY <1>5, <1>13 DEF Erase, serveVars
    <3>2. QED
      BY <3>1 DEF IInv, LineKept
  <2>5. QED
    BY <1>8, <1>9, <1>10, <1>11, <2>1, <2>2, <2>3, <2>4, TypeNext DEF IInv
<1>14. CASE EraseNot(t)
  <2>1. t = "wifi" /\ UNCHANGED <<flash, low, kept, marked, erasing, line, ready, stale>>
    BY <1>14 DEF EraseNot, moduleVars, placeVars, serveVars
  <2>2. ErasingKept' /\ StartsWhole'
    BY <1>2, <1>7, <2>1 DEF ErasingKept, StartsWhole
  <2>3. ReadyWhole' /\ OfferKept' /\ LineKept'
    BY <1>5, <1>6, <2>1 DEF IInv, ReadyWhole, OfferKept, LineKept, Whole
  <2>4. QED
    BY <1>8, <1>9, <1>10, <1>11, <2>2, <2>3, TypeNext DEF IInv
<1>15. CASE Finish(t) /\ t = "wifi"
  <2>1. /\ erasing' = 0 /\ flash'["mcu"] = flash["mcu"] /\ UNCHANGED <<ready, stale>>
        /\ UNCHANGED line \/ line' = None
    BY <1>1, <1>2, <1>15, SwapStarts DEF Finish
  <2>2. ErasingKept' /\ StartsWhole'
    BY <1>7, <1>15, <2>1 DEF ErasingKept, StartsWhole
  <2>3. ReadyWhole'
    BY <1>6, <1>15, <2>1 DEF IInv, ReadyWhole, Whole
  <2>4. OfferKept'
    BY <1>5, <2>1 DEF IInv, OfferKept
  <2>5. LineKept'
    BY <1>5, <2>1 DEF IInv, LineKept
  <2>6. QED
    BY <1>8, <1>9, <1>10, <1>11, <2>2, <2>3, <2>4, <2>5, TypeNext DEF IInv
<1>16. CASE Finish(t) /\ t = "mcu"
  <2>1. /\ ready' = NoVersion /\ UNCHANGED <<low, kept, marked, erasing, flash, line, stale>>
        /\ ready = NoVersion
    BY <1>2, <1>7, <1>16 DEF Finish, Offer, moduleVars, placeVars, IInv, ReadyWhole
  <2>2. ErasingKept'
    BY <1>2, <2>1 DEF ErasingKept
  <2>3. StartsWhole'
    <3>1. Starts' = Starts
      BY <2>1 DEF Starts, Started, Image, Whole
    <3>2. QED
      BY <1>7, <1>16, <3>1 DEF IInv, StartsWhole, Places
  <2>4. ReadyWhole'
    BY <2>1 DEF ReadyWhole
  <2>5. OfferKept'
    BY <1>5, <2>1 DEF IInv, OfferKept
  <2>6. LineKept'
    BY <1>5, <2>1 DEF IInv, LineKept
  <2>7. QED
    BY <1>8, <1>9, <1>10, <1>11, <2>2, <2>3, <2>4, <2>5, <2>6, TypeNext DEF IInv
<1>17. QED
  BY <1>4, <1>5, <1>13, <1>14, <1>15, <1>16 DEF Places

LEMMA InvWrite ==
  ASSUME IInv, SendPiece, Count # BeginUnits, Count # EndUnits PROVE IInv'
<1>1. ModuleType /\ PhoneType /\ McuType
  BY TypeParts DEF IInv
<1>2. phone # None /\ Rest > 0 /\ erasing = 0
  BY DEF SendPiece, Serving
<1>3. /\ phone \in [to : Places, v : Versions, sent : 0 .. Room]
      /\ Count \in Nat \ {0} /\ phone.sent + Count <= Length[phone.v]
      /\ Length[phone.v] \in 2 .. Room /\ Room \in Nat
  BY <1>1, <1>2, PieceType, OtaAssumption
<1> DEFINE t == phone.to
           n == Count
<1>4. t \in Places /\ size[t] \in Nat /\ n \in Nat \ {0}
  BY <1>1, <1>3 DEF ModuleType
<1>5. /\ Write(t, n)
      /\ phone' = [phone EXCEPT !.sent = @ + n]
      /\ UNCHANGED <<begins, restarts, mcu, strayed>>
  BY DEF SendPiece
<1>6. /\ phone' \in [to : Places, v : Versions, sent : 0 .. Room]
      /\ phone'.to = t /\ phone'.v = phone.v /\ phone'.sent = phone.sent + n
      /\ phone'.sent <= Length[phone'.v]
  BY <1>3, <1>5
<1>7. ModuleType'
  BY <1>1, <1>2, <1>5, WriteType
<1>8. PhoneType'
  BY <1>1, <1>5, <1>6 DEF PhoneType
<1>9. McuType'
  BY <1>1, <1>5 DEF McuType
<1>10. ASSUME NEW u \in Places PROVE InPlace(u)'
  <2>1. CASE u # t
    BY <1>6, <2>1 DEF InPlace
  <2>2. CASE u = t /\ strayed[t]
    BY <1>5, <2>2 DEF InPlace
  <2>3. CASE u = t /\ ~strayed[t]
    <3>1. /\ size[t] = phone.sent /\ (t = "wifi" => aimed /\ ~marked)
          /\ \A i \in 1 .. Room :
               flash[t][i] = IF i <= phone.sent THEN <<phone.v, i>> ELSE Erased
      <4>1. /\ size[t] = phone.sent /\ (t = "wifi" => aimed /\ ~marked)
            /\ \A i \in 1 .. phone.sent : flash[t][i] = <<phone.v, i>>
            /\ \A i \in 1 .. Room : i > phone.sent /\ i <= Room - erasing => flash[t][i] = Erased
        BY <1>2, <1>4, <2>3 DEF IInv, InPlace
      <4>2. QED
        BY <1>2, <1>3, <4>1
    <3>2. /\ size' = [size EXCEPT ![t] = @ + n] /\ UNCHANGED <<aimed, marked, erasing>>
          /\ flash' = [flash EXCEPT ![t] = Program(@, phone.sent, n)]
      BY <1>5, <3>1 DEF Write, placeVars
    <3>3. size'[t] = phone'.sent
      BY <1>1, <1>4, <1>6, <3>1, <3>2 DEF ModuleType
    <3>4. flash'[t] = Program(flash[t], phone.sent, n)
      BY <1>1, <1>4, <3>2 DEF ModuleType
    <3>5. ASSUME NEW i \in 1 .. Room
          PROVE  flash'[t][i] = IF i <= phone'.sent THEN <<phone'.v, i>> ELSE Erased
      <4>1. flash'[t][i] = IF i \notin phone.sent + 1 .. phone.sent + n THEN flash[t][i]
                           ELSE IF flash[t][i] = Erased
                                THEN <<phone.v, phone.sent + i - phone.sent>> ELSE Mixed
        BY <3>4 DEF Program
      <4>2. phone.sent + i - phone.sent = i
        BY <1>3
      <4>3. flash[t][i] = IF i <= phone.sent THEN <<phone.v, i>> ELSE Erased
        BY <3>1
      <4>4. CASE i <= phone.sent
        BY <1>3, <1>4, <1>6, <4>1, <4>3, <4>4
      <4>5. CASE i > phone.sent /\ i <= phone.sent + n
        BY <1>3, <1>4, <1>6, <4>1, <4>2, <4>3, <4>5
      <4>6. CASE i > phone.sent + n
        BY <1>3, <1>4, <1>6, <4>1, <4>3, <4>6
      <4>7. QED
        BY <1>3, <1>4, <4>4, <4>5, <4>6
    <3>6. ASSUME NEW i \in 1 .. phone'.sent PROVE flash'[t][i] = <<phone'.v, i>>
      <4>1. i \in 1 .. Room /\ i <= phone'.sent
        BY <1>3, <1>4, <1>6, <3>6
      <4>2. QED
        BY <3>5, <4>1
    <3>7. ASSUME NEW i \in 1 .. Room, i > phone'.sent PROVE flash'[t][i] = Erased
      <4>1. ~(i <= phone'.sent)
        BY <1>3, <1>4, <1>6, <3>7
      <4>2. QED
        BY <3>5, <4>1
    <3>8. QED
      BY <1>2, <1>6, <2>3, <3>1, <3>2, <3>3, <3>6, <3>7 DEF InPlace
  <2>4. QED
    BY <2>1, <2>2, <2>3
<1>11. ErasingKept'
  BY <1>2, <1>5 DEF ErasingKept, Write, placeVars
<1>12. StartsWhole'
  <2>1. CASE t = "wifi" /\ ~strayed[t]
    <3>1. aimed /\ ~marked
      BY <1>2, <1>4, <2>1 DEF IInv, InPlace
    <3>2. UNCHANGED <<low, kept, marked>>
      BY <1>5, <3>1 DEF Write, placeVars
    <3>3. Starts' = Starts
      BY <3>1, <3>2 DEF Starts, Started
    <3>4. QED
      BY <1>5, <3>3 DEF IInv, StartsWhole
  <2>2. CASE t = "wifi" /\ strayed[t]
    BY <1>5, <2>2 DEF StartsWhole
  <2>3. CASE t # "wifi"
    <3>1. UNCHANGED <<low, kept, marked>> /\ flash'["wifi"] = flash["wifi"]
      <4>1. UNCHANGED <<low, kept, marked>> /\ flash' = [flash EXCEPT ![t] = Program(@, size[t], n)]
        BY <1>5, <2>3 DEF Write, placeVars
      <4> HIDE DEF n, t
      <4>2. QED
        BY <1>1, <1>4, <2>3, <4>1 DEF ModuleType, Places
    <3>2. Starts' = Starts
      BY <3>1 DEF Starts, Started, Image, Whole
    <3>3. QED
      BY <1>5, <3>2 DEF IInv, StartsWhole
  <2>4. QED
    BY <2>1, <2>2, <2>3
<1>13. ReadyWhole'
  <2>1. CASE t = "mcu"
    BY <1>2, <1>5, <2>1 DEF IInv, ReadyWhole, Write
  <2>2. CASE t # "mcu"
    <3>1. flash'["mcu"] = flash["mcu"] /\ UNCHANGED ready
      <4> HIDE DEF n
      <4>1. "mcu" \in Places
        BY DEF Places
      <4>2. UNCHANGED flash \/ flash' = [flash EXCEPT ![t] = Program(@, size[t], n)]
        BY <1>5 DEF Write
      <4>3. flash'["mcu"] = flash["mcu"]
        BY <1>1, <1>4, <2>2, <4>1, <4>2 DEF ModuleType
      <4>4. QED
        BY <1>5, <4>3 DEF Write
    <3>2. QED
      BY <1>6, <2>2, <3>1 DEF IInv, ReadyWhole, Whole
  <2>3. QED
    BY <2>1, <2>2
<1>14. OfferKept' /\ LineKept'
  BY <1>5 DEF Write, serveVars, IInv, OfferKept, LineKept
<1>15. QED
  BY <1>7, <1>8, <1>9, <1>10, <1>11, <1>12, <1>13, <1>14, TypeNext DEF IInv

\* End finds the whole image in its place, unless the download may have gone wrong.
LEMMA InvSendEnd == ASSUME IInv, SendEnd PROVE IInv'
<1>1. ModuleType /\ PhoneType /\ McuType
  BY TypeParts DEF IInv
<1>2. phone # None /\ Rest = 0 /\ erasing = 0
  BY DEF SendEnd, Serving
<1>3. /\ phone \in [to : Places, v : Versions, sent : 0 .. Room]
      /\ Length[phone.v] \in 2 .. Room /\ Room \in Nat
  BY <1>1, <1>2, OtaAssumption DEF PhoneType
<1> DEFINE t == phone.to
           v == phone.v
<1>4. t \in Places /\ v \in Versions /\ phone.sent = Length[v]
  BY <1>2, <1>3 DEF Rest
<1>5. /\ phone' = None /\ UNCHANGED <<begins, restarts, mcu, strayed>> /\ Finish(t)
  BY DEF SendEnd
<1>6. ASSUME ~strayed[t] PROVE Whole(flash[t], v)
  <2>1. \A i \in 1 .. phone.sent : flash[t][i] = <<v, i>>
    BY <1>2, <1>4, <1>6 DEF IInv, InPlace
  <2>2. QED
    BY <1>4, <2>1 DEF Whole
<1>7. ModuleType'
  BY <1>1, <1>2, <1>5, FinishType
<1>8. PhoneType'
  BY <1>1, <1>5 DEF PhoneType
<1>9. McuType'
  BY <1>1, <1>5 DEF McuType
<1>10. \A u \in Places : InPlace(u)'
  BY <1>5 DEF InPlace
<1>11. CASE t = "wifi"
  <2>1. /\ Starts' = Started(marked \/ aimed, low /\ aimed)
        /\ erasing' = 0 /\ flash'["mcu"] = flash["mcu"] /\ UNCHANGED <<ready, stale>>
        /\ UNCHANGED line \/ line' = None
    BY <1>1, <1>2, <1>5, <1>11, SwapStarts DEF Finish
  <2>2. StartsWhole'
    <3>1. CASE strayed["wifi"]
      BY <1>5, <3>1 DEF StartsWhole
    <3>2. CASE ~strayed["wifi"]
      <4>1. low
        BY <3>2 DEF IInv, StartsWhole, Starts, Started
      <4>2. aimed /\ Whole(flash["wifi"], v)
        BY <1>2, <1>4, <1>6, <1>11, <3>2 DEF IInv, InPlace
      <4>3. Starts' = Image
        BY <2>1, <4>1, <4>2 DEF Started
      <4>4. Image \in Versions
        BY <1>4, <4>2 DEF Image
      <4>5. QED
        BY <4>3, <4>4, OtaAssumption DEF StartsWhole
    <3>3. QED
      BY <3>1, <3>2
  <2>3. ErasingKept'
    BY <2>1 DEF ErasingKept
  <2>4. ReadyWhole'
    BY <1>5, <2>1 DEF IInv, ReadyWhole, Whole
  <2>5. OfferKept'
    BY <1>5, <2>1 DEF IInv, OfferKept
  <2>6. LineKept'
    BY <1>5, <2>1 DEF IInv, LineKept
  <2>7. QED
    BY <1>7, <1>8, <1>9, <1>10, <2>2, <2>3, <2>4, <2>5, <2>6, TypeNext DEF IInv
<1>12. CASE t = "mcu"
  <2>1. /\ ready' = IF strayed["mcu"] THEN NoVersion ELSE v
        /\ UNCHANGED <<low, kept, marked, erasing, flash, line, stale>> /\ ready = NoVersion
    BY <1>2, <1>5, <1>12 DEF Finish, Offer, moduleVars, placeVars, IInv, ReadyWhole
  <2>2. ErasingKept'
    BY <1>2, <2>1 DEF ErasingKept
  <2>3. StartsWhole'
    <3>1. Starts' = Starts
      BY <2>1 DEF Starts, Started, Image, Whole
    <3>2. QED
      BY <1>5, <3>1 DEF IInv, StartsWhole
  <2>4. ReadyWhole'
    BY <1>5, <1>6, <1>12, <2>1 DEF ReadyWhole, Whole
  <2>5. OfferKept'
    BY <1>5, <2>1 DEF IInv, OfferKept
  <2>6. LineKept'
    BY <1>5, <2>1 DEF IInv, LineKept
  <2>7. QED
    BY <1>7, <1>8, <1>9, <1>10, <2>2, <2>3, <2>4, <2>5, <2>6, TypeNext DEF IInv
<1>13. QED
  BY <1>4, <1>11, <1>12 DEF Places

-----------------------------------------------------------------------------
(***************************************************************************)
(* The steps that serve the MCU, and the restart.                          *)
(***************************************************************************)
LEMMA InvServe ==
  ASSUME IInv, (\E k \in Tasks : FirstPacket(k)) \/ AskFirst \/ Lost PROVE IInv'
<1>1. ModuleType /\ PhoneType /\ McuType
  BY TypeParts DEF IInv
<1>2. /\ UNCHANGED <<phone, begins, restarts, size, aimed, flash, low, running, placeVars, mcu>>
      /\ UNCHANGED <<ready, stale, strayed>>
      /\ UNCHANGED line \/ line' = None \/ line'.seq = 0
  BY DEF FirstPacket, AskFirst, Lost, phoneVars, moduleVars, historyVars
<1>3. /\ header' \in [Tasks -> Versions \cup {NoVersion, None}]
      /\ tmp' \in Versions \cup {NoVersion}
      /\ line' \in [v : Versions \cup {NoVersion}, seq : 0 .. Room, unit : Cells] \cup {None}
  <2>1. ASSUME NEW k \in Tasks, FirstPacket(k)
        PROVE  /\ header' \in [Tasks -> Versions \cup {NoVersion, None}]
               /\ tmp' \in Versions \cup {NoVersion}
               /\ line' \in [v : Versions \cup {NoVersion}, seq : 0 .. Room, unit : Cells]
    <3>1. header[k] \in Versions \cup {NoVersion}
      BY <1>1, <2>1 DEF FirstPacket, ModuleType
    <3>2. Mixed \in Cells /\ 0 \in 0 .. Room
      BY OtaAssumption DEF Cells
    <3>3. QED
      BY <1>1, <2>1, <3>1, <3>2 DEF FirstPacket, ModuleType
  <2>2. CASE AskFirst
    BY <1>1, <2>2, HeaderType DEF AskFirst, ModuleType
  <2>3. CASE Lost
    BY <1>1, <2>3 DEF Lost, ModuleType
  <2>4. QED
    BY <2>1, <2>2, <2>3
<1>4. TypeOK'
  BY <1>1, <1>2, <1>3, TypeNext DEF ModuleType, PhoneType, McuType, placeVars
<1>5. \A u \in Places : InPlace(u)'
  BY <1>2 DEF IInv, InPlace, placeVars
<1>6. ErasingKept' /\ StartsWhole' /\ ReadyWhole' /\ OfferKept'
  BY <1>2 DEF IInv, ErasingKept, StartsWhole, Starts, Started, Image, ReadyWhole, OfferKept,
              Whole, placeVars
<1>7. LineKept'
  BY <1>2 DEF IInv, LineKept
<1>8. QED
  BY <1>4, <1>5, <1>6, <1>7 DEF IInv

\* A block under an offer that is not stale is the one that stands in the place.
LEMMA InvAskBlock == ASSUME IInv, NEW seq \in 1 .. Room, AskBlock(seq) PROVE IInv'
<1>1. ModuleType /\ PhoneType /\ McuType
  BY TypeParts DEF IInv
<1>2. /\ UNCHANGED <<phone, begins, restarts, size, aimed, flash, low, running, placeVars, mcu>>
      /\ UNCHANGED <<header, tmp, ready, stale, strayed>>
      /\ line' = [v |-> tmp, seq |-> seq, unit |-> flash["mcu"][seq + 1]]
      /\ mcu.v \in Versions /\ seq < Length[mcu.v]
  BY DEF AskBlock, phoneVars, moduleVars, historyVars
<1>3. Room \in Nat /\ Length[mcu.v] \in 2 .. Room
  BY <1>2, OtaAssumption
<1>4. seq + 1 \in 1 .. Length[mcu.v] /\ seq + 1 \in 1 .. Room /\ seq \in 0 .. Room
  BY <1>2, <1>3
<1>5. line' \in [v : Versions \cup {NoVersion}, seq : 0 .. Room, unit : Cells]
  <2>1. flash["mcu"][seq + 1] \in Cells
    BY <1>1, <1>4 DEF ModuleType, Places
  <2>2. QED
    BY <1>1, <1>2, <1>4, <2>1 DEF ModuleType
<1>6. TypeOK'
  BY <1>1, <1>2, <1>5, TypeNext DEF ModuleType, PhoneType, McuType, placeVars
<1>7. \A u \in Places : InPlace(u)'
  BY <1>2 DEF IInv, InPlace, placeVars
<1>8. ErasingKept' /\ StartsWhole' /\ ReadyWhole' /\ OfferKept'
  BY <1>2 DEF IInv, ErasingKept, StartsWhole, Starts, Started, Image, ReadyWhole, OfferKept,
              Whole, placeVars
<1>9. ~stale => flash["mcu"][seq + 1] = <<mcu.v, seq + 1>>
  BY <1>2, <1>4, OtaAssumption DEF IInv, OfferKept, ReadyWhole, Whole
<1>10. LineKept'
  BY <1>2, <1>9 DEF LineKept
<1>11. QED
  BY <1>6, <1>7, <1>8, <1>10 DEF IInv

LEMMA InvMcuReceives == ASSUME IInv, McuReceives PROVE IInv'
<1>1. ModuleType /\ PhoneType /\ McuType
  BY TypeParts DEF IInv
<1>2. /\ UNCHANGED <<phone, begins, restarts, size, aimed, flash, low, running, placeVars>>
      /\ UNCHANGED <<header, tmp, ready, strayed>>
      /\ line # None /\ line' = None
  BY DEF McuReceives, phoneVars, moduleVars
<1>3. line \in [v : Versions \cup {NoVersion}, seq : 0 .. Room, unit : Cells]
  BY <1>1, <1>2 DEF ModuleType
<1>4. McuType' /\ OfferKept' /\ stale' \in BOOLEAN
  <2>1. CASE line.seq = 0
    <3>1. mcu' = [v |-> line.v, has |-> 0, good |-> TRUE] /\ stale' = (line.v # ready)
      BY <2>1 DEF McuReceives
    <3>2. \A v \in Versions : Length[v] \in 2 .. Room
      BY OtaAssumption
    <3>3. McuType'
      BY <1>3, <3>1, <3>2, OtaAssumption DEF McuType
    <3>4. OfferKept' /\ stale' \in BOOLEAN
      BY <1>2, <3>1 DEF OfferKept
    <3>5. QED
      BY <3>3, <3>4
  <2>2. CASE line.seq # 0 /\ line.v # mcu.v
    <3>1. UNCHANGED <<mcu, stale>>
      BY <2>2 DEF McuReceives
    <3>2. QED
      BY <1>1, <1>2, <3>1 DEF McuType, OfferKept, IInv, ModuleType
  <2>3. CASE line.seq # 0 /\ line.v = mcu.v
    <3>1. /\ mcu' = [v |-> mcu.v,
                     has |-> IF line.seq > mcu.has THEN line.seq ELSE mcu.has,
                     good |-> mcu.good /\ line.unit = <<mcu.v, line.seq + 1>>]
          /\ UNCHANGED stale
      BY <2>3 DEF McuReceives
    <3>2. /\ mcu.v \in Versions /\ line.seq < Length[mcu.v]
          /\ ~stale => line.unit = <<mcu.v, line.seq + 1>>
      BY <1>2, <1>3, <2>3 DEF IInv, LineKept
    <3>3. /\ mcu'.v = mcu.v /\ mcu'.has \in 0 .. Room /\ mcu'.good \in BOOLEAN
          /\ mcu'.has < Length[mcu.v]
      BY <1>1, <1>3, <3>1, <3>2 DEF McuType
    <3>4. McuType'
      BY <1>1, <3>1, <3>3 DEF McuType
    <3>5. OfferKept'
      BY <1>2, <3>1, <3>2 DEF IInv, OfferKept
    <3>6. QED
      BY <1>1, <3>1, <3>4, <3>5 DEF ModuleType
  <2>4. QED
    BY <2>1, <2>2, <2>3
<1>5. TypeOK'
  BY <1>1, <1>2, <1>4, TypeNext DEF ModuleType, PhoneType, placeVars
<1>6. \A u \in Places : InPlace(u)'
  BY <1>2 DEF IInv, InPlace, placeVars
<1>7. ErasingKept' /\ StartsWhole' /\ ReadyWhole' /\ LineKept'
  BY <1>2 DEF IInv, ErasingKept, StartsWhole, Starts, Started, Image, ReadyWhole, Whole,
              LineKept, placeVars
<1>8. QED
  BY <1>4, <1>5, <1>6, <1>7 DEF IInv

LEMMA InvRestart == ASSUME IInv, Restart PROVE IInv'
<1>1. ModuleType /\ PhoneType /\ McuType
  BY TypeParts DEF IInv
<1>2. /\ UNCHANGED <<phone, begins, mcu, ready, stale>> /\ Reset(marked, low)
      /\ strayed' = IF phone = None THEN strayed ELSE [strayed EXCEPT ![phone.to] = TRUE]
      /\ restarts > 0 /\ restarts' = restarts - 1
  BY DEF Restart
<1>3. strayed' \in [Places -> BOOLEAN]
      /\ \A u \in Places : strayed[u] => strayed'[u]
  BY <1>1, <1>2 DEF PhoneType
<1>4. phone # None => strayed'[phone.to]
  BY <1>1, <1>2 DEF PhoneType
<1>5. ModuleType'
  <2>1. low \in BOOLEAN
    BY <1>1 DEF ModuleType
  <2>2. QED
    BY <1>1, <1>2, <2>1, ResetType
<1>6. PhoneType' /\ McuType'
  BY <1>1, <1>2, <1>3, OtaAssumption DEF PhoneType, McuType
<1>7. \A u \in Places : InPlace(u)'
  BY <1>2, <1>4 DEF InPlace
<1>8. /\ kept' = Started(marked, low) /\ marked' = FALSE /\ flash' = Spare(marked)
      /\ low' = low /\ erasing' = 0 /\ line' = None
  BY <1>2 DEF Reset, Up
<1>9. ErasingKept' /\ LineKept'
  BY <1>8 DEF ErasingKept, LineKept
<1>10. StartsWhole'
  <2>1. Starts' = Starts
    BY <1>8 DEF Starts, Started
  <2>2. QED
    BY <1>3, <2>1 DEF IInv, StartsWhole, Places
<1>11. ReadyWhole' /\ OfferKept'
  <2>1. flash'["mcu"] = flash["mcu"]
    BY <1>1, <1>8, SpareMcu
  <2>2. QED
    BY <1>2, <2>1 DEF IInv, ReadyWhole, OfferKept, Whole
<1>12. QED
  BY <1>5, <1>6, <1>7, <1>9, <1>10, <1>11, TypeNext DEF IInv

-----------------------------------------------------------------------------
LEMMA InvInit == Init => IInv
<1> SUFFICES ASSUME Init PROVE IInv
    OBVIOUS
<1>1. \A u \in Places : InPlace(u)
  BY DEF Init, InPlace
<1>2. ErasingKept /\ StartsWhole
  BY OtaAssumption DEF Init, ErasingKept, StartsWhole, Starts, Started
<1>3. ReadyWhole /\ OfferKept /\ LineKept
  BY DEF Init, ReadyWhole, OfferKept, LineKept
<1>4. QED
  BY <1>1, <1>2, <1>3, TypeInit DEF IInv

LEMMA Inductive == ASSUME IInv, [Next]_vars PROVE IInv'
<1>1. CASE \E t \in Places, v \in Versions : Begin(t, v)
  BY <1>1, InvBegin
<1>2. CASE SendPiece
  BY <1>2, InvMistaken, InvWrite
<1>3. CASE SendEnd
  BY <1>3, InvSendEnd
<1>4. CASE (\E k \in Tasks : FirstPacket(k)) \/ AskFirst \/ Lost
  BY <1>4, InvServe
<1>5. CASE \E seq \in 1 .. Room : AskBlock(seq)
  BY <1>5, InvAskBlock
<1>6. CASE McuReceives
  BY <1>6, InvMcuReceives
<1>7. CASE Restart
  BY <1>7, InvRestart
<1>8. CASE EraseUnit
  BY <1>8, InvEraseUnit
<1>9. CASE UNCHANGED vars
  <2>1. /\ UNCHANGED <<phone, begins, restarts, size, aimed, flash, low, running, erasing, kept, marked>>
        /\ UNCHANGED <<header, tmp, line, mcu, ready, stale, strayed>>
    BY <1>9 DEF vars, phoneVars, moduleVars, placeVars, serveVars, historyVars
  <2>2. TypeOK'
    BY <2>1 DEF IInv, TypeOK
  <2>3. \A u \in Places : InPlace(u)'
    BY <2>1 DEF IInv, InPlace
  <2>4. ErasingKept' /\ StartsWhole' /\ ReadyWhole' /\ OfferKept' /\ LineKept'
    BY <2>1 DEF IInv, ErasingKept, StartsWhole, Starts, Started, Image, ReadyWhole,
                OfferKept, LineKept, Whole
  <2>5. QED
    BY <2>2, <2>3, <2>4 DEF IInv
<1>10. QED
  BY <1>1, <1>2, <1>3, <1>4, <1>5, <1>6, <1>7, <1>8, <1>9 DEF Next

LEMMA Invariance == Spec => []IInv
BY InvInit, Inductive, PTL DEF Spec

-----------------------------------------------------------------------------
(***************************************************************************)
(* The module's variables keep their types; the MCU never has more blocks  *)
(* than the image it was offered, whatever block it asked for again.       *)
(***************************************************************************)
THEOREM TypeCorrect == Spec => []TypeOK
<1>1. IInv => TypeOK
  BY DEF IInv
<1>2. QED
  BY <1>1, Invariance, PTL

(***************************************************************************)
(* After WriteSwapSig it is the whole image that starts, whether the       *)
(* restart comes at once or not, unless the download may have gone wrong.  *)
(***************************************************************************)
THEOREM ModuleStarts == Spec => []StartsWhole
<1>1. IInv => StartsWhole
  BY DEF IInv
<1>2. QED
  BY <1>1, Invariance, PTL

(***************************************************************************)
(* The blocks the MCU took under an offer of the downloaded image are that *)
(* image's (update_frame_opt).                                             *)
(***************************************************************************)
THEOREM McuTakesOneImage == Spec => []McuImageIsWhole
<1>1. IInv => McuImageIsWhole
  BY DEF IInv, OfferKept, McuImageIsWhole
<1>2. QED
  BY <1>1, Invariance, PTL
================================================================================
