---------------------------- MODULE Alarms_proofs ----------------------------
(***************************************************************************)
(* Proofs about the talks with the network and alarm_handle, for any       *)
(* sockets, any values of the alarms and any number of deletions.          *)
(***************************************************************************)
EXTENDS Alarms, TLAPS

-----------------------------------------------------------------------------
(***************************************************************************)
(* The invariants.                                                         *)
(***************************************************************************)
Early == {"socket", "dial", "connack", "publish"}

\* server_fd is set from socket() to the close, and nobody else's but when exposed.
SocketKept ==
  /\ spc \in {"idle", "socket", "returned"} => fd = NoSocket
  /\ fd \in Sockets \ exposed => owner[fd] # "hap"

\* Where the exchange stands fits the call; nothing is under way without one.
CallKept ==
  /\ spc \in {"connack", "publish", "puback"} => job \in Reports
  /\ spc = "talk" => job = "push"
  /\ spc \in {"idle", "socket", "dial", "returned"} => out = <<>> /\ in = <<>>
  /\ job \notin Reports => out = <<>> /\ in = <<>> /\ ~got /\ ~wild

\* There is one PUBLISH to a report, and no PUBACK before it got there.
OncePublished ==
  /\ \A i \in DOMAIN out : out[i] # CONNECT => ~got /\ spc \notin Early
  /\ \A i, j \in DOMAIN out : out[i] # CONNECT /\ out[j] # CONNECT => i = j
  /\ spc \in Early => ~got
  /\ \A i \in DOMAIN in : in[i] = "PUBACK" => got

ResultKept ==
  spc \in {"close", "returned"} /\ job \in Reports
     => result = "failed" \/ (result = "ok" /\ got)

SessionInv == CallKept /\ OncePublished /\ ResultKept

\* The report of outlet A says what alarm_handle took, unless spoilt.
SaysA == [o |-> "A", type |-> Type(memo["A"])]

SaysTaken ==
  at = "A" /\ ~spoilt =>
    /\ job = "push" \/ (job = "alarm" /\ spc \in Early) => memo["A"] = alarm["A"]
    /\ job = "alarm" =>
         /\ \A i \in DOMAIN out : out[i] \in {CONNECT, PUBLISH(SaysA)}
         /\ got => Type(memo["A"]) \in heard

-----------------------------------------------------------------------------
(***************************************************************************)
(* Types.                                                                  *)
(***************************************************************************)
Packets == {CONNECT} \cup {PUBLISH(b) : b \in Bodies}
Answers == {"CONNACK", "REFUSED", "PUBACK"}

LEMMA ShortSeq == ASSUME NEW S, NEW x \in S PROVE <<x>> \in Seq(S) /\ <<>> \in Seq(S)
OBVIOUS

LEMMA HangUpType ==
  ASSUME SessionTypeOK, HangUp
  PROVE  /\ out' \in Seq(Packets) /\ in' \in Seq(Answers) /\ stray' \subseteq Bodies
         /\ {up', login'} \subseteq BOOLEAN
<1>1. up' = FALSE /\ login' = FALSE /\ out' = <<>> /\ in' = <<>>
  BY DEF HangUp
<1>2. Published(out) \subseteq Bodies
  BY DEF Published
<1>3. stray' \subseteq Bodies
  BY <1>2 DEF HangUp, SessionTypeOK
<1>4. out' \in Seq(Packets)
  BY <1>1
<1>5. in' \in Seq(Answers)
  BY <1>1
<1>6. {up', login'} \subseteq BOOLEAN
  BY <1>1
<1>7. QED
  BY <1>3, <1>4, <1>5, <1>6

LEMMA TakeType ==
  ASSUME SessionTypeOK, NEW n \in 0 .. Len(in), Take(n)
  PROVE  in' \in Seq(Answers)
BY DEF SessionTypeOK, Take, Answers

LEMMA TalkType ==
  ASSUME SessionTypeOK, NEW b \in Bodies, Talk(b) PROVE SessionTypeOK'
<1> USE DEF SessionTypeOK
<1>1. CASE SNoSocket
  BY <1>1 DEF SNoSocket, Fail, connVars, socketVars, Connected
<1>2. CASE SSocket
  BY <1>2 DEF SSocket, connVars, Connected
<1>3. CASE SDialFails
  BY <1>3 DEF SDialFails, Fail, connVars, Connected
<1>4. CASE SDial
  <2>1. out' \in Seq({CONNECT} \cup {PUBLISH(c) : c \in Bodies})
    <3>1. out' = <<>> \/ out' = <<CONNECT>>
      BY <1>4 DEF SDial
    <3>2. CONNECT \in {CONNECT} \cup {PUBLISH(c) : c \in Bodies}
      OBVIOUS
    <3>3. QED
      BY <3>1, <3>2, ShortSeq
  <2>6. in' \in Seq({"CONNACK", "REFUSED", "PUBACK"})
    BY <1>4 DEF SDial
  <2>2. spc' \in {"talk", "connack"} /\ UNCHANGED <<job, fd, owner, mine, leaked, exposed>>
    BY <1>4 DEF SDial, Go, socketVars
  <2>3. up' = TRUE /\ login' = FALSE /\ UNCHANGED <<wild, result, stray, got>>
    BY <1>4 DEF SDial
  <2>4. job' \in Calls /\ ((job' = "none") <=> (spc' = "idle")) /\ fd' \in Sockets
    BY <1>4, <2>2 DEF SDial
  <2>5. {up', login', wild', got'} \subseteq BOOLEAN
    BY <2>3
  <2>7. QED
    BY <2>1, <2>2, <2>3, <2>4, <2>5, <2>6 DEF Connected
<1>5. CASE SConnack
  BY <1>5, TakeType DEF SConnack, Go, socketVars, Connected, Answers
<1>6. CASE SPublish(b)
  BY <1>6 DEF SPublish, Go, socketVars, Connected
<1>7. CASE SPuback
  BY <1>7, TakeType DEF SPuback, Go, socketVars, Connected, Answers
<1>8. CASE STalk
  BY <1>8 DEF STalk, Go, connVars, socketVars, Connected
<1>9. CASE SClose
  BY <1>9, HangUpType DEF SClose, Connected, Packets, Answers
<1>10. QED
  BY <1>1, <1>2, <1>3, <1>4, <1>5, <1>6, <1>7, <1>8, <1>9 DEF Talk

LEMMA CloudType ==
  ASSUME SessionTypeOK, Network \/ \E b \in Bodies : BPublish(b) \/ BStray(b)
  PROVE  SessionTypeOK'
<1> USE DEF SessionTypeOK, NetKeep, socketVars
<1>1. CASE BAccept
  BY <1>1 DEF BAccept, Arrives
<1>2. CASE BRefuse
  <2>1. in' \in Seq({"CONNACK", "REFUSED", "PUBACK"}) /\ out' = <<>> /\ up' = FALSE
        /\ UNCHANGED <<job, spc, fd, wild, result, owner, mine, leaked, exposed>>
        /\ UNCHANGED <<login, stray, got>>
    BY <1>2 DEF BRefuse
  <2>2. out' \in Seq({CONNECT} \cup {PUBLISH(c) : c \in Bodies})
    BY <2>1
  <2>3. QED
    BY <2>1, <2>2 DEF Connected
<1>3. CASE Break
  BY <1>3, HangUpType DEF Break, Packets, Answers
<1>4. ASSUME NEW b \in Bodies, BPublish(b) PROVE SessionTypeOK'
  BY <1>4 DEF BPublish, Arrives
<1>5. ASSUME NEW b \in Bodies, BStray(b) PROVE SessionTypeOK'
  BY <1>5 DEF BStray, connVars
<1>6. QED
  BY <1>1, <1>2, <1>3, <1>4, <1>5 DEF Network

LEMMA HapType == ASSUME SessionTypeOK, Hap PROVE SessionTypeOK'
<1> USE DEF SessionTypeOK
<1>1. CASE HapAccept
  BY <1>1 DEF HapAccept, connVars
<1>2. CASE HapClose
  BY <1>2, HangUpType DEF HapClose, connVars, Packets, Answers
<1>3. QED
  BY <1>1, <1>2 DEF Hap

LEMMA GoneType ==
  ASSUME SessionTypeOK, Gone, owner' \in [Sockets -> {"nobody", "talk", "hap"}],
         {mine', leaked', exposed'} \subseteq SUBSET Sockets
  PROVE  SessionTypeOK'
BY HangUpType DEF SessionTypeOK, Gone, Packets, Answers, Connected, Calls

LEMMA StartType ==
  ASSUME SessionTypeOK, NEW j \in Calls \ {"none"}, Start(j)
  PROVE  SessionTypeOK'
BY DEF SessionTypeOK, Start, connVars, socketVars, Calls, Connected

LEMMA EndType == ASSUME SessionTypeOK, End PROVE SessionTypeOK'
BY DEF SessionTypeOK, End, connVars, socketVars, Calls, Connected

LEMMA SayingType == Saying \in Bodies
<1>1. \A o \in Outlets : AlarmBody(o) \in AllBodies
  BY DEF AlarmBody, AllBodies, Type
<1>2. QED
  BY <1>1, AlarmAssumption DEF Saying, AllBodies

LEMMA TypeStep == ASSUME TypeOK, [Next]_vars PROVE TypeOK'
<1>1. SessionTypeOK
  BY DEF TypeOK
<1>2. Saying \in Bodies
  BY SayingType
<1>3. SessionTypeOK'
  <2>1. ASSUME NEW o \in Outlets, McuReport(o) \/ NothingNew(o) PROVE SessionTypeOK'
    BY <1>1, <2>1 DEF McuReport, NothingNew, sessionVars, connVars, socketVars, SessionTypeOK
  <2>2. ASSUME NEW o \in Outlets, Notice(o) PROVE SessionTypeOK'
    <3>1. Start("push") \/ UNCHANGED sessionVars
      BY <2>2 DEF Notice
    <3>2. QED
      BY <1>1, <3>1, StartType DEF sessionVars, connVars, socketVars, SessionTypeOK, Calls
  <2>3. ASSUME NEW o \in Outlets, Report(o) \/ Reported(o) PROVE SessionTypeOK'
    <3>1. Start("alarm") \/ End
      BY <2>3 DEF Report, Reported
    <3>2. QED
      BY <1>1, <3>1, StartType, EndType DEF Calls
  <2>4. CASE History
    <3>1. Start("his") \/ End \/ UNCHANGED sessionVars
      BY <2>4 DEF History
    <3>2. QED
      BY <1>1, <3>1, StartType, EndType
         DEF Calls, sessionVars, connVars, socketVars, SessionTypeOK
  <2>5. CASE Talking
    BY <1>1, <1>2, <2>5, TalkType DEF Talking
  <2>6. CASE Cloud
    BY <1>1, <2>6, CloudType DEF Cloud
  <2>7. CASE Server
    BY <1>1, <2>7, HapType DEF Server
  <2>8. CASE Deleted \/ Crash
    <3>1. Gone
      BY <2>8 DEF Deleted, SDeleted, Crash, SCrash
    <3>2. /\ owner' \in [Sockets -> {"nobody", "talk", "hap"}]
          /\ {mine', leaked', exposed'} \subseteq SUBSET Sockets
      BY <1>1, <2>8 DEF Deleted, SDeleted, Crash, SCrash, SessionTypeOK
    <3>3. QED
      BY <1>1, <3>1, <3>2, GoneType
  <2>9. CASE UNCHANGED vars
    BY <1>1, <2>9 DEF vars, sessionVars, connVars, socketVars, SessionTypeOK
  <2>10. QED
    BY <2>1, <2>2, <2>3, <2>4, <2>5, <2>6, <2>7, <2>8, <2>9 DEF Next, Handle
<1>4. /\ \A o \in Outlets : {alarm[o], memo[o]} \subseteq AlarmValues[o]
      /\ DOMAIN alarm = Outlets /\ DOMAIN memo = Outlets
      /\ at \in Outlets \cup {"his"} /\ left \in 0 .. MaxDeleted
      /\ heard \subseteq 0 .. 4 /\ spoilt \in BOOLEAN
      /\ job # "none" => (job = "his" <=> at = "his")
  BY DEF TypeOK
<1>5. /\ \A o \in Outlets : {alarm'[o], memo'[o]} \subseteq AlarmValues[o]
      /\ DOMAIN alarm' = Outlets /\ DOMAIN memo' = Outlets
  <2>1. ASSUME NEW o \in Outlets, McuReport(o)
        PROVE  /\ \A p \in Outlets : {alarm'[p], memo'[p]} \subseteq AlarmValues[p]
               /\ DOMAIN alarm' = Outlets /\ DOMAIN memo' = Outlets
    BY <1>4, <2>1 DEF McuReport
  <2>2. ASSUME NEW o \in Outlets, Handle(o)
        PROVE  /\ \A p \in Outlets : {alarm'[p], memo'[p]} \subseteq AlarmValues[p]
               /\ DOMAIN alarm' = Outlets /\ DOMAIN memo' = Outlets
    <3>1. CASE Notice(o)
      BY <1>4, <3>1 DEF Notice
    <3>2. CASE NothingNew(o) \/ Report(o)
      BY <1>4, <3>2 DEF NothingNew, Report, alarmVars
    <3>3. CASE Reported(o)
      BY <1>4, <3>3, AlarmAssumption DEF Reported
    <3>4. QED
      BY <2>2, <3>1, <3>2, <3>3 DEF Handle
  <2>3. CASE Crash
    BY <2>3, AlarmAssumption DEF Crash
  <2>4. CASE History \/ Talking \/ Cloud \/ Server \/ Deleted \/ UNCHANGED vars
    <3>1. UNCHANGED <<alarm, memo>>
      BY <2>4 DEF History, Talking, Cloud, Hears, Server, Deleted, vars, alarmVars
    <3>2. QED
      BY <1>4, <3>1
  <2>5. QED
    BY <2>1, <2>2, <2>3, <2>4 DEF Next
<1>6. at' \in Outlets \cup {"his"} /\ left' \in 0 .. MaxDeleted /\ spoilt' \in BOOLEAN
  <2>1. ASSUME NEW o \in Outlets, McuReport(o) \/ Handle(o)
        PROVE  at' \in Outlets \cup {"his"} /\ left' = left /\ spoilt' \in BOOLEAN
    BY <1>4, <2>1 DEF McuReport, Handle, Notice, NothingNew, Report, Reported, After,
                      alarmVars, Outlets
  <2>2. CASE Deleted \/ Crash
    <3>1. at' = "A" /\ (left' = left \/ (left > 0 /\ left' = left - 1))
      BY <2>2 DEF Deleted, Crash
    <3>2. spoilt' \in BOOLEAN
      BY <1>4, <2>2 DEF Deleted, Crash
    <3>3. left' \in 0 .. MaxDeleted
      BY <1>4, <3>1, AlarmAssumption
    <3>4. QED
      BY <3>1, <3>2, <3>3 DEF Outlets
  <2>3. CASE History \/ Talking \/ Cloud \/ Server \/ UNCHANGED vars
    <3>1. UNCHANGED <<left, spoilt>> /\ at' \in {at, "A"}
      BY <2>3 DEF History, Talking, Cloud, Hears, Server, vars, alarmVars
    <3>2. QED
      BY <1>4, <3>1 DEF Outlets
  <2>4. QED
    BY <1>4, <2>1, <2>2, <2>3 DEF Next
<1>7. heard' \subseteq 0 .. 4
  <2>1. ASSUME NEW b \in Bodies PROVE b.type \in 0 .. 4
    BY AlarmAssumption DEF AllBodies, HisBody
  <2>2. CASE Cloud
    <3>1. UNCHANGED heard \/ \E b \in Bodies : heard' = heard \cup {b.type}
      BY <2>2 DEF Cloud, Hears, alarmVars
    <3>2. CASE UNCHANGED heard
      BY <1>4, <3>2
    <3>3. ASSUME NEW b \in Bodies, heard' = heard \cup {b.type} PROVE heard' \subseteq 0 .. 4
      <4>1. heard \subseteq 0 .. 4 /\ b.type \in 0 .. 4
        BY <1>4, <2>1
      <4>2. QED
        BY <3>3, <4>1
    <3>4. QED
      BY <3>1, <3>2, <3>3
  <2>3. CASE ~Cloud
    <3>1. heard' = heard \/ heard' = {}
      BY <2>3 DEF Next, McuReport, Handle, Notice, NothingNew, Report, Reported, History,
                  Talking, Server, Deleted, Crash, vars, alarmVars
    <3>2. QED
      BY <1>4, <3>1
  <2>4. QED
    BY <2>2, <2>3
<1>8. job' # "none" => (job' = "his" <=> at' = "his")
  <2>1. ASSUME NEW o \in Outlets, Handle(o)
        PROVE job' # "none" => (job' = "his" <=> at' = "his")
    BY <1>4, <2>1 DEF Handle, Notice, NothingNew, Report, Reported, Start, End,
                      sessionVars, alarmVars, Outlets
  <2>2. CASE History
    BY <1>4, <2>2 DEF History, Start, End, sessionVars
  <2>3. CASE Deleted \/ Crash
    BY <2>3 DEF Deleted, SDeleted, Crash, SCrash, Gone
  <2>4. CASE \/ \E o \in Outlets : McuReport(o)
             \/ Talking \/ Cloud \/ Server \/ UNCHANGED vars
    <3>1. UNCHANGED at
      BY <2>4 DEF McuReport, Talking, Cloud, Hears, Server, vars, alarmVars
    <3>2. UNCHANGED job
      <4>1. CASE Talking
        BY <4>1 DEF Talking, Talk, SNoSocket, SSocket, SDialFails, SDial, SConnack,
                    SPublish, SPuback, STalk, SClose, Go
      <4>2. CASE Cloud
        BY <4>2 DEF Cloud, Network, BPublish, BStray, BAccept, BRefuse, Break, NetKeep
      <4>3. CASE Server
        BY <4>3 DEF Server, Hap, HapAccept, HapClose
      <4>4. QED
        BY <2>4, <4>1, <4>2, <4>3 DEF McuReport, vars, sessionVars
    <3>3. QED
      BY <1>4, <3>1, <3>2
  <2>5. QED
    BY <2>1, <2>2, <2>3, <2>4 DEF Next
<1>9. QED
  BY <1>3, <1>5, <1>6, <1>7, <1>8 DEF TypeOK

LEMMA TypeInit == Init => TypeOK
<1> SUFFICES ASSUME Init PROVE TypeOK
    OBVIOUS
<1>1. out \in Seq({CONNECT} \cup {PUBLISH(b) : b \in Bodies})
  BY DEF Init, SInit
<1>2. in \in Seq({"CONNACK", "REFUSED", "PUBACK"})
  BY DEF Init, SInit
<1>3. {up, login, wild, got} \subseteq BOOLEAN
  BY DEF Init, SInit
<1>4. SessionTypeOK
  BY <1>1, <1>2, <1>3 DEF Init, SInit, SessionTypeOK, Calls, Connected
<1>5. /\ \A o \in Outlets : {alarm[o], memo[o]} \subseteq AlarmValues[o]
      /\ DOMAIN alarm = Outlets /\ DOMAIN memo = Outlets
  BY AlarmAssumption DEF Init
<1>6. left \in 0 .. MaxDeleted /\ at = "A" /\ job = "none"
  BY AlarmAssumption DEF Init, SInit
<1>7. heard \subseteq 0 .. 4 /\ spoilt \in BOOLEAN
  BY DEF Init
<1>8. QED
  BY <1>4, <1>5, <1>6, <1>7 DEF TypeOK, Outlets

-----------------------------------------------------------------------------
(***************************************************************************)
(* Sockets.                                                                *)
(***************************************************************************)
SocketInv == SocketKept /\ SocketsAccounted

LEMMA SocketTalk ==
  ASSUME SessionTypeOK, SocketInv, NEW b, Talk(b) PROVE SocketInv'
<1> USE DEF SocketInv, SocketKept, SocketsAccounted
<1>1. NoSocket \notin Sockets
  BY SessionAssumption DEF NoSocket
<1>2. owner \in [Sockets -> {"nobody", "talk", "hap"}]
  BY DEF SessionTypeOK
<1>3. CASE SNoSocket
  BY <1>3 DEF SNoSocket, Fail, socketVars
<1>4. CASE SSocket
  <2>1. PICK s \in Sockets : Lowest(s) /\ fd' = s /\ owner' = [owner EXCEPT ![s] = "talk"]
    BY <1>4 DEF SSocket
  <2>2. owner[s] = "nobody" /\ fd = NoSocket
    BY <1>4, <2>1 DEF Lowest, Free, SSocket
  <2>3. spc' = "dial" /\ UNCHANGED <<mine, leaked, exposed>>
    BY <1>4 DEF SSocket
  <2>4. QED
    BY <1>1, <1>2, <2>1, <2>2, <2>3
<1>5. CASE SDialFails
  <2>1. fd \in Sockets
    BY <1>5 DEF SDialFails, SessionTypeOK
  <2>2. /\ spc' = "close" /\ owner' = [owner EXCEPT ![fd] = "nobody"]
        /\ UNCHANGED <<fd, mine, leaked, exposed>>
    BY <1>5 DEF SDialFails, Fail
  <2>3. QED
    BY <1>2, <2>1, <2>2
<1>6. CASE SDial \/ SConnack \/ SPublish(b) \/ SPuback \/ STalk
  <2>1. /\ spc' \in {"connack", "talk", "publish", "puback", "close"}
        /\ UNCHANGED <<fd, owner, mine, leaked, exposed>>
    BY <1>6 DEF SDial, SConnack, SPublish, SPuback, STalk, Go, socketVars
  <2>2. QED
    BY <2>1
<1>7. CASE SClose
  <2>1. /\ fd' = NoSocket /\ UNCHANGED <<mine, leaked, exposed>>
        /\ owner' = IF fd \in Sockets THEN [owner EXCEPT ![fd] = "nobody"] ELSE owner
    BY <1>7 DEF SClose
  <2>2. QED
    BY <1>1, <1>2, <2>1
<1>8. QED
  BY <1>3, <1>4, <1>5, <1>6, <1>7 DEF Talk

LEMMA SocketHap == ASSUME SessionTypeOK, SocketInv, Hap PROVE SocketInv'
<1> USE DEF SocketInv, SocketKept, SocketsAccounted
<1>1. owner \in [Sockets -> {"nobody", "talk", "hap"}] /\ mine \subseteq Sockets
  BY DEF SessionTypeOK
<1>2. CASE HapAccept
  <2>1. PICK s \in Sockets :
          /\ Lowest(s) /\ owner' = [owner EXCEPT ![s] = "hap"] /\ mine' = mine \cup {s}
          /\ exposed' = IF s = fd THEN exposed \cup {s} ELSE exposed
    BY <1>2 DEF HapAccept
  <2>2. owner[s] = "nobody" /\ UNCHANGED <<spc, fd, leaked>>
    BY <1>2, <2>1 DEF Lowest, Free, HapAccept
  <2>3. QED
    BY <1>1, <2>1, <2>2
<1>3. CASE HapClose
  <2>1. PICK s \in mine :
          /\ owner' = [owner EXCEPT ![s] = "nobody"] /\ mine' = mine \ {s}
          /\ exposed' = exposed \ {s} /\ leaked' = leaked \ {s}
    BY <1>3 DEF HapClose
  <2>2. UNCHANGED <<spc, fd>>
    BY <1>3 DEF HapClose
  <2>3. QED
    BY <1>1, <2>1, <2>2
<1>4. QED
  BY <1>2, <1>3 DEF Hap

LEMMA SocketGone == ASSUME SessionTypeOK, SocketInv, SDeleted \/ SCrash PROVE SocketInv'
<1> USE DEF SocketInv, SocketKept, SocketsAccounted
<1>1. NoSocket \notin Sockets /\ fd' = NoSocket
  BY SessionAssumption DEF NoSocket, SDeleted, SCrash, Gone
<1>2. owner \in [Sockets -> {"nobody", "talk", "hap"}]
  BY DEF SessionTypeOK
<1>3. CASE SDeleted
  BY <1>1, <1>2, <1>3 DEF SDeleted
<1>4. CASE SCrash
  BY <1>1, <1>4 DEF SCrash
<1>5. QED
  BY <1>3, <1>4

LEMMA SocketStep == ASSUME TypeOK, SocketInv, [Next]_vars PROVE SocketInv'
<1>1. SessionTypeOK
  BY DEF TypeOK
<1>2. CASE Talking
  BY <1>1, <1>2, SocketTalk DEF Talking
<1>3. CASE Server
  BY <1>1, <1>3, SocketHap DEF Server
<1>4. CASE Deleted \/ Crash
  BY <1>1, <1>4, SocketGone DEF Deleted, Crash
<1>5. CASE (\E o \in Outlets : McuReport(o) \/ Handle(o)) \/ History \/ UNCHANGED vars
  <2>1. /\ UNCHANGED <<fd, owner, mine, leaked, exposed>>
        /\ UNCHANGED spc \/ spc \in {"idle", "returned"}
    <3>1. spc \in {"idle", "socket", "returned"} \/ job # "none"
      BY <1>1 DEF SessionTypeOK
    <3>2. QED
      BY <1>1, <1>5, <3>1
         DEF McuReport, Handle, Notice, NothingNew, Report, Reported, History, Start, End,
             vars, sessionVars, socketVars, SessionTypeOK
  <2>2. QED
    BY <2>1 DEF SocketInv, SocketKept, SocketsAccounted
<1>6. CASE Cloud
  <2>1. UNCHANGED <<spc, fd, owner, mine, leaked, exposed>>
    BY <1>6 DEF Cloud, Network, BPublish, BStray, BAccept, BRefuse, Break, NetKeep, socketVars
  <2>2. QED
    BY <2>1 DEF SocketInv, SocketKept, SocketsAccounted
<1>7. QED
  BY <1>2, <1>3, <1>4, <1>5, <1>6 DEF Next

LEMMA SocketInit == Init => SocketInv
BY DEF Init, SInit, SocketInv, SocketKept, SocketsAccounted

-----------------------------------------------------------------------------
(***************************************************************************)
(* The exchange.                                                           *)
(***************************************************************************)
LEMMA SessionInit == Init => SessionInv
BY DEF Init, SInit, SessionInv, CallKept, OncePublished, ResultKept, Reports, Early

LEMMA HangUpInv ==
  ASSUME SessionInv, HangUp, UNCHANGED <<job, spc, wild, result, got>> PROVE SessionInv'
BY DEF HangUp, SessionInv, CallKept, OncePublished, ResultKept

LEMMA OnePacket == ASSUME NEW s, NEW a, s = <<a>> PROVE s[1] = a
OBVIOUS

LEMMA SessionTalk ==
  ASSUME SessionTypeOK, SessionInv, NEW b \in Bodies, Talk(b)
  PROVE  SessionInv'
<1> USE DEF SessionInv, CallKept, OncePublished, ResultKept
<1>1. CASE SNoSocket \/ SDialFails
  <2>1. /\ UNCHANGED <<job, out, in, got>> /\ spc \in {"socket", "dial"} /\ spc' = "close"
        /\ wild' = (job = "alarm") /\ (job \in Reports => result' = "failed")
    BY <1>1 DEF SNoSocket, SDialFails, Fail, connVars
  <2>2. ~wild' \/ job' \in Reports
    BY <2>1 DEF Reports
  <2>3. out' = <<>> /\ in' = <<>> /\ ~got'
    BY <2>1 DEF Early
  <2>4. QED
    BY <2>1, <2>2, <2>3 DEF Early
<1>2. CASE SSocket
  BY <1>2 DEF SSocket, connVars, Early
<1>3. CASE SDial
  <2>1. in' = <<>> /\ (out' = <<>> \/ (out' = <<CONNECT>> /\ job' # "push"))
    BY <1>3 DEF SDial, Go
  <2>2. /\ UNCHANGED <<job, wild, result, got>>
        /\ (spc' = "talk" /\ job = "push") \/ (spc' = "connack" /\ job # "push")
    BY <1>3 DEF SDial, Go
  <2>3. ~got /\ job # "none"
    BY <1>3 DEF SDial, Early, SessionTypeOK
  <2>4. job # "push" => job \in Reports
    BY <2>3 DEF SessionTypeOK, Calls, Reports
  <2>5. \A i \in DOMAIN out' : out'[i] = CONNECT
    BY <2>1
  <2>6. QED
    BY <2>1, <2>2, <2>3, <2>4, <2>5 DEF Early, Reports
<1>4. CASE SConnack
  <2>1. PICK n \in 0 .. Len(in) : in' = SubSeq(in, n + 1, Len(in))
    BY <1>4 DEF SConnack, Take
  <2>2. \A i \in DOMAIN in' : in'[i] \in {in[j] : j \in DOMAIN in}
    BY <2>1 DEF SessionTypeOK
  <2>3. /\ UNCHANGED <<job, out, wild, got>> /\ job \in Reports
        /\ spc' = "publish" \/ (spc' = "close" /\ result' = "failed")
    BY <1>4 DEF SConnack, Go
  <2>4. ~got /\ \A i \in DOMAIN out : out[i] = CONNECT
    BY <1>4 DEF SConnack, Early
  <2>5. QED
    BY <2>2, <2>3, <2>4 DEF Early
<1>5. CASE SPublish(b)
  <2>1. /\ out' = out \/ out' = Append(out, PUBLISH(b))
        /\ UNCHANGED <<job, in, wild, result, got>> /\ spc' = "puback" /\ job \in Reports
    BY <1>5 DEF SPublish, Go
  <2>2. ~got /\ \A i \in DOMAIN out : out[i] = CONNECT
    BY <1>5 DEF SPublish, Early
  <2>3. \A i \in DOMAIN out' : out'[i] # CONNECT => i = Len(out) + 1
    BY <2>1, <2>2 DEF SessionTypeOK
  <2>4. QED
    BY <2>1, <2>2, <2>3 DEF Early
<1>6. CASE SPuback
  <2>1. PICK n \in 0 .. Len(in) :
          /\ in' = SubSeq(in, n + 1, Len(in))
          /\ result' = IF SubSeq(in, 1, n) = <<"PUBACK">> THEN "ok" ELSE "failed"
    BY <1>6 DEF SPuback, Take, Taken
  <2>2. \A i \in DOMAIN in' : in'[i] \in {in[j] : j \in DOMAIN in}
    BY <2>1 DEF SessionTypeOK
  <2>3. SubSeq(in, 1, n) = <<"PUBACK">> => got
    <3>1. ASSUME SubSeq(in, 1, n) = <<"PUBACK">> PROVE 1 \in DOMAIN in /\ in[1] = "PUBACK"
      <4>1. Len(SubSeq(in, 1, n)) = n /\ (n >= 1 => SubSeq(in, 1, n)[1] = in[1])
        BY DEF SessionTypeOK
      <4>2. n = 1
        BY <3>1, <4>1
      <4>3. Len(in) \in Nat /\ DOMAIN in = 1 .. Len(in)
        BY DEF SessionTypeOK
      <4>4. 1 \in DOMAIN in
        BY <4>2, <4>3
      <4>5. SubSeq(in, 1, n)[1] = "PUBACK"
        BY <3>1, OnePacket
      <4>6. in[1] = "PUBACK"
        BY <4>1, <4>2, <4>5
      <4>7. QED
        BY <4>4, <4>6
    <3>2. QED
      BY <3>1
  <2>4. UNCHANGED <<job, out, wild, got>> /\ spc' = "close" /\ job \in Reports
    BY <1>6 DEF SPuback, Go
  <2>5. QED
    BY <2>1, <2>2, <2>3, <2>4 DEF Early
<1>7. CASE STalk
  <2>1. UNCHANGED <<job, out, in, wild, result, got>> /\ spc' = "close" /\ spc = "talk"
    BY <1>7 DEF STalk, Go, connVars
  <2>2. job = "push" /\ job \notin Reports
    BY <2>1 DEF Reports
  <2>3. QED
    BY <2>1, <2>2 DEF Early
<1>8. CASE SClose
  BY <1>8 DEF SClose, HangUp, Early
<1>9. QED
  BY <1>1, <1>2, <1>3, <1>4, <1>5, <1>6, <1>7, <1>8 DEF Talk

LEMMA SessionCloud ==
  ASSUME SessionTypeOK, SessionInv, Network \/ \E b \in Bodies : BPublish(b) \/ BStray(b)
  PROVE  SessionInv'
<1> USE DEF SessionInv, CallKept, OncePublished, ResultKept
<1>1. out \in Seq(Packets) /\ in \in Seq(Answers)
  BY DEF SessionTypeOK, Packets, Answers
<1>2. CASE BAccept
  <2>1. /\ out # <<>> /\ Head(out) = CONNECT /\ out' = Tail(out)
        /\ in' = Append(in, "CONNACK") /\ UNCHANGED <<job, spc, wild, result, got>>
    BY <1>2 DEF BAccept, Arrives, NetKeep
  <2>2. \A i \in DOMAIN out' : i + 1 \in DOMAIN out /\ out'[i] = out[i + 1]
    BY <1>1, <2>1
  <2>3. \A i \in DOMAIN in' : in'[i] = "PUBACK" => i \in DOMAIN in /\ in'[i] = in[i]
    BY <1>1, <2>1
  <2>4. \A i, j \in DOMAIN out' : out'[i] # CONNECT /\ out'[j] # CONNECT => i = j
    <3>1. TAKE i, j \in DOMAIN out'
    <3>2. i \in Int /\ j \in Int
      BY <1>1, <2>1
    <3>3. QED
      BY <2>2, <3>2
  <2>5. QED
    BY <2>1, <2>2, <2>3, <2>4
<1>3. CASE BRefuse
  <2>1. /\ out # <<>> /\ out' = <<>> /\ in' = Append(in, "REFUSED")
        /\ UNCHANGED <<job, spc, wild, result, got>>
    BY <1>3 DEF BRefuse, NetKeep
  <2>2. \A i \in DOMAIN in' : in'[i] = "PUBACK" => i \in DOMAIN in /\ in'[i] = in[i]
    BY <1>1, <2>1
  <2>3. QED
    BY <2>1, <2>2
<1>4. CASE Break
  BY <1>4, HangUpInv DEF Break, NetKeep
<1>5. ASSUME NEW b \in Bodies, BPublish(b) PROVE SessionInv'
  <2>1. /\ out # <<>> /\ Head(out) = PUBLISH(b) /\ out' = Tail(out)
        /\ got' = TRUE /\ UNCHANGED <<job, spc, wild, result>>
    BY <1>5 DEF BPublish, Arrives, NetKeep
  <2>2. 1 \in DOMAIN out /\ out[1] # CONNECT
    BY <1>1, <2>1 DEF PUBLISH, CONNECT
  <2>3. job \in Reports /\ spc \notin Early \cup {"idle", "returned"}
    BY <2>1, <2>2 DEF Early
  <2>4. \A i \in DOMAIN out' : out'[i] = CONNECT
    <3>1. TAKE i \in DOMAIN out'
    <3>2. i \in Nat /\ i # 0 /\ i + 1 \in DOMAIN out /\ out'[i] = out[i + 1]
      BY <1>1, <2>1
    <3>3. i + 1 # 1
      BY <3>2
    <3>4. QED
      BY <2>2, <3>2, <3>3
  <2>5. QED
    BY <2>1, <2>3, <2>4 DEF Early
<1>6. ASSUME NEW b \in Bodies, BStray(b) PROVE SessionInv'
  BY <1>6 DEF BStray, NetKeep, connVars
<1>7. QED
  BY <1>2, <1>3, <1>4, <1>5, <1>6 DEF Network

LEMMA SessionStep == ASSUME TypeOK, SessionInv, [Next]_vars PROVE SessionInv'
<1>1. SessionTypeOK
  BY DEF TypeOK
<1>2. Saying \in Bodies
  BY SayingType
<1>3. CASE Talking
  BY <1>1, <1>2, <1>3, SessionTalk DEF Talking
<1>4. CASE Cloud
  BY <1>1, <1>4, SessionCloud DEF Cloud
<1>5. CASE Server
  <2>1. UNCHANGED <<job, spc, wild, result, got>> /\ (UNCHANGED <<out, in>> \/ HangUp)
    BY <1>5 DEF Server, Hap, HapAccept, HapClose, connVars
  <2>2. QED
    BY <2>1, HangUpInv DEF SessionInv, CallKept, OncePublished, ResultKept
<1>6. CASE Deleted \/ Crash
  <2>1. Gone
    BY <1>6 DEF Deleted, SDeleted, Crash, SCrash
  <2>2. QED
    BY <2>1 DEF Gone, HangUp, SessionInv, CallKept, OncePublished, ResultKept, Reports, Early
<1>7. CASE (\E o \in Outlets : McuReport(o) \/ Handle(o)) \/ History \/ UNCHANGED vars
  <2>1. \/ UNCHANGED sessionVars
        \/ \E j \in {"push", "alarm", "his"} : Start(j) /\ (job = "none" \/ job = "push")
                                               /\ (job = "none" \/ spc = "returned")
        \/ End /\ spc = "returned"
    BY <1>7 DEF McuReport, Handle, Notice, NothingNew, Report, Reported, History, vars
  <2>2. CASE UNCHANGED sessionVars
    BY <2>2 DEF sessionVars, connVars, SessionInv, CallKept, OncePublished, ResultKept
  <2>3. ASSUME NEW j, Start(j), job \in {"none", "push"} PROVE SessionInv'
    BY <2>3 DEF Start, connVars, SessionInv, CallKept, OncePublished, ResultKept, Reports, Early
  <2>4. CASE End /\ spc = "returned"
    BY <2>4 DEF End, connVars, SessionInv, CallKept, OncePublished, ResultKept, Reports, Early
  <2>5. QED
    BY <2>1, <2>2, <2>3, <2>4
<1>8. QED
  BY <1>3, <1>4, <1>5, <1>6, <1>7 DEF Next

-----------------------------------------------------------------------------
(***************************************************************************)
(* A report implements Delivery.                                           *)
(***************************************************************************)
DCall == CASE job \notin Reports -> "idle"
           [] job \in Reports /\ spc # "returned" -> "busy"
           [] OTHER -> result

\* A step of Delivery, in the terms of a report.
DStep ==
  \/ DCall = "idle" /\ DCall' = "busy" /\ UNCHANGED got
  \/ DCall = "busy" /\ ~got /\ got' = TRUE /\ UNCHANGED DCall
  \/ DCall = "busy" /\ ((got /\ DCall' = "ok") \/ DCall' = "failed") /\ UNCHANGED got
  \/ DCall \in {"ok", "failed"} /\ DCall' = "idle" /\ got' = FALSE
  \/ DCall = "busy" /\ DCall' = "idle" /\ got' = FALSE
  \/ UNCHANGED DCall /\ UNCHANGED got

LEMMA DeliveryStep == DStep => [D!Next]_(D!vars)
BY DEF DStep, DCall, D!Next, D!Call, D!Deliver, D!Return, D!Done, D!Abandon, D!vars

LEMMA ReportStep == ASSUME TypeOK, SessionInv, [Next]_vars PROVE DStep
<1>1. SessionTypeOK
  BY DEF TypeOK
<1>2. CASE Talking
  <2>1. CASE SClose
    <3>1. spc = "close" /\ spc' = "returned" /\ UNCHANGED <<job, result, got>>
      BY <2>1 DEF SClose
    <3>2. job \in Reports => result = "failed" \/ (result = "ok" /\ got)
      BY <3>1 DEF SessionInv, ResultKept
    <3>3. QED
      BY <3>1, <3>2 DEF DStep, DCall
  <2>2. CASE ~SClose
    <3>1. UNCHANGED <<job, got>> /\ spc # "returned" /\ spc' # "returned"
      BY <1>2, <2>2 DEF Talking, Talk, SNoSocket, SSocket, SDialFails, SDial, SConnack,
                        SPublish, SPuback, STalk, Fail, Go
    <3>2. QED
      BY <3>1 DEF DStep, DCall
  <2>3. QED
    BY <2>1, <2>2
<1>3. CASE Cloud
  <2>1. ASSUME NEW b \in Bodies, BPublish(b) PROVE DStep
    <3>1. /\ out # <<>> /\ Head(out) = PUBLISH(b) /\ got' = TRUE /\ UNCHANGED <<job, spc, result>>
      BY <2>1 DEF BPublish, Arrives, NetKeep
    <3>2. 1 \in DOMAIN out /\ out[1] # CONNECT
      BY <1>1, <3>1 DEF SessionTypeOK, PUBLISH, CONNECT
    <3>3. ~got /\ job \in Reports /\ spc # "returned"
      BY <3>1, <3>2 DEF SessionInv, CallKept, OncePublished
    <3>4. QED
      BY <3>1, <3>3 DEF DStep, DCall
  <2>2. CASE ~\E b \in Bodies : BPublish(b)
    <3>1. UNCHANGED <<job, spc, result, got>>
      BY <1>3, <2>2 DEF Cloud, Network, BStray, BAccept, BRefuse, Break, NetKeep
    <3>2. QED
      BY <3>1 DEF DStep, DCall
  <2>3. QED
    BY <2>1, <2>2
<1>4. CASE Deleted \/ Crash
  <2>1. job' = "none" /\ got' = FALSE /\ spc # "returned"
    BY <1>4 DEF Deleted, SDeleted, Crash, SCrash, Gone
  <2>2. job \notin Reports => got = FALSE
    BY <1>1 DEF SessionInv, CallKept, SessionTypeOK
  <2>3. QED
    BY <2>1, <2>2 DEF DStep, DCall, Reports
<1>5. CASE Server \/ UNCHANGED vars \/ \E o \in Outlets : McuReport(o) \/ NothingNew(o)
  <2>1. UNCHANGED <<job, spc, result, got>>
    BY <1>5 DEF Server, Hap, HapAccept, HapClose, vars, sessionVars, McuReport, NothingNew
  <2>2. QED
    BY <2>1 DEF DStep, DCall
<1>6. CASE History \/ \E o \in Outlets : Notice(o) \/ Report(o) \/ Reported(o)
  <2>1. \/ UNCHANGED <<job, spc, result, got>>
        \/ /\ job \notin Reports /\ spc' = "socket" /\ UNCHANGED got
        \/ /\ job \in Reports /\ spc = "returned" /\ job' = "none" /\ got' = FALSE
    BY <1>6 DEF History, Notice, Report, Reported, Start, End, sessionVars, Reports
  <2>2. job \in Reports /\ spc = "returned" => result \in {"ok", "failed"}
    BY DEF SessionInv, ResultKept
  <2>3. QED
    BY <2>1, <2>2 DEF DStep, DCall, Reports
<1>7. QED
  BY <1>2, <1>3, <1>4, <1>5, <1>6 DEF Next, Handle

-----------------------------------------------------------------------------
(***************************************************************************)
(* What the cloud hears of outlet A.                                       *)
(***************************************************************************)
SaysInv == SaysTaken /\ RememberedWasTold

LEMMA SaysInit == Init => SaysInv
<1> SUFFICES ASSUME Init PROVE SaysInv
    OBVIOUS
<1>1. job = "none" /\ memo["A"] = NoAlarm
  BY DEF Init, SInit, Outlets
<1>2. QED
  BY <1>1 DEF SaysInv, SaysTaken, RememberedWasTold

LEMMA SaysHandle ==
  ASSUME TypeOK, SessionInv, SaysInv, NEW o \in Outlets, McuReport(o) \/ Handle(o)
  PROVE  SaysInv'
<1> USE DEF SaysInv, SaysTaken, RememberedWasTold, SaysA
<1>1. DOMAIN alarm = Outlets /\ DOMAIN memo = Outlets /\ SessionTypeOK
  BY DEF TypeOK
<1>2. o = "A" \/ (o = "B" /\ o # "A")
  BY DEF Outlets
<1>3. "A" \in Outlets
  BY DEF Outlets
<1>4. CASE McuReport(o)
  <2>1. /\ UNCHANGED <<job, spc, out, got, memo, at, heard>>
        /\ spoilt' = (spoilt \/ (o = "A" /\ Taking(o)))
        /\ o # "A" => alarm'["A"] = alarm["A"]
    BY <1>1, <1>3, <1>4 DEF McuReport, sessionVars, connVars
  <2>2. CASE o # "A"
    BY <2>1, <2>2
  <2>3. CASE o = "A" /\ ~Taking(o)
    <3>1. ~spoilt' => ~spoilt
      BY <2>1
    <3>2. at = "A" => job # "push" /\ ~(job = "alarm" /\ spc \in Early)
      BY <2>3 DEF Taking, Early
    <3>3. QED
      BY <2>1, <3>1, <3>2
  <2>4. CASE o = "A" /\ Taking(o)
    BY <2>1, <2>4
  <2>5. QED
    BY <2>2, <2>3, <2>4
<1>5. CASE Notice(o)
  <2>1. CASE o = "A"
    <3>1. memo'["A"] = alarm'["A"] /\ heard' = {} /\ spoilt' = FALSE
      BY <1>1, <1>3, <1>5, <2>1 DEF Notice
    <3>2. \/ alarm["A"] = NoAlarm /\ at' = "B" /\ memo'["A"] = NoAlarm
          \/ at' = "A" /\ job' = "push"
      BY <1>1, <1>3, <1>5, <2>1, <3>1 DEF Notice, After, Start
    <3>3. QED
      BY <3>1, <3>2
  <2>2. CASE o # "A"
    <3>1. /\ at # "A" /\ at' # "A" /\ UNCHANGED <<heard, spoilt>>
          /\ memo'["A"] = memo["A"]
      BY <1>1, <1>2, <1>3, <1>5, <2>2 DEF Notice, After
    <3>2. QED
      BY <3>1
  <2>3. QED
    BY <2>1, <2>2
<1>6. CASE NothingNew(o)
  <2>1. job = "none" /\ at' # "A" /\ UNCHANGED <<memo, heard, spoilt>>
    BY <1>6 DEF NothingNew, After
  <2>2. QED
    BY <2>1
<1>7. CASE Report(o)
  <2>1. /\ job = "push" /\ job' = "alarm" /\ spc' = "socket" /\ UNCHANGED <<out, got>>
        /\ UNCHANGED <<alarm, memo, at, heard, spoilt>>
    BY <1>7 DEF Report, Start, connVars, alarmVars
  <2>2. out = <<>> /\ ~got
    BY <2>1 DEF SessionInv, CallKept, Reports
  <2>3. QED
    BY <2>1, <2>2
<1>8. CASE Reported(o)
  <2>1. CASE o = "A"
    <3>1. /\ at = "A" /\ job = "alarm" /\ spc = "returned" /\ at' # "A"
          /\ UNCHANGED <<heard, spoilt>>
          /\ memo'["A"] = IF result # "ok" THEN NoAlarm ELSE memo["A"]
      BY <1>1, <1>3, <1>8, <2>1 DEF Reported, After
    <3>2. result = "ok" => got
      BY <3>1 DEF SessionInv, ResultKept, Reports
    <3>3. QED
      BY <3>1, <3>2
  <2>2. CASE o # "A"
    <3>1. at # "A" /\ at' # "A" /\ UNCHANGED <<memo, heard, spoilt>>
      BY <1>2, <1>8, <2>2 DEF Reported, After
    <3>2. QED
      BY <3>1
  <2>3. QED
    BY <2>1, <2>2
<1>9. QED
  BY <1>4, <1>5, <1>6, <1>7, <1>8 DEF Handle

LEMMA SaysTalking == ASSUME TypeOK, SaysInv, SessionInv, Talking PROVE SaysInv'
<1> USE DEF SaysInv, SaysTaken, RememberedWasTold, SaysA
<1>1. UNCHANGED <<alarm, memo, at, heard, spoilt>> /\ Talk(Saying)
  BY DEF Talking, alarmVars
<1>2. UNCHANGED <<job, got>>
  BY <1>1 DEF Talk, SNoSocket, SSocket, SDialFails, SDial, SConnack,
              SPublish, SPuback, STalk, SClose, Go
<1>3. SessionTypeOK
  BY DEF TypeOK
<1>4. spc' \in Early => spc \in Early
  BY <1>1 DEF Talk, SNoSocket, SSocket, SDialFails, SDial, SConnack, SPublish, SPuback,
              STalk, SClose, Fail, Go, Early
<1>5. CASE SPublish(Saying)
  <2>1. out' = out \/ out' = Append(out, PUBLISH(Saying))
    BY <1>5 DEF SPublish
  <2>2. ASSUME at = "A", ~spoilt, job = "alarm"
        PROVE  \A i \in DOMAIN out' : out'[i] \in {CONNECT, PUBLISH(SaysA)}
    <3>1. memo["A"] = alarm["A"]
      BY <1>5, <2>2 DEF SPublish, Early
    <3>2. Saying = SaysA
      BY <2>2, <3>1 DEF Saying, Outlets, AlarmBody
    <3>3. \A i \in DOMAIN out : out[i] \in {CONNECT, PUBLISH(SaysA)}
      BY <2>2
    <3>4. out \in Seq(Packets)
      BY <1>3 DEF SessionTypeOK, Packets
    <3> HIDE DEF SaysA
    <3>5. QED
      BY <2>1, <3>2, <3>3, <3>4
  <2>3. QED
    BY <1>1, <1>2, <1>4, <2>2
<1>6. CASE ~SPublish(Saying)
  <2>1. \A i \in DOMAIN out' : out'[i] = CONNECT \/ out' = out
    BY <1>1, <1>6 DEF Talk, SNoSocket, SSocket, SDialFails, SDial, SConnack,
                      SPuback, STalk, SClose, HangUp, connVars
  <2>2. QED
    BY <1>1, <1>2, <1>4, <2>1
<1>7. QED
  BY <1>5, <1>6

LEMMA SaysCloud == ASSUME TypeOK, SaysInv, Cloud PROVE SaysInv'
<1> USE DEF SaysInv, SaysTaken, RememberedWasTold, SaysA
<1>1. out \in Seq(Packets)
  BY DEF TypeOK, SessionTypeOK, Packets
<1>2. UNCHANGED <<job, spc, alarm, memo, at, spoilt>> /\ heard \subseteq heard'
  BY DEF Cloud, Network, BPublish, BStray, BAccept, BRefuse, Break, NetKeep, Hears, alarmVars
<1>3. \A i \in DOMAIN out' : \E j \in DOMAIN out : out'[i] = out[j]
  <2>1. out' = <<>> \/ out' = out \/ (out # <<>> /\ out' = Tail(out))
    BY DEF Cloud, Network, BPublish, BStray, BAccept, BRefuse, Break, HangUp, Arrives, connVars
  <2>2. QED
    BY <1>1, <2>1
<1>4. CASE UNCHANGED got
  BY <1>2, <1>3, <1>4
<1>5. ASSUME NEW b \in Bodies, BPublish(b), Hears(b) PROVE SaysInv'
  <2>1. out # <<>> /\ Head(out) = PUBLISH(b)
    BY <1>5 DEF BPublish, Arrives
  <2>2. 1 \in DOMAIN out /\ out[1] = PUBLISH(b) /\ PUBLISH(b) # CONNECT
    BY <1>1, <2>1 DEF PUBLISH, CONNECT
  <2>3. ASSUME at = "A", ~spoilt, job = "alarm" PROVE Type(memo["A"]) \in heard'
    <3>1. PUBLISH(b) = PUBLISH(SaysA)
      BY <2>2, <2>3
    <3>2. b.o = "A" /\ b.type = Type(memo["A"])
      BY <3>1 DEF PUBLISH
    <3>3. QED
      BY <1>5, <3>2 DEF Hears
  <2>4. QED
    BY <1>2, <1>3, <2>3
<1>6. QED
  BY <1>4, <1>5 DEF Cloud, Network, BStray, BAccept, BRefuse, Break

LEMMA SaysStep == ASSUME TypeOK, SessionInv, SaysInv, [Next]_vars PROVE SaysInv'
<1> USE DEF SaysInv, SaysTaken, RememberedWasTold, SaysA
<1>1. CASE \E o \in Outlets : McuReport(o) \/ Handle(o)
  BY <1>1, SaysHandle
<1>2. CASE History
  <2>1. at = "his" /\ at' \in {"his", "A"} /\ UNCHANGED <<alarm, memo, heard, spoilt>>
        /\ (at' = "A" => job' = "none")
    BY <1>2 DEF History, End, sessionVars
  <2>2. QED
    BY <2>1
<1>3. CASE Talking \/ Cloud
  BY <1>3, SaysTalking, SaysCloud
<1>4. CASE Server
  <2>1. /\ UNCHANGED <<job, spc, got, alarm, memo, at, heard, spoilt>>
        /\ out' = out \/ out' = <<>>
    BY <1>4 DEF Server, Hap, HapAccept, HapClose, HangUp, connVars, alarmVars
  <2>2. QED
    BY <2>1
<1>5. CASE Deleted
  <2>1. /\ job' = "none" /\ at' = "A" /\ spoilt' = (spoilt \/ at = "A")
        /\ UNCHANGED <<alarm, memo, heard>>
    BY <1>5 DEF Deleted, SDeleted, Gone
  <2>2. QED
    BY <2>1
<1>6. CASE Crash
  <2>1. job' = "none" /\ memo'["A"] = NoAlarm
    BY <1>6 DEF Crash, SCrash, Gone, Outlets
  <2>2. QED
    BY <2>1
<1>7. CASE UNCHANGED vars
  BY <1>7 DEF vars, sessionVars, connVars, alarmVars
<1>8. QED
  BY <1>1, <1>2, <1>3, <1>4, <1>5, <1>6, <1>7 DEF Next

-----------------------------------------------------------------------------
(***************************************************************************)
(* Every variable of the talks and the loop keeps its type; server_fd is a *)
(* socket whenever a connection is used.                                   *)
(***************************************************************************)
THEOREM TypeCorrect == Spec => []TypeOK
BY TypeInit, TypeStep, PTL DEF Spec

(***************************************************************************)
(* Every socket is accounted for, although net_connect and the talk close  *)
(* the same number twice and a deletion closes none.                       *)
(***************************************************************************)
THEOREM SocketsKept == Spec => []SocketsAccounted
<1>1. SocketInv => SocketsAccounted
  BY DEF SocketInv
<1>2. QED
  BY <1>1, TypeCorrect, SocketInit, SocketStep, PTL DEF Spec

(***************************************************************************)
(* report_alarm_to_iot and report_hisdata_to_iot implement Delivery: 1 is  *)
(* returned only for a report the broker got, and it gets it once.         *)
(***************************************************************************)
THEOREM ReportsImplementDelivery == Spec => ImplementsDelivery
<1>1. Init => D!Init
  BY DEF Init, SInit, D!Init, Reports
<1>2. TypeOK /\ SessionInv /\ [Next]_vars => [D!Next]_(D!vars)
  BY ReportStep, DeliveryStep
<1>3. Spec => []SessionInv
  BY TypeCorrect, SessionInit, SessionStep, PTL DEF Spec
<1>4. QED
  BY <1>1, <1>2, <1>3, TypeCorrect, PTL DEF Spec, ImplementsDelivery, D!Spec

(***************************************************************************)
(* The cloud was told of the alarm of outlet A that alarm_handle remembers *)
(* and is not reporting, whatever failed, was late or was reported again.  *)
(***************************************************************************)
THEOREM RememberedIsTold == Spec => []RememberedWasTold
<1>1. SaysInv => RememberedWasTold
  BY DEF SaysInv
<1>2. Spec => []SessionInv
  BY TypeCorrect, SessionInit, SessionStep, PTL DEF Spec
<1>3. QED
  BY <1>1, <1>2, TypeCorrect, SaysInit, SaysStep, PTL DEF Spec

==============================================================================
