----------------------------- MODULE IotSession -----------------------------
(***************************************************************************)
(* HAPNotifyHandle's talks with the network: report_hisdata_to_iot,        *)
(* report_alarm_to_iot and Jiguang_Push of example_ssl_download.c.         *)
(*                                                                         *)
(* Each talk opens a connection of its own and closes it.  A report goes   *)
(* to an MQTT broker: CONNECT, CONNACK, PUBLISH with QoS 1, PUBACK, with   *)
(* up to three seconds' wait for each answer.  report_hisdata_to_iot       *)
(* (strict) gives up without a proper CONNACK; report_alarm_to_iot does    *)
(* not look at what it received and publishes anyway.  Either takes for    *)
(* the PUBACK what one net_recv returns: four bytes that begin with 0x40.  *)
(* Packets travel in order, any number may come with one net_recv, and an  *)
(* answer may be later than the wait.  The connection may break; what is   *)
(* then under way to the broker may still get there, or not.               *)
(*                                                                         *)
(* Sockets are numbers that lwIP gives out again, lowest first, and other  *)
(* tasks (the HomeKit server) open and close theirs meanwhile.             *)
(* net_connect closes the socket of a failed connection and leaves its     *)
(* number in server_fd, which the talk closes once more on its way out.    *)
(***************************************************************************)
EXTENDS Integers, Sequences, FiniteSets

CONSTANTS
  Sockets,  \* numbers of sockets
  Bodies,   \* what a report may say
  NoBody,
  MaxMine   \* bound: sockets the HomeKit server has open

ASSUME SessionAssumption ==
  /\ Sockets \subseteq Nat /\ Sockets # {}
  /\ NoBody \notin Bodies /\ MaxMine \in Nat

VARIABLES
  job,      \* the talk: "none", "push", "alarm" or "his"
  spc,      \* where it stands
  fd,       \* server_fd
  owner,    \* who has each socket: "nobody", "talk" or "hap"
  up,       \* is the connection up?
  login,    \* has the broker accepted CONNECT on it?
  out,      \* packets on their way to the broker
  in,       \* packets on their way from it
  wild,     \* will the talk free pointers it never set?
  result,   \* of the report: "none", "ok" or "failed"
  stray,    \* reports of closed connections still under way (bound: of the
            \* newest such connection)
  mine,     \* sockets the HomeKit server has open, as far as it knows
  leaked,   \* history: sockets of deleted talks
  exposed,  \* history: sockets the HomeKit server got while a talk whose
            \* connection failed was about to close that number again
  got       \* history: did the broker get the report?

connVars == <<up, login, out, in>>
socketVars == <<owner, mine, leaked, exposed>>
sessionVars == <<job, spc, fd, connVars, wild, result, stray, socketVars, got>>

-----------------------------------------------------------------------------
NoSocket == -1
Reports == {"alarm", "his"}
PUBLISH(b) == <<"PUBLISH", b>>
CONNECT == <<"CONNECT", NoBody>>
Published(q) == {b \in Bodies : \E i \in DOMAIN q : q[i] = PUBLISH(b)}

\* lwIP gives out the lowest free number.
Free == {s \in Sockets : owner[s] = "nobody"}
Lowest(s) == s \in Free /\ \A f \in Free : s <= f

SInit ==
  /\ job = "none" /\ spc = "idle" /\ fd = NoSocket
  /\ owner = [s \in Sockets |-> "nobody"] /\ mine = {} /\ leaked = {} /\ exposed = {}
  /\ up = FALSE /\ login = FALSE /\ out = <<>> /\ in = <<>>
  /\ wild = FALSE /\ result = "none" /\ stray = {} /\ got = FALSE

Start(j) ==
  /\ job' = j /\ spc' = "socket"
  /\ UNCHANGED <<fd, connVars, wild, result, stray, socketVars, got>>

Go(to) == spc' = to /\ UNCHANGED <<job, socketVars>>

-----------------------------------------------------------------------------
(* net_connect.                                                            *)
\* A failure that leaves report_alarm_to_iot with root and payload unset.
Fail ==
  /\ spc' = "close" /\ wild' = (job = "alarm")
  /\ result' = IF job \in Reports THEN "failed" ELSE result

\* Mutant: what socket() returned is not checked.
SNoSocketUnchecked ==
  /\ spc = "socket" /\ spc' = "dial"
  /\ UNCHANGED <<job, fd, connVars, wild, result, stray, socketVars, got>>

\* No address for the name, or no socket.
SNoSocket ==
  /\ spc = "socket" /\ Fail
  /\ UNCHANGED <<job, fd, connVars, stray, socketVars, got>>

SSocket ==
  /\ spc = "socket"
  /\ \E s \in Sockets : /\ Lowest(s) /\ fd' = s
                        /\ owner' = [owner EXCEPT ![s] = "talk"]
  /\ spc' = "dial"
  /\ UNCHANGED <<job, connVars, wild, result, stray, mine, leaked, exposed, got>>

SDialFails ==
  /\ spc = "dial" /\ Fail
  /\ owner' = [owner EXCEPT ![fd] = "nobody"]
  /\ UNCHANGED <<job, fd, connVars, stray, mine, leaked, exposed, got>>

\* The CONNECT follows at once.
SDial ==
  /\ spc = "dial" /\ up' = TRUE /\ login' = FALSE /\ in' = <<>>
  /\ IF job = "push"
     THEN out' = <<>> /\ Go("talk")
     ELSE out' = <<CONNECT>> /\ Go("connack")
  /\ UNCHANGED <<fd, wild, result, stray, got>>

-----------------------------------------------------------------------------
(* The exchange.                                                           *)
\* What one net_recv returns: the first n packets under way, or nothing, be
\* it after three seconds or because the connection is broken.
Taken(n) == SubSeq(in, 1, n)
Take(n) == in' = SubSeq(in, n + 1, Len(in))

SConnack ==
  /\ spc = "connack"
  /\ \E n \in 0 .. Len(in) :
       /\ Take(n)
       /\ IF job = "his" /\ Taken(n) # <<"CONNACK">>
          THEN Go("close") /\ result' = "failed"
          ELSE Go("publish") /\ UNCHANGED result
  /\ UNCHANGED <<fd, up, login, out, wild, stray, got>>

SPublish(b) ==
  /\ spc = "publish" /\ Go("puback")
  /\ out' = IF up THEN Append(out, PUBLISH(b)) ELSE out
  /\ UNCHANGED <<fd, up, login, in, wild, result, stray, got>>

\* Mutant: any four bytes are taken for the PUBACK.
SPubackAny ==
  /\ spc = "puback" /\ Go("close")
  /\ \E n \in 0 .. Len(in) :
       Take(n) /\ result' = IF n = 1 THEN "ok" ELSE "failed"
  /\ UNCHANGED <<fd, up, login, out, wild, stray, got>>

SPuback ==
  /\ spc = "puback" /\ Go("close")
  /\ \E n \in 0 .. Len(in) :
       Take(n) /\ result' = IF Taken(n) = <<"PUBACK">> THEN "ok" ELSE "failed"
  /\ UNCHANGED <<fd, up, login, out, wild, stray, got>>

\* The TLS talk of Jiguang_Push ends one way or the other.
STalk ==
  /\ spc = "talk" /\ Go("close")
  /\ UNCHANGED <<fd, connVars, wild, result, stray, got>>

\* The end of the connection; what is under way to the broker may get there.
HangUp ==
  /\ up' = FALSE /\ login' = FALSE /\ out' = <<>> /\ in' = <<>>
  /\ stray' = IF Published(out) = {} THEN stray ELSE Published(out)

\* Mutant: a report that failed does not close its socket.
SCloseIfOk ==
  /\ spc = "close" /\ spc' = "returned"
  /\ owner' = IF fd \in Sockets /\ result = "ok" THEN [owner EXCEPT ![fd] = "nobody"] ELSE owner
  /\ fd' = NoSocket /\ HangUp
  /\ UNCHANGED <<job, wild, result, mine, leaked, exposed, got>>

SClose ==
  /\ spc = "close" /\ spc' = "returned"
  /\ owner' = IF fd \in Sockets THEN [owner EXCEPT ![fd] = "nobody"] ELSE owner
  /\ fd' = NoSocket /\ HangUp
  /\ UNCHANGED <<job, wild, result, mine, leaked, exposed, got>>

Talk(b) == \/ SNoSocket \/ SSocket \/ SDialFails \/ SDial
           \/ SConnack \/ SPublish(b) \/ SPuback \/ STalk \/ SClose

-----------------------------------------------------------------------------
(* The broker and the network.                                             *)
NetKeep == UNCHANGED <<job, spc, fd, wild, result, socketVars>>
Arrives(packet) == up /\ out # <<>> /\ Head(out) = packet /\ out' = Tail(out)

BAccept ==
  /\ Arrives(CONNECT) /\ login' = TRUE /\ in' = Append(in, "CONNACK")
  /\ NetKeep /\ UNCHANGED <<up, stray, got>>

BRefuse ==
  /\ up /\ out # <<>> /\ Head(out) = CONNECT
  /\ up' = FALSE /\ out' = <<>> /\ in' = Append(in, "REFUSED")
  /\ NetKeep /\ UNCHANGED <<login, stray, got>>

BPublish(b) ==
  /\ login /\ Arrives(PUBLISH(b)) /\ got' = TRUE /\ in' = Append(in, "PUBACK")
  /\ NetKeep /\ UNCHANGED <<up, login, stray>>

Break == up /\ HangUp /\ NetKeep /\ UNCHANGED got

\* What closed connections left under way arrives late, or never.
BStray(b) ==
  /\ b \in stray /\ stray' = stray \ {b}
  /\ NetKeep /\ UNCHANGED <<connVars, got>>

Network == BAccept \/ BRefuse \/ Break

-----------------------------------------------------------------------------
(* The HomeKit server's sockets.                                           *)
HapAccept ==
  /\ Cardinality(mine) < MaxMine
  /\ \E s \in Sockets : /\ Lowest(s)
                        /\ owner' = [owner EXCEPT ![s] = "hap"] /\ mine' = mine \cup {s}
                        /\ exposed' = IF s = fd THEN exposed \cup {s} ELSE exposed
  /\ UNCHANGED <<job, spc, fd, wild, result, stray, leaked, got, connVars>>

\* It closes the number it has, whoever that belongs to by now.
HapClose ==
  /\ \E s \in mine :
       /\ owner' = [owner EXCEPT ![s] = "nobody"] /\ mine' = mine \ {s}
       /\ exposed' = exposed \ {s} /\ leaked' = leaked \ {s}
       /\ IF s = fd THEN HangUp ELSE UNCHANGED <<connVars, stray>>
  /\ UNCHANGED <<job, spc, fd, wild, result, got>>

Hap == HapAccept \/ HapClose

-----------------------------------------------------------------------------
(* The loop is deleted in the middle of a talk, or the chip is reset.      *)
Gone ==
  /\ job' = "none" /\ spc' = "idle" /\ fd' = NoSocket
  /\ wild' = FALSE /\ result' = "none" /\ got' = FALSE /\ HangUp

SDeleted ==
  /\ job # "none" /\ spc # "returned" /\ Gone
  /\ leaked' = leaked \cup {s \in Sockets : s = fd /\ owner[s] = "talk"}
  /\ UNCHANGED <<owner, mine, exposed>>

\* cJSON_Delete or free of a pointer that was never set.
SCrash ==
  /\ spc = "close" /\ wild /\ Gone
  /\ owner' = [s \in Sockets |-> "nobody"] /\ mine' = {} /\ leaked' = {} /\ exposed' = {}

-----------------------------------------------------------------------------
Calls == {"none", "push", "alarm", "his"}
Connected == {"connack", "publish", "puback", "talk"}

SessionTypeOK ==
  /\ job \in Calls
  /\ spc \in {"idle", "socket", "dial", "close", "returned"} \cup Connected
  /\ (job = "none") <=> (spc = "idle")
  /\ fd \in Sockets \cup {NoSocket}
  /\ spc \in Connected \cup {"dial"} => fd \in Sockets
  /\ owner \in [Sockets -> {"nobody", "talk", "hap"}]
  /\ {mine, leaked, exposed} \subseteq SUBSET Sockets
  /\ {up, login, wild, got} \subseteq BOOLEAN
  /\ out \in Seq({CONNECT} \cup {PUBLISH(b) : b \in Bodies})
  /\ in \in Seq({"CONNACK", "REFUSED", "PUBACK"})
  /\ result \in {"none", "ok", "failed"}
  /\ stray \subseteq Bodies

(***************************************************************************)
(* A report implements what Delivery promises: 1 is returned only for a    *)
(* message the broker got over this connection, although CONNACKs come     *)
(* late, several packets come at once and connections break.               *)
(***************************************************************************)
D == INSTANCE Delivery WITH
       call <- CASE job \notin Reports -> "idle"
                 [] job \in Reports /\ spc # "returned" -> "busy"
                 [] OTHER -> result

ImplementsDelivery == D!Spec

(***************************************************************************)
(* Every socket is free, the HomeKit server's, the present talk's or one   *)
(* that a deleted talk left open, and the server has those it believes it  *)
(* has -- except one it got while a talk whose connection failed was about *)
(* to close the same number once more.                                     *)
(***************************************************************************)
SocketsAccounted ==
  \A s \in Sockets \ exposed :
    /\ owner[s] = "hap" <=> s \in mine
    /\ owner[s] = "talk" /\ s # fd <=> s \in leaked
=============================================================================
