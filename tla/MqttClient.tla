----------------------------- MODULE MqttClient -----------------------------
(***************************************************************************)
(* The MQTT client of the LwIP application: mqtt_task and mqtt_send_task   *)
(* (User/Tasks/src/tasks_mqtt.c), the client functions they call           *)
(* (User/MQTT_ALiYun/mqttclient.c) and the socket wrapper under them       *)
(* (User/MQTT_ALiYun/transport.c).                                         *)
(*                                                                         *)
(* mqtt_task opens a connection, logs in, subscribes and then serves       *)
(* packets, pinging a quiet connection; any failure closes the socket and  *)
(* starts again.  mqtt_send_task publishes on the same socket whatever     *)
(* mqtt_task is doing.  The broker and TCP are the environment: the broker *)
(* may refuse, publish, close or repeat a PUBREL; the link may go silent.  *)
(*                                                                         *)
(* A packet is [t |-> type, id |-> number]; a segment carries whole        *)
(* packets.  The payload of a message is the message itself.               *)
(***************************************************************************)
EXTENDS Naturals, Sequences

CONSTANTS
    Levels,       \* qualities of service at which the broker publishes
    IdMod,        \* number of packet identifiers on the wire (2^16)
    MaxMsgs,      \* bound: messages the broker publishes
    MaxSessions,  \* bound: connections the client opens
    MaxUp         \* bound: packets waiting towards the broker beyond which neither
                  \* the send task publishes nor the broker repeats a PUBREL

ASSUME MqttAssumption ==
    /\ Levels \subseteq 0..2
    /\ IdMod \in Nat \ {0}
    /\ {MaxMsgs, MaxSessions, MaxUp} \subseteq Nat

VARIABLES
    pc,          \* where mqtt_task is
    PacketID,    \* the counter of mqtt_subscribe, 32 bits wide
    slot,        \* mqtt_user_msg: the message, its packet ID, its valid flag
    socks,       \* sockets the client holds
    link,        \* the connection: "none", "up", "silent" or "reset"
    eof,         \* the broker's FIN follows the packets of down
    up,          \* packets on their way to the broker
    down,        \* packets on their way to the client, or received and unread
    broker,      \* the broker's side: "new", "session" or "closed"
    subscribed,  \* the broker accepted the subscription on this connection
    level,       \* quality of service of each message published so far
    released,    \* QoS 2 messages of this connection whose PUBREC has arrived
    done,        \* messages whose PUBACK or PUBCOMP the broker has received
    handled,     \* how often UserMsgCtl has processed each message
    crossed      \* history: the packet IDs that QoS 0 messages left in the slot

clientVars  == <<pc, PacketID, slot, socks, handled, crossed>>
brokerVars  == <<broker, subscribed, level, released, done>>
linkVars    == <<link, eof, up, down>>
vars == <<clientVars, brokerVars, linkVars>>

Types == {"CONNECT", "CONNACK", "CONNREFUSED", "SUBSCRIBE", "SUBACK", "SUBFAIL",
          "PUBLISH", "PUBACK", "PUBREC", "PUBREL", "PUBCOMP",
          "PINGREQ", "PINGRESP", "FIN"}
Packet(t, id) == [t |-> t, id |-> id]
Published     == 1..Len(level)

TypeOK ==
    /\ pc \in {"open", "login", "connack", "subscribe", "suback",
               "serve", "process", "pong", "close", "drain"}
    /\ PacketID \in 0..MaxSessions
    /\ slot \in [msg : 0..MaxMsgs, id : 0..MaxMsgs, valid : BOOLEAN]
    /\ socks \in Nat
    /\ link \in {"none", "up", "silent", "reset"}
    /\ eof \in BOOLEAN /\ subscribed \in BOOLEAN
    /\ up \in Seq([t : Types, id : Nat]) /\ down \in Seq([t : Types, id : Nat])
    /\ broker \in {"new", "session", "closed"}
    /\ level \in Seq(Levels)
    /\ released \subseteq Published /\ done \subseteq Published
    /\ handled \in [1..MaxMsgs -> Nat]
    /\ crossed \subseteq 0..MaxMsgs

Init ==
    /\ pc = "open" /\ PacketID = 0 /\ socks = 0
    /\ slot = [msg |-> 0, id |-> 0, valid |-> FALSE]
    /\ link = "none" /\ eof = FALSE /\ up = <<>> /\ down = <<>>
    /\ broker = "closed" /\ subscribed = FALSE
    /\ level = <<>> /\ released = {} /\ done = {}
    /\ handled = [m \in 1..MaxMsgs |-> 0] /\ crossed = {}

-----------------------------------------------------------------------------
(* The socket, as transport.c and lwIP's select see it.                    *)

\* select() reports the socket readable: data, the peer's FIN or an error
Readable == down # <<>> \/ eof \/ link = "reset"

\* write() takes a packet unless the connection is gone
CanWrite == link \in {"up", "silent"}
Write(p) == up' = IF CanWrite THEN Append(up, p) ELSE up

\* MQTTPacket_read: the type of the next packet, -1 at FIN or on an error
NextType == IF down = <<>> THEN "none" ELSE Head(down).t
Consume  == down' = IF down = <<>> THEN down ELSE Tail(down)

\* mqtt_task gives the connection up
GiveUp == pc' = "close"

-----------------------------------------------------------------------------
(* mqtt_task.                                                              *)

\* Mutants of AfterOpen: the failed socket is kept, or closed twice
OpenFailsLeaks(connected) == socks + 1
OpenFailsClosesTwice(connected) == IF connected THEN socks + 1 ELSE socks - 1

\* The sockets left after an attempt to connect
AfterOpen(connected) == IF connected THEN socks + 1 ELSE socks

\* transport_open, lines 43-53 of the task: connected, or closed and retried
Open ==
    /\ pc = "open" /\ PacketID < MaxSessions
    /\ \E connected \in BOOLEAN :
          /\ socks' = AfterOpen(connected)
          /\ IF connected
             THEN /\ pc' = "login" /\ link' = "up" /\ broker' = "new"
                  /\ up' = <<>> /\ down' = <<>> /\ eof' = FALSE
                  /\ subscribed' = FALSE /\ released' = {}
             ELSE UNCHANGED <<pc, linkVars, broker, subscribed, released>>
    /\ UNCHANGED <<PacketID, slot, handled, crossed, level, done>>

\* mqtt_connect: CONNECT is written, its result ignored
Login ==
    /\ pc = "login"
    /\ Write(Packet("CONNECT", 0))
    /\ pc' = "connack"
    /\ UNCHANGED <<PacketID, slot, socks, handled, crossed, link, eof, down, brokerVars>>

\* MQTTPacket_read without a timeout: the next packet or the end of the stream
Connack ==
    /\ pc = "connack" /\ Readable
    /\ Consume
    /\ IF NextType = "CONNACK" THEN pc' = "subscribe" ELSE GiveUp
    /\ UNCHANGED <<PacketID, slot, socks, handled, crossed, link, eof, up, brokerVars>>

\* mqtt_subscribe up to its select: the wire carries 16 bits of the counter
Subscribe ==
    /\ pc = "subscribe"
    /\ PacketID' = PacketID + 1
    /\ Write(Packet("SUBSCRIBE", PacketID % IdMod))
    /\ IF CanWrite THEN pc' = "suback" ELSE GiveUp
    /\ UNCHANGED <<slot, socks, handled, crossed, link, eof, down, brokerVars>>

\* Mutant of Granted: the return code 0x80 is not looked at
GrantedUnread == NextType \in {"SUBACK", "SUBFAIL"} /\ Head(down).id = PacketID - 1

\* The packet read is the SUBACK that grants this SUBSCRIBE
Granted == NextType = "SUBACK" /\ Head(down).id = PacketID - 1

\* mqtt_subscribe from its select: the answer, or two seconds without one
Suback ==
    /\ pc = "suback"
    /\ IF Readable /\ Granted THEN pc' = "serve" ELSE GiveUp
    /\ Consume
    /\ UNCHANGED <<PacketID, slot, socks, handled, crossed, link, eof, up, brokerVars>>

-----------------------------------------------------------------------------
(* mqtt_pktype_ctl, for the packet p that mqtt_packet_read returned.       *)

\* Mutant of UserMsgCtl: the message stays valid after it was processed
UserMsgCtlKept(s) ==
    /\ handled' = [handled EXCEPT ![s.msg] = @ + 1]
    /\ slot' = s

\* UserMsgCtl on the message of slot s: processed once, then not valid
UserMsgCtl(s) ==
    /\ handled' = [handled EXCEPT ![s.msg] = @ + 1]
    /\ slot' = [s EXCEPT !.valid = FALSE]

\* deliverMessage: the message replaces what the slot held
Deliver(m, id) == [msg |-> m, id |-> id, valid |-> TRUE]

\* A QoS 0 PUBLISH has no packet ID: the code stores an unset variable
Publish0(m) ==
    /\ \E id \in 0..MaxMsgs : UserMsgCtl(Deliver(m, id)) /\ crossed' = crossed \cup {id}
    /\ UNCHANGED <<pc, up>>

\* QoS 1 up to the PUBACK, which is sent before the message is processed; a
\* message whose PUBACK cannot be written is left in the slot.
Publish1(m) ==
    /\ slot' = Deliver(m, m)
    /\ Write(Packet("PUBACK", m))
    /\ IF CanWrite THEN pc' = "process" ELSE UNCHANGED pc
    /\ UNCHANGED <<handled, crossed>>

\* QoS 2: kept in the slot until the broker's PUBREL
Publish2(m) ==
    /\ slot' = Deliver(m, m)
    /\ Write(Packet("PUBREC", m))
    /\ UNCHANGED <<pc, handled, crossed>>

\* Mutant of Matches: the packet ID of the PUBREL is not compared
MatchesAny(id) == id \in Published

\* The PUBREL names the packet the slot holds
Matches(id) == id = slot.id

\* PUBREL: ignored for another ID; processed if still valid; answered
Release(id) ==
    /\ IF ~Matches(id) THEN UNCHANGED <<slot, handled, up>>
       ELSE /\ IF slot.valid THEN UserMsgCtl(slot) ELSE UNCHANGED <<slot, handled>>
            /\ Write(Packet("PUBCOMP", id))
    /\ UNCHANGED <<pc, crossed>>

Control(p) ==
    CASE p.t = "PUBLISH" /\ level[p.id] = 0 -> Publish0(p.id)
      [] p.t = "PUBLISH" /\ level[p.id] = 1 -> Publish1(p.id)
      [] p.t = "PUBLISH" /\ level[p.id] = 2 -> Publish2(p.id)
      [] p.t = "PUBREL" -> Release(p.id)
      [] OTHER -> UNCHANGED <<pc, slot, handled, crossed, up>>

\* The loop of mqtt_task finds a packet; at FIN or an error it only loops on
Serve ==
    /\ pc = "serve" /\ down # <<>>
    /\ Control(Head(down))
    /\ Consume
    /\ UNCHANGED <<PacketID, socks, link, eof, brokerVars>>

\* QoS 1 from the PUBACK on: mqtt_task goes on to UserMsgCtl, whatever the
\* broker, the link and the send task have done meanwhile.
ProcessAcked ==
    /\ pc = "process"
    /\ UserMsgCtl(slot)
    /\ pc' = "serve"
    /\ UNCHANGED <<PacketID, socks, crossed, linkVars, brokerVars>>

\* Half the keep-alive time without a packet: mqtt_ping_req up to its select
Ping ==
    /\ pc = "serve" /\ down = <<>>
    /\ Write(Packet("PINGREQ", 0))
    /\ pc' = "pong"
    /\ UNCHANGED <<PacketID, slot, socks, handled, crossed, link, eof, down, brokerVars>>

\* Mutant of AfterPing: a ping without an answer does not end the session
PingUnchecked == IF down = <<>> \/ NextType = "PINGRESP" THEN "serve" ELSE "close"

\* Where the loop goes on after the ping: anything but a PINGRESP ends it
AfterPing == IF Readable /\ NextType = "PINGRESP" THEN "serve" ELSE "close"

\* mqtt_ping_req from its select: the answer, or five seconds without one
Pong ==
    /\ pc = "pong"
    /\ pc' = AfterPing
    /\ Consume
    /\ UNCHANGED <<PacketID, slot, socks, handled, crossed, link, eof, up, brokerVars>>

\* transport_close: shutdown of the sending side, the FIN goes out
Close ==
    /\ pc = "close"
    /\ Write(Packet("FIN", 0))
    /\ pc' = "drain"
    /\ UNCHANGED <<PacketID, slot, socks, handled, crossed, link, eof, down, brokerVars>>

\* transport_close: recv waits for data, the broker's FIN or an error; close
Drain ==
    /\ pc = "drain" /\ Readable
    /\ socks' = socks - 1
    /\ link' = "none" /\ up' = <<>> /\ down' = <<>> /\ eof' = FALSE
    /\ pc' = "open"
    /\ broker' = "closed"
    /\ UNCHANGED <<PacketID, slot, handled, crossed, subscribed, level, released, done>>

-----------------------------------------------------------------------------
(* mqtt_send_task: every six seconds a QoS 0 message on whatever           *)
(* connection mysock names; after shutdown the write fails.                *)

SocketWritable == link \in {"up", "silent"} /\ pc # "drain"

SendTask ==
    /\ SocketWritable /\ Len(up) < MaxUp
    /\ up' = Append(up, Packet("PUBLISH", 0))
    /\ UNCHANGED <<clientVars, brokerVars, link, eof, down>>

-----------------------------------------------------------------------------
(* The broker and TCP.                                                     *)

BrokerCanSend == link = "up" /\ ~eof

\* The broker closes its side, on its own or because of what it received
BrokerShuts == broker' = "closed" /\ eof' = TRUE

\* The broker takes the next packet and answers it
BrokerTakes ==
    /\ link = "up" /\ broker # "closed" /\ up # <<>>
    /\ up' = Tail(up)
    /\ LET p == Head(up)
           Answer(t) == down' = Append(down, Packet(t, p.id)) /\ UNCHANGED eof
           Quiet     == UNCHANGED <<down, eof>>
       IN \/ /\ broker = "new" /\ p.t = "CONNECT"
             /\ \/ Answer("CONNACK") /\ broker' = "session"
                \/ down' = Append(down, Packet("CONNREFUSED", 0)) /\ BrokerShuts
             /\ UNCHANGED <<subscribed, released, done>>
          \/ /\ p.t = "FIN" \/ (broker = "new" /\ p.t # "CONNECT")
             /\ BrokerShuts
             /\ UNCHANGED <<down, subscribed, released, done>>
          \/ /\ broker = "session" /\ p.t = "SUBSCRIBE"
             /\ \/ Answer("SUBACK") /\ subscribed' = TRUE
                \/ Answer("SUBFAIL") /\ UNCHANGED subscribed
             /\ UNCHANGED <<broker, released, done>>
          \/ /\ broker = "session" /\ p.t = "PINGREQ" /\ Answer("PINGRESP")
             /\ UNCHANGED <<broker, subscribed, released, done>>
          \/ /\ broker = "session" /\ p.t = "PUBREC" /\ Answer("PUBREL")
             /\ released' = released \cup {p.id}
             /\ UNCHANGED <<broker, subscribed, done>>
          \/ /\ broker = "session" /\ p.t \in {"PUBACK", "PUBCOMP"} /\ Quiet
             /\ done' = done \cup {p.id}
             /\ UNCHANGED <<broker, subscribed, released>>
          \/ /\ broker = "session" /\ p.t = "PUBLISH" /\ Quiet
             /\ UNCHANGED <<broker, subscribed, released, done>>
    /\ UNCHANGED <<clientVars, link, level>>

\* The broker publishes: to a subscriber, or while its SUBACK is still to come
BrokerPublishes ==
    /\ BrokerCanSend /\ broker = "session" /\ Len(level) < MaxMsgs
    /\ subscribed \/ \E k \in DOMAIN up : up[k].t = "SUBSCRIBE"
    /\ \E q \in Levels : level' = Append(level, q)
    /\ down' = Append(down, Packet("PUBLISH", Len(level) + 1))
    /\ UNCHANGED <<clientVars, link, eof, up, broker, subscribed, released, done>>

\* A broker that has seen no PUBCOMP repeats its PUBREL, one at a time
BrokerRepeats ==
    /\ BrokerCanSend /\ broker = "session" /\ Len(up) < MaxUp
    /\ \E m \in released \ done :
          /\ \A k \in DOMAIN down : down[k] # Packet("PUBREL", m)
          /\ down' = Append(down, Packet("PUBREL", m))
    /\ UNCHANGED <<clientVars, brokerVars, link, eof, up>>

\* The broker closes the connection on its own
BrokerCloses ==
    /\ BrokerCanSend /\ broker # "closed"
    /\ BrokerShuts
    /\ UNCHANGED <<clientVars, link, up, down, subscribed, level, released, done>>

\* The network loses everything from now on
GoSilent ==
    /\ link = "up"
    /\ link' = "silent"
    /\ UNCHANGED <<clientVars, brokerVars, eof, up, down>>

\* A closed broker answers data with a reset; TCP gives up on a silent link
\* with data or a FIN it cannot deliver; unread packets may go with it
Reset ==
    /\ up # <<>>
    /\ link = "silent" \/ (link = "up" /\ broker = "closed")
    /\ link' = "reset" /\ up' = <<>>
    /\ down' \in {down, <<>>}
    /\ UNCHANGED <<clientVars, brokerVars, eof>>

ClientStep ==
    \/ Open \/ Login \/ Connack \/ Subscribe \/ Suback
    \/ Serve \/ ProcessAcked \/ Ping \/ Pong \/ Close \/ Drain

Next ==
    \/ ClientStep
    \/ SendTask
    \/ BrokerTakes \/ BrokerPublishes \/ BrokerRepeats \/ BrokerCloses
    \/ GoSilent \/ Reset

\* The scheduler runs mqtt_task, timers fire, TCP retransmits until it gives
\* up, and a broker that is reached reads what it is sent.
Fairness ==
    /\ WF_vars(ClientStep)
    /\ WF_vars(Reset)
    /\ WF_vars(BrokerTakes)

Spec == Init /\ [][Next]_vars /\ Fairness

-----------------------------------------------------------------------------
(* Properties.                                                             *)

\* While mqtt_task serves or processes packets or waits for a ping's answer, the
\* broker has accepted the subscription on this connection, whatever the send task and
\* earlier connections left behind (mqtt_subscribe's checks of the SUBACK).
SubscribedWhileServing == pc \in {"serve", "process", "pong"} => subscribed

\* The client holds a socket exactly while it has a connection: no path of
\* transport_open or of the three ways to transport_close leaks one.
OneSocket == socks = IF pc = "open" THEN 0 ELSE 1

\* A message whose PUBACK or PUBCOMP the broker holds has been processed,
\* unless the unset packet ID that a QoS 0 message stores happened to be its
\* own, or it is the one message of QoS 1 that mqtt_task has acknowledged and
\* is about to process: the code sends the PUBACK first.  No second message
\* ever waits like that, and nothing replaces it in mqtt_user_msg meanwhile.
BeingProcessed(m) == pc = "process" /\ slot.msg = m /\ slot.valid
DoneWasHandled ==
    \A m \in done : handled[m] = 1 \/ m \in crossed \/ BeingProcessed(m)

\* No message is processed twice, not even when the PUBREL is repeated
\* (the valid flag of mqtt_user_msg).
HandledOnce == \A m \in Published : handled[m] <= 1

\* A connection that is lost (reset, closed by the broker or silent) once the
\* login is through is noticed by the ping or a failed answer, and mqtt_task
\* opens a new one.
Lost == link \in {"silent", "reset"} \/ eof
LostLinkNoticed ==
    (Lost /\ pc \in {"subscribe", "suback", "serve", "process", "pong"}) ~> pc = "open"
=============================================================================
