------------------------- MODULE MqttClient_proofs -------------------------
(***************************************************************************)
(* Theorems about MqttClient for every number of messages, sessions and    *)
(* packet identifiers, and every set of qualities of service.              *)
(***************************************************************************)
EXTENDS MqttClient, TLAPS

(***************************************************************************)
(* The inductive invariant.  HandledOnce and DoneWasHandled say nothing of *)
(* the packets under way; what carries them is which packets may meet      *)
(* which slot: a PUBLISH on its way in is of a message not yet processed   *)
(* and not in the slot, and an acknowledgement on its way out is of one    *)
(* that was, or of the one that mqtt_task has acknowledged and is about to *)
(* process, which is still the valid one in the slot.                      *)
(***************************************************************************)

\* Answers name messages that were published, in both directions.
Ids ==
    /\ \A k \in 1..Len(down) : down[k].t \in {"PUBLISH", "PUBREL"} => down[k].id \in Published
    /\ \A k \in 1..Len(up) : up[k].t \in {"PUBACK", "PUBREC", "PUBCOMP"} => up[k].id \in Published
    /\ Len(level) <= MaxMsgs

\* A SUBACK under way, and all that follows it, belong to this connection.
Granting ==
    /\ \A k \in 1..Len(down) : down[k].t = "SUBACK" => subscribed
    /\ SubscribedWhileServing

\* What a valid slot holds waits for its PUBREL, under its own identifier.
SlotWaits ==
    slot.valid => slot.msg \in Published /\ slot.id = slot.msg /\ handled[slot.msg] = 0

\* A PUBLISH under way is the only trace of its message.
Fresh ==
    /\ \A k \in 1..Len(down) : down[k].t = "PUBLISH" =>
         /\ handled[down[k].id] = 0
         /\ ~(slot.valid /\ slot.msg = down[k].id)
         /\ \A l \in 1..Len(down) :
              down[l].t = "PUBLISH" /\ down[l].id = down[k].id => l = k
    /\ \A m \in 1..MaxMsgs : m \notin Published => handled[m] = 0
    /\ \A m \in 1..MaxMsgs : handled[m] <= 1

\* A message was processed, or its identifier is one a QoS 0 message left.
Seen(m) == handled[m] = 1 \/ m \in crossed

\* It was seen, or mqtt_task is about to process it.
Known(m) == Seen(m) \/ BeingProcessed(m)

\* Only what is known is acknowledged, what is about to be processed is valid,
\* and a slot not valid holds a message that was seen.
Acks ==
    /\ \A k \in 1..Len(up) : up[k].t \in {"PUBACK", "PUBCOMP"} => Known(up[k].id)
    /\ ~slot.valid => slot.id = 0 \/ Seen(slot.id)
    /\ pc = "process" => slot.valid
    /\ DoneWasHandled

\* A connection is opened only while its subscription's identifier is in bounds.
Bounded == pc \in {"login", "connack", "subscribe"} => PacketID < MaxSessions

IInv == TypeOK /\ OneSocket /\ Bounded /\ Ids /\ Granting /\ SlotWaits /\ Fresh /\ Acks

Packets == [t : Types, id : Nat]

(***************************************************************************)
(* Operators                                                               *)
(***************************************************************************)

\* Consuming a packet leaves the rest of them, one place forward.
LEMMA ConsumeFacts ==
  ASSUME down \in Seq(Packets), Consume
  PROVE  /\ down' \in Seq(Packets)
         /\ Len(down') <= Len(down)
         /\ \/ down' = <<>>
            \/ Len(down') = Len(down) - 1 /\ \A k \in 1..Len(down') : down'[k] = down[k + 1]
<1>1. CASE down = <<>>
  BY <1>1 DEF Consume
<1>2. CASE down # <<>>
  BY <1>2 DEF Consume
<1>3. QED
  BY <1>1, <1>2

\* Writing a packet adds it behind the others, or nothing.
LEMMA WriteFacts ==
  ASSUME up \in Seq(Packets), NEW p \in Packets, Write(p)
  PROVE  /\ up' \in Seq(Packets)
         /\ \A k \in 1..Len(up') : up'[k] = p \/ (k \in 1..Len(up) /\ up'[k] = up[k])
BY DEF Write

\* The next packet is one of those under way.
LEMMA HeadFacts ==
  ASSUME NEW s \in Seq(Packets), s # <<>>
  PROVE  Head(s) = s[1] /\ 1 \in 1..Len(s) /\ s[1] \in Packets
OBVIOUS

\* No packets are a sequence of packets.
LEMMA EmptyPackets == <<>> \in Seq(Packets) /\ Len(<<>>) = 0
OBVIOUS

\* A packet with a known type and a natural identifier is a packet.
LEMMA PacketType ==
  ASSUME NEW t \in Types, NEW id \in Nat
  PROVE  Packet(t, id) \in Packets /\ Packet(t, id).t = t /\ Packet(t, id).id = id
BY DEF Packet, Packets

(***************************************************************************)
(* Types and sockets                                                       *)
(***************************************************************************)

\* Power-on satisfies the invariant.
LEMMA InitEstablishes == Init => IInv
<1> SUFFICES ASSUME Init PROVE IInv
  OBVIOUS
<1>1. TypeOK
  <2>1. MaxMsgs \in Nat /\ MaxSessions \in Nat
    BY MqttAssumption
  <2>2. up \in Seq([t : Types, id : Nat]) /\ down \in Seq([t : Types, id : Nat])
    BY DEF Init
  <2>3. level \in Seq(Levels) /\ handled \in [1..MaxMsgs -> Nat]
    BY DEF Init
  <2>4. slot \in [msg : 0..MaxMsgs, id : 0..MaxMsgs, valid : BOOLEAN]
    BY <2>1 DEF Init
  <2>5. eof \in BOOLEAN /\ subscribed \in BOOLEAN
    BY Zenon DEF Init
  <2>6. PacketID \in 0..MaxSessions /\ socks \in Nat
    BY <2>1 DEF Init
  <2>7. /\ released \subseteq Published /\ done \subseteq Published
        /\ crossed \subseteq 0..MaxMsgs
    BY DEF Init
  <2>8. QED
    BY <2>2, <2>3, <2>4, <2>5, <2>6, <2>7, Zenon DEF Init, TypeOK
<1>2. OneSocket /\ Bounded /\ Granting /\ SlotWaits
  BY DEF Init, OneSocket, Bounded, Granting, SubscribedWhileServing, SlotWaits
<1>3. Ids /\ Fresh /\ Acks
  BY MqttAssumption DEF Init, Ids, Fresh, Acks, DoneWasHandled, Published
<1>4. QED
  BY <1>1, <1>2, <1>3 DEF IInv

\* What mqtt_pktype_ctl does, one case for each kind of packet.
LEMMA ControlCases ==
  ASSUME TypeOK, Ids, pc = "serve", down # <<>>, Control(Head(down))
  PROVE  LET p == Head(down) IN
         \/ p.t = "PUBLISH" /\ p.id \in Published /\ Publish0(p.id)
         \/ p.t = "PUBLISH" /\ p.id \in Published /\ Publish1(p.id)
         \/ p.t = "PUBLISH" /\ p.id \in Published /\ Publish2(p.id)
         \/ p.t = "PUBREL" /\ p.id \in Published /\ Release(p.id)
         \/ UNCHANGED <<pc, slot, handled, crossed, up>>
<1> DEFINE p == Head(down)
<1>1. p = down[1] /\ 1 \in 1..Len(down) /\ p \in Packets
  BY HeadFacts DEF TypeOK, Packets
<1>2. CASE p.t = "PUBLISH"
  <2>1. p.id \in Published
    BY <1>1, <1>2 DEF Ids
  <2>2. level[p.id] \in Levels
    <3>1. level \in Seq(Levels) /\ p.id \in 1..Len(level)
      BY <2>1 DEF TypeOK, Published
    <3>2. QED
      BY <3>1
  <2>3. CASE level[p.id] = 0
    BY <1>2, <2>1, <2>3 DEF Control
  <2>4. CASE level[p.id] = 1
    BY <1>2, <2>1, <2>4 DEF Control
  <2>5. CASE level[p.id] = 2
    BY <1>2, <2>1, <2>5 DEF Control
  <2>6. level[p.id] = 0 \/ level[p.id] = 1 \/ level[p.id] = 2
    <3>1. \A q \in Levels : q \in 0..2
      BY MqttAssumption
    <3>2. \A q \in 0..2 : q = 0 \/ q = 1 \/ q = 2
      OBVIOUS
    <3>3. QED
      BY <2>2, <3>1, <3>2, Zenon
  <2>7. QED
    BY <2>3, <2>4, <2>5, <2>6
<1>3. CASE p.t = "PUBREL"
  <2>1. p.id \in Published
    BY <1>1, <1>3 DEF Ids
  <2>2. QED
    BY <1>3, <2>1 DEF Control
<1>4. CASE p.t \notin {"PUBLISH", "PUBREL"}
  BY <1>4 DEF Control
<1>5. QED
  BY <1>2, <1>3, <1>4

\* Whatever packet it is, mqtt_task goes on to the next or to processing this one.
LEMMA ServePlaces ==
  ASSUME TypeOK, Ids, Serve
  PROVE  pc = "serve" /\ pc' \in {"serve", "process"}
BY ControlCases DEF Serve, Publish0, Publish1, Publish2, Release

\* The steps in which the packets of the connection and the slot stay apart:
\* mqtt_task's and the send task's but for Serve, and those of the network.
Quiet ==
    Open \/ Login \/ Connack \/ Subscribe \/ Suback \/ Ping \/ Pong \/ Close \/ Drain
    \/ SendTask \/ BrokerCloses \/ GoSilent \/ Reset \/ UNCHANGED vars

\* Every step is one of them, a packet served, a message processed, or one of
\* the broker's.
LEMMA Steps ==
  [Next]_vars <=> \/ Quiet \/ Serve \/ ProcessAcked
                  \/ BrokerTakes \/ BrokerPublishes \/ BrokerRepeats
BY DEF Next, ClientStep, Quiet

\* The packets a quiet step adds are none that the invariant speaks of.
LEMMA QuietFacts ==
  ASSUME TypeOK, Quiet
  PROVE  /\ UNCHANGED <<slot, handled, crossed, level, done>>
         /\ released' \in {released, {}}
         /\ up' \in Seq(Packets) /\ down' \in Seq(Packets)
         /\ \/ down' = <<>>
            \/ down' = down
            \/ Len(down') = Len(down) - 1 /\ \A k \in 1..Len(down') : down'[k] = down[k + 1]
         /\ \A k \in 1..Len(up') :
              \/ up'[k].t \in {"CONNECT", "SUBSCRIBE", "PINGREQ", "FIN", "PUBLISH"}
              \/ k \in 1..Len(up) /\ up'[k] = up[k]
<1> DEFINE Own == {"CONNECT", "SUBSCRIBE", "PINGREQ", "FIN", "PUBLISH"}
<1>1. up \in Seq(Packets) /\ down \in Seq(Packets) /\ PacketID \in Nat
  BY MqttAssumption DEF TypeOK, Packets
<1>2. PacketID % IdMod \in Nat
  BY <1>1, MqttAssumption
<1>3. ASSUME NEW t \in Own, NEW id \in Nat
      PROVE  Packet(t, id) \in Packets /\ Packet(t, id).t \in Own
  BY <1>3, PacketType DEF Types
<1>4. ASSUME NEW t \in Own, NEW id \in Nat, Write(Packet(t, id))
      PROVE  /\ up' \in Seq(Packets)
             /\ \A k \in 1..Len(up') :
                  up'[k].t \in Own \/ (k \in 1..Len(up) /\ up'[k] = up[k])
  BY <1>1, <1>3, <1>4, WriteFacts
<1> HIDE DEF Own
<1> DEFINE Added == \A k \in 1..Len(up') :
                      up'[k].t \in Own \/ (k \in 1..Len(up) /\ up'[k] = up[k])
<1>0. ASSUME up' = <<>> PROVE up' \in Seq(Packets) /\ Added
  <2>1. Len(up') = 0 /\ 1..0 = {}
    BY <1>0
  <2>2. QED
    BY <1>0, <2>1, EmptyPackets
<1>5. CASE Open
  <2>1. CASE UNCHANGED linkVars
    BY <1>1, <1>5, <2>1 DEF Open, linkVars, Own
  <2>2. CASE up' = <<>> /\ down' = <<>> /\ released' = {}
    BY <1>0, <1>5, <2>2, EmptyPackets DEF Open, Own
  <2>3. QED
    BY <1>5, <2>1, <2>2 DEF Open
<1>6. CASE Login
  BY <1>1, <1>4, <1>6 DEF Login, brokerVars, Own
<1>7. CASE Connack \/ Suback \/ Pong
  BY <1>1, <1>7, ConsumeFacts DEF Connack, Suback, Pong, brokerVars
<1>8. CASE Subscribe
  BY <1>1, <1>2, <1>4, <1>8 DEF Subscribe, brokerVars, Own
<1>9. CASE Ping \/ Close
  BY <1>1, <1>4, <1>9 DEF Ping, Close, brokerVars, Own
<1>10. CASE Drain
  BY <1>1, <1>10 DEF Drain
<1>11. CASE SendTask
  <2>1. Packet("PUBLISH", 0) \in Packets /\ Packet("PUBLISH", 0).t \in Own
    BY <1>3 DEF Own
  <2>2. QED
    BY <1>1, <1>11, <2>1 DEF SendTask, clientVars, brokerVars, Own
<1>12. CASE BrokerCloses \/ GoSilent \/ UNCHANGED vars
  BY <1>1, <1>12
     DEF BrokerCloses, BrokerShuts, GoSilent, vars, clientVars, brokerVars, linkVars
<1>13. CASE Reset
  BY <1>0, <1>1, <1>13, EmptyPackets DEF Own, Reset, clientVars, brokerVars
<1>14. QED
  BY <1>5, <1>6, <1>7, <1>8, <1>9, <1>10, <1>11, <1>12, <1>13 DEF Quiet

\* A quiet step neither starts nor ends the processing of a message that was
\* acknowledged.
LEMMA QuietPlaces ==
  ASSUME Quiet
  PROVE  pc' = "process" <=> pc = "process"
<1>1. CASE Open \/ Login \/ Connack \/ Subscribe \/ Suback
  BY <1>1 DEF Open, Login, Connack, Subscribe, Suback, GiveUp
<1>2. CASE Ping \/ Pong \/ Close \/ Drain
  BY <1>2 DEF Ping, Pong, AfterPing, Close, Drain
<1>3. CASE SendTask \/ BrokerCloses \/ GoSilent \/ Reset \/ UNCHANGED vars
  BY <1>3 DEF SendTask, BrokerCloses, GoSilent, Reset, vars, clientVars
<1>4. QED
  BY <1>1, <1>2, <1>3 DEF Quiet

(***************************************************************************)
(* Messages                                                                *)
(***************************************************************************)

Messages == Ids /\ SlotWaits /\ Fresh /\ Acks

\* No message is under way to the client twice.
LEMMA OnePublish ==
  ASSUME Fresh, NEW k \in 1..Len(down), NEW l \in 1..Len(down),
         down[k].t = "PUBLISH", down[l].t = "PUBLISH", down[l].id = down[k].id
  PROVE  l = k
BY DEF Fresh

\* Packets that only move forward or vanish keep what Ids and Fresh say of them.
LEMMA ShiftKeeps ==
  ASSUME TypeOK, Ids, Fresh, UNCHANGED level, down' \in Seq(Packets),
         \/ down' = <<>>
         \/ down' = down
         \/ Len(down') = Len(down) - 1 /\ \A k \in 1..Len(down') : down'[k] = down[k + 1]
  PROVE  /\ \A k \in 1..Len(down') :
              down'[k].t \in {"PUBLISH", "PUBREL"} => down'[k].id \in Published'
         /\ \A k \in 1..Len(down') : down'[k].t = "PUBLISH" =>
              /\ handled[down'[k].id] = 0
              /\ ~(slot.valid /\ slot.msg = down'[k].id)
              /\ \A l \in 1..Len(down') :
                   down'[l].t = "PUBLISH" /\ down'[l].id = down'[k].id => l = k
<1>1. CASE down' = <<>>
  <2>1. 1..Len(down') = {}
    BY <1>1
  <2>2. QED
    BY <2>1
<1>2. CASE down' = down
  BY <1>2 DEF Ids, Fresh, Published
<1>3. CASE Len(down') = Len(down) - 1 /\ \A k \in 1..Len(down') : down'[k] = down[k + 1]
  <2>1. down \in Seq(Packets) /\ Len(down) \in Nat /\ Len(down') \in Nat
    BY DEF TypeOK, Packets
  <2>2. \A k \in 1..Len(down') : k + 1 \in 1..Len(down) /\ down'[k] = down[k + 1]
    BY <1>3, <2>1
  <2>3. \A k, l \in 1..Len(down') : k + 1 = l + 1 => k = l
    BY <2>1
  <2>4. \A k \in 1..Len(down') :
          down'[k].t \in {"PUBLISH", "PUBREL"} => down'[k].id \in Published'
    BY <2>2 DEF Ids, Published
  <2>5. ASSUME NEW k \in 1..Len(down'), down'[k].t = "PUBLISH"
        PROVE  /\ handled[down'[k].id] = 0
               /\ ~(slot.valid /\ slot.msg = down'[k].id)
    BY <2>2, <2>5 DEF Fresh
  <2>6. ASSUME NEW k \in 1..Len(down'), down'[k].t = "PUBLISH",
               NEW l \in 1..Len(down'), down'[l].t = "PUBLISH", down'[l].id = down'[k].id
        PROVE  l = k
    <3>1. /\ k + 1 \in 1..Len(down) /\ down'[k] = down[k + 1]
          /\ l + 1 \in 1..Len(down) /\ down'[l] = down[l + 1]
      BY <2>2
    <3>2. l + 1 = k + 1
      BY <2>6, <3>1, OnePublish
    <3>3. QED
      BY <2>3, <3>2
  <2>7. QED
    BY <2>4, <2>5, <2>6
<1>4. QED
  BY <1>1, <1>2, <1>3

\* A quiet step keeps what is known of the messages.
LEMMA QuietKeeps ==
  ASSUME TypeOK, Messages, Quiet
  PROVE  Messages'
<1> USE DEF Messages
<1>1. UNCHANGED <<slot, handled, crossed, level, done>> /\ Published' = Published
  BY QuietFacts DEF Published
<1>2. /\ \A k \in 1..Len(down') :
           down'[k].t \in {"PUBLISH", "PUBREL"} => down'[k].id \in Published'
      /\ \A k \in 1..Len(down') : down'[k].t = "PUBLISH" =>
           /\ handled[down'[k].id] = 0
           /\ ~(slot.valid /\ slot.msg = down'[k].id)
           /\ \A l \in 1..Len(down') :
                down'[l].t = "PUBLISH" /\ down'[l].id = down'[k].id => l = k
  BY QuietFacts, ShiftKeeps
<1>3. \A k \in 1..Len(up') : up'[k].t \in {"PUBACK", "PUBREC", "PUBCOMP"}
                            => k \in 1..Len(up) /\ up'[k] = up[k]
  BY QuietFacts
<1>4. Ids'
  BY <1>1, <1>2, <1>3 DEF Ids
<1>5. SlotWaits'
  BY <1>1 DEF SlotWaits
<1>6. Fresh'
  BY <1>1, <1>2 DEF Fresh
<1>7. Acks'
  BY <1>1, <1>3, QuietPlaces DEF Acks, Seen, Known, BeingProcessed, DoneWasHandled
<1>8. QED
  BY <1>4, <1>5, <1>6, <1>7

\* Processing a message once makes it seen, and unseen nothing that was.
LEMMA ProcessSeen ==
  ASSUME handled \in [1..MaxMsgs -> Nat], NEW m \in 1..MaxMsgs, handled[m] = 0,
         handled' = [handled EXCEPT ![m] = @ + 1], crossed \subseteq crossed'
  PROVE  /\ Seen(m)'
         /\ \A x \in 1..MaxMsgs : Seen(x) => Seen(x)'
         /\ \A x \in 1..MaxMsgs : handled'[x] = IF x = m THEN 1 ELSE handled[x]
<1>1. \A x \in 1..MaxMsgs : handled'[x] = IF x = m THEN 1 ELSE handled[x]
  OBVIOUS
<1>2. QED
  BY <1>1 DEF Seen

\* Processing a message in mqtt_pktype_ctl keeps what is known of the messages.
LEMMA ServeKeeps ==
  ASSUME TypeOK, Messages, Serve
  PROVE  Messages'
<1> DEFINE p == Head(down)
<1> USE DEF Messages
<1>1. /\ down \in Seq(Packets) /\ up \in Seq(Packets) /\ MaxMsgs \in Nat
      /\ handled \in [1..MaxMsgs -> Nat] /\ Len(level) \in Nat
      /\ slot \in [msg : 0..MaxMsgs, id : 0..MaxMsgs, valid : BOOLEAN]
  BY MqttAssumption DEF TypeOK, Packets
<1>2. p = down[1] /\ 1 \in 1..Len(down) /\ p \in Packets
  BY <1>1, HeadFacts DEF Serve
<1>3. /\ down' \in Seq(Packets)
      /\ Len(down') = Len(down) - 1
      /\ \A k \in 1..Len(down') : k + 1 \in 1..Len(down) /\ down'[k] = down[k + 1]
  BY <1>1 DEF Serve, Consume
<1>4. UNCHANGED <<level, done>> /\ Published' = Published /\ pc = "serve"
  BY DEF Serve, brokerVars, Published
<1>14. /\ \A k \in 1..Len(up) : up[k].t \in {"PUBACK", "PUBCOMP"} => Seen(up[k].id)
       /\ \A m \in done : Seen(m)
  BY <1>4 DEF Acks, Known, Seen, BeingProcessed, DoneWasHandled
<1>5. /\ \A k \in 1..Len(down') :
           down'[k].t \in {"PUBLISH", "PUBREL"} => down'[k].id \in Published'
      /\ \A k \in 1..Len(down') : down'[k].t = "PUBLISH" =>
           /\ handled[down'[k].id] = 0
           /\ ~(slot.valid /\ slot.msg = down'[k].id)
           /\ \A l \in 1..Len(down') :
                down'[l].t = "PUBLISH" /\ down'[l].id = down'[k].id => l = k
  BY <1>3, <1>4, ShiftKeeps
<1>6. ASSUME p.t = "PUBLISH", NEW k \in 1..Len(down'), down'[k].t = "PUBLISH"
      PROVE  down'[k].id # p.id
  <2>1. k + 1 \in 1..Len(down) /\ down'[k] = down[k + 1] /\ k + 1 # 1
    BY <1>3
  <2>2. down[k + 1].t = "PUBLISH" /\ down[1].t = "PUBLISH"
    BY <1>2, <1>6, <2>1
  <2>3. down[k + 1].id # down[1].id
    BY <1>2, <2>1, <2>2, OnePublish
  <2>4. QED
    BY <1>2, <2>1, <2>3
<1>7. ASSUME p.t = "PUBLISH", p.id \in Published
      PROVE  /\ p.id \in 1..MaxMsgs /\ handled[p.id] = 0
             /\ ~(slot.valid /\ slot.msg = p.id)
  BY <1>1, <1>2, <1>7 DEF Fresh, Ids, Published
<1>0. /\ \A k \in 1..Len(up) : up[k].t \in {"PUBACK", "PUBCOMP"} => up[k].id \in 1..MaxMsgs
      /\ slot.id # 0 => slot.id \in 1..MaxMsgs
      /\ \A m \in done : m \in 1..MaxMsgs
  <2>1. Published \subseteq 1..MaxMsgs
    BY <1>1 DEF Ids, Published
  <2>2. \A k \in 1..Len(up) : up[k].t \in {"PUBACK", "PUBCOMP"} => up[k].id \in 1..MaxMsgs
    BY <2>1 DEF Ids
  <2>3. slot.id # 0 => slot.id \in 1..MaxMsgs
    BY <1>1
  <2>4. \A m \in done : m \in 1..MaxMsgs
    <3>1. done \subseteq Published
      BY DEF TypeOK
    <3>2. QED
      BY <2>1, <3>1
  <2>5. QED
    BY <2>2, <2>3, <2>4
<1>8. CASE p.t = "PUBLISH" /\ p.id \in Published /\ Publish0(p.id)
  <2>1. PICK id \in 0..MaxMsgs :
          /\ UserMsgCtl(Deliver(p.id, id)) /\ crossed' = crossed \cup {id}
          /\ UNCHANGED <<pc, up>>
    BY <1>8 DEF Publish0
  <2>2. /\ handled' = [handled EXCEPT ![p.id] = @ + 1]
        /\ slot'.msg = p.id /\ slot'.id = id /\ ~slot'.valid
    BY <2>1 DEF UserMsgCtl, Deliver
  <2>3. Ids'
    BY <1>4, <1>5, <2>1 DEF Ids
  <2>4. SlotWaits'
    BY <2>2 DEF SlotWaits
  <2>5. Fresh'
    <3>1. \A x \in 1..MaxMsgs : handled'[x] = IF x = p.id THEN 1 ELSE handled[x]
      BY <1>1, <1>7, <1>8, <2>2
    <3>2. \A k \in 1..Len(down') : down'[k].t = "PUBLISH" => down'[k].id \in 1..MaxMsgs
      BY <1>1, <1>4, <1>5 DEF Ids, Published
    <3>3. QED
      BY <1>4, <1>5, <1>6, <1>8, <2>2, <3>1, <3>2 DEF Fresh
  <2>6. Acks'
    <3>1. \A x \in 1..MaxMsgs : Seen(x) => Seen(x)'
      BY <1>1, <1>7, <1>8, <2>1, <2>2, ProcessSeen
    <3>2. Seen(slot.id)'
      BY <2>1, <2>2 DEF Seen
    <3>3. DoneWasHandled'
      BY <1>0, <1>4, <1>14, <3>1 DEF Seen, DoneWasHandled
    <3>4. QED
      BY <1>0, <1>4, <1>14, <2>1, <2>2, <3>1, <3>2, <3>3 DEF Acks, Known
  <2>7. QED
    BY <2>3, <2>4, <2>5, <2>6
<1>9. CASE p.t = "PUBLISH" /\ p.id \in Published /\ Publish1(p.id)
  <2>1. p.id \in Nat /\ Packet("PUBACK", p.id) \in Packets
        /\ Packet("PUBACK", p.id).t = "PUBACK" /\ Packet("PUBACK", p.id).id = p.id
    BY <1>2, PacketType DEF Packets, Types
  <2>2. UNCHANGED <<handled, crossed>> /\ \A k \in 1..Len(up') :
          \/ up'[k] = Packet("PUBACK", p.id) /\ CanWrite
          \/ k \in 1..Len(up) /\ up'[k] = up[k]
    BY <1>1, <1>9, <2>1 DEF Publish1, Write
  <2>3. /\ slot'.msg = p.id /\ slot'.id = p.id /\ slot'.valid
        /\ CanWrite => pc' = "process"
    BY <1>9 DEF Publish1, Deliver
  <2>4. Ids'
    BY <1>4, <1>5, <1>9, <2>1, <2>2 DEF Ids
  <2>5. SlotWaits' /\ Fresh'
    BY <1>1, <1>4, <1>5, <1>6, <1>7, <1>9, <2>2, <2>3 DEF SlotWaits, Fresh
  <2>6. \A x : x = p.id /\ CanWrite => BeingProcessed(x)'
    BY <2>3 DEF BeingProcessed
  <2>7. DoneWasHandled'
    BY <1>4, <1>14, <2>2 DEF Seen, DoneWasHandled
  <2>8. (\A k \in 1..Len(up) : up[k].t \in {"PUBACK", "PUBCOMP"} => Known(up[k].id))'
    BY <1>14, <2>1, <2>2, <2>6 DEF Known, Seen
  <2>9. Acks'
    BY <2>3, <2>7, <2>8 DEF Acks
  <2>10. QED
    BY <2>4, <2>5, <2>9
<1>10. CASE p.t = "PUBLISH" /\ p.id \in Published /\ Publish2(p.id)
  <2>1. p.id \in Nat /\ Packet("PUBREC", p.id) \in Packets
        /\ Packet("PUBREC", p.id).t = "PUBREC" /\ Packet("PUBREC", p.id).id = p.id
    BY <1>2, PacketType DEF Packets, Types
  <2>2. UNCHANGED <<pc, handled, crossed>> /\ \A k \in 1..Len(up') :
          up'[k] = Packet("PUBREC", p.id) \/ (k \in 1..Len(up) /\ up'[k] = up[k])
    BY <1>1, <1>10, <2>1 DEF Publish2, Write
  <2>3. slot'.msg = p.id /\ slot'.id = p.id /\ slot'.valid
    BY <1>10 DEF Publish2, Deliver
  <2>4. Ids'
    BY <1>4, <1>5, <1>10, <2>1, <2>2 DEF Ids
  <2>5. SlotWaits' /\ Fresh'
    BY <1>1, <1>4, <1>5, <1>6, <1>7, <1>10, <2>2, <2>3 DEF SlotWaits, Fresh
  <2>6. Acks'
    BY <1>1, <1>4, <1>14, <2>1, <2>2, <2>3 DEF Acks, Seen, Known, DoneWasHandled
  <2>7. QED
    BY <2>4, <2>5, <2>6
<1>11. CASE p.t = "PUBREL" /\ p.id \in Published /\ Release(p.id)
  <2>1. p.id \in Nat \ {0} /\ Packet("PUBCOMP", p.id) \in Packets
        /\ Packet("PUBCOMP", p.id).t = "PUBCOMP" /\ Packet("PUBCOMP", p.id).id = p.id
    BY <1>2, <1>11, PacketType, SMTT(30) DEF Packets, Types, Published
  <2>2. CASE ~Matches(p.id)
    <3>1. UNCHANGED <<pc, slot, handled, crossed, up>>
      BY <1>11, <2>2 DEF Release
    <3>2. QED
      BY <1>4, <1>5, <3>1
         DEF Ids, SlotWaits, Fresh, Acks, Seen, Known, BeingProcessed, DoneWasHandled
  <2>3. CASE Matches(p.id)
    <3>1. UNCHANGED <<pc, crossed>> /\ p.id = slot.id /\ \A k \in 1..Len(up') :
            up'[k] = Packet("PUBCOMP", p.id) \/ (k \in 1..Len(up) /\ up'[k] = up[k])
      <4>1. UNCHANGED <<pc, crossed>> /\ Write(Packet("PUBCOMP", p.id))
        BY <1>11, <2>3 DEF Release
      <4>2. QED
        BY <1>1, <2>1, <2>3, <4>1, WriteFacts DEF Matches
    <3>2. Ids'
      BY <1>4, <1>5, <1>11, <2>1, <3>1 DEF Ids
    <3>3. CASE slot.valid
      <4>1. /\ handled' = [handled EXCEPT ![p.id] = @ + 1]
            /\ ~slot'.valid /\ slot'.id = p.id
            /\ slot.msg = p.id /\ p.id \in 1..MaxMsgs /\ handled[p.id] = 0
        BY <1>1, <1>11, <2>3, <3>1, <3>3 DEF Release, UserMsgCtl, SlotWaits, Ids, Published
      <4>2. /\ handled'[p.id] = 1
            /\ \A x \in 1..MaxMsgs : Seen(x) => Seen(x)'
            /\ \A x \in 1..MaxMsgs : handled'[x] = IF x = p.id THEN 1 ELSE handled[x]
        BY <1>1, <3>1, <4>1, ProcessSeen DEF Seen
      <4>3. SlotWaits'
        BY <4>1 DEF SlotWaits
      <4>4. \A k \in 1..Len(down') : down'[k].t = "PUBLISH" =>
              down'[k].id \in 1..MaxMsgs /\ down'[k].id # p.id
        <5>1. Published' \subseteq 1..MaxMsgs
          BY <1>1, <1>4 DEF Ids, Published
        <5>2. QED
          BY <1>5, <3>3, <4>1, <5>1
      <4>5. Fresh'
        BY <1>4, <1>5, <1>11, <4>1, <4>2, <4>4 DEF Fresh
      <4>6. DoneWasHandled'
        BY <1>0, <1>4, <1>14, <4>2 DEF Seen, DoneWasHandled
      <4>7. Acks'
        BY <1>0, <1>4, <1>14, <2>1, <3>1, <4>1, <4>2, <4>6 DEF Acks, Seen, Known
      <4>8. QED
        BY <3>2, <4>3, <4>5, <4>7
    <3>4. CASE ~slot.valid
      <4>1. UNCHANGED <<slot, handled>>
        BY <1>11, <2>3, <3>4 DEF Release
      <4>2. SlotWaits' /\ Fresh'
        BY <1>4, <1>5, <4>1 DEF SlotWaits, Fresh
      <4>3. Acks'
        BY <1>4, <1>14, <2>1, <3>1, <3>4, <4>1 DEF Acks, Seen, Known, DoneWasHandled
      <4>4. QED
        BY <3>2, <4>2, <4>3
    <3>5. QED
      BY <3>3, <3>4
  <2>4. QED
    BY <2>2, <2>3
<1>12. CASE UNCHANGED <<pc, slot, handled, crossed, up>>
  BY <1>4, <1>5, <1>12
     DEF Ids, SlotWaits, Fresh, Acks, Seen, Known, BeingProcessed, DoneWasHandled
<1>13. QED
  BY <1>8, <1>9, <1>10, <1>11, <1>12, ControlCases DEF Serve

\* Processing the message that was acknowledged makes it one that was seen.
LEMMA ProcessAckedKeeps ==
  ASSUME TypeOK, Messages, ProcessAcked
  PROVE  Messages'
<1> DEFINE m == slot.msg
<1> USE DEF Messages
<1>1. /\ MaxMsgs \in Nat /\ handled \in [1..MaxMsgs -> Nat] /\ Len(level) \in Nat
      /\ slot \in [msg : 0..MaxMsgs, id : 0..MaxMsgs, valid : BOOLEAN]
  BY MqttAssumption DEF TypeOK
<1>2. UNCHANGED <<crossed, up, down, level, done>> /\ Published' = Published
  BY DEF ProcessAcked, linkVars, brokerVars, Published
<1>3. slot.valid /\ m \in Published /\ slot.id = m /\ handled[m] = 0
  BY DEF ProcessAcked, Acks, SlotWaits
<1>4. m \in 1..MaxMsgs
  BY <1>1, <1>3 DEF Ids, Published
<1>5. /\ handled' = [handled EXCEPT ![m] = @ + 1]
      /\ ~slot'.valid /\ slot'.id = m /\ pc' = "serve"
  BY <1>1, <1>3 DEF ProcessAcked, UserMsgCtl
<1>6. /\ handled'[m] = 1
      /\ \A x \in 1..MaxMsgs : Seen(x) => Seen(x)'
      /\ \A x \in 1..MaxMsgs : handled'[x] = IF x = m THEN 1 ELSE handled[x]
  BY <1>1, <1>2, <1>3, <1>4, <1>5, ProcessSeen DEF Seen
<1>7. \A x \in 1..MaxMsgs : Known(x) => Seen(x)'
  BY <1>6 DEF Known, BeingProcessed, Seen
<1>8. Ids' /\ SlotWaits'
  BY <1>2, <1>5 DEF Ids, SlotWaits
<1>9. \A k \in 1..Len(down) : down[k].t = "PUBLISH" =>
        down[k].id \in 1..MaxMsgs /\ down[k].id # m
  BY <1>1, <1>3 DEF Fresh, Ids, Published
<1>10. Fresh'
  BY <1>2, <1>3, <1>5, <1>6, <1>9 DEF Fresh
<1>11. Published \subseteq 1..MaxMsgs /\ done \subseteq Published
  BY <1>1 DEF Ids, Published, TypeOK
<1>12. DoneWasHandled'
  <2>1. \A x \in done : Known(x)
    BY DEF Acks, Known, Seen, DoneWasHandled
  <2>2. QED
    BY <1>2, <1>7, <1>11, <2>1 DEF Seen, DoneWasHandled
<1>13. Acks'
  <2>1. \A k \in 1..Len(up) : up[k].t \in {"PUBACK", "PUBCOMP"} => up[k].id \in 1..MaxMsgs
    BY <1>11 DEF Ids
  <2>2. QED
    BY <1>2, <1>5, <1>6, <1>7, <1>12, <2>1 DEF Acks, Known, Seen
<1>14. QED
  BY <1>8, <1>10, <1>13

\* What the broker takes and answers, as what it does to the two directions.
LEMMA BrokerTakesFacts ==
  ASSUME TypeOK, Ids, BrokerTakes
  PROVE  LET p == Head(up) IN
         /\ UNCHANGED <<pc, slot, handled, crossed, level>>
         /\ p = up[1] /\ 1 \in 1..Len(up) /\ p \in Packets
         /\ up' \in Seq(Packets) /\ Len(up') = Len(up) - 1
         /\ \A k \in 1..Len(up') : k + 1 \in 1..Len(up) /\ up'[k] = up[k + 1]
         /\ \/ done' = done
            \/ done' = done \cup {p.id} /\ p.t \in {"PUBACK", "PUBCOMP"}
         /\ \/ released' = released
            \/ released' = released \cup {p.id} /\ p.t = "PUBREC"
         /\ \/ down' = down
            \/ \E t \in Types : /\ down' = Append(down, Packet(t, IF t = "CONNREFUSED" THEN 0 ELSE p.id))
                                /\ t # "PUBLISH"
                                /\ t = "PUBREL" => p.t = "PUBREC"
                                /\ t = "SUBACK" => subscribed'
<1> DEFINE p == Head(up)
<1>1. up \in Seq(Packets) /\ up # <<>>
  BY DEF BrokerTakes, TypeOK, Packets
<1>2. p = up[1] /\ 1 \in 1..Len(up) /\ p \in Packets
  BY <1>1, HeadFacts
<1>3. /\ up' \in Seq(Packets) /\ Len(up') = Len(up) - 1
      /\ \A k \in 1..Len(up') : k + 1 \in 1..Len(up) /\ up'[k] = up[k + 1]
  BY <1>1 DEF BrokerTakes
<1>4. UNCHANGED <<pc, slot, handled, crossed, level>>
  BY DEF BrokerTakes, clientVars
<1>5. /\ \/ done' = done
         \/ done' = done \cup {p.id} /\ p.t \in {"PUBACK", "PUBCOMP"}
      /\ \/ released' = released
         \/ released' = released \cup {p.id} /\ p.t = "PUBREC"
  BY DEF BrokerTakes
<1>6. \/ down' = down
      \/ \E t \in Types : /\ down' = Append(down, Packet(t, IF t = "CONNREFUSED" THEN 0 ELSE p.id))
                          /\ t # "PUBLISH"
                          /\ t = "PUBREL" => p.t = "PUBREC"
                          /\ t = "SUBACK" => subscribed'
  BY DEF BrokerTakes, Types
<1>7. QED
  BY <1>2, <1>3, <1>4, <1>5, <1>6

\* What the broker takes keeps what is known of the messages: only what is
\* known is acknowledged, and a PUBREL names a message that was published.
LEMMA TakenKeeps ==
  ASSUME TypeOK, Messages, BrokerTakes
  PROVE  Messages'
<1> DEFINE p == Head(up)
<1> USE DEF Messages
<1>1. UNCHANGED <<pc, slot, handled, crossed, level>> /\ Published' = Published
  BY BrokerTakesFacts DEF Published
<1>2. p = up[1] /\ 1 \in 1..Len(up) /\ p \in Packets /\ down \in Seq(Packets)
  BY BrokerTakesFacts DEF TypeOK, Packets
<1>3. \A k \in 1..Len(up') : k + 1 \in 1..Len(up) /\ up'[k] = up[k + 1]
  BY BrokerTakesFacts
<1>4. ASSUME NEW k \in 1..Len(down')
      PROVE  \/ k \in 1..Len(down) /\ down'[k] = down[k]
             \/ /\ down'[k].t # "PUBLISH"
                /\ down'[k].t = "PUBREL" => p.t = "PUBREC" /\ down'[k].id = p.id
  <2>1. CASE down' = down
    BY <2>1
  <2>2. CASE down' # down
    <3>1. PICK t \in Types :
            /\ down' = Append(down, Packet(t, IF t = "CONNREFUSED" THEN 0 ELSE p.id))
            /\ t # "PUBLISH"
            /\ t = "PUBREL" => p.t = "PUBREC"
      BY <2>2, BrokerTakesFacts
    <3>2. k \in 1..Len(down) \/ k = Len(down) + 1
      BY <1>2, <3>1
    <3>3. QED
      BY <1>2, <3>1, <3>2 DEF Packet
  <2>3. QED
    BY <2>1, <2>2
<1>5. Ids'
  BY <1>1, <1>2, <1>3, <1>4 DEF Ids
<1>6. SlotWaits' /\ Fresh'
  BY <1>1, <1>4 DEF SlotWaits, Fresh
<1>7. DoneWasHandled'
  BY <1>1, <1>2, BrokerTakesFacts DEF Acks, Seen, Known, BeingProcessed, DoneWasHandled
<1>8. Acks'
  BY <1>1, <1>3, <1>7 DEF Acks, Seen, Known, BeingProcessed
<1>9. QED
  BY <1>5, <1>6, <1>8

\* A message the broker publishes is new to both sides.
LEMMA PublishedKeeps ==
  ASSUME TypeOK, Messages, BrokerPublishes
  PROVE  Messages'
<1> DEFINE m == Len(level) + 1
<1> USE DEF Messages
<1>1. /\ down \in Seq(Packets) /\ Len(down) \in Nat /\ MaxMsgs \in Nat
      /\ Len(level) \in Nat /\ Len(level') = m /\ m \in 1..MaxMsgs
  BY MqttAssumption DEF TypeOK, Packets, BrokerPublishes
<1>2. UNCHANGED <<pc, slot, handled, crossed, done, up>>
  BY DEF BrokerPublishes, clientVars
<1>3. Published \subseteq Published' /\ m \in Published' /\ m \notin Published
  BY <1>1 DEF Published
<1>4. /\ Len(down') = Len(down) + 1
      /\ down'[Len(down) + 1].t = "PUBLISH" /\ down'[Len(down) + 1].id = m
      /\ \A k \in 1..Len(down') :
           k = Len(down) + 1 \/ (k \in 1..Len(down) /\ down'[k] = down[k])
  BY <1>1 DEF BrokerPublishes, Packet
<1>5. Ids'
  BY <1>1, <1>2, <1>3, <1>4 DEF Ids
<1>6. SlotWaits'
  BY <1>2, <1>3 DEF SlotWaits
<1>7. handled[m] = 0 /\ ~(slot.valid /\ slot.msg = m)
  BY <1>1, <1>3 DEF Fresh, SlotWaits
<1>8. \A k \in 1..Len(down) : down[k].t = "PUBLISH" => down[k].id # m
  BY <1>3 DEF Ids
<1>9. Fresh'
  <2>1. ASSUME NEW k \in 1..Len(down'), down'[k].t = "PUBLISH"
        PROVE  handled[down'[k].id] = 0 /\ ~(slot.valid /\ slot.msg = down'[k].id)
    BY <1>4, <1>7, <2>1 DEF Fresh
  <2>2. ASSUME NEW k \in 1..Len(down'), down'[k].t = "PUBLISH",
               NEW l \in 1..Len(down'), down'[l].t = "PUBLISH", down'[l].id = down'[k].id
        PROVE  l = k
    BY <1>4, <1>8, <2>2 DEF Fresh
  <2>3. QED
    BY <1>2, <1>3, <2>1, <2>2 DEF Fresh
<1>10. Acks'
  BY <1>2 DEF Acks, Seen, Known, BeingProcessed, DoneWasHandled
<1>11. QED
  BY <1>5, <1>6, <1>9, <1>10

\* A PUBREL that the broker repeats names a message that was published.
LEMMA RepeatedKeeps ==
  ASSUME TypeOK, Messages, BrokerRepeats
  PROVE  Messages'
<1> USE DEF Messages
<1>1. PICK m \in released : down' = Append(down, Packet("PUBREL", m))
  BY DEF BrokerRepeats
<1>2. m \in Published /\ down \in Seq(Packets)
  BY DEF TypeOK, Packets
<1>3. UNCHANGED <<pc, slot, handled, crossed, level, done, up>> /\ Published' = Published
  BY DEF BrokerRepeats, clientVars, brokerVars, Published
<1>4. \A k \in 1..Len(down') :
        \/ down'[k].t = "PUBREL" /\ down'[k].id = m
        \/ k \in 1..Len(down) /\ down'[k] = down[k]
  BY <1>1, <1>2 DEF Packet
<1>5. Ids'
  BY <1>2, <1>3, <1>4 DEF Ids
<1>6. SlotWaits' /\ Fresh'
  BY <1>3, <1>4 DEF SlotWaits, Fresh
<1>7. Acks'
  BY <1>3 DEF Acks, Seen, Known, BeingProcessed, DoneWasHandled
<1>8. QED
  BY <1>5, <1>6, <1>7

(***************************************************************************)
(* The connection                                                          *)
(***************************************************************************)

\* Every step keeps that a SUBACK, and a client that serves, mean a
\* subscription of this connection.
LEMMA StepGranting ==
  ASSUME TypeOK, Ids, Granting, [Next]_vars
  PROVE  Granting'
<1> USE DEF Granting, SubscribedWhileServing
<1> DEFINE Moved == \/ down' = <<>>
                    \/ down' = down
                    \/ Len(down') = Len(down) - 1
                       /\ \A k \in 1..Len(down') : down'[k] = down[k + 1]
           NoSuback == \A k \in 1..Len(down') : down'[k].t # "SUBACK"
           Subacks  == \A k \in 1..Len(down') : down'[k].t = "SUBACK" => subscribed'
<1>1. down \in Seq(Packets) /\ Len(down) \in Nat
  BY DEF TypeOK, Packets
<1>2. ASSUME Moved, down' \in Seq(Packets), subscribed' = subscribed PROVE Subacks
  <2>1. CASE down' = <<>>
    <3>1. 1..Len(down') = {}
      BY <2>1
    <3>2. QED
      BY <3>1
  <2>2. CASE down' # <<>>
    <3>1. \A k \in 1..Len(down') : \E l \in 1..Len(down) : down'[k] = down[l]
      BY <1>1, <1>2, <2>2
    <3>2. QED
      BY <1>2, <3>1
  <2>3. QED
    BY <2>1, <2>2
<1>3. CASE Open
  <2>1. CASE UNCHANGED <<pc, linkVars, broker, subscribed, released>>
    BY <2>1 DEF linkVars
  <2>2. CASE pc' = "login" /\ down' = <<>>
    <3>1. 1..Len(down') = {}
      BY <2>2
    <3>2. QED
      BY <2>2, <3>1
  <2>3. QED
    BY <1>3, <2>1, <2>2 DEF Open
<1>4. CASE Quiet /\ ~Open
  <2>1. subscribed' = subscribed
    BY <1>4 DEF Quiet, Login, Connack, Subscribe, Suback, Ping, Pong, Close, Drain,
       SendTask, BrokerCloses, GoSilent, Reset, vars, brokerVars
  <2>2. Subacks
    BY <1>2, <1>4, <2>1, QuietFacts
  <2>3. ASSUME Suback, pc' = "serve" PROVE subscribed
    <3>1. down # <<>> /\ Head(down).t = "SUBACK"
      BY <2>3 DEF Suback, GiveUp, Granted, NextType
    <3>2. QED
      BY <1>1, <3>1, HeadFacts
  <2>4. pc' \in {"serve", "process", "pong"} => subscribed
    BY <1>4, <2>3, QuietPlaces DEF Quiet, Login, Connack, Subscribe, Suback, Ping, Pong, AfterPing,
       Close, Drain, SendTask, BrokerCloses, GoSilent, Reset, vars, clientVars, GiveUp
  <2>5. QED
    BY <2>1, <2>2, <2>4
<1>5. CASE Serve
  <2>1. subscribed' = subscribed /\ pc = "serve"
    BY <1>5 DEF Serve, brokerVars
  <2>2. down' \in Seq(Packets) /\ Moved
    BY <1>1, <1>5, ConsumeFacts DEF Serve
  <2>3. QED
    BY <1>2, <2>1, <2>2
<1>6. CASE BrokerTakes
  <2>1. pc' = pc /\ (subscribed => subscribed')
    BY <1>6 DEF BrokerTakes, clientVars
  <2>2. ASSUME NEW k \in 1..Len(down'), down'[k].t = "SUBACK"
        PROVE  subscribed'
    <3>1. CASE down' = down
      BY <2>1, <2>2, <3>1
    <3>2. CASE down' # down
      <4>1. PICK t \in Types :
              /\ down' = Append(down, Packet(t, IF t = "CONNREFUSED" THEN 0 ELSE Head(up).id))
              /\ t = "SUBACK" => subscribed'
        BY <1>6, <3>2, BrokerTakesFacts
      <4>2. (IF t = "CONNREFUSED" THEN 0 ELSE Head(up).id) \in Nat
        BY <1>6, BrokerTakesFacts DEF Packets
      <4>3. PICK q \in Packets : down' = Append(down, q) /\ q.t = t
        BY <4>1, <4>2, PacketType
      <4>4. down'[k] = q \/ (k \in 1..Len(down) /\ down'[k] = down[k])
        BY <1>1, <4>3
      <4>5. QED
        BY <2>1, <2>2, <4>1, <4>3, <4>4
    <3>3. QED
      BY <3>1, <3>2
  <2>3. QED
    BY <2>1, <2>2
<1>7. CASE BrokerPublishes \/ BrokerRepeats
  <2>1. pc' = pc /\ subscribed' = subscribed
    BY <1>7 DEF BrokerPublishes, BrokerRepeats, clientVars, brokerVars
  <2>2. PICK q \in Packets : down' = Append(down, q) /\ q.t # "SUBACK"
    <3>1. CASE BrokerPublishes
      <4>1. Len(level) + 1 \in Nat
        BY DEF TypeOK
      <4>2. QED
        BY <3>1, <4>1, PacketType DEF BrokerPublishes, Types
    <3>2. CASE BrokerRepeats
      <4>1. \A m \in released : m \in Nat
        BY DEF TypeOK, Published
      <4>2. QED
        BY <3>2, <4>1, PacketType DEF BrokerRepeats, Types
    <3>3. QED
      BY <1>7, <3>1, <3>2
  <2>3. \A k \in 1..Len(down') : down'[k] = q \/ (k \in 1..Len(down) /\ down'[k] = down[k])
    BY <1>1, <2>2
  <2>4. QED
    BY <2>1, <2>2, <2>3
<1>9. CASE ProcessAcked
  BY <1>9 DEF ProcessAcked, linkVars, brokerVars
<1>8. QED
  BY <1>3, <1>4, <1>5, <1>6, <1>7, <1>9, Steps

\* Every step keeps that the client holds one socket or none.
LEMMA StepOneSocket ==
  ASSUME TypeOK, Ids, OneSocket, [Next]_vars
  PROVE  OneSocket'
<1> USE DEF OneSocket
<1>0. CASE Serve
  BY <1>0, ServePlaces DEF Serve
<1>1. CASE Open \/ Drain
  BY <1>1 DEF Open, AfterOpen, Drain
<1>2. CASE Login \/ Connack \/ Subscribe \/ Suback
  BY <1>2 DEF Login, Connack, Subscribe, Suback, GiveUp
<1>3. CASE ProcessAcked \/ Ping \/ Pong \/ Close
  BY <1>3 DEF ProcessAcked, Ping, Pong, AfterPing, Close
<1>4. CASE SendTask \/ BrokerTakes \/ BrokerPublishes \/ BrokerRepeats
           \/ BrokerCloses \/ GoSilent \/ Reset \/ UNCHANGED vars
  BY <1>4 DEF SendTask, BrokerTakes, BrokerPublishes, BrokerRepeats, BrokerCloses,
     GoSilent, Reset, vars, clientVars
<1>5. QED
  BY <1>0, <1>1, <1>2, <1>3, <1>4 DEF Next, ClientStep

(***************************************************************************)
(* Types                                                                   *)
(***************************************************************************)

ControlType ==
  /\ pc \in {"open", "login", "connack", "subscribe", "suback",
             "serve", "process", "pong", "close", "drain"}
  /\ PacketID \in 0..MaxSessions
  /\ link \in {"none", "up", "silent", "reset"}
  /\ broker \in {"new", "session", "closed"}

FlagType == eof \in BOOLEAN /\ subscribed \in BOOLEAN

QueueType ==
  /\ up \in Seq(Packets) /\ down \in Seq(Packets)
  /\ level \in Seq(Levels)
  /\ released \subseteq Published /\ done \subseteq Published

MessageType ==
  /\ slot \in [msg : 0..MaxMsgs, id : 0..MaxMsgs, valid : BOOLEAN]
  /\ handled \in [1..MaxMsgs -> Nat] /\ crossed \subseteq 0..MaxMsgs

\* The four parts, and the sockets, make up TypeOK.
LEMMA TypeSplit ==
  TypeOK <=> ControlType /\ FlagType /\ QueueType /\ MessageType /\ socks \in Nat
BY DEF TypeOK, ControlType, FlagType, QueueType, MessageType, Packets

\* Every step keeps the types of the places and counters, and their bound.
LEMMA StepControlType ==
  ASSUME TypeOK, Ids, Bounded, [Next]_vars
  PROVE  ControlType' /\ Bounded'
<1> USE DEF ControlType, Bounded
<1>1. ControlType /\ MaxSessions \in Nat
  BY TypeSplit, MqttAssumption
<1>2. CASE Open
  BY <1>1, <1>2 DEF Open, linkVars
<1>3. CASE Login \/ Connack
  BY <1>1, <1>3 DEF Login, Connack, GiveUp, brokerVars
<1>4. CASE Subscribe
  BY <1>1, <1>4 DEF Subscribe, GiveUp, brokerVars
<1>5. CASE Suback \/ ProcessAcked
  BY <1>1, <1>5 DEF Suback, ProcessAcked, GiveUp, linkVars, brokerVars
<1>10. CASE Serve
  BY <1>1, <1>10, ServePlaces DEF Serve, brokerVars
<1>6. CASE Ping \/ Pong \/ Close \/ Drain
  BY <1>1, <1>6 DEF Ping, Pong, AfterPing, Close, Drain, brokerVars
<1>7. CASE SendTask \/ BrokerPublishes \/ BrokerRepeats \/ BrokerCloses \/ GoSilent
           \/ Reset \/ UNCHANGED vars
  BY <1>1, <1>7 DEF SendTask, BrokerPublishes, BrokerRepeats, BrokerCloses, BrokerShuts,
     GoSilent, Reset, vars, clientVars, brokerVars, linkVars
<1>8. CASE BrokerTakes
  BY <1>1, <1>8 DEF BrokerTakes, BrokerShuts, clientVars
<1>9. QED
  BY <1>2, <1>3, <1>4, <1>5, <1>6, <1>7, <1>8, <1>10 DEF Next, ClientStep

\* Every step keeps the types of the flags.
LEMMA StepFlagType ==
  ASSUME TypeOK, [Next]_vars
  PROVE  FlagType'
<1> USE DEF FlagType
<1>1. FlagType
  BY TypeSplit
<1>2. eof' = eof \/ eof' = TRUE \/ eof' = FALSE
  BY Zenon DEF Next, ClientStep, Open, Login, Connack, Subscribe, Suback, Serve, ProcessAcked,
     Ping, Pong, Close, Drain, SendTask, BrokerTakes, BrokerPublishes, BrokerRepeats, BrokerCloses,
     BrokerShuts, GoSilent, Reset, vars, linkVars
<1>3. subscribed' = subscribed \/ subscribed' = TRUE \/ subscribed' = FALSE
  BY Zenon DEF Next, ClientStep, Open, Login, Connack, Subscribe, Suback, Serve, ProcessAcked,
     Ping, Pong, Close, Drain, SendTask, BrokerTakes, BrokerPublishes, BrokerRepeats, BrokerCloses,
     GoSilent, Reset, vars, brokerVars
<1>4. QED
  BY <1>1, <1>2, <1>3, Zenon

\* Every step keeps the types of the packets and of the broker's records.
LEMMA StepPacketType ==
  ASSUME TypeOK, Ids, [Next]_vars
  PROVE  QueueType'
<1> USE DEF QueueType
<1>1. QueueType /\ MessageType /\ Len(level) \in Nat
  BY TypeSplit
<1>2. CASE Quiet
  <2>1. Published' = Published
    BY <1>2, QuietFacts DEF Published
  <2>2. QED
    BY <1>1, <1>2, <2>1, QuietFacts
<1>3. CASE Serve
  <2>1. UNCHANGED <<level, released, done>> /\ Published' = Published
    BY <1>3 DEF Serve, brokerVars, Published
  <2>2. down' \in Seq(Packets)
    BY <1>1, <1>3, ConsumeFacts DEF Serve
  <2>3. Head(down).id \in Nat
    BY <1>1, <1>3, HeadFacts DEF Serve, Packets
  <2>4. up' = up \/ \E t \in Types : Write(Packet(t, Head(down).id))
    BY <1>3, ControlCases DEF Serve, Publish0, Publish1, Publish2, Release, Types
  <2>5. up' \in Seq(Packets)
    BY <1>1, <2>3, <2>4, WriteFacts, PacketType
  <2>6. QED
    BY <1>1, <2>1, <2>2, <2>5
<1>8. CASE ProcessAcked
  BY <1>1, <1>8 DEF ProcessAcked, linkVars, brokerVars, Published
<1>4. CASE BrokerTakes
  <2>1. level' = level /\ Published' = Published /\ up' \in Seq(Packets)
    BY <1>4, BrokerTakesFacts DEF Published
  <2>2. Head(up) = up[1] /\ 1 \in 1..Len(up) /\ Head(up).id \in Nat
    BY <1>4, BrokerTakesFacts DEF Packets
  <2>3. released' \subseteq Published' /\ done' \subseteq Published'
    BY <1>1, <1>4, <2>1, <2>2, BrokerTakesFacts DEF Ids
  <2>4. down' \in Seq(Packets)
    <3>1. CASE down' = down
      BY <1>1, <3>1
    <3>2. CASE down' # down
      <4>1. PICK t \in Types :
              down' = Append(down, Packet(t, IF t = "CONNREFUSED" THEN 0 ELSE Head(up).id))
        BY <1>4, <3>2, BrokerTakesFacts
      <4>2. Packet(t, IF t = "CONNREFUSED" THEN 0 ELSE Head(up).id) \in Packets
        BY <2>2, PacketType
      <4>3. QED
        BY <1>1, <4>1, <4>2
    <3>3. QED
      BY <3>1, <3>2
  <2>5. QED
    BY <1>1, <2>1, <2>3, <2>4
<1>5. CASE BrokerPublishes
  <2>1. /\ up' = up /\ released' = released /\ done' = done
        /\ level' \in Seq(Levels) /\ Len(level') = Len(level) + 1
    BY <1>1, <1>5 DEF BrokerPublishes
  <2>2. Published \subseteq Published'
    BY <1>1, <2>1 DEF Published
  <2>3. Packet("PUBLISH", Len(level) + 1) \in Packets
    BY <1>1, PacketType DEF Types
  <2>4. down' \in Seq(Packets)
    BY <1>1, <1>5, <2>3 DEF BrokerPublishes
  <2>5. QED
    BY <1>1, <2>1, <2>2, <2>4
<1>6. CASE BrokerRepeats
  <2>1. UNCHANGED <<up, level, released, done>> /\ Published' = Published
    BY <1>6 DEF BrokerRepeats, brokerVars, Published
  <2>2. \A m \in released : Packet("PUBREL", m) \in Packets
    BY <1>1, PacketType DEF Types, Published
  <2>3. down' \in Seq(Packets)
    BY <1>1, <1>6, <2>2 DEF BrokerRepeats
  <2>4. QED
    BY <1>1, <2>1, <2>3
<1>7. QED
  BY <1>2, <1>3, <1>4, <1>5, <1>6, <1>8, Steps

\* Every step keeps the types of the slot and of the counts.
LEMMA StepMessageType ==
  ASSUME TypeOK, Ids, SlotWaits, Acks, [Next]_vars
  PROVE  MessageType'
<1> USE DEF MessageType
<1>1. MessageType /\ MaxMsgs \in Nat /\ Len(level) \in Nat /\ Len(level) <= MaxMsgs
  BY TypeSplit, MqttAssumption DEF Ids, QueueType
<1>2. ASSUME UNCHANGED <<slot, handled, crossed>> PROVE MessageType'
  BY <1>1, <1>2
<1>0. \A m \in Published : m \in 1..MaxMsgs /\ m \in 0..MaxMsgs
  BY <1>1 DEF Published
<1>3. ASSUME NEW m \in Published, NEW id \in 0..MaxMsgs
      PROVE  /\ m \in 1..MaxMsgs
             /\ Deliver(m, id) \in [msg : 0..MaxMsgs, id : 0..MaxMsgs, valid : BOOLEAN]
             /\ Deliver(m, id).msg = m
  <2>1. m \in 1..MaxMsgs /\ m \in 0..MaxMsgs
    BY <1>0
  <2>2. TRUE \in BOOLEAN
    OBVIOUS
  <2>3. QED
    BY <2>1, <2>2, Zenon DEF Deliver
<1>4. ASSUME NEW s \in [msg : 0..MaxMsgs, id : 0..MaxMsgs, valid : BOOLEAN],
             s.msg \in 1..MaxMsgs, UserMsgCtl(s)
      PROVE  /\ slot' \in [msg : 0..MaxMsgs, id : 0..MaxMsgs, valid : BOOLEAN]
             /\ handled' \in [1..MaxMsgs -> Nat]
  <2>1. slot' \in [msg : 0..MaxMsgs, id : 0..MaxMsgs, valid : BOOLEAN]
    BY <1>4 DEF UserMsgCtl
  <2>2. handled' \in [1..MaxMsgs -> Nat]
    BY <1>1, <1>4 DEF UserMsgCtl
  <2>3. QED
    BY <2>1, <2>2
<1>5. CASE Serve
  <2> DEFINE m == Head(down).id
  <2>1. CASE m \in Published /\ Publish0(m)
    <3>1. PICK id \in 0..MaxMsgs : UserMsgCtl(Deliver(m, id)) /\ crossed' = crossed \cup {id}
      BY <2>1 DEF Publish0
    <3>2. QED
      BY <1>1, <1>3, <1>4, <2>1, <3>1
  <2>2. CASE m \in Published /\ Publish1(m)
    <3>1. m \in 0..MaxMsgs
      BY <1>0, <2>2
    <3>2. QED
      BY <1>1, <1>3, <2>2, <3>1 DEF Publish1
  <2>3. CASE m \in Published /\ Publish2(m)
    <3>1. m \in 0..MaxMsgs
      BY <1>0, <2>3
    <3>2. QED
      BY <1>1, <1>3, <2>3, <3>1 DEF Publish2
  <2>4. CASE m \in Published /\ Release(m)
    <3>1. crossed' = crossed
      BY <2>4 DEF Release
    <3>2. UNCHANGED <<slot, handled>> \/ (slot.valid /\ UserMsgCtl(slot))
      BY <2>4 DEF Release
    <3>3. slot.valid => slot.msg \in 1..MaxMsgs
      BY <1>0 DEF SlotWaits
    <3>4. QED
      BY <1>1, <1>2, <1>4, <3>1, <3>2, <3>3
  <2>5. QED
    BY <1>2, <1>5, <2>1, <2>2, <2>3, <2>4, ControlCases DEF Serve
<1>8. CASE ProcessAcked
  <2>1. slot.msg \in 1..MaxMsgs /\ crossed' = crossed /\ UserMsgCtl(slot)
    BY <1>0, <1>8 DEF ProcessAcked, Acks, SlotWaits
  <2>2. QED
    BY <1>1, <1>4, <2>1
<1>6. CASE ~Serve /\ ~ProcessAcked
  <2>1. UNCHANGED <<slot, handled, crossed>>
    BY <1>6, Steps, QuietFacts, BrokerTakesFacts
       DEF BrokerPublishes, BrokerRepeats, clientVars
  <2>2. QED
    BY <1>2, <2>1
<1>7. QED
  BY <1>5, <1>6, <1>8

(***************************************************************************)
(* The theorems                                                            *)
(***************************************************************************)

\* Every step keeps the inductive invariant.
LEMMA StepKeeps == IInv /\ [Next]_vars => IInv'
<1> SUFFICES ASSUME IInv, [Next]_vars PROVE IInv'
  OBVIOUS
<1> USE DEF IInv
<1>1. OneSocket'
  BY StepOneSocket
<1>2. TypeOK' /\ Bounded'
  <2>1. socks' \in Nat
    BY <1>1 DEF OneSocket
  <2>2. ControlType' /\ Bounded' /\ FlagType' /\ QueueType' /\ MessageType'
    BY StepControlType, StepFlagType, StepPacketType, StepMessageType
  <2>3. QED
    BY <2>1, <2>2, Zenon
       DEF TypeOK, ControlType, FlagType, QueueType, MessageType, Packets
<1>3. Granting'
  BY StepGranting
<1>4. Messages'
  BY Steps, QuietKeeps, ServeKeeps, ProcessAckedKeeps, TakenKeeps, PublishedKeeps,
     RepeatedKeeps DEF Messages
<1>5. QED
  BY <1>1, <1>2, <1>3, <1>4 DEF Messages

\* The inductive invariant holds in every reachable state.
LEMMA Invariance == Spec => []IInv
BY InitEstablishes, StepKeeps, PTL DEF Spec

\* Every variable keeps its type; the subscriptions stay within their bound.
THEOREM TypeCorrect == Spec => []TypeOK
<1>1. IInv => TypeOK
  BY DEF IInv
<1>2. QED
  BY <1>1, Invariance, PTL

\* No path through connecting, serving and giving up leaks a socket.
THEOREM NoSocketLeaks == Spec => []OneSocket
<1>1. IInv => OneSocket
  BY DEF IInv
<1>2. QED
  BY <1>1, Invariance, PTL

\* mqtt_task serves only a connection on which the broker granted the
\* subscription.
THEOREM ServesSubscribed == Spec => []SubscribedWhileServing
<1>1. IInv => SubscribedWhileServing
  BY DEF IInv, Granting
<1>2. QED
  BY <1>1, Invariance, PTL

\* No message is processed twice, however often its PUBREL is repeated.
THEOREM ProcessedOnce == Spec => []HandledOnce
<1>1. IInv => HandledOnce
  BY MqttAssumption DEF IInv, Fresh, Ids, HandledOnce, Published, TypeOK
<1>2. QED
  BY <1>1, Invariance, PTL

\* What the broker knows acknowledged was processed, or is the one message
\* between its PUBACK and its processing, but for identifiers that a QoS 0
\* message left in the slot.
THEOREM AcknowledgedWasProcessed == Spec => []DoneWasHandled
<1>1. IInv => DoneWasHandled
  BY DEF IInv, Acks
<1>2. QED
  BY <1>1, Invariance, PTL
=============================================================================
