---------------------------- MODULE SessionProofs ----------------------------
(***************************************************************************)
(* Session, for every set of devices, every clock offset, every time to    *)
(* live and every behaviour of the network: the types of the worker's      *)
(* tables, that a session is held only with a peer in the directory, the   *)
(* inductive invariant behind unique nonces and single delivery, and the   *)
(* one behind a single answer to a handshake.                              *)
(***************************************************************************)
EXTENDS Session, TLAPS

-------------------------------------------------------------------------------
(* The replay window: `can_accept` and `mark`, for every window size.       *)

\* The default ReplayWindow is a window.
LEMMA EmptyWindowType == EmptyWindow \in Window
  BY WindowSizeAssumption DEF EmptyWindow, Window, Positions

\* `mark` yields a window again.
LEMMA MarkType ==
  ASSUME NEW w \in Window, NEW seq \in Nat, CanAccept(w, seq)
  PROVE  Mark(w, seq) \in Window
<1>1. CASE seq > w.highest
  BY <1>1, WindowSizeAssumption DEF Mark, Window, Positions, Shift
<1>2. CASE ~(seq > w.highest)
  <2>1. w.highest - seq \in Positions
    BY <1>2, WindowSizeAssumption DEF CanAccept, Window, Positions
  <2> QED  BY <1>2, <2>1 DEF Mark, Window
<1> QED  BY <1>1, <1>2

\* Once `mark` has recorded a sequence number, `can_accept` refuses it.
LEMMA MarkedIsRefused ==
  ASSUME NEW w \in Window, NEW seq \in Nat, CanAccept(w, seq)
  PROVE  ~CanAccept(Mark(w, seq), seq)
<1>1. CASE seq > w.highest
  BY <1>1, WindowSizeAssumption DEF Mark, Window, CanAccept, Positions, Shift
<1>2. CASE ~(seq > w.highest)
  BY <1>2, WindowSizeAssumption DEF Mark, Window, CanAccept, Positions
<1> QED  BY <1>1, <1>2

\* What `can_accept` refuses it refuses ever after: neither a shift of the bitmap
\* nor a late frame brings a sequence number back.
LEMMA RefusedStaysRefused ==
  ASSUME NEW w \in Window, NEW seq \in Nat, CanAccept(w, seq),
         NEW t \in Nat, ~CanAccept(w, t)
  PROVE  ~CanAccept(Mark(w, seq), t)
<1>1. CASE seq > w.highest
  <2> DEFINE v == Mark(w, seq)
  <2>1. v.highest = seq /\ v.bitmap = Shift(w.bitmap, seq - w.highest) \cup {0}
    BY <1>1 DEF Mark
  <2>2. t <= w.highest /\ w.highest \in Int
    BY DEF CanAccept, Window
  <2>3. CASE w.highest - t >= WindowSize
    BY <1>1, <2>1, <2>2, <2>3, WindowSizeAssumption DEF CanAccept
  <2>4. CASE w.highest - t < WindowSize
    <3>1. w.highest - t \in w.bitmap
      BY <2>2, <2>4 DEF CanAccept
    <3>2. CASE seq - t < WindowSize
      <4>1. seq - t \in Shift(w.bitmap, seq - w.highest)
        BY <1>1, <2>2, <3>1, <3>2, WindowSizeAssumption DEF Shift, Positions
      <4> QED  BY <1>1, <2>1, <2>2, <4>1 DEF CanAccept
    <3>3. CASE ~(seq - t < WindowSize)
      BY <1>1, <2>1, <2>2, <3>3, WindowSizeAssumption DEF CanAccept
    <3> QED  BY <3>2, <3>3
  <2> QED  BY <2>2, <2>3, <2>4, WindowSizeAssumption
<1>2. CASE ~(seq > w.highest)
  BY <1>2, WindowSizeAssumption DEF Mark, Window, CanAccept, Positions
<1> QED  BY <1>1, <1>2

-------------------------------------------------------------------------------
(* Type correctness *)

\* The `st` field tells the three kinds of session apart.
LEMMA SessionKinds ==
  ASSUME NEW s \in SessionState
  PROVE  /\ s.st = "none" => s = NoSession
         /\ s.st = "pending" => s \in PendingSession
         /\ s.st = "established" => s \in EstablishedSession
         /\ s.st \in {"none", "pending", "established"}
  BY DEF SessionState, NoSession, PendingSession, EstablishedSession

\* What is drawn and counted is natural.
LEMMA CountersType ==
  ASSUME TypeOK
  PROVE  fresh \in Nat /\ nextPacket \in Nat
  BY DEF TypeOK

\* Every entry of the session tables is a session.
LEMMA SessionAt ==
  ASSUME TypeOK, NEW d \in Device, NEW p \in Device
  PROVE  sess[d][p] \in SessionState
  BY DEF TypeOK

\* The constants, one by one.
LEMMA Constants ==
  /\ Device \subseteq Nat
  /\ \A d \in Device : Offset[d] \in Nat
  /\ MaxPackets \in Nat /\ MaxFresh \in Nat
  /\ QueueCapacity \in Nat /\ MaxSequence \in Nat /\ QueueCapacity < MaxSequence
  BY Zenon, SessionAssumption

\* Every datagram `Post` puts in flight carries one of the messages.
LEMMA PostBodies ==
  ASSUME NEW d, NEW p, NEW msgs, NEW e \in Post(d, p, msgs)
  PROVE  \E i \in DOMAIN msgs : e.body = msgs[i]
  BY DEF Post

\* The datagrams of `Post` carry messages of the type of its argument.
LEMMA PostType ==
  ASSUME NEW d, NEW p, NEW S, NEW msgs \in Seq(S), NEW e \in Post(d, p, msgs)
  PROVE  e.body \in S
  BY PostBodies

\* A single message is what its datagram carries.
LEMMA PostOne ==
  ASSUME NEW d, NEW p, NEW m, NEW e \in Post(d, p, <<m>>)
  PROVE  e.body = m
<1>1. \E i \in DOMAIN <<m>> : e.body = <<m>>[i]
  BY PostBodies
<1> QED  BY <1>1

\* `seal_queued_packets` numbers the queue from 0.
LEMMA SealQueueType ==
  ASSUME NEW d \in Device, NEW p \in Device, NEW key \in Key, NEW queue \in Seq(Packet)
  PROVE  /\ SealQueue(d, p, key, queue) \in Seq(DataMsg)
         /\ DOMAIN SealQueue(d, p, key, queue) = 1 .. Len(queue)
         /\ \A i \in 1 .. Len(queue) :
              SealQueue(d, p, key, queue)[i] = Frame(d, p, key, i - 1, queue[i])
<1>1. DOMAIN queue = 1 .. Len(queue) /\ Len(queue) \in Nat
  OBVIOUS
<1>2. \A i \in 1 .. Len(queue) : queue[i] \in Packet /\ i - 1 \in Nat
  BY <1>1
<1>3. \A i \in 1 .. Len(queue) : Frame(d, p, key, i - 1, queue[i]) \in DataMsg
  BY Zenon, <1>2 DEF Frame, DataMsg
<1>4. SealQueue(d, p, key, queue) \in [1 .. Len(queue) -> DataMsg]
  BY Zenon, <1>1, <1>3 DEF SealQueue
<1>5. SealQueue(d, p, key, queue) \in Seq(DataMsg)
  BY <1>1, <1>4
<1> QED  BY Zenon, <1>1, <1>5 DEF SealQueue

\* A session installed by a completed handshake is well formed.
LEMMA NewSessionType ==
  ASSUME TypeOK, NEW key \in Key, NEW queue \in Seq(Packet), Len(queue) <= QueueCapacity,
         NEW cached \in SUBSET ResponseMsg
  PROVE  /\ NewSession(key, queue, cached) \in EstablishedSession
         /\ NewSession(key, queue, cached).nextSeq <= MaxSequence
  BY Constants, EmptyWindowType DEF NewSession, EstablishedSession, TypeOK

\* What a pending session has queued, or nothing.
LEMMA QueuedForType ==
  ASSUME TypeOK, NEW d \in Device, NEW p \in Device
  PROVE  QueuedFor(d, p) \in Seq(Packet) /\ Len(QueuedFor(d, p)) <= QueueCapacity
<1>1. CASE Pending(d, p)
  BY <1>1, SessionKinds DEF QueuedFor, TypeOK, Pending, PendingSession
<1>2. CASE ~Pending(d, p)
  BY <1>2, Constants DEF QueuedFor
<1> QED  BY Zenon, <1>1, <1>2

\* The part of TypeOK that is about the session table.
SessionsOK ==
  /\ sess \in [Device -> [Device -> SessionState]]
  /\ \A d, p \in Device :
       /\ Pending(d, p) => Len(sess[d][p].queue) <= QueueCapacity
       /\ Established(d, p) => sess[d][p].nextSeq <= MaxSequence

\* The table stays well formed when one session is replaced.
LEMMA ReplaceSession ==
  ASSUME SessionsOK, NEW d \in Device, NEW p \in Device, NEW s \in SessionState,
         s.st = "pending" => Len(s.queue) <= QueueCapacity,
         s.st = "established" => s.nextSeq <= MaxSequence,
         sess' = [sess EXCEPT ![d][p] = s]
  PROVE  SessionsOK'
  BY Zenon DEF SessionsOK, Pending, Established

\* The initial state is well formed.
LEMMA InitTypeOK == Init => TypeOK
<1> SUFFICES ASSUME Init PROVE TypeOK
  BY Zenon
<1>1. NoSession \in SessionState /\ NoSession.st = "none"
  BY Zenon DEF SessionState, NoSession
<1>2. sess \in [Device -> [Device -> SessionState]]
  BY Zenon, <1>1 DEF Init
<1>3. \A d, p \in Device : sess[d][p].st = "none"
  BY Zenon, <1>1 DEF Init
<1>4. budget \in [losses : Nat, reloads : Nat, lapses : Nat]
  BY Zenon, SessionAssumption DEF Init
<1>5. nextPacket \in 0 .. MaxPackets /\ injected \in [Packet -> Nat]
  BY Constants DEF Init
<1> QED  BY Zenon, <1>2, <1>3, <1>4, <1>5 DEF Init, TypeOK, Pending, Established

\* Types of what the three outbound cases install and send.
LEMMA OutboundType ==
  ASSUME TypeOK, NEW d \in Device, NEW p \in Device,
         QueueOutbound(d, p) \/ SealOutbound(d, p) \/ StartHandshake(d, p)
  PROVE  TypeOK'
<1> DEFINE s == Usable(d, p)
<1>1. SessionsOK
  BY Zenon DEF TypeOK, SessionsOK
<1>2. sess[d][p] \in SessionState /\ (s.st # "none" => s = sess[d][p])
  <2>1. sess[d][p] \in SessionState
    BY Zenon, <1>1 DEF SessionsOK
  <2>2. NoSession.st = "none"
    BY Zenon DEF NoSession
  <2> QED  BY Zenon, <2>1, <2>2 DEF Usable
<1>3. nextPacket \in Packet /\ nextPacket' \in 0 .. MaxPackets
  <2>1. ReadPacket(d, p)
    BY Zenon DEF QueueOutbound, SealOutbound, StartHandshake
  <2> QED  BY <2>1, Constants DEF TypeOK, ReadPacket, Packet
<1>4. CASE QueueOutbound(d, p)
  <2>1. s \in PendingSession /\ Len(s.queue) <= QueueCapacity
    BY Zenon, <1>1, <1>2, <1>4, SessionKinds DEF QueueOutbound, SessionsOK, Pending
  <2>2. Enqueue(s.queue, nextPacket) \in Seq(Packet)
        /\ Len(Enqueue(s.queue, nextPacket)) <= QueueCapacity
    BY <1>3, <2>1, Constants DEF Enqueue, PendingSession
  <2> DEFINE t == [s EXCEPT !.queue = Enqueue(@, nextPacket),
                            !.lastSent = IF Retransmits(s) THEN clock ELSE @]
  <2>3. t \in PendingSession /\ t.st = "pending" /\ t.queue = Enqueue(s.queue, nextPacket)
    BY Zenon, <2>1, <2>2 DEF PendingSession, TypeOK
  <2>4. sess' = [sess EXCEPT ![d][p] = t]
    BY Zenon, <1>4 DEF QueueOutbound
  <2>5. SessionsOK'
    <3>1. t \in SessionState /\ t.st # "established"
      BY Zenon, <2>3 DEF SessionState
    <3> QED  BY Zenon, <1>1, <2>2, <2>3, <2>4, <3>1, ReplaceSession
  <2>6. \A e \in net' : e.body \in Msg
    <3>1. s.init \in Msg
      BY Zenon, <2>1 DEF PendingSession, Msg
    <3>2. \A e \in Post(d, p, <<s.init>>) : e.body = s.init
      BY Zenon, PostOne
    <3> QED  BY Zenon, <1>4, <3>1, <3>2 DEF QueueOutbound, TypeOK
  <2> QED  BY Zenon, <1>3, <1>4, <2>5, <2>6 DEF QueueOutbound, TypeOK, SessionsOK
<1>5. CASE SealOutbound(d, p)
  <2>1. s \in EstablishedSession /\ s.nextSeq <= MaxSequence
    BY Zenon, <1>1, <1>2, <1>5, SessionKinds DEF SealOutbound, SessionsOK, Established
  <2> DEFINE t == [s EXCEPT !.nextSeq = SaturatingNext(@)]
             f == Frame(d, p, s.key, s.nextSeq, nextPacket)
  <2>2. t \in EstablishedSession /\ t.st = "established" /\ t.nextSeq <= MaxSequence
    BY <2>1, Constants DEF EstablishedSession, SaturatingNext
  <2>3. SessionsOK'
    <3>1. t \in SessionState
      BY Zenon, <2>2 DEF SessionState
    <3>2. sess' = [sess EXCEPT ![d][p] = t]
      BY Zenon, <1>5 DEF SealOutbound
    <3> QED  BY Zenon, <1>1, <2>2, <3>1, <3>2, ReplaceSession
  <2>4. f \in DataMsg
    BY Zenon, <1>3, <2>1 DEF Frame, DataMsg, EstablishedSession
  <2>5. sealed' \subseteq DataMsg
    BY Zenon, <1>5, <2>4 DEF SealOutbound, TypeOK
  <2>6. \A e \in net' : e.body \in Msg
    <3>1. \A e \in Post(d, p, <<f>>) : e.body = f
      BY Zenon, PostOne
    <3> QED  BY Zenon, <1>5, <2>4, <3>1 DEF SealOutbound, TypeOK, Msg
  <2> QED  BY Zenon, <1>3, <1>5, <2>3, <2>5, <2>6 DEF SealOutbound, TypeOK, SessionsOK
<1>6. CASE StartHandshake(d, p)
  <2> DEFINE i == [type |-> "init", src |-> d, dst |-> p,
                   sid |-> [by |-> d, n |-> fresh], issued |-> Wall(d)]
             t == [st |-> "pending", init |-> i, createdAt |-> clock, lastSent |-> clock,
                   queue |-> <<nextPacket>>]
  <2>1. i \in InitMsg
    BY Constants DEF InitMsg, Sid, TypeOK, Wall
  <2>2. <<nextPacket>> \in Seq(Packet) /\ Len(<<nextPacket>>) = 1
    BY <1>3
  <2>3. t \in PendingSession /\ t.st = "pending" /\ t.queue = <<nextPacket>>
    BY Zenon, <2>1, <2>2 DEF PendingSession, TypeOK
  <2>4. SessionsOK'
    <3>1. t \in SessionState /\ t.st # "established" /\ Len(t.queue) <= QueueCapacity
      BY <2>2, <2>3, SessionAssumption DEF SessionState
    <3>2. sess' = [sess EXCEPT ![d][p] = t]
      BY Zenon, <1>6 DEF StartHandshake
    <3> QED  BY Zenon, <1>1, <2>3, <3>1, <3>2, ReplaceSession
  <2>5. \A e \in net' : e.body \in Msg
    <3>1. \A e \in Post(d, p, <<i>>) : e.body = i
      BY Zenon, PostOne
    <3>2. i \in Msg
      BY Zenon, <2>1 DEF Msg
    <3>3. net' = net \cup Post(d, p, <<i>>)
      BY Zenon, <1>6 DEF StartHandshake
    <3> QED  BY Zenon, <3>1, <3>2, <3>3 DEF TypeOK
  <2>6. UNCHANGED <<seen, dir, lease, psk, reload, clock, sealed, injected, budget>>
    BY Zenon, <1>6 DEF StartHandshake
  <2>7. fresh' \in Nat
    BY <1>6 DEF StartHandshake, TypeOK
  <2> QED  BY Zenon, <1>3, <2>4, <2>5, <2>6, <2>7 DEF TypeOK, SessionsOK
<1> QED  BY Zenon, <1>4, <1>5, <1>6

\* A message that arrives has its type's fields.
LEMMA ArrivesType ==
  ASSUME TypeOK, NEW d \in Device, NEW e \in net, NEW type, Arrives(d, e, type)
  PROVE  /\ type = "init" => e.body \in InitMsg
         /\ type = "response" => e.body \in ResponseMsg
         /\ type = "data" => e.body \in DataMsg
         /\ e.body.src \in Device
  BY Zenon DEF TypeOK, Arrives, Msg, InitMsg, ResponseMsg, DataMsg

\* Types after a handshake is answered or completed.
LEMMA HandshakeType ==
  ASSUME TypeOK, NEW d \in Device, NEW e \in net,
         AcceptInit(d, e) \/ CompleteHandshake(d, e)
  PROVE  TypeOK'
<1> DEFINE m == e.body
           p == m.src
           q == QueuedFor(d, p)
<1>1. SessionsOK
  BY Zenon DEF TypeOK, SessionsOK
<1>2. CASE AcceptInit(d, e)
  <2> DEFINE key == [sid |-> m.sid, eph |-> fresh, psk |-> psk[d]]
             response == [type |-> "response", src |-> d, dst |-> p, sid |-> m.sid,
                          eph |-> fresh, issued |-> Wall(d)]
             frames == SealQueue(d, p, key, q)
             t == NewSession(key, q, {response})
  <2>1. m \in InitMsg /\ p \in Device /\ m.sid \in Sid
    BY Zenon, <1>2, ArrivesType DEF AcceptInit, InitMsg
  <2>2. key \in Key /\ response \in ResponseMsg
    BY SMTT(30), <2>1, Constants DEF TypeOK, Key, ResponseMsg, Wall
  <2>3. q \in Seq(Packet) /\ Len(q) <= QueueCapacity
    BY Zenon, <2>1, QueuedForType
  <2>4. /\ frames \in Seq(DataMsg)
        /\ \A i \in DOMAIN frames : frames[i] \in DataMsg
    BY <2>1, <2>2, <2>3, SealQueueType
  <2>5. SessionsOK'
    <3>1. t \in EstablishedSession /\ t.nextSeq <= MaxSequence
      BY Zenon, <2>2, <2>3, NewSessionType
    <3>2. t \in SessionState /\ t.st # "pending"
      BY Zenon, <3>1 DEF SessionState, EstablishedSession
    <3>3. sess' = [sess EXCEPT ![d][p] = t]
      BY Zenon, <1>2 DEF AcceptInit
    <3> QED  BY Zenon, <1>1, <2>1, <3>1, <3>2, <3>3, ReplaceSession
  <2>6. \A f \in net' : f.body \in Msg
    <3>1. net' = Remaining(e) \cup Post(d, p, <<response>> \o frames)
      BY Zenon, <1>2 DEF AcceptInit
    <3>2. \A f \in Post(d, p, <<response>> \o frames) : f.body \in Msg
      <4>1. <<response>> \in Seq(Msg) /\ frames \in Seq(Msg)
        BY <2>2, <2>4 DEF Msg
      <4>2. <<response>> \o frames \in Seq(Msg)
        BY <4>1
      <4> HIDE DEF frames, response
      <4> QED  BY Zenon, <4>2, PostType
    <3> QED  BY Zenon, <3>1, <3>2 DEF Remaining, TypeOK
  <2>7. seen' \in [Device -> SUBSET [from : Device, sid : Sid, at : Nat]]
    <3>1. PICK kept \in MakesRoom(d) :
            seen' = [seen EXCEPT ![d] = kept \cup {[from |-> p, sid |-> m.sid, at |-> clock]}]
      BY Zenon, <1>2 DEF AcceptInit
    <3>2. kept \subseteq seen[d]
      BY Zenon DEF MakesRoom, Retained
    <3>3. seen \in [Device -> SUBSET [from : Device, sid : Sid, at : Nat]] /\ clock \in Nat
      BY Zenon DEF TypeOK
    <3>4. [from |-> p, sid |-> m.sid, at |-> clock] \in [from : Device, sid : Sid, at : Nat]
      BY <2>1, <3>3
    <3> QED  BY Zenon, <3>1, <3>2, <3>3, <3>4
  <2>8. sealed' \subseteq DataMsg
    <3>1. sealed' = sealed \cup {frames[i] : i \in DOMAIN frames} /\ sealed \subseteq DataMsg
      BY Zenon, <1>2 DEF AcceptInit, TypeOK
    <3> HIDE DEF frames
    <3> QED  BY <2>4, <3>1
  <2>9. fresh' \in Nat /\ UNCHANGED <<dir, lease, psk, reload, clock, nextPacket, injected, budget>>
    <3>1. fresh' = fresh + 1 /\ fresh \in Nat
      BY Zenon, <1>2 DEF AcceptInit, TypeOK
    <3>2. UNCHANGED <<dir, lease, psk, reload, clock, nextPacket, injected, budget>>
      BY Zenon, <1>2 DEF AcceptInit
    <3>3. fresh' \in Nat
      BY <3>1
    <3> QED  BY Zenon, <3>2, <3>3
  <2> QED  BY Zenon, <2>5, <2>6, <2>7, <2>8, <2>9 DEF TypeOK, SessionsOK
<1>3. CASE CompleteHandshake(d, e)
  <2> DEFINE key == [sid |-> m.sid, eph |-> m.eph, psk |-> psk[d]]
             frames == SealQueue(d, p, key, q)
             t == NewSession(key, q, {})
  <2>1. m \in ResponseMsg /\ p \in Device /\ m.sid \in Sid
    BY Zenon, <1>3, ArrivesType DEF CompleteHandshake, ResponseMsg
  <2>2. key \in Key
    BY Zenon, <2>1, Constants DEF TypeOK, Key, ResponseMsg
  <2>3. q \in Seq(Packet) /\ Len(q) <= QueueCapacity
    BY Zenon, <2>1, QueuedForType
  <2>4. /\ frames \in Seq(DataMsg)
        /\ \A i \in DOMAIN frames : frames[i] \in DataMsg
    BY <2>1, <2>2, <2>3, SealQueueType, SMTT(30)
  <2>5. SessionsOK'
    <3>1. t \in EstablishedSession /\ t.nextSeq <= MaxSequence
      BY Zenon, <2>2, <2>3, NewSessionType
    <3>2. t \in SessionState /\ t.st # "pending"
      BY Zenon, <3>1 DEF SessionState, EstablishedSession
    <3>3. sess' = [sess EXCEPT ![d][p] = t]
      BY Zenon, <1>3 DEF CompleteHandshake
    <3> QED  BY Zenon, <1>1, <2>1, <3>1, <3>2, <3>3, ReplaceSession
  <2>6. \A f \in net' : f.body \in Msg
    <3>1. net' = Remaining(e) \cup Post(d, p, frames)
      BY Zenon, <1>3 DEF CompleteHandshake
    <3>2. \A i \in DOMAIN frames : frames[i] \in Msg
      BY Zenon, <2>4 DEF Msg
    <3>3. \A f \in Post(d, p, frames) : f.body \in Msg
      BY <3>2, PostBodies
    <3> QED  BY Zenon, <3>1, <3>3 DEF Remaining, TypeOK
  <2>7. sealed' \subseteq DataMsg
    <3>1. sealed' = sealed \cup {frames[i] : i \in DOMAIN frames}
      BY Zenon, <1>3 DEF CompleteHandshake
    <3>2. sealed \subseteq DataMsg
      BY Zenon DEF TypeOK
    <3> HIDE DEF frames
    <3> QED  BY Zenon, <2>4, <3>1, <3>2
  <2>8. UNCHANGED <<seen, dir, lease, psk, reload, clock, fresh, nextPacket, injected, budget>>
    BY Zenon, <1>3 DEF CompleteHandshake
  <2> QED  BY Zenon, <2>5, <2>6, <2>7, <2>8 DEF TypeOK, SessionsOK
<1> QED  BY Zenon, <1>2, <1>3

\* Types after a frame is opened.
LEMMA OpenDataType ==
  ASSUME TypeOK, NEW d \in Device, NEW e \in net, NEW active, OpenData(d, e, active)
  PROVE  TypeOK'
<1> DEFINE m == e.body
           s == sess[d][m.src]
           t == [s EXCEPT !.window = Mark(@, m.seq)]
<1>1. SessionsOK
  BY Zenon DEF TypeOK, SessionsOK
<1>2. m \in DataMsg /\ m.src \in Device /\ m.seq \in Nat /\ m.packet \in Packet
  BY Zenon, ArrivesType DEF OpenData, DataMsg
<1>3. s \in EstablishedSession /\ CanAccept(s.window, m.seq) /\ s.nextSeq <= MaxSequence
  BY Zenon, <1>1, <1>2, SessionKinds DEF OpenData, Opens, Established, SessionsOK
<1>4. t \in EstablishedSession /\ t.nextSeq <= MaxSequence
  <2>1. s.window \in Window
    BY Zenon, <1>3 DEF EstablishedSession
  <2>2. Mark(s.window, m.seq) \in Window
    BY Zenon, <1>2, <1>3, <2>1, MarkType
  <2> QED  BY Zenon, <1>3, <2>2 DEF EstablishedSession
<1>5. SessionsOK'
  <2>1. t \in SessionState /\ t.st # "pending"
    BY Zenon, <1>4 DEF SessionState, EstablishedSession
  <2>2. sess' = [sess EXCEPT ![d][m.src] = t]
    BY Zenon, <1>1, <1>2 DEF OpenData, SessionsOK
  <2> QED  BY Zenon, <1>1, <1>2, <1>4, <2>1, <2>2, ReplaceSession
<1>6. injected' \in [Packet -> Nat]
  <2>1. /\ injected \in [Packet -> Nat]
        /\ injected' = injected \/ injected' = [injected EXCEPT ![m.packet] = @ + 1]
    BY Zenon, <1>2 DEF OpenData, TypeOK
  <2> QED  BY <2>1
<1>7. \A f \in net' : f.body \in Msg
  BY Zenon DEF OpenData, Remaining, TypeOK
<1> QED  BY Zenon, <1>5, <1>6, <1>7 DEF OpenData, TypeOK, SessionsOK

\* What is left of a bound stays a natural number.
Budget == [losses : Nat, reloads : Nat, lapses : Nat]

\* Taking one from a bound that is not used up leaves a bound.
LEMMA BudgetType ==
  ASSUME NEW b \in Budget
  PROVE  /\ b.losses > 0 => [b EXCEPT !.losses = @ - 1] \in Budget
         /\ b.reloads > 0 => [b EXCEPT !.reloads = @ - 1] \in Budget
         /\ b.lapses > 0 => [b EXCEPT !.lapses = @ - 1] \in Budget
<1>1. \A n \in Nat : n > 0 => n - 1 \in Nat
  OBVIOUS
<1> QED  BY Zenon, <1>1 DEF Budget

\* Types after a tick of the worker.
LEMMA WorkerType ==
  ASSUME TypeOK, NEW d \in Device,
         \/ \E probe \in BOOLEAN, lapsed \in SUBSET dir[d] : WorkerTick(d, probe, lapsed)
         \/ RebuildWorker(d)
  PROVE  TypeOK'
<1>1. NoSession \in SessionState /\ NoSession.st = "none"
  BY Zenon DEF SessionState, NoSession
<1>2. SessionsOK
  BY Zenon DEF TypeOK, SessionsOK
<1>3. ASSUME NEW probe \in BOOLEAN, NEW lapsed \in SUBSET dir[d], WorkerTick(d, probe, lapsed)
      PROVE  TypeOK'
  <2> DEFINE a == AfterRetry(d)
             table == [p \in Device |->
               IF lease[d] /\ (probe => Survives(a[p], p \in (IF probe THEN dir[d] \ lapsed ELSE dir[d])))
               THEN a[p]
               ELSE NoSession]
  <2>1. \A p \in Device :
          /\ a[p] \in SessionState
          /\ a[p].st = "pending" => Len(a[p].queue) <= QueueCapacity
          /\ a[p].st = "established" => a[p].nextSeq <= MaxSequence
    <3> TAKE p \in Device
    <3>1. CASE p \in Retried(d)
      <4>1. sess[d][p] \in PendingSession /\ Len(sess[d][p].queue) <= QueueCapacity
        BY Zenon, <1>2, <3>1, SessionKinds DEF Retried, SessionsOK, Pending
      <4>2. a[p] = [sess[d][p] EXCEPT !.lastSent = clock]
        BY Zenon, <3>1 DEF AfterRetry
      <4> QED  BY Zenon, <4>1, <4>2 DEF TypeOK, PendingSession, SessionState
    <3>2. CASE p \notin Retried(d)
      <4>1. a[p] = sess[d][p]
        BY Zenon, <3>2 DEF AfterRetry
      <4> QED  BY Zenon, <1>2, <4>1 DEF SessionsOK, Pending, Established
    <3> QED  BY Zenon, <3>1, <3>2
  <2>2. sess' = [sess EXCEPT ![d] = table]
    BY Zenon, <1>3 DEF WorkerTick
  <2>3. \A p \in Device : table[p] = a[p] \/ table[p] = NoSession
    BY Zenon
  <2>4. table \in [Device -> SessionState]
    BY Zenon, <1>1, <2>1
  <2>5. SessionsOK'
    <3> HIDE DEF table, a
    <3> QED  BY Zenon, <1>1, <1>2, <2>1, <2>2, <2>3, <2>4 DEF SessionsOK, Pending, Established
  <2>6. \A f \in net' : f.body \in Msg
    <3> SUFFICES ASSUME NEW f \in net', f \notin net
                 PROVE  f.body \in Msg
      BY Zenon DEF TypeOK
    <3>1. PICK p \in Retried(d) : f \in Post(d, p, <<sess[d][p].init>>)
      BY Zenon, <1>3 DEF WorkerTick
    <3>2. f.body = sess[d][p].init
      BY <3>1, PostBodies
    <3>3. sess[d][p] \in PendingSession
      BY Zenon, <1>2, SessionKinds DEF Retried, SessionsOK, Pending
    <3> QED  BY Zenon, <3>2, <3>3 DEF PendingSession, Msg
  <2>7. budget' \in [losses : Nat, reloads : Nat, lapses : Nat]
    <3>1. /\ budget \in [losses : Nat, reloads : Nat, lapses : Nat]
          /\ \/ budget' = budget
             \/ budget.lapses > 0 /\ budget' = [budget EXCEPT !.lapses = @ - 1]
      BY Zenon, <1>3 DEF WorkerTick, TypeOK
    <3> QED  BY <3>1
  <2>8. dir' \in [Device -> SUBSET Device]
    BY Zenon, <1>3 DEF WorkerTick, TypeOK
  <2> QED  BY Zenon, <1>3, <2>5, <2>6, <2>7, <2>8 DEF WorkerTick, TypeOK, SessionsOK
<1>4. CASE RebuildWorker(d)
  <2>1. SessionsOK'
    BY Zenon, <1>1, <1>2, <1>4 DEF RebuildWorker, SessionsOK, Pending, Established
  <2> QED  BY Zenon, <1>4, <2>1 DEF RebuildWorker, TypeOK, SessionsOK
<1> QED  BY Zenon, <1>3, <1>4

\* Types after a step that changes no session.
LEMMA InertType ==
  ASSUME TypeOK, NEW d \in Device, NEW p \in Device, NEW e, NEW epoch,
         \/ e \in net /\ (ResendResponse(d, e) \/ DropInit(d, e) \/ DropResponse(d, e)
                          \/ DropData(d, e))
         \/ LearnPeer(d, p) \/ LapseLease(d) \/ RenewLease(d) \/ RequestReload(d, epoch)
  PROVE  TypeOK'
<1>1. CASE e \in net /\ ResendResponse(d, e)
  <2> DEFINE q == e.body.src
             r == CHOOSE x \in sess[d][q].cached : TRUE
  <2>1. q \in Device
    BY Zenon, <1>1, ArrivesType DEF ResendResponse
  <2>2. sess[d][q] \in EstablishedSession /\ sess[d][q].cached # {}
    <3>1. Established(d, q) /\ sess[d][q].cached # {}
      BY Zenon, <1>1 DEF ResendResponse, IsCurrent
    <3> QED  BY <2>1, <3>1, SessionKinds DEF Established, TypeOK
  <2>3. r \in Msg
    BY Zenon, <2>2 DEF EstablishedSession, Msg
  <2>4. \A f \in Post(d, q, <<r>>) : f.body = r
    BY Zenon, PostOne
  <2>5. net' = Remaining(e) \cup Post(d, q, <<r>>)
    BY Zenon, <1>1 DEF ResendResponse
  <2>6. \A f \in net' : f.body \in Msg
    BY Zenon, <2>3, <2>4, <2>5 DEF Remaining, TypeOK
  <2> QED  BY Zenon, <1>1, <2>6 DEF ResendResponse, TypeOK, Pending, Established
<1>2. CASE e \in net /\ (DropInit(d, e) \/ DropResponse(d, e) \/ DropData(d, e))
  <2>1. net' \subseteq net
    BY Zenon, <1>2 DEF DropInit, DropResponse, DropData, Remaining
  <2> QED  BY Zenon, <1>2, <2>1 DEF DropInit, DropResponse, DropData, TypeOK, Pending, Established
<1>3. CASE LearnPeer(d, p) \/ RenewLease(d)
  <2>1. dir' \in [Device -> SUBSET Device]
    <3>1. CASE LearnPeer(d, p)
      BY Zenon, <3>1 DEF LearnPeer, TypeOK
    <3>2. CASE RenewLease(d)
      BY Zenon, <3>2 DEF RenewLease, TypeOK
    <3> QED  BY Zenon, <1>3, <3>1, <3>2
  <2>2. lease' \in [Device -> BOOLEAN]
    BY Zenon, <1>3 DEF LearnPeer, RenewLease, TypeOK
  <2>3. UNCHANGED <<sess, seen, psk, reload, clock, net, fresh, nextPacket, sealed, injected, budget>>
    BY Zenon, <1>3 DEF LearnPeer, RenewLease
  <2> QED  BY Zenon, <2>1, <2>2, <2>3 DEF TypeOK, Pending, Established
<1>4. CASE LapseLease(d)
  <2>1. lease' \in [Device -> BOOLEAN]
    BY Zenon, <1>4 DEF LapseLease, TypeOK
  <2>2. budget' \in Budget
    BY Zenon, <1>4, BudgetType DEF LapseLease, TypeOK, Budget
  <2>3. UNCHANGED <<sess, seen, dir, psk, reload, clock, net, fresh, nextPacket, sealed, injected>>
    BY Zenon, <1>4 DEF LapseLease
  <2> QED  BY Zenon, <2>1, <2>2, <2>3 DEF TypeOK, Pending, Established, Budget
<1>5. CASE RequestReload(d, epoch)
  <2>1. psk' \in [Device -> Nat]
    BY <1>5 DEF RequestReload, TypeOK
  <2>2. reload' \in [Device -> BOOLEAN]
    BY Zenon, <1>5 DEF RequestReload, TypeOK
  <2>3. budget' \in Budget
    BY Zenon, <1>5, BudgetType DEF RequestReload, TypeOK, Budget
  <2>4. UNCHANGED <<sess, seen, dir, lease, clock, net, fresh, nextPacket, sealed, injected>>
    BY Zenon, <1>5 DEF RequestReload
  <2> QED  BY Zenon, <2>1, <2>2, <2>3, <2>4 DEF TypeOK, Pending, Established, Budget
<1> QED  BY Zenon, <1>1, <1>2, <1>3, <1>4, <1>5

\* Types after a loss, the passing of time and a stuttering step.
LEMMA EnvironmentType ==
  ASSUME TypeOK, (\E e \in net : LoseDatagram(e)) \/ PassTime \/ UNCHANGED vars
  PROVE  TypeOK'
<1>1. ASSUME NEW e \in net, LoseDatagram(e) PROVE TypeOK'
  <2>1. budget' \in Budget
    BY Zenon, <1>1, BudgetType DEF LoseDatagram, TypeOK, Budget
  <2>2. /\ net' \subseteq net
        /\ UNCHANGED <<sess, seen, dir, lease, psk, reload, clock, fresh, nextPacket, sealed, injected>>
    BY Zenon, <1>1 DEF LoseDatagram
  <2> QED  BY Zenon, <2>1, <2>2 DEF TypeOK, Pending, Established, Budget
<1>2. CASE PassTime
  <2>1. clock' \in Nat
    BY <1>2 DEF PassTime, TypeOK
  <2>2. UNCHANGED <<sess, seen, dir, lease, psk, reload, net, fresh, nextPacket, sealed,
                    injected, budget>>
    BY Zenon, <1>2 DEF PassTime
  <2> QED  BY Zenon, <2>1, <2>2 DEF TypeOK, Pending, Established
<1>3. CASE UNCHANGED vars
  BY Zenon, <1>3 DEF vars, TypeOK, Pending, Established
<1> QED  BY Zenon, <1>1, <1>2, <1>3

\* Every step preserves the types.
LEMMA NextTypeOK == TypeOK /\ [Next]_vars => TypeOK'
<1> SUFFICES ASSUME TypeOK, [Next]_vars PROVE TypeOK'
  BY Zenon
<1>1. ASSUME NEW d \in Device, Outbound(d) PROVE TypeOK'
  BY Zenon, <1>1, OutboundType DEF Outbound
<1>2. ASSUME NEW d \in Device, Inbound(d) PROVE TypeOK'
  <2>1. PICK e \in net :
          \/ AcceptInit(d, e) \/ ResendResponse(d, e) \/ DropInit(d, e)
          \/ CompleteHandshake(d, e) \/ DropResponse(d, e)
          \/ \E active \in BOOLEAN : OpenData(d, e, active)
          \/ DropData(d, e)
    BY Zenon, <1>2 DEF Inbound
  <2> QED  BY Zenon, <2>1, HandshakeType, OpenDataType, InertType
<1>3. ASSUME NEW d \in Device, Tick(d) \/ RebuildWorker(d) PROVE TypeOK'
  BY Zenon, <1>3, WorkerType DEF Tick
<1>4. ASSUME NEW d \in Device, Learn(d) \/ Authorization(d) PROVE TypeOK'
  <2>1. CASE Learn(d)
    BY Zenon, <2>1, InertType DEF Learn
  <2>2. CASE Authorization(d)
    BY Zenon, <2>2, InertType DEF Authorization
  <2> QED  BY Zenon, <1>4, <2>1, <2>2
<1>5. CASE (\E e \in net : LoseDatagram(e)) \/ PassTime \/ UNCHANGED vars
  BY Zenon, <1>5, EnvironmentType
<1> QED  BY Zenon, <1>1, <1>2, <1>3, <1>4, <1>5 DEF Next

\* The worker's tables, the datagrams in flight and the history always have their
\* types, queues stay within SESSION_QUEUE_CAPACITY and counters within u64.
THEOREM TypeCorrect == Spec => []TypeOK
<1> QED  BY InitTypeOK, NextTypeOK, PTL DEF Spec

\* A session is only installed with a peer in the directory, and the tick drops
\* sessions and directory entries together.
LEMMA NextIdentity == TypeOK /\ SessionHasIdentity /\ [Next]_vars => SessionHasIdentity'
<1> SUFFICES ASSUME TypeOK, SessionHasIdentity, [Next]_vars,
                    NEW c \in Device, NEW q \in Device, sess'[c][q] # NoSession
             PROVE  q \in dir'[c]
  BY Zenon DEF SessionHasIdentity
<1>1. ASSUME NEW d \in Device, NEW p \in Device, p \in dir[d], dir' = dir, NEW t,
             sess' = [sess EXCEPT ![d][p] = t]
      PROVE  q \in dir'[c]
  BY Zenon, <1>1 DEF SessionHasIdentity, TypeOK
<1>2. ASSUME dir' = dir, sess' = sess PROVE q \in dir'[c]
  BY Zenon, <1>2 DEF SessionHasIdentity
<1>3. ASSUME NEW d \in Device, Outbound(d) PROVE q \in dir'[c]
  <2>1. PICK p \in Device : QueueOutbound(d, p) \/ SealOutbound(d, p) \/ StartHandshake(d, p)
    BY Zenon, <1>3 DEF Outbound
  <2>2. p \in dir[d] /\ dir' = dir
    BY Zenon, <2>1 DEF QueueOutbound, SealOutbound, StartHandshake, ReadPacket
  <2>3. \E t : sess' = [sess EXCEPT ![d][p] = t]
    BY Zenon, <2>1 DEF QueueOutbound, SealOutbound, StartHandshake
  <2> QED  BY Zenon, <1>1, <2>2, <2>3
<1>4. ASSUME NEW d \in Device, Inbound(d) PROVE q \in dir'[c]
  <2>1. PICK e \in net :
          \/ AcceptInit(d, e) \/ ResendResponse(d, e) \/ DropInit(d, e)
          \/ CompleteHandshake(d, e) \/ DropResponse(d, e)
          \/ \E active \in BOOLEAN : OpenData(d, e, active)
          \/ DropData(d, e)
    BY Zenon, <1>4 DEF Inbound
  <2> DEFINE p == e.body.src
  <2>2. CASE ResendResponse(d, e) \/ DropInit(d, e) \/ DropResponse(d, e) \/ DropData(d, e)
    BY Zenon, <1>2, <2>2 DEF ResendResponse, DropInit, DropResponse, DropData
  <2>3. CASE AcceptInit(d, e)
    <3>1. p \in Device /\ p \in dir[d] /\ dir' = dir
      BY Zenon, <2>3, ArrivesType DEF AcceptInit, Accepts, Hears
    <3>2. \E t : sess' = [sess EXCEPT ![d][p] = t]
      BY Zenon, <2>3 DEF AcceptInit
    <3> QED  BY Zenon, <1>1, <3>1, <3>2
  <2>4. CASE CompleteHandshake(d, e)
    <3>1. p \in Device /\ p \in dir[d] /\ dir' = dir
      BY Zenon, <2>4, ArrivesType DEF CompleteHandshake, Completes, Hears
    <3>2. \E t : sess' = [sess EXCEPT ![d][p] = t]
      BY Zenon, <2>4 DEF CompleteHandshake
    <3> QED  BY Zenon, <1>1, <3>1, <3>2
  <2>5. ASSUME NEW active \in BOOLEAN, OpenData(d, e, active) PROVE q \in dir'[c]
    <3>1. p \in Device /\ Established(d, p) /\ dir' = dir
      BY Zenon, <2>5, ArrivesType DEF OpenData, Opens
    <3>2. p \in dir[d]
      BY <3>1 DEF SessionHasIdentity, Established, NoSession
    <3>3. sess' = [sess EXCEPT ![d][p] = [sess[d][p] EXCEPT !.window = Mark(@, e.body.seq)]]
      BY Zenon, <2>5, <3>1 DEF OpenData, TypeOK
    <3>4. \E t : sess' = [sess EXCEPT ![d][p] = t]
      BY Zenon, <3>3
    <3> QED  BY Zenon, <1>1, <3>1, <3>2, <3>4
  <2> QED  BY Zenon, <2>1, <2>2, <2>3, <2>4, <2>5
<1>5. ASSUME NEW d \in Device, NEW probe \in BOOLEAN, NEW lapsed \in SUBSET dir[d],
             WorkerTick(d, probe, lapsed)
      PROVE  q \in dir'[c]
  <2> DEFINE known == IF probe THEN dir[d] \ lapsed ELSE dir[d]
  <2>1. CASE c # d
    <3>1. sess'[c] = sess[c] /\ dir'[c] = dir[c]
      BY Zenon, <1>5, <2>1 DEF WorkerTick, TypeOK
    <3> QED  BY Zenon, <3>1 DEF SessionHasIdentity
  <2>2. CASE c = d
    <3>1. sess'[d][q] = IF lease[d] /\ (probe => Survives(AfterRetry(d)[q], q \in known))
                        THEN AfterRetry(d)[q] ELSE NoSession
      BY Zenon, <1>5 DEF WorkerTick, TypeOK
    <3>2. dir'[d] = IF lease[d] THEN known ELSE {}
      BY Zenon, <1>5 DEF WorkerTick, TypeOK
    <3>3. AfterRetry(d)[q] # NoSession => sess[d][q] # NoSession
      <4>1. CASE q \in Retried(d)
        BY <4>1 DEF Retried, Pending, NoSession
      <4>2. CASE q \notin Retried(d)
        BY Zenon, <4>2 DEF AfterRetry
      <4> QED  BY Zenon, <4>1, <4>2
    <3>4. CASE probe
      BY Zenon, <2>2, <3>1, <3>2, <3>4 DEF Survives
    <3>5. CASE ~probe
      BY Zenon, <2>2, <3>1, <3>2, <3>3, <3>5 DEF SessionHasIdentity
    <3> QED  BY Zenon, <3>4, <3>5
  <2> QED  BY Zenon, <2>1, <2>2
<1>6. ASSUME NEW d \in Device, RebuildWorker(d) PROVE q \in dir'[c]
  BY Zenon, <1>6 DEF RebuildWorker, SessionHasIdentity, TypeOK
<1>7. ASSUME NEW d \in Device, NEW p \in Device, LearnPeer(d, p) PROVE q \in dir'[c]
  <2>1. dir[c] \subseteq dir'[c] /\ sess' = sess
    BY Zenon, <1>7 DEF LearnPeer, TypeOK
  <2> QED  BY Zenon, <2>1 DEF SessionHasIdentity
<1>8. ASSUME NEW d \in Device, Authorization(d) PROVE q \in dir'[c]
  <2>1. dir' = dir /\ sess' = sess
    BY Zenon, <1>8 DEF Authorization, LapseLease, RenewLease, RequestReload
  <2> QED  BY Zenon, <1>2, <2>1
<1>9. CASE (\E e \in net : LoseDatagram(e)) \/ PassTime \/ UNCHANGED vars
  <2>1. dir' = dir /\ sess' = sess
    BY Zenon, <1>9 DEF LoseDatagram, PassTime, vars
  <2> QED  BY Zenon, <1>2, <2>1
<1> QED  BY Zenon, <1>3, <1>4, <1>5, <1>6, <1>7, <1>8, <1>9 DEF Next, Tick, Learn

\* The tick's sweep and the directory keep in step: no session outlives the
\* certified identity key it was authenticated with.
THEOREM SessionsHaveIdentity == Spec => []SessionHasIdentity
<1>1. Init => SessionHasIdentity
  BY DEF Init, SessionHasIdentity
<1> QED  BY <1>1, NextIdentity, TypeCorrect, PTL DEF Spec

-------------------------------------------------------------------------------
(* The inductive invariant *)

\* Every random value in use was drawn before f, and so before the next one.
DrawnBefore(f) ==
  /\ \A d, p \in Device :
       /\ Pending(d, p) => sess[d][p].init.sid.n < f
       /\ Established(d, p) =>
            /\ sess[d][p].key.sid.n < f
            /\ sess[d][p].key.eph < f
            /\ \A r \in sess[d][p].cached : r.type = "response" /\ r.eph < f
  /\ \A e \in net :
       /\ e.body.type = "init" => e.body.sid.n < f
       /\ e.body.type = "response" => e.body.eph < f
  /\ \A x \in sealed : x.key.sid.n < f /\ x.key.eph < f

Drawn == DrawnBefore(fresh)

\* A session id names the device that drew it, and no device is its own peer.
Owned ==
  /\ \A d \in Device : d \notin dir[d]
  /\ \A d, p \in Device :
       Pending(d, p) => sess[d][p].init.src = d /\ sess[d][p].init.sid.by = d
  /\ \A e \in net : e.body.type = "init" => e.body.sid.by = e.body.src

\* A device never holds one key, or one session id, twice.
KeysApart ==
  \A d, p, q \in Device :
    /\ Pending(d, p) /\ Pending(d, q) /\ sess[d][p].init.sid = sess[d][q].init.sid => p = q
    /\ Pending(d, p) /\ Established(d, q) => sess[d][p].init.sid # sess[d][q].key.sid
    /\ Established(d, p) /\ Established(d, q) /\ sess[d][p].key = sess[d][q].key => p = q

\* The send counter is past every sequence number used under the key, and nothing
\* was sealed under the id of a handshake still pending.
CounterAhead ==
  \A x \in sealed : \A p \in Device :
    /\ Established(x.src, p) /\ sess[x.src][p].key = x.key => x.seq < sess[x.src][p].nextSeq
    /\ Pending(x.src, p) => x.key.sid # sess[x.src][p].init.sid

NonceInv == TypeOK /\ Drawn /\ Owned /\ KeysApart /\ CounterAhead /\ NonceUnique

\* A packet is in one place only: not read yet, in one queue, or in one frame.
OnePlace ==
  /\ \A x \in sealed : x.packet < nextPacket
  /\ \A x, y \in sealed : x.packet = y.packet => x = y
  /\ \A d, p \in Device : \A i \in DOMAIN QueuedFor(d, p) :
       /\ QueuedFor(d, p)[i] < nextPacket
       /\ \A x \in sealed : x.packet # QueuedFor(d, p)[i]
       /\ \A c, q \in Device : \A j \in DOMAIN QueuedFor(c, q) :
            QueuedFor(d, p)[i] = QueuedFor(c, q)[j] => d = c /\ p = q /\ i = j

\* Every frame in flight was sealed.
Authentic == \A e \in net : e.body.type = "data" => e.body \in sealed

\* A frame whose packet was delivered can never be opened again.
Spent ==
  /\ \A k \in Packet : injected[k] # 0 => injected[k] = 1 /\ \E x \in sealed : x.packet = k
  /\ \A x \in sealed : injected[x.packet] # 0 =>
       /\ Established(x.dst, x.src) /\ sess[x.dst][x.src].key = x.key
            => ~CanAccept(sess[x.dst][x.src].window, x.seq)
       /\ Pending(x.dst, x.src) => sess[x.dst][x.src].init.sid # x.key.sid

DeliveryInv == NonceInv /\ OnePlace /\ Authentic /\ Spent

\* The initial state has nothing drawn, sealed, queued or in flight.
LEMMA InitDelivery == Init => DeliveryInv
<1> SUFFICES ASSUME Init PROVE DeliveryInv
  BY Zenon
<1>1. TypeOK
  BY Zenon, InitTypeOK
<1>2. \A d, p \in Device : sess[d][p] = NoSession
  BY Zenon DEF Init
<1>3. \A d, p \in Device : ~Pending(d, p) /\ ~Established(d, p) /\ QueuedFor(d, p) = <<>>
  BY <1>2 DEF Pending, Established, QueuedFor, NoSession
<1>4. net = {} /\ sealed = {} /\ \A d \in Device : dir[d] = {}
  BY Zenon DEF Init
<1>5. \A k \in Packet : injected[k] = 0
  BY Zenon DEF Init
<1>6. Drawn /\ Owned /\ KeysApart /\ CounterAhead /\ NonceUnique
  BY Zenon, <1>3, <1>4 DEF Drawn, DrawnBefore, Owned, KeysApart, CounterAhead, NonceUnique
<1>7. OnePlace /\ Authentic /\ Spent
  BY <1>3, <1>4, <1>5 DEF OnePlace, Authentic, Spent
<1> QED  BY Zenon, <1>1, <1>6, <1>7 DEF DeliveryInv, NonceInv

\* A step that seals and delivers nothing: sessions stay, are forgotten or have
\* their initiation sent again, and what is sent has been sent before.
Quiet ==
  /\ UNCHANGED <<fresh, sealed, injected>>
  /\ \A d \in Device : d \notin dir'[d]
  /\ \A d, p \in Device :
       \/ sess'[d][p].st = "none"
       \/ sess'[d][p] = sess[d][p]
       \/ /\ Pending(d, p) /\ sess'[d][p].st = "pending"
          /\ sess'[d][p].init = sess[d][p].init
  /\ \A e \in net' :
       \/ \E f \in net : f.body = e.body
       \/ \E d, p \in Device : Pending(d, p) /\ e.body = sess[d][p].init
       \/ \E d, p \in Device : Established(d, p) /\ e.body \in sess[d][p].cached

\* A step that queues nothing.
QueuesKept ==
  /\ UNCHANGED <<nextPacket, sealed>>
  /\ \A d, p \in Device : QueuedFor(d, p)' \in {QueuedFor(d, p), <<>>}

\* A packet that was in one place only still is when queues only shrink.
LEMMA KeptOnePlace ==
  ASSUME OnePlace, QueuesKept
  PROVE  OnePlace'
  BY DEF OnePlace, QueuesKept

\* A step that installs, seals and delivers nothing keeps the invariant.
LEMMA QuietDelivery ==
  ASSUME DeliveryInv, TypeOK', Quiet, OnePlace'
  PROVE  DeliveryInv'
<1> USE DEF DeliveryInv, NonceInv
<1>1. UNCHANGED <<fresh, sealed, injected>>
  BY Zenon DEF Quiet
<1>2. ASSUME NEW d \in Device, NEW p \in Device
      PROVE  /\ Pending(d, p)' => Pending(d, p) /\ sess'[d][p].init = sess[d][p].init
             /\ Established(d, p)' => Established(d, p) /\ sess'[d][p] = sess[d][p]
  BY Zenon DEF Quiet, Pending, Established
<1>3. ASSUME NEW d \in Device, NEW p \in Device
      PROVE  /\ Pending(d, p) => sess[d][p].init.type = "init"
             /\ Established(d, p) => sess[d][p].cached \subseteq ResponseMsg
  <2>0. sess[d][p] \in SessionState
    BY Zenon, SessionAt
  <2>1. Pending(d, p) => sess[d][p] \in PendingSession
    BY Zenon, <2>0, SessionKinds DEF Pending
  <2>2. Established(d, p) => sess[d][p] \in EstablishedSession
    BY Zenon, <2>0, SessionKinds DEF Established
  <2> QED  BY Zenon, <2>1, <2>2 DEF PendingSession, EstablishedSession, InitMsg
<1>4. \A e \in net' :
        \/ \E f \in net : f.body = e.body
        \/ \E d, p \in Device : Pending(d, p) /\ e.body = sess[d][p].init
        \/ \E d, p \in Device : Established(d, p) /\ e.body \in sess[d][p].cached
  BY Zenon DEF Quiet
<1>5. Drawn'
  <2>1. \A e \in net' : /\ e.body.type = "init" => e.body.sid.n < fresh'
                        /\ e.body.type = "response" => e.body.eph < fresh'
    BY <1>1, <1>3, <1>4 DEF Drawn, DrawnBefore
  <2>2. ASSUME NEW d \in Device, NEW p \in Device
        PROVE  /\ Pending(d, p)' => sess'[d][p].init.sid.n < fresh'
               /\ Established(d, p)' =>
                    /\ sess'[d][p].key.sid.n < fresh'
                    /\ sess'[d][p].key.eph < fresh'
                    /\ \A r \in sess'[d][p].cached : r.type = "response" /\ r.eph < fresh'
    BY <1>1, <1>2 DEF Drawn, DrawnBefore
  <2>3. \A x \in sealed' : x.key.sid.n < fresh' /\ x.key.eph < fresh'
    BY Zenon, <1>1 DEF Drawn, DrawnBefore
  <2> QED  BY Zenon, <2>1, <2>2, <2>3 DEF Drawn, DrawnBefore
<1>6. Owned'
  <2>1. \A e \in net' : e.body.type = "init" => e.body.sid.by = e.body.src
    BY <1>3, <1>4 DEF Owned, Drawn, DrawnBefore
  <2> QED  BY <1>2, <2>1 DEF Owned, Quiet
<1>7. KeysApart'
  <2> SUFFICES ASSUME NEW d \in Device, NEW p \in Device, NEW q \in Device
               PROVE  /\ Pending(d, p)' /\ Pending(d, q)' /\ sess'[d][p].init.sid = sess'[d][q].init.sid
                         => p = q
                      /\ Pending(d, p)' /\ Established(d, q)'
                         => sess'[d][p].init.sid # sess'[d][q].key.sid
                      /\ Established(d, p)' /\ Established(d, q)' /\ sess'[d][p].key = sess'[d][q].key
                         => p = q
    BY Zenon DEF KeysApart
  <2> QED  BY <1>2 DEF KeysApart
<1>8. CounterAhead' /\ NonceUnique'
  <2>1. \A x \in sealed : x.src \in Device
    BY Zenon DEF TypeOK, DataMsg
  <2> QED  BY <1>1, <1>2, <2>1 DEF CounterAhead, NonceUnique
<1>9. Authentic'
  BY ZenonT(40), <1>1, <1>3, <1>4 DEF Authentic, Drawn, DrawnBefore
<1>10. Spent'
  <2>1. \A x \in sealed : x.src \in Device /\ x.dst \in Device
    BY Zenon DEF TypeOK, DataMsg
  <2>2. ASSUME NEW x \in sealed, injected[x.packet] # 0
        PROVE  /\ Established(x.dst, x.src)' /\ sess'[x.dst][x.src].key = x.key
                    => ~CanAccept(sess'[x.dst][x.src].window, x.seq)
               /\ Pending(x.dst, x.src)' => sess'[x.dst][x.src].init.sid # x.key.sid
    BY <1>2, <2>1, <2>2 DEF Spent
  <2>3. \A k \in Packet : injected'[k] # 0 =>
          injected'[k] = 1 /\ \E x \in sealed' : x.packet = k
    BY Zenon, <1>1 DEF Spent
  <2> QED  BY Zenon, <1>1, <2>2, <2>3 DEF Spent
<1> QED  BY Zenon, <1>5, <1>6, <1>7, <1>8, <1>9, <1>10

\* Dropping or losing datagrams, repeating a response, learning of a peer, and
\* what happens to the lease and the revision are quiet.
LEMMA InertQuiet ==
  ASSUME DeliveryInv, NEW d \in Device, NEW p \in Device, NEW e, NEW epoch,
         \/ e \in net /\ (ResendResponse(d, e) \/ DropInit(d, e) \/ DropResponse(d, e)
                          \/ DropData(d, e))
         \/ LearnPeer(d, p) \/ LapseLease(d) \/ RenewLease(d) \/ RequestReload(d, epoch)
  PROVE  Quiet /\ QueuesKept
<1> USE DEF DeliveryInv, NonceInv
<1>1. \A c \in Device : c \notin dir[c]
  BY Zenon DEF Owned
<1>2. CASE e \in net /\ ResendResponse(d, e)
  <2> DEFINE q == e.body.src
             r == CHOOSE x \in sess[d][q].cached : TRUE
  <2>1. q \in Device
    BY Zenon, <1>2, ArrivesType DEF ResendResponse
  <2>2. Established(d, q) /\ r \in sess[d][q].cached
    BY Zenon, <1>2 DEF ResendResponse, IsCurrent
  <2>3. \A f \in Post(d, q, <<r>>) : f.body = r
    BY Zenon, PostOne
  <2>4. net' = Remaining(e) \cup Post(d, q, <<r>>)
    BY Zenon, <1>2 DEF ResendResponse
  <2>5. UNCHANGED <<sess, dir, fresh, nextPacket, sealed, injected>>
    BY Zenon, <1>2 DEF ResendResponse
  <2> HIDE DEF q, r
  <2> QED  BY Zenon, <1>1, <2>1, <2>2, <2>3, <2>4, <2>5 DEF Quiet, Remaining, QueuesKept, QueuedFor, Pending
<1>3. CASE e \in net /\ (DropInit(d, e) \/ DropResponse(d, e) \/ DropData(d, e))
  <2>1. net' \subseteq net
    BY Zenon, <1>3 DEF DropInit, DropResponse, DropData, Remaining
  <2>2. UNCHANGED <<sess, dir, fresh, nextPacket, sealed, injected>>
    BY Zenon, <1>3 DEF DropInit, DropResponse, DropData
  <2> QED  BY Zenon, <1>1, <2>1, <2>2 DEF Quiet, QueuesKept, QueuedFor, Pending
<1>4. CASE LearnPeer(d, p)
  <2>1. \A c \in Device : c \notin dir'[c]
    BY Zenon, <1>1, <1>4 DEF LearnPeer, TypeOK
  <2>2. UNCHANGED <<sess, net, fresh, nextPacket, sealed, injected>>
    BY Zenon, <1>4 DEF LearnPeer
  <2> QED  BY Zenon, <2>1, <2>2 DEF Quiet, QueuesKept, QueuedFor, Pending
<1>5. CASE LapseLease(d) \/ RenewLease(d) \/ RequestReload(d, epoch)
  <2>1. UNCHANGED <<sess, dir, net, fresh, nextPacket, sealed, injected>>
    BY Zenon, <1>5 DEF LapseLease, RenewLease, RequestReload
  <2> QED  BY Zenon, <1>1, <2>1 DEF Quiet, QueuesKept, QueuedFor, Pending
<1> QED  BY Zenon, <1>2, <1>3, <1>4, <1>5

\* A tick and a rebuild forget sessions and send initiations again.
LEMMA WorkerQuiet ==
  ASSUME DeliveryInv, NEW d \in Device, Tick(d) \/ RebuildWorker(d)
  PROVE  Quiet /\ QueuesKept
<1> USE DEF DeliveryInv, NonceInv
<1>1. \A c \in Device : c \notin dir[c]
  BY Zenon DEF Owned
<1>2. NoSession.st = "none"
  BY Zenon DEF NoSession
<1>3. ASSUME NEW probe \in BOOLEAN, NEW lapsed \in SUBSET dir[d], WorkerTick(d, probe, lapsed)
      PROVE  Quiet /\ QueuesKept
  <2>1. \A c \in Device : c \notin dir'[c]
    BY Zenon, <1>1, <1>3 DEF WorkerTick, TypeOK
  <2>2. UNCHANGED <<fresh, nextPacket, sealed, injected>>
    BY Zenon, <1>3 DEF WorkerTick
  <2>3. ASSUME NEW c \in Device, NEW p \in Device
        PROVE  \/ sess'[c][p].st = "none"
               \/ sess'[c][p] = sess[c][p]
               \/ /\ Pending(c, p) /\ sess'[c][p].st = "pending"
                  /\ sess'[c][p].init = sess[c][p].init
                  /\ sess'[c][p].queue = sess[c][p].queue
    <3>1. CASE c # d
      BY Zenon, <1>3, <3>1 DEF WorkerTick, TypeOK
    <3>2. CASE c = d
      <4>1. sess'[d][p] = AfterRetry(d)[p] \/ sess'[d][p] = NoSession
        BY Zenon, <1>3 DEF WorkerTick, TypeOK
      <4>2. CASE p \in Retried(d)
        <5>1. Pending(d, p) /\ sess[d][p] \in PendingSession
          BY <4>2, SessionKinds DEF Retried, TypeOK, Pending
        <5>2. AfterRetry(d)[p] = [sess[d][p] EXCEPT !.lastSent = clock]
          BY Zenon, <4>2 DEF AfterRetry
        <5> QED  BY Zenon, <1>2, <3>2, <4>1, <5>1, <5>2 DEF PendingSession
      <4>3. CASE p \notin Retried(d)
        BY Zenon, <1>2, <3>2, <4>1, <4>3 DEF AfterRetry
      <4> QED  BY Zenon, <4>2, <4>3
    <3> QED  BY Zenon, <3>1, <3>2
  <2>4. ASSUME NEW e \in net', e \notin net
        PROVE  \E p \in Device : Pending(d, p) /\ e.body = sess[d][p].init
    <3>1. PICK p \in Retried(d) : e \in Post(d, p, <<sess[d][p].init>>)
      BY Zenon, <1>3, <2>4 DEF WorkerTick
    <3>2. e.body = sess[d][p].init
      BY <3>1, PostBodies
    <3> QED  BY Zenon, <3>2 DEF Retried
  <2> QED  BY Zenon, <2>1, <2>2, <2>3, <2>4 DEF Quiet, QueuesKept, QueuedFor, Pending
<1>4. CASE RebuildWorker(d)
  <2>1. \A c, p \in Device : sess'[c][p] = sess[c][p] \/ sess'[c][p].st = "none"
    BY Zenon, <1>2, <1>4 DEF RebuildWorker, TypeOK
  <2>2. \A c \in Device : c \notin dir'[c]
    BY Zenon, <1>1, <1>4 DEF RebuildWorker, TypeOK
  <2>3. UNCHANGED <<net, fresh, nextPacket, sealed, injected>>
    BY Zenon, <1>4 DEF RebuildWorker
  <2> QED  BY Zenon, <2>1, <2>2, <2>3 DEF Quiet, QueuesKept, QueuedFor, Pending
<1> QED  BY Zenon, <1>3, <1>4 DEF Tick

\* What `must_discard` leaves is the session of the table, not used up.
LEMMA UsableIsCurrent ==
  ASSUME NEW d, NEW p, Usable(d, p).st # "none"
  PROVE  /\ Usable(d, p) = sess[d][p]
         /\ Established(d, p) => sess[d][p].nextSeq # MaxSequence
<1>1. NoSession.st = "none"
  BY Zenon DEF NoSession
<1> QED  BY Zenon, <1>1 DEF Usable, MustDiscard, Established

\* Queueing a packet.
LEMMA QueueDelivery ==
  ASSUME DeliveryInv, NEW d \in Device, NEW p \in Device, QueueOutbound(d, p)
  PROVE  DeliveryInv'
<1> USE DEF DeliveryInv, NonceInv
<1> DEFINE s == sess[d][p]
           t == [s EXCEPT !.queue = Enqueue(@, nextPacket),
                          !.lastSent = IF Retransmits(s) THEN clock ELSE @]
<1>1. TypeOK'
  BY Zenon, OutboundType
<1>2. Usable(d, p) = s /\ s.st = "pending"
  <2>1. Usable(d, p).st = "pending"
    BY Zenon DEF QueueOutbound
  <2> QED  BY Zenon, <2>1, UsableIsCurrent
<1>3. s \in PendingSession
  BY <1>2, SessionKinds DEF TypeOK
<1>4. t.st = "pending" /\ t.init = s.init /\ t.queue = Enqueue(s.queue, nextPacket)
  BY Zenon, <1>3 DEF PendingSession
<1>5. sess' = [sess EXCEPT ![d][p] = t]
  BY Zenon, <1>2 DEF QueueOutbound
<1>6. /\ sess'[d][p] = t
      /\ \A c, q \in Device : c # d \/ q # p => sess'[c][q] = sess[c][q]
  <2> HIDE DEF t
  <2> QED  BY Zenon, <1>5 DEF TypeOK
<1>7. UNCHANGED <<dir, fresh, sealed, injected>> /\ nextPacket' = nextPacket + 1
      /\ nextPacket \in Nat
  BY DEF QueueOutbound, ReadPacket, TypeOK
<1>8. Quiet
  <2>1. \A e \in Post(d, p, <<s.init>>) : e.body = s.init
    BY Zenon, PostOne
  <2>2. net' = net \/ net' = net \cup Post(d, p, <<s.init>>)
    BY Zenon, <1>2 DEF QueueOutbound
  <2>3. \A e \in net' :
          (\E f \in net : f.body = e.body) \/ (Pending(d, p) /\ e.body = sess[d][p].init)
    BY Zenon, <1>2, <2>1, <2>2 DEF Pending
  <2>4. \A c, q \in Device :
          \/ sess'[c][q] = sess[c][q]
          \/ /\ Pending(c, q) /\ sess'[c][q].st = "pending"
             /\ sess'[c][q].init = sess[c][q].init
    BY ZenonT(40), <1>2, <1>4, <1>6 DEF Pending
  <2>5. \A c \in Device : c \notin dir'[c]
    BY Zenon, <1>7 DEF Owned
  <2> QED  BY Zenon, <1>7, <2>3, <2>4, <2>5 DEF Quiet
<1>9. OnePlace'
  <2>1. QueuedFor(d, p) = s.queue /\ QueuedFor(d, p)' = Enqueue(s.queue, nextPacket)
    BY Zenon, <1>2, <1>4, <1>6 DEF QueuedFor, Pending
  <2>2. \A c, q \in Device : c # d \/ q # p => QueuedFor(c, q)' = QueuedFor(c, q)
    BY Zenon, <1>6 DEF QueuedFor, Pending
  <2>3. s.queue \in Seq(Packet)
    BY Zenon, <1>3 DEF PendingSession
  <2>4. ASSUME NEW i \in DOMAIN QueuedFor(d, p)'
        PROVE  \/ i \in DOMAIN QueuedFor(d, p) /\ QueuedFor(d, p)'[i] = QueuedFor(d, p)[i]
               \/ i = Len(s.queue) + 1 /\ QueuedFor(d, p)'[i] = nextPacket
    BY <2>1, <2>3 DEF Enqueue
  <2>5. \A x \in sealed : x.packet \in Nat /\ x.packet < nextPacket
    BY DEF OnePlace, TypeOK, DataMsg, Packet
  <2>6. ASSUME NEW c \in Device, NEW q \in Device
        PROVE  \A i \in DOMAIN QueuedFor(c, q) : QueuedFor(c, q)[i] \in Nat
    <3>1. QueuedFor(c, q) \in Seq(Packet)
      BY Zenon, QueuedForType
    <3>2. \A i \in DOMAIN QueuedFor(c, q) : QueuedFor(c, q)[i] \in Packet
      BY <3>1
    <3> QED  BY <3>2 DEF Packet
  <2>7. \A x \in sealed' : x.packet < nextPacket'
    BY <1>7, <2>5
  <2>8. \A x, y \in sealed' : x.packet = y.packet => x = y
    BY Zenon, <1>7 DEF OnePlace
  <2>9. ASSUME NEW c \in Device, NEW q \in Device, NEW i \in DOMAIN QueuedFor(c, q)'
        PROVE  \/ /\ i \in DOMAIN QueuedFor(c, q)
                  /\ QueuedFor(c, q)'[i] = QueuedFor(c, q)[i]
                  /\ QueuedFor(c, q)[i] < nextPacket
                  /\ QueuedFor(c, q)[i] \in Nat
               \/ c = d /\ q = p /\ i = Len(s.queue) + 1 /\ QueuedFor(c, q)'[i] = nextPacket
    BY Zenon, <2>2, <2>4, <2>6 DEF OnePlace
  <2>10. ASSUME NEW c \in Device, NEW q \in Device, NEW i \in DOMAIN QueuedFor(c, q)'
         PROVE  /\ QueuedFor(c, q)'[i] < nextPacket'
                /\ \A x \in sealed' : x.packet # QueuedFor(c, q)'[i]
    <3>1. CASE c = d /\ q = p /\ i = Len(s.queue) + 1 /\ QueuedFor(c, q)'[i] = nextPacket
      BY <1>7, <2>5, <3>1
    <3>2. CASE /\ i \in DOMAIN QueuedFor(c, q)
               /\ QueuedFor(c, q)'[i] = QueuedFor(c, q)[i]
               /\ QueuedFor(c, q)[i] < nextPacket
               /\ QueuedFor(c, q)[i] \in Nat
      BY <1>7, <3>2 DEF OnePlace
    <3> QED  BY Zenon, <2>9, <3>1, <3>2
  <2>11. ASSUME NEW a \in Device, NEW b \in Device, NEW i \in DOMAIN QueuedFor(a, b)',
                NEW c \in Device, NEW q \in Device, NEW j \in DOMAIN QueuedFor(c, q)',
                QueuedFor(a, b)'[i] = QueuedFor(c, q)'[j]
         PROVE  a = c /\ b = q /\ i = j
    BY <1>7, <2>9, <2>11 DEF OnePlace
  <2> QED  BY <2>7, <2>8, <2>10, <2>11 DEF OnePlace
<1> QED  BY Zenon, <1>1, <1>8, <1>9, QuietDelivery

\* What a session, a datagram or a frame holds, field by field.
LEMMA FieldTypes ==
  ASSUME TypeOK
  PROVE  /\ \A d, p \in Device :
              /\ Pending(d, p) =>
                   /\ sess[d][p] \in PendingSession
                   /\ sess[d][p].init.sid \in Sid /\ sess[d][p].init.sid.n \in Nat
              /\ Established(d, p) =>
                   /\ sess[d][p] \in EstablishedSession
                   /\ sess[d][p].key \in Key
                   /\ sess[d][p].key.sid.n \in Nat /\ sess[d][p].key.eph \in Nat
                   /\ sess[d][p].window \in Window /\ sess[d][p].nextSeq \in Nat
                   /\ \A r \in sess[d][p].cached : r.eph \in Nat
         /\ \A e \in net :
              /\ e.body.type = "init" => e.body \in InitMsg /\ e.body.sid.n \in Nat
              /\ e.body.type = "response" => e.body \in ResponseMsg /\ e.body.eph \in Nat
         /\ \A x \in sealed :
              /\ x.key.sid.n \in Nat /\ x.key.eph \in Nat /\ x.seq \in Nat
              /\ x.src \in Device /\ x.dst \in Device
              /\ x.packet \in Packet /\ x.packet \in Nat
<1>1. ASSUME NEW d \in Device, NEW p \in Device
      PROVE  /\ Pending(d, p) => sess[d][p] \in PendingSession
             /\ Established(d, p) => sess[d][p] \in EstablishedSession
  BY SessionKinds DEF TypeOK, Pending, Established
<1>2. \A k \in Key : k.sid \in Sid /\ k.sid.n \in Nat /\ k.eph \in Nat
  BY Zenon DEF Key, Sid
<1>3. \A m \in InitMsg : m.sid \in Sid /\ m.sid.n \in Nat /\ m.type = "init"
  BY Zenon DEF InitMsg, Sid
<1>4. \A m \in ResponseMsg : m.eph \in Nat /\ m.type = "response"
  BY Zenon DEF ResponseMsg
<1>5. \A m \in DataMsg : /\ m.type = "data" /\ m.key \in Key /\ m.seq \in Nat
                         /\ m.src \in Device /\ m.dst \in Device /\ m.packet \in Packet
  BY Zenon DEF DataMsg
<1>6. \A k \in Packet : k \in Nat
  BY DEF Packet
<1>7. \A s \in PendingSession : s.init \in InitMsg
  BY Zenon DEF PendingSession
<1>8. \A s \in EstablishedSession : /\ s.key \in Key /\ s.window \in Window /\ s.nextSeq \in Nat
                                    /\ s.cached \subseteq ResponseMsg
  BY Zenon DEF EstablishedSession
<1>9. \A e \in net : e.body \in InitMsg \/ e.body \in ResponseMsg \/ e.body \in DataMsg
  BY Zenon DEF TypeOK, Msg
<1>10. sealed \subseteq DataMsg
  BY Zenon DEF TypeOK
<1>11. \A d, p \in Device :
              /\ Pending(d, p) =>
                   /\ sess[d][p] \in PendingSession
                   /\ sess[d][p].init.sid \in Sid /\ sess[d][p].init.sid.n \in Nat
              /\ Established(d, p) =>
                   /\ sess[d][p] \in EstablishedSession
                   /\ sess[d][p].key \in Key
                   /\ sess[d][p].key.sid.n \in Nat /\ sess[d][p].key.eph \in Nat
                   /\ sess[d][p].window \in Window /\ sess[d][p].nextSeq \in Nat
                   /\ \A r \in sess[d][p].cached : r.eph \in Nat
  BY Zenon, <1>1, <1>2, <1>3, <1>4, <1>7, <1>8
<1>12. \A e \in net :
              /\ e.body.type = "init" => e.body \in InitMsg /\ e.body.sid.n \in Nat
              /\ e.body.type = "response" => e.body \in ResponseMsg /\ e.body.eph \in Nat
  BY Zenon, <1>3, <1>4, <1>5, <1>9
<1>13. \A x \in sealed :
              /\ x.key.sid.n \in Nat /\ x.key.eph \in Nat /\ x.seq \in Nat
              /\ x.src \in Device /\ x.dst \in Device
              /\ x.packet \in Packet /\ x.packet \in Nat
  BY Zenon, <1>2, <1>5, <1>6, <1>10
<1> QED  BY Zenon, <1>11, <1>12, <1>13

\* What was drawn before is drawn before the next value too.
LEMMA DrawnLater ==
  ASSUME TypeOK, Drawn
  PROVE  DrawnBefore(fresh + 1)
<1>1. fresh \in Nat /\ \A n \in Nat : n < fresh => n < fresh + 1
  BY DEF TypeOK
<1>2. \A d, p \in Device :
       /\ Pending(d, p) => sess[d][p].init.sid.n < fresh + 1
       /\ Established(d, p) =>
            /\ sess[d][p].key.sid.n < fresh + 1
            /\ sess[d][p].key.eph < fresh + 1
            /\ \A r \in sess[d][p].cached : r.type = "response" /\ r.eph < fresh + 1
  BY ZenonT(40), <1>1, FieldTypes DEF Drawn, DrawnBefore
<1>3. \A e \in net :
       /\ e.body.type = "init" => e.body.sid.n < fresh + 1
       /\ e.body.type = "response" => e.body.eph < fresh + 1
  BY Zenon, <1>1, FieldTypes DEF Drawn, DrawnBefore
<1>4. \A x \in sealed : x.key.sid.n < fresh + 1 /\ x.key.eph < fresh + 1
  BY Zenon, <1>1, FieldTypes DEF Drawn, DrawnBefore
<1> QED  BY Zenon, <1>2, <1>3, <1>4 DEF DrawnBefore

\* Starting a handshake: the session id is new and the packet waits in its queue.
LEMMA StartDelivery ==
  ASSUME DeliveryInv, NEW d \in Device, NEW p \in Device, StartHandshake(d, p)
  PROVE  DeliveryInv'
<1> USE DEF DeliveryInv, NonceInv
<1> DEFINE sid == [by |-> d, n |-> fresh]
           i == [type |-> "init", src |-> d, dst |-> p, sid |-> sid, issued |-> Wall(d)]
           t == [st |-> "pending", init |-> i, createdAt |-> clock, lastSent |-> clock,
                 queue |-> <<nextPacket>>]
<1>1. TypeOK'
  BY Zenon, OutboundType
<1>2. sess' = [sess EXCEPT ![d][p] = t] /\ net' = net \cup Post(d, p, <<i>>)
  BY Zenon DEF StartHandshake
<1>3. /\ UNCHANGED <<dir, sealed, injected>>
      /\ fresh' = fresh + 1 /\ fresh \in Nat
      /\ nextPacket' = nextPacket + 1 /\ nextPacket \in Nat
  <2>1. UNCHANGED <<dir, sealed, injected>> /\ fresh' = fresh + 1
    BY Zenon DEF StartHandshake, ReadPacket
  <2>2. nextPacket' = nextPacket + 1
    BY Zenon DEF StartHandshake, ReadPacket
  <2>3. fresh \in Nat /\ nextPacket \in Nat
    BY Zenon, CountersType
  <2> QED  BY Zenon, <2>1, <2>2, <2>3
<1>4. /\ t.st = "pending" /\ t.init = i /\ t.queue = <<nextPacket>>
      /\ i.type = "init" /\ i.src = d /\ i.sid = sid /\ i.sid.by = d /\ i.sid.n = fresh
  BY Zenon
<1>5. \A e \in net' : e \in net \/ e.body = i
  <2> HIDE DEF i
  <2>1. \A e \in Post(d, p, <<i>>) : e.body = i
    BY Zenon, PostOne
  <2> QED  BY ZenonT(40), <1>2, <2>1
<1> HIDE DEF t, i, sid
<1>6. /\ sess'[d][p] = t
      /\ \A c, q \in Device : c # d \/ q # p => sess'[c][q] = sess[c][q]
  BY Zenon, <1>2 DEF TypeOK
<1>7. /\ Pending(d, p)' /\ ~Established(d, p)' /\ sess'[d][p].init = i
      /\ \A c, q \in Device : c # d \/ q # p =>
           /\ Pending(c, q)' <=> Pending(c, q)
           /\ Established(c, q)' <=> Established(c, q)
           /\ sess'[c][q] = sess[c][q]
  BY Zenon, <1>4, <1>6 DEF Pending, Established
<1>8. Drawn'
  <2>1. DrawnBefore(fresh')
    BY Zenon, <1>3, DrawnLater
  <2>2. fresh < fresh'
    BY <1>3
  <2>3. ASSUME NEW c \in Device, NEW q \in Device
        PROVE  /\ Pending(c, q)' => sess'[c][q].init.sid.n < fresh'
               /\ Established(c, q)' =>
                    /\ sess'[c][q].key.sid.n < fresh'
                    /\ sess'[c][q].key.eph < fresh'
                    /\ \A r \in sess'[c][q].cached : r.type = "response" /\ r.eph < fresh'
    <3>1. CASE c = d /\ q = p
      BY <1>4, <1>7, <2>2, <3>1
    <3>2. CASE c # d \/ q # p
      <4>1. /\ Pending(c, q)' <=> Pending(c, q)
            /\ Established(c, q)' <=> Established(c, q)
            /\ sess'[c][q] = sess[c][q]
        BY Zenon, <1>7, <3>2
      <4> QED  BY Zenon, <2>1, <4>1 DEF DrawnBefore
    <3> QED  BY ZenonT(40), <3>1, <3>2
  <2>4. ASSUME NEW e \in net'
        PROVE  /\ e.body.type = "init" => e.body.sid.n < fresh'
               /\ e.body.type = "response" => e.body.eph < fresh'
    BY Zenon, <1>3, <1>4, <1>5, <2>1, <2>2 DEF DrawnBefore
  <2>5. \A x \in sealed' : x.key.sid.n < fresh' /\ x.key.eph < fresh'
    BY Zenon, <1>3, <2>1 DEF DrawnBefore
  <2> QED  BY Zenon, <2>3, <2>4, <2>5 DEF Drawn, DrawnBefore
<1>9. Owned'
  <2>1. \A e \in net' : e.body.type = "init" => e.body.sid.by = e.body.src
    BY Zenon, <1>4, <1>5 DEF Owned
  <2> QED  BY <1>3, <1>4, <1>7, <2>1, SMTT(30) DEF Owned
<1>10. ASSUME NEW n \in Nat, n < fresh PROVE n # fresh
  BY <1>3, <1>10
<1>11. KeysApart'
  <2>1. ASSUME NEW q \in Device
        PROVE  /\ q # p /\ Pending(d, q) => sess[d][q].init.sid # i.sid
               /\ q # p /\ Established(d, q) => sess[d][q].key.sid # i.sid
    BY ZenonT(40), <1>4, <1>10, FieldTypes DEF Drawn, DrawnBefore
  <2> SUFFICES ASSUME NEW c \in Device, NEW r \in Device, NEW q \in Device
               PROVE  /\ Pending(c, r)' /\ Pending(c, q)' /\ sess'[c][r].init.sid = sess'[c][q].init.sid
                         => r = q
                      /\ Pending(c, r)' /\ Established(c, q)'
                         => sess'[c][r].init.sid # sess'[c][q].key.sid
                      /\ Established(c, r)' /\ Established(c, q)' /\ sess'[c][r].key = sess'[c][q].key
                         => r = q
    BY Zenon DEF KeysApart
  <2>2. CASE c # d \/ (r # p /\ q # p)
    BY SMTT(30), <1>7, <2>2 DEF KeysApart
  <2>3. CASE c = d /\ r = p
    BY Zenon, <1>7, <2>1, <2>3
  <2>4. CASE c = d /\ q = p
    BY Zenon, <1>7, <2>1, <2>4
  <2> QED  BY Zenon, <2>2, <2>3, <2>4
<1>12. CounterAhead' /\ NonceUnique'
  <2>1. \A x \in sealed : x.key.sid # i.sid /\ x.src \in Device
    BY ZenonT(40), <1>4, <1>10, FieldTypes DEF Drawn, DrawnBefore
  <2>2. CounterAhead'
    BY <1>3, <1>7, <2>1, SMTT(30) DEF CounterAhead
  <2> QED  BY Zenon, <1>3, <2>2 DEF NonceUnique
<1>13. OnePlace'
  <2>1. QueuedFor(d, p)' = <<nextPacket>>
        /\ \A c, q \in Device : c # d \/ q # p => QueuedFor(c, q)' = QueuedFor(c, q)
    BY Zenon, <1>4, <1>6 DEF QueuedFor, Pending
  <2>2. ASSUME NEW c \in Device, NEW q \in Device
        PROVE  \A j \in DOMAIN QueuedFor(c, q) : QueuedFor(c, q)[j] \in Packet
    <3>1. QueuedFor(c, q) \in Seq(Packet)
      BY Zenon, QueuedForType
    <3> QED  BY <3>1
  <2>3. \A k \in Packet : k < nextPacket => k # nextPacket /\ k < nextPacket'
    BY <1>3 DEF Packet
  <2>4. ASSUME NEW c \in Device, NEW q \in Device, NEW j \in DOMAIN QueuedFor(c, q)'
        PROVE  \/ /\ c = d /\ q = p /\ j = 1 /\ QueuedFor(c, q)'[j] = nextPacket
               \/ /\ c # d \/ q # p
                  /\ j \in DOMAIN QueuedFor(c, q)
                  /\ QueuedFor(c, q)'[j] = QueuedFor(c, q)[j]
                  /\ QueuedFor(c, q)[j] # nextPacket
                  /\ QueuedFor(c, q)[j] < nextPacket'
    <3>1. CASE c = d /\ q = p
      BY <2>1, <3>1
    <3>2. CASE c # d \/ q # p
      BY Zenon, <2>1, <2>2, <2>3, <3>2 DEF OnePlace
    <3> QED  BY Zenon, <3>1, <3>2
  <2>5. \A x \in sealed : x.packet # nextPacket /\ x.packet < nextPacket'
    BY Zenon, <2>3, FieldTypes DEF OnePlace
  <2>6. nextPacket < nextPacket'
    BY <1>3
  <2>7. ASSUME NEW c \in Device, NEW q \in Device, NEW j \in DOMAIN QueuedFor(c, q)'
        PROVE  /\ QueuedFor(c, q)'[j] < nextPacket'
               /\ \A x \in sealed' : x.packet # QueuedFor(c, q)'[j]
    BY <1>3, <2>4, <2>5, <2>6 DEF OnePlace
  <2>8. ASSUME NEW a \in Device, NEW b \in Device, NEW k \in DOMAIN QueuedFor(a, b)',
               NEW c \in Device, NEW q \in Device, NEW j \in DOMAIN QueuedFor(c, q)',
               QueuedFor(a, b)'[k] = QueuedFor(c, q)'[j]
        PROVE  a = c /\ b = q /\ k = j
    BY <2>4, <2>8 DEF OnePlace
  <2>9. /\ \A x \in sealed' : x.packet < nextPacket'
        /\ \A x, y \in sealed' : x.packet = y.packet => x = y
    BY Zenon, <1>3, <2>5 DEF OnePlace
  <2> QED  BY <2>7, <2>8, <2>9 DEF OnePlace
<1>14. Authentic'
  BY Zenon, <1>3, <1>4, <1>5 DEF Authentic
<1>15. Spent'
  <2>1. \A x \in sealed : x.key.sid # i.sid /\ x.src \in Device /\ x.dst \in Device
    BY Zenon, <1>4, <1>10, FieldTypes DEF Drawn, DrawnBefore
  <2>2. ASSUME NEW x \in sealed, injected[x.packet] # 0
        PROVE  /\ Established(x.dst, x.src)' /\ sess'[x.dst][x.src].key = x.key
                    => ~CanAccept(sess'[x.dst][x.src].window, x.seq)
               /\ Pending(x.dst, x.src)' => sess'[x.dst][x.src].init.sid # x.key.sid
    BY ZenonT(40), <1>7, <2>1, <2>2 DEF Spent
  <2>3. \A k \in Packet : injected'[k] # 0 =>
          injected'[k] = 1 /\ \E x \in sealed' : x.packet = k
    BY Zenon, <1>3 DEF Spent
  <2> QED  BY Zenon, <1>3, <2>2, <2>3 DEF Spent
<1> QED  BY Zenon, <1>1, <1>8, <1>9, <1>11, <1>12, <1>13, <1>14, <1>15

-------------------------------------------------------------------------------
(* The steps that seal, install a session or open a frame. *)

\* Sealing a packet under the next sequence number of an established session.
LEMMA SealDelivery ==
  ASSUME DeliveryInv, NEW d \in Device, NEW p \in Device, SealOutbound(d, p)
  PROVE  DeliveryInv'
<1> USE DEF DeliveryInv, NonceInv
<1> DEFINE s == sess[d][p]
           t == [s EXCEPT !.nextSeq = SaturatingNext(@)]
           f == Frame(d, p, s.key, s.nextSeq, nextPacket)
<1>1. TypeOK'
  BY Zenon, OutboundType
<1>2. Usable(d, p) = s /\ Established(d, p) /\ s.nextSeq # MaxSequence
  <2>1. Usable(d, p).st = "established"
    BY Zenon DEF SealOutbound
  <2> QED  BY Zenon, <2>1, UsableIsCurrent DEF Established
<1>3. s \in EstablishedSession /\ s.nextSeq \in Nat /\ s.nextSeq < MaxSequence
  <2>1. s \in EstablishedSession /\ s.nextSeq \in Nat
    BY Zenon, <1>2, FieldTypes
  <2>2. s.nextSeq <= MaxSequence
    BY Zenon, <1>2 DEF TypeOK
  <2> QED  BY <1>2, <2>1, <2>2, Constants
<1>4. /\ t.st = "established" /\ t.key = s.key /\ t.cached = s.cached /\ t.window = s.window
      /\ t.nextSeq = s.nextSeq + 1
  BY Zenon, <1>3 DEF EstablishedSession, SaturatingNext
<1>5. /\ sess' = [sess EXCEPT ![d][p] = t]
      /\ sealed' = sealed \cup {f}
      /\ net' = net \cup Post(d, p, <<f>>)
  BY Zenon, <1>2 DEF SealOutbound
<1>6. /\ UNCHANGED <<dir, fresh, injected>>
      /\ nextPacket' = nextPacket + 1 /\ nextPacket \in Nat /\ nextPacket \in Packet
  BY Constants DEF SealOutbound, ReadPacket, TypeOK, Packet
<1>7. /\ f.type = "data" /\ f.src = d /\ f.dst = p /\ f.key = s.key
      /\ f.seq = s.nextSeq /\ f.packet = nextPacket
  BY Zenon DEF Frame
<1>8. \A e \in net' : e \in net \/ e.body = f
  <2> HIDE DEF t, f
  <2>1. \A e \in Post(d, p, <<f>>) : e.body = f
    BY Zenon, PostOne
  <2> QED  BY Zenon, <1>5, <2>1
<1> HIDE DEF t, f
<1>9. /\ sess'[d][p] = t
      /\ \A c, q \in Device : c # d \/ q # p => sess'[c][q] = sess[c][q]
  BY Zenon, <1>5 DEF TypeOK
<1>10. ASSUME NEW c \in Device, NEW q \in Device
       PROVE  /\ Pending(c, q)' => Pending(c, q) /\ sess'[c][q] = sess[c][q]
              /\ Established(c, q)' =>
                   /\ Established(c, q)
                   /\ sess'[c][q].key = sess[c][q].key
                   /\ sess'[c][q].cached = sess[c][q].cached
                   /\ sess'[c][q].window = sess[c][q].window
              /\ QueuedFor(c, q)' = QueuedFor(c, q)
  <2>1. CASE c = d /\ q = p
    BY Zenon, <1>2, <1>4, <1>9, <2>1 DEF Pending, Established, QueuedFor
  <2>2. CASE c # d \/ q # p
    BY Zenon, <1>9, <2>2 DEF Pending, Established, QueuedFor
  <2> QED  BY Zenon, <2>1, <2>2
<1>11. Drawn'
  <2>1. s.key.sid.n < fresh /\ s.key.eph < fresh
    BY ZenonT(40), <1>2 DEF Drawn, DrawnBefore
  <2>2. ASSUME NEW c \in Device, NEW q \in Device
        PROVE  /\ Pending(c, q)' => sess'[c][q].init.sid.n < fresh'
               /\ Established(c, q)' =>
                    /\ sess'[c][q].key.sid.n < fresh'
                    /\ sess'[c][q].key.eph < fresh'
                    /\ \A r \in sess'[c][q].cached : r.type = "response" /\ r.eph < fresh'
    <3>1. /\ Pending(c, q) => sess[c][q].init.sid.n < fresh
          /\ Established(c, q) =>
               /\ sess[c][q].key.sid.n < fresh
               /\ sess[c][q].key.eph < fresh
               /\ \A r \in sess[c][q].cached : r.type = "response" /\ r.eph < fresh
      BY Zenon DEF Drawn, DrawnBefore
    <3> QED  BY Zenon, <1>6, <1>10, <3>1
  <2>3. ASSUME NEW e \in net'
        PROVE  /\ e.body.type = "init" => e.body.sid.n < fresh'
               /\ e.body.type = "response" => e.body.eph < fresh'
    BY Zenon, <1>6, <1>7, <1>8 DEF Drawn, DrawnBefore
  <2>4. \A x \in sealed' : x.key.sid.n < fresh' /\ x.key.eph < fresh'
    BY Zenon, <1>5, <1>6, <1>7, <2>1 DEF Drawn, DrawnBefore
  <2> QED  BY Zenon, <2>2, <2>3, <2>4 DEF Drawn, DrawnBefore
<1>12. Owned'
  <2>1. \A e \in net' : e.body.type = "init" => e.body.sid.by = e.body.src
    BY ZenonT(40), <1>7, <1>8 DEF Owned
  <2>2. \A c, q \in Device :
          Pending(c, q)' => sess'[c][q].init.src = c /\ sess'[c][q].init.sid.by = c
    BY SMTT(30), <1>10 DEF Owned
  <2> QED  BY Zenon, <1>6, <2>1, <2>2 DEF Owned
<1>13. KeysApart'
  <2>1. ASSUME NEW c \in Device, NEW a \in Device, NEW b \in Device
        PROVE  /\ Established(c, a)' => Established(c, a) /\ sess'[c][a].key = sess[c][a].key
               /\ Established(c, b)' => Established(c, b) /\ sess'[c][b].key = sess[c][b].key
               /\ Pending(c, a)' => Pending(c, a) /\ sess'[c][a].init = sess[c][a].init
               /\ Pending(c, b)' => Pending(c, b) /\ sess'[c][b].init = sess[c][b].init
    BY Zenon, <1>10
  <2>2. KeysApart
    BY Zenon
  <2> HIDE DEF NonceInv
  <2> QED  BY SMTT(30), <2>1, <2>2 DEF KeysApart
<1>14. CounterAhead'
  <2>1. \A x \in sealed : x.src \in Device /\ x.seq \in Nat
    BY Zenon, FieldTypes
  <2>2. ASSUME NEW x \in sealed, NEW q \in Device
        PROVE  /\ Established(x.src, q)' /\ sess'[x.src][q].key = x.key
                    => x.seq < sess'[x.src][q].nextSeq
               /\ Pending(x.src, q)' => x.key.sid # sess'[x.src][q].init.sid
    <3>1. CASE x.src = d /\ q = p
      <4>1. Established(d, p) /\ s.key = x.key => x.seq < s.nextSeq
        BY Zenon, <3>1 DEF CounterAhead
      <4>2. ~Pending(d, p)'
        BY ZenonT(40), <1>4, <1>9 DEF Pending
      <4>3. s.key = x.key => x.seq < t.nextSeq
        BY SMTT(30), <1>2, <1>3, <1>4, <2>1, <4>1
      <4> QED  BY Zenon, <1>4, <1>9, <3>1, <4>2, <4>3
    <3>2. CASE x.src # d \/ q # p
      BY <1>9, <2>1, <3>2 DEF CounterAhead, Established, Pending
    <3> QED  BY Zenon, <3>1, <3>2
  <2>3. ASSUME NEW q \in Device
        PROVE  /\ Established(d, q)' /\ sess'[d][q].key = s.key
                    => s.nextSeq < sess'[d][q].nextSeq
               /\ Pending(d, q)' => s.key.sid # sess'[d][q].init.sid
    <3>1. CASE q = p
      <4>1. s.nextSeq < t.nextSeq
        BY <1>3, <1>4
      <4> QED  BY Zenon, <1>4, <1>9, <3>1, <4>1 DEF Pending
    <3>2. CASE q # p
      <4>1. sess'[d][q] = sess[d][q] /\ (Established(d, q)' => Established(d, q))
            /\ (Pending(d, q)' => Pending(d, q))
        BY Zenon, <1>9, <1>10, <3>2
      <4>2. Established(d, q) => sess[d][q].key # s.key
        BY Zenon, <1>2, <3>2 DEF KeysApart
      <4>3. Pending(d, q) => s.key.sid # sess[d][q].init.sid
        BY Zenon, <1>2 DEF KeysApart
      <4> QED  BY Zenon, <4>1, <4>2, <4>3
    <3> QED  BY Zenon, <3>1, <3>2
  <2> QED  BY <1>5, <1>7, <2>2, <2>3 DEF CounterAhead
<1>15. NonceUnique'
  <2>1. ASSUME NEW x \in sealed, x.src = d, x.key = s.key
        PROVE  x.seq # s.nextSeq
    <3>1. x.seq < s.nextSeq /\ x.seq \in Nat
      BY ZenonT(40), <1>2, <2>1, FieldTypes DEF CounterAhead
    <3> QED  BY <1>3, <3>1
  <2> QED  BY <1>5, <1>7, <2>1 DEF NonceUnique
<1>16. OnePlace'
  <2>1. ASSUME NEW c \in Device, NEW q \in Device
        PROVE  \A j \in DOMAIN QueuedFor(c, q) :
                 QueuedFor(c, q)[j] \in Packet /\ QueuedFor(c, q)[j] < nextPacket
    <3>1. QueuedFor(c, q) \in Seq(Packet)
      BY Zenon, QueuedForType
    <3> QED  BY <3>1 DEF OnePlace
  <2>2. \A k \in Packet : k < nextPacket => k # nextPacket /\ k < nextPacket'
    BY <1>6 DEF Packet
  <2>3. nextPacket < nextPacket'
    BY <1>6
  <2>4. \A x \in sealed : x.packet # nextPacket /\ x.packet < nextPacket'
    BY Zenon, <2>2, FieldTypes DEF OnePlace
  <2>5. /\ \A x \in sealed' : x.packet < nextPacket'
        /\ \A x, y \in sealed' : x.packet = y.packet => x = y
    BY Zenon, <1>5, <1>7, <2>3, <2>4 DEF OnePlace
  <2>6. ASSUME NEW c \in Device, NEW q \in Device, NEW j \in DOMAIN QueuedFor(c, q)
        PROVE  /\ QueuedFor(c, q)[j] < nextPacket'
               /\ \A x \in sealed' : x.packet # QueuedFor(c, q)[j]
    BY <1>5, <1>7, <2>1, <2>2 DEF OnePlace
  <2>7. ASSUME NEW a \in Device, NEW b \in Device, NEW k \in DOMAIN QueuedFor(a, b),
               NEW c \in Device, NEW q \in Device, NEW j \in DOMAIN QueuedFor(c, q),
               QueuedFor(a, b)[k] = QueuedFor(c, q)[j]
        PROVE  a = c /\ b = q /\ k = j
    BY <2>7 DEF OnePlace
  <2> QED  BY <1>10, <2>5, <2>6, <2>7 DEF OnePlace
<1>17. Authentic'
  BY Zenon, <1>5, <1>8 DEF Authentic
<1>18. Spent'
  <2>1. injected[nextPacket] = 0
    <3>1. \A x \in sealed : x.packet # nextPacket
      <4>1. \A k \in Packet : k < nextPacket => k # nextPacket
        BY SMTT(30), <1>6 DEF Packet
      <4> QED  BY Zenon, <4>1, FieldTypes DEF OnePlace
    <3> QED  BY Zenon, <1>6, <3>1 DEF Spent
  <2>2. ASSUME NEW x \in sealed, injected[x.packet] # 0
        PROVE  /\ Established(x.dst, x.src)' /\ sess'[x.dst][x.src].key = x.key
                    => ~CanAccept(sess'[x.dst][x.src].window, x.seq)
               /\ Pending(x.dst, x.src)' => sess'[x.dst][x.src].init.sid # x.key.sid
    <3>1. x.src \in Device /\ x.dst \in Device
      BY Zenon, FieldTypes
    <3> QED  BY SMTT(30), <1>10, <2>2, <3>1 DEF Spent
  <2>3. \A k \in Packet : injected'[k] # 0 =>
          injected'[k] = 1 /\ \E x \in sealed' : x.packet = k
    BY Zenon, <1>5, <1>6 DEF Spent
  <2> QED  BY Zenon, <1>5, <1>6, <1>7, <2>1, <2>2, <2>3 DEF Spent
<1> QED  BY Zenon, <1>1, <1>11, <1>12, <1>13, <1>14, <1>15, <1>16, <1>17, <1>18

\* A step that installs a session under a key this device has not sealed under,
\* that it holds with no other peer, and under which nothing was delivered to it;
\* the packets queued so far are sealed from sequence number 0.
Installs(d, p, key, cached) ==
  /\ sess' = [sess EXCEPT ![d][p] = NewSession(key, QueuedFor(d, p), cached)]
  /\ sealed' = sealed \cup {SealQueue(d, p, key, QueuedFor(d, p))[i] :
                              i \in DOMAIN SealQueue(d, p, key, QueuedFor(d, p))}
  /\ \A e \in net' :
       \/ e \in net
       \/ e.body \in cached
       \/ \E i \in DOMAIN SealQueue(d, p, key, QueuedFor(d, p)) :
            e.body = SealQueue(d, p, key, QueuedFor(d, p))[i]
  /\ UNCHANGED <<dir, nextPacket, injected>>
  /\ DrawnBefore(fresh')
  /\ key.sid.n < fresh' /\ key.eph < fresh'
  /\ \A r \in cached : r.eph < fresh'
  /\ \A x \in sealed : x.src = d => x.key # key
  /\ \A x \in sealed : x.dst = d /\ x.src = p /\ injected[x.packet] # 0 => x.key # key
  /\ \A q \in Device : q # p =>
       /\ Established(d, q) => sess[d][q].key # key
       /\ Pending(d, q) => sess[d][q].init.sid # key.sid

\* Installing a session under a key nobody has used, and sealing the queue
\* under it (`establish` and `seal_queued_packets`), keeps the invariant.
LEMMA InstallDelivery ==
  ASSUME DeliveryInv, TypeOK', NEW d \in Device, NEW p \in Device,
         NEW key \in Key, NEW cached \in SUBSET ResponseMsg, Installs(d, p, key, cached)
  PROVE  DeliveryInv'
<1> USE DEF DeliveryInv, NonceInv, Installs
<1> DEFINE queue == QueuedFor(d, p)
           t == NewSession(key, queue, cached)
           Framed(i) == Frame(d, p, key, i - 1, queue[i])
<1>1. queue \in Seq(Packet) /\ Len(queue) \in Nat /\ DOMAIN queue = 1 .. Len(queue)
  BY QueuedForType
<1>2. /\ \A e \in net' : e \in net \/ e.body \in cached
                         \/ \E i \in 1 .. Len(queue) : e.body = Framed(i)
      /\ sealed' = sealed \cup {Framed(i) : i \in 1 .. Len(queue)}
  <2> DEFINE sq == SealQueue(d, p, key, queue)
  <2>1. DOMAIN sq = 1 .. Len(queue) /\ \A i \in 1 .. Len(queue) : sq[i] = Framed(i)
    BY <1>1, SealQueueType
  <2>2. /\ \A e \in net' : e \in net \/ e.body \in cached \/ \E i \in DOMAIN sq : e.body = sq[i]
        /\ sealed' = sealed \cup {sq[i] : i \in DOMAIN sq}
    BY Zenon
  <2> HIDE DEF sq, Framed, queue
  <2> QED  BY <2>1, <2>2
<1>3. \A i \in 1 .. Len(queue) :
        /\ Framed(i).type = "data" /\ Framed(i).src = d /\ Framed(i).dst = p
        /\ Framed(i).key = key /\ Framed(i).seq = i - 1 /\ Framed(i).packet = queue[i]
  BY Zenon DEF Frame
<1>4. t.st = "established" /\ t.key = key /\ t.nextSeq = Len(queue) /\ t.cached = cached
  BY Zenon DEF NewSession
<1>5. \A r \in cached : r.type = "response"
  BY Zenon DEF ResponseMsg
<1> HIDE DEF Framed, t
<1>6. /\ sess'[d][p] = t
      /\ \A c, q \in Device : c # d \/ q # p => sess'[c][q] = sess[c][q]
  BY ZenonT(40) DEF TypeOK, t
<1>7. /\ ~Pending(d, p)' /\ Established(d, p)' /\ QueuedFor(d, p)' = <<>>
      /\ \A c, q \in Device : c # d \/ q # p =>
           /\ Pending(c, q)' <=> Pending(c, q)
           /\ Established(c, q)' <=> Established(c, q)
           /\ sess'[c][q] = sess[c][q]
           /\ QueuedFor(c, q)' = QueuedFor(c, q)
  <2>1. "established" # "pending"
    OBVIOUS
  <2>2. ~Pending(d, p)' /\ Established(d, p)'
    BY Zenon, <1>4, <1>6, <2>1 DEF Pending, Established
  <2>3. QueuedFor(d, p)' = <<>>
    BY Zenon, <2>2 DEF QueuedFor
  <2>4. ASSUME NEW c \in Device, NEW q \in Device, c # d \/ q # p
        PROVE  /\ Pending(c, q)' <=> Pending(c, q)
               /\ Established(c, q)' <=> Established(c, q)
               /\ sess'[c][q] = sess[c][q]
               /\ QueuedFor(c, q)' = QueuedFor(c, q)
    <3>1. sess'[c][q] = sess[c][q]
      BY Zenon, <1>6, <2>4
    <3>2. (Pending(c, q)' <=> Pending(c, q)) /\ (Established(c, q)' <=> Established(c, q))
      BY Zenon, <3>1 DEF Pending, Established
    <3>3. QueuedFor(c, q)' = QueuedFor(c, q)
      <4>1. CASE Pending(c, q)
        <5>1. QueuedFor(c, q)' = sess'[c][q].queue /\ QueuedFor(c, q) = sess[c][q].queue
          BY Zenon, <3>2, <4>1 DEF QueuedFor
        <5> QED  BY SMTT(30), <3>1, <5>1
      <4>2. CASE ~Pending(c, q)
        BY Zenon, <3>2, <4>2 DEF QueuedFor
      <4> QED  BY Zenon, <4>1, <4>2
    <3> QED  BY Zenon, <3>1, <3>2, <3>3
  <2> QED  BY Zenon, <2>2, <2>3, <2>4
<1> HIDE DEF queue
<1>8. Drawn'
  <2>1. ASSUME NEW c \in Device, NEW q \in Device
        PROVE  /\ Pending(c, q)' => sess'[c][q].init.sid.n < fresh'
               /\ Established(c, q)' =>
                    /\ sess'[c][q].key.sid.n < fresh'
                    /\ sess'[c][q].key.eph < fresh'
                    /\ \A r \in sess'[c][q].cached : r.type = "response" /\ r.eph < fresh'
    BY <1>4, <1>5, <1>6, <1>7 DEF DrawnBefore
  <2>2. ASSUME NEW e \in net'
        PROVE  /\ e.body.type = "init" => e.body.sid.n < fresh'
               /\ e.body.type = "response" => e.body.eph < fresh'
    BY ZenonT(40), <1>2, <1>3, <1>5 DEF DrawnBefore
  <2>3. \A x \in sealed' : x.key.sid.n < fresh' /\ x.key.eph < fresh'
    BY <1>2, <1>3 DEF DrawnBefore
  <2> QED  BY ZenonT(40), <2>1, <2>2, <2>3 DEF Drawn, DrawnBefore
<1>9. Owned'
  <2>1. \A e \in net' : e.body.type = "init" => e.body.sid.by = e.body.src
    BY ZenonT(40), <1>2, <1>3, <1>5 DEF Owned
  <2>2. \A c, q \in Device :
          Pending(c, q)' => sess'[c][q].init.src = c /\ sess'[c][q].init.sid.by = c
    BY <1>7 DEF Owned
  <2> QED  BY Zenon, <2>1, <2>2 DEF Owned
<1>10. KeysApart'
  <2>1. ASSUME NEW c \in Device, NEW a \in Device, NEW b \in Device
        PROVE  /\ Pending(c, a)' /\ Pending(c, b)'
                  /\ sess'[c][a].init.sid = sess'[c][b].init.sid => a = b
               /\ Pending(c, a)' /\ Established(c, b)' => sess'[c][a].init.sid # sess'[c][b].key.sid
               /\ Established(c, a)' /\ Established(c, b)' /\ sess'[c][a].key = sess'[c][b].key
                    => a = b
    BY SMTT(30), <1>4, <1>6, <1>7 DEF KeysApart
  <2> QED  BY ZenonT(40), <2>1 DEF KeysApart
<1>11. CounterAhead'
  <2>1. ASSUME NEW x \in sealed, NEW q \in Device
        PROVE  /\ Established(x.src, q)' /\ sess'[x.src][q].key = x.key
                    => x.seq < sess'[x.src][q].nextSeq
               /\ Pending(x.src, q)' => x.key.sid # sess'[x.src][q].init.sid
    <3>1. x.src \in Device
      BY Zenon, FieldTypes
    <3> QED  BY <1>4, <1>6, <1>7, <3>1 DEF CounterAhead
  <2>2. ASSUME NEW i \in 1 .. Len(queue), NEW q \in Device
        PROVE  /\ Established(d, q)' /\ sess'[d][q].key = key => i - 1 < sess'[d][q].nextSeq
               /\ Pending(d, q)' => key.sid # sess'[d][q].init.sid
    <3>1. i - 1 < Len(queue)
      BY SMTT(30), <1>1
    <3> QED  BY <1>4, <1>6, <1>7, <3>1
  <2>3. ASSUME NEW x \in sealed', NEW q \in Device
        PROVE  /\ Established(x.src, q)' /\ sess'[x.src][q].key = x.key
                    => x.seq < sess'[x.src][q].nextSeq
               /\ Pending(x.src, q)' => x.key.sid # sess'[x.src][q].init.sid
    BY <1>2, <1>3, <2>1, <2>2
  <2> QED  BY Zenon, <2>3 DEF CounterAhead
<1>12. NonceUnique'
  <2>1. ASSUME NEW i \in 1 .. Len(queue), NEW j \in 1 .. Len(queue), i - 1 = j - 1
        PROVE  Framed(i) = Framed(j)
    BY SMTT(30), <1>1, <2>1
  <2> QED  BY <1>2, <1>3, <2>1 DEF NonceUnique
<1>13. OnePlace'
  <2>1. \A i \in 1 .. Len(queue) :
          /\ queue[i] < nextPacket
          /\ \A x \in sealed : x.packet # queue[i]
          /\ \A c, q \in Device : \A j \in DOMAIN QueuedFor(c, q) :
               queue[i] = QueuedFor(c, q)[j] => d = c /\ p = q /\ i = j
    BY <1>1 DEF OnePlace, queue
  <2>2. \A i, j \in 1 .. Len(queue) : queue[i] = queue[j] => i = j
    BY Zenon, <1>1, <2>1 DEF queue
  <2>3. /\ \A x \in sealed' : x.packet < nextPacket'
        /\ \A x, y \in sealed' : x.packet = y.packet => x = y
    BY <1>2, <1>3, <2>1, <2>2 DEF OnePlace
  <2>4. ASSUME NEW c \in Device, NEW q \in Device, NEW j \in DOMAIN QueuedFor(c, q)'
        PROVE  /\ c # d \/ q # p
               /\ j \in DOMAIN QueuedFor(c, q)
               /\ QueuedFor(c, q)'[j] = QueuedFor(c, q)[j]
    <3>1. DOMAIN <<>> = {}
      OBVIOUS
    <3> QED  BY Zenon, <1>7, <2>4, <3>1
  <2>5. ASSUME NEW c \in Device, NEW q \in Device, NEW j \in DOMAIN QueuedFor(c, q)'
        PROVE  /\ QueuedFor(c, q)'[j] < nextPacket'
               /\ \A x \in sealed' : x.packet # QueuedFor(c, q)'[j]
    BY SMTT(30), <1>2, <1>3, <2>1, <2>4 DEF OnePlace
  <2>6. ASSUME NEW a \in Device, NEW b \in Device, NEW k \in DOMAIN QueuedFor(a, b)',
               NEW c \in Device, NEW q \in Device, NEW j \in DOMAIN QueuedFor(c, q)',
               QueuedFor(a, b)'[k] = QueuedFor(c, q)'[j]
        PROVE  a = c /\ b = q /\ k = j
    BY <2>4, <2>6 DEF OnePlace
  <2> QED  BY <2>3, <2>5, <2>6 DEF OnePlace
<1>14. Authentic'
  BY ZenonT(40), <1>2, <1>3, <1>5 DEF Authentic
<1>15. Spent'
  <2>1. ASSUME NEW i \in 1 .. Len(queue)
        PROVE  injected[queue[i]] = 0
    <3>1. \A x \in sealed : x.packet # queue[i]
      BY <1>1 DEF OnePlace, queue
    <3>2. queue[i] \in Packet
      BY SMTT(30), <1>1
    <3> QED  BY Zenon, <3>1, <3>2 DEF Spent
  <2>2. ASSUME NEW x \in sealed, injected[x.packet] # 0
        PROVE  /\ Established(x.dst, x.src)' /\ sess'[x.dst][x.src].key = x.key
                    => ~CanAccept(sess'[x.dst][x.src].window, x.seq)
               /\ Pending(x.dst, x.src)' => sess'[x.dst][x.src].init.sid # x.key.sid
    <3>1. x.src \in Device /\ x.dst \in Device
      BY Zenon, FieldTypes
    <3> QED  BY <1>4, <1>6, <1>7, <2>2, <3>1 DEF Spent
  <2>3. \A k \in Packet : injected'[k] # 0 =>
          injected'[k] = 1 /\ \E x \in sealed' : x.packet = k
    BY Zenon, <1>2 DEF Spent
  <2> QED  BY <1>2, <1>3, <2>1, <2>2, <2>3 DEF Spent
<1> QED  BY Zenon, <1>8, <1>9, <1>10, <1>11, <1>12, <1>13, <1>14, <1>15

\* Answering an initiation: the key depends on a value just drawn.
LEMMA AcceptDelivery ==
  ASSUME DeliveryInv, NEW d \in Device, NEW e \in net, AcceptInit(d, e)
  PROVE  DeliveryInv'
<1> USE DEF DeliveryInv, NonceInv
<1> DEFINE m == e.body
           p == m.src
           key == [sid |-> m.sid, eph |-> fresh, psk |-> psk[d]]
           response == [type |-> "response", src |-> d, dst |-> p, sid |-> m.sid,
                        eph |-> fresh, issued |-> Wall(d)]
           frames == SealQueue(d, p, key, QueuedFor(d, p))
<1>1. TypeOK'
  BY Zenon, HandshakeType
<1>2. m \in InitMsg /\ p \in Device /\ m.sid \in Sid /\ m.sid.n \in Nat /\ m.type = "init"
  BY ArrivesType, Zenon DEF AcceptInit, InitMsg, Sid
<1>3. fresh' = fresh + 1 /\ fresh \in Nat /\ p # d
  BY ZenonT(40) DEF AcceptInit, TypeOK, Accepts, Hears, Owned
<1>4. key \in Key /\ {response} \in SUBSET ResponseMsg
  BY <1>2, Constants, SMTT(30) DEF TypeOK, Key, ResponseMsg, Wall
<1>5. key.sid = m.sid /\ key.eph = fresh /\ response.eph = fresh
  BY Zenon
<1>6. m.sid.by = p /\ m.sid.n < fresh
  BY Zenon, <1>2 DEF Owned, Drawn, DrawnBefore
<1>7. DrawnBefore(fresh')
  BY ZenonT(40), <1>3, DrawnLater
<1>8. key.sid.n < fresh' /\ key.eph < fresh' /\ response.eph < fresh'
  BY <1>2, <1>3, <1>5, <1>6
<1>9. frames \in Seq(DataMsg) /\ DOMAIN frames = 1 .. Len(frames)
  <2>1. QueuedFor(d, p) \in Seq(Packet)
    BY Zenon, <1>2, QueuedForType
  <2>2. frames \in Seq(DataMsg)
    BY Zenon, <1>2, <1>4, <2>1, SealQueueType
  <2> QED  BY <2>2
<1>10. ASSUME NEW f \in net'
       PROVE  f \in net \/ f.body \in {response} \/ \E i \in DOMAIN frames : f.body = frames[i]
  <2>1. net' = Remaining(e) \cup Post(d, p, <<response>> \o frames)
    BY Zenon DEF AcceptInit
  <2> DEFINE msgs == <<response>> \o frames
  <2>2. \A j \in DOMAIN msgs : msgs[j] = response \/ \E i \in DOMAIN frames : msgs[j] = frames[i]
    <3> HIDE DEF frames, response
    <3>1. DOMAIN msgs = 1 .. 1 + Len(frames) /\ Len(frames) \in Nat
      BY <1>9
    <3>2. \A j \in DOMAIN msgs : msgs[j] = IF j = 1 THEN response ELSE frames[j - 1]
      BY <1>9
    <3>3. \A j \in DOMAIN msgs : j # 1 => j - 1 \in DOMAIN frames
      BY <1>9, <3>1
    <3> HIDE DEF msgs
    <3> QED  BY Zenon, <3>2, <3>3
  <2>3. \A g \in Post(d, p, msgs) : \E j \in DOMAIN msgs : g.body = msgs[j]
    <3> HIDE DEF msgs
    <3> QED  BY SMTT(30), PostBodies
  <2> HIDE DEF msgs, frames, response
  <2> QED  BY Zenon, <2>1, <2>2, <2>3 DEF Remaining, msgs
<1>11. ASSUME NEW n \in Nat, n < fresh PROVE n # fresh
  BY <1>3, <1>11
<1>12. \A x \in sealed : x.key # key
  BY Zenon, <1>5, <1>11, FieldTypes DEF Drawn, DrawnBefore
<1>13. ASSUME NEW q \in Device, q # p
       PROVE  /\ Established(d, q) => sess[d][q].key # key
              /\ Pending(d, q) => sess[d][q].init.sid # key.sid
  <2>1. Established(d, q) => sess[d][q].key.eph # fresh
    BY Zenon, <1>11, FieldTypes DEF Drawn, DrawnBefore
  <2>2. Pending(d, q) => sess[d][q].init.sid.by = d
    BY Zenon DEF Owned
  <2> QED  BY Zenon, <1>3, <1>5, <1>6, <2>1, <2>2
<1>14. /\ sess' = [sess EXCEPT ![d][p] = NewSession(key, QueuedFor(d, p), {response})]
       /\ sealed' = sealed \cup {frames[i] : i \in DOMAIN frames}
       /\ UNCHANGED <<dir, nextPacket, injected>>
  BY Zenon DEF AcceptInit
<1>15. \A r \in {response} : r.eph < fresh'
  BY Zenon, <1>8
<1>16. Installs(d, p, key, {response})
  <2> HIDE DEF key, response
  <2> QED  BY <1>7, <1>8, <1>10, <1>12, <1>13, <1>14, <1>15, Zenon DEF Installs
<1> HIDE DEF key, response, p
<1> QED  BY Zenon, <1>1, <1>2, <1>4, <1>16, InstallDelivery

\* Completing a handshake: the key depends on the id of a pending session.
LEMMA CompleteDelivery ==
  ASSUME DeliveryInv, NEW d \in Device, NEW e \in net, CompleteHandshake(d, e)
  PROVE  DeliveryInv'
<1> USE DEF DeliveryInv, NonceInv
<1> DEFINE m == e.body
           p == m.src
           key == [sid |-> m.sid, eph |-> m.eph, psk |-> psk[d]]
           frames == SealQueue(d, p, key, QueuedFor(d, p))
<1>1. TypeOK'
  BY Zenon, HandshakeType
<1>2. m \in ResponseMsg /\ p \in Device /\ m.sid \in Sid /\ m.type = "response"
  BY ArrivesType, Zenon DEF CompleteHandshake, ResponseMsg
<1>3. Pending(d, p) /\ m.sid = sess[d][p].init.sid /\ fresh' = fresh
  BY Zenon DEF CompleteHandshake, Completes
<1>4. key \in Key /\ {} \in SUBSET ResponseMsg
  BY Zenon, <1>2 DEF TypeOK, Key, ResponseMsg
<1>5. key.sid = m.sid /\ key.eph = m.eph
  BY Zenon
<1>6. DrawnBefore(fresh') /\ key.sid.n < fresh' /\ key.eph < fresh'
  BY Zenon, <1>2, <1>3, <1>5 DEF Drawn, DrawnBefore
<1>7. ASSUME NEW f \in net'
      PROVE  f \in net \/ f.body \in {} \/ \E i \in DOMAIN frames : f.body = frames[i]
  <2>1. net' = Remaining(e) \cup Post(d, p, frames)
    BY Zenon DEF CompleteHandshake
  <2>2. \A g \in Post(d, p, frames) : \E i \in DOMAIN frames : g.body = frames[i]
    <3> HIDE DEF frames
    <3> QED  BY SMTT(30), PostBodies
  <2> QED  BY Zenon, <2>1, <2>2 DEF Remaining
<1>8. \A x \in sealed : x.src = d => x.key # key
  BY <1>2, <1>3, <1>5, ZenonT(40) DEF CounterAhead
<1>9. \A x \in sealed : x.dst = d /\ x.src = p /\ injected[x.packet] # 0 => x.key # key
  <2> SUFFICES ASSUME NEW x \in sealed, x.dst = d, x.src = p, injected[x.packet] # 0
               PROVE  x.key # key
    BY Zenon
  <2>1. sess[d][p].init.sid # x.key.sid
    BY Zenon, <1>3 DEF Spent
  <2> QED  BY Zenon, <1>3, <1>5, <2>1
<1>10. \A q \in Device : q # p =>
         /\ Established(d, q) => sess[d][q].key # key
         /\ Pending(d, q) => sess[d][q].init.sid # key.sid
  BY Zenon, <1>2, <1>3, <1>5 DEF KeysApart
<1>11. /\ sess' = [sess EXCEPT ![d][p] = NewSession(key, QueuedFor(d, p), {})]
       /\ sealed' = sealed \cup {frames[i] : i \in DOMAIN frames}
       /\ UNCHANGED <<dir, nextPacket, injected>>
  BY Zenon DEF CompleteHandshake
<1>12. \A r \in {} : r.eph < fresh'
  BY Zenon
<1>13. Installs(d, p, key, {})
  <2> HIDE DEF key
  <2> QED  BY Zenon, <1>6, <1>7, <1>8, <1>9, <1>10, <1>11, <1>12 DEF Installs
<1> HIDE DEF key, p
<1> QED  BY Zenon, <1>1, <1>2, <1>4, <1>13, InstallDelivery

\* Opening a frame: from then on the window refuses it.
LEMMA OpenDelivery ==
  ASSUME DeliveryInv, NEW d \in Device, NEW e \in net, NEW active, OpenData(d, e, active)
  PROVE  DeliveryInv'
<1> USE DEF DeliveryInv, NonceInv
<1> DEFINE m == e.body
           p == m.src
           s == sess[d][p]
           t == [s EXCEPT !.window = Mark(@, m.seq)]
<1>1. TypeOK'
  BY Zenon, OpenDataType
<1>2. m \in DataMsg /\ m.type = "data" /\ m.dst = d /\ p \in Device
  BY Zenon, ArrivesType DEF OpenData, Arrives
<1>3. m \in sealed /\ m.seq \in Nat /\ m.packet \in Packet
  BY Zenon, <1>2, FieldTypes DEF Authentic
<1>4. Established(d, p) /\ s.key = m.key /\ CanAccept(s.window, m.seq)
  BY Zenon DEF OpenData, Opens
<1>5. s \in EstablishedSession /\ s.window \in Window
  BY Zenon, <1>2, <1>4, FieldTypes
<1>6. /\ t.st = "established" /\ t.key = s.key /\ t.cached = s.cached /\ t.nextSeq = s.nextSeq
      /\ t.window = Mark(s.window, m.seq)
  BY Zenon, <1>5 DEF EstablishedSession
<1>7. sess' = [sess EXCEPT ![d][p] = t]
  BY Zenon, <1>2 DEF OpenData, TypeOK
<1>8. UNCHANGED <<dir, fresh, nextPacket, sealed>> /\ net' \subseteq net
  BY Zenon DEF OpenData, Remaining
<1> HIDE DEF t
<1>9. /\ sess'[d][p] = t
      /\ \A c, q \in Device : c # d \/ q # p => sess'[c][q] = sess[c][q]
  BY <1>2, <1>7, Zenon DEF TypeOK
<1>10. ASSUME NEW c \in Device, NEW q \in Device
       PROVE  /\ Pending(c, q)' => Pending(c, q) /\ sess'[c][q] = sess[c][q]
              /\ Established(c, q)' =>
                   /\ Established(c, q)
                   /\ sess'[c][q].key = sess[c][q].key
                   /\ sess'[c][q].cached = sess[c][q].cached
                   /\ sess'[c][q].nextSeq = sess[c][q].nextSeq
              /\ QueuedFor(c, q)' = QueuedFor(c, q)
  <2>1. CASE c = d /\ q = p
    BY Zenon, <1>4, <1>6, <1>9, <2>1 DEF Pending, Established, QueuedFor
  <2>2. CASE c # d \/ q # p
    BY Zenon, <1>9, <2>2 DEF Pending, Established, QueuedFor
  <2> QED  BY Zenon, <2>1, <2>2
<1>11. Drawn'
  <2>1. DrawnBefore(fresh) /\ fresh' = fresh
    BY <1>8, Zenon DEF Drawn
  <2> HIDE DEF DeliveryInv, NonceInv
  <2>2. ASSUME NEW c \in Device, NEW q \in Device
        PROVE  /\ Pending(c, q)' => sess'[c][q].init.sid.n < fresh
               /\ Established(c, q)' =>
                    /\ sess'[c][q].key.sid.n < fresh
                    /\ sess'[c][q].key.eph < fresh
                    /\ \A r \in sess'[c][q].cached : r.type = "response" /\ r.eph < fresh
    <3>1. /\ Pending(c, q) => sess[c][q].init.sid.n < fresh
          /\ Established(c, q) =>
               /\ sess[c][q].key.sid.n < fresh
               /\ sess[c][q].key.eph < fresh
               /\ \A r \in sess[c][q].cached : r.type = "response" /\ r.eph < fresh
      BY <2>1, Zenon DEF DrawnBefore
    <3> QED  BY Zenon, <1>10, <3>1
  <2>3. \A f \in net' : /\ f.body.type = "init" => f.body.sid.n < fresh
                        /\ f.body.type = "response" => f.body.eph < fresh
    BY Zenon, <1>8, <2>1 DEF DrawnBefore
  <2>4. \A x \in sealed' : x.key.sid.n < fresh /\ x.key.eph < fresh
    BY Zenon, <1>8, <2>1 DEF DrawnBefore
  <2> QED  BY Zenon, <2>1, <2>2, <2>3, <2>4 DEF Drawn, DrawnBefore
<1>12. Owned' /\ KeysApart'
  <2>1. Owned /\ KeysApart
    BY ZenonT(40)
  <2> HIDE DEF DeliveryInv, NonceInv
  <2>2. Owned'
    BY <1>8, <1>10, <2>1 DEF Owned
  <2>3. ASSUME NEW c \in Device, NEW q \in Device, NEW r \in Device
        PROVE  /\ Pending(c, q)' /\ Pending(c, r)' /\ sess'[c][q].init.sid = sess'[c][r].init.sid
                    => q = r
               /\ Pending(c, q)' /\ Established(c, r)' => sess'[c][q].init.sid # sess'[c][r].key.sid
               /\ Established(c, q)' /\ Established(c, r)' /\ sess'[c][q].key = sess'[c][r].key
                    => q = r
    <3>1. /\ Pending(c, q) /\ Pending(c, r) /\ sess[c][q].init.sid = sess[c][r].init.sid
               => q = r
          /\ Pending(c, q) /\ Established(c, r) => sess[c][q].init.sid # sess[c][r].key.sid
          /\ Established(c, q) /\ Established(c, r) /\ sess[c][q].key = sess[c][r].key => q = r
      BY Zenon, <2>1 DEF KeysApart
    <3> QED  BY Zenon, <1>10, <3>1
  <2> QED  BY Zenon, <2>2, <2>3 DEF KeysApart
<1>13. CounterAhead' /\ NonceUnique'
  <2>1. CounterAhead /\ NonceUnique /\ \A x \in sealed : x.src \in Device
    BY FieldTypes, Zenon
  <2> HIDE DEF DeliveryInv, NonceInv
  <2>2. ASSUME NEW x \in sealed, NEW q \in Device
        PROVE  /\ Established(x.src, q)' /\ sess'[x.src][q].key = x.key
                    => x.seq < sess'[x.src][q].nextSeq
               /\ Pending(x.src, q)' => x.key.sid # sess'[x.src][q].init.sid
    <3>1. /\ x.src \in Device
          /\ Established(x.src, q) /\ sess[x.src][q].key = x.key
               => x.seq < sess[x.src][q].nextSeq
          /\ Pending(x.src, q) => x.key.sid # sess[x.src][q].init.sid
      BY Zenon, <2>1 DEF CounterAhead
    <3> QED  BY Zenon, <1>10, <3>1
  <2>3. CounterAhead'
    BY Zenon, <1>8, <2>2 DEF CounterAhead
  <2> QED  BY Zenon, <1>8, <2>1, <2>3 DEF NonceUnique
<1>14. OnePlace'
  BY Zenon, <1>8, <1>10, KeptOnePlace DEF QueuesKept
<1>15. Authentic'
  BY Zenon, <1>8 DEF Authentic
<1>16. injected[m.packet] = 0
  BY Zenon, <1>2, <1>3, <1>4 DEF Spent
<1>17. \/ injected' = injected
       \/ injected' = [injected EXCEPT ![m.packet] = 1]
  <2>1. injected' = injected \/ injected' = [injected EXCEPT ![m.packet] = @ + 1]
    BY ZenonT(40) DEF OpenData
  <2> HIDE DEF DeliveryInv, NonceInv, m
  <2> QED  BY <1>16, <2>1
<1>18. /\ \A k \in Packet : injected'[k] # 0 => injected'[k] = 1 /\ \E x \in sealed' : x.packet = k
       /\ \A x \in sealed : injected'[x.packet] # 0 => injected[x.packet] # 0 \/ x = m
  <2>1. \A k \in Packet : injected'[k] = injected[k] \/ (k = m.packet /\ injected'[k] = 1)
    BY <1>3, <1>17, Zenon DEF TypeOK
  <2>2. \A x \in sealed : x.packet \in Packet /\ (x.packet = m.packet => x = m)
    BY Zenon, <1>3, FieldTypes DEF OnePlace
  <2> QED  BY <1>3, <1>8, <2>1, <2>2 DEF Spent
<1>19. Spent'
  <2>1. ~CanAccept(Mark(s.window, m.seq), m.seq)
    BY <1>3, <1>4, <1>5, MarkedIsRefused, Zenon
  <2>2. ASSUME NEW x \in sealed, injected'[x.packet] # 0
        PROVE  /\ Established(x.dst, x.src)' /\ sess'[x.dst][x.src].key = x.key
                    => ~CanAccept(sess'[x.dst][x.src].window, x.seq)
               /\ Pending(x.dst, x.src)' => sess'[x.dst][x.src].init.sid # x.key.sid
    <3>1. x.src \in Device /\ x.dst \in Device /\ x.seq \in Nat
      BY Zenon, FieldTypes
    <3>2. CASE x = m
      <4>1. ~Pending(d, p)' /\ sess'[d][p].window = Mark(s.window, m.seq)
        BY Zenon, <1>6, <1>9 DEF Pending
      <4> QED  BY Zenon, <1>2, <2>1, <3>2, <4>1
    <3>3. CASE injected[x.packet] # 0 /\ (x.dst # d \/ x.src # p)
      <4>1. /\ Established(x.dst, x.src) /\ sess[x.dst][x.src].key = x.key
                 => ~CanAccept(sess[x.dst][x.src].window, x.seq)
            /\ Pending(x.dst, x.src) => sess[x.dst][x.src].init.sid # x.key.sid
        BY <3>3, Zenon DEF Spent
      <4>2. sess'[x.dst][x.src] = sess[x.dst][x.src]
        BY <1>9, <3>1, <3>3, Zenon
      <4> QED  BY <4>1, <4>2, Zenon DEF Pending, Established
    <3>4. CASE injected[x.packet] # 0 /\ x.dst = d /\ x.src = p
      <4>1. s.key = x.key => ~CanAccept(s.window, x.seq)
        BY Zenon, <1>4, <3>4 DEF Spent
      <4>2. s.key = x.key => ~CanAccept(Mark(s.window, m.seq), x.seq)
        BY Zenon, <1>3, <1>4, <1>5, <3>1, <4>1, RefusedStaysRefused
      <4>3. ~Pending(d, p)' /\ sess'[d][p].window = Mark(s.window, m.seq) /\ sess'[d][p].key = s.key
        BY Zenon, <1>6, <1>9 DEF Pending
      <4> QED  BY Zenon, <3>4, <4>2, <4>3
    <3> QED  BY Zenon, <1>18, <2>2, <3>2, <3>3, <3>4
  <2> QED  BY Zenon, <1>8, <1>18, <2>2 DEF Spent
<1> QED  BY Zenon, <1>1, <1>11, <1>12, <1>13, <1>14, <1>15, <1>19

\* Every step preserves the invariant.
LEMMA NextDelivery == DeliveryInv /\ [Next]_vars => DeliveryInv'
<1> SUFFICES ASSUME DeliveryInv, [Next]_vars PROVE DeliveryInv'
  BY Zenon
<1>1. TypeOK'
  BY Zenon, NextTypeOK DEF DeliveryInv, NonceInv
<1>2. ASSUME Quiet, QueuesKept PROVE DeliveryInv'
  BY Zenon, <1>1, <1>2, QuietDelivery, KeptOnePlace DEF DeliveryInv
<1>3. ASSUME NEW d \in Device, Outbound(d) PROVE DeliveryInv'
  BY Zenon, <1>3, QueueDelivery, SealDelivery, StartDelivery DEF Outbound
<1>4. ASSUME NEW d \in Device, Inbound(d) PROVE DeliveryInv'
  <2>1. PICK e \in net :
          \/ AcceptInit(d, e) \/ ResendResponse(d, e) \/ DropInit(d, e)
          \/ CompleteHandshake(d, e) \/ DropResponse(d, e)
          \/ \E active \in BOOLEAN : OpenData(d, e, active)
          \/ DropData(d, e)
    BY Zenon, <1>4 DEF Inbound
  <2>2. CASE ResendResponse(d, e) \/ DropInit(d, e) \/ DropResponse(d, e) \/ DropData(d, e)
    <3>1. Quiet /\ QueuesKept
      BY Zenon, <2>2, InertQuiet
    <3> QED  BY Zenon, <1>2, <3>1
  <2> QED  BY Zenon, <2>1, <2>2, AcceptDelivery, CompleteDelivery, OpenDelivery
<1>5. ASSUME NEW d \in Device, Tick(d) \/ RebuildWorker(d) PROVE DeliveryInv'
  BY Zenon, <1>2, <1>5, WorkerQuiet
<1>6. ASSUME NEW d \in Device, Learn(d) PROVE DeliveryInv'
  BY Zenon, <1>2, <1>6, InertQuiet DEF Learn
<1>7. ASSUME NEW d \in Device, Authorization(d) PROVE DeliveryInv'
  BY Zenon, <1>2, <1>7, InertQuiet DEF Authorization
<1>8. CASE (\E e \in net : LoseDatagram(e)) \/ PassTime \/ UNCHANGED vars
  <2>1. UNCHANGED <<sess, dir, fresh, nextPacket, sealed, injected>> /\ net' \subseteq net
    BY Zenon, <1>8 DEF LoseDatagram, PassTime, vars
  <2>2. \A d \in Device : d \notin dir[d]
    BY Zenon DEF DeliveryInv, NonceInv, Owned
  <2>3. Quiet /\ QueuesKept
    BY Zenon, <2>1, <2>2 DEF Quiet, QueuesKept, QueuedFor, Pending
  <2> QED  BY Zenon, <1>2, <2>3
<1> QED  BY Zenon, <1>3, <1>4, <1>5, <1>6, <1>7, <1>8 DEF Next

\* The inductive invariant behind NoNonceReuse and DeliveredAtMostOnce holds
\* in every reachable state.
LEMMA DeliveryInvariant == Spec => []DeliveryInv
<1> QED  BY InitDelivery, NextDelivery, PTL DEF Spec

-------------------------------------------------------------------------------
(* The safety properties *)

\* `seal_queued_packets` and `prepare_outbound_peer_packet` never use a sequence
\* number twice under one key.
THEOREM NoNonceReuse == Spec => []NonceUnique
<1>1. DeliveryInv => NonceUnique
  BY Zenon DEF DeliveryInv, NonceInv
<1> QED  BY <1>1, DeliveryInvariant, PTL

\* No packet read from an adapter is written to the peer's adapter twice.
THEOREM DeliveredAtMostOnce == Spec => []AtMostOnce
<1>1. DeliveryInv => AtMostOnce
  <2> SUFFICES ASSUME DeliveryInv, NEW k \in Packet PROVE injected[k] <= 1
    BY Zenon DEF AtMostOnce
  <2>1. injected[k] = 0 \/ injected[k] = 1
    BY Zenon DEF DeliveryInv, Spent
  <2> QED  BY <2>1
<1> QED  BY <1>1, DeliveryInvariant, PTL

-------------------------------------------------------------------------------
(* One answer to a handshake *)

\* An initiation that may arrive, now or when it is sent again.
Initiated(i) ==
  \/ \E e \in net : e.body = i
  \/ \E d, p \in Device : Pending(d, p) /\ sess[d][p].init = i

\* A response that may arrive, now or when it is repeated.
Answered(x) ==
  \/ \E e \in net : e.body = x
  \/ \E d, p \in Device : Established(d, p) /\ x \in sess[d][p].cached

\* The initiation i that x answers is too old for the device that sent x, or on
\* record there for as long as it is not.
Settled(x, i) ==
  \/ Wall(x.src) - i.issued > Skew
  \/ \E r \in seen[x.src] : /\ r.from = i.src /\ r.sid = i.sid
                            /\ i.issued - (r.at + Offset[x.src]) <= Skew

InitsApart ==
  \A i, j \in InitMsg : Initiated(i) /\ Initiated(j) /\ i.sid = j.sid => i = j

AnswersApart ==
  \A x, y \in ResponseMsg :
    Answered(x) /\ Answered(y) /\ x.src = y.src /\ x.sid = y.sid => x = y

AnswersDrawn == \A x \in ResponseMsg : Answered(x) => x.sid.n < fresh

AnswersSettled ==
  \A x \in ResponseMsg, i \in InitMsg :
    Answered(x) /\ Initiated(i) /\ i.sid = x.sid /\ i.dst = x.src => Settled(x, i)

AnswerInv == InitsApart /\ AnswersApart /\ AnswersDrawn /\ AnswersSettled

\* No worker is about to be rebuilt, and no cache of answered handshakes is full.
WorkersLast == \A d \in Device : ~reload[d] /\ ~(Cardinality(Retained(d)) >= SeenCap)

\* A step that starts and answers no handshake: every initiation and every
\* response after it was there before.
Repeats ==
  /\ seen' = seen /\ clock' \in {clock, clock + 1} /\ fresh' = fresh
  /\ \A i \in InitMsg : Initiated(i)' => Initiated(i)
  /\ \A x \in ResponseMsg : Answered(x)' => Answered(x)

\* Nothing is in flight initially.
LEMMA InitAnswer == Init => AnswerInv
<1> SUFFICES ASSUME Init PROVE AnswerInv
  BY Zenon
<1>1. \A d, p \in Device : ~Pending(d, p) /\ ~Established(d, p)
  BY DEF Init, Pending, Established, NoSession
<1>2. net = {}
  BY Zenon DEF Init
<1>3. \A i : ~Initiated(i) /\ ~Answered(i)
  BY Zenon, <1>1, <1>2 DEF Initiated, Answered
<1> QED  BY Zenon, <1>3 DEF AnswerInv, InitsApart, AnswersApart, AnswersDrawn, AnswersSettled

\* What is settled stays settled while time passes.
LEMMA RepeatsAnswer ==
  ASSUME TypeOK, AnswerInv, Repeats
  PROVE  AnswerInv'
<1>1. InitsApart' /\ AnswersApart' /\ AnswersDrawn'
  BY Zenon DEF AnswerInv, InitsApart, AnswersApart, AnswersDrawn, Repeats
<1>2. ASSUME NEW x \in ResponseMsg, NEW i \in InitMsg, Settled(x, i)
      PROVE  Settled(x, i)'
  <2>1. x.src \in Device /\ i.issued \in Nat /\ clock \in Nat
    BY Zenon DEF ResponseMsg, InitMsg, TypeOK
  <2>2. Offset[x.src] \in Nat /\ Skew \in Nat
    BY <2>1, SessionAssumption, Zenon
  <2>3. CASE Wall(x.src) - i.issued > Skew
    <3>1. clock' = clock \/ clock' = clock + 1
      BY Zenon DEF Repeats
    <3>2. Wall(x.src)' - i.issued > Skew
      BY <2>1, <2>2, <2>3, <3>1 DEF Wall
    <3> QED  BY Zenon, <3>2 DEF Settled
  <2>4. CASE ~(Wall(x.src) - i.issued > Skew)
    BY Zenon, <1>2, <2>4 DEF Settled, Repeats
  <2> QED  BY Zenon, <2>3, <2>4
<1>3. AnswersSettled'
  BY Zenon, <1>2 DEF AnswerInv, AnswersSettled, Repeats
<1> QED  BY Zenon, <1>1, <1>3 DEF AnswerInv

\* Where sessions stay, go, or keep their initiation and their response, and what
\* is sent has been sent before, no handshake starts and none is answered.
LEMMA RepeatsWhen ==
  ASSUME TypeOK, seen' = seen, clock' \in {clock, clock + 1}, fresh' = fresh,
         \A d, p \in Device :
           /\ Pending(d, p)' => Pending(d, p) /\ sess'[d][p].init = sess[d][p].init
           /\ Established(d, p)' =>
                \A r \in sess'[d][p].cached : Established(d, p) /\ r \in sess[d][p].cached,
         \A e \in net' : \/ e.body.type = "data"
                         \/ Initiated(e.body) /\ e.body.type = "init"
                         \/ Answered(e.body) /\ e.body.type = "response"
  PROVE  Repeats
<1>1. ASSUME NEW i \in InitMsg, Initiated(i)' PROVE Initiated(i)
  <2>1. i.type = "init"
    BY ZenonT(40) DEF InitMsg
  <2>2. CASE \E e \in net' : e.body = i
    BY <2>1, <2>2
  <2>3. CASE \E d, p \in Device : Pending(d, p)' /\ sess'[d][p].init = i
    BY ZenonT(40), <2>3 DEF Initiated
  <2> QED  BY Zenon, <1>1, <2>2, <2>3 DEF Initiated
<1>2. ASSUME NEW x \in ResponseMsg, Answered(x)' PROVE Answered(x)
  <2>1. x.type = "response"
    BY Zenon DEF ResponseMsg
  <2>2. CASE \E e \in net' : e.body = x
    BY <2>1, <2>2
  <2>3. CASE \E d, p \in Device : Established(d, p)' /\ x \in sess'[d][p].cached
    BY Zenon, <2>3 DEF Answered
  <2> QED  BY Zenon, <1>2, <2>2, <2>3 DEF Answered
<1> QED  BY Zenon, <1>1, <1>2 DEF Repeats

\* Every message is an initiation, a response or a frame.
LEMMA BodyKinds ==
  ASSUME TypeOK
  PROVE  /\ \A e \in net : e.body.type \in {"init", "response", "data"}
         /\ \A d, p \in Device : Pending(d, p) => sess[d][p].init \in InitMsg
         /\ \A d, p \in Device : Established(d, p) => sess[d][p].cached \subseteq ResponseMsg
         /\ \A m \in InitMsg : m.type = "init"
         /\ \A m \in ResponseMsg : m.type = "response"
<1>1. \A m \in Msg : m.type \in {"init", "response", "data"}
  BY Zenon DEF Msg, InitMsg, ResponseMsg, DataMsg
<1>2. /\ \A s \in PendingSession : s.init \in InitMsg
      /\ \A s \in EstablishedSession : s.cached \subseteq ResponseMsg
  BY Zenon DEF PendingSession, EstablishedSession
<1>3. /\ \A m \in InitMsg : m.type = "init"
      /\ \A m \in ResponseMsg : m.type = "response"
  BY Zenon DEF InitMsg, ResponseMsg
<1> QED  BY Zenon, <1>1, <1>2, <1>3, FieldTypes DEF TypeOK

\* What was in flight is an initiation, a response or a frame.
LEMMA InFlight ==
  ASSUME TypeOK, NEW e, \E f \in net : f.body = e.body
  PROVE  \/ e.body.type = "data"
         \/ Initiated(e.body) /\ e.body.type = "init"
         \/ Answered(e.body) /\ e.body.type = "response"
<1>1. e.body.type \in {"init", "response", "data"}
  BY Zenon, BodyKinds
<1> QED  BY Zenon, <1>1 DEF Initiated, Answered

\* A quiet step that forgets no handshake repeats.
LEMMA QuietRepeats ==
  ASSUME TypeOK, Quiet, seen' = seen, clock' \in {clock, clock + 1}
  PROVE  Repeats
<1>1. fresh' = fresh
  BY Zenon DEF Quiet
<1>2. ASSUME NEW d \in Device, NEW p \in Device
      PROVE  /\ Pending(d, p)' => Pending(d, p) /\ sess'[d][p].init = sess[d][p].init
             /\ Established(d, p)' =>
                  \A r \in sess'[d][p].cached : Established(d, p) /\ r \in sess[d][p].cached
  BY Zenon DEF Quiet, Pending, Established
<1>3. ASSUME NEW e \in net'
      PROVE  \/ e.body.type = "data"
             \/ Initiated(e.body) /\ e.body.type = "init"
             \/ Answered(e.body) /\ e.body.type = "response"
  <2>1. CASE \E f \in net : f.body = e.body
    BY Zenon, <2>1, InFlight
  <2>2. CASE \E d, p \in Device : Pending(d, p) /\ e.body = sess[d][p].init
    BY Zenon, <2>2, BodyKinds DEF Initiated
  <2>3. CASE \E d, p \in Device : Established(d, p) /\ e.body \in sess[d][p].cached
    BY Zenon, <2>3, BodyKinds DEF Answered
  <2> QED  BY Zenon, <2>1, <2>2, <2>3 DEF Quiet
<1> QED  BY Zenon, <1>1, <1>2, <1>3, RepeatsWhen

\* Queueing a packet repeats at most its initiation; sealing one, opening a frame
\* and completing a handshake send frames only, and leave no response to repeat
\* that was not there.
LEMMA TrafficRepeats ==
  ASSUME TypeOK, NEW d \in Device, NEW p \in Device, NEW e, NEW active,
         \/ QueueOutbound(d, p) \/ SealOutbound(d, p)
         \/ e \in net /\ (CompleteHandshake(d, e) \/ OpenData(d, e, active))
  PROVE  Repeats
<1>1. CASE QueueOutbound(d, p)
  <2> DEFINE s == sess[d][p]
             t == [s EXCEPT !.queue = Enqueue(@, nextPacket),
                            !.lastSent = IF Retransmits(s) THEN clock ELSE @]
  <2>1. Usable(d, p) = s /\ s.st = "pending"
    <3>1. Usable(d, p).st = "pending"
      BY Zenon, <1>1 DEF QueueOutbound
    <3> QED  BY Zenon, <3>1, UsableIsCurrent
  <2>2. s \in PendingSession
    BY <2>1, SessionKinds DEF TypeOK
  <2>3. t.st = "pending" /\ t.init = s.init
    BY Zenon, <2>2 DEF PendingSession
  <2>4. sess' = [sess EXCEPT ![d][p] = t]
    BY Zenon, <1>1, <2>1 DEF QueueOutbound
  <2>5. /\ sess'[d][p] = t
        /\ \A c, q \in Device : c # d \/ q # p => sess'[c][q] = sess[c][q]
    <3> HIDE DEF t
    <3> QED  BY Zenon, <2>4 DEF TypeOK
  <2>6. ASSUME NEW c \in Device, NEW q \in Device
        PROVE  /\ Pending(c, q)' => Pending(c, q) /\ sess'[c][q].init = sess[c][q].init
               /\ Established(c, q)' =>
                    \A r \in sess'[c][q].cached : Established(c, q) /\ r \in sess[c][q].cached
    <3> HIDE DEF t
    <3> QED  BY Zenon, <2>1, <2>3, <2>5 DEF Pending, Established
  <2>7. \A f \in Post(d, p, <<s.init>>) : f.body = s.init
    BY Zenon, PostOne
  <2>8. net' = net \/ net' = net \cup Post(d, p, <<s.init>>)
    BY Zenon, <1>1, <2>1 DEF QueueOutbound
  <2>9. Initiated(s.init) /\ s.init.type = "init"
    BY Zenon, <2>1, BodyKinds DEF Initiated, Pending
  <2>10. ASSUME NEW f \in net'
         PROVE  \/ f.body.type = "data"
                \/ Initiated(f.body) /\ f.body.type = "init"
                \/ Answered(f.body) /\ f.body.type = "response"
    <3>1. (\E g \in net : g.body = f.body) \/ f.body = s.init
      BY Zenon, <2>7, <2>8
    <3> QED  BY Zenon, <2>9, <3>1, InFlight
  <2>11. seen' = seen /\ clock' = clock /\ fresh' = fresh
    BY Zenon, <1>1 DEF QueueOutbound
  <2> QED  BY Zenon, <2>6, <2>10, <2>11, RepeatsWhen
<1>2. CASE SealOutbound(d, p)
  <2> DEFINE s == sess[d][p]
             t == [s EXCEPT !.nextSeq = SaturatingNext(@)]
             frame == Frame(d, p, s.key, s.nextSeq, nextPacket)
  <2>1. Usable(d, p) = s /\ s.st = "established"
    <3>1. Usable(d, p).st = "established"
      BY Zenon, <1>2 DEF SealOutbound
    <3> QED  BY Zenon, <3>1, UsableIsCurrent
  <2>2. s \in EstablishedSession
    BY <2>1, SessionKinds DEF TypeOK
  <2>3. t.st = "established" /\ t.cached = s.cached
    BY Zenon, <2>2 DEF EstablishedSession
  <2>4. sess' = [sess EXCEPT ![d][p] = t] /\ net' = net \cup Post(d, p, <<frame>>)
    BY Zenon, <1>2, <2>1 DEF SealOutbound
  <2>5. /\ sess'[d][p] = t
        /\ \A c, q \in Device : c # d \/ q # p => sess'[c][q] = sess[c][q]
    <3> HIDE DEF t
    <3> QED  BY Zenon, <2>4 DEF TypeOK
  <2>6. ASSUME NEW c \in Device, NEW q \in Device
        PROVE  /\ Pending(c, q)' => Pending(c, q) /\ sess'[c][q].init = sess[c][q].init
               /\ Established(c, q)' =>
                    \A r \in sess'[c][q].cached : Established(c, q) /\ r \in sess[c][q].cached
    <3> HIDE DEF t
    <3> QED  BY ZenonT(40), <2>1, <2>3, <2>5 DEF Pending, Established
  <2>7. \A f \in Post(d, p, <<frame>>) : f.body = frame
    BY Zenon, PostOne
  <2>8. frame.type = "data"
    BY Zenon DEF Frame
  <2>9. ASSUME NEW f \in net'
        PROVE  \/ f.body.type = "data"
               \/ Initiated(f.body) /\ f.body.type = "init"
               \/ Answered(f.body) /\ f.body.type = "response"
    <3>1. f \in net \/ f.body = frame
      BY Zenon, <2>4, <2>7
    <3> QED  BY Zenon, <2>8, <3>1, InFlight
  <2>10. seen' = seen /\ clock' = clock /\ fresh' = fresh
    BY Zenon, <1>2 DEF SealOutbound
  <2> QED  BY Zenon, <2>6, <2>9, <2>10, RepeatsWhen
<1>3. CASE e \in net /\ CompleteHandshake(d, e)
  <2> DEFINE m == e.body
             q == m.src
             key == [sid |-> m.sid, eph |-> m.eph, psk |-> psk[d]]
             frames == SealQueue(d, q, key, QueuedFor(d, q))
             t == NewSession(key, QueuedFor(d, q), {})
  <2>1. q \in Device
    BY Zenon, <1>3, ArrivesType DEF CompleteHandshake
  <2>2. t.st = "established" /\ t.cached = {}
    BY Zenon DEF NewSession
  <2>3. sess' = [sess EXCEPT ![d][q] = t] /\ net' = Remaining(e) \cup Post(d, q, frames)
    BY Zenon, <1>3 DEF CompleteHandshake
  <2>4. \A f \in Post(d, q, frames) : f.body.type = "data"
    <3>1. \A i \in DOMAIN frames : frames[i].type = "data"
      BY Zenon DEF SealQueue, Frame
    <3>2. \A f \in Post(d, q, frames) : \E i \in DOMAIN frames : f.body = frames[i]
      <4> HIDE DEF frames
      <4> QED  BY SMTT(30), PostBodies
    <3> HIDE DEF frames
    <3> QED  BY Zenon, <3>1, <3>2
  <2>5. seen' = seen /\ clock' = clock /\ fresh' = fresh
    BY Zenon, <1>3 DEF CompleteHandshake
  <2> HIDE DEF t, frames, q
  <2>6. /\ sess'[d][q] = t
        /\ \A c, b \in Device : c # d \/ b # q => sess'[c][b] = sess[c][b]
    BY Zenon, <2>1, <2>3 DEF TypeOK
  <2>7. ASSUME NEW c \in Device, NEW b \in Device
        PROVE  /\ Pending(c, b)' => Pending(c, b) /\ sess'[c][b].init = sess[c][b].init
               /\ Established(c, b)' =>
                    \A r \in sess'[c][b].cached : Established(c, b) /\ r \in sess[c][b].cached
    BY Zenon, <2>2, <2>6 DEF Pending, Established
  <2>8. ASSUME NEW f \in net'
        PROVE  \/ f.body.type = "data"
               \/ Initiated(f.body) /\ f.body.type = "init"
               \/ Answered(f.body) /\ f.body.type = "response"
    <3>1. f \in net \/ f.body.type = "data"
      BY Zenon, <2>3, <2>4 DEF Remaining
    <3> QED  BY Zenon, <3>1, InFlight
  <2> QED  BY Zenon, <2>5, <2>7, <2>8, RepeatsWhen
<1>4. CASE e \in net /\ OpenData(d, e, active)
  <2> DEFINE m == e.body
             q == m.src
             s == sess[d][q]
             t == [s EXCEPT !.window = Mark(@, m.seq)]
  <2>1. q \in Device /\ Established(d, q)
    BY Zenon, <1>4, ArrivesType DEF OpenData, Opens
  <2>2. s \in EstablishedSession
    BY Zenon, <2>1, FieldTypes
  <2>3. t.st = "established" /\ t.cached = s.cached
    BY Zenon, <2>2 DEF EstablishedSession
  <2>4. sess' = [sess EXCEPT ![d][q] = t] /\ net' \subseteq net
    BY Zenon, <1>4, <2>1 DEF OpenData, TypeOK, Remaining
  <2>5. seen' = seen /\ clock' = clock /\ fresh' = fresh
    BY Zenon, <1>4 DEF OpenData
  <2> HIDE DEF t
  <2>6. /\ sess'[d][q] = t
        /\ \A c, b \in Device : c # d \/ b # q => sess'[c][b] = sess[c][b]
    BY Zenon, <2>1, <2>4 DEF TypeOK
  <2>7. ASSUME NEW c \in Device, NEW b \in Device
        PROVE  /\ Pending(c, b)' => Pending(c, b) /\ sess'[c][b].init = sess[c][b].init
               /\ Established(c, b)' =>
                    \A r \in sess'[c][b].cached : Established(c, b) /\ r \in sess[c][b].cached
    BY Zenon, <2>1, <2>3, <2>6 DEF Pending, Established
  <2>8. ASSUME NEW f \in net'
        PROVE  \/ f.body.type = "data"
               \/ Initiated(f.body) /\ f.body.type = "init"
               \/ Answered(f.body) /\ f.body.type = "response"
    BY Zenon, <2>4, InFlight
  <2> QED  BY Zenon, <2>5, <2>7, <2>8, RepeatsWhen
<1> QED  BY Zenon, <1>1, <1>2, <1>3, <1>4

\* Starting a handshake: its id is in no other initiation and no response.
LEMMA StartAnswer ==
  ASSUME DeliveryInv, AnswerInv, NEW d \in Device, NEW p \in Device, StartHandshake(d, p)
  PROVE  AnswerInv'
<1> DEFINE n == [type |-> "init", src |-> d, dst |-> p,
                 sid |-> [by |-> d, n |-> fresh], issued |-> Wall(d)]
           t == [st |-> "pending", init |-> n, createdAt |-> clock, lastSent |-> clock,
                 queue |-> <<nextPacket>>]
<1>1. TypeOK /\ Drawn
  BY Zenon DEF DeliveryInv, NonceInv
<1>2. /\ sess' = [sess EXCEPT ![d][p] = t] /\ net' = net \cup Post(d, p, <<n>>)
      /\ seen' = seen /\ clock' = clock /\ fresh' = fresh + 1
  BY Zenon DEF StartHandshake
<1>3. n.type = "init" /\ n.sid.n = fresh /\ t.st = "pending" /\ t.init = n
  BY ZenonT(40)
<1>4. \A f \in Post(d, p, <<n>>) : f.body = n
  BY Zenon, PostOne
<1> HIDE DEF n, t
<1>5. /\ sess'[d][p] = t
      /\ \A c, q \in Device : c # d \/ q # p => sess'[c][q] = sess[c][q]
  BY Zenon, <1>1, <1>2 DEF TypeOK
<1>6. ASSUME NEW i \in InitMsg, Initiated(i)' PROVE Initiated(i) \/ i = n
  <2>1. CASE \E f \in net' : f.body = i
    BY Zenon, <1>2, <1>4, <2>1 DEF Initiated
  <2>2. ASSUME NEW c \in Device, NEW q \in Device, Pending(c, q)', sess'[c][q].init = i
        PROVE  Initiated(i) \/ i = n
    <3>1. CASE c = d /\ q = p
      BY Zenon, <1>3, <1>5, <2>2, <3>1
    <3>2. CASE c # d \/ q # p
      BY Zenon, <1>5, <2>2, <3>2 DEF Initiated, Pending
    <3> QED  BY Zenon, <3>1, <3>2
  <2> QED  BY Zenon, <1>6, <2>1, <2>2 DEF Initiated
<1>7. ASSUME NEW x \in ResponseMsg, Answered(x)' PROVE Answered(x)
  <2>1. x # n
    BY Zenon, <1>1, <1>3, BodyKinds
  <2>2. CASE \E f \in net' : f.body = x
    BY Zenon, <1>2, <1>4, <2>1, <2>2 DEF Answered
  <2>3. CASE \E c, q \in Device : Established(c, q)' /\ x \in sess'[c][q].cached
    BY <1>3, <1>5, <2>3, Zenon DEF Answered, Established
  <2> QED  BY Zenon, <1>7, <2>2, <2>3 DEF Answered
<1>8. fresh \in Nat /\ \A k \in Nat : k < fresh => k # fresh /\ k < fresh + 1
  BY <1>1 DEF TypeOK
<1>9. ASSUME NEW i \in InitMsg, Initiated(i) PROVE i.sid # n.sid
  <2>1. i.sid.n \in Nat /\ i.type = "init"
    BY Zenon DEF InitMsg, Sid
  <2>2. i.sid.n < fresh
    BY Zenon, <1>1, <1>9, <2>1 DEF Initiated, Drawn, DrawnBefore
  <2> QED  BY Zenon, <1>3, <1>8, <2>1, <2>2
<1>10. ASSUME NEW x \in ResponseMsg, Answered(x) PROVE x.sid # n.sid /\ x.sid.n < fresh + 1
  <2>1. x.sid.n \in Nat
    BY Zenon DEF ResponseMsg, Sid
  <2>2. x.sid.n < fresh
    BY Zenon, <1>10 DEF AnswerInv, AnswersDrawn
  <2> QED  BY Zenon, <1>3, <1>8, <2>1, <2>2
<1>11. InitsApart'
  BY Zenon, <1>6, <1>9 DEF AnswerInv, InitsApart
<1>12. AnswersApart' /\ AnswersDrawn'
  BY Zenon, <1>2, <1>7, <1>10 DEF AnswerInv, AnswersApart, AnswersDrawn
<1>13. \A x, i : Settled(x, i) => Settled(x, i)'
  BY Zenon, <1>2 DEF Settled, Wall
<1>14. AnswersSettled'
  BY ZenonT(40), <1>6, <1>7, <1>10, <1>13 DEF AnswerInv, AnswersSettled
<1> QED  BY Zenon, <1>11, <1>12, <1>14 DEF AnswerInv

\* An entry that no longer counts is of an initiation that is no longer fresh:
\* the cache outlives the time for which an initiation is fresh.
LEMMA Outlives ==
  ASSUME TypeOK, 2 * Skew <= ReplayTtl, NEW d \in Device, NEW r \in seen[d],
         NEW issued \in Nat, issued - (r.at + Offset[d]) <= Skew, r \notin Retained(d)
  PROVE  Wall(d) - issued > Skew
<1>1. clock \in Nat /\ seen[d] \in SUBSET [from : Device, sid : Sid, at : Nat]
  BY DEF TypeOK
<1>2. Offset[d] \in Nat /\ Skew \in Nat /\ ReplayTtl \in Nat
  BY Zenon, SessionAssumption
<1>3. ~(clock - r.at <= ReplayTtl)
  BY Zenon DEF Retained
<1>4. r.at \in Nat
  BY Zenon, <1>1
<1> QED  BY <1>1, <1>2, <1>3, <1>4 DEF Wall

\* `Post` of a response and the frames after it.
LEMMA PostAnswer ==
  ASSUME NEW d, NEW p, NEW r, NEW frames \in Seq(DataMsg), NEW f \in Post(d, p, <<r>> \o frames)
  PROVE  f.body = r \/ f.body \in DataMsg
<1> DEFINE msgs == <<r>> \o frames
<1>1. DOMAIN frames = 1 .. Len(frames) /\ Len(frames) \in Nat
  OBVIOUS
<1>2. \A j \in DOMAIN msgs : msgs[j] = IF j = 1 THEN r ELSE frames[j - 1]
  OBVIOUS
<1>3. \A j \in DOMAIN msgs : j # 1 => j - 1 \in DOMAIN frames
  OBVIOUS
<1>4. \A i \in DOMAIN frames : frames[i] \in DataMsg
  OBVIOUS
<1>5. f \in Post(d, p, msgs)
  BY Zenon
<1> HIDE DEF msgs
<1>6. \E j \in DOMAIN msgs : f.body = msgs[j]
  BY <1>5, PostBodies
<1> QED  BY Zenon, <1>2, <1>3, <1>4, <1>6

\* Answering a handshake: it was not answered before, and now it is on record.
LEMMA AcceptAnswer ==
  ASSUME DeliveryInv, AnswerInv, WorkersLast, 2 * Skew <= ReplayTtl,
         NEW d \in Device, NEW e \in net, AcceptInit(d, e)
  PROVE  AnswerInv'
<1> DEFINE m == e.body
           p == m.src
           key == [sid |-> m.sid, eph |-> fresh, psk |-> psk[d]]
           response == [type |-> "response", src |-> d, dst |-> p, sid |-> m.sid,
                        eph |-> fresh, issued |-> Wall(d)]
           frames == SealQueue(d, p, key, QueuedFor(d, p))
           t == NewSession(key, QueuedFor(d, p), {response})
           entry == [from |-> p, sid |-> m.sid, at |-> clock]
<1>1. TypeOK /\ Drawn
  BY Zenon DEF DeliveryInv, NonceInv
<1>2. m \in InitMsg /\ p \in Device /\ m.dst = d /\ Initiated(m)
  BY Zenon, <1>1, ArrivesType DEF AcceptInit, Arrives, Initiated
<1>3. m.sid \in Sid /\ m.sid.n \in Nat /\ m.issued \in Nat /\ m.type = "init"
  BY Zenon, <1>2 DEF InitMsg, Sid
<1>4. Fresh(d, m.issued) /\ ~AlreadySeen(d, m)
  BY Zenon DEF AcceptInit, Accepts
<1>5. seen' = [seen EXCEPT ![d] = Retained(d) \cup {entry}]
  <2>1. ~(Cardinality(Retained(d)) >= SeenCap)
    BY Zenon DEF WorkersLast
  <2>2. MakesRoom(d) = {Retained(d)}
    BY Zenon, <2>1 DEF MakesRoom
  <2> QED  BY Zenon, <2>2 DEF AcceptInit
<1>6. /\ sess' = [sess EXCEPT ![d][p] = t] /\ clock' = clock /\ fresh' = fresh + 1
      /\ net' = Remaining(e) \cup Post(d, p, <<response>> \o frames)
  BY Zenon DEF AcceptInit
<1>7. t.st = "established" /\ t.cached = {response}
  BY Zenon DEF NewSession
<1>8. /\ response.src = d /\ response.sid = m.sid /\ response.type = "response"
      /\ entry.from = m.src /\ entry.sid = m.sid /\ entry.at = clock
  BY Zenon
<1>9. ASSUME NEW f \in net' PROVE f \in net \/ f.body = response \/ f.body \in DataMsg
  <2>1. key \in Key
    BY Zenon, <1>1, <1>3 DEF TypeOK, Key
  <2>2. QueuedFor(d, p) \in Seq(Packet)
    BY Zenon, <1>1, <1>2, QueuedForType
  <2>3. frames \in Seq(DataMsg)
    BY Zenon, <1>2, <2>1, <2>2, SealQueueType
  <2> HIDE DEF frames, response
  <2> QED  BY Zenon, <1>6, <2>3, PostAnswer DEF Remaining
<1> HIDE DEF m, p, response, t, entry, frames
<1>10. /\ sess'[d][p] = t
       /\ \A c, q \in Device : c # d \/ q # p => sess'[c][q] = sess[c][q]
  BY Zenon, <1>1, <1>2, <1>6 DEF TypeOK
<1>11. \A x \in DataMsg : x.type = "data"
  BY Zenon DEF DataMsg
<1>12. ASSUME NEW i \in InitMsg, Initiated(i)' PROVE Initiated(i)
  <2>1. i # response /\ i \notin DataMsg
    BY Zenon, <1>1, <1>8, <1>11, BodyKinds
  <2>2. CASE \E f \in net' : f.body = i
    BY Zenon, <1>9, <2>1, <2>2 DEF Initiated
  <2>3. ASSUME NEW c \in Device, NEW q \in Device, Pending(c, q)', sess'[c][q].init = i
        PROVE  Initiated(i)
    <3>1. c # d \/ q # p
      <4>1. t.st # "pending"
        BY Zenon, <1>7
      <4> QED  BY Zenon, <1>10, <2>3, <4>1 DEF Pending
    <3> QED  BY Zenon, <1>10, <2>3, <3>1 DEF Initiated, Pending
  <2> QED  BY Zenon, <1>12, <2>2, <2>3 DEF Initiated
<1>13. ASSUME NEW x \in ResponseMsg, Answered(x)' PROVE Answered(x) \/ x = response
  <2>1. x \notin DataMsg
    BY Zenon, <1>1, <1>11, BodyKinds
  <2>2. CASE \E f \in net' : f.body = x
    BY Zenon, <1>9, <2>1, <2>2 DEF Answered
  <2>3. CASE \E c, q \in Device : Established(c, q)' /\ x \in sess'[c][q].cached
    BY ZenonT(40), <1>7, <1>10, <2>3 DEF Answered, Established
  <2> QED  BY Zenon, <1>13, <2>2, <2>3 DEF Answered
<1>14. ~(Wall(d) - m.issued > Skew)
  <2>1. clock \in Nat /\ Offset[d] \in Nat /\ Skew \in Nat
    BY Zenon, <1>1, SessionAssumption DEF TypeOK
  <2> QED  BY <1>3, <1>4, <2>1 DEF Fresh, Wall
<1>15. ASSUME NEW x \in ResponseMsg, Answered(x), x.src = d PROVE x.sid # m.sid
  <2> SUFFICES ASSUME x.sid = m.sid PROVE FALSE
    BY Zenon
  <2>1. Settled(x, m)
    BY Zenon, <1>2, <1>15 DEF AnswerInv, AnswersSettled
  <2>2. PICK r \in seen[d] : /\ r.from = m.src /\ r.sid = m.sid
                             /\ m.issued - (r.at + Offset[d]) <= Skew
    BY Zenon, <1>14, <1>15, <2>1 DEF Settled
  <2>3. r \in Retained(d)
    BY Zenon, <1>1, <1>3, <1>14, <2>2, Outlives
  <2> QED  BY Zenon, <1>4, <2>2, <2>3 DEF AlreadySeen
<1>16. InitsApart'
  BY Zenon, <1>12 DEF AnswerInv, InitsApart
<1>17. AnswersApart'
  BY Zenon, <1>8, <1>13, <1>15 DEF AnswerInv, AnswersApart
<1>18. AnswersDrawn'
  <2>1. m.sid.n < fresh
    BY Zenon, <1>1, <1>3 DEF Drawn, DrawnBefore, m
  <2>2. fresh \in Nat /\ \A k \in Nat : k < fresh => k < fresh + 1
    BY <1>1 DEF TypeOK
  <2>3. \A x \in ResponseMsg : x.sid.n \in Nat
    BY Zenon DEF ResponseMsg, Sid
  <2> QED  BY Zenon, <1>3, <1>6, <1>8, <1>13, <2>1, <2>2, <2>3 DEF AnswerInv, AnswersDrawn
<1>19. ASSUME NEW x \in ResponseMsg, NEW i \in InitMsg, Settled(x, i) PROVE Settled(x, i)'
  <2>1. i.issued \in Nat /\ x.src \in Device
    BY Zenon DEF InitMsg, ResponseMsg
  <2>2. Wall(x.src)' = Wall(x.src)
    BY Zenon, <1>6 DEF Wall
  <2>3. CASE Wall(x.src) - i.issued > Skew
    BY Zenon, <2>2, <2>3 DEF Settled
  <2>4. CASE ~(Wall(x.src) - i.issued > Skew)
    <3>1. PICK r \in seen[x.src] : /\ r.from = i.src /\ r.sid = i.sid
                                   /\ i.issued - (r.at + Offset[x.src]) <= Skew
      BY Zenon, <1>19, <2>4 DEF Settled
    <3>2. r \in Retained(x.src)
      BY Zenon, <1>1, <2>1, <2>4, <3>1, Outlives
    <3>3. r \in seen'[x.src]
      BY Zenon, <1>1, <1>5, <2>1, <3>1, <3>2 DEF TypeOK
    <3> QED  BY Zenon, <3>1, <3>3 DEF Settled
  <2> QED  BY Zenon, <2>3, <2>4
<1>20. ASSUME NEW x, NEW i, x = response, i = m PROVE Settled(x, i)'
  <2>1. entry \in seen'[d]
    BY Zenon, <1>1, <1>5 DEF TypeOK
  <2>2. m.issued - (entry.at + Offset[d]) <= Skew
    BY Zenon, <1>4, <1>8 DEF Fresh, Wall
  <2> QED  BY Zenon, <1>8, <1>20, <2>1, <2>2 DEF Settled
<1>21. AnswersSettled'
  <2> SUFFICES ASSUME NEW x \in ResponseMsg, NEW i \in InitMsg,
                      Answered(x)', Initiated(i)', i.sid = x.sid, i.dst = x.src
               PROVE  Settled(x, i)'
    BY Zenon DEF AnswersSettled
  <2>1. CASE Answered(x)
    BY Zenon, <1>12, <1>19, <2>1 DEF AnswerInv, AnswersSettled
  <2>2. CASE x = response
    <3>1. i = m
      BY Zenon, <1>2, <1>8, <1>12, <2>2 DEF AnswerInv, InitsApart
    <3> QED  BY Zenon, <1>20, <2>2, <3>1
  <2> QED  BY Zenon, <1>13, <2>1, <2>2
<1> QED  BY Zenon, <1>16, <1>17, <1>18, <1>21 DEF AnswerInv

\* Every step of workers that last keeps the invariant.
LEMMA NextAnswer ==
  ASSUME 2 * Skew <= ReplayTtl, DeliveryInv, AnswerInv, WorkersLast, [Next]_vars
  PROVE  AnswerInv'
<1>1. TypeOK /\ clock \in {clock, clock + 1}
  BY Zenon DEF DeliveryInv, NonceInv
<1>2. ASSUME Repeats PROVE AnswerInv'
  BY Zenon, <1>1, <1>2, RepeatsAnswer
<1>3. ASSUME Quiet, seen' = seen, clock' \in {clock, clock + 1} PROVE AnswerInv'
  BY Zenon, <1>1, <1>2, <1>3, QuietRepeats
<1>4. ASSUME NEW d \in Device, Outbound(d) PROVE AnswerInv'
  BY Zenon, <1>1, <1>2, <1>4, TrafficRepeats, StartAnswer DEF Outbound
<1>5. ASSUME NEW d \in Device, Inbound(d) PROVE AnswerInv'
  <2>1. PICK e \in net :
          \/ AcceptInit(d, e) \/ ResendResponse(d, e) \/ DropInit(d, e)
          \/ CompleteHandshake(d, e) \/ DropResponse(d, e)
          \/ \E active \in BOOLEAN : OpenData(d, e, active)
          \/ DropData(d, e)
    BY Zenon, <1>5 DEF Inbound
  <2>2. CASE ResendResponse(d, e) \/ DropInit(d, e) \/ DropResponse(d, e) \/ DropData(d, e)
    <3>1. Quiet
      BY Zenon, <2>2, InertQuiet
    <3>2. seen' = seen /\ clock' = clock
      BY Zenon, <2>2 DEF ResendResponse, DropInit, DropResponse, DropData
    <3> QED  BY Zenon, <1>1, <1>3, <3>1, <3>2
  <2>3. CASE CompleteHandshake(d, e) \/ \E active \in BOOLEAN : OpenData(d, e, active)
    BY Zenon, <1>1, <1>2, <2>3, TrafficRepeats
  <2> QED  BY Zenon, <2>1, <2>2, <2>3, AcceptAnswer
<1>6. ASSUME NEW d \in Device, Tick(d) PROVE AnswerInv'
  <2>1. seen' = seen /\ clock' = clock
    BY Zenon, <1>6 DEF Tick, WorkerTick
  <2> QED  BY Zenon, <1>1, <1>3, <1>6, <2>1, WorkerQuiet
<1>7. ASSUME NEW d \in Device, RebuildWorker(d) PROVE FALSE
  BY Zenon, <1>7 DEF WorkersLast, RebuildWorker
<1>8. ASSUME NEW d \in Device, Learn(d) \/ Authorization(d) PROVE AnswerInv'
  <2>1. Quiet
    BY Zenon, <1>8, InertQuiet DEF Learn, Authorization
  <2>2. seen' = seen /\ clock' = clock
    BY Zenon, <1>8 DEF Learn, Authorization, LearnPeer, LapseLease, RenewLease, RequestReload
  <2> QED  BY Zenon, <1>1, <1>3, <2>1, <2>2
<1>9. CASE (\E e \in net : LoseDatagram(e)) \/ PassTime \/ UNCHANGED vars
  <2>1. UNCHANGED <<sess, dir, fresh, sealed, injected, seen>> /\ net' \subseteq net
        /\ clock' \in {clock, clock + 1}
    BY Zenon, <1>9 DEF LoseDatagram, PassTime, vars
  <2>2. \A d \in Device : d \notin dir[d]
    BY Zenon DEF DeliveryInv, NonceInv, Owned
  <2>3. Quiet
    BY Zenon, <2>1, <2>2 DEF Quiet
  <2> QED  BY Zenon, <1>3, <2>1, <2>3
<1> QED  BY Zenon, <1>4, <1>5, <1>6, <1>7, <1>8, <1>9 DEF Next

\* `receive_session_init` answers a handshake with one response only, however often
\* and however late the initiation arrives, as long as no worker is rebuilt and no
\* cache of answered handshakes is full: HANDSHAKE_REPLAY_TTL is at least twice the
\* clock skew that `verify_fresh` allows, so an entry leaves the cache only when
\* the initiation it is about is refused for its age.
THEOREM HandshakesAnsweredOnce ==
  ASSUME 2 * Skew <= ReplayTtl
  PROVE  Spec /\ []WorkersLast => []AnsweredOnce
<1>1. DeliveryInv /\ AnswerInv => AnsweredOnce
  <2> SUFFICES ASSUME DeliveryInv, AnswerInv, NEW e \in net, NEW f \in net,
                      e.body.type = "response", f.body.type = "response",
                      e.body.src = f.body.src, e.body.sid = f.body.sid
               PROVE  e.body = f.body
    BY Zenon DEF AnsweredOnce
  <2>1. e.body \in ResponseMsg /\ f.body \in ResponseMsg
    BY Zenon, FieldTypes DEF DeliveryInv, NonceInv
  <2> QED  BY Zenon, <2>1 DEF AnswerInv, AnswersApart, Answered
<1>2. DeliveryInv /\ AnswerInv /\ WorkersLast /\ [Next]_vars => AnswerInv'
  BY Zenon, NextAnswer
<1> QED  BY <1>1, <1>2, InitAnswer, DeliveryInvariant, PTL DEF Spec
===============================================================================
