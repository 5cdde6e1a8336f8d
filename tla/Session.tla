-------------------------------- MODULE Session --------------------------------
(***************************************************************************)
(* Pairwise sessions of the transport worker (meshlaked, main.rs;          *)
(* meshlake-core, session.rs) for the members of one virtual network.      *)
(*                                                                         *)
(* Every device runs one worker.  The worker owns the peer directory, the  *)
(* sessions and the cache of handshakes it has answered, and loses all     *)
(* three whenever it is rebuilt.  Datagrams may be lost, duplicated and    *)
(* reordered.  Random 128-bit and 256-bit values are fresh naturals;       *)
(* signatures and AEAD are perfect: a message is accepted only if it was   *)
(* sent, and opened only under the key that sealed it.                     *)
(***************************************************************************)
EXTENDS Integers, Sequences, FiniteSets, ReplayWindow

CONSTANTS
  Device,          \* DeviceIds, ordered as UUIDs are: a set of naturals
  Offset,          \* Offset[d]: lead of d's wall clock on monotonic time
  Skew,            \* HANDSHAKE_CLOCK_SKEW_SECONDS
  ReplayTtl,       \* HANDSHAKE_REPLAY_TTL
  SeenCap,         \* MAX_HANDSHAKE_REPLAY_ENTRIES
  PendingTtl,      \* HANDSHAKE_TTL
  SessionTtl,      \* PAIRWISE_SESSION_TTL
  RetryInterval,   \* HANDSHAKE_RETRY
  QueueCapacity,   \* SESSION_QUEUE_CAPACITY
  InOrder,         \* the network delivers each channel in order
  Duplicates,      \* the network may deliver a datagram again, at any time
  MaxLosses,       \* bound on datagrams the network drops
  MaxFresh,        \* bound on random values drawn
  MaxPackets,      \* bound on packets read from the adapters
  MaxClock,        \* bound on time
  MaxReloads,      \* bound on transport reloads
  MaxLapses        \* bound on lapses of leases and of directory entries

ASSUME SessionAssumption ==
  /\ Device \subseteq Nat
  /\ Offset \in [Device -> Nat]
  /\ {Skew, ReplayTtl, PendingTtl, SessionTtl, RetryInterval,
      MaxLosses, MaxFresh, MaxPackets, MaxClock, MaxReloads,
      MaxLapses} \subseteq Nat
  /\ {SeenCap, QueueCapacity, MaxSequence} \subseteq Nat \ {0}
  /\ QueueCapacity < MaxSequence
  /\ {InOrder, Duplicates} \subseteq BOOLEAN

VARIABLES
  sess,        \* sess[d][p]: d's session with p
  seen,        \* seen[d]: `seen_handshakes` of d's worker
  dir,         \* dir[d]: peers whose certified identity key d's worker holds
  lease,       \* lease[d]: d's own authorization is current
  psk,         \* psk[d]: epoch of the network key in d's state
  reload,      \* reload[d]: the transport revision has moved on
  clock,       \* monotonic time
  net,         \* datagrams in flight
  fresh,       \* the next random value
  nextPacket,  \* the next packet to be read from an adapter
  sealed,      \* every data frame ever sealed (history)
  injected,    \* injected[k]: how often packet k was written to an adapter
  budget       \* what is left of the bounds on the environment

vars == <<sess, seen, dir, lease, psk, reload, clock, net, fresh, nextPacket,
          sealed, injected, budget>>

-------------------------------------------------------------------------------
(* Data *)

Packet == 0 .. MaxPackets - 1

Sid == [by : Device, n : Nat]                 \* a random session id, and who drew it
Key == [sid : Sid, eph : Nat, psk : Nat]      \* what `derive_session_keys` depends on

InitMsg     == [type : {"init"}, src : Device, dst : Device, sid : Sid, issued : Nat]
ResponseMsg == [type : {"response"}, src : Device, dst : Device, sid : Sid,
                eph : Nat, issued : Nat]
DataMsg     == [type : {"data"}, src : Device, dst : Device, key : Key, seq : Nat,
                packet : Packet]
Msg == InitMsg \cup ResponseMsg \cup DataMsg

NoSession == [st |-> "none"]
PendingSession == [st : {"pending"}, init : InitMsg, createdAt : Nat, lastSent : Nat,
                   queue : Seq(Packet)]
EstablishedSession == [st : {"established"}, key : Key, nextSeq : Nat, window : Window,
                       at : Nat, cached : SUBSET ResponseMsg]
SessionState == {NoSession} \cup PendingSession \cup EstablishedSession

Pending(d, p)     == sess[d][p].st = "pending"
Established(d, p) == sess[d][p].st = "established"

Wall(d) == clock + Offset[d]                  \* now(): Unix seconds on d's own clock

\* `verify_fresh`: |now - issued| <= skew
Fresh(d, issued) == Wall(d) - issued <= Skew /\ issued - Wall(d) <= Skew

\* `PeerSessionState::is_expired`
IsExpired(s) ==
  \/ s.st = "pending" /\ clock - s.createdAt > PendingTtl
  \/ s.st = "established" /\ clock - s.at > SessionTtl

-------------------------------------------------------------------------------
(* The network *)

OnChannel(d, p) == {e \in net : e.body.src = d /\ e.body.dst = p}

\* Stamps order a channel; without ordering every datagram has stamp 0.
LastStamp(d, p) ==
  IF InOrder /\ OnChannel(d, p) # {}
  THEN (CHOOSE e \in OnChannel(d, p) : \A f \in OnChannel(d, p) : f.n <= e.n).n
  ELSE 0

Post(d, p, msgs) ==
  {[n |-> IF InOrder THEN LastStamp(d, p) + i ELSE 0, body |-> msgs[i]] :
     i \in DOMAIN msgs}

Deliverable(e) ==
  InOrder => \A f \in OnChannel(e.body.src, e.body.dst) : e.n <= f.n

Remaining(e) == IF Duplicates THEN net ELSE net \ {e}

-------------------------------------------------------------------------------
Init ==
  /\ sess = [d \in Device |-> [p \in Device |-> NoSession]]
  /\ seen = [d \in Device |-> {}]
  /\ dir = [d \in Device |-> {}]
  /\ lease = [d \in Device |-> TRUE]
  /\ psk = [d \in Device |-> 0]
  /\ reload = [d \in Device |-> FALSE]
  /\ clock = 0
  /\ net = {}
  /\ fresh = 0
  /\ nextPacket = 0
  /\ sealed = {}
  /\ injected = [k \in Packet |-> 0]
  /\ budget = [losses |-> MaxLosses, reloads |-> MaxReloads, lapses |-> MaxLapses]

-------------------------------------------------------------------------------
(* Outbound packets: `prepare_outbound_peer_packet` *)

Frame(d, p, key, seq, packet) ==
  [type |-> "data", src |-> d, dst |-> p, key |-> key, seq |-> seq, packet |-> packet]

\* `seal_queued_packets`: a new key starts at sequence number 0.
SealQueue(d, p, key, queue) ==
  [i \in DOMAIN queue |-> Frame(d, p, key, i - 1, queue[i])]

\* A bug: a session whose counter is used up stays in use.
MustDiscardUnlessExhausted(s) == IsExpired(s)

\* `must_discard`; a session whose identity key is gone has already left the table.
MustDiscard(s) ==
  \/ IsExpired(s)
  \/ s.st = "established" /\ s.nextSeq = MaxSequence

\* The session an outbound packet finds, after `must_discard`.
Usable(d, p) == IF MustDiscard(sess[d][p]) THEN NoSession ELSE sess[d][p]

\* `saturating_add(1)`
SaturatingNext(seq) == IF seq < MaxSequence THEN seq + 1 ELSE seq

ReadPacket(d, p) ==
  /\ lease[d]
  /\ p \in dir[d]
  /\ nextPacket < MaxPackets
  /\ nextPacket' = nextPacket + 1

\* A bug: a handshake is sent once.
NeverRetransmits(s) == FALSE

Retransmits(s) == clock - s.lastSent >= RetryInterval

\* Beyond SESSION_QUEUE_CAPACITY the newest packet is the one dropped.
Enqueue(queue, packet) ==
  IF Len(queue) < QueueCapacity THEN Append(queue, packet) ELSE queue

\* A handshake is pending: queue the packet or drop it, retry if it is time.
QueueOutbound(d, p) ==
  LET s == Usable(d, p)
      again == Retransmits(s)
  IN  /\ s.st = "pending"
      /\ ReadPacket(d, p)
      /\ sess' = [sess EXCEPT ![d][p] =
            [s EXCEPT !.queue = Enqueue(@, nextPacket),
                      !.lastSent = IF again THEN clock ELSE @]]
      /\ net' = IF again THEN net \cup Post(d, p, <<s.init>>) ELSE net
      /\ UNCHANGED <<seen, dir, lease, psk, reload, clock, fresh, sealed, injected, budget>>

\* The session is established: seal under the next sequence number.
SealOutbound(d, p) ==
  LET s == Usable(d, p)
      frame == Frame(d, p, s.key, s.nextSeq, nextPacket)
  IN  /\ s.st = "established"
      /\ ReadPacket(d, p)
      /\ sess' = [sess EXCEPT ![d][p] = [s EXCEPT !.nextSeq = SaturatingNext(@)]]
      /\ sealed' = sealed \cup {frame}
      /\ net' = net \cup Post(d, p, <<frame>>)
      /\ UNCHANGED <<seen, dir, lease, psk, reload, clock, fresh, injected, budget>>

\* There is no session: `InitiatorHandshake::start`.
StartHandshake(d, p) ==
  LET init == [type |-> "init", src |-> d, dst |-> p,
               sid |-> [by |-> d, n |-> fresh], issued |-> Wall(d)]
  IN  /\ Usable(d, p).st = "none"
      /\ ReadPacket(d, p)
      /\ fresh < MaxFresh
      /\ fresh' = fresh + 1
      /\ sess' = [sess EXCEPT ![d][p] =
            [st |-> "pending", init |-> init, createdAt |-> clock, lastSent |-> clock,
             queue |-> <<nextPacket>>]]
      /\ net' = net \cup Post(d, p, <<init>>)
      /\ UNCHANGED <<seen, dir, lease, psk, reload, clock, sealed, injected, budget>>

-------------------------------------------------------------------------------
(* Inbound handshakes: `receive_session_init`, `receive_session_response` *)

Arrives(d, e, type) ==
  /\ e \in net
  /\ e.body.type = type
  /\ e.body.dst = d
  /\ Deliverable(e)

\* The network is authorized locally and the sender's identity key is known.
Hears(d, p) == lease[d] /\ p \in dir[d]

\* The session with p is the one this initiation set up: repeat the answer.
IsCurrent(d, m) ==
  /\ Established(d, m.src)
  /\ sess[d][m.src].key.sid = m.sid
  /\ sess[d][m.src].cached # {}

\* A bug: the tie-break is forgotten and both sides answer.
NeverKeeps(d, p) == FALSE

\* Simultaneous initiation: the lower DeviceId stays the initiator.
KeepsInitiating(d, p) == Pending(d, p) /\ d < p

\* `seen.retain`: entries of `record_session_handshake` that still count.
Retained(d) == {r \in seen[d] : clock - r.at <= ReplayTtl}

\* A bug: the cache of answered handshakes is never consulted.
NeverSeen(d, m) == FALSE

AlreadySeen(d, m) == \E r \in Retained(d) : r.from = m.src /\ r.sid = m.sid

\* At capacity the oldest entry makes room.
Oldest(S) == {r \in S : \A q \in S : r.at <= q.at}

MakesRoom(d) ==
  IF Cardinality(Retained(d)) >= SeenCap
  THEN {Retained(d) \ {r} : r \in Oldest(Retained(d))}
  ELSE {Retained(d)}

Accepts(d, m) ==
  /\ Hears(d, m.src)
  /\ ~IsCurrent(d, m)
  /\ ~KeepsInitiating(d, m.src)
  /\ Fresh(d, m.issued)
  /\ ~AlreadySeen(d, m)

QueuedFor(d, p) == IF Pending(d, p) THEN sess[d][p].queue ELSE <<>>

NewSession(key, queue, cached) ==
  [st |-> "established", key |-> key, nextSeq |-> Len(queue), window |-> EmptyWindow,
   at |-> clock, cached |-> cached]

\* A new session replaces whatever was there and carries the queued packets.
AcceptInit(d, e) ==
  LET m == e.body
      p == m.src
      key == [sid |-> m.sid, eph |-> fresh, psk |-> psk[d]]
      response == [type |-> "response", src |-> d, dst |-> p, sid |-> m.sid,
                   eph |-> fresh, issued |-> Wall(d)]
      frames == SealQueue(d, p, key, QueuedFor(d, p))
  IN  /\ Arrives(d, e, "init")
      /\ Accepts(d, m)
      /\ fresh < MaxFresh
      /\ fresh' = fresh + 1
      /\ sess' = [sess EXCEPT ![d][p] = NewSession(key, QueuedFor(d, p), {response})]
      /\ \E kept \in MakesRoom(d) :
           seen' = [seen EXCEPT ![d] = kept \cup {[from |-> p, sid |-> m.sid, at |-> clock]}]
      /\ sealed' = sealed \cup {frames[i] : i \in DOMAIN frames}
      /\ net' = Remaining(e) \cup Post(d, p, <<response>> \o frames)
      /\ UNCHANGED <<dir, lease, psk, reload, clock, nextPacket, injected, budget>>

\* The response to a repeated initiation is the cached one.
ResendResponse(d, e) ==
  LET m == e.body
      response == CHOOSE r \in sess[d][m.src].cached : TRUE
  IN  /\ Arrives(d, e, "init")
      /\ Hears(d, m.src)
      /\ IsCurrent(d, m)
      /\ net' = Remaining(e) \cup Post(d, m.src, <<response>>)
      /\ UNCHANGED <<sess, seen, dir, lease, psk, reload, clock, fresh, nextPacket, sealed,
                     injected, budget>>

\* Every other initiation is dropped without a trace.
DropInit(d, e) ==
  /\ Arrives(d, e, "init")
  /\ ~Accepts(d, e.body)
  /\ ~(Hears(d, e.body.src) /\ IsCurrent(d, e.body))
  /\ net' = Remaining(e)
  /\ UNCHANGED <<sess, seen, dir, lease, psk, reload, clock, fresh, nextPacket, sealed,
                 injected, budget>>

\* `InitiatorHandshake::complete` verifies freshness and the session id.
Completes(d, m) ==
  /\ Hears(d, m.src)
  /\ Pending(d, m.src)
  /\ Fresh(d, m.issued)
  /\ m.sid = sess[d][m.src].init.sid

CompleteHandshake(d, e) ==
  LET m == e.body
      p == m.src
      key == [sid |-> m.sid, eph |-> m.eph, psk |-> psk[d]]
      frames == SealQueue(d, p, key, QueuedFor(d, p))
  IN  /\ Arrives(d, e, "response")
      /\ Completes(d, m)
      /\ sess' = [sess EXCEPT ![d][p] = NewSession(key, QueuedFor(d, p), {})]
      /\ sealed' = sealed \cup {frames[i] : i \in DOMAIN frames}
      /\ net' = Remaining(e) \cup Post(d, p, frames)
      /\ UNCHANGED <<seen, dir, lease, psk, reload, clock, fresh, nextPacket, injected, budget>>

DropResponse(d, e) ==
  /\ Arrives(d, e, "response")
  /\ ~Completes(d, e.body)
  /\ net' = Remaining(e)
  /\ UNCHANGED <<sess, seen, dir, lease, psk, reload, clock, fresh, nextPacket, sealed,
                 injected, budget>>

-------------------------------------------------------------------------------
(* Inbound data: `receive_session_data` *)

\* A bug: the replay window is not asked.
OpensAnySequence(d, m) == Established(d, m.src) /\ m.key = sess[d][m.src].key

\* `PairwiseSessionKeys::open`: the replay window, then the AEAD.
Opens(d, m) ==
  /\ Established(d, m.src)
  /\ m.key = sess[d][m.src].key
  /\ CanAccept(sess[d][m.src].window, m.seq)

\* An authentic frame moves the window even when it is then not delivered,
\* because the lease lapsed, the peer is unknown or the adapter is down.
OpenData(d, e, active) ==
  LET m == e.body
  IN  /\ Arrives(d, e, "data")
      /\ Opens(d, m)
      /\ sess' = [sess EXCEPT ![d][m.src].window = Mark(@, m.seq)]
      /\ injected' = IF active /\ Hears(d, m.src)
                     THEN [injected EXCEPT ![m.packet] = @ + 1]
                     ELSE injected
      /\ net' = Remaining(e)
      /\ UNCHANGED <<seen, dir, lease, psk, reload, clock, fresh, nextPacket, sealed, budget>>

DropData(d, e) ==
  /\ Arrives(d, e, "data")
  /\ ~Opens(d, e.body)
  /\ net' = Remaining(e)
  /\ UNCHANGED <<sess, seen, dir, lease, psk, reload, clock, fresh, nextPacket, sealed,
                 injected, budget>>

-------------------------------------------------------------------------------
(* The worker's tick *)

\* Resend the initiation of every handshake that has waited long enough.
Retried(d) == {p \in Device : Pending(d, p) /\ Retransmits(sess[d][p])}

AfterRetry(d) ==
  [p \in Device |-> IF p \in Retried(d) THEN [sess[d][p] EXCEPT !.lastSent = clock]
                                        ELSE sess[d][p]]

\* The stale-session sweep keeps a session of a known peer that is not expired.
Survives(s, known) == known /\ ~IsExpired(s)

\* One tick with a current transport revision.  Without a lease everything of
\* the network goes.  Otherwise handshakes are retried and, when the probe timer
\* is due, the directory entries `lapsed` expire and stale sessions are removed.
WorkerTick(d, probe, lapsed) ==
  LET known == IF probe THEN dir[d] \ lapsed ELSE dir[d]
      retried == IF lease[d] THEN Retried(d) \cap dir[d] ELSE {}
  IN  /\ ~reload[d]
      /\ lapsed \subseteq dir[d]
      /\ lapsed # {} => probe /\ lease[d] /\ budget.lapses > 0
      /\ dir' = [dir EXCEPT ![d] = IF lease[d] THEN known ELSE {}]
      /\ sess' = [sess EXCEPT ![d] =
            [p \in Device |->
               IF lease[d] /\ (probe => Survives(AfterRetry(d)[p], p \in known))
               THEN AfterRetry(d)[p]
               ELSE NoSession]]
      /\ net' = net \cup UNION {Post(d, p, <<sess[d][p].init>>) : p \in retried}
      /\ budget' = IF lapsed # {} THEN [budget EXCEPT !.lapses = @ - 1] ELSE budget
      /\ UNCHANGED <<seen, lease, psk, reload, clock, fresh, nextPacket, sealed, injected>>

\* The tick finds a new transport revision, or the worker failed: the supervisor
\* starts a worker with empty tables.
RebuildWorker(d) ==
  /\ reload[d]
  /\ reload' = [reload EXCEPT ![d] = FALSE]
  /\ sess' = [sess EXCEPT ![d] = [p \in Device |-> NoSession]]
  /\ seen' = [seen EXCEPT ![d] = {}]
  /\ dir' = [dir EXCEPT ![d] = {}]
  /\ UNCHANGED <<lease, psk, clock, net, fresh, nextPacket, sealed, injected, budget>>

-------------------------------------------------------------------------------
(* What other parts of the system do to the worker *)

\* A Root answer carries the authorized certificate of p: `handle_root_response`.
LearnPeer(d, p) ==
  /\ lease[d]
  /\ p \notin dir[d] \cup {d}
  /\ dir' = [dir EXCEPT ![d] = @ \cup {p}]
  /\ UNCHANGED <<sess, seen, lease, psk, reload, clock, net, fresh, nextPacket, sealed,
                 injected, budget>>

\* The authorization manifest runs out, and a fresh one arrives.
LapseLease(d) ==
  /\ lease[d]
  /\ budget.lapses > 0
  /\ lease' = [lease EXCEPT ![d] = FALSE]
  /\ budget' = [budget EXCEPT !.lapses = @ - 1]
  /\ UNCHANGED <<sess, seen, dir, psk, reload, clock, net, fresh, nextPacket, sealed, injected>>

RenewLease(d) ==
  /\ ~lease[d]
  /\ lease' = [lease EXCEPT ![d] = TRUE]
  /\ UNCHANGED <<sess, seen, dir, psk, reload, clock, net, fresh, nextPacket, sealed,
                 injected, budget>>

\* `request_transport_reload`, after a configuration change or a key rotation.
\* Until the next tick the old worker runs on, with the new network key.
RequestReload(d, epoch) ==
  /\ budget.reloads > 0
  /\ epoch \in {psk[d], psk[d] + 1}
  /\ psk' = [psk EXCEPT ![d] = epoch]
  /\ reload' = [reload EXCEPT ![d] = TRUE]
  /\ budget' = [budget EXCEPT !.reloads = @ - 1]
  /\ UNCHANGED <<sess, seen, dir, lease, clock, net, fresh, nextPacket, sealed, injected>>

\* Losses end before time does, so that the bound on time never cuts off the
\* retry that would make up for one.
LoseDatagram(e) ==
  /\ budget.losses > 0
  /\ clock < MaxClock
  /\ net' = net \ {e}
  /\ budget' = [budget EXCEPT !.losses = @ - 1]
  /\ UNCHANGED <<sess, seen, dir, lease, psk, reload, clock, fresh, nextPacket, sealed, injected>>

PassTime ==
  /\ clock < MaxClock
  /\ clock' = clock + 1
  /\ UNCHANGED <<sess, seen, dir, lease, psk, reload, net, fresh, nextPacket, sealed,
                 injected, budget>>

-------------------------------------------------------------------------------
Outbound(d) ==
  \E p \in Device : QueueOutbound(d, p) \/ SealOutbound(d, p) \/ StartHandshake(d, p)

Inbound(d) ==
  \E e \in net :
    \/ AcceptInit(d, e) \/ ResendResponse(d, e) \/ DropInit(d, e)
    \/ CompleteHandshake(d, e) \/ DropResponse(d, e)
    \/ \E active \in BOOLEAN : OpenData(d, e, active)
    \/ DropData(d, e)

Tick(d) == \E probe \in BOOLEAN, lapsed \in SUBSET dir[d] : WorkerTick(d, probe, lapsed)

Learn(d) == \E p \in Device : LearnPeer(d, p)

Authorization(d) ==
  \/ LapseLease(d)
  \/ RenewLease(d)
  \/ \E epoch \in {psk[d], psk[d] + 1} : RequestReload(d, epoch)

Next ==
  \/ \E d \in Device :
       Outbound(d) \/ Inbound(d) \/ Tick(d) \/ RebuildWorker(d) \/ Learn(d) \/ Authorization(d)
  \/ \E e \in net : LoseDatagram(e)
  \/ PassTime

Spec == Init /\ [][Next]_vars

\* The worker's loop never stops: it polls its sockets, its timer and the clock.
FairSpec ==
  /\ Spec
  /\ \A d \in Device : WF_vars(Inbound(d)) /\ WF_vars(Tick(d))
  /\ WF_vars(PassTime)

-------------------------------------------------------------------------------
(* Properties *)

\* Type correctness: the shape of the worker's tables, the in-flight datagrams and
\* the history, with every queue within SESSION_QUEUE_CAPACITY and every send
\* counter within u64.
TypeOK ==
  /\ sess \in [Device -> [Device -> SessionState]]
  /\ \A d, p \in Device :
       /\ Pending(d, p) => Len(sess[d][p].queue) <= QueueCapacity
       /\ Established(d, p) => sess[d][p].nextSeq <= MaxSequence
  /\ seen \in [Device -> SUBSET [from : Device, sid : Sid, at : Nat]]
  /\ dir \in [Device -> SUBSET Device]
  /\ lease \in [Device -> BOOLEAN]
  /\ psk \in [Device -> Nat]
  /\ reload \in [Device -> BOOLEAN]
  /\ clock \in Nat
  /\ \A e \in net : e.body \in Msg
  /\ fresh \in Nat
  /\ nextPacket \in 0 .. MaxPackets
  /\ sealed \subseteq DataMsg
  /\ injected \in [Packet -> Nat]
  /\ budget \in [losses : Nat, reloads : Nat, lapses : Nat]

\* No two frames are ever sealed by one device under the same traffic key and
\* sequence number: XChaCha20 never sees a nonce twice, whatever the network
\* does to the handshakes and however often workers are rebuilt.
NonceUnique ==
  \A a, b \in sealed : a.src = b.src /\ a.key = b.key /\ a.seq = b.seq => a = b

\* A packet read from one adapter is written to the other at most once, although
\* every datagram may arrive again at any time and sessions come and go.
AtMostOnce == \A k \in Packet : injected[k] <= 1

\* A session is held only with a peer whose certified identity key the worker
\* still has: lapsed directory entries and leases take their sessions with them.
SessionHasIdentity == \A d, p \in Device : sess[d][p] # NoSession => p \in dir[d]

\* A device answers a handshake with one response only, however often and however
\* late the initiation arrives: the cache of answered handshakes outlives the
\* time for which an initiation is fresh.  (For runs with Duplicates, where
\* `net` holds every response ever sent.)
AnsweredOnce ==
  \A e, f \in net :
    /\ e.body.type = "response" /\ f.body.type = "response"
    /\ e.body.src = f.body.src /\ e.body.sid = f.body.sid
    => e.body = f.body

SameSession(d, p) ==
  Established(d, p) /\ Established(p, d) /\ sess[d][p].key = sess[p][d].key

\* When nothing is in flight, two devices that both hold a session with each
\* other hold the same one: the tie-break on DeviceId settles a simultaneous
\* initiation.
Converged ==
  net = {} => \A d, p \in Device : Established(d, p) /\ Established(p, d) => SameSession(d, p)

\* A handshake with a peer that knows the initiator ends in a session both sides
\* share, although datagrams are lost: initiations are retried and answers are
\* repeated.  (lastSent < MaxClock: the bound on time leaves room for a retry.)
HandshakeCompletes ==
  \A d, p \in Device :
    Pending(d, p) /\ d \in dir[p] /\ sess[d][p].lastSent < MaxClock ~> SameSession(d, p)
===============================================================================
