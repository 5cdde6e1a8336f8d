---------------------------- MODULE MCTransport ----------------------------
(***************************************************************************)
(* The ways of a frame, each on an instance of its own: the session that   *)
(* seals it, the fall-back from path to path, a TLS relay's stream, a TURN *)
(* route, the choice of a direct path, and the router's port mapping.  A   *)
(* behaviour is one of one part; the others rest in an initial state.      *)
(* Each part's fairness is stated with the property that needs it.  The    *)
(* TURN route is the module that is extended.                              *)
(***************************************************************************)
EXTENDS Turn, FiniteSets, Sequences

CONSTANT None

VARIABLES part,
    sess, answered, dir, leases, psk, reload, clock, datagrams, fresh,
    nextPacket, sealed, injected, budget,
    up, policy, authenticated, direct, ready, gen, schedule, transaction,
    health, net, peer, seen, last, losses,
    connection, closing, certificate, offered, waiting, writing, bytes, reading,
    received, started, torn, breaks,
    route, links, flight, changes,
    speaks, wan, lease, protocol, held, candidate, advertised, timer, stun,
    failed, unanswered, restarts, reloads

\* Datagrams may be lost but keep their order.
Device == {1, 2}
SessionPart == INSTANCE Session WITH
    seen <- answered, lease <- leases, net <- datagrams,
    Offset <- <<0, 0>>, Skew <- 2, ReplayTtl <- 2, SeenCap <- 4, PendingTtl <- 2,
    SessionTtl <- 9, RetryInterval <- 1, QueueCapacity <- 1, WindowSize <- 2,
    MaxSequence <- 2, InOrder <- TRUE, Duplicates <- FALSE, MaxLosses <- 2,
    MaxFresh <- 4, MaxPackets <- 2, MaxClock <- 2, MaxReloads <- 0, MaxLapses <- 0

\* Only UDP reaches the relay, or only UDP TURN.
UdpOrTurn == {{"udp"}, {"turn"}}
FallbackPart == INSTANCE Fallback WITH
    spent <- losses,
    Worlds <- UdpOrTurn, Policies <- {"preferred", "required", "disabled"},
    HealthTtl <- 2, PeerTtl <- 4, TransactionTtl <- 1, MaxDelay <- 4,
    MaxLosses <- 1, MaxReconnects <- 1, MaxRestarts <- 1

StreamPart == INSTANCE TlsRelay WITH
    phase <- connection, shutdown <- closing, queue <- waiting, stream <- bytes,
    Frames <- [agent |-> 3, proxy |-> 1],
    QueueCapacity <- 2, StreamCapacity <- 1, MaxBreaks <- 1

\* Links that work in both directions, or not at all.
BothWays == {{}, {"a", "b"} \X {"wan"}, {"a", "b"} \X {"lan", "wan"}}
DirectPart == INSTANCE DirectPath WITH
    up <- links, Paths <- {"lan", "wan"}, Worlds <- BothWays, Samples <- {1},
    MaxCandidates <- 2, Fresh <- 2, MaxFailures <- 2, MaxChanges <- 1

MappingPart == INSTANCE PortMapping WITH
    losses <- unanswered,
    Supported <- {{}, {"upnp"}, {"natpmp", "upnp"}, {"pcp", "upnp"}},
    Mobile <- {{"upnp"}, {"pcp", "upnp"}},
    Wans <- {"w1", "w2"}, Reported <- {"w2", "s1"},
    Renewal <- 4, Lag <- 1, Lifetime <- [pcp |-> 16, natpmp |-> 16, upnp |-> 4],
    Capacity <- 2, StunLife <- 2, MaxLosses <- 3, MaxRestarts <- 1, MaxReloads <- 1

ASSUME MappingAssumption == MappingPart!LifetimesFit

sessionVars == <<sess, answered, dir, leases, psk, reload, clock, datagrams,
    fresh, nextPacket, sealed, injected, budget>>
fallbackVars == <<up, policy, authenticated, direct, ready, gen, schedule,
    transaction, health, net, peer, seen, last, losses>>
streamVars == <<connection, closing, certificate, offered, waiting, writing,
    bytes, reading, received, started, torn, breaks>>
turnVars == vars
directVars == <<route, links, flight, changes>>
mappingVars == <<speaks, wan, lease, protocol, held, candidate, advertised,
    timer, stun, failed, unanswered, restarts, reloads>>

SessionRests == SessionPart!Init
FallbackRests == FallbackPart!Init /\ up = {"udp"} /\ policy = "disabled" /\ ~authenticated /\ ~direct
StreamRests == StreamPart!Init
TurnRests == Init /\ kind = "udp"
DirectRests == DirectPart!Init /\ links = {}
MappingRests == MappingPart!Init /\ speaks = {} /\ wan = "w1"

TransportInit ==
    \/ part = "session" /\ SessionPart!Init
       /\ FallbackRests /\ StreamRests /\ TurnRests /\ DirectRests /\ MappingRests
    \/ part = "fallback" /\ FallbackPart!Init
       /\ SessionRests /\ StreamRests /\ TurnRests /\ DirectRests /\ MappingRests
    \/ part = "tls" /\ StreamPart!Init
       /\ SessionRests /\ FallbackRests /\ TurnRests /\ DirectRests /\ MappingRests
    \/ part = "turn" /\ Init
       /\ SessionRests /\ FallbackRests /\ StreamRests /\ DirectRests /\ MappingRests
    \/ part = "direct" /\ DirectPart!Init
       /\ SessionRests /\ FallbackRests /\ StreamRests /\ TurnRests /\ MappingRests
    \/ part = "mapping" /\ MappingPart!Init
       /\ SessionRests /\ FallbackRests /\ StreamRests /\ TurnRests /\ DirectRests

TransportNext ==
    /\ UNCHANGED part
    /\ \/ /\ part = "session" /\ SessionPart!Next
          /\ UNCHANGED <<fallbackVars, streamVars, turnVars, directVars,
                        mappingVars>>
       \/ /\ part = "fallback" /\ FallbackPart!Next
          /\ UNCHANGED <<sessionVars, streamVars, turnVars, directVars,
                        mappingVars>>
       \/ /\ part = "tls" /\ StreamPart!Next
          /\ UNCHANGED <<sessionVars, fallbackVars, turnVars, directVars,
                        mappingVars>>
       \/ /\ part = "turn" /\ Next
          /\ UNCHANGED <<sessionVars, fallbackVars, streamVars, directVars,
                        mappingVars>>
       \/ /\ part = "direct" /\ DirectPart!Next
          /\ UNCHANGED <<sessionVars, fallbackVars, streamVars, turnVars,
                        mappingVars>>
       \/ /\ part = "mapping" /\ MappingPart!Next
          /\ UNCHANGED <<sessionVars, fallbackVars, streamVars, turnVars,
                        directVars>>

transportVars == <<part, sessionVars, fallbackVars, streamVars, turnVars,
                   directVars, mappingVars>>

TransportSpec == TransportInit /\ [][TransportNext]_transportVars

-----------------------------------------------------------------------------
(* The fairness of each part's specification, for that part alone.         *)

In(p, A) == part = p /\ A

SessionFairness ==
    LET Do(A) == In("session", A) IN
    /\ \A d \in Device : /\ WF_sessionVars(Do(SessionPart!Inbound(d)))
                          /\ WF_sessionVars(Do(SessionPart!Tick(d)))
    /\ WF_sessionVars(Do(SessionPart!PassTime))
FallbackFairness ==
    LET Do(A) == In("fallback", A) IN
    /\ WF_fallbackVars(Do(FallbackPart!TimeOut)) /\ WF_fallbackVars(Do(FallbackPart!Register))
    /\ WF_fallbackVars(Do(FallbackPart!ReceiveAcknowledgement)) /\ SF_fallbackVars(Do(FallbackPart!SendFrame))
    /\ WF_fallbackVars(Do(FallbackPart!RelayRegistration)) /\ WF_fallbackVars(Do(FallbackPart!RelayFrame))
    /\ SF_fallbackVars(Do(FallbackPart!Tick))
    /\ \A p \in FallbackPart!Tunnel : WF_fallbackVars(Do(FallbackPart!Connect(p)))
StreamFairness ==
    LET Do(A) == In("tls", A) IN
    /\ \A e \in StreamPart!End : /\ WF_streamVars(Do(StreamPart!BeginWrite(e)))
                                 /\ WF_streamVars(Do(StreamPart!Write(e)))
                                 /\ WF_streamVars(Do(StreamPart!Read(e)))
    /\ WF_streamVars(Do(StreamPart!connect_pinned_tls)) /\ WF_streamVars(Do(StreamPart!Reconnect))
    /\ WF_streamVars(Do(StreamPart!Stop))
TurnFairness ==
    LET Do(A) == In("turn", A) IN
    /\ WF_turnVars(Do(ClientNext)) /\ SF_turnVars(Do(Stop))
    /\ WF_turnVars(Do(ServerAnswers))
DirectFairness ==
    LET Do(A) == In("direct", A) IN
    /\ WF_directVars(Do(\E m \in flight : DirectPart!Punched(m)))
    /\ SF_directVars(Do(DirectPart!Probe))
    /\ \A d \in DirectPart!Device : SF_directVars(Do(flight = {} /\ DirectPart!Announce(d)))
MappingFairness ==
    LET Do(A) == In("mapping", A) IN
    /\ WF_mappingVars(Do(MappingPart!establish)) /\ WF_mappingVars(Do(MappingPart!Tick))
    /\ SF_mappingVars(Do(MappingPart!RenewOk))

-----------------------------------------------------------------------------
\* Two devices that both believe in a session share its keys once nothing is in
\* flight, if the network keeps the order of datagrams (receive_session_init).
Converged == part = "session" => SessionPart!Converged

\* A handshake ends in a session both sides share, although datagrams are lost
\* (HANDSHAKE_RETRY, seen_handshakes).
HandshakeCompletes ==
    part = "session" /\ SessionFairness => SessionPart!HandshakeCompletes

\* While some path to the relay is up, frames keep arriving, whatever was
\* lost, reconnected or restarted: the worker's loop, the tunnels'
\* reconnection and the relay go on (send_peer_routed_packet, handle_packet).
FramesGetThrough ==
    part = "fallback" /\ FallbackFairness => FallbackPart!FramesGetThrough

\* A frame taken for writing arrives, once and in order, unless the connection
\* ends, the other end drops a read half-way, or both ends write into full
\* buffers: nothing else loses a frame or stalls the stream (write_tcp_frame,
\* read_tcp_frame, the two select! loops).
FramesArrive == part = "tls" /\ StreamFairness => StreamPart!FramesArrive

\* A TURN route comes back to an allocation after any error, and ends after
\* its transport is dropped (run_route, run_tls_route).
TurnRouteSettles == part = "turn" /\ TurnFairness => RouteSettles

\* Once the links stay as they are, both devices send on a path that works, or
\* through the relay if none does (best_endpoint, expire_probes).
PathSettles == part = "direct" /\ DirectFairness => DirectPart!PathSettles

\* Two renewals in a row may fail and a PCP or NAT-PMP mapping still exists
\* (Mapping::renew every 1800 s of a lease of 7200 s).
LeaseHeld == part = "mapping" => MappingPart!LeaseHeld

\* After a restart of the router or lost renewals the advertised mapping exists
\* again, at the address that the router has then.
MappingRecovers == part = "mapping" /\ MappingFairness => MappingPart!MappingRecovers
=============================================================================
