----------------------------- MODULE MCGateway -----------------------------
(***************************************************************************)
(* The safety of a machine in the overlay, each part on an instance of its *)
(* own: the handshakes it answers, the packets it sends, accepts and       *)
(* forwards, the rules on its host, and the backups of its state files.  A *)
(* behaviour is one of one part; the others rest in an initial state.      *)
(***************************************************************************)
EXTENDS Integers, Sequences, Backup

VARIABLES part,
    sess, seen, dir, lease, psk, reload, clock, net, fresh, nextPacket,
    sealed, injected, budget,
    published, view, choice, flight, out, got, changes, started,
    platform, want, host, crashes

\* Two devices whose clocks lie Skew apart; datagrams may be delivered again at
\* any time, and a lease or a directory entry may lapse once.
Device == {1, 2}
Apart == <<2, 0>>
HandshakePart == INSTANCE Session WITH
    Offset <- Apart, Skew <- 2, ReplayTtl <- 5, SeenCap <- 4, PendingTtl <- 9,
    SessionTtl <- 9, RetryInterval <- 9, QueueCapacity <- 1, WindowSize <- 2,
    MaxSequence <- 2, InOrder <- FALSE, Duplicates <- TRUE, MaxLosses <- 0,
    MaxFresh <- 3, MaxPackets <- 2, MaxClock <- 6, MaxReloads <- 0, MaxLapses <- 1

\* "g" is a member of both networks and may be a gateway in each; "m" and "k"
\* are members of one.  The private route of the second lies within that of
\* the first.
Net(base, len) == [base |-> base, len |-> len]
Overlay == [n1 |-> Net(0, 2), n2 |-> Net(4, 2)]
Address == [n1 |-> [m |-> 1, g |-> 2], n2 |-> [k |-> 5, g |-> 6]]
Policy(routes, exits) == [routes |-> routes, exits |-> exits, allowed |-> [g |-> {Net(8, 1)}]]
Policies ==
    [n1 |-> {Policy({}, {"g", "m"}), Policy({[prefix |-> Net(8, 1), gateway |-> "g"]}, {})},
     n2 |-> {Policy({[prefix |-> Net(12, 2), gateway |-> "g"]}, {})}]
Networks == {"n1", "n2"}
Devices == {"m", "g", "k"}
Destinations == {1, 13}
RoutePart == INSTANCE PacketRoute WITH Bits <- 4, MaxChanges <- 1, MaxPackets <- 2
ASSUME RouteAssumption == None \notin Devices

\* One network may use an exit, with or without the kill switch; the other may
\* use this device as its gateway.
Profiles == [n1 |-> {{"in"}, {"in", "exit"}, {"in", "exit", "kill"}},
             n2 |-> {{"in"}, {"in", "gateway"}}]
Platforms == {[os |-> "linux", keeps |-> FALSE], [os |-> "windows", keeps |-> TRUE]}
Relays == {"r1", "r2"}
HostPart == INSTANCE Host WITH Nets <- Networks, MaxFailures <- 1, MaxCrashes <- 1

handshakeVars == <<sess, seen, dir, lease, psk, reload, clock, net, fresh,
    nextPacket, sealed, injected, budget>>
routeVars == <<published, view, choice, flight, out, got, changes, started>>
hostVars == <<platform, want, host, crashes>>

HandshakeRests == HandshakePart!Init
RouteRests == RoutePart!Init /\ published["n1"].policy.routes = {}
HostRests == HostPart!Init /\ platform.os = "linux"
BackupRests == Init /\ file["agent"] = None

GatewayInit ==
    \/ part = "handshake" /\ HandshakePart!Init
       /\ RouteRests /\ HostRests /\ BackupRests
    \/ part = "route" /\ RoutePart!Init
       /\ HandshakeRests /\ HostRests /\ BackupRests
    \/ part = "host" /\ HostPart!Init
       /\ HandshakeRests /\ RouteRests /\ BackupRests
    \/ part = "backup" /\ Init
       /\ HandshakeRests /\ RouteRests /\ HostRests

GatewayNext ==
    /\ UNCHANGED part
    /\ \/ /\ part = "handshake" /\ HandshakePart!Next
          /\ UNCHANGED <<routeVars, hostVars, vars>>
       \/ /\ part = "route" /\ RoutePart!Next
          /\ UNCHANGED <<handshakeVars, hostVars, vars>>
       \/ /\ part = "host" /\ HostPart!Next
          /\ UNCHANGED <<handshakeVars, routeVars, vars>>
       \/ /\ part = "backup" /\ Next
          /\ UNCHANGED <<handshakeVars, routeVars, hostVars>>

gatewayVars == <<part, handshakeVars, routeVars, hostVars, vars>>

GatewaySpec == GatewayInit /\ [][GatewayNext]_gatewayVars

-----------------------------------------------------------------------------
\* While its worker lives, a device answers a handshake once, however late it
\* is delivered again (seen_handshakes, HANDSHAKE_REPLAY_TTL).
AnsweredOnce == part = "handshake" => HandshakePart!AnsweredOnce

\* A packet leaves the overlay only under the address of the member that sent
\* it: a gateway forwards nothing from beyond another gateway
\* (outbound_route_for_ip_packet, packet_is_authorized_for_delivery).
NoTransit == part = "route" => RoutePart!NoTransit

\* What a member sends its target accepts, the answer to a packet that left the
\* overlay finds the way back, and it reaches no other network
\* (peer_targets_for_packet, packet_is_authorized_for_delivery).
RoundTrip == part = "route" => RoutePart!RoundTrip

\* While the adapter is up and a kill switch is asked for, the rule that blocks
\* the physical network is installed (configure_exit_selection).
ProtectedWhileActive == part = "host" => HostPart!ProtectedWhileActive

\* The system has exactly the rules of the plans that are on record, unless a
\* command failed or the agent was killed (apply_policy_transaction).
RulesMatchRecord == part = "host" => HostPart!RulesMatchRecord
=============================================================================
