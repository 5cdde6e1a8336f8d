------------------------------ MODULE Fallback ------------------------------
(***************************************************************************)
(* The way of an encrypted frame from an agent through its relay: which    *)
(* path send_peer_routed_packet chooses, over which paths registrations    *)
(* and their acknowledgements travel, and from which endpoint the relay    *)
(* takes frames (meshlaked, run_relay_worker; meshlake-relay,              *)
(* handle_packet).                                                         *)
(*                                                                         *)
(* A tick is about REGISTRATION_BASE_DELAY; a datagram arrives within the  *)
(* tick or is lost.  The relay sees a client at another endpoint on every  *)
(* path, and at a new one after each reconnection (`gen').  Which paths    *)
(* the network lets through (`up') is fixed; a firewall drops what it does *)
(* not let through without telling the sender.                             *)
(***************************************************************************)
EXTENDS Integers, FiniteSets

CONSTANTS
    Worlds,             \* sets of the paths that may be up together
    Policies,           \* RelayPolicy of the network
    HealthTtl,          \* RELAY_ACKNOWLEDGEMENT_TTL
    PeerTtl,            \* PEER_TTL
    TransactionTtl,     \* TRANSPORT_TRANSACTION_TTL
    MaxDelay,           \* REGISTRATION_MAX_DELAY
    MaxLosses, MaxReconnects, MaxRestarts      \* bounds

Path == {"udp", "turn", "turn_tls", "tls"}
Tunnel == Path \ {"udp"}                \* reached over a connection of its own
NoEndpoint == [path |-> "none", gen |-> 0]

VARIABLES
    up,             \* the paths the network lets through
    policy,         \* RelayPolicy
    authenticated,  \* the Planet manifest has version 3 or later; TLS relays
                    \* come with version 4, TURN with version 5
    direct,         \* best_endpoint finds a direct candidate
    ready,          \* tunnels that are allocated or connected
    gen,            \* how often each path was connected anew
    schedule,       \* RegistrationSchedule of the relay
    transaction,    \* the nonce of the registration that is waited for
    health,         \* life of the relay's last acknowledgement
    net,            \* datagrams under way
    peer,           \* the relay's PeerRecord: endpoint and life
    seen,           \* the relay's seen_nonces
    last,           \* what became of the last frame
    spent           \* losses, reconnections and restarts so far

agent == <<direct, ready, gen, schedule, transaction, health>>
relay == <<peer, seen>>
vars == <<up, policy, authenticated, agent, net, relay, last, spent>>

Nonce == {1, 2}
Down(n) == IF n = 0 THEN 0 ELSE n - 1
Endpoint(p) == [path |-> p, gen |-> gen[p]]
Held == IF peer.left > 0 THEN peer.endpoint ELSE NoEndpoint

\* A datagram on a path that the network does not let through is lost at
\* once; the sender is not told.
Arriving(ms) == {m \in ms : m.from.path \in up}

Delay(failures) == LET d == 2^failures IN IF d <= MaxDelay THEN d ELSE MaxDelay
Scheduled(failures) == [failures |-> failures, awaiting |-> FALSE, left |-> Delay(failures)]

-----------------------------------------------------------------------------
\* The choice of a path.

relay_is_healthy == health > 0

\* select_relay_endpoint: an unauthenticated relay is tried on trust.
select_relay_endpoint == relay_is_healthy \/ ~authenticated

\* The socket takes any datagram; a tunnel only when it is ready.
try_send(p) == p \in ready

\* The order is fixed: the direct path, UDP TURN, TURN over TLS, the UDP
\* relay, and the TLS relay.  The first one that takes the frame has it.
send_peer_routed_packet ==
    IF policy # "required" /\ direct THEN "direct"
    ELSE IF policy = "disabled" THEN "none"
    ELSE IF try_send("turn") THEN "turn"
    ELSE IF try_send("turn_tls") THEN "turn_tls"
    ELSE IF select_relay_endpoint THEN "udp"
    ELSE IF try_send("tls") THEN "tls"
    ELSE "none"

\* A registration goes out over UDP, UDP TURN and the TLS relay at once, as
\* copies of one message; not over TURN by TLS.
RegistrationPaths == {"udp"} \cup (ready \cap {"turn", "tls"})

-----------------------------------------------------------------------------
\* The agent.

Init ==
    /\ up \in Worlds
    /\ policy \in Policies
    /\ authenticated \in (IF up \subseteq {"udp"} THEN BOOLEAN ELSE {TRUE})
    /\ direct \in BOOLEAN
    /\ ready = {}
    /\ gen = [p \in Path |-> 0]
    /\ schedule = [failures |-> 0, awaiting |-> FALSE, left |-> 0]
    /\ transaction = 0
    /\ health = 0
    /\ net = {}
    /\ peer = [endpoint |-> NoEndpoint, left |-> 0]
    /\ seen = {}
    /\ last = "none"
    /\ spent = [loss |-> 0, reconnect |-> 0, restart |-> 0]

\* The registration scan: the answer is overdue, ...
TimeOut ==
    /\ schedule.awaiting /\ schedule.left = 0
    /\ schedule' = Scheduled(IF schedule.failures < 3 THEN schedule.failures + 1 ELSE 3)
    /\ UNCHANGED <<up, policy, authenticated, direct, ready, gen, transaction, health, net,
                   relay, last, spent>>

\* ... or a registration is due; it replaces the transaction before it.
Register ==
    /\ ~schedule.awaiting /\ schedule.left = 0
    /\ \E n \in Nonce \ (seen \cup {transaction} \cup {m.nonce : m \in net}) :
          /\ transaction' = n
          /\ net' = net \cup Arriving({[kind |-> "registration", nonce |-> n, from |-> Endpoint(p)] :
                                          p \in RegistrationPaths})
    /\ schedule' = [schedule EXCEPT !.awaiting = TRUE, !.left = TransactionTtl]
    /\ UNCHANGED <<up, policy, authenticated, direct, ready, gen, health, relay, last, spent>>

\* An acknowledgement is taken from any path: all of them show the address
\* of the relay as the sender.  A transaction is answered once.
Acknowledges(m) == m.nonce = transaction

ReceiveAcknowledgement ==
    \E m \in net :
       /\ m.kind = "acknowledgement"
       /\ net' = net \ {m}
       /\ IF Acknowledges(m)
            THEN /\ transaction' = 0
                 /\ health' = HealthTtl
                 /\ schedule' = Scheduled(0)
            ELSE UNCHANGED <<transaction, health, schedule>>
       /\ UNCHANGED <<up, policy, authenticated, direct, ready, gen, relay, last, spent>>

\* A packet is read from the adapter and sealed; one frame is followed at a
\* time.
SendFrame ==
    /\ ~\E m \in net : m.kind = "frame"
    /\ LET p == send_peer_routed_packet IN
         IF p \in Path
           THEN /\ net' = net \cup Arriving({[kind |-> "frame", nonce |-> 0, from |-> Endpoint(p)]})
                /\ last' = IF p \in up THEN last ELSE "lost"
           ELSE net' = net /\ last' = p
    /\ UNCHANGED <<up, policy, authenticated, agent, relay, spent>>

\* A tunnel's connection or allocation is set up, ...
Connect(p) ==
    /\ p \in Tunnel \ ready /\ p \in up
    /\ ready' = ready \cup {p}
    /\ UNCHANGED <<up, policy, authenticated, direct, gen, schedule, transaction, health, net,
                   relay, last, spent>>

\* ... and lost, with what was under way; the next one has a new endpoint.
Disconnect(p) ==
    /\ p \in ready
    /\ spent.reconnect < MaxReconnects
    /\ spent' = [spent EXCEPT !.reconnect = @ + 1]
    /\ ready' = ready \ {p}
    /\ gen' = [gen EXCEPT ![p] = @ + 1]
    /\ net' = {m \in net : m.from.path # p}
    /\ UNCHANGED <<up, policy, authenticated, direct, schedule, transaction, health, relay, last>>

\* The last direct candidate falls silent.
DirectFails ==
    /\ direct
    /\ direct' = FALSE
    /\ UNCHANGED <<up, policy, authenticated, ready, gen, schedule, transaction, health, net,
                   relay, last, spent>>

-----------------------------------------------------------------------------
\* The relay.

\* The first copy of a registration that arrives decides at which endpoint
\* the relay holds the device; the others are replays of its nonce.
\* A bug: a nonce is entered as often as it comes, and nothing is answered
EnterWithoutAnswer(m) ==
    /\ peer' = [endpoint |-> m.from, left |-> PeerTtl]
    /\ seen' = seen \cup {m.nonce}
    /\ net' = net \ {m}
Enter(m) ==
    IF m.nonce \in seen
      THEN net' = net \ {m} /\ UNCHANGED <<peer, seen>>
      ELSE /\ peer' = [endpoint |-> m.from, left |-> PeerTtl]
           /\ seen' = seen \cup {m.nonce}
           /\ net' = (net \ {m}) \cup {[m EXCEPT !.kind = "acknowledgement"]}

RelayRegistration ==
    \E m \in net :
       /\ m.kind = "registration"
       /\ Enter(m)
       /\ UNCHANGED <<up, policy, authenticated, agent, last, spent>>

\* A frame is forwarded only if it comes from the endpoint held.
RelayFrame ==
    \E m \in net :
       /\ m.kind = "frame"
       /\ net' = net \ {m}
       /\ last' = IF Held = m.from THEN "forwarded" ELSE "discarded"
       /\ UNCHANGED <<up, policy, authenticated, agent, relay, spent>>

RelayRestart ==
    /\ spent.restart < MaxRestarts
    /\ spent' = [spent EXCEPT !.restart = @ + 1]
    /\ peer' = [endpoint |-> NoEndpoint, left |-> 0]
    /\ seen' = {}
    /\ UNCHANGED <<up, policy, authenticated, agent, net, last>>

-----------------------------------------------------------------------------
\* Time and the network.

Lose ==
    /\ spent.loss < MaxLosses
    /\ \E m \in net : net' = net \ {m}
    /\ spent' = [spent EXCEPT !.loss = @ + 1]
    /\ UNCHANGED <<up, policy, authenticated, agent, relay, last>>

\* What is under way arrives first, and the scan runs every 250 ms.  A nonce
\* outlives all copies of its registration, and is then of no more use.
Tick ==
    /\ net = {}
    /\ schedule.left > 0
    /\ schedule' = [schedule EXCEPT !.left = @ - 1]
    /\ health' = Down(health)
    /\ peer' = [peer EXCEPT !.left = Down(@)]
    /\ seen' = {}
    /\ UNCHANGED <<up, policy, authenticated, direct, ready, gen, transaction, net, last, spent>>

Next ==
    \/ TimeOut \/ Register \/ ReceiveAcknowledgement \/ SendFrame
    \/ \E p \in Tunnel : Connect(p) \/ Disconnect(p)
    \/ DirectFails \/ RelayRegistration \/ RelayFrame \/ RelayRestart \/ Lose \/ Tick

\* The worker's loop, the tunnels' reconnection and the relay go on; frames
\* are sent now and then.
Fairness ==
    /\ WF_vars(TimeOut) /\ WF_vars(Register) /\ WF_vars(ReceiveAcknowledgement)
    /\ SF_vars(SendFrame) /\ WF_vars(RelayRegistration) /\ WF_vars(RelayFrame) /\ SF_vars(Tick)
    /\ \A p \in Tunnel : WF_vars(Connect(p))

Spec == Init /\ [][Next]_vars
FairSpec == Spec /\ Fairness

-----------------------------------------------------------------------------
\* While some path to the relay is up, frames keep arriving: whatever was
\* lost, reconnected or restarted, the agent comes back to a path on which
\* the relay takes its frames (send_peer_routed_packet in meshlaked and
\* handle_packet in the relay; nat-traversal.md promises the fall-back).
FramesGetThrough == policy # "disabled" => []<>(last \in {"direct", "forwarded"})
=============================================================================
