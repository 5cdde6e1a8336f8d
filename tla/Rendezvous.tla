---------------------------- MODULE Rendezvous ----------------------------
(***************************************************************************)
(* Registration at a Root or a Relay: the agents of one network            *)
(* (meshlaked, run_relay_worker), one service (meshlake-root or            *)
(* meshlake-relay) and the datagrams between them, which may be lost,      *)
(* duplicated, delayed and reordered.                                      *)
(*                                                                         *)
(* Time is a count of ticks.  Every deadline of the code is kept as the    *)
(* number of ticks that are left of it: what the code keeps while          *)
(* `elapsed <= Ttl' starts at Ttl + 1, what it keeps while                 *)
(* `elapsed < Ttl' starts at Ttl, and 0 means that it is gone.  The code   *)
(* sweeps its tables when the next packet or scan comes, before it looks   *)
(* at them; a tick drops the entries as they expire, which nobody can tell *)
(* apart.                                                                  *)
(*                                                                         *)
(* The controller's part is a roster: the members of each authorization    *)
(* epoch.  Epoch hints, which the service passes on, only wake an agent's  *)
(* refresh early; here an agent refreshes whenever it likes (Refresh).     *)
(***************************************************************************)
EXTENDS Integers, FiniteSets

CONSTANTS
    Device,
    Nonce,              \* registration nonces; one is drawn again only when
                        \* nothing holds it any more
    Epoch,              \* authorization epochs 0..Epoch
    World,              \* what the controller may have in store: the members
                        \* that each epoch authorizes (roster), the virtual
                        \* addresses of each device's certificate (address);
                        \* and, as a bound, how often the service restarts
    Lease,              \* life of an authorization manifest
    TransactionTtl,     \* TRANSPORT_TRANSACTION_TTL
    HealthTtl,          \* RELAY_ACKNOWLEDGEMENT_TTL
    RootTtl,            \* ROOT_RESPONSE_TTL
    DirectoryTtl,       \* PEER_DIRECTORY_TTL
    PeerTtl,            \* PEER_TTL
    NonceTtl,           \* REGISTRATION_NONCE_TTL
    Skew,               \* maximum clock skew of a registration
    ClockError,         \* how far the devices' clocks may be behind (or, below
                        \* zero, ahead of) the service's
    AckLife,            \* life of a signed acknowledgement
    BaseDelay,          \* REGISTRATION_BASE_DELAY
    MaxDelay,           \* REGISTRATION_MAX_DELAY
    MaxExponent         \* cap of the back-off exponent

ASSUME RendezvousAssumption ==
    /\ Epoch \in Nat /\ MaxExponent \in Nat
    /\ Skew \in Nat /\ NonceTtl \in Nat /\ PeerTtl \in Nat
    /\ Lease \in Nat /\ DirectoryTtl \in Nat
    /\ {TransactionTtl, HealthTtl, RootTtl, AckLife} \subseteq Nat \ {0}
    /\ {BaseDelay, MaxDelay} \subseteq Nat \ {0}
    /\ \A w \in World : /\ w.roster \in [0..Epoch -> SUBSET Device]
                        /\ DOMAIN w.address = Device
                        /\ w.restarts \in Nat
    /\ ClockError \subseteq -Skew..Skew

\* The relations between the constants that make the protocol work: a nonce
\* is remembered for as long as its registration can be fresh, and a relay
\* remembers a device for as long as the device can think it does.
ASSUME DeadlineAssumption ==
    /\ 2 * Skew <= NonceTtl
    /\ TransactionTtl + HealthTtl <= PeerTtl + 2

VARIABLES
    kind,           \* the service: "root" or "relay"
    world,          \* what happens around the protocol
    epoch,          \* the controller's authorization epoch
    known, lease,   \* the manifest each agent holds: its epoch, its life
    schedule,       \* RegistrationSchedule of each agent
    transaction,    \* the registration each agent waits for
    health,         \* EndpointHealthTable: life of the last confirmation
    directory,      \* PeerRoute: life of the directory entry of each peer
    peers,          \* the service's PeerRecords
    seen,           \* the service's seen_nonces
    registrations, responses, identities,  \* datagrams that may still arrive
    applied,        \* history: how often each registration was entered
    gone,           \* history: why the service dropped a device
    restarts        \* how often the service has restarted

agents == <<known, lease, schedule, transaction, health, directory>>
service == <<peers, seen, applied, gone>>
network == <<registrations, responses, identities>>
vars == <<kind, world, epoch, agents, service, network, restarts>>

None == "none"
Least(m, n) == IF m <= n THEN m ELSE n
Down(n) == IF n = 0 THEN 0 ELSE n - 1

Roster == world.roster
Address == world.address

Registered(d) == peers[d].left > 0
Healthy(d) == health[d] > 0
Authorized(d, e) == lease[d] > 0 /\ e \in Roster[known[d]]

NewSchedule == [failures |-> 0, awaiting |-> FALSE, left |-> 0]
NoTransaction == [nonce |-> None, left |-> 0]
NoRecord == [left |-> 0, by |-> "lease"]
NoPeers == [e \in Device |-> 0]

----------------------------------------------------------------------------
\* The agent's registration schedule (transport_health.rs).

\* Exponential back-off, with up to a quarter of jitter.
registration_retry_delay(failures) ==
    LET exponent == Least(failures, MaxExponent)
        base == Least(BaseDelay * 2^exponent, MaxDelay)
        limit == IF base \div 4 >= 1 THEN base \div 4 ELSE 1
    IN  {Least(base + jitter, MaxDelay) : jitter \in 0..limit}

schedule_next(failures) ==
    {[failures |-> failures, awaiting |-> FALSE, left |-> delay] :
        delay \in registration_retry_delay(failures)}

\* The code's counter saturates at u8::MAX; this one counts no further than
\* the exponent follows it.
mark_send_failure(s) == schedule_next(Least(s.failures + 1, MaxExponent))
mark_success(s) == schedule_next(0)
mark_sent(s) == [s EXCEPT !.awaiting = TRUE, !.left = TransactionTtl]
is_due(s) == ~s.awaiting /\ s.left = 0
timed_out(s) == s.awaiting /\ s.left = 0

----------------------------------------------------------------------------
\* The agent.

Fresh == {n \in Nonce : /\ seen[n] = 0
                        /\ \A d \in Device : transaction[d].nonce # n
                        /\ \A m \in registrations : m.nonce # n
                        /\ \A r \in responses : r.nonce # n}

\* The registration scan finds that an answer is overdue, ...
TimeOut(d) ==
    /\ lease[d] > 0
    /\ timed_out(schedule[d])
    /\ \E s \in mark_send_failure(schedule[d]) :
          schedule' = [schedule EXCEPT ![d] = s]
    /\ UNCHANGED <<kind, world, epoch, known, lease, transaction, health, directory,
                   service, network, restarts>>

\* ... that a registration is due and can be sent, whatever the clock of
\* the device says, ...
Register(d) ==
    /\ lease[d] > 0
    /\ is_due(schedule[d])
    /\ \E n \in Fresh, lag \in ClockError :
          /\ transaction' = [transaction EXCEPT ![d] =
                                [nonce |-> n, left |-> TransactionTtl]]
          /\ registrations' = registrations \cup
                {[device |-> d, nonce |-> n, lag |-> lag, lease |-> lease[d]]}
          /\ applied' = [applied EXCEPT ![n] = 0]
    /\ schedule' = [schedule EXCEPT ![d] = mark_sent(@)]
    /\ UNCHANGED <<kind, world, epoch, known, lease, health, directory, peers, seen,
                   gone, responses, identities, restarts>>

\* ... or that it is due and the socket refuses it.
RegisterFails(d) ==
    /\ lease[d] > 0
    /\ is_due(schedule[d])
    /\ \E s \in mark_send_failure(schedule[d]) :
          schedule' = [schedule EXCEPT ![d] = s]
    /\ transaction' = [transaction EXCEPT ![d] = NoTransaction]
    /\ UNCHANGED <<kind, world, epoch, known, lease, health, directory, service,
                   network, restarts>>

\* update_peer_membership: an entry of the directory is refused when its
\* addresses are the agent's own or those of another entry.
Admits(d, e) ==
    /\ e # d
    /\ Authorized(d, e)
    /\ Address[e] \cap Address[d] = {}
    /\ \A f \in Device \ {e} :
          directory[d][f] > 0 => Address[e] \cap Address[f] = {}

\* What the service names together it holds together, so that the entries of
\* one answer never exclude each other.
Learn(d, found) ==
    directory' = [directory EXCEPT ![d] =
        [e \in Device |-> IF e \in found /\ Admits(d, e)
                          THEN DirectoryTtl + 1 ELSE @[e]]]

\* An answer is taken when a transaction waits for it, and then only once;
\* whether the device's clock finds a Relay's answer fresh is left open.
\* The Root's refusal is an answer too: it ends the transaction and leaves
\* the schedule to run into its timeout.
Answered(d, r) ==
    /\ r.device = d
    /\ transaction[d].nonce = r.nonce
    /\ transaction[d].left > 0
    /\ transaction' = [transaction EXCEPT ![d] = NoTransaction]
    /\ \/ /\ r.ok
          /\ \E s \in mark_success(schedule[d]) :
                schedule' = [schedule EXCEPT ![d] = s]
          /\ health' = [health EXCEPT ![d] =
                IF kind = "root" THEN RootTtl ELSE HealthTtl]
          /\ Learn(d, r.found)
       \/ ~r.ok /\ UNCHANGED <<schedule, health, directory>>
    /\ UNCHANGED <<kind, world, epoch, known, lease, service, network, restarts>>

\* A Relay's announcement of a member that registered.
Introduced(d, e) ==
    /\ \E i \in identities : i.to = d /\ i.about = e
    /\ Admits(d, e)
    /\ Learn(d, {e})
    /\ UNCHANGED <<kind, world, epoch, known, lease, schedule, transaction, health,
                   service, network, restarts>>

\* A reload ends the worker, and with it everything the worker knew.
Reload(d) ==
    /\ schedule' = [schedule EXCEPT ![d] = NewSchedule]
    /\ transaction' = [transaction EXCEPT ![d] = NoTransaction]
    /\ health' = [health EXCEPT ![d] = 0]
    /\ directory' = [directory EXCEPT ![d] = NoPeers]

\* A bug: only a revocation reloads
RefreshQuietly(d) ==
    /\ known' = [known EXCEPT ![d] = epoch]
    /\ lease' = [lease EXCEPT ![d] = IF d \in Roster[epoch]
                                     THEN Lease + 1 ELSE 0]
    /\ <<known', lease'>> # <<known, lease>>
    /\ IF d \notin Roster[epoch]
       THEN Reload(d)
       ELSE UNCHANGED <<schedule, transaction, health, directory>>
    /\ UNCHANGED <<kind, world, epoch, service, network, restarts>>

\* The agent enrols, or refreshes its authorization: a manifest of another
\* epoch reloads the transport, and so does a revocation.
Refresh(d) ==
    /\ known' = [known EXCEPT ![d] = epoch]
    /\ lease' = [lease EXCEPT ![d] = IF d \in Roster[epoch]
                                     THEN Lease + 1 ELSE 0]
    /\ <<known', lease'>> # <<known, lease>>
    /\ IF known[d] # epoch \/ d \notin Roster[epoch]
       THEN Reload(d)
       ELSE UNCHANGED <<schedule, transaction, health, directory>>
    /\ UNCHANGED <<kind, world, epoch, service, network, restarts>>

----------------------------------------------------------------------------
\* The service.

\* A registration is signed, fresh by the service's clock, and comes with a
\* manifest that has not expired and lists the device.
verify_membership(m) == m.lag \in -Skew..Skew
verify_authorization_set(m) == m.lease > 0
Verified(m) == verify_membership(m) /\ verify_authorization_set(m)

Conflict(d) == \E e \in Device \ {d} :
                  Registered(e) /\ Address[d] \cap Address[e] # {}

Others(d) == {e \in Device \ {d} : Registered(e)}

\* A bug: a nonce is remembered for the skew in one direction only
SeenForSkew == Skew + 1
SeenFor == NonceTtl + 1

\* A bug: the record of a known device is kept as it is
EnterOnlyNew(m) ==
    /\ peers' = [peers EXCEPT ![m.device] =
                    IF @.left > 0 THEN @
                    ELSE [left |-> Least(PeerTtl + 1, m.lease),
                          by |-> IF m.lease <= PeerTtl THEN "lease" ELSE "age"]]
    /\ applied' = [applied EXCEPT ![m.nonce] = @ + 1]
    /\ gone' = [gone EXCEPT ![m.device] = "never"]

\* The record lives for PEER_TTL, or until the manifest it came with expires.
Enter(m) ==
    /\ peers' = [peers EXCEPT ![m.device] =
                    [left |-> Least(PeerTtl + 1, m.lease),
                     by |-> IF m.lease <= PeerTtl THEN "lease" ELSE "age"]]
    /\ applied' = [applied EXCEPT ![m.nonce] = @ + 1]
    /\ gone' = [gone EXCEPT ![m.device] = "never"]

Response(m, ok, found) ==
    [device |-> m.device, nonce |-> m.nonce, ok |-> ok, found |-> found,
     left |-> IF kind = "root" THEN TransactionTtl ELSE AckLife]

\* process_registration: the Root answers whatever happens, and names the
\* members it knows.
RootReceives(m) ==
    /\ kind = "root"
    /\ Verified(m)
    /\ seen' = [seen EXCEPT ![m.nonce] = SeenFor]
    /\ \/ /\ seen[m.nonce] > 0 \/ Conflict(m.device)
          /\ responses' = responses \cup {Response(m, FALSE, {})}
          /\ UNCHANGED <<peers, applied, gone>>
       \/ /\ seen[m.nonce] = 0 /\ ~Conflict(m.device)
          /\ Enter(m)
          /\ responses' = responses \cup {Response(m, TRUE, Others(m.device))}
    /\ UNCHANGED <<kind, world, epoch, agents, registrations, identities,
                   restarts>>

\* handle_packet: the Relay is silent about what it refuses, and introduces
\* the members to each other.
RelayReceives(m) ==
    /\ kind = "relay"
    /\ Verified(m)
    /\ seen' = [seen EXCEPT ![m.nonce] = SeenFor]
    /\ \/ /\ seen[m.nonce] > 0 \/ Conflict(m.device)
          /\ UNCHANGED <<peers, applied, gone, responses, identities>>
       \/ /\ seen[m.nonce] = 0 /\ ~Conflict(m.device)
          /\ Enter(m)
          /\ responses' = responses \cup {Response(m, TRUE, {})}
          /\ identities' = identities
                \cup {[to |-> e, about |-> m.device] : e \in Others(m.device)}
                \cup {[to |-> m.device, about |-> e] : e \in Others(m.device)}
    /\ UNCHANGED <<kind, world, epoch, agents, registrations, restarts>>

Receives(m) == RootReceives(m) \/ RelayReceives(m)

\* The tables are in memory only.
Restart ==
    /\ restarts < world.restarts
    /\ restarts' = restarts + 1
    /\ peers' = [d \in Device |-> NoRecord]
    /\ seen' = [n \in Nonce |-> 0]
    /\ applied' = [n \in Nonce |-> 0]
    /\ gone' = [d \in Device |-> IF Registered(d) THEN "restart" ELSE gone[d]]
    /\ UNCHANGED <<kind, world, epoch, agents, network>>

----------------------------------------------------------------------------
\* The controller authorizes the next roster.
Publish ==
    /\ epoch < Epoch
    /\ epoch' = epoch + 1
    /\ UNCHANGED <<kind, world, agents, service, network, restarts>>

\* Time passes.  An agent whose manifest runs out forgets its peers and its
\* registration schedule; a registration that can no longer be fresh, or an
\* answer that can no longer be taken, is gone.
Tick ==
    /\ lease' = [d \in Device |-> Down(lease[d])]
    /\ schedule' = [d \in Device |->
           IF lease'[d] = 0 THEN NewSchedule
           ELSE [schedule[d] EXCEPT !.left = Down(@)]]
    /\ transaction' = [d \in Device |->
           IF transaction[d].left <= 1 THEN NoTransaction
           ELSE [transaction[d] EXCEPT !.left = @ - 1]]
    /\ health' = [d \in Device |-> Down(health[d])]
    /\ directory' = [d \in Device |->
           IF lease'[d] = 0 THEN NoPeers
           ELSE [e \in Device |-> Down(directory[d][e])]]
    /\ peers' = [d \in Device |->
           IF peers[d].left <= 1 THEN NoRecord
           ELSE [peers[d] EXCEPT !.left = @ - 1]]
    /\ gone' = [d \in Device |->
           IF peers[d].left = 1 THEN peers[d].by ELSE gone[d]]
    /\ seen' = [n \in Nonce |-> Down(seen[n])]
    /\ registrations' = {[m EXCEPT !.lag = @ + 1, !.lease = @ - 1] :
           m \in {m \in registrations : m.lag < Skew /\ m.lease > 1}}
    /\ responses' = {[r EXCEPT !.left = @ - 1] :
           r \in {r \in responses : r.left > 1}}
    /\ identities' = {}
    /\ applied' = [n \in Nonce |->
           IF \E m \in registrations' : m.nonce = n THEN applied[n] ELSE 0]
    /\ UNCHANGED <<kind, world, epoch, known, restarts>>

----------------------------------------------------------------------------
Init ==
    /\ kind \in {"root", "relay"}
    /\ world \in World
    /\ epoch = 0
    /\ known = [d \in Device |-> 0]
    /\ lease = [d \in Device |-> IF d \in Roster[0] THEN Lease + 1 ELSE 0]
    /\ schedule = [d \in Device |-> NewSchedule]
    /\ transaction = [d \in Device |-> NoTransaction]
    /\ health = [d \in Device |-> 0]
    /\ directory = [d \in Device |-> NoPeers]
    /\ peers = [d \in Device |-> NoRecord]
    /\ seen = [n \in Nonce |-> 0]
    /\ registrations = {}
    /\ responses = {}
    /\ identities = {}
    /\ applied = [n \in Nonce |-> 0]
    /\ gone = [d \in Device |-> "never"]
    /\ restarts = 0

Next ==
    \/ \E d \in Device : TimeOut(d) \/ Register(d) \/ RegisterFails(d)
    \/ \E d \in Device, r \in responses : Answered(d, r)
    \/ \E d, e \in Device : Introduced(d, e)
    \/ \E d \in Device : Refresh(d)
    \/ \E m \in registrations : Receives(m)
    \/ Restart
    \/ Publish
    \/ Tick

Spec == Init /\ [][Next]_vars

----------------------------------------------------------------------------
\* A signed registration is entered at most once, however often the network
\* delivers it and however far the device's clock is off: REGISTRATION_NONCE_TTL
\* outlives the skew that makes it acceptable, in both directions.
EnteredOnce == \A n \in Nonce : applied[n] <= 1

\* A relay that an agent takes for healthy, and routes packets to, has not let
\* the agent's registration lapse: it lost it by a restart at most, or because
\* the manifest in it ran out.
HealthyIsHeld ==
    kind = "relay" =>
        \A d \in Device :
            Healthy(d) => Registered(d) \/ gone[d] \in {"restart", "lease"}

\* A removed member is out of an agent's directory as soon as the agent holds
\* a manifest without it: no datagram from before brings it back.
DirectoryAuthorized ==
    \A d, e \in Device : directory[d][e] > 0 => e \in Roster[known[d]]

============================================================================
