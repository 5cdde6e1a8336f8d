----------------------------- MODULE PortMapping -----------------------------
(***************************************************************************)
(* The endpoints a transport worker advertises for itself: one mapping at  *)
(* the router (PCP, else NAT-PMP, else UPnP), renewed every half hour, and *)
(* the addresses that STUN servers report.  The router may restart, lose   *)
(* its mappings and get another public address.                            *)
(***************************************************************************)
EXTENDS Integers, FiniteSets

CONSTANTS
    Supported,      \* the sets of protocols a router may speak
    Mobile,         \* those of routers whose public address may change
    Wans,           \* public addresses of the router
    Reported,       \* endpoints that STUN servers report
    Renewal,        \* 1800 s
    Lag,            \* how late the worker's tick may come
    Lifetime,       \* per protocol: 7200 s, 7200 s and 1800 s
    Capacity,       \* of advertised_candidates, 16 in the code
    StunLife,       \* 30 s
    MaxLosses,      \* requests the router does not answer
    MaxRestarts,    \* of the router
    MaxReloads,     \* of the worker
    None

VARIABLES
    speaks, wan, lease,   \* the router: protocols, address, time left of the mapping
    protocol, held,       \* Mapping: its kind, and NatPmpMapping.external_ip
    candidate,            \* automatic_mapping_candidate
    advertised,           \* advertised_candidates
    timer,                \* time to next_port_mapping_refresh
    stun,                 \* ages of the requests to STUN servers
    failed,               \* renewals that failed in a row (history)
    losses, restarts, reloads

router == <<speaks, wan, lease>>
worker == <<protocol, held, candidate, advertised, timer, stun>>
vars == <<router, worker, failed, losses, restarts, reloads>>

Protocol == {"pcp", "natpmp", "upnp"}
Order == [pcp |-> 1, natpmp |-> 2, upnp |-> 3]

\* A mapping of PCP or NAT-PMP outlives three renewal intervals, each as late as
\* it may be: 7200 s, and 1800 s with the 5 ms of the worker's tick.
LifetimesFit ==
    /\ \A s \in Supported : s \subseteq Protocol
    /\ Renewal \in Nat /\ Lag \in Nat /\ Lifetime \in [Protocol -> Nat]
    /\ \A p \in {"pcp", "natpmp"} : Lifetime[p] > 3 * (Renewal + Lag)
    /\ None \notin Protocol

Init ==
    /\ speaks \in Supported /\ wan \in Wans /\ lease = 0
    /\ protocol = "starting" /\ held = None /\ candidate = None /\ advertised = {}
    /\ timer = Renewal /\ stun = {} /\ failed = 0
    /\ losses = 0 /\ restarts = 0 /\ reloads = 0

\* What an exchange with the router gives: the time the mapping lives, and the
\* public address.  A NAT-PMP renewal asks for the port only.
PcpMapping == [lease |-> Lifetime["pcp"], external |-> wan]
NatPmpMapping == [lease |-> Lifetime["natpmp"], external |-> wan]
NatPmpRenewal == [lease |-> Lifetime["natpmp"], external |-> held]
UpnpMapping == [lease |-> Lifetime["upnp"], external |-> wan]

Established == [pcp |-> PcpMapping, natpmp |-> NatPmpMapping, upnp |-> UpnpMapping]
Renewed == [pcp |-> PcpMapping, natpmp |-> NatPmpRenewal, upnp |-> UpnpMapping][protocol]

\* PCP first, NAT-PMP and UPnP after it.  A protocol is passed over if the
\* router does not speak it or does not answer.  When all fail there is no
\* mapping, and none is tried again before the worker is rebuilt.
establish ==
    /\ protocol = "starting"
    /\ \E unanswered \in SUBSET speaks :
          LET answered == speaks \ unanswered
              first == {p \in answered : \A q \in answered : Order[p] <= Order[q]}
              tried == {p \in unanswered : \A q \in first : Order[p] < Order[q]}
          IN  /\ unanswered = tried
              /\ losses + Cardinality(tried) <= MaxLosses
              /\ losses' = losses + Cardinality(tried)
              /\ \/ /\ first = {}
                    /\ protocol' = None
                    /\ UNCHANGED <<lease, held, candidate, advertised>>
                 \/ \E p \in first :
                       LET mapping == Established[p]
                       IN  /\ protocol' = p /\ lease' = mapping.lease
                           /\ held' = mapping.external /\ candidate' = mapping.external
                           /\ advertised' = advertised \cup {mapping.external}
    /\ timer' = Renewal /\ failed' = 0
    /\ UNCHANGED <<speaks, wan, stun, restarts, reloads>>

Due == protocol \in Protocol /\ timer <= 0

Advertised(external) ==
    LET kept == advertised \ {candidate}
    IN  IF external \in kept \/ Cardinality(kept) >= Capacity
        THEN kept ELSE kept \cup {external}

\* A bug: a renewal asks for the lifetime of a UPnP mapping
RenewBriefly ==
    /\ Due
    /\ lease' = Lifetime["upnp"]
    /\ candidate' = Renewed.external
    /\ advertised' = Advertised(Renewed.external)
    /\ timer' = Renewal /\ failed' = 0
    /\ UNCHANGED <<speaks, wan, protocol, held, stun, losses, restarts, reloads>>

\* A bug: the address that a renewal reports is not taken over
RenewInPlace ==
    /\ Due
    /\ lease' = Renewed.lease
    /\ timer' = Renewal /\ failed' = 0
    /\ UNCHANGED <<speaks, wan, protocol, held, candidate, advertised, stun,
                   losses, restarts, reloads>>

RenewOk ==
    /\ Due
    /\ lease' = Renewed.lease
    /\ candidate' = Renewed.external
    /\ advertised' = Advertised(Renewed.external)
    /\ timer' = Renewal /\ failed' = 0
    /\ UNCHANGED <<speaks, wan, protocol, held, stun, losses, restarts, reloads>>

\* The candidate stays, and half an hour passes before the next attempt.  The
\* answer may be lost after the router has renewed the mapping.
RenewFails ==
    /\ Due /\ losses < MaxLosses
    /\ losses' = losses + 1 /\ failed' = failed + 1
    /\ lease' \in {lease, Renewed.lease}
    /\ timer' = Renewal
    /\ UNCHANGED <<speaks, wan, protocol, held, candidate, advertised, stun, restarts, reloads>>

-----------------------------------------------------------------------------
(* STUN *)

\* next_stun_refresh; at most one request is under way in the model
StunRequest ==
    /\ protocol # "starting" /\ stun = {}
    /\ stun' = {0}
    /\ UNCHANGED <<router, protocol, held, candidate, advertised, timer, failed,
                   losses, restarts, reloads>>

\* A success response with the number of a request younger than 30 s.
StunResponse(endpoint) ==
    /\ stun # {}
    /\ stun' = {}
    /\ advertised' = IF (\A age \in stun : age < StunLife)
                        /\ Cardinality(advertised) < Capacity
                     THEN advertised \cup {endpoint} ELSE advertised
    /\ UNCHANGED <<router, protocol, held, candidate, timer, failed, losses, restarts, reloads>>

-----------------------------------------------------------------------------
Tick ==
    /\ timer > -Lag /\ protocol # "starting"
    /\ timer' = IF protocol = None THEN timer ELSE timer - 1
    /\ lease' = IF lease > 0 THEN lease - 1 ELSE 0
    /\ stun' = {age + 1 : age \in {s \in stun : s < StunLife}}
    /\ UNCHANGED <<speaks, wan, protocol, held, candidate, advertised, failed,
                   losses, restarts, reloads>>

RouterRestart ==
    /\ restarts < MaxRestarts
    /\ restarts' = restarts + 1
    /\ lease' = 0
    /\ wan' \in IF speaks \in Mobile THEN Wans ELSE {wan}
    /\ UNCHANGED <<speaks, worker, failed, losses, reloads>>

\* The worker is rebuilt; dropping the mapping asks the router to delete it,
\* which may not arrive.
Reload ==
    /\ reloads < MaxReloads /\ protocol # "starting"
    /\ reloads' = reloads + 1
    /\ lease' \in {0, lease}
    /\ protocol' = "starting" /\ held' = None /\ candidate' = None /\ advertised' = {}
    /\ timer' = Renewal /\ stun' = {} /\ failed' = 0
    /\ UNCHANGED <<speaks, wan, losses, restarts>>

Next ==
    \/ establish \/ RenewOk \/ RenewFails
    \/ StunRequest \/ (\E endpoint \in Reported : StunResponse(endpoint))
    \/ Tick \/ RouterRestart \/ Reload

Spec == Init /\ [][Next]_vars

\* The worker's tick comes every 5 ms, and the router answers in the end.
Fairness ==
    /\ WF_vars(establish)
    /\ WF_vars(Tick)
    /\ SF_vars(RenewOk)

FairSpec == Spec /\ Fairness

-----------------------------------------------------------------------------
(* Properties *)

\* With PCP and NAT-PMP, two renewals in a row may fail and the mapping that is
\* advertised still exists at a router that was not restarted.
LeaseHeld ==
    protocol \in {"pcp", "natpmp"} /\ failed <= 2 /\ restarts = 0 => lease > 0

\* After a restart of the router or lost renewals the mapping exists again, at
\* the address that the router has then, and that address is among the
\* candidates sent to roots and relays, also when their list was full.
MappingRecovers ==
    []<>(protocol \notin Protocol \/ (lease > 0 /\ candidate = wan /\ wan \in advertised))
=============================================================================
