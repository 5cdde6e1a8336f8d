----------------------------- MODULE PacketRoute -----------------------------
(***************************************************************************)
(* Which network and device a packet from the adapter goes to, and whether *)
(* a device accepts a packet it decrypts: overlay addresses, groups, the   *)
(* policy's gateways, exits, and the way back.  Every device decides with  *)
(* its own copy of each network's policy and authorization, which may be   *)
(* old or lapsed.  Sessions deliver or lose a packet; hosts beyond a       *)
(* gateway answer.                                                         *)
(***************************************************************************)
EXTENDS Integers, Functions

CONSTANTS
    Networks, Devices,
    Bits,          \* width of an address
    Overlay,       \* per network, the prefix of its addresses
    Address,       \* per network, the address assigned to each member
    Policies,      \* per network, the policies its controller may publish
    Destinations,  \* addresses that packets are sent to
    None,
    MaxChanges,    \* publications
    MaxPackets     \* packets that start

VARIABLES
    published,     \* per network: members and policy at the controller
    view,          \* per device and network: what it holds of them
    choice,        \* per device and network: exit_node_selection
    flight,        \* packets in sessions
    out,           \* packets that left the overlay at a gateway
    got,           \* packets given to the host that owns the address
    changes,       \* publications so far
    started        \* packets that started so far

vars == <<published, view, choice, flight, out, got, changes, started>>

Prefix == [base : 0 .. (2 ^ Bits - 1), len : 0 .. Bits]

Block(len) == 2 ^ (Bits - len)
contains(prefix, a) == a \div Block(prefix.len) = prefix.base \div Block(prefix.len)
prefix_covers(allowed, target) ==
    allowed.len <= target.len /\ contains(allowed, target.base)

address_belongs_to_network(n, a) == contains(Overlay[n], a)
Broadcast(n) == (Overlay[n].base \div Block(Overlay[n].len) + 1) * Block(Overlay[n].len) - 1
is_group_destination(n, a) == a = Broadcast(n)

\* The iterator's first match, if it has no second one.
One(S) == \E x \in S : S = {x}
The(S) == CHOOSE x \in S : TRUE

Longest(routes) == {r \in routes : \A s \in routes : s.prefix.len <= r.prefix.len}

-----------------------------------------------------------------------------
(* What a device's copy of a network says.  A copy names a gateway only     *)
(* while it is in date and authorizes the gateway's certificate for it.     *)

Usable(v) == {r \in v.policy.routes :
                 /\ v.live
                 /\ r.gateway \in v.members
                 /\ \E allowed \in v.policy.allowed[r.gateway] :
                        prefix_covers(allowed, r.prefix)}

\* the longest route that contains the address; different gateways: none
policy_gateway(v, a) ==
    LET best == Longest({r \in Usable(v) : contains(r.prefix, a)})
        gateways == {r.gateway : r \in best}
    IN  IF ~One(gateways) THEN None
        ELSE [len |-> The(best).prefix.len,
              gateway |-> The(gateways)]

exit_candidate_is_current(v, d) ==
    v.live /\ d \in v.policy.exits /\ d \in v.members

selected_exit_gateway(v, selected) ==
    IF selected # None /\ exit_candidate_is_current(v, selected)
    THEN selected ELSE None

local_device_is_gateway_for(v, n, d, a) ==
    \/ policy_gateway(v, a) # None /\ policy_gateway(v, a).gateway = d
    \/ /\ ~address_belongs_to_network(n, a)
       /\ ~is_group_destination(n, a)
       /\ exit_candidate_is_current(v, d)

peer_is_gateway_for_source(v, n, peer, a) ==
    \/ policy_gateway(v, a) # None /\ policy_gateway(v, a).gateway = peer
    \/ ~address_belongs_to_network(n, a) /\ exit_candidate_is_current(v, peer)

-----------------------------------------------------------------------------
(* Sending: [net, gateway], or None. *)

Joined(d) == {n \in Networks : view[d][n].in}

Route(n, gateway) == [net |-> n, gateway |-> gateway]

\* from an address of this device
OwnRoute(d, n, dst) ==
    LET v == view[d][n]
        direct == address_belongs_to_network(n, dst)
        custom == policy_gateway(v, dst)
        exit == selected_exit_gateway(v, choice[d][n])
    IN  CASE is_group_destination(n, dst) -> Route(n, None)
          [] ~is_group_destination(n, dst) /\ direct /\ custom = None -> Route(n, None)
          [] ~is_group_destination(n, dst) /\ ~direct /\ custom # None ->
                Route(n, custom.gateway)
          [] ~is_group_destination(n, dst) /\ direct /\ custom # None ->
                (IF custom.len > Overlay[n].len THEN Route(n, custom.gateway)
                 ELSE IF custom.len < Overlay[n].len THEN Route(n, None)
                 ELSE None)
          [] OTHER -> IF exit = None THEN None ELSE Route(n, exit)

\* A bug: the destination need not be in the network
ReturnsAnywhere(d, src, dst) ==
    {r \in {[net |-> n, len |-> LET custom == policy_gateway(view[d][n], src)
                                IN  IF custom # None
                                    THEN (IF custom.gateway = d THEN custom.len ELSE -1)
                                    ELSE IF exit_candidate_is_current(view[d][n], d)
                                         THEN 0 ELSE -1]
            : n \in Joined(d)} : r.len >= 0}

\* from beyond this gateway: the networks it could have come from
GatewayReturns(d, src, dst) ==
    {r \in {[net |-> n, len |-> LET custom == policy_gateway(view[d][n], src)
                                IN  IF custom # None
                                    THEN (IF custom.gateway = d THEN custom.len ELSE -1)
                                    ELSE IF exit_candidate_is_current(view[d][n], d)
                                         THEN 0 ELSE -1]
            : n \in {m \in Joined(d) : address_belongs_to_network(m, dst)}}
     : r.len >= 0}

\* A bug: a packet from a foreign source is routed like one of the device's own
RouteAnySource(d, src, dst) ==
    LET found == {r \in {OwnRoute(d, n, dst) : n \in Joined(d)} : r # None}
    IN  IF found = {} THEN None ELSE The(found)

outbound_route_for_ip_packet(d, src, dst) ==
    LET sources == {n \in Joined(d) : Address[n][d] = src}
        returns == GatewayReturns(d, src, dst)
        best == {r \in returns : \A s \in returns : s.len <= r.len}
    IN  IF One(sources) THEN OwnRoute(d, The(sources), dst)
        ELSE IF sources # {} \/ ~One(best) THEN None
        ELSE Route(The(best).net, None)

\* the directory: the members of the device's own copy
peer_targets_for_packet(d, route, dst) ==
    {p \in view[d][route.net].members \ {d} :
        \/ route.gateway = p
        \/ /\ route.gateway = None
           /\ is_group_destination(route.net, dst) \/ Address[route.net][p] = dst}

\* one packet per target, if the network is authorized
Packets(d, src, dst, origin) ==
    LET route == outbound_route_for_ip_packet(d, src, dst)
    IN  IF route = None \/ ~view[d][route.net].live THEN {}
        ELSE {[net |-> route.net, from |-> d, to |-> p, src |-> src, dst |-> dst,
               origin |-> origin] : p \in peer_targets_for_packet(d, route, dst)}

-----------------------------------------------------------------------------
(* Receiving *)

packet_is_authorized_for_delivery(p) ==
    LET v == view[p.to][p.net]
    IN  /\ v.in /\ v.live /\ p.from \in v.members
        /\ \/ Address[p.net][p.from] = p.src
           \/ peer_is_gateway_for_source(v, p.net, p.from, p.src)
        /\ \/ is_group_destination(p.net, p.dst)
           \/ Address[p.net][p.to] = p.dst
           \/ local_device_is_gateway_for(v, p.net, p.to, p.dst)

-----------------------------------------------------------------------------
Copy(n) == [in |-> TRUE, live |-> TRUE, members |-> published[n].members,
            policy |-> published[n].policy]

Init ==
    /\ published \in [Networks -> [members : SUBSET Devices,
                                   policy : UNION Range(Policies)]]
    /\ \A n \in Networks : /\ published[n].policy \in Policies[n]
                           /\ published[n].members = DOMAIN Address[n]
    /\ view = [d \in Devices |-> [n \in Networks |->
                  [Copy(n) EXCEPT !.in = d \in DOMAIN Address[n],
                                  !.live = d \in DOMAIN Address[n]]]]
    /\ choice = [d \in Devices |-> [n \in Networks |-> None]]
    /\ flight = {} /\ out = {} /\ got = {} /\ changes = 0 /\ started = 0

\* the controller: another policy, or a member fewer
Publish(n) ==
    /\ changes < MaxChanges
    /\ changes' = changes + 1
    /\ \/ \E p \in Policies[n] \ {published[n].policy} :
             published' = [published EXCEPT ![n].policy = p]
       \/ \E d \in published[n].members :
             published' = [published EXCEPT ![n].members = @ \ {d}]
    /\ UNCHANGED <<view, choice, flight, out, got, started>>

\* A refresh; a removed device leaves, and an unusable exit is dropped.
Refresh(d, n) ==
    /\ view[d][n].in
    /\ view' = [view EXCEPT ![d][n] = [Copy(n) EXCEPT
                    !.in = d \in published[n].members,
                    !.live = d \in published[n].members]]
    /\ choice' = [choice EXCEPT ![d][n] =
                     IF @ \in published[n].policy.exits THEN @ ELSE None]
    /\ view' # view
    /\ UNCHANGED <<published, flight, out, got, changes, started>>

\* The manifests run out while the controller cannot be reached.
Lapse(d, n) ==
    /\ view[d][n].live
    /\ view' = [view EXCEPT ![d][n].live = FALSE]
    /\ choice' = [choice EXCEPT ![d][n] = None]
    /\ UNCHANGED <<published, flight, out, got, changes, started>>

Choose(d, n, exit) ==
    /\ view[d][n].in /\ exit_candidate_is_current(view[d][n], exit) /\ exit # d
    /\ choice' = [choice EXCEPT ![d][n] = exit]
    /\ UNCHANGED <<published, view, flight, out, got, changes, started>>

Send(d, n, dst) ==
    /\ started < MaxPackets
    /\ view[d][n].in
    /\ started' = started + 1
    /\ Packets(d, Address[n][d], dst, n) # {}
    /\ flight' = flight \cup Packets(d, Address[n][d], dst, n)
    /\ UNCHANGED <<published, view, choice, out, got, changes>>

\* The host of a device forwards a packet of someone else into the adapter.
Forward(d, src, dst) ==
    /\ started < MaxPackets
    /\ src \notin {Address[n][d] : n \in Joined(d)}
    /\ started' = started + 1
    /\ Packets(d, src, dst, None) # {}
    /\ flight' = flight \cup Packets(d, src, dst, None)
    /\ UNCHANGED <<published, view, choice, out, got, changes>>

\* The host gets its own packets and forwards the others.
Deliver(p) ==
    /\ flight' = flight \ {p}
    /\ IF packet_is_authorized_for_delivery(p)
       THEN IF Address[p.net][p.to] = p.dst \/ is_group_destination(p.net, p.dst)
            THEN got' = got \cup {p} /\ UNCHANGED out
            ELSE out' = out \cup {p} /\ UNCHANGED got
       ELSE UNCHANGED <<out, got>>
    /\ UNCHANGED <<published, view, choice, changes, started>>

Reply(p) ==
    /\ Packets(p.to, p.dst, p.src, p.origin) \ (flight \cup got) # {}
    /\ flight' = flight \cup Packets(p.to, p.dst, p.src, p.origin)
    /\ UNCHANGED <<published, view, choice, out, got, changes, started>>

Next ==
    \/ \E n \in Networks : Publish(n)
    \/ \E d \in Devices, n \in Networks :
          \/ Refresh(d, n)
          \/ Lapse(d, n)
          \/ \E exit \in Devices : Choose(d, n, exit)
          \/ \E dst \in Destinations : Send(d, n, dst)
    \/ \E d \in Devices, src, dst \in Destinations : Forward(d, src, dst)
    \/ \E p \in flight : Deliver(p)
    \/ \E p \in out : Reply(p)

Spec == Init /\ [][Next]_vars

-----------------------------------------------------------------------------
(* Properties *)

\* A packet leaves the overlay only for a member of the network: it carries
\* the address of the member that sent it, whatever copies the devices on its
\* way held.  A gateway forwards nothing from beyond another gateway.
NoTransit == \A p \in out : p.src = Address[p.net][p.from]

\* While the devices of a network hold the same copy in date, what one sends
\* the target accepts, and for a packet that left the overlay there is a way
\* back: the gateway's agent takes the answer to the network and the member
\* that it came from, and the member accepts it.  An answer is given to a host
\* of the network that asked, and of no other.
RoundTrip ==
    /\ \A p \in flight \cup out :
         LET v == view[p.from][p.net]
             route == outbound_route_for_ip_packet(p.from, p.src, p.dst)
         IN  (v.live /\ v.in /\ v = view[p.to][p.net] /\ p.src = Address[p.net][p.from]
                /\ route # None /\ p.to \in peer_targets_for_packet(p.from, route, p.dst)) =>
             /\ packet_is_authorized_for_delivery(p)
             /\ p \in out =>
                   \E q \in Packets(p.to, p.dst, p.src, p.origin) :
                       /\ q.net = p.net /\ q.to = p.from
                       /\ packet_is_authorized_for_delivery(q)
    /\ \A p \in got : p.origin \in {None, p.net}
=============================================================================
