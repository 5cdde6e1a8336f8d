------------------------------ MODULE Controller ------------------------------
(***************************************************************************)
(* The controller (meshlake-controller, main.rs): networks, enrolment      *)
(* tokens, members, revocation, keys, epochs and policies, and the state   *)
(* file behind them.                                                       *)
(*                                                                         *)
(* Every handler holds the lock on the state for its whole run, changes it *)
(* in memory and then writes the file.  The write may fail, before or      *)
(* after the new file is in place; the change then stays in memory and the *)
(* caller gets an error.  A crash loses the memory.  Uuids and keys are    *)
(* fresh naturals.                                                         *)
(***************************************************************************)
EXTENDS Integers, FiniteSets

CONSTANTS
  NetworkId,
  DeviceId,
  Prefix,        \* route prefixes, as the sets of addresses they contain
  ExitDevice,    \* devices that a policy may name as exit nodes
  Own,           \* the networks' own prefix, in every member's allowed_routes
  Pool4, Pool6,  \* sizes of the host ranges; Pool6 = 0: no IPv6 prefix
  TokenTtl,
  MaxClock,      \* bound on time
  MaxFresh,      \* bound on random values drawn
  MaxEpoch,      \* bound on the authorization epoch: no change is made beyond it
  MaxPolicyEpoch, \* the same for the policy epoch
  MaxFailures,   \* bound on failed writes
  MaxCrashes     \* bound on crashes

ASSUME ControllerAssumption ==
  /\ {Pool4, Pool6, TokenTtl, MaxClock, MaxFresh, MaxEpoch, MaxPolicyEpoch,
      MaxFailures, MaxCrashes} \subseteq Nat
  /\ IsFiniteSet(DeviceId) /\ ExitDevice \subseteq DeviceId
  /\ "none" \notin DeviceId

VARIABLES
  state,      \* `Controller.state`: networks and enrolment tokens
  disk,       \* the state file
  up,         \* the process runs
  clock,
  fresh,      \* the next Uuid or key
  budget,     \* what is left of the bounds on failures and crashes
  created,    \* network ids that were given out (history)
  reused,     \* ids of deleted networks that were given out again (history)
  issued,     \* authorization manifests that could be asked for (history)
  policies,   \* policy manifests that could be asked for (history)
  delivered,  \* certificates and keys that reached a device (history)
  redeemed,   \* tokens and the devices they enrolled (history)
  removing,   \* certificates whose removal was asked for (history)
  removed     \* certificates whose removal was confirmed (history)

vars == <<state, disk, up, clock, fresh, budget, created, reused, issued, policies,
          delivered, redeemed, removing, removed>>

None == "none"

-------------------------------------------------------------------------------
(* Data *)

\* `ControllerState` has functions `networks` and `tokens`.  A `ManagedNetwork` has
\* `members` (their addresses and allowed routes) and `cert` (their certificates),
\* functions on the same devices; the certificates `revoked`; `key` and `keyEpoch`;
\* `authorizationEpoch` and `policyEpoch`; the policy's `routes` and `exits`.  An
\* `EnrollmentToken` has its `network`, `expires` and `usedBy`, a device or None.

With(f, x, v) == [y \in DOMAIN f \cup {x} |-> IF y = x THEN v ELSE f[y]]
Without(f, x) == [y \in DOMAIN f \ {x} |-> f[y]]

Empty == [x \in {} |-> x]

\* `sign_authorization`
Manifest(s, n) ==
  LET m == s.networks[n]
  IN  [network |-> n, epoch |-> m.authorizationEpoch, keyEpoch |-> m.keyEpoch,
       active |-> [d \in DOMAIN m.members \cap DOMAIN m.cert |-> m.cert[d]],
       revoked |-> m.revoked]

\* `route_prefix_covers`
Covers(allowed, prefix) == prefix \subseteq allowed

\* `sign_policy` succeeds: every gateway is a member with a certificate that may
\* carry the route, and no prefix has two gateways.
Signable(m) ==
  /\ \A r \in m.routes :
       /\ r.gateway \in DOMAIN m.members /\ r.gateway \in DOMAIN m.cert
       /\ \E a \in {Own} \cup m.members[r.gateway].routes : Covers(a, r.prefix)
  /\ \A d \in m.exits : d \in DOMAIN m.members /\ d \in DOMAIN m.cert
  /\ \A r, q \in m.routes : r.prefix = q.prefix => r = q

Policy(s, n) ==
  [network |-> n, epoch |-> s.networks[n].policyEpoch,
   routes |-> s.networks[n].routes, exits |-> s.networks[n].exits]

\* `validate_controller_state`
Valid(s) == \A n \in DOMAIN s.networks : Signable(s.networks[n])

-------------------------------------------------------------------------------
(* Addresses *)

Used4(m) == {m.members[d].v4 : d \in DOMAIN m.members}
Used6(m) == {m.members[d].v6 : d \in DOMAIN m.members} \ {0}

Lowest(S) == CHOOSE a \in S : \A b \in S : a <= b

\* `allocate_ipv4_address`: the lowest host that is free.
Free4(m) == (1 .. Pool4) \ Used4(m)

\* A bug: the search stops one host too early.
Free6Short(m) == ((1 .. Cardinality(Used6(m))) \cap (1 .. Pool6)) \ Used6(m)

\* `allocate_ipv6_address` looks at as many hosts as are in use, and one more.
Free6(m) == ((1 .. Cardinality(Used6(m)) + 1) \cap (1 .. Pool6)) \ Used6(m)

\* `assigned_addresses_for_device`: a member keeps its addresses.  The set is empty
\* when a pool is exhausted.
Addresses(m, d) ==
  IF d \in DOMAIN m.members
  THEN {[v4 |-> m.members[d].v4, v6 |-> m.members[d].v6]}
  ELSE IF Free4(m) = {} \/ (Pool6 > 0 /\ Free6(m) = {})
       THEN {}
       ELSE {[v4 |-> Lowest(Free4(m)), v6 |-> IF Pool6 > 0 THEN Lowest(Free6(m)) ELSE 0]}

-------------------------------------------------------------------------------
Init ==
  /\ state = [networks |-> Empty, tokens |-> Empty]
  /\ disk = state
  /\ up = TRUE
  /\ clock = 0
  /\ fresh = 0
  /\ budget = [failures |-> MaxFailures, crashes |-> MaxCrashes]
  /\ created = {} /\ reused = {}
  /\ issued = {} /\ policies = {} /\ delivered = {} /\ redeemed = {}
  /\ removing = {} /\ removed = {}

\* `authorization` and `policy` are answered from memory, to anyone at any time:
\* what a state can be asked for counts as sent.
Serve(s) ==
  /\ issued' = issued \cup {Manifest(s, n) : n \in DOMAIN s.networks}
  /\ policies' = policies \cup
       {Policy(s, n) : n \in {k \in DOMAIN s.networks : Signable(s.networks[k])}}

\* A bug: the answer goes out before the file is written.
CommitLater(new, ok) ==
  /\ state' = new
  /\ Serve(new)
  /\ disk' \in {disk, new}
  /\ UNCHANGED budget

\* The end of a handler: `write_state_with_protection`.  When it fails the new
\* file may or may not be in place.
Commit(new, ok) ==
  /\ state' = new
  /\ Serve(new)
  /\ \/ ok /\ disk' = new /\ UNCHANGED budget
     \/ /\ ~ok
        /\ budget.failures > 0
        /\ budget' = [budget EXCEPT !.failures = @ - 1]
        /\ disk' \in {disk, new}

Draw(k) == fresh + k <= MaxFresh /\ fresh' = fresh + k

SetNetwork(n, m) ==
  [networks |-> With(state.networks, n, m), tokens |-> state.tokens]
SetToken(t, token) ==
  [networks |-> state.networks, tokens |-> With(state.tokens, t, token)]

CreateNetwork(n, ok) ==
  /\ up
  /\ n \notin DOMAIN state.networks
  /\ created' = created \cup {n}
  /\ reused' = reused \cup ({n} \cap created)
  /\ Draw(1)
  /\ Commit(SetNetwork(n, [members |-> Empty, cert |-> Empty, revoked |-> {},
                           key |-> fresh, keyEpoch |-> 1, authorizationEpoch |-> 1,
                           policyEpoch |-> 1, routes |-> {}, exits |-> {}]), ok)
  /\ UNCHANGED <<up, clock, delivered, redeemed, removing, removed>>

TokensWithout(n) ==
  [t \in {u \in DOMAIN state.tokens : state.tokens[u].network # n} |-> state.tokens[t]]

\* Removal of a network removes its tokens.
DeleteNetwork(n, ok) ==
  LET m == state.networks[n]
  IN  /\ up
      /\ n \in DOMAIN state.networks
      /\ Commit([networks |-> Without(state.networks, n),
                 tokens |-> TokensWithout(n)], ok)
      /\ removing' = removing \cup {m.cert[d] : d \in DOMAIN m.cert}
      /\ removed' = IF ok THEN removed \cup {m.cert[d] : d \in DOMAIN m.cert} ELSE removed
      /\ UNCHANGED <<up, clock, fresh, created, reused, delivered, redeemed>>

IssueToken(n, ok) ==
  /\ up
  /\ n \in DOMAIN state.networks
  /\ Draw(1)
  /\ Commit(SetToken(fresh, [network |-> n, expires |-> clock + TokenTtl, usedBy |-> None]), ok)
  /\ UNCHANGED <<up, clock, created, reused, delivered, redeemed, removing, removed>>

-------------------------------------------------------------------------------
(* Enrolment *)

\* A bug: the device a token is bound to is not compared.
RedeemsForAnyone(d, t) ==
  /\ t \in DOMAIN state.tokens
  /\ clock <= state.tokens[t].expires

Redeems(d, t) ==
  /\ t \in DOMAIN state.tokens
  /\ clock <= state.tokens[t].expires
  /\ state.tokens[t].usedBy \in {None, d}

Bound(t, d) ==
  [network |-> state.tokens[t].network, expires |-> state.tokens[t].expires, usedBy |-> d]

\* The pool is exhausted: the token stays bound, in memory only.
EnrollExhausted(d, t) ==
  LET n == state.tokens[t].network
  IN  /\ up
      /\ Redeems(d, t)
      /\ n \in DOMAIN state.networks
      /\ Addresses(state.networks[n], d) = {}
      /\ state' = SetToken(t, Bound(t, d))
      /\ UNCHANGED <<disk, up, clock, fresh, budget, created, reused, issued, policies, delivered,
                     redeemed, removing, removed>>

\* `entry(device).or_insert_with(new)`: a member keeps its certificate id.
CertificateOf(m, d) == IF d \in DOMAIN m.cert THEN m.cert[d] ELSE fresh

\* Enrolment of a new device or again of a member.  The routes of a member that
\* enrols again are reset to the network's own prefixes.  (A token whose own write
\* failed is known to no one; that it can be used here only adds behaviours.)
Enroll(d, t, ok) ==
  LET n == state.tokens[t].network
      m == state.networks[n]
      id == CertificateOf(m, d)
  IN  /\ up
      /\ Redeems(d, t)
      /\ n \in DOMAIN state.networks
      /\ m.authorizationEpoch < MaxEpoch
      /\ Draw(IF d \in DOMAIN m.cert THEN 0 ELSE 1)
      /\ \E a \in Addresses(m, d) :
           LET new == [m EXCEPT
                 !.members = With(@, d, [v4 |-> a.v4, v6 |-> a.v6, routes |-> {}]),
                 !.cert = With(@, d, id),
                 !.authorizationEpoch = @ + 1]
           IN  Commit([networks |-> With(state.networks, n, new),
                       tokens |-> With(state.tokens, t, Bound(t, d))], ok)
      /\ delivered' = IF ok THEN delivered \cup {[network |-> n, device |-> d,
                                                  certificate |-> id, key |-> m.key]}
                            ELSE delivered
      /\ redeemed' = IF ok THEN redeemed \cup {[token |-> t, device |-> d]} ELSE redeemed
      /\ UNCHANGED <<up, clock, created, reused, removing, removed>>

\* `refresh_membership`: a current member gets its certificate and the current key.
Refresh(n, d) ==
  LET m == state.networks[n]
  IN  /\ up
      /\ n \in DOMAIN state.networks
      /\ d \in DOMAIN m.members /\ d \in DOMAIN m.cert
      /\ \E c \in delivered : c.device = d /\ c.certificate = m.cert[d]
      /\ delivered' = delivered \cup {[network |-> n, device |-> d,
                                       certificate |-> m.cert[d], key |-> m.key]}
      /\ UNCHANGED <<state, disk, up, clock, fresh, budget, created, reused, issued, policies, redeemed,
                     removing, removed>>

-------------------------------------------------------------------------------
(* Members and policies *)

\* A bug: a removal leaves the network key as it is.
RemovedNoRotation(m, d) ==
  [m EXCEPT !.members = Without(@, d), !.cert = Without(@, d),
            !.revoked = @ \cup (IF d \in DOMAIN m.cert THEN {m.cert[d]} ELSE {}),
            !.routes = {r \in @ : r.gateway # d}, !.exits = @ \ {d},
            !.authorizationEpoch = @ + 1]

\* A bug: a removal that changes the policy keeps the policy epoch.
RemovedSameEpoch(m, d) ==
  [m EXCEPT !.members = Without(@, d), !.cert = Without(@, d),
            !.revoked = @ \cup (IF d \in DOMAIN m.cert THEN {m.cert[d]} ELSE {}),
            !.routes = {r \in @ : r.gateway # d}, !.exits = @ \ {d},
            !.key = fresh, !.keyEpoch = @ + 1]

\* `remove_member`: revoke, drop what the policy had with this gateway, rotate.
Removed(m, d) ==
  LET routes == {r \in m.routes : r.gateway # d}
      exits == m.exits \ {d}
  IN  [m EXCEPT !.members = Without(@, d), !.cert = Without(@, d),
                !.revoked = @ \cup (IF d \in DOMAIN m.cert THEN {m.cert[d]} ELSE {}),
                !.routes = routes, !.exits = exits,
                !.policyEpoch = IF routes # m.routes \/ exits # m.exits THEN @ + 1 ELSE @,
                !.key = fresh, !.keyEpoch = @ + 1, !.authorizationEpoch = @ + 1]

RemoveMember(n, d, ok) ==
  LET m == state.networks[n]
      ids == IF d \in DOMAIN m.cert THEN {m.cert[d]} ELSE {}
  IN  /\ up
      /\ n \in DOMAIN state.networks
      /\ d \in DOMAIN m.members
      /\ m.authorizationEpoch < MaxEpoch
      /\ Draw(1)
      /\ Commit(SetNetwork(n, Removed(m, d)), ok)
      /\ removing' = removing \cup ids
      /\ removed' = IF ok THEN removed \cup ids ELSE removed
      /\ UNCHANGED <<up, clock, created, reused, delivered, redeemed>>

\* `authorize_member_routes`: refused if the policy could then not be signed.
AuthorizeMemberRoutes(n, d, routes, ok) ==
  LET m == state.networks[n]
      candidate == [m EXCEPT !.members[d].routes = routes]
  IN  /\ up
      /\ n \in DOMAIN state.networks
      /\ d \in DOMAIN m.members
      /\ Signable(candidate)
      /\ Commit(SetNetwork(n, candidate), ok)
      /\ UNCHANGED <<up, clock, fresh, created, reused, delivered, redeemed,
                     removing, removed>>

\* `update_policy`: refused unless it can be signed; the answer is the new policy.
UpdatePolicy(n, routes, exits, ok) ==
  LET m == state.networks[n]
      candidate == [m EXCEPT !.routes = routes, !.exits = exits, !.policyEpoch = @ + 1]
  IN  /\ up
      /\ n \in DOMAIN state.networks
      /\ m.policyEpoch < MaxPolicyEpoch
      /\ Signable(candidate)
      /\ Commit(SetNetwork(n, candidate), ok)
      /\ UNCHANGED <<up, clock, fresh, created, reused, delivered, redeemed, removing, removed>>

-------------------------------------------------------------------------------
(* The process *)

Crash ==
  /\ up
  /\ budget.crashes > 0
  /\ budget' = [budget EXCEPT !.crashes = @ - 1]
  /\ up' = FALSE
  /\ UNCHANGED <<state, disk, clock, fresh, created, reused, issued, policies, delivered, redeemed,
                 removing, removed>>

\* `open_with_protection`: a file that does not validate keeps the process down.
Restart ==
  /\ ~up
  /\ Valid(disk)
  /\ up' = TRUE
  /\ state' = disk
  /\ UNCHANGED <<disk, clock, fresh, budget, created, reused, issued, policies, delivered, redeemed,
                 removing, removed>>

PassTime ==
  /\ clock < MaxClock
  /\ clock' = clock + 1
  /\ UNCHANGED <<state, disk, up, fresh, budget, created, reused, issued, policies, delivered,
                 redeemed, removing, removed>>

Enrolment ==
  \E d \in DeviceId, t \in DOMAIN state.tokens :
    EnrollExhausted(d, t) \/ \E ok \in BOOLEAN : Enroll(d, t, ok)

Administration(n) ==
  \E ok \in BOOLEAN :
    \/ CreateNetwork(n, ok) \/ DeleteNetwork(n, ok) \/ IssueToken(n, ok)
    \/ \E d \in DeviceId : RemoveMember(n, d, ok)
    \/ \E d \in DeviceId, routes \in SUBSET Prefix : AuthorizeMemberRoutes(n, d, routes, ok)
    \/ \E routes \in SUBSET [prefix : Prefix, gateway : DeviceId], exits \in SUBSET ExitDevice :
         UpdatePolicy(n, routes, exits, ok)

Next ==
  \/ Enrolment
  \/ \E n \in NetworkId : Administration(n) \/ \E d \in DeviceId : Refresh(n, d)
  \/ Crash \/ Restart \/ PassTime

Spec == Init /\ [][Next]_vars

-------------------------------------------------------------------------------
(* Properties *)

\* No two members of a network have an address in common, in memory and on disk;
\* and the IPv6 search finds the lowest free host although it looks at no more
\* hosts than are in use and one more: it gives up only when the pool is full.
AllocationSound ==
  \A s \in {state, disk} : \A n \in DOMAIN s.networks :
    LET network == s.networks[n]
        members == network.members
        free == (1 .. Pool6) \ Used6(network)
    IN  /\ \A c, d \in DOMAIN members :
             c # d => /\ members[c].v4 # members[d].v4
                      /\ Pool6 > 0 => members[c].v6 # members[d].v6
        /\ free # {} => Lowest(free) \in Free6(network)

\* A token enrols one device, although writes fail and the process restarts: the
\* binding is on disk before the certificate goes out.
TokenForOneDevice ==
  \A a, b \in redeemed : a.token = b.token => a.device = b.device

\* A device that is not a member does not know the network key in use.
RotationExcludes ==
  \A n \in DOMAIN state.networks : \A c \in delivered :
    c.network = n /\ c.device \notin DOMAIN state.networks[n].members
    => c.key # state.networks[n].key

\* A change of the membership that was answered is never undone, whatever fails
\* afterwards: a removed certificate is in no file and in no member table again,
\* and one that reached its device stays until someone asks for its removal.
MembershipDurable ==
  \A s \in {state, disk} :
    /\ \A n \in DOMAIN s.networks : \A d \in DOMAIN s.networks[n].cert :
         s.networks[n].cert[d] \notin removed
    /\ \A c \in delivered : c.certificate \notin removing =>
         /\ c.network \in DOMAIN s.networks
         /\ c.device \in DOMAIN s.networks[c.network].cert
         /\ s.networks[c.network].cert[c.device] = c.certificate

\* As long as every write succeeds and the administrator reuses no id.
Orderly(n) == budget.failures = MaxFailures /\ n \notin reused

\* An epoch stands for one content: authorization manifests with the same epoch
\* list the same certificates and key epoch, and policy manifests with the same
\* epoch are one policy, as agents assume when they refuse a change within an epoch.
EpochNamesContent ==
  LET Named(a, b) ==
        Orderly(a.network) /\ a.network = b.network /\ a.epoch = b.epoch => a = b
  IN  (\A a, b \in issued : Named(a, b)) /\ (\A a, b \in policies : Named(a, b))

\* What the controller wrote it can read again: the file always validates.
Reopens == Valid(disk)
===============================================================================
