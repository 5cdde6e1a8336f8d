-------------------------- MODULE ControllerProofs --------------------------
(***************************************************************************)
(* The controller, for any networks, devices, pools and bounds.            *)
(*                                                                         *)
(* Membership: addresses are handed out once, a removed device does not    *)
(* know the key in use, and an answered change outlives failed writes and  *)
(* crashes.  Tokens: a token enrols one device.  Epochs: an epoch stands   *)
(* for one manifest and one policy.                                        *)
(*                                                                         *)
(* The same predicates are kept by the state in memory and by the file: a  *)
(* request finds the one now and perhaps the other after a restart.  Each  *)
(* is a predicate of a state and of the history, applied to both.          *)
(***************************************************************************)
EXTENDS Controller, FiniteSetTheorems, WellFoundedInduction, TLAPS

-----------------------------------------------------------------------------
(* Membership *)

\* The fields of a `ManagedNetwork`.
Fields == {"members", "cert", "revoked", "key", "keyEpoch", "authorizationEpoch",
           "policyEpoch", "routes", "exits"}

\* Device d holds certificate id in network n of a state, in memory or on disk.
Holds(s, n, d, id) ==
  /\ n \in DOMAIN s.networks
  /\ d \in DOMAIN s.networks[n].cert
  /\ s.networks[n].cert[d] = id

\* A `ManagedNetwork`: its members are the devices with a certificate, and its
\* certificates and its key were drawn.
Formed(m, next) ==
  /\ DOMAIN m = Fields
  /\ DOMAIN m.cert \subseteq DeviceId /\ DOMAIN m.members = DOMAIN m.cert
  /\ \A d \in DOMAIN m.members : DOMAIN m.members[d] = {"v4", "v6", "routes"}
  /\ \A d \in DOMAIN m.cert : m.cert[d] \in Nat /\ m.cert[d] < next
  /\ m.key \in Nat /\ m.key < next

\* No two members of a network have an address in common.
Distinct(m) ==
  \A c, d \in DOMAIN m.members :
    c # d => /\ m.members[c].v4 # m.members[d].v4
             /\ Pool6 > 0 => m.members[c].v6 # m.members[d].v6

\* Every network of a state is well formed.
Sound(s, next) ==
  \A n \in DOMAIN s.networks : Formed(s.networks[n], next) /\ Distinct(s.networks[n])

\* A certificate is one device's, in one network.
Unique(s) ==
  \A n, k \in DOMAIN s.networks :
    \A d \in DOMAIN s.networks[n].cert, e \in DOMAIN s.networks[k].cert :
      s.networks[n].cert[d] = s.networks[k].cert[e] => n = k /\ d = e

\* RotationExcludes, of a state.
Excludes(s, del) ==
  \A n \in DOMAIN s.networks : \A c \in del :
    c.network = n /\ c.device \notin DOMAIN s.networks[n].members
    => c.key # s.networks[n].key

\* MembershipDurable, of a state.
Durable(s, del, asked, done) ==
  /\ \A n \in DOMAIN s.networks : \A d \in DOMAIN s.networks[n].cert :
       s.networks[n].cert[d] \notin done
  /\ \A c \in del : c.certificate \notin asked =>
       Holds(s, c.network, c.device, c.certificate)

\* What memory and file have in common.
Kept(s, next, del, asked, done) ==
  Sound(s, next) /\ Unique(s) /\ Excludes(s, del) /\ Durable(s, del, asked, done)

\* Certificates that reached a device and are in memory are also on disk.
Behind(s, file, del) ==
  \A n \in DOMAIN s.networks : \A d \in DOMAIN s.networks[n].cert :
    \A c \in del : s.networks[n].cert[d] = c.certificate => Holds(file, n, d, c.certificate)

\* What was delivered or removed was drawn.
Drawn(del, done, next) ==
  /\ \A c \in del : /\ c.certificate \in Nat /\ c.certificate < next
                    /\ c.key \in Nat /\ c.key < next
  /\ \A id \in done : id \in Nat /\ id < next

\* The inductive invariant.  Behind is what `refresh_membership` needs: it answers
\* from memory, without a write, and what it answers must be on disk.
MInv ==
  /\ fresh \in Nat /\ Drawn(delivered, removed, fresh)
  /\ Kept(state, fresh, delivered, removing, removed)
  /\ Kept(disk, fresh, delivered, removing, removed)
  /\ Behind(state, disk, delivered)

-----------------------------------------------------------------------------
\* A draw, and the demand for a removal, leave the file as good as it was.
LEMMA KeptLater ==
  ASSUME NEW s, NEW del, NEW done, NEW asked, NEW asked2, asked \subseteq asked2,
         NEW next \in Nat, NEW next2 \in Nat, next <= next2,
         Kept(s, next, del, asked, done)
  PROVE  Kept(s, next2, del, asked2, done)
<1>1. Sound(s, next2)
  BY DEF Kept, Sound, Formed
<1>2. Durable(s, del, asked2, done)
  BY Zenon DEF Kept, Durable
<1> QED
  BY Zenon, <1>1, <1>2 DEF Kept

\* The changes that a handler makes to one network: a certificate that it adds is
\* fresh, one that it drops was asked to be removed, and a key that it keeps is
\* known to members only.
Follows(m, n, asked) ==
  LET old == state.networks[n]
  IN  /\ \A d \in DOMAIN m.cert :
           m.cert[d] = fresh \/ Holds(state, n, d, m.cert[d])
      /\ \A d, e \in DOMAIN m.cert : m.cert[d] = fresh /\ m.cert[e] = fresh => d = e
      /\ n \in DOMAIN state.networks =>
           \A d \in DOMAIN old.cert :
             \/ d \in DOMAIN m.cert /\ m.cert[d] = old.cert[d]
             \/ old.cert[d] \in asked
      /\ \/ m.key = fresh
         \/ /\ n \in DOMAIN state.networks /\ m.key = old.key
            /\ DOMAIN old.members \subseteq DOMAIN m.members

\* One network changes, within what Follows allows: memory keeps its properties
\* and stays ahead of the file.
LEMMA ChangeKeeps ==
  ASSUME MInv, NEW n, NEW m, NEW new, new.networks = With(state.networks, n, m),
         NEW next \in Nat, fresh <= next, NEW asked, removing \subseteq asked,
         Formed(m, next), Distinct(m), Follows(m, n, asked)
  PROVE  /\ Kept(new, next, delivered, asked, removed)
         /\ Behind(new, disk, delivered)
<1> DEFINE nets == state.networks
<1>1. /\ DOMAIN new.networks = DOMAIN nets \cup {n}
      /\ new.networks[n] = m
      /\ \A k \in DOMAIN nets : k # n => new.networks[k] = nets[k]
  BY Zenon DEF With
<1>2. Kept(state, next, delivered, asked, removed)
  BY Zenon, KeptLater DEF MInv
<1>3. \A k \in DOMAIN nets : \A d \in DOMAIN nets[k].cert : nets[k].cert[d] \in Nat /\ nets[k].cert[d] < fresh
  BY Zenon DEF MInv, Kept, Sound, Formed
<1>4. fresh \in Nat /\ Drawn(delivered, removed, fresh)
  BY Zenon DEF MInv
<1>5. Sound(new, next)
  BY Zenon, <1>1, <1>2 DEF Kept, Sound
<1>6. Unique(new)
  <2> SUFFICES ASSUME NEW k \in DOMAIN new.networks, NEW j \in DOMAIN new.networks,
                      NEW d \in DOMAIN new.networks[k].cert, NEW e \in DOMAIN new.networks[j].cert,
                      new.networks[k].cert[d] = new.networks[j].cert[e]
               PROVE  k = j /\ d = e
    BY Zenon DEF Unique
  <2>1. ASSUME NEW i \in DOMAIN new.networks, NEW c \in DOMAIN new.networks[i].cert
        PROVE  \/ i = n /\ new.networks[i].cert[c] = fresh
               \/ Holds(state, i, c, new.networks[i].cert[c])
    BY <1>1 DEF Follows, Holds
  <2>2. Unique(state)
    BY Zenon, <1>2 DEF Kept
  <2>3. CASE Holds(state, k, d, new.networks[k].cert[d]) /\ Holds(state, j, e, new.networks[j].cert[e])
    BY <2>2, <2>3 DEF Holds, Unique
  <2>4. CASE k = n /\ new.networks[k].cert[d] = fresh
    <3>1. ~Holds(state, j, e, fresh)
      BY <1>3, <1>4 DEF Holds
    <3>2. j = n /\ new.networks[j].cert[e] = fresh
      BY Zenon, <2>1, <2>4, <3>1
    <3> QED
      BY Zenon, <1>1, <2>4, <3>2 DEF Follows
  <2>5. CASE j = n /\ new.networks[j].cert[e] = fresh
    <3>1. ~Holds(state, k, d, fresh)
      BY <1>3, <1>4 DEF Holds
    <3>2. k = n /\ new.networks[k].cert[d] = fresh
      BY Zenon, <2>1, <2>5, <3>1
    <3> QED
      BY Zenon, <1>1, <2>5, <3>2 DEF Follows
  <2> QED
    BY Zenon, <2>1, <2>3, <2>4, <2>5
<1>7. Excludes(new, delivered)
  <2> SUFFICES ASSUME NEW k \in DOMAIN new.networks, NEW c \in delivered, c.network = k,
                      c.device \notin DOMAIN new.networks[k].members
               PROVE  c.key # new.networks[k].key
    BY Zenon DEF Excludes
  <2>1. CASE k # n
    BY Zenon, <1>1, <1>2, <2>1 DEF Kept, Excludes
  <2>2. CASE k = n /\ m.key = fresh
    BY <1>1, <1>4, <2>2 DEF Drawn
  <2>3. CASE k = n /\ m.key # fresh
    BY Zenon, <1>1, <1>2, <2>3 DEF Follows, Kept, Excludes
  <2> QED
    BY Zenon, <2>1, <2>2, <2>3
<1>8. Durable(new, delivered, asked, removed)
  <2>1. ASSUME NEW k \in DOMAIN new.networks, NEW d \in DOMAIN new.networks[k].cert
        PROVE  new.networks[k].cert[d] \notin removed
    <3>1. fresh \notin removed
      BY <1>4 DEF Drawn
    <3> QED
      BY <1>1, <1>2, <3>1 DEF Follows, Holds, Kept, Durable
  <2>2. ASSUME NEW c \in delivered, c.certificate \notin asked
        PROVE  Holds(new, c.network, c.device, c.certificate)
    <3>1. Holds(state, c.network, c.device, c.certificate)
      BY Zenon, <1>2, <2>2 DEF Kept, Durable
    <3> QED
      BY <1>1, <2>2, <3>1 DEF Holds, Follows
  <2> QED
    BY Zenon, <2>1, <2>2 DEF Durable
<1>9. Behind(new, disk, delivered)
  <2> SUFFICES ASSUME NEW k \in DOMAIN new.networks, NEW d \in DOMAIN new.networks[k].cert,
                      NEW c \in delivered, new.networks[k].cert[d] = c.certificate
               PROVE  Holds(disk, k, d, c.certificate)
    BY Zenon DEF Behind
  <2>1. c.certificate # fresh
    BY <1>4 DEF Drawn
  <2>2. Holds(state, k, d, c.certificate)
    BY <1>1, <2>1 DEF Follows, Holds
  <2> QED
    BY Zenon, <2>2 DEF MInv, Behind, Holds
<1> QED
  BY Zenon, <1>5, <1>6, <1>7, <1>8, <1>9 DEF Kept

\* What was drawn stays drawn.
LEMMA DrawnLater ==
  ASSUME NEW del, NEW done, NEW next \in Nat, NEW next2 \in Nat, next <= next2,
         Drawn(del, done, next)
  PROVE  Drawn(del, done, next2)
  BY DEF Drawn

\* MInv of the next state, part by part.
LEMMA NextParts ==
  ASSUME fresh' \in Nat, Drawn(delivered', removed', fresh'),
         Kept(state', fresh', delivered', removing', removed'),
         Kept(disk', fresh', delivered', removing', removed'),
         Behind(state', disk', delivered')
  PROVE  MInv'
  BY Zenon DEF MInv, Kept, Sound, Unique, Excludes, Durable, Behind, Drawn, Holds

\* The end of a handler (write_state_with_protection): memory has the new state,
\* and the file has the new or, if the write failed, perhaps the old one.
LEMMA CommitKeepsMembers ==
  ASSUME MInv, NEW new, NEW ok, Commit(new, ok), fresh' \in Nat, fresh <= fresh',
         removing \subseteq removing', Drawn(delivered', removed', fresh'),
         Kept(new, fresh', delivered', removing', removed'),
         ~ok => UNCHANGED <<delivered, removed>> /\ Behind(new, disk, delivered)
  PROVE  MInv'
<1>1. state' = new /\ (disk' = new \/ (~ok /\ disk' = disk))
  BY Zenon DEF Commit
<1>2. Behind(new, new, delivered')
  BY Zenon DEF Behind, Holds
<1>3. CASE disk' = new
  BY Zenon, <1>1, <1>2, <1>3, NextParts
<1>4. CASE ~ok /\ disk' = disk
  <2>1. Kept(disk, fresh', delivered, removing', removed)
    BY Zenon, KeptLater DEF MInv
  <2> QED
    BY Zenon, <1>1, <1>4, <2>1, NextParts
<1> QED
  BY Zenon, <1>1, <1>3, <1>4

\* A handler that changes one network and neither delivers nor confirms a removal.
LEMMA QuietChange ==
  ASSUME MInv, NEW n, NEW m, NEW ok, Commit(SetNetwork(n, m), ok),
         fresh' \in Nat, fresh <= fresh', UNCHANGED <<delivered, removing, removed>>,
         Formed(m, fresh'), Distinct(m), Follows(m, n, removing)
  PROVE  MInv'
<1> DEFINE new == SetNetwork(n, m)
<1>1. new.networks = With(state.networks, n, m)
  BY Zenon DEF SetNetwork
<1>2. Commit(new, ok)
  BY Zenon
<1> HIDE DEF new
<1>3. Kept(new, fresh', delivered, removing, removed) /\ Behind(new, disk, delivered)
  BY Zenon, <1>1, ChangeKeeps
<1>4. Drawn(delivered, removed, fresh')
  BY Zenon, DrawnLater DEF MInv
<1> QED
  BY Zenon, <1>2, <1>3, <1>4, CommitKeepsMembers

\* The state of one network, taken out of the invariant.
LEMMA NetworkFormed ==
  ASSUME MInv, NEW n \in DOMAIN state.networks
  PROVE  /\ Formed(state.networks[n], fresh) /\ Distinct(state.networks[n])
         /\ \A d \in DOMAIN state.networks[n].cert :
              Holds(state, n, d, state.networks[n].cert[d])
  BY Zenon DEF MInv, Kept, Sound, Holds

\* `create_network`
LEMMA CreateKeeps ==
  ASSUME MInv, NEW n, NEW ok, CreateNetwork(n, ok)
  PROVE  MInv'
<1> DEFINE m == [members |-> Empty, cert |-> Empty, revoked |-> {},
                 key |-> fresh, keyEpoch |-> 1, authorizationEpoch |-> 1,
                 policyEpoch |-> 1, routes |-> {}, exits |-> {}]
<1>1. /\ Commit(SetNetwork(n, m), ok) /\ fresh' = fresh + 1 /\ n \notin DOMAIN state.networks
      /\ UNCHANGED <<delivered, removing, removed>>
  BY Zenon DEF CreateNetwork, Draw
<1>2. fresh \in Nat
  BY Zenon DEF MInv
<1>3. DOMAIN Empty = {}
  BY Zenon DEF Empty
<1>4. DOMAIN m = Fields /\ m.members = Empty /\ m.cert = Empty /\ m.key = fresh
  BY Zenon DEF Fields
<1> HIDE DEF m
<1>5. Formed(m, fresh') /\ Distinct(m) /\ Follows(m, n, removing)
  BY <1>1, <1>2, <1>3, <1>4 DEF Formed, Distinct, Follows
<1> QED
  BY <1>1, <1>2, <1>5, QuietChange

\* A change of routes or of the policy leaves certificates, key and addresses.
LEMMA SameMembers ==
  ASSUME MInv, NEW n \in DOMAIN state.networks, NEW m, NEW ok,
         Commit(SetNetwork(n, m), ok), UNCHANGED <<fresh, delivered, removing, removed>>,
         DOMAIN m = Fields, m.cert = state.networks[n].cert, m.key = state.networks[n].key,
         DOMAIN m.members = DOMAIN state.networks[n].members,
         \A d \in DOMAIN m.members :
           /\ DOMAIN m.members[d] = DOMAIN state.networks[n].members[d]
           /\ m.members[d].v4 = state.networks[n].members[d].v4
           /\ m.members[d].v6 = state.networks[n].members[d].v6
  PROVE  MInv'
<1>1. fresh \in Nat
  BY Zenon DEF MInv
<1>2. Formed(m, fresh) /\ Distinct(m)
  <2>1. Formed(state.networks[n], fresh) /\ Distinct(state.networks[n])
    BY Zenon, NetworkFormed
  <2>2. Formed(m, fresh)
    BY <2>1 DEF Formed
  <2>3. Distinct(m)
    BY <2>1 DEF Distinct
  <2> QED
    BY Zenon, <2>2, <2>3
<1>3. Follows(m, n, removing)
  BY NetworkFormed DEF Formed, Follows
<1> QED
  BY <1>1, <1>2, <1>3, QuietChange

\* `authorize_member_routes`
LEMMA AuthorizeKeeps ==
  ASSUME MInv, NEW n, NEW d, NEW routes, NEW ok, AuthorizeMemberRoutes(n, d, routes, ok)
  PROVE  MInv'
<1> DEFINE old == state.networks[n]
           m == [old EXCEPT !.members[d].routes = routes]
<1>1. /\ n \in DOMAIN state.networks /\ d \in DOMAIN old.members
      /\ Commit(SetNetwork(n, m), ok) /\ UNCHANGED <<fresh, delivered, removing, removed>>
  BY Zenon DEF AuthorizeMemberRoutes
<1>2. Formed(old, fresh)
  BY Zenon, <1>1, NetworkFormed
<1>3. /\ DOMAIN m = Fields /\ m.cert = old.cert /\ m.key = old.key
      /\ m.members = [old.members EXCEPT ![d] = [@ EXCEPT !.routes = routes]]
  BY Zenon, <1>2 DEF Formed, Fields
<1> HIDE DEF m
<1>4. ASSUME NEW e \in DOMAIN old.members
      PROVE  /\ DOMAIN m.members[e] = DOMAIN old.members[e]
             /\ m.members[e].v4 = old.members[e].v4 /\ m.members[e].v6 = old.members[e].v6
  BY <1>1, <1>2, <1>3 DEF Formed
<1>5. DOMAIN m.members = DOMAIN old.members
  BY Zenon, <1>3
<1> QED
  BY Zenon, <1>1, <1>3, <1>4, <1>5, SameMembers

\* `update_policy`
LEMMA UpdatePolicyKeeps ==
  ASSUME MInv, NEW n, NEW routes, NEW exits, NEW ok, UpdatePolicy(n, routes, exits, ok)
  PROVE  MInv'
<1> DEFINE old == state.networks[n]
           m == [old EXCEPT !.routes = routes, !.exits = exits, !.policyEpoch = @ + 1]
<1>1. /\ n \in DOMAIN state.networks
      /\ Commit(SetNetwork(n, m), ok) /\ UNCHANGED <<fresh, delivered, removing, removed>>
  BY Zenon DEF UpdatePolicy
<1>2. Formed(old, fresh)
  BY Zenon, <1>1, NetworkFormed
<1>3. DOMAIN m = Fields /\ m.cert = old.cert /\ m.key = old.key /\ m.members = old.members
  BY Zenon, <1>2 DEF Formed, Fields
<1> HIDE DEF m
<1> QED
  BY Zenon, <1>1, <1>3, SameMembers

\* A removal that is confirmed: the certificates are in the state no more.
LEMMA ConfirmKeeps ==
  ASSUME NEW s, NEW next, NEW del, NEW asked, NEW done, NEW ids,
         Kept(s, next, del, asked, done),
         \A n \in DOMAIN s.networks : \A d \in DOMAIN s.networks[n].cert :
           s.networks[n].cert[d] \notin ids
  PROVE  Kept(s, next, del, asked, done \cup ids)
  BY Zenon DEF Kept, Durable

\* `remove_member`: the certificate goes, a fresh key comes, and the removal counts
\* as confirmed only if the file was written.
LEMMA RemoveKeeps ==
  ASSUME MInv, NEW n, NEW d, NEW ok \in BOOLEAN, RemoveMember(n, d, ok)
  PROVE  MInv'
<1> DEFINE old == state.networks[n]
           m == Removed(old, d)
           new == SetNetwork(n, m)
           ids == {old.cert[d]}
<1>1. /\ n \in DOMAIN state.networks /\ d \in DOMAIN old.members
      /\ Commit(new, ok) /\ fresh' = fresh + 1 /\ UNCHANGED delivered
  BY Zenon DEF RemoveMember, Draw
<1>2. Formed(old, fresh) /\ Distinct(old) /\ fresh \in Nat
  BY Zenon, <1>1, NetworkFormed DEF MInv
<1>3. d \in DOMAIN old.cert
  BY Zenon, <1>1, <1>2 DEF Formed
<1>4. removing' = removing \cup ids /\ removed' = IF ok THEN removed \cup ids ELSE removed
  BY <1>3, Zenon DEF RemoveMember
<1>5. /\ DOMAIN m = Fields /\ m.members = Without(old.members, d)
      /\ m.cert = Without(old.cert, d) /\ m.key = fresh
  BY Zenon, <1>2 DEF Removed, Formed, Fields
<1>6. new.networks = With(state.networks, n, m)
  BY Zenon DEF SetNetwork
<1> HIDE DEF m, new
<1>7. /\ DOMAIN m.cert = DOMAIN old.cert \ {d} /\ DOMAIN m.members = DOMAIN old.members \ {d}
      /\ \A e \in DOMAIN m.cert : m.cert[e] = old.cert[e]
      /\ \A e \in DOMAIN m.members : m.members[e] = old.members[e]
  BY Zenon, <1>5 DEF Without
<1>8. Formed(m, fresh') /\ Distinct(m)
  <2>1. Formed(m, fresh')
    BY <1>1, <1>2, <1>5, <1>7 DEF Formed
  <2>2. Distinct(m)
    BY ZenonT(40), <1>2, <1>7 DEF Distinct
  <2> QED
    BY Zenon, <2>1, <2>2
<1>9. Follows(m, n, removing')
  BY <1>1, <1>2, <1>4, <1>5, <1>7 DEF Follows, Formed, Holds
<1>10. Kept(new, fresh', delivered, removing', removed) /\ Behind(new, disk, delivered)
  <2>1. fresh' \in Nat /\ fresh <= fresh' /\ removing \subseteq removing'
    BY <1>1, <1>2, <1>4
  <2> QED
    BY Zenon, <1>6, <1>8, <1>9, <2>1, ChangeKeeps
<1>11. Drawn(delivered, removed', fresh')
  BY <1>1, <1>2, <1>3, <1>4 DEF MInv, Drawn, Formed
<1>12. ASSUME NEW k \in DOMAIN new.networks, NEW e \in DOMAIN new.networks[k].cert
       PROVE  new.networks[k].cert[e] \notin ids
  <2>1. k = n => e # d
    BY Zenon, <1>6, <1>7 DEF With
  <2>2. k \in DOMAIN state.networks /\ e \in DOMAIN state.networks[k].cert
        /\ new.networks[k].cert[e] = state.networks[k].cert[e]
    BY <1>1, <1>6, <1>7 DEF With
  <2> QED
    BY <1>1, <1>3, <2>1, <2>2 DEF MInv, Kept, Unique
<1>13. Kept(new, fresh', delivered, removing', removed')
  BY Zenon, <1>4, <1>10, <1>12, ConfirmKeeps
<1>14. /\ fresh' \in Nat /\ fresh <= fresh' /\ removing \subseteq removing'
       /\ ~ok => UNCHANGED <<delivered, removed>>
  BY <1>1, <1>2, <1>4
<1>15. Drawn(delivered', removed', fresh') /\ Kept(new, fresh', delivered', removing', removed')
  BY Zenon, <1>1, <1>11, <1>13
<1> QED
  BY <1>1, <1>10, <1>14, <1>15, CommitKeepsMembers, Zenon

\* `delete_network`: every certificate of the network goes.
LEMMA DeleteKeeps ==
  ASSUME MInv, NEW n, NEW ok \in BOOLEAN, DeleteNetwork(n, ok)
  PROVE  MInv'
<1> DEFINE old == state.networks[n]
           new == [networks |-> Without(state.networks, n), tokens |-> TokensWithout(n)]
           ids == {old.cert[d] : d \in DOMAIN old.cert}
<1>1. /\ n \in DOMAIN state.networks /\ Commit(new, ok) /\ UNCHANGED <<fresh, delivered>>
      /\ removing' = removing \cup ids /\ removed' = IF ok THEN removed \cup ids ELSE removed
  BY Zenon DEF DeleteNetwork
<1>2. new.networks = Without(state.networks, n)
  BY Zenon
<1> HIDE DEF new
<1>3. /\ DOMAIN new.networks = DOMAIN state.networks \ {n}
      /\ \A k \in DOMAIN new.networks : new.networks[k] = state.networks[k]
  BY Zenon, <1>2 DEF Without
<1>4. fresh \in Nat /\ Formed(old, fresh)
  BY Zenon, <1>1, NetworkFormed DEF MInv
<1>5. Kept(new, fresh, delivered, removing', removed)
  <2>1. Sound(new, fresh) /\ Unique(new) /\ Excludes(new, delivered)
    BY <1>3 DEF MInv, Kept, Sound, Unique, Excludes
  <2>2. ASSUME NEW c \in delivered, c.certificate \notin removing'
        PROVE  Holds(new, c.network, c.device, c.certificate)
    <3>1. Holds(state, c.network, c.device, c.certificate)
      BY Zenon, <1>1, <2>2 DEF MInv, Kept, Durable
    <3>2. c.network # n
      BY Zenon, <1>1, <2>2, <3>1 DEF Holds
    <3> QED
      BY Zenon, <1>3, <3>1, <3>2 DEF Holds
  <2>3. Durable(new, delivered, removing', removed)
    BY Zenon, <1>3, <2>2 DEF MInv, Kept, Durable
  <2> QED
    BY Zenon, <2>1, <2>3 DEF Kept
<1>6. Behind(new, disk, delivered)
  BY Zenon, <1>3 DEF MInv, Behind
<1>7. Drawn(delivered, removed', fresh)
  BY Zenon, <1>1, <1>4 DEF MInv, Drawn, Formed
<1>8. ASSUME NEW k \in DOMAIN new.networks, NEW e \in DOMAIN new.networks[k].cert
      PROVE  new.networks[k].cert[e] \notin ids
  BY <1>1, <1>3 DEF MInv, Kept, Unique
<1>9. Kept(new, fresh, delivered, removing', removed')
  BY Zenon, <1>1, <1>5, <1>8, ConfirmKeeps
<1>10. /\ fresh' \in Nat /\ fresh <= fresh' /\ removing \subseteq removing'
       /\ ~ok => UNCHANGED <<delivered, removed>>
  BY <1>1, <1>4
<1>11. Drawn(delivered', removed', fresh') /\ Kept(new, fresh', delivered', removing', removed')
  BY Zenon, <1>1, <1>7, <1>9
<1> QED
  BY <1>1, <1>6, <1>10, <1>11, CommitKeepsMembers, Zenon

-----------------------------------------------------------------------------
(* Addresses *)

\* A set of naturals with an element has a lowest one.
LEMMA LowestIn ==
  ASSUME NEW S, S \subseteq Nat, S # {}
  PROVE  Lowest(S) \in S /\ \A b \in S : Lowest(S) <= b
<1> DEFINE Less == {ss \in Nat \X Nat : ss[1] < ss[2]}
<1>1. IsWellFoundedOn(Less, Nat)
  BY NatLessThanWellFounded, Zenon DEF OpToRel
<1>2. PICK a \in S : \A b \in S : <<b, a>> \notin Less
  BY <1>1, WFMin, Zenon
<1>3. ASSUME NEW b \in S PROVE a <= b
  <2>1. ~(b < a)
    BY Zenon, <1>2, <<b, a>> \in Nat \X Nat, <<b, a>>[1] = b, <<b, a>>[2] = a
  <2> QED
    BY <2>1
<1> QED
  BY Zenon, <1>3 DEF Lowest

\* A device that becomes a member gets addresses that no other member has; a
\* member keeps its own.
LEMMA AddressesApart ==
  ASSUME NEW m, NEW d, NEW a \in Addresses(m, d), Distinct(m)
  PROVE  \A c \in DOMAIN m.members :
           c # d => /\ m.members[c].v4 # a.v4
                    /\ Pool6 > 0 => m.members[c].v6 # a.v6
<1>1. CASE d \in DOMAIN m.members
  BY <1>1 DEF Addresses, Distinct
<1>2. CASE d \notin DOMAIN m.members
  <2>1. /\ Free4(m) # {} /\ (Pool6 > 0 => Free6(m) # {})
        /\ a = [v4 |-> Lowest(Free4(m)), v6 |-> IF Pool6 > 0 THEN Lowest(Free6(m)) ELSE 0]
    BY Zenon, <1>2 DEF Addresses
  <2>2. Free4(m) \subseteq Nat /\ Free6(m) \subseteq Nat \ {0}
    BY ControllerAssumption DEF Free4, Free6
  <2>3. Lowest(Free4(m)) \in Free4(m)
    BY Zenon, <2>1, <2>2, LowestIn
  <2>4. Pool6 > 0 => Lowest(Free6(m)) \in Free6(m)
    BY Zenon, <2>1, <2>2, LowestIn
  <2>5. a.v4 \notin Used4(m)
    BY Zenon, <2>1, <2>3 DEF Free4
  <2>6. Pool6 > 0 => a.v6 \notin Used6(m) /\ a.v6 # 0
    BY Zenon, <2>1, <2>2, <2>4 DEF Free6
  <2> QED
    BY Zenon, <2>5, <2>6 DEF Used4, Used6
<1> QED
  BY Zenon, <1>1, <1>2

\* The IPv6 search looks far enough: with k hosts in use, one of the first k + 1 is
\* free, so the lowest free host of the pool is among those it looks at.
LEMMA SearchFinds ==
  ASSUME NEW m, DOMAIN m.members \subseteq DeviceId, (1 .. Pool6) \ Used6(m) # {}
  PROVE  Lowest((1 .. Pool6) \ Used6(m)) \in Free6(m)
<1> DEFINE free == (1 .. Pool6) \ Used6(m)
           a == Lowest(free)
           f == [d \in DOMAIN m.members |-> m.members[d].v6]
           hosts == {m.members[d].v6 : d \in DOMAIN m.members}
<1>1. Pool6 \in Nat /\ IsFiniteSet(DeviceId)
  BY Zenon, ControllerAssumption
<1>2. IsFiniteSet(DOMAIN m.members)
  BY Zenon, <1>1, FS_Subset
<1>3. f \in Surjection(DOMAIN m.members, hosts)
  BY Zenon DEF Surjection
<1>4. IsFiniteSet(hosts)
  BY <1>2, <1>3, FS_Surjection
<1>5. IsFiniteSet(Used6(m))
  BY Zenon, <1>4, FS_Subset DEF Used6
<1>6. a \in free /\ \A b \in free : a <= b
  BY <1>1, LowestIn
<1> HIDE DEF a
<1>7. a \in Nat /\ 1 <= a /\ a <= Pool6 /\ a \notin Used6(m)
  BY <1>1, <1>6
<1>8. 1 .. (a - 1) \subseteq Used6(m)
  BY <1>1, <1>6, <1>7
<1>9. Cardinality(1 .. (a - 1)) = a - 1
  BY <1>7, FS_Interval
<1>10. a - 1 <= Cardinality(Used6(m)) /\ Cardinality(Used6(m)) \in Nat
  <2>1. 1 .. (a - 1) \in SUBSET Used6(m)
    BY Zenon, <1>8
  <2>2. Cardinality(1 .. (a - 1)) <= Cardinality(Used6(m))
    BY Zenon, <1>5, <2>1, FS_Subset
  <2>3. Cardinality(Used6(m)) \in Nat
    BY Zenon, <1>5, FS_CardinalityType
  <2> QED
    BY Zenon, <1>9, <2>2, <2>3
<1> QED
  BY <1>1, <1>7, <1>10 DEF Free6, a

-----------------------------------------------------------------------------
(* Enrolment *)

\* What a device gets that holds the certificate and is a member.
LEMMA DeliverKeeps ==
  ASSUME NEW s, NEW next, NEW del, NEW asked, NEW done, NEW c,
         Kept(s, next, del, asked, done), Holds(s, c.network, c.device, c.certificate)
  PROVE  Kept(s, next, del \cup {c}, asked, done)
<1>1. c.device \in DOMAIN s.networks[c.network].members
  BY Zenon DEF Kept, Sound, Formed, Holds
<1> QED
  BY Zenon, <1>1 DEF Kept, Excludes, Durable

\* `enroll`
LEMMA EnrollKeeps ==
  ASSUME MInv, NEW d \in DeviceId, NEW t, NEW ok \in BOOLEAN, Enroll(d, t, ok)
  PROVE  MInv'
<1> DEFINE n == state.tokens[t].network
           old == state.networks[n]
           id == CertificateOf(old, d)
           c == [network |-> n, device |-> d, certificate |-> id, key |-> old.key]
<1>1. PICK a \in Addresses(old, d) :
        Commit([networks |-> With(state.networks, n, [old EXCEPT
                  !.members = With(@, d, [v4 |-> a.v4, v6 |-> a.v6, routes |-> {}]),
                  !.cert = With(@, d, id),
                  !.authorizationEpoch = @ + 1]),
                tokens |-> With(state.tokens, t, Bound(t, d))], ok)
  BY Zenon DEF Enroll
<1> DEFINE entry == [v4 |-> a.v4, v6 |-> a.v6, routes |-> {}]
           m == [old EXCEPT !.members = With(@, d, entry), !.cert = With(@, d, id),
                            !.authorizationEpoch = @ + 1]
           new == [networks |-> With(state.networks, n, m),
                   tokens |-> With(state.tokens, t, Bound(t, d))]
<1>2. /\ n \in DOMAIN state.networks /\ fresh' = fresh + (IF d \in DOMAIN old.cert THEN 0 ELSE 1)
      /\ delivered' = IF ok THEN delivered \cup {c} ELSE delivered
      /\ removing' = removing /\ removed' = removed
  BY Zenon DEF Enroll, Draw
<1>3. Commit(new, ok)
  BY Zenon, <1>1
<1>4. new.networks = With(state.networks, n, m)
  BY Zenon
<1>5. Formed(old, fresh) /\ Distinct(old) /\ fresh \in Nat
  BY Zenon, <1>2, NetworkFormed DEF MInv
<1>6. /\ DOMAIN m = Fields /\ m.members = With(old.members, d, entry)
      /\ m.cert = With(old.cert, d, id) /\ m.key = old.key
  BY Zenon, <1>5 DEF Formed, Fields
<1>7. DOMAIN entry = {"v4", "v6", "routes"} /\ entry.v4 = a.v4 /\ entry.v6 = a.v6
  BY Zenon
<1>0. old = state.networks[n] /\ c.network = n /\ c.device = d /\ c.certificate = id /\ c.key = old.key
  BY Zenon
<1> HIDE DEF m, new, entry, n, old, c
<1>8. /\ DOMAIN m.cert = DOMAIN old.cert \cup {d} /\ DOMAIN m.members = DOMAIN old.members \cup {d}
      /\ m.cert[d] = id /\ m.members[d] = entry
      /\ \A e \in DOMAIN old.cert : e # d => m.cert[e] = old.cert[e]
      /\ \A e \in DOMAIN old.members : e # d => m.members[e] = old.members[e]
  BY Zenon, <1>6 DEF With
<1>9. id \in Nat /\ id < fresh' /\ fresh' \in Nat /\ fresh <= fresh'
  BY <1>2, <1>5 DEF CertificateOf, Formed, id
<1>10. (d \in DOMAIN old.cert => id = old.cert[d]) /\ (d \notin DOMAIN old.cert => id = fresh)
  BY Zenon DEF CertificateOf
<1> HIDE DEF id
<1>11. Formed(m, fresh')
  BY <1>2, <1>5, <1>6, <1>7, <1>8, <1>9 DEF Formed
<1>12. Distinct(m)
  <2>1. \A e \in DOMAIN old.members :
          e # d => old.members[e].v4 # entry.v4 /\ (Pool6 > 0 => old.members[e].v6 # entry.v6)
    <3>1. \A e \in DOMAIN old.members :
            e # d => old.members[e].v4 # a.v4 /\ (Pool6 > 0 => old.members[e].v6 # a.v6)
      BY Zenon, <1>5, AddressesApart
    <3> QED
      BY Zenon, <1>7, <3>1
  <2> QED
    BY <1>5, <1>8, <2>1 DEF Distinct
<1>13. Follows(m, n, removing)
  <2>1. \A e \in DOMAIN old.cert : old.cert[e] # fresh
    BY <1>5 DEF Formed
  <2> QED
    BY <1>0, <1>2, <1>5, <1>6, <1>8, <1>10, <2>1 DEF Follows, Holds
<1>14. Kept(new, fresh', delivered, removing, removed) /\ Behind(new, disk, delivered)
  BY Zenon, <1>4, <1>9, <1>11, <1>12, <1>13, ChangeKeeps
<1>15. Holds(new, c.network, c.device, c.certificate)
  BY Zenon, <1>0, <1>4, <1>8 DEF Holds, With
<1>16. Kept(new, fresh', delivered', removing', removed')
  BY Zenon, <1>2, <1>14, <1>15, DeliverKeeps
<1>17. Drawn(delivered', removed', fresh')
  <2>1. Drawn(delivered, removed, fresh')
    BY Zenon, <1>5, <1>9, DrawnLater DEF MInv
  <2> QED
    BY <1>0, <1>2, <1>5, <1>9, <2>1 DEF Drawn, Formed
<1>18. removing \subseteq removing' /\ (~ok => UNCHANGED <<delivered, removed>>)
  BY Zenon, <1>2
<1> QED
  BY <1>3, <1>9, <1>14, <1>16, <1>17, <1>18, CommitKeepsMembers, Zenon

\* `refresh_membership`: what the member gets is in memory and, because it had it
\* before, on disk.
LEMMA RefreshKeeps ==
  ASSUME MInv, NEW n, NEW d, Refresh(n, d)
  PROVE  MInv'
<1> DEFINE old == state.networks[n]
           c == [network |-> n, device |-> d, certificate |-> old.cert[d], key |-> old.key]
<1>1. /\ n \in DOMAIN state.networks /\ d \in DOMAIN old.cert
      /\ delivered' = delivered \cup {c}
      /\ UNCHANGED <<state, disk, fresh, removing, removed>>
      /\ \E b \in delivered : b.certificate = old.cert[d]
  BY Zenon DEF Refresh
<1>2. Holds(state, n, d, old.cert[d])
  BY Zenon, <1>1 DEF Holds
<1>3. Holds(disk, n, d, old.cert[d])
  BY Zenon, <1>1 DEF MInv, Behind
<1>4. c.network = n /\ c.device = d /\ c.certificate = old.cert[d] /\ c.key = old.key
  BY Zenon
<1> HIDE DEF c
<1>5. Kept(state, fresh, delivered', removing, removed)
  BY Zenon, <1>1, <1>2, <1>4, DeliverKeeps DEF MInv
<1>6. Kept(disk, fresh, delivered', removing, removed)
  BY Zenon, <1>1, <1>3, <1>4, DeliverKeeps DEF MInv
<1>7. Drawn(delivered', removed, fresh)
  BY Zenon, <1>1, <1>4 DEF MInv, Drawn, Kept, Sound, Formed
<1>8. Behind(state, disk, delivered')
  BY <1>1, <1>4 DEF MInv, Behind
<1> QED
  BY Zenon, <1>1, <1>5, <1>6, <1>7, <1>8, NextParts DEF MInv

\* A handler that leaves the networks as they are: IssueToken, EnrollExhausted.
LEMMA SameNetworks ==
  ASSUME NEW s, NEW new, new.networks = s.networks, NEW next, NEW del, NEW asked, NEW done
  PROVE  /\ Kept(s, next, del, asked, done) => Kept(new, next, del, asked, done)
         /\ \A file : Behind(s, file, del) => Behind(new, file, del)
  BY DEF Kept, Sound, Unique, Excludes, Durable, Holds, Behind

\* `issue_token`
LEMMA IssueTokenKeeps ==
  ASSUME MInv, NEW n, NEW ok \in BOOLEAN, IssueToken(n, ok)
  PROVE  MInv'
<1> DEFINE new == SetToken(fresh, [network |-> n, expires |-> clock + TokenTtl, usedBy |-> None])
<1>1. Commit(new, ok) /\ fresh' = fresh + 1 /\ UNCHANGED <<delivered, removing, removed>>
  BY Zenon DEF IssueToken, Draw
<1>2. new.networks = state.networks
  BY Zenon DEF SetToken
<1> HIDE DEF new
<1>3. fresh \in Nat /\ fresh' \in Nat /\ fresh <= fresh'
  BY <1>1 DEF MInv
<1>4. Kept(state, fresh', delivered, removing, removed)
  BY Zenon, <1>3, KeptLater DEF MInv
<1>5. Kept(new, fresh', delivered, removing, removed) /\ Behind(new, disk, delivered)
  BY Zenon, <1>2, <1>4, SameNetworks DEF MInv
<1>6. Drawn(delivered, removed, fresh')
  BY Zenon, <1>3, DrawnLater DEF MInv
<1> QED
  BY Zenon, <1>1, <1>3, <1>5, <1>6, CommitKeepsMembers

\* An enrolment that finds the pool exhausted.
LEMMA EnrollExhaustedKeeps ==
  ASSUME MInv, NEW d, NEW t, EnrollExhausted(d, t)
  PROVE  MInv'
<1>1. UNCHANGED <<disk, fresh, delivered, removing, removed>>
  BY Zenon DEF EnrollExhausted
<1>2. state'.networks = state.networks
  BY Zenon DEF EnrollExhausted, SetToken
<1>3. Kept(state', fresh, delivered, removing, removed) /\ Behind(state', disk, delivered)
  BY Zenon, <1>2, SameNetworks DEF MInv
<1> QED
  BY Zenon, <1>1, <1>3, NextParts DEF MInv

\* The controller starts with no network.
LEMMA InitMInv ==
  Init => MInv
<1> SUFFICES ASSUME Init PROVE MInv
  BY Zenon
<1>1. /\ state.networks = Empty /\ disk.networks = Empty /\ fresh = 0
      /\ delivered = {} /\ removing = {} /\ removed = {}
  BY Zenon DEF Init
<1>2. DOMAIN Empty = {}
  BY Zenon DEF Empty
<1> QED
  BY Zenon, <1>1, <1>2 DEF MInv, Kept, Sound, Unique, Excludes, Durable, Behind, Drawn, Holds

\* Every step keeps the invariant, one handler at a time.
LEMMA NextMInv ==
  MInv /\ [Next]_vars => MInv'
<1> SUFFICES ASSUME MInv, [Next]_vars PROVE MInv'
  BY Zenon
<1>1. CASE UNCHANGED <<state, disk, fresh, delivered, removing, removed>>
  BY Zenon, <1>1, NextParts DEF MInv
<1>2. CASE Enrolment
  BY <1>2, EnrollKeeps, EnrollExhaustedKeeps, Zenon DEF Enrolment
<1>3. ASSUME NEW n \in NetworkId, Administration(n) PROVE MInv'
  BY <1>3, CreateKeeps, DeleteKeeps, IssueTokenKeeps, RemoveKeeps, AuthorizeKeeps,
     UpdatePolicyKeeps, Zenon DEF Administration
<1>4. ASSUME NEW n \in NetworkId, NEW d \in DeviceId, Refresh(n, d) PROVE MInv'
  BY Zenon, <1>4, RefreshKeeps
<1>5. CASE Crash \/ PassTime \/ UNCHANGED vars
  BY <1>1, <1>5, Zenon DEF Crash, PassTime, vars
<1>6. CASE Restart
  <2>1. state' = disk /\ UNCHANGED <<disk, fresh, delivered, removing, removed>>
    BY <1>6, Zenon DEF Restart
  <2>2. Behind(disk, disk, delivered)
    BY Zenon DEF Behind, Holds
  <2> QED
    BY Zenon, <2>1, <2>2, NextParts DEF MInv
<1> QED
  BY <1>2, <1>3, <1>4, <1>5, <1>6, Zenon DEF Next

\* The invariant holds in every reachable state.
THEOREM MembershipInvariant == Spec => []MInv
  BY InitMInv, NextMInv, PTL DEF Spec

\* A device that is not a member does not know the network key in use, although the
\* key that `remove_member` draws may be lost with the memory in a crash.
THEOREM RotationAlwaysExcludes == Spec => []RotationExcludes
<1>1. MInv => RotationExcludes
  BY Zenon DEF MInv, Kept, Excludes, RotationExcludes
<1> QED
  BY <1>1, MembershipInvariant, PTL

\* A confirmed removal is never undone and a delivered certificate never lost, in
\* memory or on disk, whatever writes fail and whenever the process stops.
THEOREM MembershipIsDurable == Spec => []MembershipDurable
<1>1. MInv => MembershipDurable
  BY Zenon DEF MInv, Kept, Durable, Holds, MembershipDurable
<1> QED
  BY <1>1, MembershipInvariant, PTL

\* No two members of a network share an address, and `allocate_ipv6_address`, which
\* looks at one host more than are in use, never misses the lowest free one.
THEOREM AllocationIsSound == Spec => []AllocationSound
<1>1. MInv => AllocationSound
  <2> SUFFICES ASSUME MInv, NEW s \in {state, disk}, NEW n \in DOMAIN s.networks
               PROVE  /\ Distinct(s.networks[n])
                      /\ LET free == (1 .. Pool6) \ Used6(s.networks[n])
                         IN  free # {} => Lowest(free) \in Free6(s.networks[n])
    BY Zenon DEF AllocationSound, Distinct
  <2>1. Formed(s.networks[n], fresh) /\ Distinct(s.networks[n])
    BY Zenon DEF MInv, Kept, Sound
  <2>2. DOMAIN s.networks[n].members \subseteq DeviceId
    BY Zenon, <2>1 DEF Formed
  <2> QED
    BY Zenon, <2>1, <2>2, SearchFinds
<1> QED
  BY <1>1, MembershipInvariant, PTL

-----------------------------------------------------------------------------
(* Tokens *)

\* A state in which every token that enrolled a device is bound to it, and in
\* which no token has an id that is still to be drawn.
Binds(s, redemptions, next) ==
  /\ DOMAIN s.tokens \subseteq Int
  /\ \A t \in DOMAIN s.tokens : t < next
  /\ \A r \in redemptions : r.token \in DOMAIN s.tokens => s.tokens[r.token].usedBy = r.device

\* The file is as good as the memory: either may be what the next request finds.
IInv ==
  /\ fresh \in Nat
  /\ redeemed \subseteq [token : Int, device : DeviceId]
  /\ \A r \in redeemed : r.token < fresh
  /\ Binds(state, redeemed, fresh) /\ Binds(disk, redeemed, fresh)
  /\ TokenForOneDevice

-----------------------------------------------------------------------------
\* Nothing is redeemed at the start.
LEMMA InitIInv == Init => IInv
  BY DEF Init, IInv, Binds, TokenForOneDevice, Empty

\* Time cannot make a binding wrong, nor can a draw.
LEMMA BindsLater ==
  ASSUME NEW s, NEW redemptions, NEW m \in Nat, NEW n \in Nat, m <= n, Binds(s, redemptions, m)
  PROVE  Binds(s, redemptions, n)
  BY DEF Binds

\* The end of a handler that redeems nothing: memory has the new tokens, the file
\* the old or the new ones (write_state_with_protection).
LEMMA CommitKeeps ==
  ASSUME IInv, NEW new, NEW ok, Commit(new, ok), UNCHANGED redeemed,
         fresh' \in Nat, fresh <= fresh', Binds(new, redeemed, fresh')
  PROVE  IInv'
<1>1. Binds(disk, redeemed, fresh')
  BY BindsLater DEF IInv
<1>2. state' = new /\ disk' \in {disk, new}
  BY Zenon DEF Commit
<1>3. \A r \in redeemed : r.token < fresh'
  BY DEF IInv
<1>4. Binds(state', redeemed', fresh') /\ Binds(disk', redeemed', fresh')
  BY <1>1, <1>2
<1>5. TokenForOneDevice'
  BY DEF IInv, TokenForOneDevice
<1> QED
  BY <1>3, <1>4, <1>5 DEF IInv, Binds

\* A handler that does not touch the tokens, or drops some.
LEMMA FewerTokens ==
  ASSUME IInv, NEW new, DOMAIN new.tokens \subseteq DOMAIN state.tokens,
         \A t \in DOMAIN new.tokens : new.tokens[t] = state.tokens[t]
  PROVE  Binds(new, redeemed, fresh)
  BY DEF IInv, Binds

\* A token is bound to the device that presents it.  A token that has enrolled a
\* device is bound already, and to that device.
LEMMA BoundToOne ==
  ASSUME IInv, NEW d \in DeviceId, NEW t \in DOMAIN state.tokens, Redeems(d, t),
         NEW new, new.tokens = With(state.tokens, t, Bound(t, d))
  PROVE  /\ \A r \in redeemed : r.token = t => r.device = d
         /\ Binds(new, redeemed, fresh)
<1>1. \A r \in redeemed : r.token = t => r.device = d
  <2> SUFFICES ASSUME NEW r \in redeemed, r.token = t PROVE r.device = d
    OBVIOUS
  <2>1. state.tokens[t].usedBy = r.device /\ r.device \in DeviceId
    BY DEF IInv, Binds
  <2>2. state.tokens[t].usedBy \in {None, d}
    BY DEF Redeems
  <2> QED
    BY <2>1, <2>2, ControllerAssumption DEF None
<1>2. /\ DOMAIN new.tokens = DOMAIN state.tokens
      /\ new.tokens[t] = Bound(t, d)
      /\ \A u \in DOMAIN state.tokens : u # t => new.tokens[u] = state.tokens[u]
  <2> DEFINE bound == Bound(t, d)
  <2>1. new.tokens = With(state.tokens, t, bound)
    OBVIOUS
  <2> HIDE DEF bound
  <2>2. /\ DOMAIN new.tokens = DOMAIN state.tokens \cup {t} /\ new.tokens[t] = bound
        /\ \A u \in DOMAIN state.tokens : u # t => new.tokens[u] = state.tokens[u]
    BY <2>1 DEF With
  <2> QED
    BY <2>2 DEF bound
<1>3. new.tokens[t].usedBy = d
  BY <1>2 DEF Bound
<1> QED
  BY <1>1, <1>2, <1>3 DEF IInv, Binds

-----------------------------------------------------------------------------
\* Every step keeps the bindings: of the handlers, only enroll redeems, and it
\* confirms nothing unless the file was written.
LEMMA NextIInv == IInv /\ [Next]_vars => IInv'
<1> SUFFICES ASSUME IInv, [Next]_vars PROVE IInv'
  OBVIOUS
<1>f. fresh \in Nat
  BY DEF IInv
<1>same. ASSUME UNCHANGED <<state, disk, fresh, redeemed>> PROVE IInv'
  BY <1>same DEF IInv, Binds, TokenForOneDevice
<1>draw. ASSUME NEW k \in Nat, Draw(k) PROVE fresh' \in Nat /\ fresh <= fresh'
  BY <1>f, <1>draw DEF Draw
<1>net. ASSUME NEW n, NEW m, NEW ok, Commit(SetNetwork(n, m), ok), UNCHANGED redeemed,
               fresh' \in Nat, fresh <= fresh'
        PROVE  IInv'
  <2> DEFINE new == SetNetwork(n, m)
  <2>1. new.tokens = state.tokens
    BY DEF SetNetwork
  <2> HIDE DEF new
  <2>2. Binds(new, redeemed, fresh)
    BY <2>1, FewerTokens
  <2>3. Binds(new, redeemed, fresh')
    BY <1>f, <1>net, <2>2, BindsLater
  <2>4. Commit(new, ok)
    BY <1>net DEF new
  <2> QED
    BY <1>net, <2>3, <2>4, CommitKeeps
<1>1. ASSUME NEW n \in NetworkId, NEW ok \in BOOLEAN, CreateNetwork(n, ok) PROVE IInv'
  <2>1. /\ Draw(1) /\ UNCHANGED redeemed
        /\ \E m : Commit(SetNetwork(n, m), ok)
    BY <1>1, Zenon DEF CreateNetwork
  <2> QED
    BY <1>draw, <1>net, <2>1
<1>2. ASSUME NEW n \in NetworkId, NEW ok \in BOOLEAN, DeleteNetwork(n, ok) PROVE IInv'
  <2> DEFINE new == [networks |-> Without(state.networks, n), tokens |-> TokensWithout(n)]
  <2>1. Commit(new, ok) /\ UNCHANGED <<fresh, redeemed>>
    BY <1>2, Zenon DEF DeleteNetwork
  <2>2. /\ DOMAIN new.tokens \subseteq DOMAIN state.tokens
        /\ \A t \in DOMAIN new.tokens : new.tokens[t] = state.tokens[t]
    BY DEF TokensWithout
  <2> HIDE DEF new
  <2>3. Binds(new, redeemed, fresh)
    BY <2>2, FewerTokens
  <2> QED
    BY <1>f, <2>1, <2>3, CommitKeeps
\* The id of a new token is drawn: nothing was redeemed with it.
<1>3. ASSUME NEW n \in NetworkId, NEW ok \in BOOLEAN, IssueToken(n, ok) PROVE IInv'
  <2> DEFINE token == [network |-> n, expires |-> clock + TokenTtl, usedBy |-> None]
             new == SetToken(fresh, token)
  <2>1. Commit(new, ok) /\ UNCHANGED redeemed /\ fresh' = fresh + 1
    BY <1>3, Zenon DEF IssueToken, Draw
  <2>2. new.tokens = With(state.tokens, fresh, token)
    BY DEF SetToken
  <2> HIDE DEF new, token
  <2>3. /\ DOMAIN new.tokens = DOMAIN state.tokens \cup {fresh}
        /\ \A u \in DOMAIN state.tokens : u # fresh => new.tokens[u] = state.tokens[u]
    BY <2>2 DEF With
  <2>4. \A r \in redeemed : r.token < fresh /\ r.token \in Int
    BY DEF IInv
  <2>5. Binds(new, redeemed, fresh + 1)
    BY <1>f, <2>3, <2>4 DEF IInv, Binds
  <2>6. fresh' \in Nat /\ fresh <= fresh' /\ Binds(new, redeemed, fresh')
    BY <1>f, <2>1, <2>5
  <2> QED
    BY <2>1, <2>6, CommitKeeps
<1>4. ASSUME NEW n \in NetworkId, NEW d \in DeviceId, NEW ok \in BOOLEAN, RemoveMember(n, d, ok)
      PROVE  IInv'
  <2>1. Draw(1) /\ UNCHANGED redeemed /\ \E m : Commit(SetNetwork(n, m), ok)
    BY <1>4, Zenon DEF RemoveMember
  <2> QED
    BY <1>draw, <1>net, <2>1
<1>5. ASSUME NEW n \in NetworkId, NEW d \in DeviceId, NEW routes, NEW ok \in BOOLEAN,
             AuthorizeMemberRoutes(n, d, routes, ok)
      PROVE  IInv'
  <2>1. UNCHANGED <<fresh, redeemed>> /\ \E m : Commit(SetNetwork(n, m), ok)
    BY <1>5, Zenon DEF AuthorizeMemberRoutes
  <2> QED
    BY <1>f, <1>net, <2>1
<1>6. ASSUME NEW n \in NetworkId, NEW routes, NEW exits, NEW ok \in BOOLEAN,
             UpdatePolicy(n, routes, exits, ok)
      PROVE  IInv'
  <2>1. UNCHANGED <<fresh, redeemed>> /\ \E m : Commit(SetNetwork(n, m), ok)
    BY <1>6, Zenon DEF UpdatePolicy
  <2> QED
    BY <1>f, <1>net, <2>1
\* A token that is bound in memory only is bound to a device it has not enrolled.
<1>7. ASSUME NEW d \in DeviceId, NEW t \in DOMAIN state.tokens, EnrollExhausted(d, t) PROVE IInv'
  <2> DEFINE new == SetToken(t, Bound(t, d))
  <2>1. Redeems(d, t) /\ state' = new /\ UNCHANGED <<disk, fresh, redeemed>>
    BY <1>7, Zenon DEF EnrollExhausted
  <2>2. new.tokens = With(state.tokens, t, Bound(t, d))
    BY DEF SetToken
  <2> HIDE DEF new
  <2>3. Binds(new, redeemed, fresh)
    BY <2>1, <2>2, BoundToOne
  <2> QED
    BY <2>1, <2>3 DEF IInv, Binds, TokenForOneDevice
<1>8. ASSUME NEW d \in DeviceId, NEW t \in DOMAIN state.tokens, NEW ok \in BOOLEAN, Enroll(d, t, ok)
      PROVE  IInv'
  <2>1. PICK networks :
          Commit([networks |-> networks, tokens |-> With(state.tokens, t, Bound(t, d))], ok)
    BY <1>8, Zenon DEF Enroll
  <2> DEFINE new == [networks |-> networks, tokens |-> With(state.tokens, t, Bound(t, d))]
  <2>2. PICK k \in Nat : Draw(k)
    BY <1>8, Zenon DEF Enroll
  <2>3. Redeems(d, t)
    BY <1>8, Zenon DEF Enroll
  <2>4. redeemed' = IF ok THEN redeemed \cup {[token |-> t, device |-> d]} ELSE redeemed
    BY <1>8, Zenon DEF Enroll
  <2>5. new.tokens = With(state.tokens, t, Bound(t, d)) /\ Commit(new, ok)
    BY <2>1
  <2> HIDE DEF new
  <2>6. fresh' \in Nat /\ fresh <= fresh'
    BY <1>draw, <2>2
  <2>7. Binds(new, redeemed, fresh')
    BY <1>f, <2>3, <2>5, <2>6, BoundToOne, BindsLater
  <2>8. CASE ~ok
    BY <2>4, <2>5, <2>6, <2>7, <2>8, CommitKeeps
  <2>9. CASE ok
    <3>1. state' = new /\ disk' = new
      BY <2>5, <2>9, Zenon DEF Commit
    <3>2. \A r \in redeemed : r.token = t => r.device = d
      BY <2>3, <2>5, BoundToOne
    <3>3. t \in Int /\ t < fresh'
      BY <1>f, <2>6 DEF IInv, Binds
    <3>4. redeemed' = redeemed \cup {[token |-> t, device |-> d]}
      BY <2>4, <2>9
    <3>5. TokenForOneDevice'
      BY <3>2, <3>4 DEF TokenForOneDevice, IInv
    <3>6. new.tokens[t].usedBy = d
      BY <2>5 DEF With, Bound
    <3>7. Binds(new, redeemed', fresh')
      BY <2>7, <3>4, <3>6 DEF Binds
    <3>8. /\ redeemed' \subseteq [token : Int, device : DeviceId]
          /\ \A r \in redeemed' : r.token < fresh'
      BY <1>f, <2>6, <3>3, <3>4 DEF IInv
    <3>9. Binds(state', redeemed', fresh') /\ Binds(disk', redeemed', fresh')
      BY <3>1, <3>7
    <3> QED
      BY <2>6, <3>5, <3>8, <3>9 DEF IInv, Binds
  <2> QED
    BY <2>8, <2>9
<1>9. CASE Restart
  BY <1>9 DEF Restart, IInv, Binds, TokenForOneDevice
<1>10. ASSUME NEW n \in NetworkId, NEW d \in DeviceId, Refresh(n, d) PROVE IInv'
  <2>1. UNCHANGED <<state, disk, fresh, redeemed>>
    BY <1>10, Zenon DEF Refresh
  <2> QED
    BY <1>same, <2>1
<1>11. ASSUME Crash \/ PassTime \/ UNCHANGED vars PROVE IInv'
  <2>1. UNCHANGED <<state, disk, fresh, redeemed>>
    BY <1>11, Zenon DEF Crash, PassTime, vars
  <2> QED
    BY <1>same, <2>1
<1> QED
  BY <1>1, <1>2, <1>3, <1>4, <1>5, <1>6, <1>7, <1>8, <1>9, <1>10, <1>11
  DEF Next, Enrolment, Administration

\* For any networks, devices, failures and crashes: once a token has enrolled a
\* device, no other device is ever enrolled with it, whether the state in use is
\* the one in memory or the one that was read from the file after a crash.
THEOREM TokensForOneDevice == Spec => []TokenForOneDevice
<1>1. Init => IInv
  BY InitIInv
<1>2. IInv /\ [Next]_vars => IInv'
  BY NextIInv
<1>3. IInv => TokenForOneDevice
  BY DEF IInv
<1> QED
  BY <1>1, <1>2, <1>3, PTL DEF Spec

-----------------------------------------------------------------------------
(* Epochs *)


\* The manifests and the policies that a state would be signed as.
Manifests(s) == {Manifest(s, n) : n \in DOMAIN s.networks}
Policies(s) == {Policy(s, n) : n \in DOMAIN s.networks}

\* What was sent, `log`, fits what would be sent now, `current`: for a network among
\* `orderly` nothing sent is ahead, only the current content has the current epoch,
\* and every earlier epoch stands for one content.
Chain(log, current, orderly) ==
  /\ \A a \in log \cup current : a.epoch \in Nat
  /\ \A x, y \in current : x.network = y.network => x = y
  /\ \A x \in current, a \in log :
       a.network \in orderly /\ a.network = x.network
       => a.epoch <= x.epoch /\ (a.epoch = x.epoch => a = x)
  /\ \A a, b \in log :
       a.network \in orderly /\ a.network = b.network /\ a.epoch = b.epoch => a = b

\* The networks of a state were created, and have epochs.
Shaped(s, ids) ==
  \A n \in DOMAIN s.networks :
    /\ n \in ids
    /\ DOMAIN s.networks[n] = Fields
    /\ s.networks[n].authorizationEpoch \in Nat /\ s.networks[n].policyEpoch \in Nat

\* The networks of which EpochNamesContent speaks.
OrderlyNetworks == {n \in created : Orderly(n)}

\* The inductive invariant.  While no write has failed, memory and file agree, so
\* that a restart serves again what was served before.
EInv ==
  /\ DOMAIN budget = {"failures", "crashes"}
  /\ budget.failures \in Int /\ budget.failures <= MaxFailures
  /\ budget.failures = MaxFailures => disk.networks = state.networks
  /\ Shaped(state, created) /\ Shaped(disk, created)
  /\ \A a \in issued \cup policies : a.network \in created
  /\ Chain(issued, Manifests(state), OrderlyNetworks)
  /\ Chain(policies, Policies(state), OrderlyNetworks)

-----------------------------------------------------------------------------
\* Every network's content is the one that was there, or has a later epoch, or is
\* of a network of which nothing was sent.
Continues(log, current, orderly, next, orderly2) ==
  /\ \A a \in log : a.network \in orderly2 => a.network \in orderly
  /\ \A y \in next : y.epoch \in Nat
  /\ \A x, y \in next : x.network = y.network => x = y
  /\ \A y \in next :
       \/ \A a \in log : a.network = y.network => a.network \notin orderly2
       \/ \E x \in current : x.network = y.network /\ (y = x \/ y.epoch > x.epoch)

\* Then what is sent next fits too.
LEMMA ChainGrows ==
  ASSUME NEW log, NEW current, NEW orderly, NEW next, NEW add, NEW orderly2,
         Chain(log, current, orderly), Continues(log, current, orderly, next, orderly2),
         add \subseteq next
  PROVE  Chain(log \cup add, next, orderly2)
<1>1. ASSUME NEW y \in next, NEW a \in log, a.network \in orderly2, a.network = y.network
      PROVE  a.epoch <= y.epoch /\ (a.epoch = y.epoch => a = y)
  <2>1. PICK x \in current : x.network = y.network /\ (y = x \/ y.epoch > x.epoch)
    BY Zenon, <1>1 DEF Continues
  <2>2. a.epoch <= x.epoch /\ (a.epoch = x.epoch => a = x)
    BY Zenon, <1>1, <2>1 DEF Chain, Continues
  <2>3. a.epoch \in Nat /\ x.epoch \in Nat /\ y.epoch \in Nat
    BY Zenon DEF Chain, Continues
  <2> QED
    BY <2>1, <2>2, <2>3
<1>2. \A a \in log \cup add \cup next : a.epoch \in Nat
  BY Zenon DEF Chain, Continues
<1>3. ASSUME NEW x \in next, NEW a \in log \cup add, a.network \in orderly2, a.network = x.network
      PROVE  a.epoch <= x.epoch /\ (a.epoch = x.epoch => a = x)
  <2>1. CASE a \in log
    BY Zenon, <1>1, <1>3, <2>1
  <2>2. CASE a \in add
    BY <1>2, <1>3, <2>2 DEF Continues
  <2> QED
    BY Zenon, <2>1, <2>2
<1>4. ASSUME NEW a \in log \cup add, NEW b \in log \cup add,
             a.network \in orderly2, a.network = b.network, a.epoch = b.epoch
      PROVE  a = b
  <2>1. CASE a \in log /\ b \in log
    BY Zenon, <1>4, <2>1 DEF Chain, Continues
  <2>2. CASE a \in add
    BY Zenon, <1>3, <1>4, <2>2
  <2>3. CASE b \in add
    BY Zenon, <1>3, <1>4, <2>3
  <2> QED
    BY Zenon, <2>1, <2>2, <2>3
<1> QED
  BY Zenon, <1>2, <1>3, <1>4 DEF Chain, Continues

\* A manifest and a policy name their network and its epoch.
LEMMA SignedFacts ==
  ASSUME NEW s, NEW n
  PROVE  /\ Manifest(s, n).network = n /\ Policy(s, n).network = n
         /\ Manifest(s, n).epoch = s.networks[n].authorizationEpoch
         /\ Policy(s, n).epoch = s.networks[n].policyEpoch
  BY Zenon DEF Manifest, Policy

\* EInv of the next state, part by part.
LEMMA NextEpochParts ==
  ASSUME DOMAIN budget' = {"failures", "crashes"},
         budget'.failures \in Int, budget'.failures <= MaxFailures,
         budget'.failures = MaxFailures => disk'.networks = state'.networks,
         Shaped(state', created'), Shaped(disk', created'),
         \A a \in issued' \cup policies' : a.network \in created',
         NEW orderly, orderly = {n \in created' : budget'.failures = MaxFailures /\ n \notin reused'},
         Chain(issued', Manifests(state'), orderly),
         Chain(policies', Policies(state'), orderly)
  PROVE  EInv'
<1>1. OrderlyNetworks' = orderly
  BY Zenon DEF OrderlyNetworks, Orderly
<1>2. Manifests(state)' = Manifests(state') /\ Policies(state)' = Policies(state')
  BY Zenon DEF Manifests, Policies, Manifest, Policy
<1>3. Chain(issued, Manifests(state), OrderlyNetworks)' /\ Chain(policies, Policies(state), OrderlyNetworks)'
  BY <1>1, <1>2, Zenon DEF Chain
<1>4. Shaped(state, created)' /\ Shaped(disk, created)'
  BY Zenon DEF Shaped
<1> QED
  BY <1>3, <1>4, Zenon DEF EInv

\* The contents of a network that are signed did not change, or their epoch did.
Later(old, m) ==
  /\ \/ m.authorizationEpoch > old.authorizationEpoch
     \/ /\ m.authorizationEpoch = old.authorizationEpoch /\ m.keyEpoch = old.keyEpoch
        /\ DOMAIN m.members = DOMAIN old.members /\ m.cert = old.cert /\ m.revoked = old.revoked
  /\ \/ m.policyEpoch > old.policyEpoch
     \/ m.policyEpoch = old.policyEpoch /\ m.routes = old.routes /\ m.exits = old.exits

\* The end of a handler: what it serves fits what was served before.
LEMMA CommitKeepsEpochs ==
  ASSUME EInv, NEW new, NEW ok, Commit(new, ok), created \subseteq created', reused \subseteq reused',
         Shaped(new, created'),
         \A k \in DOMAIN new.networks :
           \/ k \in created => k \in reused'
           \/ k \in DOMAIN state.networks /\ Later(state.networks[k], new.networks[k])
  PROVE  EInv'
<1> DEFINE orderly == {n \in created' : budget'.failures = MaxFailures /\ n \notin reused'}
           sent == {Policy(new, n) : n \in {k \in DOMAIN new.networks : Signable(new.networks[k])}}
<1>1. state' = new /\ issued' = issued \cup Manifests(new) /\ policies' = policies \cup sent
  BY Zenon DEF Commit, Serve, Manifests
<1>2. /\ DOMAIN budget' = {"failures", "crashes"}
      /\ \/ ok /\ disk' = new /\ budget' = budget
         \/ /\ ~ok /\ budget'.failures \in Int /\ budget'.failures = budget.failures - 1
            /\ disk' \in {disk, new}
  BY DEF Commit, EInv
<1>3. /\ budget.failures \in Int /\ budget.failures <= MaxFailures /\ MaxFailures \in Nat
      /\ Shaped(disk, created) /\ Shaped(state, created)
      /\ \A a \in issued \cup policies : a.network \in created
      /\ Chain(issued, Manifests(state), OrderlyNetworks)
      /\ Chain(policies, Policies(state), OrderlyNetworks)
  BY ControllerAssumption, Zenon DEF EInv
<1>4. /\ budget'.failures \in Int /\ budget'.failures <= MaxFailures
      /\ budget'.failures = MaxFailures => budget.failures = MaxFailures /\ disk' = new
  BY <1>2, <1>3
<1>5. ASSUME NEW n \in created, n \in orderly PROVE n \in OrderlyNetworks
  BY Zenon, <1>4, <1>5 DEF OrderlyNetworks, Orderly
<1>6. Shaped(disk', created')
  BY Zenon, <1>2, <1>3 DEF Shaped
<1>7. sent \subseteq Policies(new)
  BY Zenon DEF Policies
<1>8. ASSUME NEW k \in DOMAIN new.networks
      PROVE  /\ k \in created' /\ new.networks[k].authorizationEpoch \in Nat
             /\ new.networks[k].policyEpoch \in Nat
  BY Zenon DEF Shaped
<1>9. ASSUME NEW k \in DOMAIN new.networks
      PROVE  \/ k \in created => k \notin orderly
             \/ /\ k \in DOMAIN state.networks
                /\ \/ Manifest(new, k) = Manifest(state, k)
                   \/ Manifest(new, k).epoch > Manifest(state, k).epoch
                /\ \/ Policy(new, k) = Policy(state, k)
                   \/ Policy(new, k).epoch > Policy(state, k).epoch
  <2>1. CASE k \in created => k \in reused'
    BY Zenon, <2>1
  <2>2. CASE k \in DOMAIN state.networks /\ Later(state.networks[k], new.networks[k])
    <3>1. \/ Manifest(new, k) = Manifest(state, k)
          \/ Manifest(new, k).epoch > Manifest(state, k).epoch
      BY Zenon, <2>2, SignedFacts DEF Later, Manifest
    <3>2. \/ Policy(new, k) = Policy(state, k)
          \/ Policy(new, k).epoch > Policy(state, k).epoch
      BY Zenon, <2>2, SignedFacts DEF Later, Policy
    <3> QED
      BY Zenon, <2>2, <3>1, <3>2
  <2> QED
    BY Zenon, <2>1, <2>2
<1> HIDE DEF orderly, sent
<1>10. Chain(issued', Manifests(new), orderly)
  <2>1. \A a \in issued : a.network \in orderly => a.network \in OrderlyNetworks
    BY Zenon, <1>3, <1>5
  <2>2. \A y \in Manifests(new) : y.epoch \in Nat
    BY <1>8, SignedFacts DEF Manifests
  <2>3. \A x, y \in Manifests(new) : x.network = y.network => x = y
    BY SignedFacts DEF Manifests
  <2>4. ASSUME NEW y \in Manifests(new)
        PROVE  \/ \A a \in issued : a.network = y.network => a.network \notin orderly
               \/ \E x \in Manifests(state) : x.network = y.network /\ (y = x \/ y.epoch > x.epoch)
    <3>1. PICK k \in DOMAIN new.networks : y = Manifest(new, k)
      BY Zenon DEF Manifests
    <3>2. y.network = k /\ Manifest(state, k).network = k
      BY <3>1, SignedFacts
    <3>3. k \in DOMAIN state.networks => Manifest(state, k) \in Manifests(state)
      BY Zenon DEF Manifests
    <3> QED
      BY Zenon, <1>3, <1>9, <3>1, <3>2, <3>3
  <2>5. Continues(issued, Manifests(state), OrderlyNetworks, Manifests(new), orderly)
    BY <2>1, <2>2, <2>3, <2>4, Zenon DEF Continues
  <2>6. Chain(issued \cup Manifests(new), Manifests(new), orderly)
    BY <1>3, <2>5, ChainGrows, Manifests(new) \subseteq Manifests(new), Zenon
  <2> QED
    BY Zenon, <1>1, <2>6
<1>11. Chain(policies', Policies(new), orderly)
  <2>1. \A a \in policies : a.network \in orderly => a.network \in OrderlyNetworks
    BY Zenon, <1>3, <1>5
  <2>2. \A y \in Policies(new) : y.epoch \in Nat
    BY <1>8, SignedFacts DEF Policies
  <2>3. \A x, y \in Policies(new) : x.network = y.network => x = y
    BY SignedFacts DEF Policies
  <2>4. ASSUME NEW y \in Policies(new)
        PROVE  \/ \A a \in policies : a.network = y.network => a.network \notin orderly
               \/ \E x \in Policies(state) : x.network = y.network /\ (y = x \/ y.epoch > x.epoch)
    <3>1. PICK k \in DOMAIN new.networks : y = Policy(new, k)
      BY Zenon DEF Policies
    <3>2. y.network = k /\ Policy(state, k).network = k
      BY SMTT(30), <3>1, SignedFacts
    <3>3. k \in DOMAIN state.networks => Policy(state, k) \in Policies(state)
      BY Zenon DEF Policies
    <3> QED
      BY Zenon, <1>3, <1>9, <3>1, <3>2, <3>3
  <2>5. Continues(policies, Policies(state), OrderlyNetworks, Policies(new), orderly)
    BY <2>1, <2>2, <2>3, <2>4, Zenon DEF Continues
  <2> QED
    BY Zenon, <1>1, <1>3, <1>7, <2>5, ChainGrows
<1>12. \A a \in issued' \cup policies' : a.network \in created'
  BY <1>1, <1>3, <1>7, <1>8, SignedFacts DEF Manifests, Policies
<1> QED
  BY Zenon, <1>1, <1>2, <1>4, <1>6, <1>10, <1>11, <1>12, NextEpochParts DEF orderly

\* A handler that sets one network: a new one, or one whose contents are Later.
LEMMA SetKeepsEpochs ==
  ASSUME EInv, NEW new, NEW ok, Commit(new, ok), NEW n, NEW m,
         new.networks = With(state.networks, n, m),
         created' = created \cup {n}, reused \subseteq reused',
         DOMAIN m = Fields, m.authorizationEpoch \in Nat, m.policyEpoch \in Nat,
         \/ n \in created => n \in reused'
         \/ n \in DOMAIN state.networks /\ Later(state.networks[n], m)
  PROVE  EInv'
<1>1. /\ DOMAIN new.networks = DOMAIN state.networks \cup {n} /\ new.networks[n] = m
      /\ \A k \in DOMAIN state.networks : k # n => new.networks[k] = state.networks[k]
  BY Zenon DEF With
<1>2. Shaped(state, created)
  BY Zenon DEF EInv
<1>3. Shaped(new, created')
  BY Zenon, <1>1, <1>2 DEF Shaped
<1>4. ASSUME NEW k \in DOMAIN new.networks, k # n
      PROVE  k \in DOMAIN state.networks /\ Later(state.networks[k], new.networks[k])
  BY Zenon, <1>1, <1>4 DEF Later
<1>5. \A k \in DOMAIN new.networks :
        \/ k \in created => k \in reused'
        \/ k \in DOMAIN state.networks /\ Later(state.networks[k], new.networks[k])
  BY Zenon, <1>1, <1>4
<1> QED
  BY Zenon, <1>3, <1>5, created \subseteq created', CommitKeepsEpochs

\* A handler that changes a network that exists.
LEMMA ChangeKeepsEpochs ==
  ASSUME EInv, NEW new, NEW ok, Commit(new, ok), NEW n \in DOMAIN state.networks, NEW m,
         new.networks = With(state.networks, n, m), UNCHANGED <<created, reused>>,
         DOMAIN m = Fields, m.authorizationEpoch \in Nat, m.policyEpoch \in Nat,
         Later(state.networks[n], m)
  PROVE  EInv'
<1>1. created' = created \cup {n} /\ reused \subseteq reused'
  BY Zenon DEF EInv, Shaped
<1> QED
  BY <1>1, SetKeepsEpochs, Zenon

\* A network has its fields and its epochs.
LEMMA NetworkShaped ==
  ASSUME EInv, NEW n \in DOMAIN state.networks
  PROVE  /\ DOMAIN state.networks[n] = Fields
         /\ state.networks[n].authorizationEpoch \in Nat /\ state.networks[n].policyEpoch \in Nat
  BY Zenon DEF EInv, Shaped

\* `create_network`: the id is new, or it is one that is reused.
LEMMA CreateKeepsEpochs ==
  ASSUME EInv, NEW n, NEW ok, CreateNetwork(n, ok)
  PROVE  EInv'
<1> DEFINE m == [members |-> Empty, cert |-> Empty, revoked |-> {},
                 key |-> fresh, keyEpoch |-> 1, authorizationEpoch |-> 1,
                 policyEpoch |-> 1, routes |-> {}, exits |-> {}]
           new == SetNetwork(n, m)
<1>1. /\ Commit(new, ok) /\ created' = created \cup {n}
      /\ reused' = reused \cup ({n} \cap created)
  BY Zenon DEF CreateNetwork
<1>2. new.networks = With(state.networks, n, m)
  BY Zenon DEF SetNetwork
<1>3. DOMAIN m = Fields /\ m.authorizationEpoch \in Nat /\ m.policyEpoch \in Nat
  BY Zenon DEF Fields
<1> HIDE DEF m, new
<1>4. reused \subseteq reused' /\ (n \in created => n \in reused')
  BY Zenon, <1>1
<1> QED
  BY <1>1, <1>2, <1>3, <1>4, SetKeepsEpochs, Zenon

\* `delete_network`: the other networks are as they were.
LEMMA DeleteKeepsEpochs ==
  ASSUME EInv, NEW n, NEW ok, DeleteNetwork(n, ok)
  PROVE  EInv'
<1> DEFINE new == [networks |-> Without(state.networks, n), tokens |-> TokensWithout(n)]
<1>1. Commit(new, ok) /\ UNCHANGED <<created, reused>>
  BY Zenon DEF DeleteNetwork
<1>2. /\ DOMAIN new.networks = DOMAIN state.networks \ {n}
      /\ \A k \in DOMAIN new.networks : new.networks[k] = state.networks[k]
  BY Zenon DEF Without
<1> HIDE DEF new
<1>3. Shaped(new, created')
  BY Zenon, <1>1, <1>2 DEF EInv, Shaped
<1>4. \A k \in DOMAIN new.networks :
        k \in DOMAIN state.networks /\ Later(state.networks[k], new.networks[k])
  BY Zenon, <1>2 DEF Later
<1> QED
  BY Zenon, <1>1, <1>3, <1>4, CommitKeepsEpochs

\* `issue_token`: no network changes.
LEMMA IssueKeepsEpochs ==
  ASSUME EInv, NEW n, NEW ok, IssueToken(n, ok)
  PROVE  EInv'
<1> DEFINE new == SetToken(fresh, [network |-> n, expires |-> clock + TokenTtl, usedBy |-> None])
<1>1. Commit(new, ok) /\ UNCHANGED <<created, reused>>
  BY Zenon DEF IssueToken
<1>2. new.networks = state.networks
  BY Zenon DEF SetToken
<1> HIDE DEF new
<1>3. Shaped(new, created')
  BY Zenon, <1>1, <1>2 DEF EInv, Shaped
<1>4. \A k \in DOMAIN new.networks :
        k \in DOMAIN state.networks /\ Later(state.networks[k], new.networks[k])
  BY Zenon, <1>2 DEF Later
<1> QED
  BY Zenon, <1>1, <1>3, <1>4, CommitKeepsEpochs

\* `enroll`: a later authorization epoch, and the same policy.
LEMMA EnrollKeepsEpochs ==
  ASSUME EInv, NEW d, NEW t, NEW ok, Enroll(d, t, ok)
  PROVE  EInv'
<1> DEFINE n == state.tokens[t].network
           old == state.networks[n]
<1>1. PICK members, cert :
        Commit([networks |-> With(state.networks, n, [old EXCEPT
                  !.members = members, !.cert = cert, !.authorizationEpoch = @ + 1]),
                tokens |-> With(state.tokens, t, Bound(t, d))], ok)
  BY Zenon DEF Enroll
<1> DEFINE m == [old EXCEPT !.members = members, !.cert = cert, !.authorizationEpoch = @ + 1]
           new == [networks |-> With(state.networks, n, m),
                   tokens |-> With(state.tokens, t, Bound(t, d))]
<1>2. Commit(new, ok) /\ new.networks = With(state.networks, n, m)
  BY Zenon, <1>1
<1>3. n \in DOMAIN state.networks /\ UNCHANGED <<created, reused>>
  BY Zenon DEF Enroll
<1>4. DOMAIN old = Fields /\ old.authorizationEpoch \in Nat /\ old.policyEpoch \in Nat
  BY Zenon, <1>3, NetworkShaped
<1>5. /\ DOMAIN m = Fields /\ m.authorizationEpoch = old.authorizationEpoch + 1
      /\ m.policyEpoch = old.policyEpoch /\ m.routes = old.routes /\ m.exits = old.exits
  BY Zenon, <1>4 DEF Fields
<1> HIDE DEF m, new, n
<1>6. Later(old, m) /\ m.authorizationEpoch \in Nat /\ m.policyEpoch \in Nat
  BY <1>4, <1>5 DEF Later
<1> QED
  BY <1>2, <1>3, <1>5, <1>6, ChangeKeepsEpochs, Zenon

\* `remove_member`: a later authorization epoch, and a later policy epoch unless the
\* policy is as it was.
LEMMA RemoveKeepsEpochs ==
  ASSUME EInv, NEW n, NEW d, NEW ok, RemoveMember(n, d, ok)
  PROVE  EInv'
<1> DEFINE old == state.networks[n]
           m == Removed(old, d)
           new == SetNetwork(n, m)
<1>1. n \in DOMAIN state.networks /\ Commit(new, ok) /\ UNCHANGED <<created, reused>>
  BY Zenon DEF RemoveMember
<1>2. new.networks = With(state.networks, n, m)
  BY Zenon DEF SetNetwork
<1>3. DOMAIN old = Fields /\ old.authorizationEpoch \in Nat /\ old.policyEpoch \in Nat
  BY Zenon, <1>1, NetworkShaped
<1>4. /\ DOMAIN m = Fields /\ m.authorizationEpoch = old.authorizationEpoch + 1
      /\ \/ m.policyEpoch = old.policyEpoch + 1
         \/ m.policyEpoch = old.policyEpoch /\ m.routes = old.routes /\ m.exits = old.exits
  BY Zenon, <1>3 DEF Removed, Fields
<1> HIDE DEF m, new
<1>5. Later(old, m) /\ m.authorizationEpoch \in Nat /\ m.policyEpoch \in Nat
  BY <1>3, <1>4 DEF Later
<1> QED
  BY <1>1, <1>2, <1>4, <1>5, ChangeKeepsEpochs, Zenon

\* `authorize_member_routes`: what is signed stays as it is.
LEMMA AuthorizeKeepsEpochs ==
  ASSUME EInv, NEW n, NEW d, NEW routes, NEW ok, AuthorizeMemberRoutes(n, d, routes, ok)
  PROVE  EInv'
<1> DEFINE old == state.networks[n]
           m == [old EXCEPT !.members[d].routes = routes]
           new == SetNetwork(n, m)
<1>1. n \in DOMAIN state.networks /\ Commit(new, ok) /\ UNCHANGED <<created, reused>>
  BY Zenon DEF AuthorizeMemberRoutes
<1>2. new.networks = With(state.networks, n, m)
  BY Zenon DEF SetNetwork
<1>3. DOMAIN old = Fields /\ old.authorizationEpoch \in Nat /\ old.policyEpoch \in Nat
  BY Zenon, <1>1, NetworkShaped
<1>4. /\ DOMAIN m = Fields /\ m.authorizationEpoch = old.authorizationEpoch
      /\ m.keyEpoch = old.keyEpoch /\ DOMAIN m.members = DOMAIN old.members
      /\ m.cert = old.cert /\ m.revoked = old.revoked /\ m.policyEpoch = old.policyEpoch
      /\ m.routes = old.routes /\ m.exits = old.exits
  BY Zenon, <1>3 DEF Fields
<1> HIDE DEF m, new
<1>5. Later(old, m) /\ m.authorizationEpoch \in Nat /\ m.policyEpoch \in Nat
  BY Zenon, <1>3, <1>4 DEF Later
<1> QED
  BY <1>1, <1>2, <1>4, <1>5, ChangeKeepsEpochs, Zenon

\* `update_policy`: a later policy epoch, and the same manifest.
LEMMA UpdateKeepsEpochs ==
  ASSUME EInv, NEW n, NEW routes, NEW exits, NEW ok, UpdatePolicy(n, routes, exits, ok)
  PROVE  EInv'
<1> DEFINE old == state.networks[n]
           m == [old EXCEPT !.routes = routes, !.exits = exits, !.policyEpoch = @ + 1]
           new == SetNetwork(n, m)
<1>1. n \in DOMAIN state.networks /\ Commit(new, ok) /\ UNCHANGED <<created, reused>>
  BY Zenon DEF UpdatePolicy
<1>2. new.networks = With(state.networks, n, m)
  BY Zenon DEF SetNetwork
<1>3. DOMAIN old = Fields /\ old.authorizationEpoch \in Nat /\ old.policyEpoch \in Nat
  BY Zenon, <1>1, NetworkShaped
<1>4. /\ DOMAIN m = Fields /\ m.authorizationEpoch = old.authorizationEpoch
      /\ m.keyEpoch = old.keyEpoch /\ m.members = old.members
      /\ m.cert = old.cert /\ m.revoked = old.revoked /\ m.policyEpoch = old.policyEpoch + 1
  BY Zenon, <1>3 DEF Fields
<1> HIDE DEF m, new
<1>5. Later(old, m) /\ m.authorizationEpoch \in Nat /\ m.policyEpoch \in Nat
  BY <1>3, <1>4 DEF Later
<1> QED
  BY <1>1, <1>2, <1>4, <1>5, ChangeKeepsEpochs, Zenon

\* A step that sends nothing and leaves the networks, or reads them from the file.
LEMMA QuietKeepsEpochs ==
  ASSUME EInv, UNCHANGED <<disk, created, reused, issued, policies>>,
         budget'.failures = budget.failures, DOMAIN budget' = DOMAIN budget,
         state'.networks = state.networks \/ state' = disk
  PROVE  EInv'
<1> DEFINE orderly == {n \in created' : budget'.failures = MaxFailures /\ n \notin reused'}
<1>1. orderly = OrderlyNetworks
  BY Zenon DEF OrderlyNetworks, Orderly
<1>2. Shaped(state', created') /\ Shaped(disk', created')
  BY Zenon DEF EInv, Shaped
<1>3. CASE state'.networks = state.networks
  <2>1. Manifests(state') = Manifests(state) /\ Policies(state') = Policies(state)
    BY Zenon, <1>3 DEF Manifests, Policies, Manifest, Policy
  <2> QED
    BY Zenon, <1>1, <1>2, <1>3, <2>1, NextEpochParts DEF EInv
<1>4. CASE state' = disk /\ budget.failures = MaxFailures
  BY Zenon, <1>3, <1>4 DEF EInv
<1>5. CASE state' = disk /\ budget.failures # MaxFailures
  <2>1. orderly = {}
    BY Zenon, <1>5
  <2>2. Chain(issued, Manifests(disk), {}) /\ Chain(policies, Policies(disk), {})
    BY SignedFacts DEF EInv, Chain, Manifests, Policies, Shaped
  <2> QED
    BY Zenon, <1>2, <1>5, <2>1, <2>2, NextEpochParts DEF EInv
<1> QED
  BY Zenon, <1>3, <1>4, <1>5

\* Nothing was sent at the start.
LEMMA InitEInv == Init => EInv
<1> SUFFICES ASSUME Init PROVE EInv
  BY Zenon
<1>1. /\ state.networks = Empty /\ disk.networks = Empty /\ issued = {} /\ policies = {}
      /\ budget = [failures |-> MaxFailures, crashes |-> MaxCrashes]
  BY Zenon DEF Init
<1>2. DOMAIN Empty = {}
  BY Zenon DEF Empty
<1>3. Manifests(state) = {} /\ Policies(state) = {}
  BY Zenon, <1>1, <1>2 DEF Manifests, Policies
<1> QED
  BY <1>1, <1>2, <1>3, ControllerAssumption DEF EInv, Shaped, Chain

\* Every step keeps the order of the epochs, one handler at a time.
LEMMA NextEInv == EInv /\ [Next]_vars => EInv'
<1> SUFFICES ASSUME EInv, [Next]_vars PROVE EInv'
  BY Zenon
<1>1. ASSUME NEW d, NEW t, EnrollExhausted(d, t) PROVE EInv'
  <2>1. state'.networks = state.networks
    BY Zenon, <1>1 DEF EnrollExhausted, SetToken
  <2>2. UNCHANGED <<disk, created, reused, issued, policies, budget>>
    BY <1>1, Zenon DEF EnrollExhausted
  <2> QED
    BY Zenon, <2>1, <2>2, QuietKeepsEpochs
<1>2. CASE Enrolment
  BY <1>1, <1>2, EnrollKeepsEpochs, Zenon DEF Enrolment
<1>3. ASSUME NEW n \in NetworkId, Administration(n) PROVE EInv'
  BY <1>3, CreateKeepsEpochs, DeleteKeepsEpochs, IssueKeepsEpochs, RemoveKeepsEpochs,
     AuthorizeKeepsEpochs, UpdateKeepsEpochs, Zenon DEF Administration
<1>4. ASSUME NEW n, NEW d, Refresh(n, d) PROVE EInv'
  <2>1. UNCHANGED <<state, disk, created, reused, issued, policies, budget>>
    BY <1>4, Zenon DEF Refresh
  <2> QED
    BY Zenon, <2>1, QuietKeepsEpochs
<1>5. CASE PassTime \/ UNCHANGED vars
  <2>1. UNCHANGED <<state, disk, created, reused, issued, policies, budget>>
    BY <1>5, Zenon DEF PassTime, vars
  <2> QED
    BY Zenon, <2>1, QuietKeepsEpochs
<1>6. CASE Crash
  <2>1. UNCHANGED <<state, disk, created, reused, issued, policies>>
    BY <1>6, Zenon DEF Crash
  <2>2. DOMAIN budget = {"failures", "crashes"}
    BY Zenon DEF EInv
  <2>3. budget'.failures = budget.failures /\ DOMAIN budget' = DOMAIN budget
    BY Zenon, <1>6, <2>2 DEF Crash
  <2> QED
    BY Zenon, <2>1, <2>3, QuietKeepsEpochs
<1>7. CASE Restart
  <2>1. state' = disk /\ UNCHANGED <<disk, created, reused, issued, policies, budget>>
    BY <1>7, Zenon DEF Restart
  <2> QED
    BY Zenon, <2>1, QuietKeepsEpochs
<1> QED
  BY <1>2, <1>3, <1>4, <1>5, <1>6, <1>7, Zenon DEF Next

\* As long as every write succeeds and no id is reused, an epoch that an agent has
\* seen stands for one manifest and one policy, for any networks and devices.
THEOREM EpochsNameContent == Spec => []EpochNamesContent
<1>1. EInv => EpochNamesContent
  <2> SUFFICES ASSUME EInv PROVE EpochNamesContent
    BY Zenon
  <2>1. \A n \in created : Orderly(n) => n \in OrderlyNetworks
    BY Zenon DEF OrderlyNetworks
  <2>2. ASSUME NEW a, NEW b, Orderly(a.network), a.network = b.network, a.epoch = b.epoch
        PROVE  (a \in issued /\ b \in issued) \/ (a \in policies /\ b \in policies) => a = b
    BY Zenon, <2>1, <2>2 DEF EInv, Chain
  <2> QED
    BY <2>2, Zenon DEF EpochNamesContent
<1> QED
  BY <1>1, InitEInv, NextEInv, PTL DEF Spec
=============================================================================
