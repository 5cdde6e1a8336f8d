--------------------------- MODULE TransportProofs ---------------------------
(***************************************************************************)
(* The transport's promises that hold by timing, for every choice of the   *)
(* lifetimes that keeps the code's order between them: a TURN route sends  *)
(* under an allocation and a permission that the server still holds, and   *)
(* the router's mapping outlives two renewals that fail.                   *)
(***************************************************************************)
EXTENDS Turn, TLAPS

-----------------------------------------------------------------------------
(* The TURN route *)

\* The nonces and the messages between the client and the server.
Nonce == {"none", "current", "stale"}
Wire == [kind : {"nothing", "malformed"}]
          \cup [kind : {"allocate", "permission", "refresh", "error"}, nonce : Nonce]
          \cup [kind : {"success"}, life : Grants]

TypesOK ==
    /\ phase \in {"connecting", "challenge", "allocate", "ready", "permit", "refresh",
                  "waiting", "stopped"}
    /\ nonce \in Nonce
    /\ wire \in Wire
    /\ refreshIn \in Nat /\ permission \in Nat /\ permission <= PermissionTtl
    /\ server \in [life : Nat, permitted : Nat]

\* A request belongs to the phase that waits for its answer.
RequestFits ==
    /\ wire.kind = "allocate" => phase \in {"challenge", "allocate"}
    /\ wire.kind = "permission" => phase = "permit"
    /\ wire.kind = "refresh" => phase = "refresh"
    /\ phase = "refresh" => refreshIn = 0

\* What the client counts on the server still holds.
ServerHolds ==
    /\ phase \in {"challenge", "allocate"} => permission = 0
    /\ allocated => refreshIn < server.life /\ permission <= server.permitted
    /\ phase \in {"allocate", "refresh"} /\ wire.kind = "success" => wire.life = server.life
    /\ phase = "permit" /\ wire.kind = "success" => server.permitted = PermissionLife

TurnInv ==
    /\ TypesOK /\ RequestFits
    /\ spent \in [loss : Nat, stale : Nat, restart : Nat]
    /\ spent.restart = 0 => ServerHolds
    /\ refused = FALSE

-----------------------------------------------------------------------------
\* The granted lifetimes and the permission's, as the steps use them.
LEMMA Lifetimes ==
    /\ \A g \in Grants : g \in Nat /\ Clamp(g) \div 2 \in Nat /\ Clamp(g) \div 2 < g
    /\ PermissionMargin \in Nat /\ PermissionTtl \in Nat /\ PermissionLife \in Nat
    /\ PermissionTtl <= PermissionLife /\ PermissionLife > 0
  BY TurnAssumption DEF Clamp

\* The kind of a message tells its shape.
LEMMA WireKinds ==
  ASSUME NEW w \in Wire
  PROVE  /\ w.kind \in {"nothing", "malformed", "allocate", "permission", "refresh", "error",
                        "success"}
         /\ w.kind = "success" => w.life \in Grants
         /\ w.kind = "error" => w.nonce \in Nonce
  BY DEF Wire

\* Nothing is under way, or a request, at the beginning of a phase.
LEMMA WireTypes ==
    /\ Nothing \in Wire /\ Nothing.kind = "nothing"
    /\ \A k \in {"allocate", "permission", "refresh", "error"}, n \in Nonce :
         [kind |-> k, nonce |-> n] \in Wire /\ [kind |-> k, nonce |-> n].kind = k
    /\ \A life \in Grants :
         LET w == [kind |-> "success", life |-> life] IN
         w \in Wire /\ w.kind = "success" /\ w.life = life
    /\ [kind |-> "malformed"] \in Wire /\ [kind |-> "malformed"].kind = "malformed"
<1>1. Nothing \in Wire /\ Nothing.kind = "nothing"
  BY DEF Nothing, Wire
<1>2. ASSUME NEW k \in {"allocate", "permission", "refresh", "error"}, NEW n \in Nonce
      PROVE  [kind |-> k, nonce |-> n] \in Wire /\ [kind |-> k, nonce |-> n].kind = k
  BY DEF Wire
<1>3. ASSUME NEW life \in Grants
      PROVE  LET w == [kind |-> "success", life |-> life] IN
             w \in Wire /\ w.kind = "success" /\ w.life = life
  BY DEF Wire
<1>4. [kind |-> "malformed"] \in Wire /\ [kind |-> "malformed"].kind = "malformed"
  BY DEF Wire
<1> QED  BY Zenon, <1>1, <1>2, <1>3, <1>4

\* Before the first request nothing is counted on.
LEMMA TurnInit == Init => TurnInv
<1> SUFFICES ASSUME Init PROVE TurnInv
  OBVIOUS
<1>1. /\ phase = "connecting" /\ nonce = "none" /\ refreshIn = 0 /\ permission = 0
      /\ wire = Nothing /\ refused = FALSE
  BY DEF Init
<1>2. server \in [life : Nat, permitted : Nat] /\ spent \in [loss : Nat, stale : Nat, restart : Nat]
  BY DEF Init, NoAllocation
<1> QED
  BY <1>1, <1>2, WireTypes, Lifetimes
     DEF TurnInv, TypesOK, RequestFits, ServerHolds, allocated, Nonce

\* The end of a connection ends what the client counts on.
LEMMA EndedFits ==
  ASSUME TurnInv, Ended, UNCHANGED <<server, refused, spent>>
  PROVE  TurnInv'
<1>1. phase' \in {"stopped", "waiting"} /\ wire' = Nothing /\ UNCHANGED client
  BY DEF Ended
<1> QED
  BY <1>1, WireTypes DEF TurnInv, TypesOK, RequestFits, ServerHolds, allocated, client

\* A connection begins with an empty hand.
LEMMA ConnectFits ==
  ASSUME TurnInv, connect
  PROVE  TurnInv'
<1>1. /\ phase' = "challenge" /\ nonce' = "none" /\ permission' = 0 /\ refreshIn' = 0
      /\ wire' = [kind |-> "allocate", nonce |-> "none"]
      /\ server' = [life |-> 0, permitted |-> 0] /\ UNCHANGED <<refused, spent>>
  BY DEF connect, NoAllocation
<1>2. wire' \in Wire /\ wire'.kind = "allocate"
  BY <1>1, WireTypes DEF Nonce
<1> QED  BY <1>1, <1>2, Lifetimes
          DEF TurnInv, TypesOK, RequestFits, ServerHolds, allocated, Nonce

\* A challenge is answered.
LEMMA AllocateFits ==
  ASSUME TurnInv, allocate
  PROVE  TurnInv'
<1>1. /\ phase = "challenge" /\ wire.kind = "error"
      /\ phase' = "allocate" /\ nonce' = wire.nonce
      /\ wire' = [kind |-> "allocate", nonce |-> wire.nonce]
      /\ UNCHANGED <<refreshIn, permission, server, refused, spent>>
  BY DEF allocate, receive_response
<1>2. wire.nonce \in Nonce /\ wire' \in Wire /\ wire'.kind = "allocate"
  BY <1>1, WireTypes, WireKinds DEF TurnInv, TypesOK
<1> QED  BY <1>1, <1>2 DEF TurnInv, TypesOK, RequestFits, ServerHolds, allocated

\* An allocation: the deadline lies before the end of what was granted.
LEMMA AuthenticatedFits ==
  ASSUME TurnInv, allocate_authenticated
  PROVE  TurnInv'
<1>1. phase = "allocate" /\ wire.kind \in {"success", "error"} /\ UNCHANGED <<server, refused, spent>>
  BY DEF allocate_authenticated, receive_response
<1>2. CASE wire.kind = "success"
  <2>1. /\ phase' = "ready" /\ refreshIn' = Clamp(wire.life) \div 2 /\ wire' = Nothing
        /\ UNCHANGED <<nonce, permission>>
    BY <1>2 DEF allocate_authenticated
  <2>2. wire.life \in Grants
    BY <1>2, WireKinds DEF TurnInv, TypesOK
  <2>3. refreshIn' \in Nat /\ refreshIn' < wire.life
    BY <2>1, <2>2, Lifetimes
  <2> QED
    BY <1>1, <1>2, <2>1, <2>3, WireTypes DEF TurnInv, TypesOK, RequestFits, ServerHolds, allocated
<1>3. CASE wire.kind # "success" /\ attempts < 2
  <2>1. /\ nonce' = wire.nonce /\ wire' = [kind |-> "allocate", nonce |-> wire.nonce]
        /\ UNCHANGED <<phase, refreshIn, permission>>
    BY <1>3 DEF allocate_authenticated
  <2>2. wire.nonce \in Nonce /\ wire' \in Wire /\ wire'.kind = "allocate"
    BY <1>1, <1>3, <2>1, WireTypes, WireKinds DEF TurnInv, TypesOK
  <2> QED  BY <1>1, <2>1, <2>2 DEF TurnInv, TypesOK, RequestFits, ServerHolds, allocated
<1>4. CASE wire.kind # "success" /\ ~(attempts < 2)
  BY <1>1, <1>4, EndedFits DEF allocate_authenticated
<1> QED  BY <1>2, <1>3, <1>4

\* A packet goes out under a permission that is held, or waits for one.
LEMMA TakeFits ==
  ASSUME TurnInv, take_outbound
  PROVE  TurnInv'
<1>1. phase = "ready" /\ UNCHANGED <<nonce, refreshIn, permission, server, spent>>
  BY DEF take_outbound, client
<1>2. CASE permission_due
  <2>1. phase' = "permit" /\ wire' = [kind |-> "permission", nonce |-> nonce] /\ UNCHANGED refused
    BY <1>2 DEF take_outbound, Request
  <2>2. wire' \in Wire /\ wire'.kind = "permission"
    BY <2>1, WireTypes DEF TurnInv, TypesOK
  <2> QED  BY <1>1, <2>1, <2>2 DEF TurnInv, TypesOK, RequestFits, ServerHolds, allocated
<1>3. CASE ~permission_due
  <2>1. UNCHANGED <<phase, wire>> /\ send_indication
    BY <1>3 DEF take_outbound
  <2>2. spent.restart = 0 => ~(server.life = 0 \/ server.permitted = 0)
    BY <1>1, <1>3, Lifetimes
       DEF TurnInv, TypesOK, ServerHolds, allocated, permission_due
  <2>3. refused' = FALSE
    BY Zenon, <2>1, <2>2 DEF send_indication, TurnInv
  <2> QED  BY <1>1, <2>1, <2>3 DEF TurnInv, TypesOK, RequestFits, ServerHolds, allocated
<1> QED  BY <1>2, <1>3

\* A new permission is held longer than the client counts on it.
LEMMA PermissionFits ==
  ASSUME TurnInv, create_permission
  PROVE  TurnInv'
<1>1. phase = "permit" /\ wire.kind \in {"success", "error"} /\ UNCHANGED <<server, spent>>
  BY DEF create_permission, receive_response
<1>2. CASE wire.kind = "success"
  <2>1. /\ phase' = "ready" /\ permission' = PermissionTtl /\ wire' = Nothing
        /\ send_indication /\ UNCHANGED <<nonce, refreshIn>>
    BY <1>2 DEF create_permission
  <2>2. spent.restart = 0 => server.life > 0 /\ server.permitted = PermissionLife
    BY <1>1, <1>2 DEF TurnInv, TypesOK, ServerHolds, allocated
  <2>3. spent.restart = 0 => ~(server.life = 0 \/ server.permitted = 0)
    BY <2>2, Lifetimes
  <2>4. refused' = FALSE
    BY Zenon, <2>1, <2>3 DEF send_indication, TurnInv
  <2> QED
    BY <1>1, <2>1, <2>2, <2>4, WireTypes, Lifetimes
       DEF TurnInv, TypesOK, RequestFits, ServerHolds, allocated
<1>3. CASE wire.kind # "success"
  BY <1>1, <1>3, EndedFits DEF create_permission
<1> QED  BY <1>2, <1>3

\* The request for a refresh.
LEMMA RefreshDueFits ==
  ASSUME TurnInv, refresh_due
  PROVE  TurnInv'
<1>1. /\ phase = "ready" /\ refreshIn = 0
      /\ phase' = "refresh" /\ wire' = [kind |-> "refresh", nonce |-> nonce]
      /\ UNCHANGED <<nonce, refreshIn, permission, server, refused, spent>>
  BY DEF refresh_due, Request, client
<1>2. wire' \in Wire /\ wire'.kind = "refresh"
  BY <1>1, WireTypes DEF TurnInv, TypesOK
<1> QED  BY <1>1, <1>2 DEF TurnInv, TypesOK, RequestFits, ServerHolds, allocated

\* A refreshed allocation: the deadline lies before the end of what was granted.
LEMMA RefreshFits ==
  ASSUME TurnInv, refresh
  PROVE  TurnInv'
<1>1. phase = "refresh" /\ wire.kind \in {"success", "error"} /\ UNCHANGED <<server, refused, spent>>
  BY DEF refresh, receive_response
<1>2. CASE wire.kind = "success"
  <2>1. /\ phase' = "ready" /\ refreshIn' = Clamp(wire.life) \div 2 /\ wire' = Nothing
        /\ UNCHANGED <<nonce, permission>>
    BY <1>2 DEF refresh, RefreshAfter
  <2>2. wire.life \in Grants
    BY <1>2, WireKinds DEF TurnInv, TypesOK
  <2>3. refreshIn' \in Nat /\ refreshIn' < wire.life
    BY <2>1, <2>2, Lifetimes
  <2> QED
    BY <1>1, <1>2, <2>1, <2>3, WireTypes DEF TurnInv, TypesOK, RequestFits, ServerHolds, allocated
<1>3. CASE wire.kind # "success"
  BY <1>1, <1>3, EndedFits DEF refresh
<1> QED  BY <1>2, <1>3

\* What the server answers, it holds.
LEMMA ServerFits ==
  ASSUME TurnInv, ServerAnswers
  PROVE  TurnInv'
<1>1. /\ wire.kind \in {"allocate", "permission", "refresh"}
      /\ UNCHANGED <<phase, client, refused, spent>>
  BY DEF ServerAnswers, Answers
<1>2. CASE wire' = Challenge /\ server' = server
  <2>1. wire' \in Wire /\ wire'.kind = "error"
    BY <1>2, WireTypes DEF Challenge, Nonce
  <2> QED  BY <1>1, <1>2, <2>1 DEF TurnInv, TypesOK, RequestFits, ServerHolds, allocated, client
<1>3. ASSUME NEW life \in Grants, wire' = [kind |-> "success", life |-> life],
             \/ wire.kind = "allocate" /\ server' = [life |-> life, permitted |-> 0]
             \/ wire.kind = "permission" /\ server' = [server EXCEPT !.permitted = PermissionLife]
             \/ wire.kind = "refresh" /\ server.life > 0 /\ server' = [server EXCEPT !.life = life]
      PROVE  TurnInv'
  <2>1. wire' \in Wire /\ wire'.kind = "success" /\ wire'.life = life
    BY <1>3, WireTypes
  <2>2. life \in Nat
    BY Lifetimes
  <2>3. CASE wire.kind = "allocate"
    BY <1>1, <1>3, <2>1, <2>2, <2>3
       DEF TurnInv, TypesOK, RequestFits, ServerHolds, allocated, client
  <2>4. CASE wire.kind = "permission"
    <3>1. /\ server' \in [life : Nat, permitted : Nat]
          /\ server'.life = server.life /\ server'.permitted = PermissionLife
      BY <1>3, <2>4, Lifetimes DEF TurnInv, TypesOK
    <3>2. phase = "permit" /\ UNCHANGED <<phase, permission, refreshIn, nonce, refused, spent>>
      BY <1>1, <2>4 DEF TurnInv, RequestFits, client
    <3>3. /\ permission <= PermissionLife
          /\ spent.restart = 0 => refreshIn < server.life
      BY <3>2, Lifetimes DEF TurnInv, TypesOK, ServerHolds, allocated
    <3> QED
      BY <2>1, <3>1, <3>2, <3>3 DEF TurnInv, TypesOK, RequestFits, ServerHolds, allocated
  <2>5. CASE wire.kind = "refresh"
    <3>1. /\ server' \in [life : Nat, permitted : Nat]
          /\ server'.life = life /\ server'.permitted = server.permitted
      BY <1>3, <2>2, <2>5 DEF TurnInv, TypesOK
    <3>2. phase = "refresh" /\ UNCHANGED <<phase, permission, refreshIn, nonce, refused, spent>>
      BY <1>1, <2>5 DEF TurnInv, RequestFits, client
    <3>3. refreshIn = 0 /\ life > 0
      BY <3>2, Lifetimes DEF TurnInv, RequestFits
    <3> QED
      BY <2>1, <2>2, <3>1, <3>2, <3>3 DEF TurnInv, TypesOK, RequestFits, ServerHolds, allocated
  <2> QED  BY <1>1, <2>3, <2>4, <2>5
<1> QED  BY Zenon, <1>1, <1>2, <1>3 DEF ServerAnswers, Answers

\* A nonce goes stale in the hands of the client and on the way.
LEMMA NonceFits ==
  ASSUME TurnInv, NonceExpires
  PROVE  TurnInv'
<1>1. /\ nonce' \in Nonce /\ UNCHANGED <<phase, refreshIn, permission, server, refused>>
      /\ spent' \in [loss : Nat, stale : Nat, restart : Nat] /\ spent'.restart = spent.restart
  BY DEF NonceExpires, TurnInv, TypesOK, Nonce
<1>2. /\ wire' \in Wire /\ wire'.kind = wire.kind
      /\ wire.kind = "success" => wire'.life = wire.life
  <2>1. CASE wire' = wire
    BY <2>1 DEF TurnInv, TypesOK
  <2>2. CASE wire' # wire
    <3>1. "nonce" \in DOMAIN wire /\ wire' = [wire EXCEPT !.nonce = "stale"]
      BY <2>2 DEF NonceExpires
    <3>2. wire \in [kind : {"allocate", "permission", "refresh", "error"}, nonce : Nonce]
      BY <3>1 DEF Wire, TurnInv, TypesOK
    <3> QED  BY <3>1, <3>2 DEF Wire, Nonce
  <2> QED  BY <2>1, <2>2
<1> QED  BY <1>1, <1>2 DEF TurnInv, TypesOK, RequestFits, ServerHolds, allocated

\* What is lost or damaged answers nothing.
LEMMA LoseFits ==
  ASSUME TurnInv, Lose
  PROVE  TurnInv'
<1>1. /\ UNCHANGED <<nonce, phase, refreshIn, permission, server, refused>>
      /\ spent' \in [loss : Nat, stale : Nat, restart : Nat] /\ spent'.restart = spent.restart
  BY DEF Lose, TurnInv, TypesOK, client
<1>2. wire' \in Wire /\ wire'.kind \in {"nothing", "malformed"}
  BY WireTypes DEF Lose
<1> QED  BY <1>1, <1>2 DEF TurnInv, TypesOK, RequestFits, ServerHolds, allocated

\* After a restart nothing is claimed of the server.
LEMMA RestartFits ==
  ASSUME TurnInv, ServerRestart
  PROVE  TurnInv'
<1>1. /\ UNCHANGED <<nonce, phase, refreshIn, permission, wire, refused>>
      /\ spent' \in [loss : Nat, stale : Nat, restart : Nat] /\ spent'.restart # 0
      /\ server' \in [life : Nat, permitted : Nat]
  BY DEF ServerRestart, TurnInv, TypesOK, client, NoAllocation
<1> QED  BY <1>1 DEF TurnInv, TypesOK, RequestFits

\* The clocks of both ends run together.
LEMMA TickFits ==
  ASSUME TurnInv, Tick
  PROVE  TurnInv'
<1>1. /\ phase = "ready" /\ refreshIn > 0 /\ refreshIn' = refreshIn - 1
      /\ UNCHANGED <<nonce, phase, wire, refused, spent>>
  BY DEF Tick
<1>2. /\ permission' \in Nat /\ permission' <= permission
      /\ permission' = IF permission = 0 THEN 0 ELSE permission - 1
  BY DEF Tick, Down, TurnInv, TypesOK
<1>3. /\ server' \in [life : Nat, permitted : Nat]
      /\ server'.life = (IF server.life = 0 THEN 0 ELSE server.life - 1)
      /\ server'.permitted = IF server.permitted = 0 THEN 0 ELSE server.permitted - 1
  BY DEF Tick, Down, TurnInv, TypesOK
<1>4. refreshIn' \in Nat /\ permission' <= PermissionTtl
  BY <1>1, <1>2, Lifetimes DEF TurnInv, TypesOK
<1>5. spent.restart = 0 => refreshIn' < server'.life /\ permission' <= server'.permitted
  BY <1>1, <1>2, <1>3 DEF TurnInv, TypesOK, ServerHolds, allocated
<1> QED  BY <1>1, <1>2, <1>3, <1>4, <1>5 DEF TurnInv, TypesOK, RequestFits, ServerHolds, allocated

\* The steps that move only the queue, the stream or the task.
LEMMA QuietFits ==
  ASSUME TurnInv, UNCHANGED <<client, wire, server, refused, spent>>,
         phase' = phase \/ (phase = "waiting" /\ phase' \in {"connecting", "stopped"})
  PROVE  TurnInv'
<1>1. CASE phase' = phase
  BY <1>1 DEF TurnInv, TypesOK, RequestFits, ServerHolds, allocated, client
<1>2. CASE phase = "waiting" /\ phase' \in {"connecting", "stopped"}
  BY <1>2 DEF TurnInv, TypesOK, RequestFits, ServerHolds, allocated, client
<1> QED  BY <1>1, <1>2

\* Every step keeps the invariant.
LEMMA TurnStep == TurnInv /\ [Next]_vars => TurnInv'
<1> SUFFICES ASSUME TurnInv, [Next]_vars PROVE TurnInv'
  OBVIOUS
<1>1. CASE connect \/ allocate \/ allocate_authenticated
  BY <1>1, ConnectFits, AllocateFits, AuthenticatedFits
<1>2. CASE take_outbound \/ create_permission \/ refresh_due \/ refresh
  BY <1>2, TakeFits, PermissionFits, RefreshDueFits, RefreshFits
<1>3. CASE bail \/ timed_out \/ Stop
  BY <1>3, EndedFits DEF bail, timed_out, Stop
<1>4. CASE run_route
  BY <1>4, QuietFits DEF run_route
<1>5. CASE connect_and_forward_tls
  <2>1. CASE Ended
    BY <1>5, <2>1, EndedFits DEF connect_and_forward_tls, read_turn_stream_message
  <2>2. CASE ~Ended
    BY <1>5, <2>2, QuietFits DEF connect_and_forward_tls, read_turn_stream_message
  <2> QED  BY <2>1, <2>2
<1>6. CASE try_send_any \/ Drop
  BY <1>6, QuietFits DEF try_send_any, Drop
<1>7. CASE ServerAnswers \/ NonceExpires \/ Lose \/ ServerRestart \/ Tick
  BY <1>7, ServerFits, NonceFits, LoseFits, RestartFits, TickFits
<1>8. CASE UNCHANGED vars
  BY <1>8, QuietFits DEF vars
<1> QED
  BY <1>1, <1>2, <1>3, <1>4, <1>5, <1>6, <1>7, <1>8 DEF Next, ClientNext, connect_and_forward

\* Every packet goes out under an allocation and a permission that the server
\* still holds, unless it lost them in a restart.
THEOREM PermittedSends == Spec => []SendsArePermitted
<1>1. TurnInv => SendsArePermitted
  BY DEF TurnInv, SendsArePermitted
<1> QED  BY <1>1, TurnInit, TurnStep, PTL DEF Spec

-----------------------------------------------------------------------------
(* The port mapping *)

CONSTANTS Supported, Mobile, Wans, Reported, Renewal, Lag, Lifetime, Capacity,
    StunLife, MaxReloads, None
VARIABLES speaks, wan, lease, protocol, held, candidate, advertised, timer, stun,
    failed, losses, restarts, reloads
Mapping == INSTANCE PortMapping

\* The mappings that outlive a renewal that fails.
Long == {"pcp", "natpmp"}

\* How late the renewal after next may be.
Slack == Renewal + Lag

\* What is left of the lease: each renewal that failed took at most a Slack, and
\* the time since the last attempt has passed.
LeaseLeft ==
    protocol \in Long /\ restarts = 0 =>
      /\ failed = 0 => lease >= Lifetime[protocol] - (Renewal - timer)
      /\ failed = 1 => lease >= Lifetime[protocol] - Slack - (Renewal - timer)
      /\ failed = 2 => lease >= Lifetime[protocol] - Slack - Slack - (Renewal - timer)

MappingTypes ==
    /\ speaks \subseteq Mapping!Protocol
    /\ lease \in Int /\ lease >= 0
    /\ restarts \in Nat /\ failed \in Nat
    /\ timer \in Int /\ -Lag <= timer /\ timer <= Renewal

MappingInv == MappingTypes /\ LeaseLeft

\* The lifetimes, as the steps use them.
LEMMA Leases ==
  ASSUME Mapping!LifetimesFit
  PROVE  /\ Renewal \in Int /\ Renewal >= 0 /\ Lag \in Int /\ Lag >= 0
         /\ Slack \in Int /\ Slack = Renewal + Lag /\ None \notin Long
         /\ \A p \in Long : Lifetime[p] > Slack + Slack + Slack
         /\ \A p \in Mapping!Protocol : Lifetime[p] \in Int /\ Lifetime[p] >= 0
  BY DEF Mapping!LifetimesFit, Slack, Long, Mapping!Protocol

\* What a renewal asks for is the protocol's lifetime.
LEMMA RenewedLease ==
  ASSUME protocol \in Mapping!Protocol
  PROVE  Mapping!Renewed.lease = Lifetime[protocol]
  BY DEF Mapping!Protocol, Mapping!Renewed, Mapping!PcpMapping, Mapping!NatPmpRenewal,
         Mapping!UpnpMapping

\* So does the first request.
LEMMA EstablishedLease ==
  ASSUME NEW p \in Mapping!Protocol
  PROVE  Mapping!Established[p].lease = Lifetime[p]
  BY DEF Mapping!Protocol, Mapping!Established, Mapping!PcpMapping, Mapping!NatPmpMapping,
         Mapping!UpnpMapping

\* Nothing is mapped at first.
LEMMA MappingInit ==
  ASSUME Mapping!LifetimesFit, Mapping!Init
  PROVE  MappingInv
<1>1. /\ speaks \in Supported /\ lease = 0 /\ protocol = "starting" /\ timer = Renewal
      /\ failed = 0 /\ restarts = 0
  BY DEF Mapping!Init
<1>2. speaks \subseteq Mapping!Protocol
  BY Zenon, <1>1 DEF Mapping!LifetimesFit
<1> QED  BY <1>1, <1>2, Leases DEF MappingInv, MappingTypes, LeaseLeft, Long

\* The first mapping has its whole lifetime.
LEMMA EstablishHolds ==
  ASSUME Mapping!LifetimesFit, MappingInv, Mapping!establish
  PROVE  MappingInv'
<1>1. timer' = Renewal /\ failed' = 0 /\ UNCHANGED <<restarts, speaks>>
  BY DEF Mapping!establish
<1>2. \/ protocol' = None /\ lease' = lease
      \/ protocol' \in Mapping!Protocol /\ lease' = Lifetime[protocol']
  <2>1. \/ protocol' = None /\ lease' = lease
        \/ \E p \in speaks : protocol' = p /\ lease' = Mapping!Established[p].lease
    BY Zenon DEF Mapping!establish
  <2> QED  BY Zenon, <2>1, EstablishedLease DEF MappingInv, MappingTypes
<1>3. MappingTypes'
  BY <1>1, <1>2, Leases DEF MappingInv, MappingTypes
<1>4. LeaseLeft'
  BY <1>1, <1>2, Leases DEF LeaseLeft, Long, Mapping!Protocol
<1> QED  BY <1>3, <1>4 DEF MappingInv

\* A renewal gives the whole lifetime again.
LEMMA RenewHolds ==
  ASSUME Mapping!LifetimesFit, MappingInv, Mapping!RenewOk
  PROVE  MappingInv'
<1>1. /\ protocol \in Mapping!Protocol /\ lease' = Mapping!Renewed.lease
      /\ timer' = Renewal /\ failed' = 0 /\ UNCHANGED <<speaks, protocol, restarts>>
  BY DEF Mapping!RenewOk, Mapping!Due
<1>2. lease' = Lifetime[protocol]
  BY <1>1, RenewedLease
<1>3. MappingTypes'
  BY <1>1, <1>2, Leases DEF MappingInv, MappingTypes
<1>4. LeaseLeft'
  BY <1>1, <1>2, Leases DEF LeaseLeft, Long, Mapping!Protocol
<1> QED  BY <1>3, <1>4 DEF MappingInv

\* One that fails has cost at most a Slack.
LEMMA FailureHolds ==
  ASSUME Mapping!LifetimesFit, MappingInv, Mapping!RenewFails
  PROVE  MappingInv'
<1>1. /\ protocol \in Mapping!Protocol /\ timer <= 0
      /\ lease' = lease \/ lease' = Mapping!Renewed.lease
      /\ timer' = Renewal /\ failed' = failed + 1 /\ UNCHANGED <<speaks, protocol, restarts>>
  BY DEF Mapping!RenewFails, Mapping!Due
<1>2. lease' = lease \/ lease' = Lifetime[protocol]
  BY <1>1, RenewedLease
<1>3. MappingTypes'
  BY <1>1, <1>2, Leases DEF MappingInv, MappingTypes
<1>4. LeaseLeft'
  BY <1>1, <1>2, Leases DEF MappingInv, MappingTypes, LeaseLeft, Long, Mapping!Protocol
<1> QED  BY <1>3, <1>4 DEF MappingInv

\* The lease and the timer run together.
LEMMA TickHolds ==
  ASSUME Mapping!LifetimesFit, MappingInv, Mapping!Tick
  PROVE  MappingInv'
<1>1. /\ timer > -Lag /\ timer' = (IF protocol = None THEN timer ELSE timer - 1)
      /\ lease' = (IF lease > 0 THEN lease - 1 ELSE 0)
      /\ UNCHANGED <<speaks, protocol, restarts, failed>>
  BY DEF Mapping!Tick
<1>2. MappingTypes'
  BY <1>1, Leases DEF MappingInv, MappingTypes
<1>3. LeaseLeft'
  <2> SUFFICES ASSUME protocol \in Long, restarts = 0, failed <= 2
               PROVE  timer' = timer - 1 /\ lease' = lease - 1
    BY <1>1, Leases DEF MappingInv, MappingTypes, LeaseLeft, Long, Mapping!Protocol
  <2>1. lease > 0
    BY <1>1, Leases DEF MappingInv, MappingTypes, LeaseLeft, Long, Mapping!Protocol
  <2> QED  BY <1>1, <2>1, Leases
<1> QED  BY <1>2, <1>3 DEF MappingInv

\* The other steps leave the mapping alone, or end it.
LEMMA OtherHolds ==
  ASSUME Mapping!LifetimesFit, MappingInv,
         \/ Mapping!StunRequest \/ (\E endpoint \in Reported : Mapping!StunResponse(endpoint))
         \/ Mapping!RouterRestart \/ Mapping!Reload \/ UNCHANGED Mapping!vars
  PROVE  MappingInv'
<1>1. CASE Mapping!Reload
  <2>1. /\ lease' = 0 \/ lease' = lease
        /\ timer' = Renewal /\ failed' = 0 /\ protocol' = "starting" /\ UNCHANGED <<speaks, restarts>>
    BY <1>1 DEF Mapping!Reload
  <2> QED  BY <2>1, Leases DEF MappingInv, MappingTypes, LeaseLeft, Long
<1>2. CASE Mapping!RouterRestart
  <2>1. lease' = 0 /\ restarts' = restarts + 1 /\ UNCHANGED <<speaks, timer, failed, protocol>>
    BY <1>2 DEF Mapping!RouterRestart, Mapping!worker
  <2> QED  BY <2>1 DEF MappingInv, MappingTypes, LeaseLeft
<1>3. CASE UNCHANGED <<speaks, lease, timer, failed, protocol, restarts>>
  BY <1>3 DEF MappingInv, MappingTypes, LeaseLeft
<1> QED
  BY <1>1, <1>2, <1>3, Zenon
     DEF Mapping!StunRequest, Mapping!StunResponse, Mapping!vars, Mapping!router, Mapping!worker

\* With PCP and NAT-PMP, two renewals in a row may fail and the mapping that is
\* advertised still exists at a router that was not restarted, if a lease is
\* longer than three renewal intervals.
THEOREM MappingIsHeld ==
  ASSUME Mapping!LifetimesFit
  PROVE  Mapping!Spec => []Mapping!LeaseHeld
<1>1. Mapping!Init => MappingInv
  BY MappingInit
<1>2. MappingInv /\ [Mapping!Next]_(Mapping!vars) => MappingInv'
  BY EstablishHolds, RenewHolds, FailureHolds, TickHolds, OtherHolds DEF Mapping!Next
<1>3. MappingInv => Mapping!LeaseHeld
  BY Leases DEF MappingInv, MappingTypes, LeaseLeft, Long, Mapping!LeaseHeld, Mapping!Protocol
<1> QED  BY <1>1, <1>2, <1>3, PTL DEF Mapping!Spec
=============================================================================
