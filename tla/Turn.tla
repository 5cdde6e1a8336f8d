-------------------------------- MODULE Turn --------------------------------
(***************************************************************************)
(* One TURN route of an agent (meshlaked, turn.rs): allocation with a      *)
(* challenge, permissions made on demand, refresh at half of the lifetime, *)
(* and a new connection after any error.  Over UDP and over TLS the steps  *)
(* are the same; a TLS stream can also come out of step when a half-read   *)
(* message is dropped.                                                     *)
(*                                                                         *)
(* A tick is 30 seconds, longer than a round trip with its time-out.  The  *)
(* server is external: it keeps an allocation for the lifetime it grants   *)
(* and a permission for PermissionLife.                                    *)
(***************************************************************************)
EXTENDS Integers

CONSTANTS
    Kinds,              \* subset of {"udp", "tls"}: TurnTransport
    Grants,             \* lifetimes that the server may grant
    MinLife, MaxLife,   \* clamp of a granted lifetime
    PermissionLife,     \* what the server keeps a permission for
    PermissionTtl,      \* what the client counts on
    PermissionMargin,   \* and the time before its end when it renews it
    QueueCapacity,      \* OUTBOUND_QUEUE_CAPACITY
    MaxLosses, MaxStale, MaxRestarts        \* bounds

VARIABLES
    kind,           \* TurnTransport of the route
    phase,          \* where the route's task is
    attempts,       \* authenticated Allocate requests sent, of 2
    nonce,          \* the nonce held: none, current or stale
    wire,           \* the request or the response under way
    refreshIn,      \* ticks until refresh_deadline
    permission,     \* ticks until the permission held expires
    queue,          \* packets in the outbound queue
    stream,         \* reading from the stream: whole, header, broken
    shutdown,       \* the transport was dropped
    server,         \* the server's allocation for this connection
    refused,        \* a Send indication met no allocation or permission
    spent

client == <<attempts, nonce, refreshIn, permission>>
vars == <<kind, phase, client, wire, queue, stream, shutdown, server, refused, spent>>

Nothing == [kind |-> "nothing"]
Request(k) == [kind |-> k, nonce |-> nonce]
NoAllocation == [life |-> 0, permitted |-> 0]
Down(n) == IF n = 0 THEN 0 ELSE n - 1

Clamp(n) == IF n < MinLife THEN MinLife ELSE IF n > MaxLife THEN MaxLife ELSE n

\* A lifetime that the server grants outlasts the half of it, or of the least
\* that the client assumes, after which the client refreshes; and a permission
\* lasts as long as the client counts on it.
ASSUME TurnAssumption ==
    /\ Grants \subseteq Nat /\ MinLife \in Nat /\ MaxLife \in Nat
    /\ \A g \in Grants : Clamp(g) \div 2 < g
    /\ PermissionMargin \in Nat /\ PermissionTtl \in Nat
    /\ PermissionLife \in Nat \ {0} /\ PermissionTtl <= PermissionLife

Init ==
    /\ kind \in Kinds
    /\ phase = "connecting"
    /\ attempts = 0 /\ nonce = "none" /\ refreshIn = 0 /\ permission = 0
    /\ wire = Nothing
    /\ queue = 0
    /\ stream = "whole"
    /\ shutdown = FALSE
    /\ server = NoAllocation
    /\ refused = FALSE
    /\ spent = [loss |-> 0, stale |-> 0, restart |-> 0]

allocated == phase \in {"ready", "permit", "refresh"}

-----------------------------------------------------------------------------
\* The client.

\* The worker hands over a packet; it is told at once if no route takes it.
try_send_any ==
    /\ ~shutdown /\ allocated /\ queue < QueueCapacity
    /\ queue' = queue + 1
    /\ UNCHANGED <<kind, phase, client, wire, stream, shutdown, server, refused, spent>>

\* A connection: a socket or a TLS stream, and a first Allocate without
\* credentials.
connect ==
    /\ phase = "connecting"
    /\ phase' = "challenge"
    /\ nonce' = "none" /\ attempts' = 0 /\ permission' = 0 /\ refreshIn' = 0
    /\ wire' = [kind |-> "allocate", nonce |-> "none"]
    /\ stream' = "whole"
    /\ server' = NoAllocation
    /\ UNCHANGED <<kind, queue, shutdown, refused, spent>>

\* The connection ends by an error or a shutdown: what was under way and the
\* packet taken from the queue are lost, and the task waits or stops.
Ended ==
    /\ phase' = IF shutdown THEN "stopped" ELSE "waiting"
    /\ wire' = Nothing
    /\ UNCHANGED <<client, stream>>

\* Messages of other transactions are read and dropped.
receive_response(waiting) == phase = waiting /\ wire.kind \in {"success", "error"}

\* A challenge is answered with credentials, ...
allocate ==
    /\ receive_response("challenge") /\ wire.kind = "error"
    /\ phase' = "allocate"
    /\ attempts' = 1
    /\ nonce' = wire.nonce
    /\ wire' = [kind |-> "allocate", nonce |-> wire.nonce]
    /\ UNCHANGED <<kind, refreshIn, permission, queue, stream, shutdown, server, refused, spent>>

\* ... and once more if the nonce was stale.
allocate_authenticated ==
    /\ receive_response("allocate")
    /\ IF wire.kind = "success"
         THEN /\ phase' = "ready"
              /\ refreshIn' = Clamp(wire.life) \div 2
              /\ wire' = Nothing
              /\ UNCHANGED <<attempts, nonce, permission, stream>>
         ELSE IF attempts < 2
           THEN /\ attempts' = attempts + 1
                /\ nonce' = wire.nonce
                /\ wire' = [kind |-> "allocate", nonce |-> wire.nonce]
                /\ UNCHANGED <<phase, refreshIn, permission, stream>>
           ELSE Ended
    /\ UNCHANGED <<kind, queue, shutdown, server, refused, spent>>

\* A read that was under way is dropped with the header it has taken.
Dropped == IF stream = "header" THEN "broken" ELSE stream

\* The server forwards a Send indication, or discards it without an answer.
send_indication ==
    refused' = (refused \/ (spent.restart = 0 /\ (server.life = 0 \/ server.permitted = 0)))

permission_due == permission <= PermissionMargin

\* A packet is taken from the queue.
take_outbound ==
    /\ phase = "ready" /\ queue > 0
    /\ queue' = queue - 1
    /\ stream' = Dropped
    /\ IF permission_due
         THEN phase' = "permit" /\ wire' = Request("permission") /\ UNCHANGED refused
         ELSE send_indication /\ UNCHANGED <<phase, wire>>
    /\ UNCHANGED <<kind, client, shutdown, server, spent>>

create_permission ==
    /\ receive_response("permit")
    /\ IF wire.kind = "success"
         THEN /\ phase' = "ready"
              /\ permission' = PermissionTtl
              /\ wire' = Nothing
              /\ send_indication
              /\ UNCHANGED <<attempts, nonce, refreshIn, stream>>
         ELSE Ended /\ UNCHANGED refused
    /\ UNCHANGED <<kind, queue, shutdown, server, spent>>

refresh_due ==
    /\ phase = "ready" /\ refreshIn = 0
    /\ phase' = "refresh"
    /\ wire' = Request("refresh")
    /\ stream' = Dropped
    /\ UNCHANGED <<kind, client, queue, shutdown, server, refused, spent>>

\* A bug: the deadline is not moved by the answer's lifetime
RefreshAfterMax(granted) == MaxLife
RefreshAfter(granted) == Clamp(granted) \div 2
refresh ==
    /\ receive_response("refresh")
    /\ IF wire.kind = "success"
         THEN /\ phase' = "ready"
              /\ refreshIn' = RefreshAfter(wire.life)
              /\ wire' = Nothing
              /\ UNCHANGED <<attempts, nonce, permission, stream>>
         ELSE Ended
    /\ UNCHANGED <<kind, queue, shutdown, server, refused, spent>>

\* A Data indication comes over the stream in two parts.
read_turn_stream_message ==
    /\ kind = "tls" /\ phase = "ready"
    /\ \/ stream = "whole" /\ stream' = "header" /\ UNCHANGED <<phase, client, wire>>
       \/ stream = "header" /\ stream' = "whole" /\ UNCHANGED <<phase, client, wire>>
       \/ stream = "broken" /\ Ended
    /\ UNCHANGED <<kind, queue, shutdown, server, refused, spent>>

\* A message that is not well formed ends the connection, whatever it answers.
parse_message(message) == message.kind # "malformed"
bail ==
    /\ phase \in {"challenge", "allocate", "ready", "permit", "refresh"}
    /\ ~parse_message(wire)
    /\ Ended
    /\ UNCHANGED <<kind, queue, shutdown, server, refused, spent>>

\* No answer within ALLOCATION_TIMEOUT.
timed_out ==
    /\ phase \in {"challenge", "allocate", "permit", "refresh"}
    /\ wire = Nothing
    /\ Ended
    /\ UNCHANGED <<kind, queue, shutdown, server, refused, spent>>

\* RECONNECT_DELAY.
\* A bug: the task waits on after an error
run_route_once ==
    /\ phase = "waiting" /\ shutdown
    /\ phase' = "stopped"
    /\ UNCHANGED <<kind, client, wire, queue, stream, shutdown, server, refused, spent>>
run_route ==
    /\ phase = "waiting"
    /\ phase' = IF shutdown THEN "stopped" ELSE "connecting"
    /\ UNCHANGED <<kind, client, wire, queue, stream, shutdown, server, refused, spent>>

\* The transport is dropped; a request under way is waited for first.
Drop ==
    /\ ~shutdown
    /\ shutdown' = TRUE
    /\ UNCHANGED <<kind, phase, client, wire, queue, stream, server, refused, spent>>

Stop ==
    /\ shutdown /\ phase = "ready"
    /\ Ended
    /\ UNCHANGED <<kind, queue, shutdown, server, refused, spent>>

-----------------------------------------------------------------------------
\* The server and the network.

Challenge == [kind |-> "error", nonce |-> "current"]

Answers(reply, s) ==
    /\ wire' = reply
    /\ server' = s
    /\ UNCHANGED <<kind, phase, client, queue, stream, shutdown, refused, spent>>

ServerAnswers ==
    /\ wire.kind \in {"allocate", "permission", "refresh"}
    /\ IF wire.nonce # "current" THEN Answers(Challenge, server)
       ELSE \E life \in Grants :
              LET reply == [kind |-> "success", life |-> life] IN
              \/ /\ wire.kind = "allocate"
                 /\ Answers(reply, [life |-> life, permitted |-> 0])
              \/ /\ wire.kind = "permission"
                 /\ IF server.life > 0
                      THEN Answers(reply, [server EXCEPT !.permitted = PermissionLife])
                      ELSE Answers(Challenge, server)
              \/ /\ wire.kind = "refresh"
                 /\ IF server.life > 0
                      THEN Answers(reply, [server EXCEPT !.life = life])
                      ELSE Answers(Challenge, server)

\* The server takes no nonce issued so far any more.
NonceExpires ==
    /\ spent.stale < MaxStale
    /\ nonce = "current" \/ (wire # Nothing /\ wire.kind = "error")
    /\ spent' = [spent EXCEPT !.stale = @ + 1]
    /\ nonce' = IF nonce = "current" THEN "stale" ELSE nonce
    /\ wire' = IF wire # Nothing /\ "nonce" \in DOMAIN wire /\ wire.nonce = "current"
                 THEN [wire EXCEPT !.nonce = "stale"] ELSE wire
    /\ UNCHANGED <<kind, phase, attempts, refreshIn, permission, queue, stream, shutdown, server, refused>>

\* A message is lost, or arrives damaged.
Lose ==
    /\ wire # Nothing /\ spent.loss < MaxLosses
    /\ spent' = [spent EXCEPT !.loss = @ + 1]
    /\ wire' = Nothing \/ (wire.kind \in {"success", "error"} /\ wire' = [kind |-> "malformed"])
    /\ UNCHANGED <<kind, phase, client, queue, stream, shutdown, server, refused>>

ServerRestart ==
    /\ spent.restart < MaxRestarts
    /\ spent' = [spent EXCEPT !.restart = @ + 1]
    /\ server' = NoAllocation
    /\ UNCHANGED <<kind, phase, client, wire, queue, stream, shutdown, refused>>

\* Nothing that is due waits for a tick.
Tick ==
    /\ phase = "ready" /\ refreshIn > 0
    /\ refreshIn' = refreshIn - 1
    /\ permission' = Down(permission)
    /\ server' = [life |-> Down(server.life), permitted |-> Down(server.permitted)]
    /\ UNCHANGED <<kind, phase, attempts, nonce, wire, queue, stream, shutdown, refused, spent>>

connect_and_forward ==
    \/ connect \/ allocate \/ allocate_authenticated \/ take_outbound
    \/ create_permission \/ refresh_due \/ refresh \/ bail \/ timed_out \/ Stop

connect_and_forward_tls == read_turn_stream_message

ClientNext == connect_and_forward \/ run_route

Next ==
    \/ ClientNext \/ connect_and_forward_tls \/ try_send_any \/ Drop
    \/ ServerAnswers \/ NonceExpires \/ Lose \/ ServerRestart \/ Tick

\* A select! polls its branches in random order: a branch that stays ready is
\* taken in the end.
Fairness == WF_vars(ClientNext) /\ SF_vars(Stop) /\ WF_vars(ServerAnswers)

Spec == Init /\ [][Next]_vars
FairSpec == Spec /\ Fairness

-----------------------------------------------------------------------------
\* Every packet goes out under an allocation and a permission that the
\* server still holds, unless it lost them in a restart: the client renews
\* both in time for every lifetime the server may grant, whatever fails in
\* between (the permission's 240 s less 30 s, the refresh at half-life).
SendsArePermitted == ~refused

\* The route comes back to an allocation after any error, and ends after its
\* transport is dropped: no lost answer, stale nonce or broken stream leaves
\* the task waiting (run_route, run_tls_route).
RouteSettles == /\ []<>(phase \in {"ready", "stopped"})
                /\ shutdown ~> phase = "stopped"
=============================================================================
