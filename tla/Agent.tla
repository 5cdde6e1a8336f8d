------------------------------- MODULE Agent -------------------------------
(***************************************************************************)
(* The control plane of meshlaked for one network: what the agent has been *)
(* told by its controller and its user, what it has on disk, what it has   *)
(* set up on the host, and which sessions its transport worker may hold.   *)
(*                                                                         *)
(* Every handler holds adapter_lifecycle from start to end and is one      *)
(* action.  The supervisor's round is several: it fetches, with no lock    *)
(* held, and applies later.  So is enrolment, which copies the control     *)
(* plane it finds, waits for the network, and then writes the copy back.   *)
(*                                                                         *)
(* Time is an era: a manifest lives for 90 seconds, and Lapse ends the     *)
(* life of every manifest issued before it.                                *)
(***************************************************************************)
EXTENDS Integers, FiniteSets

CONSTANTS
    Gateway,     \* the other devices that may serve as an exit
    Self,        \* this device
    None,
    MaxFaults,   \* bounds: the failures of each kind that a behaviour may have
    MaxEpoch,    \* bound: authorization and policy epochs
    MaxEra,      \* bound: outages that outlast a manifest
    MaxCalls     \* bound: changes made by the user

\* what may fail: a write, a name lookup, a command to the host, a request
Fault == {"disk", "dns", "platform", "network"}

ASSUME AgentAssumption ==
    /\ Self \notin Gateway /\ None \notin Gateway
    /\ MaxFaults \subseteq [Fault -> Nat]
    /\ {MaxEpoch, MaxEra, MaxCalls} \subseteq Nat /\ MaxEpoch > 0

VARIABLES
    controller,  \* the controller's records of the network
    era,
    live,        \* PersistedState in memory
    host,        \* the adapter with its record of the rules it has applied,
                 \* the state file, and the failures left
    task,        \* where the authorization supervisor is in its round
    enrolment,   \* an enrolment between its two locks
    stale,       \* the worker may have sessions of another epoch or network key
    reload,      \* transport_revision differs from the worker's
    calls

vars == <<controller, era, live, host, task, enrolment, stale, reload, calls>>

Device == Gateway \cup {Self}
Epoch == 0 .. MaxEpoch
Era == 0 .. MaxEra

\* what the controller signs
Authorization == [epoch : Epoch, key : Epoch, cert : Epoch,
                  members : SUBSET Device, era : Era]
Policy == [epoch : Epoch, key : Epoch, exits : SUBSET Device, era : Era]

\* JoinedNetwork, with the control plane that the refreshes change
Network == [cert : Epoch, key : Epoch, auth : Authorization,
            policy : Policy \cup {None},
            via : Gateway \cup {None}, kill : BOOLEAN]
State == [net : Network \cup {None}, gateway : BOOLEAN]

Plan == [policy : Epoch, via : Gateway \cup {None}]
NoPlan == [policy |-> 0, via |-> None]

Idle == [at |-> "idle"]
Target == [cert : Epoch, key : Epoch, epoch : Epoch]
Task ==
    {Idle}
    \cup [at : {"fetch", "ask"}, target : Target]
    \cup [at : {"apply"}, target : Target, auth : Authorization,
          action : {"UpdateManifest", "Update", "Revoke"}]
    \cup [at : {"policy"}, policy : Policy]
Enrolment == [auth : Authorization, policy : Policy \cup {None},
              via : Gateway \cup {None}, kill : BOOLEAN]

-----------------------------------------------------------------------------
(* What the controller would sign now. *)

sign_authorization == [epoch |-> controller.epoch, key |-> controller.key,
                       cert |-> controller.cert,
                       members |-> controller.members, era |-> era]

sign_policy == [epoch |-> controller.policy, key |-> controller.key,
                exits |-> controller.exits, era |-> era]

verify_authorization(a) == a.era = era

\* The gateways' certificates name the key epoch they were signed under.
verify_for_network(p, a) ==
    /\ verify_authorization(a)
    /\ p.era = era
    /\ p.exits # {} => p.exits \subseteq a.members /\ p.key = a.key

(* A local choice that the policy no longer supports is dropped. *)

\* A bug: only a missing policy clears the choice
ClearWithoutPolicy(n) ==
    IF n.policy # None THEN n ELSE [n EXCEPT !.via = None, !.kill = FALSE]

clear_unusable_exit_selection(n) ==
    IF n.policy # None /\ n.via # None /\ n.via \in n.policy.exits
    THEN n
    ELSE [n EXCEPT !.via = None, !.kill = FALSE]

clear_unusable_exit_gateways(s) ==
    [s EXCEPT !.gateway = @ /\ s.net # None /\ s.net.policy # None
                            /\ Self \in s.net.policy.exits]

Cleared(s) ==
    clear_unusable_exit_gateways(
        IF s.net = None THEN s
        ELSE [s EXCEPT !.net = clear_unusable_exit_selection(@)])

\* A bug: what clear_unusable_exit_selection returns is not looked at
ClearingIgnored(s, t) == FALSE

SelectionCleared(s, t) == /\ t.net # None
                          /\ <<t.net.via, t.net.kill>> # <<s.net.via, s.net.kill>>
GatewayCleared(s, t) == s.gateway /\ ~t.gateway

-----------------------------------------------------------------------------
(* The host.  A call gives a set of results: success, or a failure and what *)
(* it leaves behind.  Failures are counted.                                 *)

Ok(h) == {[ok |-> TRUE, host |-> h]}
Refused(h) == {[ok |-> FALSE, host |-> h]}
Fails(kind, h) ==
    IF h.faults[kind] > 0
    THEN Refused([h EXCEPT !.faults[kind] = @ - 1])
    ELSE {}

\* the next call, if this one succeeded
Then(results, next(_)) ==
    UNION {IF r.ok THEN next(r.host) ELSE {r} : r \in results}

\* A bug: the applied policy is forgotten instead of emptied
DeactivateForgetting(h) == [h EXCEPT !.active = FALSE, !.policy = None,
                                     !.gateway = FALSE, !.kill = FALSE]

deactivate(h) == [h EXCEPT !.active = FALSE, !.policy = NoPlan,
                           !.gateway = FALSE, !.kill = FALSE]

\* a failure that ends with the adapter disabled
FailClosed(results, closes) ==
    {IF r.ok \/ ~closes THEN r ELSE [r EXCEPT !.host = deactivate(@)]
        : r \in results}

\* A failed write leaves the old file or the new one.
write_state(h, s) ==
    Ok([h EXCEPT !.disk = s]) \cup Fails("disk", h)
        \cup Fails("disk", [h EXCEPT !.disk = s])

WantsKill(s) == s.net # None /\ s.net.kill

\* Planning a kill switch resolves the controller's and Planet's names.
kill_switch_plan_from_state(h, s) ==
    Ok(h) \cup IF WantsKill(s) THEN Fails("dns", h) ELSE {}

\* PolicyPlan::from_networks
PlanOf(s) == IF s.net = None \/ s.net.policy = None THEN NoPlan
             ELSE [policy |-> s.net.policy.epoch, via |-> s.net.via]
PlanFails(s) ==
    /\ s.net # None
    /\ s.net.policy # None
    /\ \/ s.net.policy.era < era
       \/ /\ s.net.via # None
          /\ \/ ~verify_for_network(s.net.policy, s.net.auth)
             \/ s.net.via \notin s.net.policy.exits

\* The old rules are removed and the new ones applied.  A failure is rolled
\* back, or, if that fails too, ends the adapter's session.
Transaction(h, done, closed) ==
    Ok(done) \cup Fails("platform", h) \cup Fails("platform", closed)

configure_policy(h, s) ==
    IF PlanFails(s) THEN Refused(h)
    ELSE IF ~h.active \/ h.policy = PlanOf(s) THEN Ok(h)
    ELSE Transaction(h, [h EXCEPT !.policy = PlanOf(s)],
                        [h EXCEPT !.active = FALSE, !.policy = NoPlan])

configure_exit_gateways(h, on) ==
    IF ~h.active THEN Refused(h)
    ELSE IF h.gateway = on THEN Ok(h)
    ELSE Transaction(h, [h EXCEPT !.gateway = on], [h EXCEPT !.active = FALSE])

\* The addresses excepted may have changed since the rules were made.
configure_kill_switch(h, on) ==
    IF ~h.active THEN Refused(h)
    ELSE IF ~h.kill /\ ~on THEN Ok(h)
    ELSE Transaction(h, [h EXCEPT !.kill = on], [h EXCEPT !.active = FALSE])

\* Addresses first, then the policy.
configure_networks(h, s) ==
    IF ~h.active THEN Refused(h)
    ELSE Fails("platform", h) \cup configure_policy(h, s)

activate(h) ==
    Ok([h EXCEPT !.active = TRUE]) \cup IF h.active THEN {} ELSE Fails("platform", h)

\* The tail of the refreshes: gateway rules, then the kill switch.
ConfigureRules(h, s, gatewayCloses, killCloses) ==
    IF ~h.active THEN Ok(h)
    ELSE Then(FailClosed(configure_exit_gateways(h, s.gateway), gatewayCloses),
              LAMBDA g : FailClosed(configure_kill_switch(g, WantsKill(s)), killCloses))

-----------------------------------------------------------------------------
\* what the sessions of a network depend on
Context(s) == IF s.net = None THEN None ELSE <<s.net.auth.epoch, s.net.key>>

(* The end of a handler: the state it leaves, the host, and whether it has *)
(* called request_transport_reload.                                         *)
Leave(s, h, reloads) ==
    /\ live' = s
    /\ host' = h
    /\ stale' = (stale \/ (live.net # None /\ Context(s) # Context(live)))
    /\ reload' = (reload \/ reloads)

(* What the supervisor applies. *)

Withdrawn(s) ==
    Cleared(IF s.net = None \/ s.net.policy = None THEN s
            ELSE IF verify_for_network(s.net.policy, s.net.auth) THEN s
            ELSE [s EXCEPT !.net.policy = None])

\* A bug: a revoked network loses its policy and stays
RevokePolicyOnly(s, t) ==
    CASE t.action = "Revoke" -> [s EXCEPT !.net.policy = None]
      [] t.action = "UpdateManifest" -> [s EXCEPT !.net.auth = t.auth]
      [] t.action = "Update" -> [s EXCEPT !.net.auth = t.auth, !.net.key = t.auth.key]

Authorized(s, t) ==
    CASE t.action = "Revoke" -> [s EXCEPT !.net = None]
      [] t.action = "UpdateManifest" -> [s EXCEPT !.net.auth = t.auth]
      [] t.action = "Update" -> [s EXCEPT !.net.auth = t.auth, !.net.key = t.auth.key]

\* UpdateManifest with the epochs it has already changes no security state.
Reloads(s, t) ==
    \/ t.action # "UpdateManifest"
    \/ t.auth.epoch # s.net.auth.epoch
    \/ t.auth.key # s.net.auth.key

Asking(target) == [at |-> "ask", target |-> target]

\* the network is there, with the certificate that the round began with
StillJoined(target) == live.net # None /\ live.net.cert = target.cert

apply_authorization_action ==
    /\ task.at = "apply"
    /\ UNCHANGED <<controller, era, enrolment, calls>>
    /\ \/ /\ ~StillJoined(task.target)
          /\ task' = Asking(task.target)
          /\ UNCHANGED <<live, host, stale, reload>>
       \/ /\ StillJoined(task.target)
          /\ LET s == Withdrawn(Authorized(live, task))
                 reloads == Reloads(live, task)
                 closes == SelectionCleared(live, s) \/ GatewayCleared(live, s)
                 networks(h) ==
                     IF s.net = None THEN FailClosed(configure_policy(h, s), TRUE)
                     ELSE IF reloads /\ h.active
                     THEN FailClosed(configure_networks(h, s), closes)
                     ELSE Ok(h)
                 rules(h) == ConfigureRules(h, s, GatewayCleared(live, s), TRUE)
             IN \E w \in Then(kill_switch_plan_from_state(host, s),
                              LAMBDA h : write_state(h, s)) :
                   IF ~w.ok
                   THEN Leave(s, w.host, FALSE) /\ task' = Idle
                   ELSE \E r \in Then(networks(w.host), rules) :
                           /\ Leave(s, r.host, reloads)
                           /\ task' = IF r.ok THEN Asking(task.target) ELSE Idle

\* A policy is taken if it is no older than the one held, and verifies.
Acceptable(p) ==
    /\ live.net # None
    /\ verify_authorization(live.net.auth)
    /\ live.net.policy # None =>
          /\ p.epoch >= live.net.policy.epoch
          /\ p.epoch = live.net.policy.epoch =>
                p.exits = live.net.policy.exits /\ p.era >= live.net.policy.era
    /\ verify_for_network(p, live.net.auth)

\* same: the two policies were signed in the same second, and are equal
apply_policy_manifest(same) ==
    /\ task.at = "policy"
    /\ task' = Idle
    /\ UNCHANGED <<controller, era, enrolment, calls>>
    /\ \/ /\ \/ ~same /\ ~Acceptable(task.policy)
             \/ same /\ Acceptable(task.policy) /\ live.net.policy = task.policy
          /\ UNCHANGED <<live, host, stale, reload>>
       \/ /\ ~same /\ Acceptable(task.policy)
          /\ LET s == Cleared([live EXCEPT !.net.policy = task.policy])
                 closes == SelectionCleared(live, s) \/ GatewayCleared(live, s)
                 restore(h) ==
                     Then(write_state(h, live),
                          LAMBDA g : FailClosed(configure_policy(g, live), TRUE))
             IN \E w \in Then(kill_switch_plan_from_state(host, s),
                              LAMBDA h : write_state(h, s)) :
                   IF ~w.ok THEN Leave(s, w.host, FALSE)
                   ELSE \E p \in configure_policy(w.host, s) :
                      CASE p.ok ->
                             \E r \in ConfigureRules(p.host, s, GatewayCleared(live, s), TRUE) :
                                Leave(s, r.host, r.ok)
                        [] ~p.ok /\ closes ->
                             Leave(s, deactivate(p.host), FALSE)
                        [] ~p.ok /\ ~closes ->
                             \E r \in restore(p.host) : Leave(live, r.host, FALSE)

Expired(s) ==
    clear_unusable_exit_gateways(
        IF s.net = None \/ s.net.policy = None \/ s.net.policy.era = era THEN s
        ELSE [s EXCEPT !.net = clear_unusable_exit_selection([@ EXCEPT !.policy = None])])

Snapshot(s) == IF s.net = None THEN Idle
               ELSE [at |-> "fetch",
                     target |-> [cert |-> s.net.cert, key |-> s.net.key,
                                 epoch |-> s.net.auth.epoch]]

\* expire_stale_policies, and the snapshot that the round works from
expire_stale_policies ==
    /\ task.at = "idle"
    /\ UNCHANGED <<controller, era, enrolment, calls>>
    /\ LET s == Expired(live)
           platform(h) ==
               Then(configure_policy(h, s),
                    LAMBDA g : ConfigureRules(g, s, GatewayCleared(live, s), TRUE))
       IN IF s = live
          THEN /\ task' = Snapshot(live)
               /\ UNCHANGED <<live, host, stale, reload>>
          ELSE \E r \in Then(Then(write_state(host, s),
                                  LAMBDA h : kill_switch_plan_from_state(h, s)),
                             platform) :
                  /\ Leave(s, r.host, r.ok)
                  /\ task' = IF r.ok THEN Snapshot(s) ELSE Idle

(* What the supervisor fetches. *)

Unreachable ==
    /\ task.at \in {"fetch", "ask"}
    /\ \E r \in Fails("network", host) : host' = r.host
    /\ task' = Idle
    /\ UNCHANGED <<controller, era, live, enrolment, stale, reload, calls>>

\* renew: the certificate or the TURN credential is about to expire
fetch_authorization_action(renew) ==
    /\ task.at = "fetch"
    /\ LET a == sign_authorization
           action == IF Self \notin a.members \/ a.cert # task.target.cert THEN "Revoke"
                     ELSE IF a.key = task.target.key /\ ~renew THEN "UpdateManifest"
                     ELSE "Update"
       IN task' = IF a.epoch < task.target.epoch THEN Idle
                  ELSE [at |-> "apply", target |-> task.target, auth |-> a,
                        action |-> action]
    /\ UNCHANGED <<controller, era, live, host, enrolment, stale, reload, calls>>

refresh_policy ==
    /\ task.at = "ask"
    /\ task' = [at |-> "policy", policy |-> sign_policy]
    /\ UNCHANGED <<controller, era, live, host, enrolment, stale, reload, calls>>

-----------------------------------------------------------------------------
(* The local API. *)

Call == /\ calls < MaxCalls
        /\ calls' = calls + 1
        /\ UNCHANGED <<controller, era, task>>

HasPolicy == /\ live.net # None
             /\ live.net.policy # None
             /\ verify_for_network(live.net.policy, live.net.auth)

validate_exit_selection(via, kill) ==
    /\ live.net # None
    /\ kill => via # None
    /\ via # None => HasPolicy /\ via \in live.net.policy.exits

\* The selection is set in memory before it is known that it can be applied;
\* a failure of the platform restores the previous one.
configure_exit_selection(via, kill) ==
    /\ Call
    /\ validate_exit_selection(via, kill)
    /\ UNCHANGED enrolment
    /\ LET s == [live EXCEPT !.net.via = via, !.net.kill = kill]
           restore_policy(h) ==
               Then(write_state(h, live),
                    LAMBDA g : FailClosed(configure_policy(g, live), TRUE))
           restore_both(h) ==
               FailClosed(
                   UNION {{[k EXCEPT !.ok = @ /\ p.ok]
                             : k \in configure_kill_switch(p.host, WantsKill(live))}
                             : p \in configure_policy(h, live)}, TRUE)
       IN IF s = live THEN Leave(live, host, FALSE)
          ELSE \E w \in Then(kill_switch_plan_from_state(host, s),
                             LAMBDA h : write_state(h, s)) :
             IF ~w.ok THEN Leave(s, w.host, FALSE)
             ELSE \E p \in configure_policy(w.host, s) :
                IF ~p.ok THEN \E r \in restore_policy(p.host) : Leave(live, r.host, FALSE)
                ELSE \E k \in configure_kill_switch(p.host, kill) :
                   IF k.ok THEN Leave(s, k.host, FALSE)
                   ELSE \E r \in Then(Then(kill_switch_plan_from_state(k.host, live),
                                           LAMBDA h : write_state(h, live)),
                                      restore_both) :
                           Leave(live, r.host, FALSE)

\* configure_exit_gateway and remove_exit_gateway
configure_exit_gateway(on) ==
    /\ Call
    /\ on => HasPolicy /\ Self \in live.net.policy.exits
    /\ UNCHANGED enrolment
    /\ LET s == [live EXCEPT !.gateway = on]
           restore(h) ==
               Then(write_state(h, live),
                    LAMBDA g : FailClosed(configure_exit_gateways(g, live.gateway), TRUE))
       IN IF s = live /\ ~on THEN Leave(live, host, FALSE)
          ELSE \E w \in write_state(host, s) :
             IF ~w.ok THEN Leave(s, w.host, FALSE)
             ELSE \E g \in configure_exit_gateways(w.host, on) :
                IF g.ok THEN Leave(s, g.host, FALSE)
                ELSE \E r \in restore(g.host) : Leave(live, r.host, FALSE)

remove_network ==
    /\ Call
    /\ live.net # None
    /\ UNCHANGED enrolment
    /\ LET s == [net |-> None, gateway |-> FALSE]
           platform(h) == Then(configure_policy(h, s),
                               LAMBDA g : ConfigureRules(g, s, FALSE, FALSE))
       IN \E r \in Then(write_state(host, s), platform) : Leave(s, r.host, r.ok)

\* The control plane found, with the new manifest.
resolve_enrollment_control_plane(n, a) ==
    IF n = None
    THEN [auth |-> a, policy |-> None, via |-> None, kill |-> FALSE]
    ELSE [auth |-> a, policy |-> n.policy, via |-> n.via, kill |-> n.kill]

\* The controller admits the device, or renews its membership; the agent
\* verifies the answer and copies the control plane it has for the network.
enroll_network_begins ==
    /\ calls < MaxCalls /\ calls' = calls + 1
    /\ enrolment = None
    /\ controller.epoch < MaxEpoch
    /\ LET c == [controller EXCEPT
                    !.epoch = @ + 1, !.members = @ \cup {Self},
                    !.cert = IF Self \in controller.members THEN @ ELSE @ + 1]
           a == [epoch |-> c.epoch, key |-> c.key, cert |-> c.cert,
                 members |-> c.members, era |-> era]
       IN /\ controller' = c
          /\ enrolment' = resolve_enrollment_control_plane(live.net, a)
    /\ UNCHANGED <<era, live, host, task, stale, reload>>

\* The copy is written back, whatever has happened to the network since.
enroll_network_ends ==
    /\ enrolment # None
    /\ enrolment' = None
    /\ LET n == [cert |-> enrolment.auth.cert, key |-> enrolment.auth.key,
                 auth |-> enrolment.auth, policy |-> enrolment.policy,
                 via |-> enrolment.via, kill |-> enrolment.kill]
           s == [live EXCEPT !.net = n]
           platform(h) == IF h.active THEN configure_networks(h, s) ELSE Ok(h)
       IN \E r \in Then(write_state(host, s), platform) : Leave(s, r.host, r.ok)
    /\ UNCHANGED <<controller, era, task, calls>>

activate_adapter ==
    /\ LET s == live
           platform(h) == Then(Then(configure_networks(h, s),
                                    LAMBDA n : configure_exit_gateways(n, s.gateway)),
                               LAMBDA g : configure_kill_switch(g, WantsKill(s)))
           configured(h) == FailClosed(platform(h), ~host.active)
       IN \E r \in Then(Then(kill_switch_plan_from_state(host, s), activate), configured) :
             host' = r.host
    /\ UNCHANGED <<controller, era, live, task, enrolment, stale, reload, calls>>

deactivate_adapter ==
    /\ Call
    /\ host' = deactivate(host)
    /\ UNCHANGED <<live, enrolment, stale, reload>>

-----------------------------------------------------------------------------
migrate_and_validate_agent_state(s) == Withdrawn(s)

(* The process ends and starts again with what is on disk. *)
Restart ==
    /\ calls < MaxCalls /\ calls' = calls + 1
    /\ LET s == migrate_and_validate_agent_state(host.disk)
       IN /\ live' = s
          /\ host' = [deactivate(host) EXCEPT !.disk = s]
    /\ task' = Idle
    /\ enrolment' = None
    /\ stale' = FALSE
    /\ reload' = FALSE
    /\ UNCHANGED <<controller, era>>

(* The transport worker. *)

start_relay_worker ==
    /\ reload
    /\ reload' = FALSE
    /\ stale' = FALSE
    /\ UNCHANGED <<controller, era, live, host, task, enrolment, calls>>

(* The controller, and time. *)

remove_member(d) ==
    /\ d \in controller.members
    /\ controller.epoch < MaxEpoch /\ controller.policy < MaxEpoch
    /\ controller' = [controller EXCEPT
          !.members = @ \ {d}, !.epoch = @ + 1, !.key = @ + 1,
          !.exits = @ \ {d}, !.policy = IF d \in controller.exits THEN @ + 1 ELSE @]
    /\ UNCHANGED <<era, live, host, task, enrolment, stale, reload, calls>>

update_policy(exits) ==
    /\ controller.policy < MaxEpoch
    /\ exits \subseteq controller.members /\ exits # controller.exits
    /\ controller' = [controller EXCEPT !.policy = @ + 1, !.exits = exits]
    /\ UNCHANGED <<era, live, host, task, enrolment, stale, reload, calls>>

Lapse ==
    /\ era < MaxEra
    /\ era' = era + 1
    /\ UNCHANGED <<controller, live, host, task, enrolment, stale, reload, calls>>

-----------------------------------------------------------------------------
\* The device is a member, and has not been told of a policy.
Init ==
    /\ era = 0
    /\ controller = [epoch |-> 1, key |-> 1, cert |-> 1, members |-> Device,
                     policy |-> 1, exits |-> Device]
    /\ live = [net |-> [cert |-> 1, key |-> 1, auth |-> sign_authorization,
                        policy |-> None, via |-> None, kill |-> FALSE],
               gateway |-> FALSE]
    /\ host \in [active : {FALSE}, policy : {NoPlan}, gateway : {FALSE},
                 kill : {FALSE}, disk : {live}, faults : MaxFaults]
    /\ task = Idle
    /\ enrolment = None
    /\ stale = FALSE
    /\ reload = FALSE
    /\ calls = 0

Supervisor ==
    \/ expire_stale_policies
    \/ \E renew \in BOOLEAN : fetch_authorization_action(renew)
    \/ apply_authorization_action
    \/ refresh_policy
    \/ \E same \in BOOLEAN : apply_policy_manifest(same)

Api ==
    \/ \E via \in Gateway \cup {None}, kill \in BOOLEAN :
          configure_exit_selection(via, kill)
    \/ \E on \in BOOLEAN : configure_exit_gateway(on)
    \/ remove_network
    \/ enroll_network_begins
    \/ enroll_network_ends
    \/ activate_adapter
    \/ deactivate_adapter

Environment ==
    \/ Unreachable
    \/ Restart
    \/ \E d \in Device : remove_member(d)
    \/ \E exits \in SUBSET Device : update_policy(exits)
    \/ Lapse

Next == Supervisor \/ Api \/ start_relay_worker \/ Environment

\* While there is a network the supervisor's rounds go on, the worker's task
\* keeps running, and not every two policies are fetched in one second.
Fairness ==
    /\ []<>(live.net = None) \/ []<><<TRUE>>_task
    /\ SF_vars(apply_policy_manifest(FALSE))
    /\ WF_vars(start_relay_worker)

Spec == Init /\ [][Next]_vars /\ Fairness

-----------------------------------------------------------------------------
\* Types, and the bounds on the counters.
TypeOK ==
    /\ controller \in [epoch : Epoch, key : Epoch, cert : Epoch, policy : Epoch,
                       members : SUBSET Device, exits : SUBSET Device]
    /\ era \in Era
    /\ live \in State
    /\ host \in [active : BOOLEAN, policy : Plan, gateway : BOOLEAN,
                 kill : BOOLEAN, disk : State, faults : [Fault -> Nat]]
    /\ task \in Task
    /\ enrolment \in Enrolment \cup {None}
    /\ stale \in BOOLEAN
    /\ reload \in BOOLEAN
    /\ calls \in 0 .. MaxCalls

\* The exit selected in memory is one that the policy in memory offers, and
\* there is no kill switch without a selected exit: after every handler,
\* whichever of its steps fails, after a restart from whatever is on disk,
\* and after an enrolment has written back an old copy
\* (clear_unusable_exit_selection and the handlers that call it).
SelectionBacked ==
    live.net # None =>
        /\ live.net.via # None => /\ live.net.policy # None
                                  /\ live.net.via \in live.net.policy.exits
        /\ live.net.kill => live.net.via # None

\* When a refreshed authorization of a new epoch, or a refreshed policy, takes
\* an exit away and no write or name lookup fails, the host has no default
\* route through it: it was removed, or the adapter is disabled
\* (apply_authorization_action, apply_policy_manifest).
WithdrawalFailsClosed ==
    [][ \A g \in Gateway :
          /\ task.at \in {"apply", "policy"} /\ task' # task
          /\ live.net # None /\ live.net.via = g
          /\ task.at = "apply" => Reloads(live, task)
          /\ live'.net = None \/ live'.net.via # g
          /\ host'.faults["disk"] = host.faults["disk"]
          /\ host'.faults["dns"] = host.faults["dns"]
          => ~(host'.active /\ host'.policy.via = g) ]_vars

\* While the device stays in the network, and once failures stop, an active
\* adapter comes to carry what the state asks for: routes, exit, gateway rules
\* and kill switch.  Handlers that stop half-way are repaired by later rounds.
HostConverges ==
    <>[](live.net # None /\ host.active =>
            /\ host.policy = PlanOf(live)
            /\ host.gateway = live.gateway
            /\ host.kill = WantsKill(live))

\* While the device stays in the network, sessions made under an earlier
\* authorization epoch or network key do not last: the worker is reloaded
\* even if the handler that changed the epoch failed before asking for it.
SessionsConverge ==
    <>[](live.net # None => ~stale)

\* A device that the controller has removed leaves the network, even if an
\* enrolment in progress brings it back for a moment, a write fails, or the
\* agent restarts from a file that still holds the network.
RevokedLeaves ==
    <>[](Self \notin controller.members => live.net = None)

\* Once the controller and the failures have come to rest, so does the agent:
\* its host, its sessions and its membership are what was last signed, whichever
\* handlers stopped half-way before (refresh_authorizations_once).
Converges == HostConverges /\ SessionsConverge /\ RevokedLeaves

\* The kill switch is the user's: while the adapter is active, its rules go
\* only by a call of the user, and a policy that is no longer available
\* leaves them in place.
KillSwitchStays ==
    [][ /\ host.active /\ host.kill
        /\ host'.active /\ calls' = calls
        => host'.kill ]_vars

=============================================================================
