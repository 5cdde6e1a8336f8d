-------------------------------- MODULE Host --------------------------------
(***************************************************************************)
(* The virtual adapter and the operating system's rules behind it: routes  *)
(* and DNS, gateway rules, and the kill switch, replaced by transactions   *)
(* whose every command may fail, on Linux and on Windows, and the handlers *)
(* of the agent that call them for several networks.  The process may be   *)
(* killed; its record of what it applied is then lost, and the rules are   *)
(* not.  State files and names are as in Agent and do not fail here.       *)
(***************************************************************************)
EXTENDS Integers, FiniteSets

CONSTANTS
    Nets,          \* networks the device may join
    Profiles,      \* per network, the sets of things it may ask of the host:
                   \* "in", "split", "exit", "kill", "gateway"
    Relays,        \* configured relay endpoints
    Platforms,     \* records [os, keeps]; keeps: a closed adapter keeps its
                   \* routes and DNS settings
    MaxFailures,   \* commands that fail
    MaxCrashes     \* the process is killed

VARIABLES
    platform,
    want,          \* PersistedState: what each network asks for, and the relay
    host,          \* active, applied (AdapterController), os: rule -> copies
    crashes

vars == <<platform, want, host, crashes>>

Linux == platform.os = "linux"

Linked == {"address", "overlay", "route", "dns"}
Chained == {"masquerade", "forward", "allow", "block"}   \* iptables on Linux
Block == <<"block", "*">>
Guard == <<"nrpt", ".">>
Forwarding == <<"forwarding", "on">>
LanRule == <<"lan", "inbound">>
Own == {"address", "overlay"} \X Nets

Endpoints == Relays \cup Nets
Rule == Own \cup ({"route"} \X Nets) \cup ({"route"} \X {"default"})
        \cup {<<"dns", "link">>, Block, Guard, Forwarding, LanRule}
        \cup ({"masquerade", "forward", "nat"} \X Nets)
        \cup ({"allow"} \X Endpoints)

-----------------------------------------------------------------------------
(* Plans.  Each is a set of names; {} is the default plan. *)

Joined(w) == {n \in Nets : "in" \in w.net[n]}

\* PolicyPlan::from_networks for some of the joined networks
PolicyPlan(w, some) ==
    {<<"route", n>> : n \in {m \in some : "split" \in w.net[m]}}
    \cup IF \E n \in some : "exit" \in w.net[n]
         THEN {<<"route", "default">>, <<"dns", "link">>} ELSE {}

ExitGatewayPlan(w) == {n \in Joined(w) : "gateway" \in w.net[n]}

\* the relay and the controller of every joined network stay reachable
kill_switch_plan_from_state(w) ==
    IF \E n \in Joined(w) : "kill" \in w.net[n]
    THEN {w.relay} \cup Joined(w) ELSE {}

linux_policy_commands(plan) == plan
linux_exit_gateway_commands(plan) == {"masquerade", "forward"} \X plan
linux_kill_switch_commands(plan) ==
    IF plan = {} THEN {} ELSE {Block} \cup ({"allow"} \X plan)

\* With an exit, Windows also gets a name rule that outlives the process.
windows_policy_scripts(plan) ==
    plan \cup IF <<"route", "default">> \in plan THEN {Guard} ELSE {}
windows_exit_gateway_scripts(plan) == {"nat"} \X plan
conditions(endpoint) == <<"allow", endpoint>>
install_kill_switch_filters(plan) ==
    IF plan = {} THEN {} ELSE {Block} \cup {conditions(e) : e \in plan}

PolicyRules(plan) ==
    IF Linux THEN linux_policy_commands(plan) ELSE windows_policy_scripts(plan)

\* Windows clears its name rule with every removal.
windows_dns_leak_guard_cleanup == IF Linux THEN {} ELSE {Guard}
PolicyLeftovers(plan) == plan \cup windows_dns_leak_guard_cleanup

GatewayRules(plan) ==
    IF Linux THEN linux_exit_gateway_commands(plan) ELSE windows_exit_gateway_scripts(plan)

KillSwitchRules(plan) ==
    IF Linux THEN linux_kill_switch_commands(plan) ELSE install_kill_switch_filters(plan)

planned_addresses(some) == {<<"address", n>> : n \in some}
windows_overlay_route_scripts(some) == {<<"overlay", n>> : n \in some}

-----------------------------------------------------------------------------
(* Commands.  A batch runs all its commands and reports whether all        *)
(* succeeded; a call gives the set of its results.                         *)

\* New-NetRoute and New-NetNat refuse what exists.
CanAdd(rule, n) == n = 0 \/ Linux \/ rule[1] \notin {"route", "nat"}

\* ip route del and iptables -D refuse what does not exist.
CanDelete(rule, n) == n > 0 \/ ~Linux \/ rule[1] \notin Chained \cup {"route"}

\* iptables -A and -I add a copy, and -D removes one.
Added(rule, n) == IF Linux /\ rule[1] \in Chained THEN n + 1 ELSE 1
Deleted(rule, n) == IF Linux /\ rule[1] \in Chained THEN n - 1 ELSE 0

run_policy_commands(h, rules, verb) ==
    LET Can(r, n) == IF verb = "add" THEN CanAdd(r, n) ELSE CanDelete(r, n)
        Done(r, n) == IF verb = "add" THEN Added(r, n) ELSE Deleted(r, n)
        fit == {r \in rules : Can(r, h.os[r])}
    IN  {[ok |-> failed = {} /\ fit = rules,
          host |-> [h EXCEPT
              !.os = [r \in Rule |-> IF r \in fit \ failed
                                     THEN Done(r, @[r]) ELSE @[r]],
              !.faults = @ - Cardinality(failed)]]
         : failed \in {f \in SUBSET fit : Cardinality(f) <= h.faults}}

Apply(h, rules) == run_policy_commands(h, rules, "add")
Remove(h, rules) == run_policy_commands(h, rules, "delete")

\* Addresses are set one after the other, and the first failure ends it.
InTurn(h, rules, copies) ==
    {[ok |-> done = rules,
      host |-> [h EXCEPT !.os = [r \in Rule |-> IF r \in done THEN copies ELSE @[r]],
                         !.faults = IF done = rules THEN @ ELSE @ - 1]]
     : done \in {d \in SUBSET rules : d = rules \/ h.faults > 0}}

run_ip(h, rules) == InTurn(h, rules, 1)
run_netsh(h, rules) == InTurn(h, rules, 1)
remove_windows_adapter_address(h, rules) == InTurn(h, rules, 0)

Ok(h) == {[ok |-> TRUE, host |-> h]}
Err(h) == {[ok |-> FALSE, host |-> h]}

\* the next call, if this one succeeded (?)
Then(results, next(_)) ==
    UNION {IF r.ok THEN next(r.host) ELSE {r} : r \in results}

\* the next call in any case, and the failure of either
Also(results, next(_)) ==
    UNION {{[s EXCEPT !.ok = @ /\ r.ok] : s \in next(r.host)} : r \in results}

\* the next call, if this one failed; the failure is reported
Else(results, next(_)) ==
    UNION {IF r.ok THEN {r} ELSE {[s EXCEPT !.ok = FALSE] : s \in next(r.host)}
           : r \in results}

\* session.take(): the adapter goes, and with it what hangs on the interface
CloseSession(h) ==
    [h EXCEPT !.active = FALSE,
              !.os = IF platform.keeps THEN @
                     ELSE [r \in Rule |-> IF r[1] \in Linked THEN 0 ELSE @[r]]]

-----------------------------------------------------------------------------
(* AdapterController *)

recover_policy_transaction(h, previous, desired) ==
    Also(Also(Remove(h, PolicyLeftovers(desired)),
              LAMBDA g : Remove(g, PolicyLeftovers(previous))),
         LAMBDA g : Apply(g, PolicyRules(previous)))

\* A bug: what the old plan has and the new one lacks stays
ApplyOver(h, previous, desired) ==
    Then(Remove(h, PolicyLeftovers(previous) \cap PolicyLeftovers(desired)),
         LAMBDA g : Apply(g, PolicyRules(desired)))

apply_policy_transaction(h, previous, desired) ==
    Then(Remove(h, PolicyLeftovers(previous)),
         LAMBDA g : Apply(g, PolicyRules(desired)))

\* A recovery that fails as well closes the adapter and forgets the plan.
ReplacePolicy(h, desired) ==
    LET previous == h.applied.policy
        Recovered(g) ==
            {IF r.ok THEN r
             ELSE [r EXCEPT !.host = CloseSession([@ EXCEPT !.applied.policy = {}])]
             : r \in recover_policy_transaction(g, previous, desired)}
    IN  UNION {IF r.ok
               THEN Ok([r.host EXCEPT !.applied.policy = desired])
               ELSE {[s EXCEPT !.ok = FALSE] : s \in Recovered(r.host)}
               : r \in apply_policy_transaction(h, previous, desired)}

\* The name rule of a killed agent goes with the first default plan.
reconcile_policy(h, desired) ==
    CASE h.applied.policy # desired -> ReplacePolicy(h, desired)
      [] h.applied.policy = desired /\ desired = {} ->
            Remove(h, windows_dns_leak_guard_cleanup)
      [] OTHER -> Ok(h)

configure_policy(h, w, some) ==
    IF h.active THEN reconcile_policy(h, PolicyPlan(w, some)) ELSE Ok(h)

\* Forwarding is switched on, and never off.
ApplyGateways(h, plan) ==
    Also(Apply(h, IF plan = {} THEN {} ELSE {Forwarding}),
         LAMBDA g : Apply(g, GatewayRules(plan)))

\* remove the old rules, add the new; else remove the new and add the old
Replace(h, part, desired) ==
    LET previous == h.applied[part]
        Rules(plan) == IF part = "gateways" THEN GatewayRules(plan) ELSE KillSwitchRules(plan)
        Install(g, plan) == IF part = "gateways" THEN ApplyGateways(g, plan)
                            ELSE Apply(g, KillSwitchRules(plan))
        Rollback(g) ==
            {IF r.ok THEN r ELSE [r EXCEPT !.host = CloseSession(@)]
             : r \in Also(Remove(g, Rules(desired)),
                          LAMBDA f : Install(f, previous))}
    IN  IF previous = desired THEN Ok(h)
        ELSE UNION {IF r.ok
                    THEN Ok([r.host EXCEPT !.applied[part] = desired])
                    ELSE {[s EXCEPT !.ok = FALSE] : s \in Rollback(r.host)}
                    : r \in Then(Remove(h, Rules(previous)),
                                 LAMBDA g : Install(g, desired))}

configure_exit_gateways(h, w) ==
    IF h.active
    THEN Replace(h, "gateways", ExitGatewayPlan(w))
    ELSE Err(h)

\* One WFP transaction: all filters of MeshLake's sublayer, or no change.
remove_owned_filters(os) ==
    [r \in Rule |-> IF r[1] \in {"allow", "block"} THEN 0 ELSE os[r]]
add_filter(os, filters) == [r \in Rule |-> IF r \in filters THEN 1 ELSE os[r]]

reconcile_kill_switch(h, plan) ==
    Ok([h EXCEPT !.os = add_filter(remove_owned_filters(@), install_kill_switch_filters(plan))])
    \cup IF h.faults > 0 THEN Err([h EXCEPT !.faults = @ - 1]) ELSE {}

\* The filter engine may be unavailable, which an unused switch tolerates.
Unavailable(h, idle) ==
    IF h.faults = 0 THEN {}
    ELSE {[ok |-> idle, host |-> [h EXCEPT !.faults = @ - 1]]}

ReconcileWindows(h, desired) ==
    Unavailable(h, desired = {} /\ h.applied.kill = {}) \cup
    UNION {IF r.ok
           THEN Ok([r.host EXCEPT !.applied.kill = desired])
           ELSE {[ok |-> FALSE,
                  host |-> IF s.ok THEN s.host ELSE CloseSession(s.host)]
                 : s \in reconcile_kill_switch(r.host, h.applied.kill)}
           : r \in reconcile_kill_switch(h, desired)}

configure_kill_switch(h, w) ==
    LET desired == kill_switch_plan_from_state(w)
    IN  CASE ~h.active -> Err(h)
          [] h.active /\ Linux -> Replace(h, "kill", desired)
          [] OTHER -> ReconcileWindows(h, desired)

LinuxNetworks(h, some) == run_ip(h, planned_addresses(some))

ensure_virtual_lan_firewall_rule(h) == Apply(h, {LanRule})

WindowsNetworks(h, some) ==
    Then(Then(run_netsh(h, planned_addresses(some)),
              LAMBDA g : Apply(g, windows_overlay_route_scripts(some))),
         ensure_virtual_lan_firewall_rule)

configure_networks(h, w, some) ==
    IF ~h.active THEN Err(h)
    ELSE Then(IF Linux THEN LinuxNetworks(h, some) ELSE WindowsNetworks(h, some),
              LAMBDA g : configure_policy(g, w, some))

\* Linux does not look at the result.
remove_network(h, n) ==
    IF ~h.active THEN Ok(h)
    ELSE IF Linux THEN {[r EXCEPT !.ok = TRUE] : r \in Remove(h, planned_addresses({n}))}
    ELSE Then(Remove(h, windows_overlay_route_scripts({n})),
              LAMBDA g : remove_windows_adapter_address(g, planned_addresses({n})))

\* Linux forgets a plan whether or not it could be removed; Windows keeps the
\* record of a kill switch that it could not remove.
RollbackFilters(h) ==
    {IF r.ok THEN [r EXCEPT !.host.applied.kill = {}] ELSE r
     : r \in reconcile_kill_switch(h, {}) \cup Unavailable(h, h.applied.kill = {})}

rollback_kill_switch(h) ==
    IF ~Linux THEN RollbackFilters(h)
    ELSE {[r EXCEPT !.host.applied.kill = {}]
          : r \in Remove(h, KillSwitchRules(h.applied.kill))}

rollback_exit_gateways(h) ==
    {[r EXCEPT !.host.applied.gateways = {}]
     : r \in Remove(h, GatewayRules(h.applied.gateways))}

rollback_policy(h) ==
    {[r EXCEPT !.host.applied.policy = {}]
     : r \in Remove(h, PolicyLeftovers(h.applied.policy))}

deactivate(h) ==
    {[r EXCEPT !.host = CloseSession(@)]
     : r \in Also(Also(rollback_kill_switch(h), rollback_exit_gateways),
                  rollback_policy)}

activate(h) == Ok([h EXCEPT !.active = TRUE])
               \cup IF h.faults > 0 THEN Err([h EXCEPT !.faults = @ - 1]) ELSE {}

-----------------------------------------------------------------------------
(* Handlers of the agent, each under adapter_lifecycle. *)

Init ==
    /\ platform \in Platforms
    /\ want = [net |-> [n \in Nets |-> {}], relay |-> CHOOSE r \in Relays : TRUE]
    /\ host = [active |-> FALSE, os |-> [r \in Rule |-> 0], faults |-> MaxFailures,
               applied |-> [policy |-> {}, gateways |-> {}, kill |-> {}]]
    /\ crashes = 0

Answer(results) == \E r \in results : host' = r.host
Still == UNCHANGED <<platform, crashes>>

\* the handler's result decides whether the change of the state stays
AnswerKeeping(results, changed, restored) ==
    \E r \in results : host' = r.host /\ want' = IF r.ok THEN changed ELSE restored

Changed(n, profile) == [want EXCEPT !.net[n] = profile]

ConfigureAll(h) ==
    Then(Then(configure_networks(h, want, Joined(want)),
              LAMBDA g : configure_exit_gateways(g, want)),
         LAMBDA g : configure_kill_switch(g, want))

activate_adapter ==
    /\ IF host.active
       THEN Answer(ConfigureAll(host))
       ELSE Answer(Then(activate(host),
                        LAMBDA h : Else(ConfigureAll(h), deactivate)))
    /\ UNCHANGED want /\ Still

deactivate_adapter ==
    /\ Answer(deactivate(host))
    /\ UNCHANGED want /\ Still

configure_relay(endpoint) ==
    LET changed == [want EXCEPT !.relay = endpoint]
    IN  /\ AnswerKeeping(IF host.active
                         THEN Else(configure_kill_switch(host, changed), deactivate)
                         ELSE Ok(host), changed, want)
        /\ Still

\* A bug: a failed kill switch leaves the new selection in place
SelectWithoutRollback(n, profile) ==
    LET changed == Changed(n, profile)
    IN  /\ n \in Joined(want)
        /\ profile \ {"exit", "kill"} = want.net[n] \ {"exit", "kill"}
        /\ AnswerKeeping(Then(configure_policy(host, changed, Joined(want)),
                              LAMBDA h : configure_kill_switch(h, changed)),
                         changed, changed)
        /\ Still

\* The user's choice of an exit, with or without its kill switch.
configure_exit_selection(n, profile) ==
    LET changed == Changed(n, profile)
        PolicyBack(h) == Else(configure_policy(h, want, Joined(want)), deactivate)
        BothBack(h) == Else(Also(configure_policy(h, want, Joined(want)),
                                 LAMBDA g : configure_kill_switch(g, want)),
                            deactivate)
    IN  /\ n \in Joined(want)
        /\ profile # want.net[n]
        /\ profile \ {"exit", "kill"} = want.net[n] \ {"exit", "kill"}
        /\ AnswerKeeping(
               Then(Else(configure_policy(host, changed, Joined(want)), PolicyBack),
                    LAMBDA h : Else(configure_kill_switch(h, changed), BothBack)),
               changed, want)
        /\ Still

\* configure_exit_gateway and remove_exit_gateway
configure_exit_gateway(n, profile) ==
    LET changed == Changed(n, profile)
        Back(h) == Else(configure_exit_gateways(h, want), deactivate)
    IN  /\ n \in Joined(want)
        /\ profile # want.net[n]
        /\ profile \ {"gateway"} = want.net[n] \ {"gateway"}
        /\ AnswerKeeping(Else(configure_exit_gateways(host, changed), Back),
                         changed, want)
        /\ Still

\* What the controller withdraws: the exit chosen, the gateway offered here.
ExitCleared(n, profile) == "exit" \in want.net[n] \ profile
GatewayCleared(n, profile) == "gateway" \in want.net[n] \ profile

Gateways(h, changed, cleared) ==
    IF cleared THEN Else(configure_exit_gateways(h, changed), deactivate)
    ELSE configure_exit_gateways(h, changed)

ConfigureRules(h, changed, cleared) ==
    IF ~h.active THEN Ok(h)
    ELSE Then(Gateways(h, changed, cleared),
              LAMBDA g : Else(configure_kill_switch(g, changed), deactivate))

\* A bug: only the network of the policy is configured
ApplyOne(n, profile) ==
    LET changed == Changed(n, profile)
    IN  /\ n \in Joined(want)
        /\ "in" \in profile
        /\ profile \ want.net[n] \subseteq {"split"}
        /\ want' = changed
        /\ Answer(Then(configure_policy(host, changed, {n}),
                       LAMBDA h : ConfigureRules(h, changed,
                                                 GatewayCleared(n, profile))))
        /\ Still

\* A new policy, or the same one again with a later time.
apply_policy_manifest(n, profile) ==
    LET changed == Changed(n, profile)
        withdrawn == ExitCleared(n, profile) \/ GatewayCleared(n, profile)
    IN  /\ n \in Joined(want)
        /\ "in" \in profile
        /\ profile \ want.net[n] \subseteq {"split"}
        /\ \E p \in configure_policy(host, changed, Joined(want)) :
              \/ /\ p.ok
                 /\ want' = changed
                 /\ Answer(ConfigureRules(p.host, changed, GatewayCleared(n, profile)))
              \/ /\ ~p.ok /\ withdrawn
                 /\ want' = changed
                 /\ Answer(deactivate(p.host))
              \/ /\ ~p.ok /\ ~withdrawn
                 /\ UNCHANGED want
                 /\ Answer(Else(configure_policy(p.host, want, Joined(want)),
                                deactivate))
        /\ Still

expire_stale_policies(n) ==
    LET changed == Changed(n, {"in"})
    IN  /\ n \in Joined(want)
        /\ want.net[n] # {"in"}
        /\ want' = changed
        /\ Answer(Then(configure_policy(host, changed, Joined(want)),
                       LAMBDA h : ConfigureRules(h, changed,
                                                 GatewayCleared(n, {"in"}))))
        /\ Still

\* A new epoch: everything is configured again.
apply_authorization_update(n, profile) ==
    LET changed == Changed(n, profile)
        withdrawn == ExitCleared(n, profile) \/ GatewayCleared(n, profile)
        networks == IF ~host.active THEN Ok(host)
                    ELSE configure_networks(host, changed, Joined(want))
    IN  /\ n \in Joined(want)
        /\ "in" \in profile /\ profile \subseteq want.net[n]
        /\ want' = changed
        /\ Answer(Then(IF withdrawn THEN Else(networks, deactivate) ELSE networks,
                       LAMBDA h : ConfigureRules(h, changed,
                                                 GatewayCleared(n, profile))))
        /\ Still

apply_authorization_revoke(n) ==
    LET changed == Changed(n, {})
    IN  /\ n \in Joined(want)
        /\ want' = changed
        /\ Answer(Then(Then(Else(remove_network(host, n), deactivate),
                            LAMBDA h : Else(configure_policy(h, changed, Joined(changed)),
                                            deactivate)),
                       LAMBDA h : ConfigureRules(h, changed,
                                                 GatewayCleared(n, {}))))
        /\ Still

\* The user leaves a network: no failure is undone or closes the adapter.
leave_network(n) ==
    LET changed == Changed(n, {})
        Rules(h) == IF ~h.active THEN Ok(h)
                    ELSE Then(configure_exit_gateways(h, changed),
                              LAMBDA g : configure_kill_switch(g, changed))
    IN  /\ n \in Joined(want)
        /\ \E r \in remove_network(host, n) :
              IF r.ok
              THEN /\ want' = changed
                   /\ Answer(Then(configure_policy(r.host, changed, Joined(changed)),
                                  Rules))
              ELSE host' = r.host /\ UNCHANGED want
        /\ Still

\* The new network alone is configured.
enroll_network(n, profile) ==
    LET changed == Changed(n, profile)
        before == IF n \in Joined(want) THEN remove_network(host, n) ELSE Ok(host)
    IN  /\ IF n \in Joined(want)
           THEN profile = want.net[n]
           ELSE profile \in SUBSET {"in", "split"} /\ "in" \in profile
        /\ want' = changed
        /\ IF host.active
           THEN Answer(Then(before, LAMBDA h : configure_networks(h, changed, {n})))
           ELSE UNCHANGED host
        /\ Still

\* The process is killed, and started again with the adapter down.
Crash ==
    /\ crashes < MaxCrashes
    /\ host' = [CloseSession(host) EXCEPT
                    !.applied = [policy |-> {}, gateways |-> {}, kill |-> {}]]
    /\ crashes' = crashes + 1
    /\ UNCHANGED <<platform, want>>

Next ==
    \/ activate_adapter
    \/ deactivate_adapter
    \/ \E r \in Relays : configure_relay(r)
    \/ \E n \in Nets : \E profile \in Profiles[n] :
          \/ configure_exit_selection(n, profile)
          \/ configure_exit_gateway(n, profile)
          \/ apply_policy_manifest(n, profile)
          \/ apply_authorization_update(n, profile)
          \/ enroll_network(n, profile)
    \/ \E n \in Nets :
          \/ expire_stale_policies(n)
          \/ apply_authorization_revoke(n)
          \/ leave_network(n)
    \/ Crash

Spec == Init /\ [][Next]_vars

\* The supervisor fetches the policy of every network about every 20 s, and a
\* policy signed in another second is a new one.
Refresh == \E n \in Nets : apply_policy_manifest(n, want.net[n])

FairSpec == Spec /\ WF_vars(Refresh)

-----------------------------------------------------------------------------
(* Properties *)

\* While the adapter is up and the user has asked for a kill switch, the rule
\* that blocks the physical network is installed, whichever commands failed
\* and whichever handler made or undid a change.
ProtectedWhileActive ==
    host.active /\ kill_switch_plan_from_state(want) # {} => host.os[Block] > 0

\* Without a failed command or a crash, the system has exactly the rules of the
\* plans that AdapterController has on record, one copy of each: no handler and
\* no sequence of them loses or leaves behind a rule.
RulesMatchRecord ==
    host.faults = MaxFailures /\ crashes = 0 =>
        LET rules == PolicyRules(host.applied.policy)
                     \cup GatewayRules(host.applied.gateways)
                     \cup KillSwitchRules(host.applied.kill)
        IN  \A r \in Rule \ (Own \cup {Forwarding, LanRule}) :
                host.os[r] = IF r \in rules THEN 1 ELSE 0

\* Enrolment configures the policy of the new network alone, which takes the
\* routes of the others away; the supervisor's next rounds restore them, so
\* that the host again and again has the policy of all joined networks.
PolicyRestored ==
    []<>(host.active /\ Joined(want) # {} =>
            host.applied.policy = PolicyPlan(want, Joined(want)))
=============================================================================
