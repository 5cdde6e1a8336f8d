------------------------------ MODULE AgentProofs ------------------------------
(***************************************************************************)
(* The agent, for any gateways, any failures and any bounds: what is       *)
(* selected is what the policy offers, and an exit that is withdrawn is no *)
(* longer routed through.                                                  *)
(*                                                                         *)
(* A handler is a chain of calls of which each may fail.  The first part   *)
(* says what each call may leave; a handler's lemma follows its branches.  *)
(***************************************************************************)
EXTENDS Agent, TLAPS

\* The host, and what a call gives.
Host == [active : BOOLEAN, policy : Plan, gateway : BOOLEAN,
         kill : BOOLEAN, disk : State, faults : [Fault -> Nat]]
Result == [ok : BOOLEAN, host : Host]

\* The selection of a network, or of the copy that an enrolment holds, is one that
\* its policy offers.
Backed(n) ==
    /\ n.via # None => n.policy # None /\ n.via \in n.policy.exits
    /\ n.kill => n.via # None

\* The inductive invariant: the copy that an enrolment holds is backed as well,
\* and the controller's counters leave room for the steps that advance them.
AInv ==
    /\ TypeOK
    /\ controller.key <= controller.epoch /\ controller.cert <= controller.epoch
    /\ live.net # None => Backed(live.net)
    /\ enrolment # None => Backed(enrolment)

-----------------------------------------------------------------------------
(* The host's calls *)

\* A failure, like every call below, gives a result and leaves a host of the right type.
LEMMA FailsType ==
    ASSUME NEW kind \in Fault, NEW h \in Host
    PROVE  Fails(kind, h) \subseteq Result
<1>1. CASE h.faults[kind] > 0
  <2> DEFINE f == [h EXCEPT !.faults[kind] = @ - 1]
  <2>1. f \in Host
      BY <1>1 DEF Host
  <2>2. Fails(kind, h) = {[ok |-> FALSE, host |-> f]}
      BY Zenon, <1>1 DEF Fails, Refused
  <2> HIDE DEF f
  <2> QED
      BY <2>1, <2>2 DEF Result
<1>2. CASE ~(h.faults[kind] > 0)
    BY Zenon, <1>2 DEF Fails
<1> QED
    BY Zenon, <1>1, <1>2

\* Success and refusal leave the host they are given.
LEMMA OkType ==
    ASSUME NEW h \in Host
    PROVE  Ok(h) \subseteq Result /\ Refused(h) \subseteq Result
    BY DEF Ok, Refused, Result

\* The empty plan is a plan.
LEMMA NoPlanType == NoPlan \in Plan
    BY AgentAssumption DEF NoPlan, Plan, Epoch

\* deactivate leaves a disabled host.
LEMMA DeactivateType ==
    ASSUME NEW h \in Host
    PROVE  deactivate(h) \in Host
    BY Zenon, NoPlanType DEF deactivate, Host

\* Closing on failure keeps the type of the results.
LEMMA FailClosedType ==
    ASSUME NEW results, results \subseteq Result, NEW closes
    PROVE  FailClosed(results, closes) \subseteq Result
    BY Zenon, DeactivateType DEF FailClosed, Result

\* write_state: the file holds the old state or the new one.
LEMMA WriteType ==
    ASSUME NEW h \in Host, NEW s \in State
    PROVE  write_state(h, s) \subseteq Result
<1>1. [h EXCEPT !.disk = s] \in Host
    BY Zenon DEF Host
<1> QED
    BY Zenon, <1>1, FailsType, OkType DEF write_state, Fault

\* kill_switch_plan_from_state changes the host only by a failed lookup.
LEMMA PlanKillType ==
    ASSUME NEW h \in Host, NEW s \in State
    PROVE  kill_switch_plan_from_state(h, s) \subseteq Result
    BY Zenon, FailsType, OkType DEF kill_switch_plan_from_state, Fault

\* A transaction succeeds, is rolled back, or ends the session.
LEMMA TransactionType ==
    ASSUME NEW h \in Host, NEW done \in Host, NEW closed \in Host
    PROVE  Transaction(h, done, closed) \subseteq Result
    BY Zenon, FailsType, OkType DEF Transaction, Fault

\* PolicyPlan::from_networks makes a plan.
LEMMA PlanType ==
    ASSUME NEW s \in State
    PROVE  PlanOf(s) \in Plan
    BY Zenon, NoPlanType DEF PlanOf, Plan, State, Network, Policy

\* configure_policy gives results.
LEMMA PolicyType ==
    ASSUME NEW h \in Host, NEW s \in State
    PROVE  configure_policy(h, s) \subseteq Result
<1>1. [h EXCEPT !.policy = PlanOf(s)] \in Host
    BY Zenon, PlanType DEF Host
<1>2. [h EXCEPT !.active = FALSE, !.policy = NoPlan] \in Host
    BY Zenon, NoPlanType DEF Host
<1> QED
    BY Zenon, <1>1, <1>2, OkType, TransactionType DEF configure_policy

\* configure_exit_gateways gives results.
LEMMA GatewaysType ==
    ASSUME NEW h \in Host, NEW on \in BOOLEAN
    PROVE  configure_exit_gateways(h, on) \subseteq Result
<1>1. [h EXCEPT !.gateway = on] \in Host /\ [h EXCEPT !.active = FALSE] \in Host
    BY Zenon DEF Host
<1> QED
    BY Zenon, <1>1, OkType, TransactionType DEF configure_exit_gateways

\* configure_kill_switch gives results.
LEMMA KillSwitchType ==
    ASSUME NEW h \in Host, NEW on \in BOOLEAN
    PROVE  configure_kill_switch(h, on) \subseteq Result
<1>1. [h EXCEPT !.kill = on] \in Host /\ [h EXCEPT !.active = FALSE] \in Host
    BY Zenon DEF Host
<1> QED
    BY Zenon, <1>1, OkType, TransactionType DEF configure_kill_switch

\* configure_networks gives results.
LEMMA NetworksType ==
    ASSUME NEW h \in Host, NEW s \in State
    PROVE  configure_networks(h, s) \subseteq Result
    BY Zenon, FailsType, OkType, PolicyType DEF configure_networks, Fault

\* activate gives results.
LEMMA ActivateType ==
    ASSUME NEW h \in Host
    PROVE  activate(h) \subseteq Result
<1>1. [h EXCEPT !.active = TRUE] \in Host
    BY Zenon DEF Host
<1> QED
    BY Zenon, <1>1, FailsType, OkType DEF activate, Fault

\* Whether a state asks for the kill switch.
LEMMA WantsKillType ==
    ASSUME NEW s \in State
    PROVE  WantsKill(s) \in BOOLEAN
    BY Zenon DEF WantsKill, State, Network

\* The tail of the refreshes gives results.
LEMMA RulesType ==
    ASSUME NEW h \in Host, NEW s \in State, NEW g, NEW k
    PROVE  ConfigureRules(h, s, g, k) \subseteq Result
<1>1. FailClosed(configure_exit_gateways(h, s.gateway), g) \subseteq Result
    BY Zenon, GatewaysType, FailClosedType DEF State
<1>2. ASSUME NEW f \in Host
      PROVE  FailClosed(configure_kill_switch(f, WantsKill(s)), k) \subseteq Result
    BY Zenon, KillSwitchType, FailClosedType, WantsKillType
<1>3. \A r \in Result : r.host \in Host
    BY Zenon DEF Result
<1> QED
    BY Zenon, <1>1, <1>2, <1>3, OkType DEF ConfigureRules, Then

-----------------------------------------------------------------------------
(* The states that the handlers compute *)

\* clear_unusable_exit_selection leaves a network whose choice is backed,
\* whatever the choice was.
LEMMA SelectionType ==
    ASSUME NEW n \in Network
    PROVE  /\ clear_unusable_exit_selection(n) \in Network
           /\ Backed(clear_unusable_exit_selection(n))
    BY Zenon DEF clear_unusable_exit_selection, Network, Backed

\* clear_unusable_exit_gateways leaves the network alone.
LEMMA GatewayType ==
    ASSUME NEW s \in State
    PROVE  /\ clear_unusable_exit_gateways(s) \in State
           /\ clear_unusable_exit_gateways(s).net = s.net
    BY Zenon DEF clear_unusable_exit_gateways, State

\* What clearing leaves of any state is a state with a choice that is backed.
LEMMA ClearedBacked ==
    ASSUME NEW s \in State
    PROVE  /\ Cleared(s) \in State
           /\ Cleared(s).net # None => Backed(Cleared(s).net)
<1>1. CASE s.net = None
    BY Zenon, <1>1, GatewayType DEF Cleared
<1>2. CASE s.net # None
  <2>1. s.net \in Network
      BY Zenon, <1>2 DEF State
  <2> DEFINE t == [s EXCEPT !.net = clear_unusable_exit_selection(@)]
  <2>2. t \in State /\ Backed(t.net)
      BY Zenon, <2>1, SelectionType DEF State
  <2>3. Cleared(s) = clear_unusable_exit_gateways(t)
      BY Zenon, <1>2 DEF Cleared
  <2> QED
      BY Zenon, <2>2, <2>3, GatewayType
<1> QED
    BY Zenon, <1>1, <1>2

\* So does withdrawing a policy that no longer verifies, also from a state read
\* from disk, of which nothing but its type is known.
LEMMA WithdrawnBacked ==
    ASSUME NEW s \in State
    PROVE  /\ Withdrawn(s) \in State
           /\ Withdrawn(s).net # None => Backed(Withdrawn(s).net)
<1>1. ASSUME s.net # None
      PROVE  [s EXCEPT !.net.policy = None] \in State
    BY Zenon, <1>1 DEF State, Network
<1> QED
    BY Zenon, <1>1, ClearedBacked DEF Withdrawn

\* An expiry clears the choice only together with the policy: it keeps a choice
\* that was backed.
LEMMA ExpiredBacked ==
    ASSUME NEW s \in State, s.net # None => Backed(s.net)
    PROVE  /\ Expired(s) \in State
           /\ Expired(s).net # None => Backed(Expired(s).net)
<1> DEFINE t == [s EXCEPT !.net = clear_unusable_exit_selection([@ EXCEPT !.policy = None])]
<1>1. ASSUME s.net # None
      PROVE  t \in State /\ Backed(t.net)
  <2>1. [s.net EXCEPT !.policy = None] \in Network
      BY Zenon, <1>1 DEF State, Network
  <2> QED
      BY Zenon, <2>1, SelectionType DEF State
<1>2. \/ Expired(s) = clear_unusable_exit_gateways(s)
      \/ s.net # None /\ Expired(s) = clear_unusable_exit_gateways(t)
    BY Zenon DEF Expired
<1> QED
    BY Zenon, <1>1, <1>2, GatewayType

\* A refreshed authorization, applied to a network that is there, leaves a state.
LEMMA AuthorizedType ==
    ASSUME NEW s \in State, s.net # None,
           NEW t, t.auth \in Authorization,
           t.action \in {"UpdateManifest", "Update", "Revoke"}
    PROVE  Authorized(s, t) \in State
<1>1. /\ [s EXCEPT !.net = None] \in State
      /\ [s EXCEPT !.net.auth = t.auth] \in State
      /\ [s EXCEPT !.net.auth = t.auth, !.net.key = t.auth.key] \in State
    BY Zenon DEF State, Network, Authorization
<1> QED
    BY Zenon, <1>1 DEF Authorized

\* The supervisor's task carries what its stage needs.
LEMMA TaskKinds ==
    ASSUME NEW t \in Task
    PROVE  /\ t.at \in {"fetch", "ask"} => t \in [at : {"fetch", "ask"}, target : Target]
           /\ t.at = "apply" => t \in [at : {"apply"}, target : Target, auth : Authorization,
                                      action : {"UpdateManifest", "Update", "Revoke"}]
           /\ t.at = "policy" => t \in [at : {"policy"}, policy : Policy]
    BY DEF Task, Idle

\* The snapshot that a round works from is a task.
LEMMA SnapshotType ==
    ASSUME NEW s \in State
    PROVE  Snapshot(s) \in Task
    BY Zenon DEF Snapshot, Task, State, Network, Authorization, Target

-----------------------------------------------------------------------------
(* The handlers *)

\* A state whose selection is backed.
Sound(s) == s \in State /\ (s.net # None => Backed(s.net))

\* What a handler leaves of the agent and its host.
Handled == /\ Sound(live)
           /\ host \in Host
           /\ stale \in BOOLEAN
           /\ reload \in BOOLEAN

\* A handler that leaves a sound state and a host keeps its part of the invariant.
LEMMA LeaveHandled ==
    ASSUME TypeOK, NEW s, NEW h \in Host, NEW b \in BOOLEAN,
           Sound(s), Leave(s, h, b)
    PROVE  Handled'
<1>1. live' = s /\ host' = h
    BY Zenon DEF Leave
<1>2. stale' \in BOOLEAN
    BY Zenon DEF Leave, TypeOK
<1>3. reload' \in BOOLEAN
    BY Zenon DEF Leave, TypeOK
<1>4. Sound(live)'
    BY Zenon, <1>1 DEF Sound, Backed
<1> QED
    BY Zenon, <1>1, <1>2, <1>3, <1>4 DEF Handled

\* The parts of a result.
LEMMA ResultType ==
    ASSUME NEW r \in Result
    PROVE  r.ok \in BOOLEAN /\ r.host \in Host
    BY Zenon DEF Result

\* The first half of the handlers: plan the kill switch, then write.
LEMMA PlanThenWriteType ==
    ASSUME NEW h \in Host, NEW s \in State
    PROVE  Then(kill_switch_plan_from_state(h, s),
                LAMBDA f : write_state(f, s)) \subseteq Result
<1>1. kill_switch_plan_from_state(h, s) \subseteq Result
    BY Zenon, PlanKillType
<1>2. \A r \in Result : write_state(r.host, s) \subseteq Result
    BY Zenon, WriteType, ResultType
<1> QED
    BY Zenon, <1>1, <1>2 DEF Then

\* Restoring: write the previous state, then apply its policy.
LEMMA WriteThenPolicyType ==
    ASSUME NEW h \in Host, NEW s \in State
    PROVE  Then(write_state(h, s),
                LAMBDA g : FailClosed(configure_policy(g, s), TRUE)) \subseteq Result
<1>1. write_state(h, s) \subseteq Result
    BY Zenon, WriteType
<1>2. \A r \in Result : FailClosed(configure_policy(r.host, s), TRUE) \subseteq Result
    BY Zenon, PolicyType, FailClosedType, ResultType
<1> QED
    BY Zenon, <1>1, <1>2 DEF Then

\* What the handlers rely on.
LEMMA InvariantTypes ==
    ASSUME AInv
    PROVE  Sound(live) /\ live \in State /\ host \in Host /\ task \in Task
    BY Zenon DEF AInv, TypeOK, Host, Sound

\* An early return changes nothing.
LEMMA SkippedHandled ==
    ASSUME AInv, UNCHANGED <<live, host, stale, reload>>
    PROVE  Handled'
<1>1. Sound(live)'
    BY Zenon, InvariantTypes DEF Sound, Backed
<1> QED
    BY Zenon, <1>1, InvariantTypes DEF Handled, AInv, TypeOK

\* remove_network, whichever call fails.
LEMMA RemoveNetworkKeeps ==
    ASSUME AInv, remove_network
    PROVE  Handled'
<1> DEFINE s == [net |-> None, gateway |-> FALSE]
           platform(h) == Then(configure_policy(h, s),
                               LAMBDA g : ConfigureRules(g, s, FALSE, FALSE))
           results == Then(write_state(host, s), platform)
<1>1. PICK r \in results : Leave(s, r.host, r.ok)
    BY Zenon DEF remove_network, Then
<1>2. Sound(s) /\ s \in State
    BY Zenon DEF Sound, State
<1> HIDE DEF s
<1>3. ASSUME NEW h \in Host
      PROVE  platform(h) \subseteq Result
  <2>1. configure_policy(h, s) \subseteq Result
      BY Zenon, <1>2, PolicyType
  <2>2. \A f \in Result : ConfigureRules(f.host, s, FALSE, FALSE) \subseteq Result
      BY Zenon, <1>2, RulesType, ResultType
  <2> QED
      BY Zenon, <2>1, <2>2 DEF Then
<1>4. write_state(host, s) \subseteq Result
    BY Zenon, <1>2, InvariantTypes, WriteType
<1> HIDE DEF platform
<1>5. results \subseteq Result
    BY Zenon, <1>3, <1>4, ResultType DEF Then
<1> HIDE DEF results
<1> QED
    BY Zenon, <1>1, <1>2, <1>5, ResultType, LeaveHandled DEF AInv

\* apply_authorization_action, whichever call fails.
LEMMA AuthorizationKeeps ==
    ASSUME AInv, apply_authorization_action
    PROVE  Handled' /\ task' \in Task
<1> DEFINE s == Withdrawn(Authorized(live, task))
           reloads == Reloads(live, task)
           closes == SelectionCleared(live, s) \/ GatewayCleared(live, s)
           networks(h) ==
               IF s.net = None THEN FailClosed(configure_policy(h, s), TRUE)
               ELSE IF reloads /\ h.active
               THEN FailClosed(configure_networks(h, s), closes)
               ELSE Ok(h)
           rules(h) == ConfigureRules(h, s, GatewayCleared(live, s), TRUE)
           writes == Then(kill_switch_plan_from_state(host, s),
                          LAMBDA h : write_state(h, s))
           results(h) == Then(networks(h), rules)
<1>1. task' \in {Idle, Asking(task.target)}
    BY Zenon DEF apply_authorization_action, Then
<1>0. task.at = "apply"
    BY Zenon DEF apply_authorization_action, Then
<1>2. task' \in Task
    BY Zenon, <1>0, <1>1, TaskKinds, InvariantTypes DEF Asking, Task
<1>3. CASE ~StillJoined(task.target)
  <2>1. UNCHANGED <<live, host, stale, reload>>
      BY Zenon, <1>3 DEF apply_authorization_action, Then
  <2> QED
      BY Zenon, <1>2, <2>1, SkippedHandled
<1>4. CASE StillJoined(task.target)
  <2>1. PICK w \in writes :
          IF ~w.ok THEN Leave(s, w.host, FALSE)
          ELSE \E r \in results(w.host) : Leave(s, r.host, reloads)
      BY Zenon, <1>4 DEF apply_authorization_action, Then
  <2>2. Sound(s) /\ s \in State
    <3>1. Authorized(live, task) \in State
        BY Zenon, <1>0, <1>4, TaskKinds, InvariantTypes, AuthorizedType DEF StillJoined
    <3> QED
        BY Zenon, <3>1, WithdrawnBacked DEF Sound
  <2>3. reloads \in BOOLEAN
      BY Zenon DEF Reloads
  <2> HIDE DEF s, reloads, closes
  <2>4. writes \subseteq Result
      BY Zenon, <2>2, InvariantTypes, PlanThenWriteType DEF Then
  <2>5. \A f \in Result : rules(f.host) \subseteq Result
      BY Zenon, <2>2, RulesType, ResultType
  <2>6. ASSUME NEW h \in Host
        PROVE  networks(h) \subseteq Result
      BY Zenon, <2>2, PolicyType, NetworksType, FailClosedType, OkType
  <2> HIDE DEF writes, networks, rules
  <2>7. ASSUME NEW h \in Host
        PROVE  results(h) \subseteq Result
      BY Zenon, <2>5, <2>6 DEF Then
  <2> HIDE DEF results
  <2>8. CASE ~w.ok
      BY Zenon, <2>1, <2>2, <2>4, <2>8, <1>2, ResultType, LeaveHandled DEF AInv
  <2>9. CASE w.ok
    <3>1. PICK r \in results(w.host) : Leave(s, r.host, reloads)
        BY Zenon, <2>1, <2>9
    <3> QED
        BY Zenon, <3>1, <2>2, <2>3, <2>4, <2>7, <1>2, ResultType, LeaveHandled DEF AInv
  <2> QED
      BY Zenon, <2>8, <2>9, <1>2
<1> QED
    BY Zenon, <1>2, <1>3, <1>4

\* apply_policy_manifest, whichever call fails: the new state or the previous one
\* is left.
LEMMA PolicyKeeps ==
    ASSUME AInv, NEW same \in BOOLEAN, apply_policy_manifest(same)
    PROVE  Handled' /\ task' = Idle
<1> DEFINE s == Cleared([live EXCEPT !.net.policy = task.policy])
           closes == SelectionCleared(live, s) \/ GatewayCleared(live, s)
           restore(h) ==
               Then(write_state(h, live),
                    LAMBDA g : FailClosed(configure_policy(g, live), TRUE))
           writes == Then(kill_switch_plan_from_state(host, s),
                          LAMBDA h : write_state(h, s))
           rules(h) == ConfigureRules(h, s, GatewayCleared(live, s), TRUE)
<1>0. task.at = "policy" /\ task' = Idle
    BY Zenon DEF apply_policy_manifest
<1>1. CASE ~(~same /\ Acceptable(task.policy))
  <2>1. UNCHANGED <<live, host, stale, reload>>
      BY Zenon, <1>1 DEF apply_policy_manifest, Then
  <2> QED
      BY Zenon, <1>0, <2>1, SkippedHandled
<1>2. CASE ~same /\ Acceptable(task.policy)
  <2>1. PICK w \in writes :
          IF ~w.ok THEN Leave(s, w.host, FALSE)
          ELSE \E p \in configure_policy(w.host, s) :
                  \/ p.ok /\ \E r \in rules(p.host) : Leave(s, r.host, r.ok)
                  \/ Leave(s, deactivate(p.host), FALSE)
                  \/ \E r \in restore(p.host) : Leave(live, r.host, FALSE)
      BY Zenon, <1>2 DEF apply_policy_manifest, Then
  <2>2. Sound(s) /\ s \in State
    <3>1. [live EXCEPT !.net.policy = task.policy] \in State
        BY Zenon, <1>0, <1>2, TaskKinds, InvariantTypes DEF Acceptable, State, Network
    <3> QED
        BY Zenon, <3>1, ClearedBacked DEF Sound
  <2> HIDE DEF s, closes
  <2>4. writes \subseteq Result
      BY Zenon, <2>2, InvariantTypes, PlanThenWriteType DEF Then
  <2>5. \A h \in Host : rules(h) \subseteq Result
      BY Zenon, <2>2, RulesType
  <2>6. \A h \in Host : restore(h) \subseteq Result
      BY Zenon, InvariantTypes, WriteThenPolicyType DEF Then
  <2> HIDE DEF writes, rules, restore
  <2>8. CASE ~w.ok
      BY Zenon, <1>0, <2>1, <2>2, <2>4, <2>8, ResultType, LeaveHandled DEF AInv
  <2>9. CASE w.ok
    <3>1. PICK p \in configure_policy(w.host, s) :
                  \/ p.ok /\ \E r \in rules(p.host) : Leave(s, r.host, r.ok)
                  \/ Leave(s, deactivate(p.host), FALSE)
                  \/ \E r \in restore(p.host) : Leave(live, r.host, FALSE)
        BY Zenon, <2>1, <2>9
    <3>2. p.host \in Host
        BY Zenon, <2>2, <2>4, PolicyType, ResultType
    <3>3. CASE \E r \in rules(p.host) : Leave(s, r.host, r.ok)
        BY Zenon, <1>0, <3>2, <3>3, <2>2, <2>5, ResultType, LeaveHandled DEF AInv
    <3>4. CASE Leave(s, deactivate(p.host), FALSE)
        BY Zenon, <1>0, <3>2, <3>4, <2>2, DeactivateType, LeaveHandled DEF AInv
    <3>5. CASE \E r \in restore(p.host) : Leave(live, r.host, FALSE)
        BY Zenon, <1>0, <3>2, <3>5, <2>6, InvariantTypes, ResultType, LeaveHandled DEF AInv
    <3> QED
        BY Zenon, <3>1, <3>3, <3>4, <3>5
  <2> QED
      BY Zenon, <2>8, <2>9
<1> QED
    BY Zenon, <1>1, <1>2

\* expire_stale_policies, whichever call fails.
LEMMA ExpireKeeps ==
    ASSUME AInv, expire_stale_policies
    PROVE  Handled' /\ task' \in Task
<1> DEFINE s == Expired(live)
           platform(h) ==
               Then(configure_policy(h, s),
                    LAMBDA g : ConfigureRules(g, s, GatewayCleared(live, s), TRUE))
           writes == Then(write_state(host, s), LAMBDA h : kill_switch_plan_from_state(h, s))
           results == Then(writes, platform)
<1>1. Sound(s) /\ s \in State
    BY Zenon, InvariantTypes, ExpiredBacked DEF Sound
<1>2. task' \in {Idle, Snapshot(live), Snapshot(s)}
    BY Zenon DEF expire_stale_policies, Then
<1>3. task' \in Task
    BY Zenon, <1>1, <1>2, InvariantTypes, SnapshotType DEF Task
<1>4. CASE s = live
  <2>1. UNCHANGED <<live, host, stale, reload>>
      BY Zenon, <1>4 DEF expire_stale_policies, Then
  <2> QED
      BY Zenon, <1>3, <2>1, SkippedHandled
<1>5. CASE s # live
  <2>1. PICK r \in results : Leave(s, r.host, r.ok)
      BY Zenon, <1>5 DEF expire_stale_policies, Then
  <2> HIDE DEF s
  <2>2. ASSUME NEW h \in Host
        PROVE  platform(h) \subseteq Result
    <3>1. configure_policy(h, s) \subseteq Result
        BY Zenon, <1>1, PolicyType
    <3>2. \A f \in Result : ConfigureRules(f.host, s, GatewayCleared(live, s), TRUE) \subseteq Result
        BY Zenon, <1>1, RulesType, ResultType
    <3> QED
        BY Zenon, <3>1, <3>2 DEF Then
  <2>3. write_state(host, s) \subseteq Result
      BY Zenon, <1>1, InvariantTypes, WriteType
  <2>4. \A f \in Result : kill_switch_plan_from_state(f.host, s) \subseteq Result
      BY Zenon, <1>1, ResultType, PlanKillType
  <2>5. writes \subseteq Result
      BY Zenon, <2>3, <2>4 DEF Then
  <2> HIDE DEF writes, platform
  <2>6. results \subseteq Result
      BY Zenon, <2>2, <2>5, ResultType DEF Then
  <2> HIDE DEF results
  <2> QED
      BY Zenon, <1>1, <1>3, <2>1, <2>6, ResultType, LeaveHandled DEF AInv
<1> QED
    BY Zenon, <1>4, <1>5

\* configure_exit_selection: what validate_exit_selection lets through is backed,
\* and so is the selection that a failure restores.
LEMMA SelectionKeeps ==
    ASSUME AInv, NEW via \in Gateway \cup {None}, NEW kill \in BOOLEAN,
           configure_exit_selection(via, kill)
    PROVE  Handled'
<1> DEFINE s == [live EXCEPT !.net.via = via, !.net.kill = kill]
           restore_policy(h) ==
               Then(write_state(h, live),
                    LAMBDA g : FailClosed(configure_policy(g, live), TRUE))
           both(h) == UNION {{[k EXCEPT !.ok = @ /\ p.ok]
                                : k \in configure_kill_switch(p.host, WantsKill(live))}
                                : p \in configure_policy(h, live)}
           restore_both(h) == FailClosed(both(h), TRUE)
           writes == Then(kill_switch_plan_from_state(host, s),
                          LAMBDA h : write_state(h, s))
           rewrites(h) == Then(kill_switch_plan_from_state(h, live),
                               LAMBDA f : write_state(f, live))
           restores(h) == Then(rewrites(h), restore_both)
<1>1. CASE s = live
  <2>1. Leave(live, host, FALSE)
      BY Zenon, <1>1 DEF configure_exit_selection, Then
  <2> QED
      BY Zenon, <2>1, InvariantTypes, LeaveHandled DEF AInv
<1>2. CASE s # live
  <2>1. PICK w \in writes :
          IF ~w.ok THEN Leave(s, w.host, FALSE)
          ELSE \E p \in configure_policy(w.host, s) :
                  \/ \E r \in restore_policy(p.host) : Leave(live, r.host, FALSE)
                  \/ \E k \in configure_kill_switch(p.host, kill) :
                        \/ Leave(s, k.host, FALSE)
                        \/ \E r \in restores(k.host) : Leave(live, r.host, FALSE)
      BY Zenon, <1>2 DEF configure_exit_selection, Then
  <2>2. Sound(s) /\ s \in State
    <3>1. /\ live \in State /\ live.net # None
          /\ kill => via # None
          /\ via # None => live.net.policy # None /\ via \in live.net.policy.exits
        BY Zenon, InvariantTypes DEF configure_exit_selection, validate_exit_selection, HasPolicy
    <3> QED
        BY Zenon, <3>1 DEF Sound, Backed, State, Network
  <2> HIDE DEF s
  <2>3. writes \subseteq Result
      BY Zenon, <2>2, InvariantTypes, PlanThenWriteType DEF Then
  <2>4. \A h \in Host : restore_policy(h) \subseteq Result
      BY Zenon, InvariantTypes, WriteThenPolicyType DEF Then
  <2>5. \A h \in Host : rewrites(h) \subseteq Result
      BY Zenon, InvariantTypes, PlanThenWriteType DEF Then
  <2>6. ASSUME NEW h \in Host
        PROVE  restore_both(h) \subseteq Result
    <3>1. ASSUME NEW p \in configure_policy(h, live),
                 NEW k \in configure_kill_switch(p.host, WantsKill(live))
          PROVE  [k EXCEPT !.ok = @ /\ p.ok] \in Result
      <4>1. p \in Result
          BY Zenon, InvariantTypes, PolicyType
      <4>2. k \in Result
          BY Zenon, <4>1, InvariantTypes, ResultType, WantsKillType, KillSwitchType
      <4> QED
          BY Zenon, <4>1, <4>2 DEF Result
    <3>2. both(h) \subseteq Result
      <4>1. SUFFICES ASSUME NEW x \in both(h)
                     PROVE  x \in Result
          BY Zenon
      <4>2. PICK p \in configure_policy(h, live) :
                x \in {[k EXCEPT !.ok = @ /\ p.ok]
                          : k \in configure_kill_switch(p.host, WantsKill(live))}
          BY Zenon, <4>1
      <4> QED
          BY Zenon, <3>1, <4>2
    <3> QED
        BY Zenon, <3>2, FailClosedType
  <2> HIDE DEF writes, restore_policy, rewrites, restore_both
  <2>7. ASSUME NEW h \in Host
        PROVE  restores(h) \subseteq Result
      BY Zenon, <2>5, <2>6, ResultType DEF Then
  <2> HIDE DEF restores
  <2>8. CASE ~w.ok
      BY Zenon, <2>1, <2>2, <2>3, <2>8, ResultType, LeaveHandled DEF AInv
  <2>9. CASE w.ok
    <3>1. PICK p \in configure_policy(w.host, s) :
                  \/ \E r \in restore_policy(p.host) : Leave(live, r.host, FALSE)
                  \/ \E k \in configure_kill_switch(p.host, kill) :
                        \/ Leave(s, k.host, FALSE)
                        \/ \E r \in restores(k.host) : Leave(live, r.host, FALSE)
        BY Zenon, <2>1, <2>9
    <3>2. p.host \in Host
        BY Zenon, <2>2, <2>3, PolicyType, ResultType
    <3>3. CASE \E r \in restore_policy(p.host) : Leave(live, r.host, FALSE)
        BY Zenon, <3>2, <3>3, <2>4, InvariantTypes, ResultType, LeaveHandled DEF AInv
    <3>4. CASE \E k \in configure_kill_switch(p.host, kill) :
                        \/ Leave(s, k.host, FALSE)
                        \/ \E r \in restores(k.host) : Leave(live, r.host, FALSE)
      <4>1. PICK k \in configure_kill_switch(p.host, kill) :
                        \/ Leave(s, k.host, FALSE)
                        \/ \E r \in restores(k.host) : Leave(live, r.host, FALSE)
          BY Zenon, <3>4
      <4>2. k.host \in Host
          BY Zenon, <3>2, KillSwitchType, ResultType
      <4>3. CASE Leave(s, k.host, FALSE)
          BY Zenon, <4>2, <4>3, <2>2, LeaveHandled DEF AInv
      <4>4. CASE \E r \in restores(k.host) : Leave(live, r.host, FALSE)
          BY Zenon, <4>2, <4>4, <2>7, InvariantTypes, ResultType, LeaveHandled DEF AInv
      <4> QED
          BY Zenon, <4>1, <4>3, <4>4
    <3> QED
        BY Zenon, <3>1, <3>3, <3>4
  <2> QED
      BY Zenon, <2>8, <2>9
<1> QED
    BY Zenon, <1>1, <1>2

\* configure_exit_gateway and remove_exit_gateway, whichever call fails.
LEMMA GatewayKeeps ==
    ASSUME AInv, NEW on \in BOOLEAN, configure_exit_gateway(on)
    PROVE  Handled'
<1> DEFINE s == [live EXCEPT !.gateway = on]
           restore(h) ==
               Then(write_state(h, live),
                    LAMBDA g : FailClosed(configure_exit_gateways(g, live.gateway), TRUE))
<1>1. CASE Leave(live, host, FALSE)
    BY Zenon, <1>1, InvariantTypes, LeaveHandled DEF AInv
<1>2. CASE ~Leave(live, host, FALSE)
  <2>1. PICK w \in write_state(host, s) :
          IF ~w.ok THEN Leave(s, w.host, FALSE)
          ELSE \E g \in configure_exit_gateways(w.host, on) :
                  \/ Leave(s, g.host, FALSE)
                  \/ \E r \in restore(g.host) : Leave(live, r.host, FALSE)
      BY Zenon, <1>2 DEF configure_exit_gateway, Then
  <2>2. Sound(s) /\ s \in State
      BY Zenon, InvariantTypes DEF Sound, State
  <2> HIDE DEF s
  <2>3. w \in Result
      BY Zenon, <2>1, <2>2, InvariantTypes, WriteType
  <2>4. ASSUME NEW h \in Host
        PROVE  restore(h) \subseteq Result
    <3>1. write_state(h, live) \subseteq Result
        BY Zenon, InvariantTypes, WriteType
    <3>2. live.gateway \in BOOLEAN
        BY Zenon, InvariantTypes DEF State
    <3>3. \A r \in Result :
              FailClosed(configure_exit_gateways(r.host, live.gateway), TRUE) \subseteq Result
        BY Zenon, <3>2, GatewaysType, FailClosedType, ResultType
    <3> QED
        BY Zenon, <3>1, <3>3 DEF Then
  <2> HIDE DEF restore
  <2>5. CASE ~w.ok
      BY Zenon, <2>1, <2>2, <2>3, <2>5, ResultType, LeaveHandled DEF AInv
  <2>6. CASE w.ok
    <3>1. PICK g \in configure_exit_gateways(w.host, on) :
                  \/ Leave(s, g.host, FALSE)
                  \/ \E r \in restore(g.host) : Leave(live, r.host, FALSE)
        BY Zenon, <2>1, <2>6
    <3>2. g.host \in Host
        BY Zenon, <2>3, GatewaysType, ResultType
    <3>3. CASE Leave(s, g.host, FALSE)
        BY Zenon, <3>2, <3>3, <2>2, LeaveHandled DEF AInv
    <3>4. CASE \E r \in restore(g.host) : Leave(live, r.host, FALSE)
        BY Zenon, <3>2, <3>4, <2>4, InvariantTypes, ResultType, LeaveHandled DEF AInv
    <3> QED
        BY Zenon, <3>1, <3>3, <3>4
  <2> QED
      BY Zenon, <2>5, <2>6
<1> QED
    BY Zenon, <1>1, <1>2

\* The second half of an enrolment: the copy that is written back is backed by
\* the policy copied with it.
LEMMA EnrolmentEndKeeps ==
    ASSUME AInv, enroll_network_ends
    PROVE  Handled'
<1> DEFINE n == [cert |-> enrolment.auth.cert, key |-> enrolment.auth.key,
                 auth |-> enrolment.auth, policy |-> enrolment.policy,
                 via |-> enrolment.via, kill |-> enrolment.kill]
           s == [live EXCEPT !.net = n]
           platform(h) == IF h.active THEN configure_networks(h, s) ELSE Ok(h)
           results == Then(write_state(host, s), platform)
<1>1. PICK r \in results : Leave(s, r.host, r.ok)
    BY Zenon DEF enroll_network_ends, Then
<1>2. enrolment \in Enrolment /\ Backed(enrolment)
    BY Zenon DEF enroll_network_ends, AInv, TypeOK
<1>3. n \in Network /\ Backed(n)
    BY Zenon, <1>2 DEF Enrolment, Authorization, Network, Backed
<1> HIDE DEF n
<1>4. Sound(s) /\ s \in State
    BY Zenon, <1>3, InvariantTypes DEF Sound, State
<1> HIDE DEF s
<1>5. write_state(host, s) \subseteq Result
    BY Zenon, <1>4, InvariantTypes, WriteType
<1>6. \A h \in Host : platform(h) \subseteq Result
    BY Zenon, <1>4, NetworksType, OkType
<1> HIDE DEF platform
<1>7. results \subseteq Result
    BY Zenon, <1>5, <1>6, ResultType DEF Then
<1> HIDE DEF results
<1> QED
    BY Zenon, <1>1, <1>4, <1>7, ResultType, LeaveHandled DEF AInv

\* activate_adapter, whichever call fails.
LEMMA ActivateKeeps ==
    ASSUME AInv, activate_adapter
    PROVE  host' \in Host
<1> DEFINE first(h) == Then(configure_networks(h, live),
                            LAMBDA n : configure_exit_gateways(n, live.gateway))
           platform(h) == Then(first(h), LAMBDA g : configure_kill_switch(g, WantsKill(live)))
           configured(h) == FailClosed(platform(h), ~host.active)
           begun == Then(kill_switch_plan_from_state(host, live), activate)
           results == Then(begun, configured)
<1>1. PICK r \in results : host' = r.host
    BY Zenon DEF activate_adapter, Then
<1>2. ASSUME NEW h \in Host
      PROVE  configured(h) \subseteq Result
  <2>1. configure_networks(h, live) \subseteq Result
      BY Zenon, InvariantTypes, NetworksType
  <2>2. live.gateway \in BOOLEAN /\ WantsKill(live) \in BOOLEAN
      BY Zenon, InvariantTypes, WantsKillType DEF State
  <2>3. \A f \in Result : configure_exit_gateways(f.host, live.gateway) \subseteq Result
      BY Zenon, <2>2, ResultType, GatewaysType
  <2>4. \A f \in Result : configure_kill_switch(f.host, WantsKill(live)) \subseteq Result
      BY Zenon, <2>2, ResultType, KillSwitchType
  <2>5. first(h) \subseteq Result
      BY Zenon, <2>1, <2>3 DEF Then
  <2> HIDE DEF first
  <2>6. platform(h) \subseteq Result
      BY Zenon, <2>4, <2>5 DEF Then
  <2> HIDE DEF platform
  <2> QED
      BY Zenon, <2>6, FailClosedType
<1>3. begun \subseteq Result
  <2>1. kill_switch_plan_from_state(host, live) \subseteq Result
      BY Zenon, InvariantTypes, PlanKillType
  <2>2. \A f \in Result : activate(f.host) \subseteq Result
      BY Zenon, ResultType, ActivateType
  <2> QED
      BY Zenon, <2>1, <2>2 DEF Then
<1> HIDE DEF begun, configured
<1>4. results \subseteq Result
    BY Zenon, <1>2, <1>3, ResultType DEF Then
<1> HIDE DEF results
<1> QED
    BY Zenon, <1>1, <1>4, ResultType

-----------------------------------------------------------------------------
(* The invariant *)

\* The controller's records, and time.
Recorded ==
    /\ controller \in [epoch : Epoch, key : Epoch, cert : Epoch, policy : Epoch,
                       members : SUBSET Device, exits : SUBSET Device]
    /\ controller.key <= controller.epoch /\ controller.cert <= controller.epoch
    /\ era \in Era

\* The copy that an enrolment holds.
Copied == /\ enrolment \in Enrolment \cup {None}
          /\ enrolment # None => Backed(enrolment)

\* The parts of the invariant.
LEMMA InvariantParts ==
    AInv <=> /\ Handled /\ task \in Task /\ Recorded /\ Copied
             /\ calls \in 0 .. MaxCalls
    BY Zenon DEF AInv, TypeOK, Handled, Sound, Host, Recorded, Copied

\* The parts of the invariant, after a step.
LEMMA NextParts ==
    ASSUME Handled', task' \in Task, Recorded', Copied', calls' \in 0 .. MaxCalls
    PROVE  AInv'
    BY Zenon DEF AInv, TypeOK, Handled, Sound, Host, Recorded, Copied

\* A step that leaves the controller and time alone keeps Recorded.
LEMMA SameRecords ==
    ASSUME Recorded, UNCHANGED <<controller, era>>
    PROVE  Recorded'
    BY Zenon DEF Recorded

\* A step that leaves the enrolment alone keeps Copied.
LEMMA SameCopy ==
    ASSUME Copied, UNCHANGED enrolment
    PROVE  Copied'
    BY Zenon DEF Copied, Backed

\* The bounds are natural numbers.
LEMMA Bounds == MaxEpoch \in Nat /\ MaxEra \in Nat /\ MaxCalls \in Nat
    BY Zenon, AgentAssumption

\* A counter that is behind the authorization epoch may be advanced with it.
LEMMA NextEpoch ==
    ASSUME NEW m \in Epoch, NEW n \in Epoch, n < MaxEpoch, m <= n
    PROVE  m + 1 \in Epoch /\ m <= n + 1 /\ m + 1 <= n + 1
    BY Bounds DEF Epoch

\* The controller's counters, and the two that never pass the authorization epoch.
LEMMA RecordFields ==
    ASSUME Recorded
    PROVE  /\ controller.epoch \in Epoch /\ controller.policy \in Epoch
           /\ controller.key \in Epoch /\ controller.cert \in Epoch
           /\ controller.key <= controller.epoch /\ controller.cert <= controller.epoch
           /\ controller.epoch <= controller.epoch /\ controller.policy <= controller.policy
    BY DEF Recorded, Epoch

\* A call is counted within its bound.
LEMMA CallCounts ==
    ASSUME calls \in 0 .. MaxCalls, calls < MaxCalls, calls' = calls + 1
    PROVE  calls' \in 0 .. MaxCalls
    BY AgentAssumption

\* A restart: whatever is on disk, the state that is loaded is sound.
LEMMA RestartKeeps ==
    ASSUME AInv, Restart
    PROVE  Handled'
<1> DEFINE s == Withdrawn(host.disk)
<1>1. Sound(s) /\ s \in State
    BY Zenon, InvariantTypes, WithdrawnBacked DEF Sound, Host
<1>2. live' = s /\ host' = [deactivate(host) EXCEPT !.disk = s]
      /\ stale' = FALSE /\ reload' = FALSE
    BY Zenon DEF Restart, migrate_and_validate_agent_state
<1> HIDE DEF s
<1>3. host' \in Host
    BY Zenon, <1>1, <1>2, InvariantTypes, DeactivateType DEF Host
<1> QED
    BY Zenon, <1>1, <1>2, <1>3 DEF Handled, Sound, Backed

\* The first half of an enrolment: the copy it takes is backed, as the network is.
LEMMA EnrolmentBeginKeeps ==
    ASSUME AInv, enroll_network_begins
    PROVE  Recorded' /\ Copied'
<1> DEFINE c == [controller EXCEPT
                    !.epoch = @ + 1, !.members = @ \cup {Self},
                    !.cert = IF Self \in controller.members THEN @ ELSE @ + 1]
           a == [epoch |-> c.epoch, key |-> c.key, cert |-> c.cert,
                 members |-> c.members, era |-> era]
<1>1. /\ controller' = c /\ era' = era
      /\ enrolment' = resolve_enrollment_control_plane(live.net, a)
    BY Zenon DEF enroll_network_begins
<1>2. Recorded'
  <2>1. Recorded /\ controller.epoch < MaxEpoch
      BY Zenon, InvariantParts DEF enroll_network_begins
  <2>2. /\ controller.epoch + 1 \in Epoch /\ controller.cert + 1 \in Epoch
        /\ controller.key <= controller.epoch + 1
        /\ controller.cert + 1 <= controller.epoch + 1
        /\ controller.cert <= controller.epoch + 1
      BY Zenon, <2>1, RecordFields, NextEpoch
  <2>3. c \in [epoch : Epoch, key : Epoch, cert : Epoch, policy : Epoch,
               members : SUBSET Device, exits : SUBSET Device]
      BY Zenon, <2>1, <2>2 DEF Recorded, Device
  <2>4. /\ c.key = controller.key /\ c.epoch = controller.epoch + 1
        /\ c.cert \in {controller.cert, controller.cert + 1}
      BY Zenon, <2>1 DEF Recorded
  <2> HIDE DEF c
  <2> QED
      BY Zenon, <1>1, <2>1, <2>2, <2>3, <2>4 DEF Recorded
<1>3. a \in Authorization
    BY Zenon, <1>1, <1>2, InvariantParts DEF Recorded, Authorization
<1> HIDE DEF a
<1>4. resolve_enrollment_control_plane(live.net, a) \in Enrolment
    BY Zenon, <1>3, InvariantTypes DEF resolve_enrollment_control_plane, State, Network, Enrolment
<1>5. Backed(resolve_enrollment_control_plane(live.net, a))
    BY Zenon, InvariantTypes DEF resolve_enrollment_control_plane, Sound, Backed
<1> QED
    BY Zenon, <1>1, <1>2, <1>4, <1>5 DEF Copied, Backed

\* remove_member and update_policy.
LEMMA ControllerKeeps ==
    ASSUME AInv,
           \/ \E d \in Device : remove_member(d)
           \/ \E exits \in SUBSET Device : update_policy(exits)
    PROVE  Recorded'
<1>1. Recorded
    BY Zenon, InvariantParts
<1>2. ASSUME NEW d \in Device, remove_member(d)
      PROVE  Recorded'
  <2>2. /\ controller.epoch + 1 \in Epoch /\ controller.policy + 1 \in Epoch
        /\ controller.key + 1 \in Epoch
        /\ controller.key + 1 <= controller.epoch + 1
        /\ controller.cert <= controller.epoch + 1
      BY Zenon, <1>1, <1>2, RecordFields, NextEpoch DEF remove_member
  <2>3. controller' \in [epoch : Epoch, key : Epoch, cert : Epoch, policy : Epoch,
                         members : SUBSET Device, exits : SUBSET Device]
      BY Zenon, <1>1, <1>2, <2>2 DEF Recorded, remove_member
  <2>4. /\ controller'.key = controller.key + 1 /\ controller'.cert = controller.cert
        /\ controller'.epoch = controller.epoch + 1 /\ era' = era
      BY Zenon, <1>1, <1>2 DEF Recorded, remove_member
  <2> QED
      BY Zenon, <1>1, <2>2, <2>3, <2>4 DEF Recorded
<1>3. ASSUME NEW exits \in SUBSET Device, update_policy(exits)
      PROVE  Recorded'
  <2>1. controller.policy + 1 \in Epoch
      BY Zenon, <1>1, <1>3, RecordFields, NextEpoch DEF update_policy
  <2>2. controller' \in [epoch : Epoch, key : Epoch, cert : Epoch, policy : Epoch,
                         members : SUBSET Device, exits : SUBSET Device]
      BY Zenon, <1>1, <1>3, <2>1 DEF Recorded, update_policy
  <2>3. /\ controller'.key = controller.key /\ controller'.cert = controller.cert
        /\ controller'.epoch = controller.epoch /\ era' = era
      BY Zenon, <1>1, <1>3 DEF Recorded, update_policy
  <2> QED
      BY Zenon, <1>1, <2>2, <2>3 DEF Recorded
<1> QED
    BY Zenon, <1>2, <1>3

\* fetch_authorization_action leaves a task.
LEMMA FetchKeeps ==
    ASSUME AInv, NEW renew \in BOOLEAN, fetch_authorization_action(renew)
    PROVE  task' \in Task
<1>1. sign_authorization \in Authorization
    BY Zenon, InvariantParts DEF sign_authorization, Recorded, Authorization
<1>2. task.target \in Target
    BY Zenon, TaskKinds, InvariantTypes DEF fetch_authorization_action
<1>3. \/ task' = Idle
      \/ \E action \in {"UpdateManifest", "Update", "Revoke"} :
            task' = [at |-> "apply", target |-> task.target,
                     auth |-> sign_authorization, action |-> action]
    BY Zenon DEF fetch_authorization_action
<1> QED
    BY <1>1, <1>2, <1>3 DEF Task

\* refresh_policy leaves a task.
LEMMA AskKeeps ==
    ASSUME AInv, refresh_policy
    PROVE  task' \in Task
<1>1. sign_policy \in Policy
    BY Zenon, InvariantParts DEF sign_policy, Recorded, Policy
<1> QED
    BY Zenon, <1>1 DEF refresh_policy, Task

\* The invariant holds in the initial states.
LEMMA InitHolds == Init => AInv
<1> SUFFICES ASSUME Init PROVE AInv
    BY Zenon
<1>1. Recorded
    BY AgentAssumption DEF Init, Recorded, Epoch, Era
<1>2. sign_authorization \in Authorization
    BY Zenon, <1>1 DEF sign_authorization, Recorded, Authorization
<1>3. Sound(live)
    BY <1>2, AgentAssumption DEF Init, Sound, Backed, State, Network, Epoch
<1>4. host \in Host
    BY Zenon, <1>3, NoPlanType, AgentAssumption DEF Init, Host, Sound
<1> QED
  <2>1. Handled /\ Copied /\ task \in Task
      BY Zenon, <1>3, <1>4 DEF Init, Handled, Copied, Task
  <2>2. calls \in 0 .. MaxCalls
      BY AgentAssumption DEF Init
  <2> QED
      BY Zenon, <1>1, <2>1, <2>2, InvariantParts

\* An enrolment that is over leaves no copy.
LEMMA CopyEndKeeps ==
    ASSUME enrolment' = None
    PROVE  Copied'
    BY Zenon DEF Copied

\* Every step keeps the invariant.
LEMMA StepKeeps == AInv /\ [Next]_vars => AInv'
<1> SUFFICES ASSUME AInv, [Next]_vars
             PROVE  AInv'
    BY Zenon
<1>0. /\ Handled /\ task \in Task /\ Recorded /\ Copied
      /\ calls \in 0 .. MaxCalls
    BY Zenon, InvariantParts
<1>1. CASE expire_stale_policies
  <2>1. UNCHANGED <<controller, era, enrolment, calls>>
      BY Zenon, <1>1 DEF expire_stale_policies, Then
  <2> QED
      BY Zenon, <1>0, <1>1, <2>1, ExpireKeeps, SameRecords, SameCopy, NextParts
<1>2. ASSUME NEW renew \in BOOLEAN, fetch_authorization_action(renew)
      PROVE  AInv'
  <2>1. UNCHANGED <<controller, era, live, host, enrolment, stale, reload, calls>>
      BY Zenon, <1>2 DEF fetch_authorization_action
  <2> QED
      BY Zenon, <1>0, <1>2, <2>1, FetchKeeps, SkippedHandled, SameRecords, SameCopy, NextParts
<1>3. CASE apply_authorization_action
  <2>1. UNCHANGED <<controller, era, enrolment, calls>>
      BY Zenon, <1>3 DEF apply_authorization_action, Then
  <2> QED
      BY Zenon, <1>0, <1>3, <2>1, AuthorizationKeeps, SameRecords, SameCopy, NextParts
<1>4. CASE refresh_policy
  <2>1. UNCHANGED <<controller, era, live, host, enrolment, stale, reload, calls>>
      BY Zenon, <1>4 DEF refresh_policy
  <2> QED
      BY Zenon, <1>0, <1>4, <2>1, AskKeeps, SkippedHandled, SameRecords, SameCopy, NextParts
<1>5. ASSUME NEW same \in BOOLEAN, apply_policy_manifest(same)
      PROVE  AInv'
  <2>1. UNCHANGED <<controller, era, enrolment, calls>>
      BY Zenon, <1>5 DEF apply_policy_manifest, Then
  <2>2. Handled' /\ task' \in Task
      BY Zenon, <1>5, PolicyKeeps DEF Task
  <2> QED
      BY Zenon, <1>0, <2>1, <2>2, SameRecords, SameCopy, NextParts
<1>6. ASSUME Call, Handled', UNCHANGED enrolment
      PROVE  AInv'
  <2>1. UNCHANGED <<controller, era, task>> /\ calls' \in 0 .. MaxCalls
      BY Zenon, <1>0, <1>6, CallCounts DEF Call
  <2> QED
      BY Zenon, <1>0, <1>6, <2>1, SameRecords, SameCopy, NextParts
<1>7. ASSUME NEW via \in Gateway \cup {None}, NEW kill \in BOOLEAN,
             configure_exit_selection(via, kill)
      PROVE  AInv'
  <2>1. Call /\ UNCHANGED enrolment
      BY Zenon, <1>7 DEF configure_exit_selection, Then
  <2> QED
      BY Zenon, <1>6, <1>7, <2>1, SelectionKeeps
<1>8. ASSUME NEW on \in BOOLEAN, configure_exit_gateway(on)
      PROVE  AInv'
  <2>1. Call /\ UNCHANGED enrolment
      BY Zenon, <1>8 DEF configure_exit_gateway, Then
  <2> QED
      BY Zenon, <1>6, <1>8, <2>1, GatewayKeeps
<1>9. CASE remove_network
  <2>1. Call /\ UNCHANGED enrolment
      BY Zenon, <1>9 DEF remove_network, Then
  <2> QED
      BY Zenon, <1>6, <1>9, <2>1, RemoveNetworkKeeps
<1>10. CASE enroll_network_begins
  <2>1. /\ UNCHANGED <<era, live, host, task, stale, reload>>
        /\ calls < MaxCalls /\ calls' = calls + 1
      BY Zenon, <1>10 DEF enroll_network_begins
  <2>2. calls' \in 0 .. MaxCalls
      BY Zenon, <1>0, <2>1, CallCounts
  <2> QED
      BY Zenon, <1>0, <1>10, <2>1, <2>2, EnrolmentBeginKeeps, SkippedHandled, NextParts
<1>11. CASE enroll_network_ends
  <2>1. UNCHANGED <<controller, era, task, calls>> /\ enrolment' = None
      BY Zenon, <1>11 DEF enroll_network_ends, Then
  <2> QED
      BY Zenon, <1>0, <1>11, <2>1, EnrolmentEndKeeps, SameRecords, CopyEndKeeps, NextParts
<1>12. CASE activate_adapter
  <2>1. UNCHANGED <<controller, era, live, task, enrolment, stale, reload, calls>>
      BY Zenon, <1>12 DEF activate_adapter, Then
  <2>2. Handled'
      BY Zenon, <1>0, <1>12, <2>1, ActivateKeeps DEF Handled, Sound, Backed
  <2> QED
      BY Zenon, <1>0, <2>1, <2>2, SameRecords, SameCopy, NextParts
<1>13. CASE deactivate_adapter
  <2>1. Handled'
      BY Zenon, <1>0, <1>13, DeactivateType DEF deactivate_adapter, Handled, Sound, Backed
  <2>2. Call /\ UNCHANGED enrolment
      BY Zenon, <1>13 DEF deactivate_adapter
  <2> QED
      BY Zenon, <1>6, <2>1, <2>2
<1>14. CASE start_relay_worker
  <2>1. Handled'
      BY Zenon, <1>0, <1>14 DEF start_relay_worker, Handled, Sound, Backed
  <2>2. UNCHANGED <<controller, era, task, enrolment, calls>>
      BY Zenon, <1>14 DEF start_relay_worker
  <2> QED
      BY Zenon, <1>0, <2>1, <2>2, SameRecords, SameCopy, NextParts
<1>15. CASE Unreachable
  <2>1. UNCHANGED <<controller, era, live, enrolment, stale, reload, calls>> /\ task' = Idle
      BY Zenon, <1>15 DEF Unreachable
  <2>2. host' \in Host
      BY Zenon, <1>15, InvariantTypes, FailsType, ResultType DEF Unreachable, Fault
  <2>3. Handled' /\ task' \in Task
      BY Zenon, <1>0, <2>1, <2>2 DEF Handled, Sound, Backed, Task
  <2> QED
      BY Zenon, <1>0, <2>1, <2>3, SameRecords, SameCopy, NextParts
<1>16. CASE Restart
  <2>1. /\ UNCHANGED <<controller, era>> /\ task' = Idle /\ enrolment' = None
        /\ calls < MaxCalls /\ calls' = calls + 1
      BY Zenon, <1>16 DEF Restart
  <2>2. calls' \in 0 .. MaxCalls
      BY Zenon, <1>0, <2>1, CallCounts
  <2>3. task' \in Task
      BY Zenon, <2>1 DEF Task
  <2> QED
      BY Zenon, <1>0, <1>16, <2>1, <2>2, <2>3, RestartKeeps, SameRecords, CopyEndKeeps, NextParts
<1>17. CASE \/ \E d \in Device : remove_member(d)
            \/ \E exits \in SUBSET Device : update_policy(exits)
  <2>1. UNCHANGED <<live, host, task, enrolment, stale, reload, calls>>
      BY Zenon, <1>17 DEF remove_member, update_policy
  <2> QED
      BY Zenon, <1>0, <1>17, <2>1, ControllerKeeps, SkippedHandled, SameCopy, NextParts
<1>18. CASE Lapse
  <2>1. UNCHANGED <<controller, live, host, task, enrolment, stale, reload, calls>>
      BY Zenon, <1>18 DEF Lapse
  <2>2. Recorded'
      BY <1>0, <1>18, Bounds DEF Lapse, Recorded, Era
  <2> QED
      BY Zenon, <1>0, <2>1, <2>2, SkippedHandled, SameCopy, NextParts
<1>19. CASE UNCHANGED vars
  <2>1. UNCHANGED <<controller, era, live, host, task, enrolment, stale, reload, calls>>
      BY Zenon, <1>19 DEF vars
  <2> QED
      BY Zenon, <1>0, <2>1, SkippedHandled, SameRecords, SameCopy, NextParts
<1> QED
    BY Zenon, <1>1, <1>2, <1>3, <1>4, <1>5, <1>7, <1>8, <1>9, <1>10, <1>11, <1>12, <1>13,
       <1>14, <1>15, <1>16, <1>17, <1>18, <1>19 DEF Next, Supervisor, Api, Environment

\* AInv is an invariant of the agent, for any gateways, failures and bounds.
THEOREM AgentInvariant == Spec => []AInv
    BY InitHolds, StepKeeps, PTL DEF Spec

\* Every handler, whichever of its calls fails, leaves values of the declared
\* types, and the counters within their bounds.
THEOREM AgentTypes == Spec => []TypeOK
<1>1. AInv => TypeOK
    BY Zenon DEF AInv
<1> QED
    BY <1>1, AgentInvariant, PTL

\* The exit selected in memory is always one that the policy in memory offers,
\* and there is never a kill switch without a selected exit: with any number of
\* gateways, any failures of the disk, the resolver, the platform or the network,
\* restarts, and enrolments that write back an old copy
\* (clear_unusable_exit_selection and the handlers that call it).
THEOREM SelectionAlwaysBacked == Spec => []SelectionBacked
<1>1. AInv => SelectionBacked
    BY Zenon DEF AInv, Backed, SelectionBacked
<1> QED
    BY <1>1, AgentInvariant, PTL

-----------------------------------------------------------------------------
(* A withdrawn exit *)

\* The host has no default route through g.
Off(h, g) == ~(h.active /\ h.policy.via = g)

\* A failure is used up, and leaves the routes alone.
LEMMA FailsWhat ==
    ASSUME NEW kind \in Fault, NEW h \in Host, NEW r \in Fails(kind, h)
    PROVE  /\ ~r.ok /\ r.host.faults[kind] # h.faults[kind]
           /\ r.host.active = h.active /\ r.host.policy = h.policy
<1> DEFINE f == [h EXCEPT !.faults[kind] = @ - 1]
<1>1. r = [ok |-> FALSE, host |-> f]
    BY Zenon DEF Fails, Refused
<1>2. f.active = h.active /\ f.policy = h.policy /\ f.faults[kind] = h.faults[kind] - 1
    BY Zenon DEF Host
<1>3. h.faults[kind] \in Nat
    BY Zenon DEF Host
<1> HIDE DEF f
<1> QED
    BY <1>1, <1>2, <1>3

\* What success and refusal say.
LEMMA OkWhat ==
    ASSUME NEW h, NEW r
    PROVE  /\ r \in Ok(h) => r.ok /\ r.host = h
           /\ r \in Refused(h) => ~r.ok /\ r.host = h
    BY DEF Ok, Refused

\* A write, or a plan of the kill switch, that does not succeed has used up a failure.
LEMMA FailedWrite ==
    ASSUME NEW h \in Host, NEW s \in State,
           NEW w \in Then(kill_switch_plan_from_state(h, s), LAMBDA f : write_state(f, s)),
           ~w.ok
    PROVE  \/ w.host.faults["dns"] # h.faults["dns"]
           \/ w.host.faults["disk"] # h.faults["disk"]
<1>1. PICK r \in kill_switch_plan_from_state(h, s) :
          w \in IF r.ok THEN write_state(r.host, s) ELSE {r}
    BY Zenon DEF Then
<1>2. r \in Ok(h) \/ r \in Fails("dns", h)
    BY Zenon DEF kill_switch_plan_from_state
<1>3. CASE r \in Fails("dns", h)
    BY <1>1, <1>3, FailsWhat DEF Fault
<1>4. CASE r \in Ok(h)
  <2>1. w \in write_state(h, s)
      BY Zenon, <1>1, <1>4, OkWhat
  <2> DEFINE f == [h EXCEPT !.disk = s]
  <2>2. f \in Host /\ f.faults = h.faults
      BY Zenon DEF Host
  <2>3. w \in Ok(f) \/ w \in Fails("disk", h) \/ w \in Fails("disk", f)
      BY Zenon, <2>1 DEF write_state
  <2> HIDE DEF f
  <2> QED
      BY <2>2, <2>3, FailsWhat, OkWhat DEF Fault
<1> QED
    BY Zenon, <1>2, <1>3, <1>4

\* The host after a transaction.
LEMMA TransactionWhat ==
    ASSUME NEW h \in Host, NEW done \in Host, NEW closed \in Host,
           NEW r \in Transaction(h, done, closed)
    PROVE  \/ r.ok /\ r.host = done
           \/ ~r.ok /\ r.host.active = h.active /\ r.host.policy = h.policy
           \/ ~r.ok /\ r.host.active = closed.active /\ r.host.policy = closed.policy
    BY FailsWhat, OkWhat DEF Transaction, Fault

\* No plan made for a state leads through an exit that the state does not select.
LEMMA PlanOff ==
    ASSUME NEW s \in State, NEW g \in Gateway, s.net = None \/ s.net.via # g
    PROVE  PlanOf(s).via # g
    BY Zenon, AgentAssumption DEF PlanOf, NoPlan

\* Once configure_policy has succeeded for a state that does not select g, the
\* host does not route through g.
LEMMA PolicyOff ==
    ASSUME NEW h \in Host, NEW s \in State, NEW g \in Gateway,
           s.net = None \/ s.net.via # g,
           NEW r \in configure_policy(h, s), r.ok
    PROVE  Off(r.host, g)
<1> DEFINE done == [h EXCEPT !.policy = PlanOf(s)]
           closed == [h EXCEPT !.active = FALSE, !.policy = NoPlan]
<1>1. done \in Host /\ closed \in Host
    BY Zenon, PlanType, NoPlanType DEF Host
<1>2. done.policy = PlanOf(s)
    BY Zenon DEF Host
<1>3. \/ r \in Refused(h)
      \/ r \in Ok(h) /\ (~h.active \/ h.policy = PlanOf(s))
      \/ r \in Transaction(h, done, closed)
    BY Zenon DEF configure_policy
<1> HIDE DEF done, closed
<1>4. CASE r \in Transaction(h, done, closed)
    BY <1>1, <1>2, <1>4, TransactionWhat, PlanOff DEF Off
<1>5. CASE r \in Ok(h) /\ (~h.active \/ h.policy = PlanOf(s))
    BY <1>5, OkWhat, PlanOff DEF Off
<1> QED
    BY Zenon, <1>3, <1>4, <1>5, OkWhat

\* The same of configure_networks.
LEMMA NetworksOff ==
    ASSUME NEW h \in Host, NEW s \in State, NEW g \in Gateway,
           s.net = None \/ s.net.via # g,
           NEW r \in configure_networks(h, s), r.ok
    PROVE  Off(r.host, g)
<1>1. r \in Refused(h) \/ r \in Fails("platform", h) \/ r \in configure_policy(h, s)
    BY Zenon DEF configure_networks
<1> QED
    BY Zenon, <1>1, OkWhat, FailsWhat, PolicyOff DEF Fault

\* A disabled host routes through nothing.
LEMMA DeactivateOff ==
    ASSUME NEW h \in Host, NEW g
    PROVE  Off(deactivate(h), g)
    BY Zenon DEF Off, deactivate, Host

\* Where a result of FailClosed comes from.
LEMMA FailClosedWhat ==
    ASSUME NEW results, results \subseteq Result, NEW closes, NEW r \in FailClosed(results, closes)
    PROVE  \E p \in results :
              \/ (p.ok \/ ~closes) /\ r = p
              \/ ~p.ok /\ r.host = deactivate(p.host)
<1>1. PICK p \in results :
          r = IF p.ok \/ ~closes THEN p ELSE [p EXCEPT !.host = deactivate(@)]
    BY Zenon DEF FailClosed
<1> QED
    BY Zenon, <1>1 DEF Result

\* The rules of the gateway and the kill switch leave the routes alone, or end the session.
LEMMA RulesOff ==
    ASSUME NEW h \in Host, NEW s \in State, NEW g, Off(h, g), NEW x, NEW k,
           NEW r \in ConfigureRules(h, s, x, k)
    PROVE  Off(r.host, g)
<1>1. ASSUME NEW f \in Host, Off(f, g), NEW on \in BOOLEAN,
             NEW p \in configure_exit_gateways(f, on)
      PROVE  Off(p.host, g)
  <2> DEFINE done == [f EXCEPT !.gateway = on]
             closed == [f EXCEPT !.active = FALSE]
  <2>1. /\ done \in Host /\ closed \in Host /\ done.policy = f.policy
        /\ done.active = f.active /\ ~closed.active
      BY Zenon DEF Host
  <2>2. p \in Refused(f) \/ p \in Ok(f) \/ p \in Transaction(f, done, closed)
      BY Zenon, <1>1 DEF configure_exit_gateways
  <2> HIDE DEF done, closed
  <2> QED
      BY <1>1, <2>1, <2>2, OkWhat, TransactionWhat DEF Off
<1>2. ASSUME NEW f \in Host, Off(f, g), NEW on \in BOOLEAN,
             NEW p \in configure_kill_switch(f, on)
      PROVE  Off(p.host, g)
  <2> DEFINE done == [f EXCEPT !.kill = on]
             closed == [f EXCEPT !.active = FALSE]
  <2>1. /\ done \in Host /\ closed \in Host /\ done.policy = f.policy
        /\ done.active = f.active /\ ~closed.active
      BY Zenon DEF Host
  <2>2. p \in Refused(f) \/ p \in Ok(f) \/ p \in Transaction(f, done, closed)
      BY Zenon, <1>2 DEF configure_kill_switch
  <2> HIDE DEF done, closed
  <2> QED
      BY <1>2, <2>1, <2>2, OkWhat, TransactionWhat DEF Off
<1>3. ASSUME NEW results, results \subseteq Result, \A p \in results : Off(p.host, g),
             NEW closes, NEW q \in FailClosed(results, closes)
      PROVE  Off(q.host, g)
    BY <1>3, FailClosedWhat, DeactivateOff, ResultType
<1>4. s.gateway \in BOOLEAN /\ WantsKill(s) \in BOOLEAN
    BY Zenon, WantsKillType DEF State
<1>5. CASE ~h.active
    BY Zenon, <1>5, OkWhat DEF ConfigureRules
<1>6. CASE h.active
  <2> DEFINE gateways == FailClosed(configure_exit_gateways(h, s.gateway), x)
             kills(f) == FailClosed(configure_kill_switch(f, WantsKill(s)), k)
  <2>1. PICK q \in gateways : r \in IF q.ok THEN kills(q.host) ELSE {q}
      BY Zenon, <1>6 DEF ConfigureRules, Then
  <2>2. configure_exit_gateways(h, s.gateway) \subseteq Result
      BY Zenon, <1>4, GatewaysType
  <2>3. q \in Result /\ Off(q.host, g)
      BY Zenon, <1>1, <1>3, <1>4, <2>1, <2>2, FailClosedType
  <2>4. q.host \in Host
      BY Zenon, <2>3, ResultType
  <2>5. configure_kill_switch(q.host, WantsKill(s)) \subseteq Result
      BY Zenon, <1>4, <2>4, KillSwitchType
  <2>6. \A p \in kills(q.host) : Off(p.host, g)
      BY Zenon, <1>2, <1>3, <1>4, <2>3, <2>4, <2>5
  <2> HIDE DEF kills
  <2> QED
      BY Zenon, <2>1, <2>3, <2>6
<1> QED
    BY Zenon, <1>5, <1>6

\* The step takes the selected exit g away, and no write or lookup fails in it.
Taken(g) ==
    /\ live.net # None /\ live.net.via = g
    /\ live'.net = None \/ live'.net.via # g
    /\ host'.faults["disk"] = host.faults["disk"]
    /\ host'.faults["dns"] = host.faults["dns"]

\* apply_authorization_action: the routes are configured anew, or the adapter is
\* disabled, because a choice that was cleared makes a failure close.
LEMMA AuthorizationOff ==
    ASSUME AInv, apply_authorization_action, Reloads(live, task),
           NEW g \in Gateway, Taken(g)
    PROVE  Off(host', g)
<1> DEFINE s == Withdrawn(Authorized(live, task))
           reloads == Reloads(live, task)
           closes == SelectionCleared(live, s) \/ GatewayCleared(live, s)
           networks(h) ==
               IF s.net = None THEN FailClosed(configure_policy(h, s), TRUE)
               ELSE IF reloads /\ h.active
               THEN FailClosed(configure_networks(h, s), closes)
               ELSE Ok(h)
           rules(h) == ConfigureRules(h, s, GatewayCleared(live, s), TRUE)
           writes == Then(kill_switch_plan_from_state(host, s),
                          LAMBDA h : write_state(h, s))
           results(h) == Then(networks(h), rules)
<1>0. task.at = "apply"
    BY Zenon DEF apply_authorization_action, Then
<1>1. StillJoined(task.target)
  <2>1. SUFFICES ASSUME ~StillJoined(task.target) PROVE FALSE
      BY Zenon
  <2>2. live' = live
      BY Zenon, <2>1 DEF apply_authorization_action, Then
  <2> QED
      BY Zenon, <2>2 DEF Taken
<1>2. PICK w \in writes :
          IF ~w.ok THEN Leave(s, w.host, FALSE)
          ELSE \E r \in results(w.host) : Leave(s, r.host, reloads)
    BY Zenon, <1>1 DEF apply_authorization_action, Then
<1>3. s \in State
  <2>1. Authorized(live, task) \in State
      BY Zenon, <1>0, <1>1, TaskKinds, InvariantTypes, AuthorizedType DEF StillJoined
  <2> QED
      BY Zenon, <2>1, WithdrawnBacked
<1>4. reloads
    BY Zenon
<1> HIDE DEF s, reloads
<1>5. live' = s
    BY Zenon, <1>2 DEF Leave
<1>6. s.net = None \/ s.net.via # g
    BY Zenon, <1>5 DEF Taken
<1>7. s.net # None => closes
    BY Zenon, <1>6 DEF Taken, SelectionCleared
<1>8. w \in Result
    BY Zenon, <1>2, <1>3, InvariantTypes, PlanThenWriteType DEF Then
<1>9. w.ok
  <2>1. SUFFICES ASSUME ~w.ok PROVE FALSE
      BY Zenon
  <2>2. host' = w.host
      BY Zenon, <1>2, <2>1 DEF Leave
  <2>3. \/ w.host.faults["dns"] # host.faults["dns"]
        \/ w.host.faults["disk"] # host.faults["disk"]
      BY Zenon, <1>2, <1>3, <2>1, InvariantTypes, FailedWrite DEF Then
  <2> QED
      BY Zenon, <2>2, <2>3 DEF Taken
<1>10. PICK r \in results(w.host) : host' = r.host
    BY Zenon, <1>2, <1>9 DEF Leave
<1>11. w.host \in Host
    BY Zenon, <1>8, ResultType
<1> HIDE DEF closes
<1>12. ASSUME NEW q \in networks(w.host)
       PROVE  q \in Result /\ Off(q.host, g)
  <2>1. CASE s.net = None
    <3>1. configure_policy(w.host, s) \subseteq Result
        BY Zenon, <1>3, <1>11, PolicyType
    <3>2. q \in FailClosed(configure_policy(w.host, s), TRUE)
        BY Zenon, <2>1
    <3>3. PICK p \in configure_policy(w.host, s) :
              \/ p.ok /\ q = p
              \/ ~p.ok /\ q.host = deactivate(p.host)
      <4>1. PICK p \in configure_policy(w.host, s) :
                q = IF p.ok \/ ~TRUE THEN p ELSE [p EXCEPT !.host = deactivate(@)]
          BY Zenon, <3>2 DEF FailClosed
      <4> QED
          BY Zenon, <3>1, <4>1 DEF Result
    <3> QED
        BY Zenon, <1>3, <1>6, <1>11, <3>1, <3>2, <3>3, PolicyOff, DeactivateOff,
           ResultType, FailClosedType
  <2>2. CASE s.net # None /\ w.host.active
    <3>1. configure_networks(w.host, s) \subseteq Result
        BY Zenon, <1>3, <1>11, NetworksType
    <3>2. q \in FailClosed(configure_networks(w.host, s), closes)
        BY Zenon, <1>4, <2>2
    <3>3. PICK p \in configure_networks(w.host, s) :
              \/ p.ok /\ q = p
              \/ ~p.ok /\ q.host = deactivate(p.host)
        BY <1>7, <2>2, <3>1, <3>2, FailClosedWhat
    <3> QED
        BY Zenon, <1>3, <1>6, <1>11, <3>1, <3>2, <3>3, NetworksOff, DeactivateOff,
           ResultType, FailClosedType
  <2>3. CASE s.net # None /\ ~w.host.active
    <3>1. q \in Ok(w.host)
        BY Zenon, <1>4, <2>3
    <3> QED
        BY Zenon, <1>11, <2>3, <3>1, OkWhat, OkType DEF Off
  <2> QED
      BY Zenon, <2>1, <2>2, <2>3
<1>13. PICK q \in networks(w.host) : r \in IF q.ok THEN rules(q.host) ELSE {q}
    BY Zenon, <1>10 DEF Then
<1> HIDE DEF networks
<1>14. q.host \in Host /\ Off(q.host, g)
    BY Zenon, <1>12, <1>13, ResultType
<1>15. r \in rules(q.host) \/ r = q
    BY Zenon, <1>13
<1> QED
    BY Zenon, <1>3, <1>10, <1>14, <1>15, RulesOff

\* apply_policy_manifest: the new policy is applied, the adapter is disabled, or
\* the previous state is restored and with it the selection.
LEMMA PolicyManifestOff ==
    ASSUME AInv, NEW same \in BOOLEAN, apply_policy_manifest(same),
           NEW g \in Gateway, Taken(g)
    PROVE  Off(host', g)
<1> DEFINE s == Cleared([live EXCEPT !.net.policy = task.policy])
           restore(h) ==
               Then(write_state(h, live),
                    LAMBDA f : FailClosed(configure_policy(f, live), TRUE))
           writes == Then(kill_switch_plan_from_state(host, s),
                          LAMBDA h : write_state(h, s))
           rules(h) == ConfigureRules(h, s, GatewayCleared(live, s), TRUE)
<1>0. task.at = "policy"
    BY Zenon DEF apply_policy_manifest
<1>1. live' # live
    BY Zenon DEF Taken
<1>2. ~same /\ Acceptable(task.policy)
    BY Zenon, <1>1 DEF apply_policy_manifest, Then
<1>3. PICK w \in writes :
          IF ~w.ok THEN Leave(s, w.host, FALSE)
          ELSE \E p \in configure_policy(w.host, s) :
                  \/ p.ok /\ \E r \in rules(p.host) : Leave(s, r.host, r.ok)
                  \/ Leave(s, deactivate(p.host), FALSE)
                  \/ \E r \in restore(p.host) : Leave(live, r.host, FALSE)
    BY Zenon, <1>2 DEF apply_policy_manifest, Then
<1>4. s \in State
  <2>1. [live EXCEPT !.net.policy = task.policy] \in State
      BY Zenon, <1>0, <1>2, TaskKinds, InvariantTypes DEF Acceptable, State, Network
  <2> QED
      BY Zenon, <2>1, ClearedBacked
<1> HIDE DEF s
<1>5. w.host \in Host
    BY Zenon, <1>3, <1>4, InvariantTypes, PlanThenWriteType, ResultType DEF Then
<1>6. w.ok
  <2>1. SUFFICES ASSUME ~w.ok PROVE FALSE
      BY Zenon
  <2>2. host' = w.host
      BY Zenon, <1>3, <2>1 DEF Leave
  <2>3. \/ w.host.faults["dns"] # host.faults["dns"]
        \/ w.host.faults["disk"] # host.faults["disk"]
      BY Zenon, <1>3, <1>4, <2>1, InvariantTypes, FailedWrite DEF Then
  <2> QED
      BY Zenon, <2>2, <2>3 DEF Taken
<1>7. PICK p \in configure_policy(w.host, s) :
          \/ p.ok /\ \E r \in rules(p.host) : Leave(s, r.host, r.ok)
          \/ Leave(s, deactivate(p.host), FALSE)
          \/ \E r \in restore(p.host) : Leave(live, r.host, FALSE)
    BY Zenon, <1>3, <1>6
<1> HIDE DEF restore, rules, writes
<1>8. p.host \in Host
    BY Zenon, <1>4, <1>5, PolicyType, ResultType
<1>9. CASE p.ok /\ \E r \in rules(p.host) : Leave(s, r.host, r.ok)
  <2>1. PICK r \in rules(p.host) : live' = s /\ host' = r.host
      BY Zenon, <1>9 DEF Leave
  <2>2. s.net = None \/ s.net.via # g
      BY Zenon, <2>1 DEF Taken
  <2>3. Off(p.host, g)
      BY Zenon, <1>4, <1>5, <1>9, <2>2, PolicyOff
  <2> QED
      BY Zenon, <1>4, <1>8, <2>1, <2>3, RulesOff DEF rules
<1>10. CASE Leave(s, deactivate(p.host), FALSE)
    BY Zenon, <1>8, <1>10, DeactivateOff DEF Leave
<1>11. CASE \E r \in restore(p.host) : Leave(live, r.host, FALSE)
    BY Zenon, <1>1, <1>11 DEF Leave
<1> QED
    BY Zenon, <1>7, <1>9, <1>10, <1>11

\* Only a refresh that is applied, or a restart, takes the supervisor out of these stages.
LEMMA WhoApplies ==
    ASSUME [Next]_vars, task.at \in {"apply", "policy"}, task' # task
    PROVE  \/ apply_authorization_action
           \/ \E same \in BOOLEAN : apply_policy_manifest(same)
           \/ Restart
<1>1. task.at # "idle" /\ task.at # "fetch" /\ task.at # "ask"
    BY SMT
<1>2. ~expire_stale_policies
    BY Zenon, <1>1 DEF expire_stale_policies, Then
<1>3. \A renew \in BOOLEAN : ~fetch_authorization_action(renew)
    BY Zenon, <1>1 DEF fetch_authorization_action
<1>4. ~refresh_policy /\ ~Unreachable
    BY Zenon, <1>1 DEF refresh_policy, Unreachable
<1>5. /\ \A via \in Gateway \cup {None}, kill \in BOOLEAN : ~configure_exit_selection(via, kill)
      /\ \A on \in BOOLEAN : ~configure_exit_gateway(on)
      /\ ~remove_network /\ ~deactivate_adapter
    BY Zenon DEF configure_exit_selection, configure_exit_gateway, remove_network,
                 deactivate_adapter, Call, Then
<1>6. ~enroll_network_begins /\ ~enroll_network_ends /\ ~activate_adapter
      /\ ~start_relay_worker
    BY Zenon DEF enroll_network_begins, enroll_network_ends, activate_adapter,
                 start_relay_worker, Then
<1>7. /\ \A d \in Device : ~remove_member(d)
      /\ \A exits \in SUBSET Device : ~update_policy(exits)
      /\ ~Lapse /\ ~UNCHANGED vars
    BY Zenon DEF remove_member, update_policy, Lapse, vars
<1> QED
    BY Zenon, <1>2, <1>3, <1>4, <1>5, <1>6, <1>7 DEF Next, Supervisor, Api, Environment

\* A restart disables the adapter.
LEMMA RestartOff ==
    ASSUME AInv, Restart, NEW g
    PROVE  Off(host', g)
<1>1. host' = [deactivate(host) EXCEPT !.disk = migrate_and_validate_agent_state(host.disk)]
    BY Zenon DEF Restart
<1>2. deactivate(host) \in Host /\ Off(deactivate(host), g)
    BY Zenon, InvariantTypes, DeactivateType, DeactivateOff
<1> QED
    BY Zenon, <1>1, <1>2 DEF Off, Host

\* When a refreshed authorization of a new epoch, or a refreshed policy, takes
\* an exit away and no write or name lookup fails, the host has no default
\* route through it, however often commands to the platform and their rollbacks
\* fail (apply_authorization_action, apply_policy_manifest).
THEOREM WithdrawalAlwaysFailsClosed == Spec => WithdrawalFailsClosed
<1> DEFINE Closed ==
        \A g \in Gateway :
          /\ task.at \in {"apply", "policy"} /\ task' # task
          /\ live.net # None /\ live.net.via = g
          /\ task.at = "apply" => Reloads(live, task)
          /\ live'.net = None \/ live'.net.via # g
          /\ host'.faults["disk"] = host.faults["disk"]
          /\ host'.faults["dns"] = host.faults["dns"]
          => ~(host'.active /\ host'.policy.via = g)
<1>1. AInv /\ [Next]_vars => [Closed]_vars
  <2>1. SUFFICES ASSUME AInv, [Next]_vars, NEW g \in Gateway,
                        task.at \in {"apply", "policy"}, task' # task,
                        task.at = "apply" => Reloads(live, task), Taken(g)
                 PROVE  Off(host', g)
      BY Zenon DEF Taken, Off
  <2>2. CASE apply_authorization_action
    <3>1. task.at = "apply"
        BY Zenon, <2>2 DEF apply_authorization_action, Then
    <3> QED
        BY Zenon, <2>1, <2>2, <3>1, AuthorizationOff
  <2>3. CASE \E same \in BOOLEAN : apply_policy_manifest(same)
      BY Zenon, <2>1, <2>3, PolicyManifestOff
  <2>4. CASE Restart
      BY Zenon, <2>1, <2>4, RestartOff
  <2> QED
      BY Zenon, <2>1, <2>2, <2>3, <2>4, WhoApplies
<1> QED
    BY <1>1, AgentInvariant, PTL DEF Spec, WithdrawalFailsClosed
=============================================================================
