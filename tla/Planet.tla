------------------------------- MODULE Planet --------------------------------
(***************************************************************************)
(* Planet manifests: a controller signs, at each request, where its roots, *)
(* relays, TURN and STUN servers are.  An agent keeps the manifest it      *)
(* accepted for each network, fetches it again about once a minute, and    *)
(* rebuilds its transport from what it holds.  A fetch holds no lock; what *)
(* it brings is applied to whatever the agent's state is by then.          *)
(***************************************************************************)
EXTENDS Integers, FiniteSets, Sequences

CONSTANTS
    Nets, Controllers,
    ControllerOf,   \* the controller whose key a network has pinned
    Versions,       \* per controller: the manifest version of each of its settings
    Lifetime,       \* of a manifest, or None (what the controller here signs)
    MaxClock, MaxFailures, MaxUser,
    None

VARIABLES
    clock,      \* seconds
    setting,    \* per controller: which of its settings it runs with
    live,       \* PersistedState: [net, planet, relays]
    disk,       \* the state file
    tasks,      \* requests that have fetched a manifest and not yet the lock
    pending,    \* transport_revision differs from the worker's
    worker,     \* the configuration the worker runs with
    failures, user

vars == <<clock, setting, live, disk, tasks, pending, worker, failures, user>>
agent == <<live, disk, tasks, pending, worker>>

\* services named in a manifest: the controller's own, or set by the user
Manual == [by |-> "user", at |-> 0]
Nothing == [by |-> "none", at |-> 0]

NoPlanet == [url |-> FALSE, version |-> 0, issued |-> -1, services |-> Nothing, expires |-> None]

\* The version says which kinds of services a manifest can name.
sign(c, version, services) ==
    [by |-> c, version |-> version, issued |-> clock, services |-> services,
     expires |-> IF Lifetime = None THEN None ELSE clock + Lifetime]

planet_manifest(c) ==
    sign(c, Versions[c][setting[c]], [by |-> c, at |-> setting[c]])

Expired(p) == p.expires # None /\ clock > p.expires

Joined(s) == {n \in Nets : s.net[n] # None}

-----------------------------------------------------------------------------
(* Accepting a manifest *)

\* No older version, no earlier time, and no other content at the same time.
validate_planet_acceptance_metadata(current, version, issued, services) ==
    current.version > 0 =>
        /\ version >= current.version
        /\ issued >= current.issued
        /\ version = current.version /\ issued = current.issued
              => services = current.services

verify_from_controller(manifest, key) ==
    /\ manifest.by = key
    /\ manifest.expires # None => clock <= manifest.expires

validate_planet_update(current, manifest, key) ==
    /\ verify_from_controller(manifest, key)
    /\ validate_planet_acceptance_metadata(current, manifest.version, manifest.issued,
                                           manifest.services)

apply_planet_update(current, manifest) ==
    [url |-> TRUE, version |-> manifest.version, issued |-> manifest.issued,
     services |-> manifest.services, expires |-> manifest.expires]

-----------------------------------------------------------------------------
(* The transport's configuration *)

\* Networks that never accepted a Planet use the relays of the agent.
Servers(s, n) ==
    LET p == s.net[n]
        own == IF Expired(p) THEN Nothing ELSE p.services
    IN  IF own = Nothing /\ p.version = 0 THEN s.relays ELSE own

transport_configuration_from_state(s) ==
    [n \in Joined(s) |-> [servers |-> Servers(s, n),
                          expires |-> IF Expired(s.net[n]) THEN None
                                      ELSE s.net[n].expires]]

has_expired_planet(configuration) ==
    \E n \in DOMAIN configuration :
        configuration[n].expires # None /\ clock > configuration[n].expires

\* The supervisor of the worker: at start, after a reload, when a manifest ends.
RunWorker ==
    /\ pending \/ has_expired_planet(worker)
    /\ worker' = transport_configuration_from_state(live)
    /\ pending' = FALSE
    /\ UNCHANGED <<clock, setting, live, disk, tasks, failures, user>>

-----------------------------------------------------------------------------
\* The change is live before it is written; on a failure it stays so, and no
\* reload is asked for.
write_state(changed) ==
    /\ live' = changed
    /\ \/ disk' = changed /\ pending' = TRUE /\ UNCHANGED failures
       \/ /\ failures < MaxFailures /\ failures' = failures + 1
          /\ UNCHANGED <<disk, pending>>

\* The candidate is written first; on a failure nothing has changed.
persist_state_candidate(candidate) ==
    \/ /\ live' = candidate /\ disk' = candidate /\ pending' = TRUE
       /\ UNCHANGED failures
    \/ /\ failures < MaxFailures /\ failures' = failures + 1
       /\ UNCHANGED <<live, disk, pending>>

\* A step of the user, or the end of the process, of which there are a few.
UserStep == user < MaxUser /\ clock < MaxClock /\ user' = user + 1

Done(t) == tasks' = tasks \ {t}

\* fetch_planet_manifest: the manifest as the controller signs it now
Fetch(t) ==
    /\ \A u \in tasks : u.kind # t.kind
    /\ tasks' = tasks \cup {t}

-----------------------------------------------------------------------------
(* The supervisor's refresh *)

FetchRefresh(n) ==
    /\ n \in Joined(live) /\ live.net[n].url
    /\ Fetch([kind |-> "refresh", net |-> n, manifest |-> planet_manifest(ControllerOf[n]),
              base |-> None])
    /\ UNCHANGED <<clock, setting, live, disk, pending, worker, failures, user>>

\* A bug: the worker is not told
RefreshQuietly(t) ==
    LET n == t.net
        updated == [live EXCEPT !.net[n] = apply_planet_update(@, t.manifest)]
    IN  /\ t.kind = "refresh" /\ Done(t)
        /\ IF /\ n \in Joined(live) /\ live.net[n].url
              /\ validate_planet_update(live.net[n], t.manifest, ControllerOf[n])
           THEN live' = updated /\ disk' = updated
           ELSE UNCHANGED <<live, disk>>
        /\ UNCHANGED <<clock, setting, pending, worker, failures, user>>

\* The network may have been left or enrolled anew in the meantime.
refresh_one_planet(t) ==
    LET n == t.net
        updated == [live EXCEPT !.net[n] = apply_planet_update(@, t.manifest)]
    IN  /\ t.kind = "refresh" /\ Done(t)
        /\ IF /\ n \in Joined(live) /\ live.net[n].url
              /\ validate_planet_update(live.net[n], t.manifest, ControllerOf[n])
              /\ updated # live
           THEN persist_state_candidate(updated)
           ELSE UNCHANGED <<live, disk, pending, failures>>
        /\ UNCHANGED <<clock, setting, worker, user>>

-----------------------------------------------------------------------------
(* The user sets a Planet: for all networks of its controller, and the      *)
(* relays of the agent.                                                     *)

FetchConfigure(c) ==
    /\ UserStep
    /\ Fetch([kind |-> "configure", net |-> None, manifest |-> planet_manifest(c), base |-> None])
    /\ UNCHANGED <<clock, setting, live, disk, pending, worker, failures>>

configure_planet(t) ==
    LET m == t.manifest
        own == {n \in Joined(live) : ControllerOf[n] = m.by}
        candidate == [net |-> [n \in Nets |-> IF n \in own
                                              THEN apply_planet_update(live.net[n], m)
                                              ELSE live.net[n]],
                      planet |-> m.by, relays |-> m.services]
    IN  /\ t.kind = "configure" /\ Done(t)
        /\ IF \A n \in own : validate_planet_update(live.net[n], m, m.by)
           THEN persist_state_candidate(candidate)
           ELSE UNCHANGED <<live, disk, pending, failures>>
        /\ UNCHANGED <<clock, setting, worker, user>>

\* Relays by hand (configure_relay); what the user set before is forgotten,
\* the record of the Planet is not.
configure_relay ==
    /\ UserStep
    /\ write_state([live EXCEPT !.relays = Manual])
    /\ UNCHANGED <<clock, setting, tasks, worker>>

-----------------------------------------------------------------------------
(* Enrolment, with or without a Planet: the network's record is copied, a   *)
(* manifest fetched, and the copy put in place under the lock.              *)

FetchEnrol(n, planet) ==
    LET current == IF n \in Joined(live) THEN live.net[n] ELSE NoPlanet
        m == planet_manifest(ControllerOf[n])
    IN  /\ UserStep
        /\ planet => validate_planet_update(current, m, ControllerOf[n])
        /\ Fetch([kind |-> "enrol", net |-> n, manifest |-> m,
                  base |-> IF planet THEN apply_planet_update(current, m) ELSE current])
        /\ UNCHANGED <<clock, setting, live, disk, pending, worker, failures>>

\* A bug: what was checked before the lock is not checked again
EnrolUnchecked(t) ==
    /\ t.kind = "enrol" /\ Done(t)
    /\ write_state([live EXCEPT !.net[t.net] = t.base])
    /\ UNCHANGED <<clock, setting, worker, user>>

enroll_network(t) ==
    LET n == t.net
        changed == [live EXCEPT !.net[n] = t.base]
    IN  /\ t.kind = "enrol" /\ Done(t)
        /\ IF n \in Joined(live) =>
                 /\ t.base.version = 0 => live.net[n].version = 0
                 /\ validate_planet_acceptance_metadata(live.net[n], t.base.version,
                                                        t.base.issued, t.base.services)
           THEN write_state(changed)
           ELSE UNCHANGED <<live, disk, pending, failures>>
        /\ UNCHANGED <<clock, setting, worker, user>>

remove_network(n) ==
    /\ UserStep
    /\ n \in Joined(live)
    /\ write_state([live EXCEPT !.net[n] = None])
    /\ UNCHANGED <<clock, setting, tasks, worker>>

-----------------------------------------------------------------------------
(* Start-up: what older versions kept for the agent as a whole moves to the *)
(* networks of the same controller.                                         *)

Inferred == 2

migrate_legacy_network_control_planes(s) ==
    [s EXCEPT !.net = [n \in Nets |->
        LET p == s.net[n]
            legacy == n \in Joined(s) /\ s.planet = ControllerOf[n]
            taken == [p EXCEPT !.url = TRUE,
                               !.services = IF @ = Nothing THEN s.relays ELSE @]
        IN  IF ~legacy THEN p
            ELSE IF taken.services = Nothing \/ p.version > 0 THEN taken
            ELSE [taken EXCEPT !.version = Inferred, !.issued = 0]]]

\* The agent ends at any moment and starts again.
Restart ==
    /\ UserStep
    /\ live' = migrate_legacy_network_control_planes(disk)
    /\ disk' = live'
    /\ tasks' = {} /\ pending' = FALSE
    /\ worker' = transport_configuration_from_state(live')
    /\ UNCHANGED <<clock, setting, failures>>

-----------------------------------------------------------------------------
Init ==
    /\ clock = 1 /\ setting = [c \in Controllers |-> 1]
    /\ live = [net |-> [n \in Nets |-> None], planet |-> None, relays |-> Nothing]
    /\ disk = live /\ tasks = {} /\ pending = TRUE
    /\ worker = [n \in {} |-> None] /\ failures = 0 /\ user = 0

Tick ==
    /\ clock < MaxClock /\ clock' = clock + 1
    /\ UNCHANGED <<setting, agent, failures, user>>

\* The controller is started with its next setting.
Publish(c) ==
    /\ setting[c] < Len(Versions[c]) /\ clock < MaxClock
    /\ setting' = [setting EXCEPT ![c] = @ + 1]
    /\ UNCHANGED <<clock, agent, failures, user>>

Apply(t) == refresh_one_planet(t) \/ configure_planet(t) \/ enroll_network(t)

Next ==
    \/ Tick
    \/ \E c \in Controllers : Publish(c) \/ FetchConfigure(c)
    \/ \E n \in Nets : FetchRefresh(n) \/ remove_network(n)
    \/ \E n \in Nets, planet \in BOOLEAN : FetchEnrol(n, planet)
    \/ \E t \in tasks : refresh_one_planet(t)
    \/ \E t \in tasks : configure_planet(t)
    \/ \E t \in tasks : enroll_network(t)
    \/ configure_relay \/ RunWorker \/ Restart

Spec == Init /\ [][Next]_vars

\* A fetch that is answered is applied; each network is fetched again and
\* again; the worker's supervisor is a loop; time passes.
FairSpec ==
    /\ Spec
    /\ WF_vars(Tick) /\ WF_vars(RunWorker)
    /\ WF_vars(\E t \in tasks : Apply(t))
    /\ \A n \in Nets : SF_vars(FetchRefresh(n))

-----------------------------------------------------------------------------
(* Properties *)

\* What the state file holds for a network never goes back to an older version
\* or an earlier manifest while the network is joined, whichever of refresh,
\* configuration, enrolment and restart wrote last and however late it was.
PlanetMonotone ==
    [][\A n \in Joined(live) \cap Joined(disk) \cap Joined(disk') :
          /\ disk'.net[n].version >= disk.net[n].version
          /\ disk'.net[n].issued >= disk.net[n].issued]_vars

\* After the controllers and the user have settled, each network that refreshes
\* its Planet comes to hold the services of its controller, and so does the
\* worker, unless they expired.
PlanetConverges ==
    <>[](\A n \in Joined(live) : live.net[n].url =>
            /\ live.net[n].services = [by |-> ControllerOf[n], at |-> setting[ControllerOf[n]]]
            /\ n \in DOMAIN worker
            /\ worker[n].servers = Servers(live, n))
=============================================================================
