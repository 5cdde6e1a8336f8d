------------------------------- MODULE MCNode -------------------------------
(***************************************************************************)
(* What a machine keeps and shows, each on an instance of its own: the     *)
(* state file, the Planet manifests, the host's rules, the desktop window  *)
(* and the services it supervises.  A behaviour is one of one part; the    *)
(* others rest in an initial state.  Each part's fairness is stated with   *)
(* the property that needs it.                                             *)
(***************************************************************************)
EXTENDS StateFile, FiniteSets

CONSTANT None

VARIABLES part,
    clock, setting, live, disk, tasks, pending, worker, failures, user,
    platform, want, host, crashes,
    app, job, question, closing, exited, sent, left,
    proc, thread, events, control, shown, open, stops

\* Each network has a controller of its own; one of them publishes again.
Controllers == {"A", "B"}
Nets == {"n1", "n2"}
PlanetPart == INSTANCE Planet WITH
    ControllerOf <- [n1 |-> "A", n2 |-> "B"], Versions <- [A |-> <<2, 3>>, B |-> <<2>>],
    Lifetime <- None, MaxClock <- 2, MaxFailures <- 1, MaxUser <- 3

\* One network may use an exit, with or without the kill switch; the other a
\* private route, or this device as its gateway.
HostPart == INSTANCE Host WITH
    Profiles <- [n1 |-> {{"in"}, {"in", "exit"}, {"in", "exit", "kill"}},
                 n2 |-> {{"in"}, {"in", "split"}, {"in", "gateway"}}],
    Platforms <- {[os |-> "linux", keeps |-> FALSE], [os |-> "windows", keeps |-> TRUE]},
    Relays <- {"r1"}, MaxFailures <- 1, MaxCrashes <- 0

DesktopPart == INSTANCE Desktop WITH
    pending <- question, Local <- "A", MaxActions <- 4, MaxDeaths <- 1
ASSUME DesktopAssumption == None \notin Nets

SupervisorPart == INSTANCE Supervisor WITH Runs <- {"a", "b"}, Capacity <- 1, MaxStops <- 2

fileVars == vars
planetVars == <<clock, setting, live, disk, tasks, pending, worker, failures,
    user>>
hostVars == <<platform, want, host, crashes>>
desktopVars == <<app, job, question, closing, exited, sent, left>>
supervisorVars == <<proc, thread, events, control, shown, open, stops>>

FileRests == Init /\ ~windows
PlanetRests == PlanetPart!Init
HostRests == HostPart!Init /\ platform.os = "linux"
DesktopRests == DesktopPart!Init /\ app.admin = None
SupervisorRests == SupervisorPart!Init

NodeInit ==
    \/ part = "file" /\ Init
       /\ PlanetRests /\ HostRests /\ DesktopRests /\ SupervisorRests
    \/ part = "planet" /\ PlanetPart!Init
       /\ FileRests /\ HostRests /\ DesktopRests /\ SupervisorRests
    \/ part = "host" /\ HostPart!Init
       /\ FileRests /\ PlanetRests /\ DesktopRests /\ SupervisorRests
    \/ part = "desktop" /\ DesktopPart!Init
       /\ FileRests /\ PlanetRests /\ HostRests /\ SupervisorRests
    \/ part = "supervisor" /\ SupervisorPart!Init
       /\ FileRests /\ PlanetRests /\ HostRests /\ DesktopRests

NodeNext ==
    /\ UNCHANGED part
    /\ \/ /\ part = "file" /\ Next
          /\ UNCHANGED <<planetVars, hostVars, desktopVars, supervisorVars>>
       \/ /\ part = "planet" /\ PlanetPart!Next
          /\ UNCHANGED <<fileVars, hostVars, desktopVars, supervisorVars>>
       \/ /\ part = "host" /\ HostPart!Next
          /\ UNCHANGED <<fileVars, planetVars, desktopVars, supervisorVars>>
       \/ /\ part = "desktop" /\ DesktopPart!Next
          /\ UNCHANGED <<fileVars, planetVars, hostVars, supervisorVars>>
       \/ /\ part = "supervisor" /\ SupervisorPart!Next
          /\ UNCHANGED <<fileVars, planetVars, hostVars, desktopVars>>

nodeVars == <<part, fileVars, planetVars, hostVars, desktopVars, supervisorVars>>

NodeSpec == NodeInit /\ [][NodeNext]_nodeVars

-----------------------------------------------------------------------------
(* The fairness of each part's specification, for that part alone.         *)

In(p, A) == part = p /\ A

FileFairness == WF_fileVars(In("file", Work))
PlanetFairness ==
    LET Do(A) == In("planet", A) IN
    /\ WF_planetVars(Do(PlanetPart!Tick)) /\ WF_planetVars(Do(PlanetPart!RunWorker))
    /\ WF_planetVars(Do(\E t \in tasks : PlanetPart!Apply(t)))
    /\ \A n \in Nets : SF_planetVars(Do(PlanetPart!FetchRefresh(n)))
HostFairness == WF_hostVars(In("host", HostPart!Refresh))
DesktopFairness ==
    LET Do(A) == In("desktop", A) IN
    /\ WF_desktopVars(Do(DesktopPart!InsideStep \/ DesktopPart!Request \/ DesktopPart!Spawn))
    /\ WF_desktopVars(Do(DesktopPart!execute_process)) /\ WF_desktopVars(Do(DesktopPart!poll_job))
SupervisorFairness ==
    LET Do(A) == In("supervisor", A) IN
    /\ \A r \in {"a", "b"} : /\ WF_supervisorVars(Do(SupervisorPart!Prepare(r)))
                             /\ WF_supervisorVars(Do(SupervisorPart!Report(r)))
                             /\ WF_supervisorVars(Do(SupervisorPart!supervise(r)))
    /\ WF_supervisorVars(Do(SupervisorPart!poll_services))

-----------------------------------------------------------------------------
\* A service that was stopped anywhere starts again from what is on the disk.
ServiceStartsAgain == part = "file" /\ FileFairness => StartsAgain

\* What the state file holds for a network never goes back to an older Planet,
\* whichever of refresh, configuration, enrolment and restart wrote last and
\* however late its manifest was (refresh_one_planet, enroll_network).
PlanetMonotone == PlanetPart!PlanetMonotone

\* A joined network comes to run, in the state file and in the worker, with
\* what its controller publishes (refresh_planets_once, run_relay_worker).
PlanetConverges == part = "planet" /\ PlanetFairness => PlanetPart!PlanetConverges

\* The rules that the joined networks ask for are in force again in the end,
\* after any failed command or change of one network (refresh_policy).
PolicyRestored == part = "host" /\ HostFairness => HostPart!PolicyRestored

\* An administrator's token, what a page shows and the answer to a question are
\* used for the controller and the network that they belong to, and no other
\* (controller_request, switch_controller_context, confirm_action).
ContextsApart == DesktopPart!ContextsApart

\* A policy draft that is older than an exit change made here cannot be saved
\* (invalidate_after_exit_update).
DraftCurrent == DesktopPart!DraftCurrent

\* Every operation that the window starts ends, also when its worker dies or
\* the user cancels it (poll_job, execute_process).
WindowSettles == part = "desktop" /\ DesktopFairness => DesktopPart!WindowSettles

\* A run is shown as ended only once its process is gone, and then in the end,
\* however full the channel was (supervise, poll_services).
EndsAreShown == part = "supervisor" /\ SupervisorFairness => SupervisorPart!EndsAreShown
=============================================================================
