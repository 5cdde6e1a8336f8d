----------------------------- MODULE Supervisor -----------------------------
(***************************************************************************)
(* Service processes started from the desktop window (services.rs).  A      *)
(* thread per process watches it and reports over a channel of bounded      *)
(* size, which the window empties when it draws a frame.  Progress reports  *)
(* are dropped when the channel is full; the others wait for room.          *)
(***************************************************************************)
EXTENDS Naturals, Sequences

CONSTANTS Runs,      \* identities of launches
          Capacity,  \* messages the channel holds (sync_channel(8))
          MaxStops   \* stop requests of the user

VARIABLES proc,     \* the process of each run
          thread,   \* what its supervising thread is about to do
          events,   \* the channel from the thread to the window
          control,  \* stop requests the thread has not seen
          shown,    \* what the window shows of the run
          open,     \* the window is open
          stops

vars == <<proc, thread, events, control, shown, open, stops>>

Init ==
  /\ proc = [r \in Runs |-> "none"]
  /\ thread = [r \in Runs |-> "none"]
  /\ events = [r \in Runs |-> <<>>]
  /\ control = [r \in Runs |-> FALSE]
  /\ shown = [r \in Runs |-> "none"]
  /\ open = TRUE
  /\ stops = 0

launch_service(r) ==
  /\ open /\ shown[r] = "none"
  /\ shown' = [shown EXCEPT ![r] = "running"]
  /\ thread' = [thread EXCEPT ![r] = "prepare"]
  /\ UNCHANGED <<proc, events, control, open, stops>>

\* Only a run that is shown as running can be stopped, and only through its own
\* channel.
stop_owned_service(r) ==
  /\ open /\ shown[r] = "running" /\ stops < MaxStops
  /\ control' = [control EXCEPT ![r] = TRUE]
  /\ stops' = stops + 1
  /\ UNCHANGED <<proc, thread, events, shown, open>>

\* A report that must arrive, after which the thread continues as "then".
send(r, event, then) ==
  /\ Len(events[r]) < Capacity
  /\ events' = [events EXCEPT ![r] = Append(@, event)]
  /\ thread' = [thread EXCEPT ![r] = then]

\* A report that is dropped when there is no room.
try_send(r, event) ==
  events' = IF Len(events[r]) < Capacity THEN [events EXCEPT ![r] = Append(@, event)] ELSE events

Prepare(r) ==
  /\ thread[r] = "prepare"
  /\ \/ proc' = [proc EXCEPT ![r] = "alive"] /\ thread' = [thread EXCEPT ![r] = "started"]
     \/ thread' = [thread EXCEPT ![r] = "error"] /\ UNCHANGED proc
  /\ UNCHANGED <<events, control, shown, open, stops>>

\* A plausible slip: the end of a process is reported like its progress.
ReportIfRoom(r) ==
  /\ thread[r] \in {"started", "error", "exited", "stopped"}
  /\ try_send(r, thread[r])
  /\ thread' = [thread EXCEPT ![r] = IF thread[r] = "started" THEN "watch" ELSE "done"]
  /\ UNCHANGED <<proc, control, shown, open, stops>>

Report(r) ==
  /\ thread[r] \in {"started", "error", "exited", "stopped"}
  /\ send(r, thread[r], IF thread[r] = "started" THEN "watch" ELSE "done")
  /\ UNCHANGED <<proc, control, shown, open, stops>>

\* One round of the watching loop: a stop request, the end of the process, or
\* the latest output.  A process that cannot be killed is watched further.
supervise(r) ==
  /\ open /\ thread[r] = "watch"
  /\ \/ /\ control[r]
        /\ control' = [control EXCEPT ![r] = FALSE]
        /\ \/ /\ proc' = [proc EXCEPT ![r] = "gone"]
              /\ thread' = [thread EXCEPT ![r] = "stopped"]
              /\ try_send(r, "output")
           \/ /\ proc[r] = "alive"
              /\ try_send(r, "warning")
              /\ UNCHANGED <<proc, thread>>
     \/ /\ ~control[r] /\ proc[r] = "gone"
        /\ send(r, "output", "exited")
        /\ UNCHANGED <<proc, control>>
     \/ /\ ~control[r] /\ proc[r] = "alive"
        /\ try_send(r, "output")
        /\ UNCHANGED <<proc, thread, control>>
  /\ UNCHANGED <<shown, open, stops>>

ServiceEnds(r) ==
  /\ proc[r] = "alive"
  /\ proc' = [proc EXCEPT ![r] = "gone"]
  /\ UNCHANGED <<thread, events, control, shown, open, stops>>

\* Every frame takes all reports there are.
poll_services ==
  /\ open /\ \E r \in Runs : events[r] # <<>>
  /\ shown' = [r \in Runs |->
                 IF \E i \in 1 .. Len(events[r]) : events[r][i] \in {"error", "exited", "stopped"}
                 THEN "ended" ELSE shown[r]]
  /\ events' = [r \in Runs |-> <<>>]
  /\ UNCHANGED <<proc, thread, control, open, stops>>

\* The channels close with the window: its threads end, the processes stay.
exit_gui ==
  /\ open
  /\ open' = FALSE
  /\ thread' = [r \in Runs |-> IF thread[r] = "none" THEN "none" ELSE "done"]
  /\ UNCHANGED <<proc, events, control, shown, stops>>

Next ==
  \/ \E r \in Runs :
       launch_service(r) \/ stop_owned_service(r) \/ Prepare(r) \/ Report(r) \/ supervise(r) \/ ServiceEnds(r)
  \/ poll_services
  \/ exit_gui

Spec == Init /\ [][Next]_vars

\* The threads loop, and the window draws a frame every 500 ms while a run is
\* shown as running.
FairSpec ==
  /\ Spec
  /\ \A r \in Runs : WF_vars(Prepare(r)) /\ WF_vars(Report(r)) /\ WF_vars(supervise(r))
  /\ WF_vars(poll_services)

\* A run is shown as ended only when its process is gone, and while the window
\* is open a process that is gone is shown as ended in the end, however full the
\* channel was when it ended (supervise, poll_services).
EndsAreShown ==
  /\ [](\A r \in Runs : shown[r] = "ended" => proc[r] # "alive")
  /\ \A r \in Runs : (proc[r] = "gone") ~> (shown[r] = "ended" \/ ~open)
=============================================================================
