------------------------------ MODULE Desktop ------------------------------
(***************************************************************************)
(* The desktop window (meshlake-gui).  The window draws pages, asks for     *)
(* confirmation and hands every slow operation to one worker thread, which  *)
(* works on a copy of the fields and gives the copy back.  A worker's       *)
(* operation is a sequence of requests to the controller, the local agent,  *)
(* a file or a child process; each of them may fail, and the answer to a    *)
(* request that was carried out may be lost.                                *)
(*                                                                          *)
(* What a page shows is abstracted to where it came from: the controller,   *)
(* and for members and invitations the network.  An administrator's token   *)
(* is the controller it was entered for.                                    *)
(***************************************************************************)
EXTENDS Naturals, Sequences

CONSTANTS Controllers,  \* addresses of controllers
          Local,        \* the controller on this host, the default address
          Nets,         \* networks
          MaxActions,   \* operations the user starts
          MaxDeaths,    \* workers that end without a result
          None

VARIABLES app,      \* the fields of the window that a worker copies
          job,      \* the worker, or None
          pending,  \* pending_action: the operation awaiting confirmation, or None
          closing,  \* show_close_confirmation
          exited,
          sent,     \* the last administrator token sent, and where to, or None
          left      \* what remains of the two bounds

vars == <<app, job, pending, closing, exited, sent, left>>

From(c, n) == [from |-> c, net |-> n]

Fresh == [target |-> None, loaded |-> FALSE, stale |-> FALSE, at |-> 0]

Blank == [part \in {"networks", "members", "issued", "document", "key"} |-> None]

Initially == [controller |-> Local, admin |-> None, bound |-> None, home |-> None,
              shown |-> Blank, selected |-> None, editor |-> Fresh,
              told |-> [c \in Controllers |-> [n \in Nets |-> 0]]]

(***************************************************************************)
(* Requests, and the sequence of them that each operation makes.  A failed  *)
(* request ends the operation unless "must" is false.                       *)
(***************************************************************************)
Step(to, op, n, admin, must) == [to |-> to, op |-> op, net |-> n, admin |-> admin, must |-> must]
Admin(op, n) == Step("controller", op, n, TRUE, TRUE)
Public(op, n) == Step("controller", op, n, FALSE, TRUE)
Agent(op) == Step("agent", op, None, FALSE, TRUE)
Inside(op) == Step("window", op, None, FALSE, TRUE)
File(op) == Step("file", op, None, FALSE, TRUE)
Process(op) == Step("process", op, None, FALSE, TRUE)

refresh_status == Agent("status")
refresh_sessions == Agent("sessions")
refresh == <<refresh_status, refresh_sessions>>
adapter == <<Agent("adapter"), [refresh_status EXCEPT !.must = FALSE], refresh_sessions>>
leave_network == <<Agent("leave"), refresh_status>>
apply_exit_selection == <<Agent("select_exit")>>
apply_exit_gateway == <<Agent("gateway")>>
remove_exit_gateway == <<Agent("no_gateway")>>
clear_exit_selection == <<Agent("no_exit")>>
stop_agent == <<Agent("shutdown")>>
configure_relay == <<Agent("relay")>>
configure_planet == <<Agent("planet")>>
create_local_network == <<Agent("create"), refresh_status>>

\* The agent is asked who it is before the one-time token is spent.
join_network == <<Agent("identity"), Public("enroll", None), Agent("enroll"), refresh_status>>
join_invite_link(c) == <<[Inside("switch") EXCEPT !.net = c]>> \o join_network

refresh_controller_public_key == Public("key", None)
refresh_managed_networks == Public("networks", None)
read_controller_document == <<Inside("clear_document"), Public("document", None)>>
create_managed_network == <<Admin("create", None), refresh_managed_networks>>
delete_managed_network(n) == <<Admin("delete", n), refresh_managed_networks>>
issue_enrollment_token(n) == <<Inside("clear_issued"), Inside("clear_key"),
                               refresh_controller_public_key, Admin("issue", n)>>
issue_standalone_token(n) == <<Inside("clear_issued"), Admin("issue", n)>>
load_members(n) == <<Inside("clear_members"), Admin("members", n)>>
remove_member(n) == <<Admin("remove", n)>> \o load_members(n)
save_member_routes(n) == <<Admin("routes", n)>>

load_policy(n) == <<Public("policy", n)>>
save_policy(n) == <<Inside("not_stale"), Admin("save", n)>>
update_controller_exit(n) == <<Public("read_policy", n), Admin("exit", n)>>
import_policy_file == <<Inside("not_stale"), File("draft")>>
export_policy_file == <<File("export")>>
start_json_export == <<File("export")>>
start_credential_import == {<<File("admin_token")>>, <<File("invite")>>, <<File("enrollment")>>}

run_cli_command == <<Process("cli")>>
run_native_task == <<Process("native")>>

\* A restore asks first whether the agent still listens.
execute_backup(restore) ==
  IF restore THEN <<Agent("stopped"), Process("restore")>> ELSE <<Process("backup")>>

(***************************************************************************)
(* The fields.                                                              *)
(***************************************************************************)
\* A plausible slip: a token that was not used yet survives a change of address.
SwitchAndKeepToken(a, c) ==
  IF a.controller = c THEN a
  ELSE [a EXCEPT !.controller = c, !.home = None, !.shown = Blank, !.selected = None, !.editor = Fresh]

switch_controller_context(a, c) ==
  IF a.controller = c THEN a
  ELSE [a EXCEPT !.controller = c, !.admin = None, !.bound = None, !.home = None,
                 !.shown = Blank, !.selected = None, !.editor = Fresh]

\* A changed token is bound to the controller it is first used with.
controller_request(a, admin) ==
  LET b == IF a.admin = None THEN [a EXCEPT !.bound = None, !.home = None]
           ELSE IF a.admin # a.bound THEN [a EXCEPT !.bound = a.admin, !.home = a.controller]
           ELSE a
  IN  IF ~admin THEN [ok |-> TRUE, app |-> a]
      ELSE [ok |-> b.admin # None /\ b.home = b.controller, app |-> b]

from_manifest(a, n) ==
  [target |-> From(a.controller, n), loaded |-> TRUE, stale |-> FALSE, at |-> a.told[a.controller][n]]

\* A draft taken from a file is the user's, made knowing what the window has told.
import(a) ==
  [a.editor EXCEPT !.loaded = TRUE, !.at = a.told[a.editor.target.from][a.editor.target.net]]

\* A plausible slip: an exit change leaves an open draft as it is.
leave_draft(editor) == editor

invalidate_after_exit_update(editor) == [editor EXCEPT !.stale = TRUE]

request(editor) == editor.loaded /\ ~editor.stale

\* Drawing the policy panel gives the editor to the network that is selected.
controller_policy_panel(a) ==
  IF a.selected = None \/ a.editor.target = From(a.controller, a.selected) THEN a
  ELSE [a EXCEPT !.editor = [Fresh EXCEPT !.target = From(a.controller, a.selected)]]

\* What a successful request leaves in the worker's copy.
Answered(a, r) ==
  LET c == a.controller
      Show(part, n) == [a EXCEPT !.shown[part] = From(c, n)]
  IN  CASE r.op = "networks" -> Show("networks", None)
        [] r.op = "key" -> Show("key", None)
        [] r.op = "document" -> Show("document", None)
        [] r.op = "issue" -> Show("issued", r.net)
        [] r.op = "members" -> [Show("members", r.net) EXCEPT !.selected = r.net]
        [] r.op = "delete" -> [a EXCEPT !.shown["members"] = None]
        [] r.op \in {"policy", "save"} -> [a EXCEPT !.editor = from_manifest(a, r.net)]
        [] r.op = "exit" -> [a EXCEPT !.told[c][r.net] = @ + 1,
                                      !.editor = invalidate_after_exit_update(@)]
        [] r.op = "admin_token" -> [a EXCEPT !.admin = c, !.bound = None]
        [] r.op = "draft" -> [a EXCEPT !.editor = import(a)]
        [] OTHER -> a

(***************************************************************************)
(* The window and its worker.                                               *)
(***************************************************************************)
can_start_action == job = None /\ pending = None /\ ~closing /\ ~exited

capture(a) == a
apply(worker) == worker

\* A worker with its copy of the fields; "ask" is the operation that was confirmed.
start_job(a, todo, ask) ==
  job' = [app |-> capture(a), todo |-> todo, ask |-> ask, child |-> FALSE, cancel |-> FALSE, dead |-> FALSE]

Page == controller_policy_panel(app)

Spend == left.actions > 0 /\ left' = [left EXCEPT !.actions = @ - 1]

Unasked ==
  {refresh, adapter, apply_exit_selection, apply_exit_gateway, configure_relay, configure_planet,
   create_local_network, join_network, read_controller_document, create_managed_network,
   <<refresh_managed_networks>>, run_cli_command, run_native_task, export_policy_file,
   start_json_export}
  \cup start_credential_import

UnaskedFor(n) ==
  {issue_enrollment_token(n), issue_standalone_token(n), load_members(n), save_member_routes(n),
   load_policy(n), update_controller_exit(n)}

\* An operation that a button starts at once.
Press(todo) ==
  /\ can_start_action /\ Spend
  /\ app' = Page
  /\ start_job(Page, todo, None)
  /\ UNCHANGED <<pending, closing, exited, sent>>

PressDraft ==
  \/ request(Page.editor) /\ Press(save_policy(Page.selected))
  \/ Page.selected # None /\ Press(import_policy_file)

\* Selecting a network drops what is shown of the one before and loads members.
SelectNetwork(n) ==
  /\ can_start_action /\ Spend
  /\ app.shown["networks"] # None
  /\ LET a == [Page EXCEPT !.selected = n, !.shown["members"] = None, !.shown["issued"] = None]
     IN  /\ start_job(a, load_members(n), None)
         /\ app' = controller_policy_panel(a)
  /\ UNCHANGED <<pending, closing, exited, sent>>

controller_address_ui(c) ==
  /\ can_start_action
  /\ c # app.controller
  /\ app' = switch_controller_context(Page, c)
  /\ UNCHANGED <<job, pending, closing, exited, sent, left>>

EnterToken ==
  /\ can_start_action
  /\ app' = [Page EXCEPT !.admin = app.controller]
  /\ UNCHANGED <<job, pending, closing, exited, sent, left>>

PendingActions ==
  {[op |-> op, net |-> None] : op \in {"stop_agent", "stop_adapter", "leave", "clear_exit",
     "disable_gateway", "backup", "restore", "native", "start_service", "stop_service"}}
  \cup {[op |-> op, net |-> n] : op \in {"delete", "remove", "revoke"}, n \in Nets}

\* "at" records the controller whose page the question was asked on.
confirm_action(p) ==
  /\ can_start_action /\ Spend
  /\ p.net # None => app.selected = p.net \/ (p.op = "delete" /\ app.shown["networks"] # None)
  /\ pending' = [op |-> p.op, net |-> p.net, at |-> app.controller]
  /\ app' = Page
  /\ UNCHANGED <<job, closing, exited, sent>>

Confirmed(p) ==
  CASE p.op = "stop_agent" -> stop_agent
    [] p.op = "stop_adapter" -> adapter
    [] p.op = "leave" -> leave_network
    [] p.op = "clear_exit" -> clear_exit_selection
    [] p.op = "disable_gateway" -> remove_exit_gateway
    [] p.op \in {"backup", "restore"} -> execute_backup(p.op = "restore")
    [] p.op = "native" -> run_native_task
    [] p.op = "delete" -> delete_managed_network(p.net)
    [] p.op = "remove" -> remove_member(p.net)
    [] p.op = "revoke" -> update_controller_exit(p.net)

\* The dialog closes before the operation starts.  Service processes are started
\* and stopped with no worker (module Supervisor).
confirmation_ui(execute) ==
  /\ pending # None /\ ~closing /\ ~exited
  /\ pending' = None
  /\ IF execute /\ pending.op \notin {"start_service", "stop_service"}
     THEN /\ app' = IF pending.op = "revoke" THEN [app EXCEPT !.selected = pending.net] ELSE app
          /\ job = None
          /\ start_job(app', Confirmed(pending), pending)
     ELSE UNCHANGED <<app, job>>
  /\ UNCHANGED <<closing, exited, sent, left>>

\* Hiding changes nothing here; a busy window asks before it exits.
request_close ==
  /\ ~exited /\ ~closing /\ Spend
  /\ \/ closing' = TRUE /\ UNCHANGED exited
     \/ job = None /\ pending = None /\ exited' = TRUE /\ UNCHANGED closing
  /\ UNCHANGED <<app, job, pending, sent>>

close_confirmation_ui ==
  /\ closing /\ ~exited
  /\ closing' = FALSE
  /\ exited' \in BOOLEAN
  /\ UNCHANGED <<app, job, pending, sent, left>>

PressCancel ==
  /\ ~exited /\ job # None /\ job.child /\ ~job.cancel
  /\ job' = [job EXCEPT !.cancel = TRUE]
  /\ UNCHANGED <<app, pending, closing, exited, sent, left>>

(***************************************************************************)
(* The worker's steps.                                                      *)
(***************************************************************************)
Working == job # None /\ ~exited /\ ~job.dead /\ job.todo # <<>>

Next1(a, ok) ==
  job' = [job EXCEPT !.app = a, !.child = FALSE,
                     !.todo = IF ok \/ ~Head(@).must THEN Tail(@) ELSE <<>>]

InsideStep ==
  /\ Working
  /\ LET r == Head(job.todo)
         a == job.app
     IN  /\ r.to = "window"
         /\ \/ /\ r.op = "switch"
               /\ Next1([switch_controller_context(a, r.net) EXCEPT !.shown["key"] = From(r.net, None)], TRUE)
            \/ r.op = "clear_document" /\ Next1([a EXCEPT !.shown["document"] = None], TRUE)
            \/ r.op = "clear_issued" /\ Next1([a EXCEPT !.shown["issued"] = None], TRUE)
            \/ r.op = "clear_key" /\ Next1([a EXCEPT !.shown["key"] = None], TRUE)
            \/ r.op = "clear_members" /\ Next1([a EXCEPT !.shown["members"] = None], TRUE)
            \/ r.op = "not_stale" /\ Next1(a, ~a.editor.stale)
  /\ UNCHANGED <<app, pending, closing, exited, sent, left>>

\* A request that succeeds, fails, or is carried out without an answer.
Request ==
  /\ Working
  /\ LET r == Head(job.todo)
         q == controller_request(job.app, r.admin)
     IN  /\ r.to \in {"controller", "agent", "file"}
         /\ \/ q.ok /\ Next1(Answered(q.app, r), TRUE)
            \/ Next1(q.app, FALSE)
         /\ sent' = IF r.admin /\ q.ok THEN [token |-> q.app.admin, to |-> q.app.controller] ELSE sent
  /\ UNCHANGED <<app, pending, closing, exited, left>>

\* The child is started and fed, or cannot be.
Spawn ==
  /\ Working /\ Head(job.todo).to = "process" /\ ~job.child
  /\ \/ job' = [job EXCEPT !.child = TRUE]
     \/ Next1(job.app, FALSE)
  /\ UNCHANGED <<app, pending, closing, exited, sent, left>>

ChildExits ==
  /\ Working /\ job.child
  /\ Next1(job.app, TRUE)
  /\ UNCHANGED <<app, pending, closing, exited, sent, left>>

\* A plausible slip: only the user ends a child that hangs.
UntilCancelled ==
  /\ Working /\ job.child /\ job.cancel
  /\ Next1(job.app, FALSE)
  /\ UNCHANGED <<app, pending, closing, exited, sent, left>>

\* Cancelled by the user, or 120 s have passed: the child is killed.
execute_process ==
  /\ Working /\ job.child
  /\ Next1(job.app, FALSE)
  /\ UNCHANGED <<app, pending, closing, exited, sent, left>>

WorkerDies ==
  /\ Working /\ left.deaths > 0
  /\ left' = [left EXCEPT !.deaths = @ - 1]
  /\ job' = [job EXCEPT !.dead = TRUE]
  /\ UNCHANGED <<app, pending, closing, exited, sent>>

\* The copy replaces the fields; a dead worker gives none back.
poll_job ==
  /\ job # None /\ ~exited
  /\ job.dead \/ job.todo = <<>>
  /\ app' = IF job.dead THEN app ELSE apply(job.app)
  /\ job' = None
  /\ UNCHANGED <<pending, closing, exited, sent, left>>

(***************************************************************************)
(* A local controller's token is loaded at the start and bound to it.       *)
(***************************************************************************)
Init ==
  /\ \E t \in {None, Local} :
       app = [Initially EXCEPT !.admin = t, !.bound = t, !.home = t]
  /\ job = [app |-> app, todo |-> refresh, ask |-> None, child |-> FALSE, cancel |-> FALSE, dead |-> FALSE]
  /\ pending = None /\ closing = FALSE /\ exited = FALSE
  /\ sent = None
  /\ left = [actions |-> MaxActions, deaths |-> MaxDeaths]

Next ==
  \/ \E todo \in Unasked : Press(todo)
  \/ Page.selected # None /\ \E todo \in UnaskedFor(Page.selected) : Press(todo)
  \/ PressDraft
  \/ \E c \in Controllers : Press(join_invite_link(c)) \/ controller_address_ui(c)
  \/ \E n \in Nets : SelectNetwork(n)
  \/ EnterToken
  \/ \E p \in PendingActions : confirm_action(p)
  \/ \E execute \in BOOLEAN : confirmation_ui(execute)
  \/ request_close \/ close_confirmation_ui \/ PressCancel
  \/ InsideStep \/ Request \/ Spawn \/ ChildExits \/ execute_process \/ WorkerDies \/ poll_job

Spec == Init /\ [][Next]_vars

\* Threads run, the window repaints while there is something to wait for, and
\* the 120 s of a child process pass.  Nothing is assumed of users or children.
FairSpec ==
  /\ Spec
  /\ WF_vars(InsideStep \/ Request \/ Spawn)
  /\ WF_vars(execute_process)
  /\ WF_vars(poll_job)

(***************************************************************************)
(* Properties.                                                              *)
(***************************************************************************)

\* An administrator's token goes to no controller but the one it was entered
\* for, whatever addresses, invitations and workers come in between
\* (controller_request, switch_controller_context).
TokenGoesHome == sent # None => sent.token = sent.to

\* What a page shows was read from the controller in the address field, and
\* members and invitations are those of the selected network, also after a
\* worker's copy has replaced the fields.
ShownBelongs ==
  \A part \in DOMAIN app.shown :
    app.shown[part] # None =>
      /\ app.shown[part].from = app.controller
      /\ app.shown[part].net # None => app.shown[part].net = app.selected

\* A request that deletes a network or removes a member was confirmed, for that
\* network and on that controller's page (confirm_action, confirmation_ui).
AskedHere ==
  (job # None /\ job.todo # <<>>) =>
    LET r == Head(job.todo)
    IN  /\ r.to = "controller" /\ r.op \in {"delete", "remove"} => job.ask # None
        /\ r.to = "controller" /\ job.ask # None =>
             job.ask.at = job.app.controller /\ (r.net # None => r.net = job.ask.net)

\* Nothing that belongs to one controller or network is used for another: not
\* the token, not what a page shows, not the answer to a question.
ContextsApart == TokenGoesHome /\ ShownBelongs /\ AskedHere

\* A policy draft that may be saved was made knowing every exit change that
\* this window has reported as done for its network (stale, from_manifest).
DraftCurrent ==
  request(app.editor) =>
    app.editor.at = app.told[app.editor.target.from][app.editor.target.net]

\* The window is not blocked for ever: every worker's operation ends, also when
\* its child process hangs (execute_process, poll_job).
WindowSettles == (job # None) ~> (job = None \/ exited)
=============================================================================
