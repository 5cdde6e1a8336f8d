------------------------------- MODULE Backup --------------------------------
(***************************************************************************)
(* The state of a service and who may touch it: the service itself, and    *)
(* the commands that back it up, restore it and repair it, each a process  *)
(* that must hold the state's lock.  Module StateFile shows how the file   *)
(* keeps what was written; here a write is one step that succeeds, fails,  *)
(* or fails with the new file in place.                                    *)
(***************************************************************************)
EXTENDS Naturals, FiniteSets

CONSTANTS
    Procs,          \* processes that run commands
    Paths,          \* of backups
    Reserved,       \* those that resolve to the state, its lock or its .bak
    Keys,           \* that a key provider may give
    MaxUpdates, MaxFailures, MaxCommands,
    None

Kinds == {"agent", "controller"}        \* of state

VARIABLES
    file,       \* per kind: None or [form, content]
    svc,        \* per kind: None or [protection, content] of the running service
    proc,       \* per process: Idle or its command
    backup,     \* per path: None or [kind, content]
    token,      \* the file for the first administrator token: None or the token
    updates, failures, commands

vars == <<file, svc, proc, backup, token, updates, failures, commands>>

Idle == [op |-> "idle", kind |-> None]

\* The sidecar .lock is held by the service or by one command.
Locked(k) == svc[k] # None \/ \E p \in Procs : proc[p].kind = k

\* State: whose it is (a signing key or administrator token drawn at creation),
\* how often it was changed, and whether an old build left a malformed network.
Content == [id : Nat, v : Nat, bad : BOOLEAN]

Fresh == updates + 1
Used == updates < MaxUpdates /\ updates' = updates + 1
Fails == failures < MaxFailures /\ failures' = failures + 1

-----------------------------------------------------------------------------
(* Envelopes *)

\* On Linux a file is plain unless a provider is configured, and a provider
\* reads plain files only when told to; on Windows the platform's own
\* protection is a key that does.
platform_default == [key |-> None, migrate |-> FALSE]
from_provider(key, migrate) == [key |-> key, migrate |-> migrate]
Protections == {platform_default} \cup {from_provider(key, m) : key \in Keys, m \in BOOLEAN}

encode_protected_state(content, protection) ==
    [form |-> IF protection.key = None THEN "plain" ELSE protection.key, content |-> content]

Decodes(f, protection) ==
    IF f.form = "plain" THEN protection.key = None \/ protection.migrate
                        ELSE protection.key = f.form

needs_protection_upgrade(f, protection) == f.form = "plain" /\ protection.key # None

\* migrate_and_validate_*_state: the rest of the schema is the business of the services
Valid(content) == ~content.bad

\* What a file may be after a write, and whether the write reported success.
Writes(k, content, protection) ==
    {[file |-> [file EXCEPT ![k] = encode_protected_state(content, protection)],
      ok |-> TRUE, failed |-> 0]}
    \cup
    (IF failures = MaxFailures THEN {}
     ELSE {[file |-> file, ok |-> FALSE, failed |-> 1],
           [file |-> [file EXCEPT ![k] = encode_protected_state(content, protection)],
            ok |-> FALSE, failed |-> 1]})

NoWrite == {[file |-> file, ok |-> TRUE, failed |-> 0]}

-----------------------------------------------------------------------------
(* The service *)

\* Its first start.  The agent writes a new state.
CreateAgent(protection) ==
    /\ ~Locked("agent") /\ file["agent"] = None /\ Used
    /\ \E w \in Writes("agent", [id |-> Fresh, v |-> 0, bad |-> FALSE], protection) :
         /\ file' = w.file /\ failures' = failures + w.failed
         /\ svc' = IF w.ok THEN [svc EXCEPT !["agent"] =
                        [protection |-> protection,
                         content |-> [id |-> Fresh, v |-> 0, bad |-> FALSE]]] ELSE svc
    /\ UNCHANGED <<proc, backup, token, commands>>

\* create_restricted_secret_file: refused if the file exists; on a failure the
\* file is truncated and removed.
create_restricted_secret_file(value) ==
    /\ token = None
    /\ token' = value

\* The controller delivers the token, then writes the state that contains it,
\* and removes the token again when the write reports a failure.
initialize_new_controller_state(protection) ==
    LET new == [id |-> Fresh, v |-> 0, bad |-> FALSE]
    IN  /\ ~Locked("controller") /\ file["controller"] = None /\ token = None /\ Used
        /\ \/ \E w \in Writes("controller", new, protection) :
                /\ file' = w.file /\ failures' = failures + w.failed
                /\ svc' = IF w.ok THEN [svc EXCEPT !["controller"] =
                                          [protection |-> protection, content |-> new]]
                          ELSE svc
                /\ IF w.ok THEN create_restricted_secret_file(Fresh) ELSE UNCHANGED token
           \/ Fails /\ UNCHANGED <<file, svc, token>>          \* the token's file failed
           \/ create_restricted_secret_file(Fresh) /\ UNCHANGED <<file, svc, failures>>  \* killed
        /\ UNCHANGED <<proc, backup, commands>>

open_with_protection(k, protection) ==
    /\ ~Locked(k) /\ file[k] # None
    /\ Decodes(file[k], protection) /\ Valid(file[k].content)
    /\ \E w \in IF needs_protection_upgrade(file[k], protection)
                THEN Writes(k, file[k].content, protection) ELSE NoWrite :
         /\ file' = w.file /\ failures' = failures + w.failed
         /\ svc' = IF w.ok THEN [svc EXCEPT ![k] = [protection |-> protection,
                                                    content |-> file[k].content]]
                   ELSE svc
    /\ UNCHANGED <<proc, backup, token, updates, commands>>

\* A handler changes the state and writes it (a failed one is Controller's and
\* Agent's subject).
Update(k) ==
    LET next == [svc[k].content EXCEPT !.v = @ + 1]
    IN  /\ svc[k] # None /\ Used
        /\ svc' = [svc EXCEPT ![k].content = next]
        /\ file' = [file EXCEPT ![k] = encode_protected_state(next, svc[k].protection)]
        /\ UNCHANGED <<proc, backup, token, failures, commands>>

Stop(k) ==
    /\ svc[k] # None /\ svc' = [svc EXCEPT ![k] = None]
    /\ UNCHANGED <<file, proc, backup, token, updates, failures, commands>>

-----------------------------------------------------------------------------
(* state backup *)

Begin(p) == proc[p] = Idle /\ commands < MaxCommands /\ commands' = commands + 1

resolve_state_backup_path(path) == path \notin Reserved
encode_state_backup(k, content) == [kind |-> k, content |-> content]

\* Under the lock: read, decode, validate, upgrade the file, encrypt a copy.
backup_with_password(p, k, path, force, protection) ==
    /\ Begin(p) /\ ~Locked(k)
    /\ resolve_state_backup_path(path)
    /\ file[k] # None /\ Decodes(file[k], protection) /\ Valid(file[k].content)
    /\ \E w \in IF needs_protection_upgrade(file[k], protection)
                THEN Writes(k, file[k].content, protection) ELSE NoWrite :
         /\ file' = w.file /\ failures' = failures + w.failed
         /\ proc' = IF w.ok
                    THEN [proc EXCEPT ![p] = [op |-> "check", kind |-> k, path |-> path,
                                              force |-> force,
                                              data |-> encode_state_backup(k, file[k].content)]]
                    ELSE proc
    /\ UNCHANGED <<svc, backup, token, updates>>

End(p) == proc' = [proc EXCEPT ![p] = Idle]

\* write_state_backup_file: an existing file is refused early; else a temporary
\* file is written and synchronised beside it, which may fail.
write_state_backup_file(p) ==
    /\ proc[p].op = "check"
    /\ \/ backup[proc[p].path] # None /\ ~proc[p].force /\ End(p) /\ UNCHANGED failures
       \/ /\ backup[proc[p].path] = None \/ proc[p].force
          /\ proc' = [proc EXCEPT ![p].op = "install"] /\ UNCHANGED failures
       \/ Fails /\ End(p)
    /\ UNCHANGED <<file, svc, backup, token, updates, commands>>

\* A bug: the temporary file is renamed over whatever is there by now
InstallByRename(p) ==
    /\ proc[p].op = "install"
    /\ backup' = [backup EXCEPT ![proc[p].path] = proc[p].data]
    /\ End(p)
    /\ UNCHANGED <<file, svc, token, updates, failures, commands>>

\* Unforced, the file is linked, or moved without replacement: by now another
\* command may have put one there.  What follows (permissions, the directory)
\* can fail with the backup in place.
install_backup(p) ==
    /\ proc[p].op = "install"
    /\ \/ /\ proc[p].force \/ backup[proc[p].path] = None
          /\ backup' = [backup EXCEPT ![proc[p].path] = proc[p].data]
          /\ UNCHANGED failures \/ Fails
       \/ /\ ~proc[p].force /\ backup[proc[p].path] # None
          /\ UNCHANGED <<backup, failures>>
       \/ Fails /\ UNCHANGED backup
    /\ End(p)
    /\ UNCHANGED <<file, svc, token, updates, commands>>

-----------------------------------------------------------------------------
(* state restore, state repair-invalid-networks *)

decode_state_backup(b, kind) == b # None /\ b.kind = kind

\* A bug: the lock is not taken
RestoreUnlocked(p, k, path, force, protection) ==
    /\ Begin(p)
    /\ decode_state_backup(backup[path], k) /\ (file[k] # None => force)
    /\ proc' = [proc EXCEPT ![p] = [op |-> "restore", kind |-> None, of |-> k,
                                    protection |-> protection,
                                    content |-> backup[path].content]]
    /\ UNCHANGED <<file, svc, backup, token, updates, failures>>

restore_with_password(p, k, path, force, protection) ==
    /\ Begin(p) /\ ~Locked(k)
    /\ resolve_state_backup_path(path)
    /\ decode_state_backup(backup[path], k) /\ Valid(backup[path].content)
    /\ file[k] # None => force
    /\ proc' = [proc EXCEPT ![p] = [op |-> "restore", kind |-> k, of |-> k,
                                    protection |-> protection,
                                    content |-> backup[path].content]]
    /\ UNCHANGED <<file, svc, backup, token, updates, failures>>

\* Nothing of the state that is replaced is read or decoded.
RestoreWrite(p) ==
    /\ proc[p].op = "restore"
    /\ \E w \in Writes(proc[p].of, proc[p].content, proc[p].protection) :
         file' = w.file /\ failures' = failures + w.failed
    /\ End(p)
    /\ UNCHANGED <<svc, backup, token, updates, commands>>

repair_invalid_networks(p, protection) ==
    /\ Begin(p) /\ ~Locked("agent")
    /\ file["agent"] # None /\ Decodes(file["agent"], protection)
    /\ file["agent"].content.bad
    /\ \E w \in Writes("agent", [file["agent"].content EXCEPT !.bad = FALSE], protection) :
         file' = w.file /\ failures' = failures + w.failed
    /\ UNCHANGED <<svc, proc, backup, token, updates>>

Kill(p) ==
    /\ proc[p] # Idle /\ End(p)
    /\ UNCHANGED <<file, svc, backup, token, updates, failures, commands>>

-----------------------------------------------------------------------------
Init ==
    /\ file \in [Kinds -> {None}] \cup
        {[k \in Kinds |-> IF k = "agent"
                          THEN [form |-> "plain", content |-> [id |-> 0, v |-> 0, bad |-> TRUE]]
                          ELSE None]}
    /\ svc = [k \in Kinds |-> None] /\ proc = [p \in Procs |-> Idle]
    /\ backup = [path \in Paths |-> None] /\ token = None
    /\ updates = 0 /\ failures = 0 /\ commands = 0

Service ==
    \E protection \in Protections :
        \/ CreateAgent(protection)
        \/ initialize_new_controller_state(protection)
        \/ \E k \in Kinds : open_with_protection(k, protection)

\* The commands of the two programs, and the steps of one that is running.
Command(p, k) ==
    \E path \in Paths, force \in BOOLEAN, protection \in Protections :
        \/ backup_with_password(p, k, path, force, protection)
        \/ restore_with_password(p, k, path, force, protection)
run_agent_command(p) ==
    Command(p, "agent") \/ \E protection \in Protections : repair_invalid_networks(p, protection)
run_controller_command(p) == Command(p, "controller")

Next ==
    \/ Service
    \/ \E k \in Kinds : Update(k) \/ Stop(k)
    \/ \E p \in Procs :
        \/ run_agent_command(p) \/ run_controller_command(p)
        \/ write_state_backup_file(p) \/ install_backup(p) \/ RestoreWrite(p) \/ Kill(p)

Spec == Init /\ [][Next]_vars

-----------------------------------------------------------------------------
(* Properties *)

\* A backup that is in place is replaced only by a command that was told to,
\* although the check and the installation are two steps and two services may
\* write to one path.
BackupKept ==
    [][\A path \in Paths : backup[path] # None /\ backup'[path] # backup[path] =>
          \E p \in Procs : proc[p].op = "install" /\ proc[p].path = path /\ proc[p].force]_vars

\* While a service runs, the file holds what the service last wrote, in its own
\* protection: no command that began before or begins now changes it.
ServiceOwnsState ==
    \A k \in Kinds : svc[k] # None =>
        file[k] = encode_protected_state(svc[k].content, svc[k].protection)
=============================================================================
