---------------------------- MODULE GatewayProofs ---------------------------
(***************************************************************************)
(* A machine in the overlay, for any instance and without a bound on what  *)
(* happens: the state of a running service is its own, a backup in place   *)
(* is replaced only on demand, and a gateway forwards nothing that came    *)
(* from beyond another gateway.                                            *)
(***************************************************************************)
EXTENDS Backup, TLAPS

-----------------------------------------------------------------------------
(* Backups *)

Forms == {"plain"} \cup Keys
Files == {None} \cup [form : Forms, content : Content]
Services == {None} \cup [protection : Protections, content : Content]
Copies == [kind : Kinds, content : Content]
BackupCommand ==
    [op : {"check", "install"}, kind : Kinds, path : Paths, force : BOOLEAN, data : Copies]
RestoreCommand ==
    [op : {"restore"}, kind : Kinds, of : Kinds, protection : Protections, content : Content]

TypeOK ==
    /\ file \in [Kinds -> Files]
    /\ svc \in [Kinds -> Services]
    /\ proc \in [Procs -> {Idle} \cup BackupCommand \cup RestoreCommand]
    /\ backup \in [Paths -> {None} \cup Copies]
    /\ updates \in Nat

\* A command that has begun excludes the service whose lock it holds, and the
\* state that a restore is about to write is the one whose lock it holds.
LockExcludes ==
    \A p \in Procs : proc[p] # Idle =>
        /\ svc[proc[p].kind] = None
        /\ proc[p].op = "restore" => proc[p].of = proc[p].kind

IInv == TypeOK /\ LockExcludes /\ ServiceOwnsState

-----------------------------------------------------------------------------
\* What is encoded is a file (encode_protected_state).
LEMMA EncodeType ==
  ASSUME NEW content \in Content, NEW protection \in Protections
  PROVE  encode_protected_state(content, protection) \in Files
<1>1. protection.key \in {None} \cup Keys
  BY DEF Protections, platform_default, from_provider
<1>2. (IF protection.key = None THEN "plain" ELSE protection.key) \in Forms
  BY <1>1 DEF Forms
<1> QED
  BY <1>2 DEF encode_protected_state, Files

\* A write changes no other state, and if it reports success the file holds
\* what was to be written (write_protected_state_file).
LEMMA WriteIsLocal ==
  ASSUME file \in [Kinds -> Files], NEW k \in Kinds, NEW content \in Content,
         NEW protection \in Protections, NEW w \in Writes(k, content, protection)
  PROVE  /\ w.file \in [Kinds -> Files]
         /\ \A j \in Kinds : j # k => w.file[j] = file[j]
         /\ w.ok => w.file[k] = encode_protected_state(content, protection)
<1> DEFINE new == encode_protected_state(content, protection)
           written == [file EXCEPT ![k] = new]
<1>1. new \in Files
  BY EncodeType
<1>2. \/ w = [file |-> written, ok |-> TRUE, failed |-> 0]
      \/ w = [file |-> file, ok |-> FALSE, failed |-> 1]
      \/ w = [file |-> written, ok |-> FALSE, failed |-> 1]
  BY Zenon DEF Writes
<1> HIDE DEF new
<1>3. /\ written \in [Kinds -> Files] /\ written[k] = new
      /\ \A j \in Kinds : j # k => written[j] = file[j]
  BY <1>1
<1> HIDE DEF written
<1>4. CASE w = [file |-> written, ok |-> TRUE, failed |-> 0]
  BY <1>3, <1>4, Zenon DEF new
<1>5. CASE w = [file |-> file, ok |-> FALSE, failed |-> 1]
  BY <1>5, Zenon
<1>6. CASE w = [file |-> written, ok |-> FALSE, failed |-> 1]
  BY <1>3, <1>6, Zenon
<1> QED
  BY <1>2, <1>4, <1>5, <1>6

LEMMA NoWriteIsLocal ==
  ASSUME NEW w \in NoWrite PROVE w.file = file
  BY DEF NoWrite

\* At the start no service runs and no command has begun.
LEMMA InitIInv == Init => IInv
<1> SUFFICES ASSUME Init PROVE IInv
  OBVIOUS
<1>1. TypeOK
  <2>1. file \in [Kinds -> Files]
    <3> DEFINE left == [form |-> "plain", content |-> [id |-> 0, v |-> 0, bad |-> TRUE]]
    <3>1. left \in Files /\ None \in Files
      BY DEF Files, Forms, Content
    <3>2. file \in [Kinds -> {None}] \/ file = [k \in Kinds |-> IF k = "agent" THEN left ELSE None]
      BY DEF Init
    <3> HIDE DEF left
    <3> QED
      BY <3>1, <3>2
  <2> QED
    BY <2>1 DEF Init, TypeOK, Services
<1>2. LockExcludes /\ ServiceOwnsState
  BY DEF Init, LockExcludes, ServiceOwnsState
<1> QED
  BY <1>1, <1>2 DEF IInv

-----------------------------------------------------------------------------
\* A command that writes a state under its lock leaves the services alone.
LEMMA WriteUnderLock ==
  ASSUME IInv, NEW k \in Kinds, svc[k] = None, UNCHANGED svc,
         file' \in [Kinds -> Files], \A j \in Kinds : j # k => file'[j] = file[j]
  PROVE  ServiceOwnsState'
  BY DEF IInv, ServiceOwnsState, encode_protected_state

\* A service that starts finds its lock free, and holds what the file holds.
LEMMA StartUnderLock ==
  ASSUME IInv, NEW k \in Kinds, ~Locked(k), UNCHANGED <<proc, backup>>, updates' \in Nat,
         NEW content \in Content, NEW protection \in Protections,
         file' \in [Kinds -> Files], \A j \in Kinds : j # k => file'[j] = file[j],
         \/ UNCHANGED svc
         \/ /\ svc' = [svc EXCEPT ![k] = [protection |-> protection, content |-> content]]
            /\ file'[k] = encode_protected_state(content, protection)
  PROVE  IInv'
<1>1. svc[k] = None /\ \A p \in Procs : proc[p].kind # k
  BY DEF Locked
<1>2. CASE UNCHANGED svc
  <2>1. ServiceOwnsState'
    BY <1>1, <1>2, WriteUnderLock
  <2> QED
    BY <1>2, <2>1 DEF IInv, TypeOK, LockExcludes, Idle
<1>3. CASE /\ svc' = [svc EXCEPT ![k] = [protection |-> protection, content |-> content]]
           /\ file'[k] = encode_protected_state(content, protection)
  <2>1. [protection |-> protection, content |-> content] \in Services
    BY DEF Services
  <2>2. svc \in [Kinds -> Services]
    BY DEF IInv, TypeOK
  <2>3. /\ svc' \in [Kinds -> Services]
        /\ \A j \in Kinds : j # k => svc'[j] = svc[j]
        /\ svc'[k] = [protection |-> protection, content |-> content]
    BY <1>3, <2>1, <2>2
  <2>4. TypeOK'
    BY <2>3 DEF IInv, TypeOK
  <2>5. LockExcludes'
    <3> SUFFICES ASSUME NEW p \in Procs, proc[p] # Idle
                 PROVE  svc'[proc[p].kind] = None /\ (proc[p].op = "restore" => proc[p].of = proc[p].kind)
      BY DEF LockExcludes, Idle
    <3>1. proc[p] \in BackupCommand \cup RestoreCommand
      BY DEF IInv, TypeOK
    <3>2. proc[p].kind \in Kinds
      BY <3>1 DEF BackupCommand, RestoreCommand
    <3> QED
      BY <1>1, <2>3, <3>2 DEF IInv, LockExcludes
  <2>6. ServiceOwnsState'
    <3> SUFFICES ASSUME NEW j \in Kinds, svc'[j] # None
                 PROVE  file'[j] = encode_protected_state(svc'[j].content, svc'[j].protection)
      BY DEF ServiceOwnsState, encode_protected_state
    <3>1. CASE j = k
      BY <1>3, <2>3, <3>1
    <3>2. CASE j # k
      BY <2>3, <3>2 DEF IInv, ServiceOwnsState
    <3> QED
      BY <3>1, <3>2
  <2> QED
    BY <2>4, <2>5, <2>6 DEF IInv
<1> QED
  BY <1>2, <1>3

\* The file of a service that opens is in the service's protection, or was
\* rewritten in it (needs_protection_upgrade).
LEMMA DecodedOrUpgraded ==
  ASSUME None \notin Keys,
         NEW f \in Files, f # None, NEW protection \in Protections, Decodes(f, protection)
  PROVE  /\ f.content \in Content
         /\ ~needs_protection_upgrade(f, protection) =>
                f = encode_protected_state(f.content, protection)
<1>1. f \in [form : Forms, content : Content]
  BY DEF Files
<1>2. f = [form |-> f.form, content |-> f.content]
  BY <1>1
<1>3. ~needs_protection_upgrade(f, protection) =>
          f.form = IF protection.key = None THEN "plain" ELSE protection.key
  <2> SUFFICES ASSUME ~needs_protection_upgrade(f, protection)
               PROVE  f.form = IF protection.key = None THEN "plain" ELSE protection.key
    OBVIOUS
  <2>1. CASE f.form = "plain"
    BY <2>1 DEF needs_protection_upgrade
  <2>2. CASE f.form # "plain"
    BY <1>1, <2>2 DEF Decodes, Forms
  <2> QED
    BY <2>1, <2>2
<1> QED
  BY <1>1, <1>2, <1>3 DEF encode_protected_state

\* A running command is replaced by one that holds the same lock, or ends.
LEMMA CommandMovesOn ==
  ASSUME IInv, NEW p \in Procs, UNCHANGED <<svc, updates>>,
         \/ UNCHANGED proc
         \/ proc' = [proc EXCEPT ![p] = Idle]
         \/ \E c \in BackupCommand \cup RestoreCommand :
               /\ proc' = [proc EXCEPT ![p] = c]
               /\ svc[c.kind] = None /\ (c.op = "restore" => c.of = c.kind)
  PROVE  /\ LockExcludes'
         /\ proc' \in [Procs -> {Idle} \cup BackupCommand \cup RestoreCommand]
<1>0. proc \in [Procs -> {Idle} \cup BackupCommand \cup RestoreCommand] /\ LockExcludes
  BY DEF IInv, TypeOK
<1>i. Idle' = Idle
  BY DEF Idle
<1>1. CASE UNCHANGED proc
  BY <1>0, <1>1, <1>i DEF LockExcludes
<1>2. CASE proc' = [proc EXCEPT ![p] = Idle]
  BY <1>0, <1>2, <1>i DEF LockExcludes
<1>3. ASSUME NEW c \in BackupCommand \cup RestoreCommand, proc' = [proc EXCEPT ![p] = c],
             svc[c.kind] = None /\ (c.op = "restore" => c.of = c.kind)
      PROVE  /\ LockExcludes'
             /\ proc' \in [Procs -> {Idle} \cup BackupCommand \cup RestoreCommand]
  BY <1>0, <1>3, <1>i DEF LockExcludes
<1> QED
  BY <1>1, <1>2, <1>3

-----------------------------------------------------------------------------
\* The services start.
LEMMA ServiceIInv ==
  ASSUME None \notin Keys, IInv, Service PROVE IInv'
<1>t. file \in [Kinds -> Files] /\ updates \in Nat
  BY DEF IInv, TypeOK
<1>n. \A n \in Nat : [id |-> n + 1, v |-> 0, bad |-> FALSE] \in Content
  BY DEF Content
<1>k. "agent" \in Kinds /\ "controller" \in Kinds
  BY DEF Kinds
<1>1. ASSUME NEW protection \in Protections, CreateAgent(protection) PROVE IInv'
  <2> DEFINE new == [id |-> Fresh, v |-> 0, bad |-> FALSE]
  <2>1. new \in Content
    BY <1>t, <1>n DEF Fresh
  <2>2. /\ ~Locked("agent") /\ UNCHANGED <<proc, backup>> /\ updates' = updates + 1
        /\ \E w \in Writes("agent", new, protection) :
             /\ file' = w.file
             /\ svc' = IF w.ok THEN [svc EXCEPT !["agent"] = [protection |-> protection, content |-> new]]
                       ELSE svc
    BY <1>1 DEF CreateAgent, Used
  <2> HIDE DEF new
  <2>3. PICK w \in Writes("agent", new, protection) :
             /\ file' = w.file
             /\ svc' = IF w.ok THEN [svc EXCEPT !["agent"] = [protection |-> protection, content |-> new]]
                       ELSE svc
    BY <2>2
  <2>4. /\ w.file \in [Kinds -> Files]
        /\ \A j \in Kinds : j # "agent" => w.file[j] = file[j]
        /\ w.ok => w.file["agent"] = encode_protected_state(new, protection)
    BY <1>t, <1>k, <2>1, WriteIsLocal
  <2>5. updates' \in Nat
    BY <1>t, <2>2
  <2> QED
    BY <1>k, <2>1, <2>2, <2>3, <2>4, <2>5, StartUnderLock
<1>2. ASSUME NEW protection \in Protections, initialize_new_controller_state(protection)
      PROVE  IInv'
  <2> DEFINE new == [id |-> Fresh, v |-> 0, bad |-> FALSE]
  <2>1. new \in Content
    BY <1>t, <1>n DEF Fresh
  <2>2. /\ ~Locked("controller") /\ UNCHANGED <<proc, backup>> /\ updates' = updates + 1
        /\ \/ \E w \in Writes("controller", new, protection) :
                /\ file' = w.file
                /\ svc' = IF w.ok
                          THEN [svc EXCEPT !["controller"] = [protection |-> protection, content |-> new]]
                          ELSE svc
           \/ UNCHANGED <<file, svc>>
    BY <1>2 DEF initialize_new_controller_state, Used
  <2>5. updates' \in Nat
    BY <1>t, <2>2
  <2> HIDE DEF new
  <2>6. CASE UNCHANGED <<file, svc>>
    BY <1>t, <1>k, <2>1, <2>2, <2>5, <2>6, StartUnderLock
  <2>7. CASE \E w \in Writes("controller", new, protection) :
                /\ file' = w.file
                /\ svc' = IF w.ok
                          THEN [svc EXCEPT !["controller"] = [protection |-> protection, content |-> new]]
                          ELSE svc
    <3>1. PICK w \in Writes("controller", new, protection) :
                /\ file' = w.file
                /\ svc' = IF w.ok
                          THEN [svc EXCEPT !["controller"] = [protection |-> protection, content |-> new]]
                          ELSE svc
      BY <2>7
    <3>2. /\ w.file \in [Kinds -> Files]
          /\ \A j \in Kinds : j # "controller" => w.file[j] = file[j]
          /\ w.ok => w.file["controller"] = encode_protected_state(new, protection)
      BY <1>t, <1>k, <2>1, WriteIsLocal
    <3> QED
      BY <1>k, <2>1, <2>2, <2>5, <3>1, <3>2, StartUnderLock
  <2> QED
    BY <2>2, <2>6, <2>7
<1>3. ASSUME NEW protection \in Protections, NEW k \in Kinds, open_with_protection(k, protection)
      PROVE  IInv'
  <2> DEFINE held == file[k].content
             upgrade == needs_protection_upgrade(file[k], protection)
  <2>1. /\ held \in Content
        /\ ~upgrade => file[k] = encode_protected_state(held, protection)
    BY <1>t, <1>3, DecodedOrUpgraded DEF open_with_protection
  <2>2. PICK w \in IF upgrade THEN Writes(k, held, protection) ELSE NoWrite :
             /\ file' = w.file
             /\ svc' = IF w.ok THEN [svc EXCEPT ![k] = [protection |-> protection, content |-> held]]
                       ELSE svc
    BY <1>3 DEF open_with_protection
  <2>3. ~Locked(k) /\ UNCHANGED <<proc, backup, updates>>
    BY <1>3 DEF open_with_protection
  <2> HIDE DEF held, upgrade
  <2>4. /\ w.file \in [Kinds -> Files]
        /\ \A j \in Kinds : j # k => w.file[j] = file[j]
        /\ w.ok => w.file[k] = encode_protected_state(held, protection)
    <3>1. CASE upgrade
      BY <1>t, <2>1, <2>2, <3>1, WriteIsLocal
    <3>2. CASE ~upgrade
      BY <1>t, <2>1, <2>2, <3>2, NoWriteIsLocal
    <3> QED
      BY <3>1, <3>2
  <2> QED
    BY <1>t, <2>1, <2>2, <2>3, <2>4, StartUnderLock
<1> QED
  BY <1>1, <1>2, <1>3 DEF Service

\* The commands begin, and move on.
LEMMA CommandIInv ==
  ASSUME None \notin Keys, IInv, NEW p \in Procs,
         \/ run_agent_command(p) \/ run_controller_command(p)
         \/ write_state_backup_file(p) \/ install_backup(p) \/ RestoreWrite(p) \/ Kill(p)
  PROVE  IInv'
<1>t. TypeOK /\ LockExcludes /\ ServiceOwnsState
  BY DEF IInv
<1>f. file \in [Kinds -> Files]
  BY <1>t DEF TypeOK
<1>p. proc[p] \in {Idle} \cup BackupCommand \cup RestoreCommand
  BY <1>t DEF TypeOK
<1>1. ASSUME NEW k \in Kinds, NEW path \in Paths, NEW force \in BOOLEAN,
             NEW protection \in Protections,
             backup_with_password(p, k, path, force, protection)
      PROVE  IInv'
  <2> DEFINE held == file[k].content
             upgrade == needs_protection_upgrade(file[k], protection)
             c == [op |-> "check", kind |-> k, path |-> path, force |-> force,
                   data |-> encode_state_backup(k, held)]
  <2>1. held \in Content
    BY <1>f, <1>1, DecodedOrUpgraded DEF backup_with_password
  <2>2. PICK w \in IF upgrade THEN Writes(k, held, protection) ELSE NoWrite :
             /\ file' = w.file
             /\ proc' = IF w.ok THEN [proc EXCEPT ![p] = c] ELSE proc
    BY <1>1 DEF backup_with_password
  <2>3. svc[k] = None /\ UNCHANGED <<svc, backup, updates>>
    BY <1>1 DEF backup_with_password, Locked
  <2>4. c \in BackupCommand /\ c.kind = k /\ c.op # "restore"
    BY <2>1 DEF BackupCommand, Copies, encode_state_backup
  <2> HIDE DEF held, upgrade, c
  <2>5. /\ w.file \in [Kinds -> Files]
        /\ \A j \in Kinds : j # k => w.file[j] = file[j]
    <3>1. CASE upgrade
      BY <1>f, <2>1, <2>2, <3>1, WriteIsLocal
    <3>2. CASE ~upgrade
      BY <1>f, <2>2, <3>2, NoWriteIsLocal
    <3> QED
      BY <3>1, <3>2
  <2>6. LockExcludes' /\ proc' \in [Procs -> {Idle} \cup BackupCommand \cup RestoreCommand]
    BY <2>2, <2>3, <2>4, CommandMovesOn
  <2>7. ServiceOwnsState'
    BY <2>2, <2>3, <2>5, WriteUnderLock
  <2> QED
    BY <1>t, <2>2, <2>3, <2>5, <2>6, <2>7 DEF IInv, TypeOK, Idle
<1>2. ASSUME NEW k \in Kinds, NEW path \in Paths, NEW force \in BOOLEAN,
             NEW protection \in Protections,
             restore_with_password(p, k, path, force, protection)
      PROVE  IInv'
  <2> DEFINE c == [op |-> "restore", kind |-> k, of |-> k, protection |-> protection,
                   content |-> backup[path].content]
  <2>1. backup[path] \in Copies
    BY <1>t, <1>2 DEF TypeOK, restore_with_password, decode_state_backup
  <2>2. c \in RestoreCommand /\ c.kind = k /\ c.of = k
    BY <2>1 DEF RestoreCommand, Copies
  <2>3. svc[k] = None /\ proc' = [proc EXCEPT ![p] = c] /\ UNCHANGED <<file, svc, backup, updates>>
    BY <1>2 DEF restore_with_password, Locked
  <2> HIDE DEF c
  <2>6. LockExcludes' /\ proc' \in [Procs -> {Idle} \cup BackupCommand \cup RestoreCommand]
    BY <2>2, <2>3, CommandMovesOn
  <2>7. ServiceOwnsState'
    BY <1>f, <2>3, WriteUnderLock
  <2> QED
    BY <1>t, <2>3, <2>6, <2>7 DEF IInv, TypeOK, Idle
<1>3. ASSUME NEW protection \in Protections, repair_invalid_networks(p, protection) PROVE IInv'
  <2> DEFINE held == file["agent"].content
             repaired == [held EXCEPT !.bad = FALSE]
  <2>k. "agent" \in Kinds
    BY DEF Kinds
  <2>1. held \in Content
    BY <1>f, <1>3, <2>k, DecodedOrUpgraded DEF repair_invalid_networks
  <2>2. repaired \in Content
    BY <2>1 DEF Content
  <2>3. PICK w \in Writes("agent", repaired, protection) : file' = w.file
    BY <1>3 DEF repair_invalid_networks
  <2>4. svc["agent"] = None /\ UNCHANGED <<svc, proc, backup, updates>>
    BY <1>3 DEF repair_invalid_networks, Locked
  <2> HIDE DEF held, repaired
  <2>5. /\ w.file \in [Kinds -> Files]
        /\ \A j \in Kinds : j # "agent" => w.file[j] = file[j]
    BY <1>f, <2>k, <2>2, WriteIsLocal
  <2>6. LockExcludes' /\ proc' \in [Procs -> {Idle} \cup BackupCommand \cup RestoreCommand]
    BY <2>4, CommandMovesOn
  <2>7. ServiceOwnsState'
    BY <2>k, <2>3, <2>4, <2>5, WriteUnderLock
  <2> QED
    BY <1>t, <2>3, <2>4, <2>5, <2>6, <2>7 DEF IInv, TypeOK, Idle
<1>4. CASE write_state_backup_file(p)
  <2>1. proc[p] \in BackupCommand
    BY <1>p, <1>4 DEF write_state_backup_file, Idle, RestoreCommand
  <2> DEFINE c == [proc[p] EXCEPT !.op = "install"]
  <2>2. c \in BackupCommand /\ c.kind = proc[p].kind /\ c.op = "install"
    BY <2>1 DEF BackupCommand
  <2>3. /\ proc' = [proc EXCEPT ![p] = Idle] \/ proc' = [proc EXCEPT ![p] = c]
        /\ UNCHANGED <<file, svc, backup, updates>>
    BY <1>4 DEF write_state_backup_file, End
  <2>4. proc[p] # Idle
    BY <1>4 DEF write_state_backup_file, Idle
  <2>5. svc[c.kind] = None
    BY <1>t, <2>2, <2>4 DEF LockExcludes
  <2> HIDE DEF c
  <2>6. LockExcludes' /\ proc' \in [Procs -> {Idle} \cup BackupCommand \cup RestoreCommand]
    BY <2>2, <2>3, <2>5, CommandMovesOn
  <2> QED
    BY <1>t, <2>3, <2>6 DEF IInv, TypeOK, Idle, ServiceOwnsState, encode_protected_state
<1>5. CASE install_backup(p)
  <2>1. proc[p] \in BackupCommand
    BY <1>p, <1>5 DEF install_backup, Idle, RestoreCommand
  <2>2. /\ backup' = backup \/ backup' = [backup EXCEPT ![proc[p].path] = proc[p].data]
        /\ proc' = [proc EXCEPT ![p] = Idle] /\ UNCHANGED <<file, svc, updates>>
    BY <1>5 DEF install_backup, End
  <2>3. backup' \in [Paths -> {None} \cup Copies]
    BY <1>t, <2>1, <2>2 DEF TypeOK, BackupCommand
  <2>6. LockExcludes' /\ proc' \in [Procs -> {Idle} \cup BackupCommand \cup RestoreCommand]
    BY <2>2, CommandMovesOn
  <2> QED
    BY <1>t, <2>2, <2>3, <2>6 DEF IInv, TypeOK, Idle, ServiceOwnsState, encode_protected_state
<1>6. CASE RestoreWrite(p)
  <2>1. proc[p] \in RestoreCommand /\ proc[p] # Idle
    BY <1>p, <1>6 DEF RestoreWrite, Idle, BackupCommand
  <2>2. proc[p].of \in Kinds /\ proc[p].content \in Content /\ proc[p].protection \in Protections
    BY <2>1 DEF RestoreCommand
  <2>3. svc[proc[p].of] = None
    BY <1>t, <1>6, <2>1 DEF LockExcludes, RestoreWrite
  <2>4. PICK w \in Writes(proc[p].of, proc[p].content, proc[p].protection) : file' = w.file
    BY <1>6 DEF RestoreWrite
  <2>5. /\ w.file \in [Kinds -> Files]
        /\ \A j \in Kinds : j # proc[p].of => w.file[j] = file[j]
    BY <1>f, <2>2, WriteIsLocal
  <2>6. proc' = [proc EXCEPT ![p] = Idle] /\ UNCHANGED <<svc, backup, updates>>
    BY <1>6 DEF RestoreWrite, End
  <2>7. LockExcludes' /\ proc' \in [Procs -> {Idle} \cup BackupCommand \cup RestoreCommand]
    BY <2>6, CommandMovesOn
  <2>8. ServiceOwnsState'
    BY <2>2, <2>3, <2>4, <2>5, <2>6, WriteUnderLock
  <2> QED
    BY <1>t, <2>4, <2>5, <2>6, <2>7, <2>8 DEF IInv, TypeOK, Idle
<1>7. CASE Kill(p)
  <2>1. proc' = [proc EXCEPT ![p] = Idle] /\ UNCHANGED <<file, svc, backup, updates>>
    BY <1>7 DEF Kill, End
  <2>2. LockExcludes' /\ proc' \in [Procs -> {Idle} \cup BackupCommand \cup RestoreCommand]
    BY <2>1, CommandMovesOn
  <2> QED
    BY <1>t, <2>1, <2>2 DEF IInv, TypeOK, Idle, ServiceOwnsState, encode_protected_state
<1> QED
  BY <1>1, <1>2, <1>3, <1>4, <1>5, <1>6, <1>7
  DEF run_agent_command, run_controller_command, Command, Kinds

-----------------------------------------------------------------------------
\* Every step keeps the invariant.  A service starts only when no command holds
\* its lock, and a command begins only when the service does not run: so what a
\* restore has decoded is written while the service is stopped.
LEMMA NextIInv ==
  ASSUME None \notin Keys, IInv, [Next]_vars PROVE IInv'
<1>t. TypeOK /\ LockExcludes /\ ServiceOwnsState
  BY DEF IInv
<1>1. CASE Service
  BY <1>1, ServiceIInv
<1>2. ASSUME NEW k \in Kinds, Update(k) PROVE IInv'
  <2> DEFINE next == [svc[k].content EXCEPT !.v = @ + 1]
             new == encode_protected_state(next, svc[k].protection)
             s == [svc[k] EXCEPT !.content = next]
  <2>1. svc[k] \in [protection : Protections, content : Content]
    BY <1>t, <1>2 DEF TypeOK, Services, Update
  <2>2. next \in Content
    BY <2>1 DEF Content
  <2>3. s \in Services /\ s.content = next /\ s.protection = svc[k].protection
    BY <2>1, <2>2 DEF Services
  <2>4. new \in Files
    BY <2>1, <2>2, EncodeType
  <2>5. /\ svc' = [svc EXCEPT ![k] = s] /\ file' = [file EXCEPT ![k] = new]
        /\ updates' = updates + 1 /\ svc[k] # None /\ UNCHANGED <<proc, backup>>
    BY <1>2 DEF Update, Used
  <2>6. new = encode_protected_state(s.content, s.protection)
    BY <2>3
  <2> HIDE DEF next, new, s
  <2>7. TypeOK'
    BY <1>t, <2>3, <2>4, <2>5 DEF TypeOK, Idle
  <2>8. LockExcludes'
    BY <1>t, <2>5 DEF LockExcludes, TypeOK, Idle
  <2>9. ServiceOwnsState'
    <3> SUFFICES ASSUME NEW j \in Kinds, svc'[j] # None
                 PROVE  file'[j] = encode_protected_state(svc'[j].content, svc'[j].protection)
      BY DEF ServiceOwnsState, encode_protected_state
    <3>1. CASE j = k
      BY <1>t, <2>5, <2>6, <3>1 DEF TypeOK
    <3>2. CASE j # k
      BY <1>t, <2>5, <3>2 DEF TypeOK, ServiceOwnsState
    <3> QED
      BY <3>1, <3>2
  <2> QED
    BY <2>7, <2>8, <2>9 DEF IInv
<1>3. ASSUME NEW k \in Kinds, Stop(k) PROVE IInv'
  <2>1. svc' = [svc EXCEPT ![k] = None] /\ UNCHANGED <<file, proc, backup, updates>>
    BY <1>3 DEF Stop
  <2>2. TypeOK'
    BY <1>t, <2>1 DEF TypeOK, Services, Idle
  <2>3. LockExcludes'
    BY <1>t, <2>1 DEF LockExcludes, TypeOK, Idle
  <2>4. ServiceOwnsState'
    BY <1>t, <2>1 DEF ServiceOwnsState, TypeOK, encode_protected_state
  <2> QED
    BY <2>2, <2>3, <2>4 DEF IInv
<1>4. ASSUME NEW p \in Procs,
             \/ run_agent_command(p) \/ run_controller_command(p)
             \/ write_state_backup_file(p) \/ install_backup(p) \/ RestoreWrite(p) \/ Kill(p)
      PROVE  IInv'
  BY <1>4, CommandIInv
<1>5. CASE UNCHANGED vars
  BY <1>t, <1>5 DEF vars, IInv, TypeOK, LockExcludes, Idle, ServiceOwnsState,
                    encode_protected_state
<1> QED
  BY <1>1, <1>2, <1>3, <1>4, <1>5 DEF Next

\* For any processes, backups and keys: while meshlaked or the controller runs,
\* its state file holds what it last wrote, whatever backup, restore and repair
\* commands were begun before it started or are begun beside it.
THEOREM ServiceOwns ==
  ASSUME None \notin Keys PROVE Spec => []ServiceOwnsState
<1>1. Init => IInv
  BY InitIInv
<1>2. IInv /\ [Next]_vars => IInv'
  BY NextIInv
<1>3. IInv => ServiceOwnsState
  BY DEF IInv
<1> QED
  BY <1>1, <1>2, <1>3, PTL DEF Spec

\* A step changes a backup in place only if it installs one with --force.
LEMMA BackupStep ==
  ASSUME IInv, [Next]_vars, NEW path \in Paths, backup[path] # None, backup'[path] # backup[path]
  PROVE  \E p \in Procs : proc[p].op = "install" /\ proc[p].path = path /\ proc[p].force
<1>1. PICK p \in Procs : install_backup(p)
  <2>1. backup' # backup
    OBVIOUS
  <2> QED
    BY <2>1, ZenonT(60) DEF Next, vars, Service, CreateAgent, initialize_new_controller_state,
                open_with_protection, Update, Stop, run_agent_command, run_controller_command,
                Command, backup_with_password, restore_with_password, repair_invalid_networks,
                write_state_backup_file, RestoreWrite, Kill
<1>2. backup \in [Paths -> {None} \cup Copies]
  BY DEF IInv, TypeOK
<1>3. proc[p].op = "install" /\ backup' = [backup EXCEPT ![proc[p].path] = proc[p].data]
      /\ (proc[p].force \/ backup[proc[p].path] = None)
  BY <1>1 DEF install_backup
<1>4. proc[p].path = path
  BY <1>2, <1>3
<1> QED
  BY <1>3, <1>4

\* Two commands that were told to write to one path, one of them without
\* --force, never cost the backup that the other put there: the installation
\* itself refuses to replace (write_state_backup_file).
THEOREM BackupsAreKept ==
  ASSUME None \notin Keys PROVE Spec => BackupKept
<1>1. Init => IInv
  BY InitIInv
<1>2. IInv /\ [Next]_vars => IInv'
  BY NextIInv
<1>3. IInv /\ [Next]_vars =>
        [\A path \in Paths : backup[path] # None /\ backup'[path] # backup[path] =>
          \E p \in Procs : proc[p].op = "install" /\ proc[p].path = path /\ proc[p].force]_vars
  BY BackupStep
<1> QED
  BY <1>1, <1>2, <1>3, PTL DEF Spec, BackupKept

-----------------------------------------------------------------------------
(* The way of a packet *)

CONSTANTS Networks, Devices, Bits, Overlay, Address, Policies, Destinations,
    MaxChanges, MaxPackets
VARIABLES published, view, choice, flight, out, got, changes, started

Way == INSTANCE PacketRoute

\* A packet goes to a device that it is not addressed to only under the address
\* of its sender.
Honest(p) ==
    \/ p.src = Address[p.net][p.from]
    \/ p.dst = Address[p.net][p.to]
    \/ Way!is_group_destination(p.net, p.dst)

\* The copies of the networks name devices.
CopiesFit ==
    /\ DOMAIN published = Networks
    /\ \A n \in Networks : /\ DOMAIN published[n] = {"members", "policy"}
                           /\ published[n].members \subseteq Devices
    /\ DOMAIN view = Devices
    /\ \A d \in Devices : DOMAIN view[d] = Networks
    /\ \A d \in Devices, n \in Networks :
         /\ DOMAIN view[d][n] = {"in", "live", "members", "policy"}
         /\ view[d][n].members \subseteq Devices

RouteInv ==
    /\ CopiesFit
    /\ \A p \in flight : p.to \in Devices /\ Honest(p)
    /\ \A p \in out : p.to \in Devices
    /\ Way!NoTransit

\* A device's own packet goes into the network that it is sent from.
LEMMA OwnRouteNet ==
  ASSUME NEW d, NEW n, NEW dst, Way!OwnRoute(d, n, dst) # None
  PROVE  Way!OwnRoute(d, n, dst).net = n
<1>1. \E g : Way!OwnRoute(d, n, dst) = Way!Route(n, g)
  BY Zenon DEF Way!OwnRoute
<1> QED  BY <1>1 DEF Way!Route

\* A packet of someone else goes to the devices that it is addressed to.
LEMMA RouteOf ==
  ASSUME NEW d, NEW src, NEW dst, Way!outbound_route_for_ip_packet(d, src, dst) # None
  PROVE  LET route == Way!outbound_route_for_ip_packet(d, src, dst)
         IN  /\ route.net \in Networks
             /\ Address[route.net][d] = src \/ route.gateway = None
<1> DEFINE sources == {n \in Way!Joined(d) : Address[n][d] = src}
           route == Way!outbound_route_for_ip_packet(d, src, dst)
           returns == Way!GatewayReturns(d, src, dst)
           best == {r \in returns : \A s \in returns : s.len <= r.len}
           own == Way!OwnRoute(d, Way!The(sources), dst)
           back == Way!Route(Way!The(best).net, None)
<1>1. \/ sources # {} /\ route = own
      \/ best # {} /\ route = back
  BY Zenon DEF Way!outbound_route_for_ip_packet, Way!One
<1>2. \A S : S # {} => Way!The(S) \in S
  BY Zenon DEF Way!The
<1>3. CASE sources # {} /\ route = own
  <2>1. Way!The(sources) \in Networks
    BY <1>2, <1>3, Zenon DEF Way!Joined
  <2> QED  BY <1>2, <1>3, <2>1, OwnRouteNet, Zenon
<1>4. CASE best # {} /\ route = back
  <2>1. Way!The(best) \in best
    BY <1>2, <1>4, Zenon
  <2>2. \A r \in best : r.net \in Networks
    BY DEF Way!GatewayReturns, Way!Joined
  <2>3. back.net = Way!The(best).net /\ back.gateway = None
    BY DEF Way!Route
  <2> QED  BY Zenon, <1>4, <2>1, <2>2, <2>3
<1> QED  BY Zenon, <1>1, <1>3, <1>4

\* Every packet that a device sends is honest.
LEMMA PacketsAreHonest ==
  ASSUME None \notin Devices, CopiesFit, NEW d \in Devices, NEW src, NEW dst, NEW origin,
         NEW p \in Way!Packets(d, src, dst, origin)
  PROVE  p.to \in Devices /\ Honest(p)
<1> DEFINE route == Way!outbound_route_for_ip_packet(d, src, dst)
<1>1. /\ route # None
      /\ \E t \in Way!peer_targets_for_packet(d, route, dst) :
           p = [net |-> route.net, from |-> d, to |-> t, src |-> src, dst |-> dst,
                origin |-> origin]
  BY Zenon DEF Way!Packets
<1>2. PICK t \in Way!peer_targets_for_packet(d, route, dst) :
           p = [net |-> route.net, from |-> d, to |-> t, src |-> src, dst |-> dst,
                origin |-> origin]
  BY <1>1
<1>3. route.net \in Networks /\ (Address[route.net][d] = src \/ route.gateway = None)
  BY Zenon, <1>1, RouteOf
<1>4. /\ t \in view[d][route.net].members
      /\ \/ route.gateway = t
         \/ Way!is_group_destination(route.net, dst) \/ Address[route.net][t] = dst
  BY Zenon DEF Way!peer_targets_for_packet
<1>5. t \in Devices
  <2>1. view[d][route.net].members \subseteq Devices
    BY Zenon, <1>3 DEF CopiesFit
  <2> QED  BY Zenon, <1>4, <2>1
<1> HIDE DEF route
<1>6. /\ p.net = route.net /\ p.from = d /\ p.to = t /\ p.src = src /\ p.dst = dst
  BY <1>2
<1> QED  BY Zenon, <1>3, <1>4, <1>5, <1>6 DEF Honest

\* A copy of a network names devices.
LEMMA CopyFits ==
  ASSUME NEW n, published[n].members \subseteq Devices, NEW in, NEW live
  PROVE  LET v == [Way!Copy(n) EXCEPT !.in = in, !.live = live]
         IN  DOMAIN v = {"in", "live", "members", "policy"} /\ v.members \subseteq Devices
  BY DEF Way!Copy

\* Publishing, refreshing and lapsing keep the copies well formed.
LEMMA CopiesStay ==
  ASSUME CopiesFit, NEW n \in Networks,
         Way!Publish(n) \/ \E d \in Devices : Way!Refresh(d, n) \/ Way!Lapse(d, n)
  PROVE  CopiesFit'
<1>1. CASE Way!Publish(n)
  <2>1. /\ UNCHANGED view
        /\ \/ \E p : published' = [published EXCEPT ![n].policy = p]
           \/ \E e : published' = [published EXCEPT ![n].members = @ \ {e}]
    BY <1>1, Zenon DEF Way!Publish
  <2> QED  BY <2>1 DEF CopiesFit
<1>2. ASSUME NEW d \in Devices, Way!Refresh(d, n)
      PROVE  CopiesFit'
  <2> DEFINE new == [Way!Copy(n) EXCEPT !.in = d \in published[n].members,
                                        !.live = d \in published[n].members]
  <2>1. UNCHANGED published /\ view' = [view EXCEPT ![d][n] = new]
    BY <1>2, Zenon DEF Way!Refresh
  <2>2. DOMAIN new = {"in", "live", "members", "policy"} /\ new.members \subseteq Devices
    <3>1. published[n].members \subseteq Devices
      BY DEF CopiesFit
    <3> QED  BY Zenon, <3>1, CopyFits
  <2> HIDE DEF new
  <2> QED  BY <2>1, <2>2 DEF CopiesFit
<1>3. ASSUME NEW d \in Devices, Way!Lapse(d, n)
      PROVE  CopiesFit'
  <2>1. UNCHANGED published /\ view' = [view EXCEPT ![d][n].live = FALSE]
    BY <1>3 DEF Way!Lapse
  <2> QED  BY <2>1 DEF CopiesFit
<1> QED  BY <1>1, <1>2, <1>3

\* Every step keeps the invariant.
LEMMA RouteStep ==
  ASSUME None \notin Devices, RouteInv, Way!Next \/ UNCHANGED Way!vars
  PROVE  RouteInv'
<1>1. ASSUME CopiesFit', UNCHANGED <<flight, out>>
      PROVE  RouteInv'
  BY <1>1 DEF RouteInv, Honest, Way!NoTransit, Way!is_group_destination, Way!Broadcast, Way!Block
<1>2. ASSUME NEW d \in Devices, NEW src, NEW dst, NEW origin, UNCHANGED <<published, view, out>>,
             flight' = flight \cup Way!Packets(d, src, dst, origin)
      PROVE  RouteInv'
  <2>1. \A p \in flight' : p.to \in Devices /\ Honest(p)
    BY <1>2, PacketsAreHonest, Zenon DEF RouteInv
  <2>2. CopiesFit' /\ (\A p \in out' : p.to \in Devices) /\ Way!NoTransit'
    BY <1>2 DEF RouteInv, CopiesFit, Way!NoTransit
  <2> QED  BY <2>1, <2>2, Zenon DEF RouteInv, Honest, Way!is_group_destination
<1>3. ASSUME NEW p \in flight, Way!Deliver(p)
      PROVE  RouteInv'
  <2>1. UNCHANGED <<published, view>> /\ flight' \subseteq flight
    BY <1>3 DEF Way!Deliver
  <2>2. \/ out' = out
        \/ /\ out' = out \cup {p}
           /\ Address[p.net][p.to] # p.dst /\ ~Way!is_group_destination(p.net, p.dst)
    BY <1>3, Zenon DEF Way!Deliver
  <2>3. p.to \in Devices /\ Honest(p)
    BY DEF RouteInv
  <2>4. out' = out \/ (out' = out \cup {p} /\ p.src = Address[p.net][p.from])
    BY Zenon, <2>2, <2>3 DEF Honest
  <2>5. \A q \in out' : q.to \in Devices /\ q.src = Address[q.net][q.from]
    BY <2>3, <2>4 DEF RouteInv, Way!NoTransit
  <2>6. CopiesFit' /\ \A q \in flight' : q.to \in Devices /\ Honest(q)
    BY <2>1 DEF RouteInv, CopiesFit
  <2> QED  BY Zenon, <2>5, <2>6 DEF RouteInv, Honest, Way!NoTransit, Way!is_group_destination
<1>4. ASSUME NEW n \in Networks,
             Way!Publish(n) \/ \E d \in Devices : Way!Refresh(d, n) \/ Way!Lapse(d, n)
      PROVE  RouteInv'
  <2>1. UNCHANGED <<flight, out>>
    BY <1>4, Zenon DEF Way!Publish, Way!Refresh, Way!Lapse
  <2> QED  BY <1>1, <1>4, <2>1, CopiesStay DEF RouteInv
<1>5. ASSUME UNCHANGED <<published, view, flight, out>>
      PROVE  RouteInv'
  BY <1>1, <1>5 DEF RouteInv, CopiesFit
<1>6. ASSUME NEW d \in Devices, NEW n \in Networks,
             \/ \E exit \in Devices : Way!Choose(d, n, exit)
             \/ \E dst \in Destinations : Way!Send(d, n, dst)
      PROVE  RouteInv'
  BY Zenon, <1>2, <1>5, <1>6 DEF Way!Choose, Way!Send
<1>7. ASSUME NEW d \in Devices, NEW src, NEW dst, Way!Forward(d, src, dst)
      PROVE  RouteInv'
  BY Zenon, <1>2, <1>7 DEF Way!Forward
<1>8. ASSUME NEW p \in out, Way!Reply(p)
      PROVE  RouteInv'
  <2>1. p.to \in Devices
    BY DEF RouteInv
  <2> QED  BY Zenon, <1>2, <1>8, <2>1 DEF Way!Reply
<1>9. CASE UNCHANGED Way!vars
  BY <1>5, <1>9 DEF Way!vars
<1> QED  BY Zenon, <1>3, <1>4, <1>6, <1>7, <1>8, <1>9 DEF Way!Next

\* At the start nothing is under way.
LEMMA RouteInit == Way!Init => RouteInv
<1> SUFFICES ASSUME Way!Init PROVE RouteInv
  OBVIOUS
<1> DEFINE first(d, n) == [Way!Copy(n) EXCEPT !.in = d \in DOMAIN Address[n],
                                             !.live = d \in DOMAIN Address[n]]
           Policy == UNION Way!Range(Policies)
<1>p. published \in [Networks -> [members : SUBSET Devices, policy : Policy]]
  BY Zenon DEF Way!Init
<1>v. view = [d \in Devices |-> [n \in Networks |-> first(d, n)]]
  BY Zenon DEF Way!Init
<1>1. flight = {} /\ out = {}
  BY Zenon DEF Way!Init
<1> HIDE DEF Policy, Way!Init
<1>2. /\ DOMAIN published = Networks
      /\ \A n \in Networks : /\ DOMAIN published[n] = {"members", "policy"}
                             /\ published[n].members \subseteq Devices
  <2>1. \A n \in Networks : published[n] \in [members : SUBSET Devices, policy : Policy]
    BY <1>p, Zenon
  <2>2. \A m \in [members : SUBSET Devices, policy : Policy] :
          DOMAIN m = {"members", "policy"} /\ m.members \subseteq Devices
    OBVIOUS
  <2> QED  BY <1>p, <2>1, <2>2, Zenon
<1>3. \A d \in Devices, n \in Networks :
        /\ DOMAIN first(d, n) = {"in", "live", "members", "policy"}
        /\ first(d, n).members \subseteq Devices
  BY Zenon, <1>2, CopyFits
<1> HIDE DEF first
<1>4. /\ DOMAIN view = Devices /\ \A d \in Devices : DOMAIN view[d] = Networks
      /\ \A d \in Devices, n \in Networks : view[d][n] = first(d, n)
  BY <1>v, Zenon
<1>5. CopiesFit
  <2>1. \A d \in Devices, n \in Networks :
          /\ DOMAIN view[d][n] = {"in", "live", "members", "policy"}
          /\ view[d][n].members \subseteq Devices
    BY <1>3, <1>4
  <2> QED  BY Zenon, <1>2, <1>4, <2>1 DEF CopiesFit
<1> QED  BY <1>1, <1>5 DEF RouteInv, Way!NoTransit

\* A packet leaves the overlay only under the address of the member that sent
\* it, for any networks, addresses and policies and whatever copies the devices
\* on its way held: a gateway forwards nothing from beyond another gateway.
THEOREM NothingInTransit ==
  ASSUME None \notin Devices
  PROVE  Way!Spec => []Way!NoTransit
<1>1. RouteInv /\ [Way!Next]_(Way!vars) => RouteInv'
  BY RouteStep
<1>2. RouteInv => Way!NoTransit
  BY DEF RouteInv
<1> QED  BY <1>1, <1>2, RouteInit, PTL DEF Way!Spec
=============================================================================
