------------------------------- MODULE StateFile -------------------------------
(***************************************************************************)
(* The state file of an agent or a controller (meshlake-core,              *)
(* state_protection.rs) on Unix and on Windows: writing through a          *)
(* temporary file, recovery from the backup of an interrupted replacement, *)
(* and removal of a stale backup.                                          *)
(*                                                                         *)
(* The process may be killed and the machine may lose power between any    *)
(* two steps, and any file operation may fail.  Power loss takes the       *)
(* directory back to a state it had since it last was synchronised, and    *)
(* spoils the contents of files that were not.  The lock on the file makes *)
(* one process at a time its user.                                         *)
(***************************************************************************)
EXTENDS Integers, Sequences

CONSTANTS
  MaxVersion,   \* bound on the values written
  MaxFailures,  \* bound on failing file operations
  MaxStops      \* bound on kills and power losses

VARIABLES
  windows,   \* the platform
  dir,       \* the directory: state file, `.bak` and `.tmp-*`
  log,       \* the directory since it was last on stable storage
  clean,     \* inodes whose contents are on stable storage
  inode,     \* the next inode
  pc,        \* where the process is
  opening,   \* it has not finished opening the state
  memory,    \* its copy of the state; versions stand for contents
  version,   \* the next version
  acked,     \* the version whose write was last confirmed (history)
  tried,     \* versions whose write was begun since (history)
  budget

vars == <<windows, dir, log, clean, inode, pc, opening, memory, version, acked, tried, budget>>

Absent == -1
Spoilt == -2

NoFile == [v |-> Absent, inode |-> Absent]
File == [v : Nat, inode : Nat]

Exists(f) == f # NoFile

Init ==
  /\ windows \in BOOLEAN
  /\ dir = [path |-> NoFile, bak |-> NoFile, tmp |-> NoFile]
  /\ log = <<dir>>
  /\ clean = {}
  /\ inode = 0
  /\ pc = "down"
  /\ opening = TRUE
  /\ memory = Absent
  /\ version = 0
  /\ acked = Absent
  /\ tried = {}
  /\ budget = [failures |-> MaxFailures, stops |-> MaxStops]

\* A change of the directory, at first in memory only, or written through.
Journal(d) == dir' = d /\ log' = Append(log, d)

WriteThrough(d) == dir' = d /\ log' = <<d>>

Step(from, to) == pc = from /\ pc' = to

-------------------------------------------------------------------------------
(* Opening *)

\* `recover_protected_state_file` acts only when the state file is missing.
Open ==
  /\ pc = "down"
  /\ pc' = IF ~Exists(dir.path) /\ Exists(dir.bak) THEN "recover" ELSE "read"
  /\ opening' = TRUE
  /\ UNCHANGED <<windows, dir, log, clean, inode, memory, version, acked, tried, budget>>

\* Read and decode.  Without a state file a first state is made and written; a
\* file that does not decode keeps the service from starting.
Read ==
  /\ pc = "read"
  /\ IF ~Exists(dir.path)
     THEN /\ memory' = version
          /\ version' = version + 1
          /\ tried' = tried \cup {version}
          /\ pc' = "write"
     ELSE /\ memory' = IF dir.path.v = Spoilt THEN Absent ELSE dir.path.v
          /\ pc' = IF dir.path.v = Spoilt THEN "down" ELSE "cleanup"
          /\ UNCHANGED <<version, tried>>
  /\ UNCHANGED <<windows, dir, log, clean, inode, opening, acked, budget>>

\* `cleanup_stale_state_backup`, after the state was decoded and validated.
Cleanup ==
  /\ Step("cleanup", "run")
  /\ opening' = FALSE
  /\ IF windows /\ Exists(dir.bak) THEN Journal([dir EXCEPT !.bak = NoFile])
                                   ELSE UNCHANGED <<dir, log>>
  /\ UNCHANGED <<windows, clean, inode, memory, version, acked, tried, budget>>

-------------------------------------------------------------------------------
(* Writing: `write_protected_state_file_with`, and `install_recovered_backup_bytes` *)

StartWrite ==
  /\ Step("run", "write")
  /\ version <= MaxVersion
  /\ memory' = version
  /\ version' = version + 1
  /\ tried' = tried \cup {version}
  /\ UNCHANGED <<windows, dir, log, clean, inode, opening, acked, budget>>

\* The temporary file has a name of its own; one that is left behind is never used.
CreateTemporary ==
  /\ \/ Step("write", "written")
     \/ Step("recover", "copied")
  /\ inode' = inode + 1
  /\ Journal([dir EXCEPT !.tmp = [v |-> IF pc = "write" THEN memory ELSE dir.bak.v,
                                  inode |-> inode]])
  /\ UNCHANGED <<windows, clean, opening, memory, version, acked, tried, budget>>

\* A bug: the temporary file is not synchronised.
NoSync == UNCHANGED clean

Synced == clean' = clean \cup {dir.tmp.inode}

SyncTemporary ==
  /\ Step("written", "synced") \/ Step("copied", "restored")
  /\ Synced
  /\ UNCHANGED <<windows, dir, log, inode, opening, memory, version, acked, tried, budget>>

\* Unix: one atomic rename.
Rename ==
  /\ Step("synced", "installed")
  /\ ~windows
  /\ Journal([dir EXCEPT !.path = dir.tmp, !.tmp = NoFile])
  /\ UNCHANGED <<windows, clean, inode, opening, memory, version, acked, tried, budget>>

\* Windows: MoveFileExW when there is no state file to replace.
Move ==
  /\ Step("synced", "installed")
  /\ windows /\ ~Exists(dir.path)
  /\ WriteThrough([dir EXCEPT !.path = dir.tmp, !.tmp = NoFile])
  /\ UNCHANGED <<windows, clean, inode, opening, memory, version, acked, tried, budget>>

\* Windows: a stale backup goes first, then ReplaceFileW, which renames twice and
\* may stop half way.
RemoveStaleBackup ==
  /\ Step("synced", "synced")
  /\ windows /\ Exists(dir.path) /\ Exists(dir.bak)
  /\ Journal([dir EXCEPT !.bak = NoFile])
  /\ UNCHANGED <<windows, clean, inode, opening, memory, version, acked, tried, budget>>

SetAside ==
  /\ Step("synced", "replacing")
  /\ windows /\ Exists(dir.path) /\ ~Exists(dir.bak)
  /\ Journal([dir EXCEPT !.bak = dir.path, !.path = NoFile])
  /\ UNCHANGED <<windows, clean, inode, opening, memory, version, acked, tried, budget>>

Replace ==
  /\ Step("replacing", "replaced")
  /\ WriteThrough([dir EXCEPT !.path = dir.tmp, !.tmp = NoFile])
  /\ UNCHANGED <<windows, clean, inode, opening, memory, version, acked, tried, budget>>

\* Failure to remove the backup is only reported.
RemoveBackup ==
  /\ Step("replaced", "installed")
  /\ Journal([dir EXCEPT !.bak = NoFile]) \/ UNCHANGED <<dir, log>>
  /\ UNCHANGED <<windows, clean, inode, opening, memory, version, acked, tried, budget>>

\* A bug: the backup goes before its copy is in place.
RestoreAfterRemoval ==
  \/ /\ Step("restored", "verified")
     /\ Journal([dir EXCEPT !.bak = NoFile])
  \/ /\ Step("verified", "recovered")
     /\ WriteThrough([dir EXCEPT !.path = dir.tmp, !.tmp = NoFile])

\* `install_recovery_temporary_file` does not replace; only after the copy was
\* read back does the backup go.
Restore ==
  \/ /\ Step("restored", "verified")
     /\ IF windows THEN WriteThrough([dir EXCEPT !.path = dir.tmp, !.tmp = NoFile])
                   ELSE Journal([dir EXCEPT !.path = dir.tmp, !.tmp = NoFile])
  \/ /\ Step("verified", "recovered")
     /\ Journal([dir EXCEPT !.bak = NoFile])

RestoreBackup ==
  /\ Restore
  /\ UNCHANGED <<windows, clean, inode, opening, memory, version, acked, tried, budget>>

\* `sync_state_parent`: nothing on Windows.
DirectorySync == log' = IF windows THEN log ELSE <<dir>>

\* The end of a write, and of a recovery.
SyncParent ==
  /\ \/ /\ pc = "installed"
        /\ pc' = IF opening THEN "cleanup" ELSE "run"
        /\ acked' = memory
        /\ tried' = {}
     \/ Step("recovered", "read") /\ UNCHANGED <<acked, tried>>
  /\ DirectorySync
  /\ UNCHANGED <<windows, dir, clean, inode, opening, memory, version, budget>>

-------------------------------------------------------------------------------
(* What goes wrong *)

Busy == pc \notin {"down", "run"}

\* Any operation may fail: the temporary file is removed.  A service that was
\* opening its state exits, a running one goes on with what it has in memory.
Fail ==
  /\ Busy
  /\ budget.failures > 0
  /\ budget' = [budget EXCEPT !.failures = @ - 1]
  /\ IF Exists(dir.tmp) THEN Journal([dir EXCEPT !.tmp = NoFile]) ELSE UNCHANGED <<dir, log>>
  /\ pc' = IF opening THEN "down" ELSE "run"
  /\ memory' = IF opening THEN Absent ELSE memory
  /\ UNCHANGED <<windows, clean, inode, opening, version, acked, tried>>

Stop ==
  /\ pc # "down"
  /\ budget.stops > 0
  /\ budget' = [budget EXCEPT !.stops = @ - 1]
  /\ pc' = "down"
  /\ memory' = Absent
  /\ UNCHANGED <<windows, clean, inode, opening, version, acked, tried>>

Kill ==
  /\ Stop
  /\ UNCHANGED <<dir, log>>

\* What stable storage holds of a directory.
After(d) ==
  [n \in DOMAIN d |-> IF Exists(d[n]) /\ d[n].inode \notin clean
                      THEN [d[n] EXCEPT !.v = Spoilt] ELSE d[n]]

PowerLoss ==
  /\ Stop
  /\ \E i \in DOMAIN log : WriteThrough(After(log[i]))

Work ==
  \/ Open \/ Read \/ Cleanup \/ CreateTemporary \/ SyncTemporary
  \/ Rename \/ Move \/ RemoveStaleBackup \/ SetAside \/ Replace \/ RemoveBackup
  \/ RestoreBackup \/ SyncParent

Next == Work \/ StartWrite \/ Fail \/ Kill \/ PowerLoss

Spec == Init /\ [][Next]_vars

\* The service is started again, and its own steps do not wait for anyone.
FairSpec == Spec /\ WF_vars(Work)

-------------------------------------------------------------------------------
(* Properties *)

Abstract == INSTANCE Store WITH confirmed <- acked, begun <- tried, memory <- memory

\* The file implements the store that the services assume: whatever fails, is
\* killed or loses power, a start finds the last confirmed state or one written
\* later, never an older one, a torn one, or none at all, which would make the
\* service invent a new identity.
ImplementsStore == Abstract!Spec

\* A service that stops can be started again: no step of writing, recovery or
\* cleanup leaves files behind that block the next start.
StartsAgain == pc = "down" ~> pc = "run"
================================================================================
