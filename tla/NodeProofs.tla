----------------------------- MODULE NodeProofs -----------------------------
(***************************************************************************)
(* What a machine keeps and shows.  The state file implements the store    *)
(* that the services assume: every directory that a power loss may bring   *)
(* back holds a state that the next start may find.  The desktop window    *)
(* uses nothing of one controller or network for another: what a worker    *)
(* still has to do belongs to the page that it was started on.             *)
(***************************************************************************)
EXTENDS StateFile, TLAPS

-----------------------------------------------------------------------------
(* The state file *)

Entry == [v : Int, inode : Int]
Directory == [path : Entry, bak : Entry, tmp : Entry]

Starting == {"read", "recover", "copied", "restored", "verified", "recovered"}
Writing == {"write", "written", "synced", "replacing", "replaced", "installed"}

\* What is on the disk under this name is whole, and is the last confirmed
\* state or one whose write began after it.
Sound(f, last, begun, whole) ==
  f.v \in Nat /\ f.v \in {last} \cup begun /\ f.inode \in whole

\* What a start makes of a directory: the state file, else its backup, else a
\* first state, which must not be made once a state was confirmed.
Serves(d, last, begun, whole) ==
  IF Exists(d.path) THEN Sound(d.path, last, begun, whole)
  ELSE IF Exists(d.bak) THEN Sound(d.bak, last, begun, whole) ELSE last = Absent

\* The directory, and every one that a power loss may bring back, serves a start.
DiskFits ==
  /\ dir \in Directory
  /\ log \in Seq(Directory)
  /\ Serves(dir, acked, tried, clean)
  /\ \A i \in DOMAIN log : Serves(log[i], acked, tried, clean)

TypesOK ==
  /\ inode \in Nat
  /\ version \in Nat
  /\ tried \subseteq Nat
  /\ opening \in BOOLEAN
  /\ windows \in BOOLEAN
  /\ memory \in Nat \cup {Absent}
  /\ pc \in {"down", "cleanup", "run"} \cup Starting \cup Writing

\* Where the process is and what it has in memory.
ProcessFits ==
  /\ pc \in Starting \cup {"down"} => memory = Absent
  /\ pc \in Starting \cup {"cleanup"} => opening
  /\ pc \in {"cleanup", "run"} => memory \in Nat
  /\ pc \in Writing => memory \in tried

\* The temporary file of a write holds the new state, and that of a recovery the
\* backup; past the synchronisation it is whole.
TemporaryFits ==
  /\ pc \in {"written", "synced", "replacing"} => dir.tmp.v = memory
  /\ pc \in {"copied", "restored"} => dir.tmp.v = dir.bak.v
  /\ pc \in {"synced", "replacing", "restored"} => dir.tmp.inode \in clean

\* The steps of replacement and recovery find the files that they expect.
DirectoryFits ==
  /\ pc = "recover" => ~Exists(dir.path) /\ Exists(dir.bak)
  /\ pc \in {"copied", "restored"} => ~Exists(dir.path) /\ Exists(dir.bak)
  /\ pc = "read" => Exists(dir.path) \/ ~Exists(dir.bak)
  /\ pc \in {"cleanup", "verified", "recovered", "replaced"} => Exists(dir.path)

\* The new state is installed in d.
Installed(d) == Exists(d.path) /\ d.path.v = memory

\* Before a write is confirmed, no power loss brings back an earlier state:
\* on Windows the installation was written through, elsewhere the directory is
\* synchronised with the confirmation.
InstallationFits ==
  /\ pc \in {"replaced", "installed"} => Installed(dir)
  /\ pc \in {"replaced", "installed"} /\ windows =>
       \A i \in DOMAIN log : Installed(log[i])

IInv ==
  /\ TypesOK
  /\ DiskFits
  /\ ProcessFits
  /\ TemporaryFits
  /\ DirectoryFits
  /\ InstallationFits

-------------------------------------------------------------------------------
\* A directory serves a start also when more writes have begun and more files are
\* on stable storage.
LEMMA ServesGrows ==
  ASSUME NEW d, NEW last, NEW begun, NEW whole, NEW more, NEW stable,
         Serves(d, last, begun, whole), begun \subseteq more, whole \subseteq stable
  PROVE  Serves(d, last, more, stable)
  BY DEF Serves, Sound

\* A change that is at first in memory only keeps the disk fit.
LEMMA JournalFits ==
  ASSUME DiskFits, NEW d \in Directory, Journal(d), Serves(d, acked, tried, clean),
         UNCHANGED <<acked, tried, clean>>
  PROVE  DiskFits'
<1>1. /\ dir' = d /\ log' = Append(log, d) /\ log' \in Seq(Directory)
      /\ DOMAIN log = 1 .. Len(log) /\ Len(log) \in Nat
      /\ DOMAIN log' = 1 .. Len(log) + 1
      /\ log'[Len(log) + 1] = d
      /\ \A i \in 1 .. Len(log) : log'[i] = log[i]
  BY DEF Journal, DiskFits
<1>2. \A i \in DOMAIN log' : Serves(log'[i], acked, tried, clean)
  <2> SUFFICES ASSUME NEW i \in 1 .. Len(log) + 1
               PROVE  Serves(log'[i], acked, tried, clean)
    BY <1>1
  <2>1. CASE i = Len(log) + 1
    BY <1>1, <2>1
  <2>2. CASE i \in 1 .. Len(log)
    BY <1>1, <2>2 DEF DiskFits
  <2> QED  BY <1>1, <2>1, <2>2
<1> QED  BY <1>1, <1>2 DEF DiskFits

\* A change that is written through keeps it fit.
LEMMA WriteThroughFits ==
  ASSUME NEW d \in Directory, WriteThrough(d), Serves(d, acked, tried, clean),
         UNCHANGED <<acked, tried, clean>>
  PROVE  DiskFits'
<1>1. dir' = d /\ log' = <<d>> /\ log' \in Seq(Directory)
  BY DEF WriteThrough
<1>2. \A i \in DOMAIN log' : log'[i] = d
  BY <1>1
<1> QED  BY <1>1, <1>2 DEF DiskFits

\* So does growth of the history or of stable storage.
LEMMA GrowthFits ==
  ASSUME DiskFits, UNCHANGED <<dir, log, acked>>, tried \subseteq tried', clean \subseteq clean'
  PROVE  DiskFits'
<1>1. Serves(dir, acked, tried', clean')
  BY ServesGrows DEF DiskFits
<1>2. \A i \in DOMAIN log : Serves(log[i], acked, tried', clean')
  BY ServesGrows DEF DiskFits
<1> QED  BY <1>1, <1>2 DEF DiskFits
\* What holds of the directories so far and of the new one holds of all.
LEMMA JournalKeeps ==
  ASSUME log \in Seq(Directory), NEW d \in Directory, Journal(d) \/ UNCHANGED log,
         Installed(d), \A i \in DOMAIN log : Installed(log[i])
  PROVE  \A i \in DOMAIN log' : Installed(log'[i])
<1>1. CASE UNCHANGED log
  BY <1>1
<1>2. CASE Journal(d)
  <2>1. /\ DOMAIN log = 1 .. Len(log) /\ Len(log) \in Nat
        /\ DOMAIN log' = 1 .. Len(log) + 1
        /\ log'[Len(log) + 1] = d
        /\ \A i \in 1 .. Len(log) : log'[i] = log[i]
    BY <1>2 DEF Journal
  <2> SUFFICES ASSUME NEW i \in 1 .. Len(log) + 1
               PROVE  Installed(log'[i])
    BY <2>1
  <2>2. CASE i = Len(log) + 1
    BY <2>1, <2>2
  <2>3. CASE i \in 1 .. Len(log)
    BY <2>1, <2>3
  <2> QED  BY <2>1, <2>2, <2>3
<1> QED  BY <1>1, <1>2

\* A name may be free.
LEMMA NoFileType == NoFile \in Entry
  BY DEF NoFile, Absent, Entry

\* A file that is whole exists.
LEMMA SoundExists ==
  ASSUME NEW f, NEW last, NEW begun, NEW whole, Sound(f, last, begun, whole)
  PROVE  Exists(f)
  BY DEF Sound, Exists, NoFile, Absent

\* What is done to the temporary file makes no difference to a start.
LEMMA TemporaryServes ==
  ASSUME NEW d \in Directory, NEW f \in Entry, NEW last, NEW begun, NEW whole
  PROVE  LET e == [d EXCEPT !.tmp = f] IN
         /\ e \in Directory /\ e.path = d.path /\ e.bak = d.bak /\ e.tmp = f
         /\ Serves(d, last, begun, whole) => Serves(e, last, begun, whole)
<1> DEFINE e == [d EXCEPT !.tmp = f]
<1>1. e \in Directory /\ e.path = d.path /\ e.bak = d.bak /\ e.tmp = f
  BY DEF Directory
<1> HIDE DEF e
<1>2. Serves(d, last, begun, whole) => Serves(e, last, begun, whole)
  BY <1>1 DEF Serves
<1> QED  BY <1>1, <1>2 DEF e

\* A temporary file that is whole serves in the place of the state file.
LEMMA InstallServes ==
  ASSUME NEW d \in Directory, NEW last, NEW begun, NEW whole
  PROVE  LET e == [d EXCEPT !.path = d.tmp, !.tmp = NoFile] IN
         /\ e \in Directory /\ e.path = d.tmp /\ e.bak = d.bak /\ e.tmp = NoFile
         /\ Sound(d.tmp, last, begun, whole) => Serves(e, last, begun, whole)
<1> DEFINE e == [d EXCEPT !.path = d.tmp, !.tmp = NoFile]
<1>1. e \in Directory /\ e.path = d.tmp /\ e.bak = d.bak /\ e.tmp = NoFile
  BY Zenon, NoFileType DEF Directory
<1> HIDE DEF e
<1>2. Sound(d.tmp, last, begun, whole) => Serves(e, last, begun, whole)
  BY <1>1, SoundExists DEF Serves
<1> QED  BY <1>1, <1>2 DEF e

\* Beside a state file the backup is not needed.
LEMMA DropServes ==
  ASSUME NEW d \in Directory, NEW last, NEW begun, NEW whole
  PROVE  LET e == [d EXCEPT !.bak = NoFile] IN
         /\ e \in Directory /\ e.path = d.path /\ e.bak = NoFile /\ e.tmp = d.tmp
         /\ Exists(d.path) /\ Serves(d, last, begun, whole) => Serves(e, last, begun, whole)
<1> DEFINE e == [d EXCEPT !.bak = NoFile]
<1>1. e \in Directory /\ e.path = d.path /\ e.bak = NoFile /\ e.tmp = d.tmp
  BY Zenon, NoFileType DEF Directory
<1> HIDE DEF e
<1>2. Exists(d.path) /\ Serves(d, last, begun, whole) => Serves(e, last, begun, whole)
  BY <1>1 DEF Serves
<1> QED  BY <1>1, <1>2 DEF e

\* A state file that is set aside serves as the backup.
LEMMA SetAsideServes ==
  ASSUME NEW d \in Directory, NEW last, NEW begun, NEW whole
  PROVE  LET e == [d EXCEPT !.bak = d.path, !.path = NoFile] IN
         /\ e \in Directory /\ e.path = NoFile /\ e.bak = d.path /\ e.tmp = d.tmp
         /\ Exists(d.path) /\ Serves(d, last, begun, whole) => Serves(e, last, begun, whole)
<1> DEFINE e == [d EXCEPT !.bak = d.path, !.path = NoFile]
<1>1. e \in Directory /\ e.path = NoFile /\ e.bak = d.path /\ e.tmp = d.tmp
  BY Zenon, NoFileType DEF Directory
<1> HIDE DEF e
<1>2. Exists(d.path) /\ Serves(d, last, begun, whole) => Serves(e, last, begun, whole)
  BY <1>1 DEF Serves, Exists
<1> QED  BY <1>1, <1>2 DEF e

-------------------------------------------------------------------------------

\* Opening looks for an interrupted replacement.
LEMMA OpenFits ==
  ASSUME IInv, Open
  PROVE  IInv'
<1>1. DiskFits'
  BY GrowthFits DEF Open, IInv
<1>2. TypesOK'
  BY DEF IInv, TypesOK, ProcessFits, Starting, Writing, Open
<1>3. ProcessFits'
  BY DEF IInv, TypesOK, ProcessFits, Starting, Writing, Open
<1>4. TemporaryFits'
  BY DEF IInv, TypesOK, ProcessFits, TemporaryFits, DirectoryFits, Starting, Writing, Open
<1>5. DirectoryFits'
  BY DEF IInv, TypesOK, ProcessFits, DirectoryFits, Starting, Writing, Open
<1>6. InstallationFits'
  BY DEF IInv, TypesOK, InstallationFits, Installed, Starting, Writing, Open
<1> QED  BY <1>1, <1>2, <1>3, <1>4, <1>5, <1>6 DEF IInv

\* Reading finds a state that serves, or makes the first one.
LEMMA ReadFits ==
  ASSUME IInv, Read
  PROVE  IInv'
<1>1. /\ pc = "read"
      /\ UNCHANGED <<windows, dir, log, clean, inode, opening, acked, budget>>
      /\ tried' \in {tried, tried \cup {version}} /\ version' \in {version, version + 1}
  BY DEF Read
<1>2. version \in Nat /\ tried \subseteq Nat /\ opening
  BY <1>1 DEF IInv, TypesOK, ProcessFits, Starting
<1>3. /\ UNCHANGED <<windows, dir, log, clean, inode, opening, acked, budget>>
      /\ tried \subseteq tried' /\ tried' \subseteq Nat /\ version' \in Nat /\ opening
  BY <1>1, <1>2
<1>4. DiskFits'
  BY <1>3, GrowthFits DEF IInv
<1>5. \/ pc' = "write" /\ memory' \in tried'
      \/ pc' = "down" /\ memory' = Absent
      \/ pc' = "cleanup" /\ memory' \in Nat /\ Exists(dir.path)
  <2>1. CASE ~Exists(dir.path)
    BY <2>1 DEF Read
  <2>2. CASE Exists(dir.path)
    BY <2>2 DEF Read, IInv, DiskFits, Serves, Sound
  <2> QED  BY <2>1, <2>2
<1>6. memory' \in Nat \cup {Absent} /\ pc' \in {"write", "down", "cleanup"}
  BY Zenon, <1>3, <1>5
<1>7. TypesOK'
  BY <1>3, <1>5, <1>6 DEF IInv, TypesOK, ProcessFits, Starting, Writing
<1>8. ProcessFits'
  BY <1>3, <1>5 DEF IInv, TypesOK, ProcessFits, Starting, Writing
<1>9. TemporaryFits'
  BY <1>3, <1>5 DEF IInv, TypesOK, ProcessFits, TemporaryFits, DirectoryFits, Starting,
     Writing
<1>10. DirectoryFits'
  BY <1>3, <1>5 DEF IInv, TypesOK, ProcessFits, DirectoryFits, Starting, Writing
<1>11. InstallationFits'
  BY <1>3, <1>5 DEF IInv, TypesOK, InstallationFits, Installed, Starting, Writing
<1> QED  BY <1>4, <1>7, <1>8, <1>9, <1>10, <1>11 DEF IInv

\* The rename puts the new state in place.
LEMMA RenameFits ==
  ASSUME IInv, Rename
  PROVE  IInv'
<1> DEFINE d == [dir EXCEPT !.path = dir.tmp, !.tmp = NoFile]
<1>1. /\ pc = "synced" /\ pc' = "installed" /\ Journal(d)
      /\ UNCHANGED <<windows, clean, inode, opening, memory, version, acked, tried, budget>>
  BY DEF Rename, Step
<1>2. /\ d \in Directory /\ d.path = dir.tmp /\ d.bak = dir.bak /\ d.tmp = NoFile
      /\ Serves(d, acked, tried, clean)
  <2>1. dir \in Directory /\ Serves(dir, acked, tried, clean)
    BY DEF IInv, DiskFits
  <2>2. Sound(dir.tmp, acked, tried, clean)
    BY <1>1 DEF IInv, TypesOK, ProcessFits, TemporaryFits, DirectoryFits, DiskFits,
       Serves, Sound, Writing
  <2> QED  BY Zenon, <2>1, <2>2, InstallServes
<1>3. dir' = d
  BY <1>1 DEF Journal
<1> HIDE DEF d
<1>4. DiskFits'
  BY <1>1, <1>2, JournalFits DEF IInv
<1>5. Exists(d.path) /\ d.path.v = memory
  BY <1>1, <1>2 DEF IInv, TypesOK, ProcessFits, TemporaryFits, Writing, Exists, NoFile,
     Absent
<1>6. ~windows'
  BY <1>1 DEF Rename
<1>7. TypesOK'
  BY <1>1, <1>2, <1>3 DEF IInv, TypesOK, ProcessFits, Starting, Writing
<1>8. ProcessFits'
  BY <1>1, <1>2, <1>3 DEF IInv, TypesOK, ProcessFits, Starting, Writing
<1>9. TemporaryFits'
  BY <1>1, <1>2, <1>3 DEF IInv, TypesOK, ProcessFits, TemporaryFits, DirectoryFits,
     Starting, Writing
<1>10. DirectoryFits'
  BY <1>1, <1>2, <1>3 DEF IInv, TypesOK, ProcessFits, DirectoryFits, Starting, Writing
<1>11. InstallationFits'
  BY <1>1, <1>2, <1>3, <1>5, <1>6 DEF IInv, TypesOK, InstallationFits, Installed,
     Starting, Writing
<1> QED  BY <1>4, <1>7, <1>8, <1>9, <1>10, <1>11 DEF IInv

\* So does the move.
LEMMA MoveFits ==
  ASSUME IInv, Move
  PROVE  IInv'
<1> DEFINE d == [dir EXCEPT !.path = dir.tmp, !.tmp = NoFile]
<1>1. /\ pc = "synced" /\ pc' = "installed" /\ WriteThrough(d)
      /\ UNCHANGED <<windows, clean, inode, opening, memory, version, acked, tried, budget>>
  BY DEF Move, Step
<1>2. /\ d \in Directory /\ d.path = dir.tmp /\ d.bak = dir.bak /\ d.tmp = NoFile
      /\ Serves(d, acked, tried, clean)
  <2>1. dir \in Directory /\ Serves(dir, acked, tried, clean)
    BY DEF IInv, DiskFits
  <2>2. Sound(dir.tmp, acked, tried, clean)
    BY <1>1 DEF IInv, TypesOK, ProcessFits, TemporaryFits, DirectoryFits, DiskFits,
       Serves, Sound, Writing
  <2> QED  BY Zenon, <2>1, <2>2, InstallServes
<1>3. dir' = d
  BY <1>1 DEF WriteThrough
<1> HIDE DEF d
<1>4. DiskFits'
  BY <1>1, <1>2, WriteThroughFits DEF IInv
<1>5. Exists(d.path) /\ d.path.v = memory
  BY <1>1, <1>2 DEF IInv, TypesOK, ProcessFits, TemporaryFits, Writing, Exists, NoFile,
     Absent
<1>6. \A i \in DOMAIN log' : log'[i] = d
  BY <1>1 DEF WriteThrough
<1>7. TypesOK'
  BY <1>1, <1>2, <1>3 DEF IInv, TypesOK, ProcessFits, Starting, Writing
<1>8. ProcessFits'
  BY <1>1, <1>2, <1>3 DEF IInv, TypesOK, ProcessFits, Starting, Writing
<1>9. TemporaryFits'
  BY <1>1, <1>2, <1>3 DEF IInv, TypesOK, ProcessFits, TemporaryFits, DirectoryFits,
     Starting, Writing
<1>10. DirectoryFits'
  BY <1>1, <1>2, <1>3 DEF IInv, TypesOK, ProcessFits, DirectoryFits, Starting, Writing
<1>11. InstallationFits'
  BY <1>1, <1>2, <1>3, <1>5, <1>6 DEF IInv, TypesOK, InstallationFits, Installed,
     Starting, Writing
<1> QED  BY <1>4, <1>7, <1>8, <1>9, <1>10, <1>11 DEF IInv

\* The new state takes the place of the one set aside.
LEMMA ReplaceFits ==
  ASSUME IInv, Replace
  PROVE  IInv'
<1> DEFINE d == [dir EXCEPT !.path = dir.tmp, !.tmp = NoFile]
<1>1. /\ pc = "replacing" /\ pc' = "replaced" /\ WriteThrough(d)
      /\ UNCHANGED <<windows, clean, inode, opening, memory, version, acked, tried, budget>>
  BY DEF Replace, Step
<1>2. /\ d \in Directory /\ d.path = dir.tmp /\ d.bak = dir.bak /\ d.tmp = NoFile
      /\ Serves(d, acked, tried, clean)
  <2>1. dir \in Directory /\ Serves(dir, acked, tried, clean)
    BY DEF IInv, DiskFits
  <2>2. Sound(dir.tmp, acked, tried, clean)
    BY <1>1 DEF IInv, TypesOK, ProcessFits, TemporaryFits, DirectoryFits, DiskFits,
       Serves, Sound, Writing
  <2> QED  BY Zenon, <2>1, <2>2, InstallServes
<1>3. dir' = d
  BY <1>1 DEF WriteThrough
<1> HIDE DEF d
<1>4. DiskFits'
  BY <1>1, <1>2, WriteThroughFits DEF IInv
<1>5. Exists(d.path) /\ d.path.v = memory
  BY <1>1, <1>2 DEF IInv, TypesOK, ProcessFits, TemporaryFits, Writing, Exists, NoFile,
     Absent
<1>6. \A i \in DOMAIN log' : log'[i] = d
  BY <1>1 DEF WriteThrough
<1>7. TypesOK'
  BY <1>1, <1>2, <1>3 DEF IInv, TypesOK, ProcessFits, Starting, Writing
<1>8. ProcessFits'
  BY <1>1, <1>2, <1>3 DEF IInv, TypesOK, ProcessFits, Starting, Writing
<1>9. TemporaryFits'
  BY <1>1, <1>2, <1>3 DEF IInv, TypesOK, ProcessFits, TemporaryFits, DirectoryFits,
     Starting, Writing
<1>10. DirectoryFits'
  BY <1>1, <1>2, <1>3, <1>5 DEF IInv, TypesOK, ProcessFits, DirectoryFits, Starting, Writing
<1>11. InstallationFits'
  BY <1>1, <1>2, <1>3, <1>5, <1>6 DEF IInv, TypesOK, InstallationFits, Installed,
     Starting, Writing
<1> QED  BY <1>4, <1>7, <1>8, <1>9, <1>10, <1>11 DEF IInv

\* A stale backup goes only beside a state file.
LEMMA RemoveStaleBackupFits ==
  ASSUME IInv, RemoveStaleBackup
  PROVE  IInv'
<1> DEFINE d == [dir EXCEPT !.bak = NoFile]
<1>1. /\ pc = "synced" /\ pc' = "synced" /\ Journal(d)
      /\ UNCHANGED <<windows, clean, inode, opening, memory, version, acked, tried, budget>>
  BY DEF RemoveStaleBackup, Step
<1>2. /\ d \in Directory /\ d.path = dir.path /\ d.bak = NoFile /\ d.tmp = dir.tmp
      /\ Serves(d, acked, tried, clean)
  <2>1. dir \in Directory /\ Serves(dir, acked, tried, clean)
    BY DEF IInv, DiskFits
  <2>2. Exists(dir.path)
    BY DEF RemoveStaleBackup
  <2> QED  BY Zenon, <2>1, <2>2, DropServes
<1>3. dir' = d
  BY <1>1 DEF Journal
<1> HIDE DEF d
<1>4. DiskFits'
  BY <1>1, <1>2, JournalFits DEF IInv
<1>5. TypesOK'
  BY <1>1, <1>2, <1>3 DEF IInv, TypesOK, ProcessFits, Starting, Writing
<1>6. ProcessFits'
  BY <1>1, <1>2, <1>3 DEF IInv, TypesOK, ProcessFits, Starting, Writing
<1>7. TemporaryFits'
  BY <1>1, <1>2, <1>3 DEF IInv, TypesOK, ProcessFits, TemporaryFits, DirectoryFits,
     Starting, Writing
<1>8. DirectoryFits'
  BY <1>1, <1>2, <1>3 DEF IInv, TypesOK, ProcessFits, DirectoryFits, Starting, Writing
<1>9. InstallationFits'
  BY <1>1, <1>2, <1>3 DEF IInv, TypesOK, InstallationFits, Installed, Starting, Writing
<1> QED  BY <1>4, <1>5, <1>6, <1>7, <1>8, <1>9 DEF IInv

\* The state file becomes the backup.
LEMMA SetAsideFits ==
  ASSUME IInv, SetAside
  PROVE  IInv'
<1> DEFINE d == [dir EXCEPT !.bak = dir.path, !.path = NoFile]
<1>1. /\ pc = "synced" /\ pc' = "replacing" /\ Journal(d)
      /\ UNCHANGED <<windows, clean, inode, opening, memory, version, acked, tried, budget>>
  BY DEF SetAside, Step
<1>2. /\ d \in Directory /\ d.path = NoFile /\ d.bak = dir.path /\ d.tmp = dir.tmp
      /\ Serves(d, acked, tried, clean)
  <2>1. dir \in Directory /\ Serves(dir, acked, tried, clean)
    BY DEF IInv, DiskFits
  <2>2. Exists(dir.path)
    BY DEF SetAside
  <2> QED  BY Zenon, <2>1, <2>2, SetAsideServes
<1>3. dir' = d
  BY <1>1 DEF Journal
<1> HIDE DEF d
<1>4. DiskFits'
  BY <1>1, <1>2, JournalFits DEF IInv
<1>5. TypesOK'
  BY <1>1, <1>2, <1>3 DEF IInv, TypesOK, ProcessFits, Starting, Writing
<1>6. ProcessFits'
  BY <1>1, <1>2, <1>3 DEF IInv, TypesOK, ProcessFits, Starting, Writing
<1>7. TemporaryFits'
  BY <1>1, <1>2, <1>3 DEF IInv, TypesOK, ProcessFits, TemporaryFits, DirectoryFits,
     Starting, Writing
<1>8. DirectoryFits'
  BY <1>1, <1>2, <1>3 DEF IInv, TypesOK, ProcessFits, DirectoryFits, Starting, Writing
<1>9. InstallationFits'
  BY <1>1, <1>2, <1>3 DEF IInv, TypesOK, InstallationFits, Installed, Starting, Writing
<1> QED  BY <1>4, <1>5, <1>6, <1>7, <1>8, <1>9 DEF IInv

\* A write begins.
LEMMA StartWriteFits ==
  ASSUME IInv, StartWrite
  PROVE  IInv'
<1>1. /\ pc = "run" /\ pc' = "write" /\ memory' = version /\ version' = version + 1
      /\ tried' = tried \cup {version}
      /\ UNCHANGED <<windows, dir, log, clean, inode, opening, acked, budget>>
  BY DEF StartWrite, Step
<1>2. DiskFits'
  BY <1>1, GrowthFits DEF IInv
<1>3. TypesOK'
  BY <1>1 DEF IInv, TypesOK, ProcessFits, Starting, Writing
<1>4. ProcessFits'
  BY <1>1 DEF IInv, TypesOK, ProcessFits, Starting, Writing
<1>5. TemporaryFits'
  BY <1>1 DEF IInv, TypesOK, ProcessFits, TemporaryFits, DirectoryFits, Starting, Writing
<1>6. DirectoryFits'
  BY <1>1 DEF IInv, TypesOK, ProcessFits, DirectoryFits, Starting, Writing
<1>7. InstallationFits'
  BY <1>1 DEF IInv, TypesOK, InstallationFits, Installed, Starting, Writing
<1> QED  BY <1>2, <1>3, <1>4, <1>5, <1>6, <1>7 DEF IInv

\* The temporary file is on stable storage.
LEMMA SyncTemporaryFits ==
  ASSUME IInv, SyncTemporary
  PROVE  IInv'
<1>1. /\ \/ pc = "written" /\ pc' = "synced"
         \/ pc = "copied" /\ pc' = "restored"
      /\ clean' = clean \cup {dir.tmp.inode}
      /\ UNCHANGED <<windows, dir, log, inode, opening, memory, version, acked, tried, budget>>
  BY DEF SyncTemporary, Step, Synced
<1>2. DiskFits'
  BY <1>1, GrowthFits DEF IInv
<1>3. TypesOK'
  BY <1>1 DEF IInv, TypesOK, ProcessFits, Starting, Writing
<1>4. ProcessFits'
  BY <1>1 DEF IInv, TypesOK, ProcessFits, Starting, Writing
<1>5. TemporaryFits'
  BY <1>1 DEF IInv, TypesOK, ProcessFits, TemporaryFits, DirectoryFits, Starting, Writing
<1>6. DirectoryFits'
  BY <1>1 DEF IInv, TypesOK, ProcessFits, DirectoryFits, Starting, Writing
<1>7. InstallationFits'
  BY <1>1 DEF IInv, TypesOK, InstallationFits, Installed, Starting, Writing
<1> QED  BY <1>2, <1>3, <1>4, <1>5, <1>6, <1>7 DEF IInv

\* A temporary file takes nobody's place.
LEMMA CreateTemporaryFits ==
  ASSUME IInv, CreateTemporary
  PROVE  IInv'
<1> DEFINE f == [v |-> IF pc = "write" THEN memory ELSE dir.bak.v, inode |-> inode]
           d == [dir EXCEPT !.tmp = f]
<1>1. /\ \/ pc = "write" /\ pc' = "written"
         \/ pc = "recover" /\ pc' = "copied"
      /\ Journal(d) /\ inode' = inode + 1
      /\ UNCHANGED <<windows, clean, opening, memory, version, acked, tried, budget>>
  BY DEF CreateTemporary, Step
<1>2. /\ d \in Directory /\ d.path = dir.path /\ d.bak = dir.bak /\ d.tmp = f
      /\ Serves(d, acked, tried, clean)
  <2>1. dir \in Directory /\ Serves(dir, acked, tried, clean)
    BY DEF IInv, DiskFits
  <2>2. dir.bak.v \in Int /\ memory \in Int /\ inode \in Int
    BY <2>1 DEF IInv, TypesOK, Directory, Entry, Absent
  <2>3. f \in Entry
    BY <2>2 DEF Entry
  <2> QED  BY <2>1, <2>3, TemporaryServes
<1>3. dir' = d
  BY <1>1 DEF Journal
<1>4. f.v = IF pc = "write" THEN memory ELSE dir.bak.v
  OBVIOUS
<1> HIDE DEF d, f
<1>5. DiskFits'
  BY <1>1, <1>2, JournalFits DEF IInv
<1>6. TypesOK'
  BY <1>1, <1>2, <1>3 DEF IInv, TypesOK, ProcessFits, Starting, Writing
<1>7. ProcessFits'
  BY <1>1, <1>2, <1>3 DEF IInv, TypesOK, ProcessFits, Starting, Writing
<1>8. TemporaryFits'
  BY <1>1, <1>2, <1>3, <1>4 DEF IInv, TypesOK, ProcessFits, TemporaryFits, DirectoryFits,
     Starting, Writing
<1>9. DirectoryFits'
  BY <1>1, <1>2, <1>3 DEF IInv, TypesOK, ProcessFits, DirectoryFits, Starting, Writing
<1>10. InstallationFits'
  BY <1>1, <1>2, <1>3 DEF IInv, TypesOK, InstallationFits, Installed, Starting, Writing
<1> QED  BY <1>5, <1>6, <1>7, <1>8, <1>9, <1>10 DEF IInv

\* The backup goes only beside a state file.
LEMMA CleanupFits ==
  ASSUME IInv, Cleanup
  PROVE  IInv'
<1>1. /\ pc = "cleanup" /\ pc' = "run" /\ ~opening'
      /\ Journal([dir EXCEPT !.bak = NoFile]) \/ UNCHANGED <<dir, log>>
      /\ UNCHANGED <<windows, clean, inode, memory, version, acked, tried, budget>>
  BY DEF Cleanup, Step
<1>2. opening' = FALSE
  BY DEF Cleanup
<1>3. /\ [dir EXCEPT !.bak = NoFile] \in Directory
      /\ Serves([dir EXCEPT !.bak = NoFile], acked, tried, clean)
  <2>1. dir \in Directory /\ Serves(dir, acked, tried, clean) /\ Exists(dir.path)
    BY <1>1 DEF IInv, DiskFits, DirectoryFits
  <2> QED  BY <2>1, DropServes
<1>4. DiskFits'
  BY <1>1, <1>3, JournalFits, GrowthFits DEF IInv
<1>5. TypesOK'
  BY Zenon, <1>1, <1>2 DEF IInv, TypesOK, ProcessFits, Starting, Writing
<1>6. ProcessFits'
  BY <1>1, <1>2 DEF IInv, TypesOK, ProcessFits, Starting, Writing
<1>7. TemporaryFits'
  BY <1>1, <1>2 DEF IInv, TypesOK, ProcessFits, TemporaryFits, DirectoryFits, Starting,
     Writing
<1>8. DirectoryFits'
  BY <1>1, <1>2 DEF IInv, TypesOK, ProcessFits, DirectoryFits, Starting, Writing
<1>9. InstallationFits'
  BY <1>1, <1>2 DEF IInv, TypesOK, InstallationFits, Installed, Starting, Writing
<1> QED  BY <1>4, <1>5, <1>6, <1>7, <1>8, <1>9 DEF IInv

\* The backup goes, or stays, beside the new state.
LEMMA RemoveBackupFits ==
  ASSUME IInv, RemoveBackup
  PROVE  IInv'
<1> DEFINE d == [dir EXCEPT !.bak = NoFile]
<1>1. /\ pc = "replaced" /\ pc' = "installed"
      /\ Journal(d) \/ UNCHANGED <<dir, log>>
      /\ UNCHANGED <<windows, clean, inode, opening, memory, version, acked, tried, budget>>
  BY DEF RemoveBackup, Step
<1>2. /\ d \in Directory /\ d.path = dir.path
      /\ Serves(d, acked, tried, clean)
  <2>1. dir \in Directory /\ Serves(dir, acked, tried, clean) /\ Exists(dir.path)
    BY <1>1 DEF IInv, DiskFits, DirectoryFits
  <2> QED  BY <2>1, DropServes
<1> HIDE DEF d
<1>3. DiskFits'
  BY <1>1, <1>2, JournalFits, GrowthFits DEF IInv
<1>4. dir'.path = dir.path
  BY <1>1, <1>2 DEF Journal
<1>5. windows => \A i \in DOMAIN log' : Installed(log'[i])
  <2>1. Installed(d) /\ (windows => \A i \in DOMAIN log : Installed(log[i]))
    BY <1>1, <1>2 DEF IInv, InstallationFits, Installed
  <2>2. log \in Seq(Directory) /\ (Journal(d) \/ UNCHANGED log)
    BY <1>1 DEF IInv, DiskFits
  <2> QED  BY Zenon, <1>2, <2>1, <2>2, JournalKeeps
<1>6. Installed(dir)' /\ (windows' => \A i \in DOMAIN log' : Installed(log[i])')
  BY <1>1, <1>4, <1>5 DEF IInv, InstallationFits, Installed
<1>7. TypesOK'
  BY <1>1, <1>4 DEF IInv, TypesOK, ProcessFits, Starting, Writing
<1>8. ProcessFits'
  BY <1>1, <1>4 DEF IInv, TypesOK, ProcessFits, Starting, Writing
<1>9. TemporaryFits'
  BY <1>1, <1>4 DEF IInv, TypesOK, ProcessFits, TemporaryFits, DirectoryFits, Starting,
     Writing
<1>10. DirectoryFits'
  BY <1>1, <1>4 DEF IInv, TypesOK, ProcessFits, DirectoryFits, Starting, Writing
<1>11. InstallationFits'
  BY <1>1, <1>4, <1>6 DEF IInv, TypesOK, InstallationFits, Installed, Starting, Writing
<1> QED  BY <1>3, <1>7, <1>8, <1>9, <1>10, <1>11 DEF IInv

\* A recovery puts the copy in place, and then the backup goes.
LEMMA RestoreBackupFits ==
  ASSUME IInv, RestoreBackup
  PROVE  IInv'
<1>1. UNCHANGED <<windows, clean, inode, opening, memory, version, acked, tried, budget>>
  BY DEF RestoreBackup
<1>2. dir \in Directory /\ Serves(dir, acked, tried, clean)
  BY DEF IInv, DiskFits
<1>3. CASE /\ pc = "restored" /\ pc' = "verified"
           /\ \/ WriteThrough([dir EXCEPT !.path = dir.tmp, !.tmp = NoFile])
              \/ Journal([dir EXCEPT !.path = dir.tmp, !.tmp = NoFile])
  <2> DEFINE d == [dir EXCEPT !.path = dir.tmp, !.tmp = NoFile]
  <2>1. Sound(dir.tmp, acked, tried, clean)
    BY <1>2, <1>3 DEF IInv, TemporaryFits, DirectoryFits, Serves, Sound
  <2>2. d \in Directory /\ d.path = dir.tmp /\ Serves(d, acked, tried, clean)
    BY Zenon, <1>2, <2>1, InstallServes
  <2>3. dir' = d
    BY <1>3 DEF Journal, WriteThrough
  <2>4. WriteThrough(d) \/ Journal(d)
    BY <1>3
  <2> HIDE DEF d
  <2>5. DiskFits'
    BY <1>1, <2>2, <2>4, JournalFits, WriteThroughFits DEF IInv
  <2>6. Exists(dir'.path)
    BY <2>1, <2>2, <2>3, SoundExists
  <2> QED
    BY <1>1, <1>3, <2>5, <2>6 DEF IInv, TypesOK, ProcessFits, TemporaryFits,
       DirectoryFits, InstallationFits, Starting, Writing
<1>4. CASE pc = "verified" /\ pc' = "recovered" /\ Journal([dir EXCEPT !.bak = NoFile])
  <2> DEFINE d == [dir EXCEPT !.bak = NoFile]
  <2>1. Exists(dir.path)
    BY <1>4 DEF IInv, DirectoryFits
  <2>2. d \in Directory /\ d.path = dir.path /\ Serves(d, acked, tried, clean)
    BY Zenon, <1>2, <2>1, DropServes
  <2>3. dir' = d
    BY <1>4 DEF Journal
  <2>4. Journal(d)
    BY <1>4
  <2> HIDE DEF d
  <2>5. DiskFits'
    BY <1>1, <2>2, <2>4, JournalFits DEF IInv
  <2>6. Exists(dir'.path)
    BY <2>1, <2>2, <2>3
  <2> QED
    BY <1>1, <1>4, <2>5, <2>6 DEF IInv, TypesOK, ProcessFits, TemporaryFits,
       DirectoryFits, InstallationFits, Starting, Writing
<1> QED  BY <1>3, <1>4 DEF RestoreBackup, Restore, Step

\* The confirmation of a write leaves nothing older to come back.
LEMMA SyncParentFits ==
  ASSUME IInv, SyncParent
  PROVE  IInv'
<1>1. /\ UNCHANGED <<windows, dir, clean, inode, opening, memory, version, budget>>
      /\ log' = IF windows THEN log ELSE <<dir>>
  BY DEF SyncParent, DirectorySync
<1>2. log' \in Seq(Directory) /\ dir \in Directory
  BY <1>1 DEF IInv, DiskFits
<1>3. CASE pc = "recovered" /\ pc' = "read" /\ UNCHANGED <<acked, tried>>
  <2>1. DiskFits'
    BY <1>1, <1>2, <1>3 DEF IInv, DiskFits
  <2> QED
    BY <1>1, <1>3, <2>1 DEF IInv, TypesOK, ProcessFits, TemporaryFits, DirectoryFits,
       InstallationFits, Starting, Writing
<1>4. CASE /\ pc = "installed" /\ pc' = (IF opening THEN "cleanup" ELSE "run")
           /\ acked' = memory /\ tried' = {}
  <2>1. memory \in Nat
    BY <1>4 DEF IInv, TypesOK, ProcessFits, Writing
  <2>2. ASSUME NEW d, Installed(d), Serves(d, acked, tried, clean)
        PROVE  Serves(d, memory, {}, clean)
    BY <2>1, <2>2 DEF Installed, Serves, Sound
  <2>3. Installed(dir) /\ Serves(dir, memory, {}, clean)
    BY <1>4, <2>2 DEF IInv, InstallationFits, DiskFits
  <2>4. \A i \in DOMAIN log' : Serves(log'[i], memory, {}, clean)
    <3>1. CASE windows
      BY <1>1, <1>4, <2>2, <3>1 DEF IInv, InstallationFits, DiskFits
    <3>2. CASE ~windows
      BY <1>1, <2>3, <3>2
    <3> QED  BY <3>1, <3>2
  <2>5. DiskFits'
    BY <1>1, <1>2, <1>4, <2>3, <2>4 DEF DiskFits
  <2> QED
    BY <1>1, <1>4, <2>1, <2>3, <2>5 DEF IInv, TypesOK, ProcessFits, TemporaryFits,
       DirectoryFits, InstallationFits, Installed, Starting, Writing
<1> QED  BY <1>3, <1>4 DEF SyncParent, Step

\* A failed operation leaves what serves in place.
LEMMA FailFits ==
  ASSUME IInv, Fail
  PROVE  IInv'
<1> DEFINE d == [dir EXCEPT !.tmp = NoFile]
<1>1. /\ pc \notin {"down", "run"}
      /\ pc' = IF opening THEN "down" ELSE "run"
      /\ memory' = IF opening THEN Absent ELSE memory
      /\ Journal(d) \/ UNCHANGED <<dir, log>>
      /\ UNCHANGED <<windows, clean, inode, opening, version, acked, tried>>
  BY DEF Fail, Busy
<1>2. d \in Directory /\ Serves(d, acked, tried, clean)
  BY TemporaryServes, NoFileType DEF IInv, DiskFits
<1> HIDE DEF d
<1>3. DiskFits'
  BY <1>1, <1>2, JournalFits, GrowthFits DEF IInv
<1>4. ~opening => memory \in Nat
  BY <1>1 DEF IInv, TypesOK, ProcessFits, Starting, Writing
<1>5. TypesOK'
  BY <1>1, <1>4 DEF IInv, TypesOK, ProcessFits, Starting, Writing
<1>6. ProcessFits'
  BY <1>1, <1>4 DEF IInv, TypesOK, ProcessFits, Starting, Writing
<1>7. TemporaryFits'
  BY <1>1, <1>4 DEF IInv, TypesOK, ProcessFits, TemporaryFits, DirectoryFits, Starting,
     Writing
<1>8. DirectoryFits'
  BY <1>1, <1>4 DEF IInv, TypesOK, ProcessFits, DirectoryFits, Starting, Writing
<1>9. InstallationFits'
  BY <1>1, <1>4 DEF IInv, TypesOK, InstallationFits, Installed, Starting, Writing
<1> QED  BY <1>3, <1>5, <1>6, <1>7, <1>8, <1>9 DEF IInv

\* A stopped process leaves what is on the disk.
LEMMA StopFits ==
  ASSUME IInv, Stop, DiskFits'
  PROVE  IInv'
<1>1. pc' = "down" /\ memory' = Absent /\ UNCHANGED <<windows, clean, inode, opening, version, acked, tried>>
  BY DEF Stop
<1>2. DiskFits'
  OBVIOUS
<1>3. TypesOK'
  BY <1>1 DEF IInv, TypesOK, ProcessFits, Starting, Writing
<1>4. ProcessFits'
  BY <1>1 DEF IInv, TypesOK, ProcessFits, Starting, Writing
<1>5. TemporaryFits'
  BY <1>1 DEF IInv, TypesOK, ProcessFits, TemporaryFits, DirectoryFits, Starting, Writing
<1>6. DirectoryFits'
  BY <1>1 DEF IInv, TypesOK, ProcessFits, DirectoryFits, Starting, Writing
<1>7. InstallationFits'
  BY <1>1 DEF IInv, TypesOK, InstallationFits, Installed, Starting, Writing
<1> QED  BY <1>2, <1>3, <1>4, <1>5, <1>6, <1>7 DEF IInv

\* A kill changes nothing on the disk.
LEMMA KillFits ==
  ASSUME IInv, Kill
  PROVE  IInv'
<1>1. DiskFits'
  BY GrowthFits DEF IInv, Kill, Stop
<1> QED  BY <1>1, StopFits DEF Kill

\* Power loss spoils nothing that a start needs.
LEMMA PowerLossFits ==
  ASSUME IInv, PowerLoss
  PROVE  IInv'
<1>1. PICK i \in DOMAIN log : WriteThrough(After(log[i]))
  BY DEF PowerLoss
<1> DEFINE d == log[i]
           e == After(d)
<1>2. d \in Directory /\ Serves(d, acked, tried, clean)
  BY DEF IInv, DiskFits
<1>3. DOMAIN d = {"path", "bak", "tmp"} /\ d.path \in Entry /\ d.bak \in Entry /\ d.tmp \in Entry
  BY <1>2 DEF Directory
<1>4. WriteThrough(e)
  BY <1>1
<1> HIDE DEF d
<1>5. \A n \in {"path", "bak", "tmp"} : e[n] = IF Exists(d[n]) /\ d[n].inode \notin clean
                      THEN [d[n] EXCEPT !.v = Spoilt] ELSE d[n]
  BY <1>3 DEF After
<1>6. \A n \in {"path", "bak", "tmp"} :
        /\ e[n] \in Entry /\ (Exists(d[n]) /\ d[n].inode \in clean => e[n] = d[n])
        /\ (~Exists(d[n]) => e[n] = d[n])
  BY <1>3, <1>5 DEF Entry, Spoilt
<1>7. e \in Directory
  <2>1. e = [n \in {"path", "bak", "tmp"} |-> e[n]]
    BY <1>3 DEF After
  <2>2. e = [path |-> e.path, bak |-> e.bak, tmp |-> e.tmp]
    BY <2>1
  <2>3. e.path \in Entry /\ e.bak \in Entry /\ e.tmp \in Entry
    BY <1>6
  <2> HIDE DEF e
  <2> QED  BY <2>2, <2>3 DEF Directory
<1> HIDE DEF e
<1>8. Serves(e, acked, tried, clean)
  <2>1. (~Exists(d.path) => e.path = d.path) /\ (~Exists(d.bak) => e.bak = d.bak)
    BY <1>6
  <2>2. /\ Exists(d.path) /\ d.path.inode \in clean => e.path = d.path
        /\ Exists(d.bak) /\ d.bak.inode \in clean => e.bak = d.bak
    BY <1>6
  <2> QED  BY <1>2, <2>1, <2>2 DEF Serves, Sound
<1>9. UNCHANGED <<acked, tried, clean>>
  BY DEF PowerLoss, Stop
<1>10. DiskFits'
  BY <1>4, <1>7, <1>8, <1>9, WriteThroughFits
<1> QED  BY <1>10, StopFits DEF PowerLoss

-------------------------------------------------------------------------------
\* The empty directory of a new installation serves its first start.
LEMMA InitFits == Init => IInv
<1> SUFFICES ASSUME Init PROVE IInv
  OBVIOUS
<1>1. dir \in Directory /\ ~Exists(dir.path) /\ ~Exists(dir.bak) /\ acked = Absent
  BY NoFileType DEF Init, Directory, Exists
<1>2. log = <<dir>> /\ log \in Seq(Directory)
  BY <1>1 DEF Init
<1>3. DiskFits
  BY <1>1, <1>2 DEF DiskFits, Serves
<1> QED  BY <1>3 DEF Init, IInv, TypesOK, ProcessFits, TemporaryFits, DirectoryFits,
           InstallationFits, Starting, Writing

\* The invariant holds in every reachable state.
LEMMA FileInvariant == Spec => []IInv
<1>1. IInv /\ [Next]_vars => IInv'
  <2>1. ASSUME IInv, Work PROVE IInv'
    BY Zenon, <2>1, OpenFits, ReadFits, CleanupFits, CreateTemporaryFits, SyncTemporaryFits,
       RenameFits, MoveFits, RemoveStaleBackupFits, SetAsideFits, ReplaceFits,
       RemoveBackupFits, RestoreBackupFits, SyncParentFits DEF Work
  <2>2. ASSUME IInv, UNCHANGED vars PROVE IInv'
    BY <2>2 DEF vars, IInv, TypesOK, DiskFits, ProcessFits, TemporaryFits, DirectoryFits,
       InstallationFits, Installed
  <2> QED
    BY Zenon, <2>1, <2>2, StartWriteFits, FailFits, KillFits, PowerLossFits DEF Next
<1> QED  BY <1>1, InitFits, PTL DEF Spec

\* A start never finds a state file that was torn by a power loss, and never
\* a directory that lost a confirmed state.
NothingLost == dir.path.v # Spoilt /\ (acked # Absent => Exists(dir.path) \/ Exists(dir.bak))

\* Whatever fails, is killed or loses power, no state file is torn and no
\* confirmed state is without a file to recover it from.
THEOREM StateSurvives == Spec => []NothingLost
<1>1. IInv => NothingLost
  BY DEF IInv, DiskFits, Serves, Sound, NothingLost, Exists, NoFile, Absent, Spoilt
<1> QED  BY <1>1, FileInvariant, PTL

\* Every step of the file is a step of the store, or changes nothing of it.
LEMMA StepRefines ==
  ASSUME IInv, Next
  PROVE  Abstract!Next \/ UNCHANGED Abstract!vars
<1> USE DEF Abstract!Next, Abstract!vars
<1>1. CASE Read
  <2>1. pc = "read" /\ memory = Absent /\ UNCHANGED acked /\ version \in Nat
    BY <1>1 DEF Read, IInv, TypesOK, ProcessFits, Starting
  <2>2. CASE ~Exists(dir.path)
    <3>1. acked = Absent
      BY <2>1, <2>2 DEF IInv, DiskFits, DirectoryFits, Serves
    <3>2. memory' = version /\ tried' = tried \cup {version}
      BY <1>1, <2>2 DEF Read
    <3>3. Abstract!Begin
      BY <2>1, <3>1, <3>2 DEF Abstract!Begin
    <3> QED  BY <3>3
  <2>3. CASE Exists(dir.path)
    <3>1. dir.path.v \in {acked} \cup tried /\ dir.path.v # Spoilt
      BY <2>3 DEF IInv, DiskFits, Serves, Sound, Spoilt
    <3>2. memory' = dir.path.v /\ UNCHANGED <<acked, tried>>
      BY <1>1, <2>3, <3>1 DEF Read
    <3>3. Abstract!Start
      BY <3>1, <3>2 DEF Abstract!Start
    <3> QED  BY <3>3
  <2> QED  BY <2>2, <2>3
<1>2. CASE StartWrite
  <2>1. /\ memory' = version /\ tried' = tried \cup {version} /\ UNCHANGED acked
        /\ pc = "run"
    BY <1>2 DEF StartWrite, Step
  <2>2. version \in Nat /\ memory # Absent
    BY <2>1 DEF IInv, TypesOK, ProcessFits, Absent
  <2>3. Abstract!Begin
    BY <2>1, <2>2 DEF Abstract!Begin
  <2> QED  BY <2>3
<1>3. CASE SyncParent
  <2>1. CASE pc = "installed"
    <3>1. acked' = memory /\ tried' = {} /\ UNCHANGED memory
      BY <1>3, <2>1 DEF SyncParent, Step
    <3>2. memory \in tried
      BY <2>1 DEF IInv, ProcessFits, Writing
    <3>3. Abstract!Confirm
      BY <3>1, <3>2 DEF Abstract!Confirm
    <3> QED  BY <3>3
  <2>2. CASE pc # "installed"
    BY <1>3, <2>2 DEF SyncParent, Step
  <2> QED  BY <2>1, <2>2
<1>4. CASE Fail \/ Kill \/ PowerLoss
  <2>1. memory' \in {Absent, memory} /\ UNCHANGED <<acked, tried>>
    BY <1>4 DEF Fail, Kill, PowerLoss, Stop
  <2> QED  BY <2>1 DEF Abstract!Stop
<1>5. CASE \/ Open \/ Cleanup \/ CreateTemporary \/ SyncTemporary \/ Rename \/ Move
           \/ RemoveStaleBackup \/ SetAside \/ Replace \/ RemoveBackup \/ RestoreBackup
  <2>1. UNCHANGED <<acked, tried, memory>>
    BY Zenon, <1>5 DEF Open, Cleanup, CreateTemporary, SyncTemporary, Rename, Move,
       RemoveStaleBackup, SetAside, Replace, RemoveBackup, RestoreBackup
  <2> QED  BY <2>1
<1> QED  BY Zenon, <1>1, <1>2, <1>3, <1>4, <1>5 DEF Next, Work

\* The state file implements the store: after any sequence of writes, failures,
\* kills and power losses a start finds the last confirmed state or one whose
\* write began later, and makes a first state only if none was confirmed.
THEOREM FileImplementsStore == Spec => ImplementsStore
<1>1. Init => Abstract!Init
  BY DEF Init, Abstract!Init
<1>2. IInv /\ [Next]_vars => [Abstract!Next]_(Abstract!vars)
  <2>1. ASSUME UNCHANGED vars PROVE UNCHANGED Abstract!vars
    BY <2>1 DEF vars, Abstract!vars
  <2> QED  BY <2>1, StepRefines
<1> QED  BY <1>1, <1>2, FileInvariant, PTL DEF Spec, ImplementsStore, Abstract!Spec

-----------------------------------------------------------------------------
(* The desktop window *)

CONSTANTS Controllers, Local, Nets, MaxActions, MaxDeaths, None
VARIABLES app, job, pending, closing, exited, sent, left

Window == INSTANCE Desktop

Parts == {"networks", "members", "issued", "document", "key"}

\* The fields of the window, or a worker's copy of them.
Shape(a) ==
  /\ DOMAIN a = {"controller", "admin", "bound", "home", "shown", "selected", "editor", "told"}
  /\ DOMAIN a.shown = Parts
  /\ DOMAIN a.editor = {"target", "loaded", "stale", "at"}
  /\ a.selected \in {None} \cup Nets

\* A draft that may be saved knows every exit change that was reported.
DraftFits(a) ==
  Window!request(a.editor) => a.editor.at = a.told[a.editor.target.from][a.editor.target.net]

\* What is shown belongs to the controller and the network.
ShownFits(a) ==
  \A part \in Parts :
    a.shown[part] # None =>
      /\ a.shown[part].from = a.controller
      /\ a.shown[part].net # None =>
           a.shown[part].net = a.selected /\ part \in {"members", "issued"}

FieldsFit(a) ==
  Shape(a) /\ DraftFits(a) /\ ShownFits(a) /\ a.admin \in {None, a.controller}

\* The same page: of the same controller and network.
SamePage(a, b) == a.controller = b.controller /\ a.selected = b.selected

\* A worker's request depends neither on the selected network nor on a question,
\* or it belongs to the network that is selected and to the question asked.
RequestFits(r, a, ask, free) ==
  IF free
  THEN ask = None /\ r.op \notin {"issue", "members", "delete", "remove"}
  ELSE /\ r.op # "switch"
       /\ r.op \in {"issue", "members"} => r.net = a.selected
       /\ r.op \in {"delete", "remove"} => ask # None
       /\ r.to = "controller" /\ ask # None =>
            ask.at = a.controller /\ (r.net # None => r.net = ask.net)

TodoFits(todo, a, ask, free) ==
  \E S : todo \in Seq(S) /\ \A r \in S : RequestFits(r, a, ask, free)

JobFits(j) ==
  /\ DOMAIN j = {"app", "todo", "ask", "child", "cancel", "dead"}
  /\ FieldsFit(j.app)
  /\ \E free \in BOOLEAN : TodoFits(j.todo, j.app, j.ask, free)

\* While a question is open no worker runs, and the page is still the one that
\* it was asked on.
QuestionFits ==
  pending # None =>
    /\ job = None
    /\ \E p \in Window!PendingActions :
         /\ pending = [op |-> p.op, net |-> p.net, at |-> app.controller]
         /\ p.op \in {"remove", "revoke"} => p.net = app.selected

WindowInv ==
  /\ FieldsFit(app)
  /\ job # None => JobFits(job)
  /\ QuestionFits
  /\ Window!TokenGoesHome

-----------------------------------------------------------------------------
\* A change of the editor alone.
LEMMA EditorFits ==
  ASSUME NEW a, FieldsFit(a), NEW e, DOMAIN e = {"target", "loaded", "stale", "at"},
         Window!request(e) => e.at = a.told[e.target.from][e.target.net]
  PROVE  LET b == [a EXCEPT !.editor = e] IN FieldsFit(b) /\ SamePage(a, b)
<1> DEFINE b == [a EXCEPT !.editor = e]
<1>1. /\ DOMAIN b = DOMAIN a /\ b.editor = e /\ b.told = a.told /\ b.shown = a.shown
      /\ b.controller = a.controller /\ b.selected = a.selected /\ b.admin = a.admin
  BY DEF FieldsFit, Shape
<1> HIDE DEF b
<1>2. ShownFits(b)
  BY Zenon, <1>1 DEF FieldsFit, ShownFits
<1>3. Shape(b) /\ b.admin \in {None, b.controller}
  BY Zenon, <1>1 DEF FieldsFit, Shape
<1>4. DraftFits(b)
  BY Zenon, <1>1 DEF DraftFits
<1> QED  BY <1>1, <1>2, <1>4, <1>3 DEF FieldsFit, SamePage, b

\* A change of one thing shown.
LEMMA ShowFits ==
  ASSUME NEW a, FieldsFit(a), NEW part \in Parts, NEW x,
         x # None => /\ x.from = a.controller
                     /\ x.net # None => x.net = a.selected /\ part \in {"members", "issued"}
  PROVE  LET b == [a EXCEPT !.shown[part] = x] IN FieldsFit(b) /\ SamePage(a, b)
<1> DEFINE b == [a EXCEPT !.shown[part] = x]
<1>1. /\ DOMAIN b = DOMAIN a /\ b.editor = a.editor /\ b.told = a.told
      /\ b.shown = [a.shown EXCEPT ![part] = x]
      /\ b.controller = a.controller /\ b.selected = a.selected /\ b.admin = a.admin
  BY DEF FieldsFit, Shape
<1> HIDE DEF b
<1>2. DOMAIN b.shown = Parts /\ \A q \in Parts : b.shown[q] = IF q = part THEN x ELSE a.shown[q]
  BY <1>1 DEF FieldsFit, Shape
<1>3. Shape(b) /\ DraftFits(b) /\ b.admin \in {None, b.controller}
  BY Zenon, <1>1, <1>2 DEF FieldsFit, Shape, DraftFits
<1>4. ShownFits(b)
  <2> SUFFICES ASSUME NEW q \in Parts, b.shown[q] # None
               PROVE  /\ b.shown[q].from = b.controller
                      /\ b.shown[q].net # None =>
                           b.shown[q].net = b.selected /\ q \in {"members", "issued"}
    BY Zenon DEF ShownFits
  <2>1. CASE q = part
    BY Zenon, <1>1, <1>2, <2>1
  <2>2. CASE q # part
    <3>1. b.shown[q] = a.shown[q] /\ ShownFits(a)
      BY Zenon, <1>2, <2>2 DEF FieldsFit
    <3> QED  BY Zenon, <1>1, <3>1 DEF ShownFits
  <2> QED  BY <2>1, <2>2
<1> QED  BY <1>1, <1>3, <1>4 DEF FieldsFit, SamePage, b

\* A change of the token alone, or of what it is bound to.
LEMMA TokenFits ==
  ASSUME NEW a, FieldsFit(a), NEW b, DOMAIN b = DOMAIN a, b.editor = a.editor, b.told = a.told,
         b.shown = a.shown, SamePage(a, b), b.admin \in {None, b.controller}
  PROVE  FieldsFit(b)
<1>1. Shape(b) /\ DraftFits(b)
  BY Zenon DEF FieldsFit, Shape, DraftFits, SamePage
<1>2. ShownFits(b)
  BY Zenon DEF FieldsFit, ShownFits, SamePage
<1> QED  BY <1>1, <1>2 DEF FieldsFit

\* Drawing the policy panel (controller_policy_panel).
LEMMA PanelFits ==
  ASSUME NEW a, FieldsFit(a)
  PROVE  FieldsFit(Window!controller_policy_panel(a)) /\ SamePage(a, Window!controller_policy_panel(a))
<1> DEFINE e == [Window!Fresh EXCEPT !.target = Window!From(a.controller, a.selected)]
<1>1. DOMAIN e = {"target", "loaded", "stale", "at"} /\ ~Window!request(e)
  BY DEF Window!Fresh, Window!request
<1> HIDE DEF e
<1>2. FieldsFit([a EXCEPT !.editor = e]) /\ SamePage(a, [a EXCEPT !.editor = e])
  BY Zenon, <1>1, EditorFits
<1>3. Window!controller_policy_panel(a) \in {a, [a EXCEPT !.editor = e]}
  BY DEF Window!controller_policy_panel, e
<1> QED  BY Zenon, <1>2, <1>3 DEF SamePage

\* Another controller begins with nothing of the one before
\* (switch_controller_context).
LEMMA SwitchFits ==
  ASSUME NEW a, FieldsFit(a), NEW c
  PROVE  LET b == Window!switch_controller_context(a, c) IN FieldsFit(b) /\ b.controller = c
<1> DEFINE b == [a EXCEPT !.controller = c, !.admin = None, !.bound = None, !.home = None,
                          !.shown = Window!Blank, !.selected = None, !.editor = Window!Fresh]
<1>1. /\ DOMAIN b = DOMAIN a /\ b.controller = c /\ b.admin = None /\ b.shown = Window!Blank
      /\ b.selected = None /\ b.editor = Window!Fresh
  BY DEF FieldsFit, Shape
<1> HIDE DEF b
<1>2. DOMAIN b.shown = Parts /\ \A q \in Parts : b.shown[q] = None
  BY <1>1 DEF Window!Blank, Parts
<1>3. DOMAIN b.editor = {"target", "loaded", "stale", "at"} /\ ~Window!request(b.editor)
  BY <1>1 DEF Window!Fresh, Window!request
<1>4. FieldsFit(b)
  BY Zenon, <1>1, <1>2, <1>3 DEF FieldsFit, Shape, DraftFits, ShownFits
<1>5. Window!switch_controller_context(a, c) = IF a.controller = c THEN a ELSE b
  BY DEF Window!switch_controller_context, b
<1> QED  BY Zenon, <1>1, <1>4, <1>5

\* A token is sent only to the controller that it was entered for
\* (controller_request).
LEMMA TokenStaysHome ==
  ASSUME NEW a, FieldsFit(a), NEW admin
  PROVE  LET q == Window!controller_request(a, admin)
         IN  /\ FieldsFit(q.app) /\ SamePage(a, q.app)
             /\ admin /\ q.ok => q.app.admin = q.app.controller
<1> DEFINE q == Window!controller_request(a, admin)
           b == IF a.admin = None THEN [a EXCEPT !.bound = None, !.home = None]
                ELSE IF a.admin # a.bound THEN [a EXCEPT !.bound = a.admin, !.home = a.controller]
                ELSE a
<1>1. /\ q.app \in {a, b}
      /\ admin /\ q.ok => q.app = b /\ b.admin # None
  BY Zenon DEF Window!controller_request
<1>2. /\ DOMAIN b = DOMAIN a /\ b.editor = a.editor /\ b.told = a.told /\ b.shown = a.shown
      /\ b.controller = a.controller /\ b.selected = a.selected /\ b.admin = a.admin
  BY DEF FieldsFit, Shape
<1> HIDE DEF q, b
<1>3. FieldsFit(b) /\ SamePage(a, b)
  <2>1. SamePage(a, b) /\ b.admin \in {None, b.controller}
    BY Zenon, <1>2 DEF SamePage, FieldsFit
  <2> QED  BY Zenon, <1>2, <2>1, TokenFits
<1>4. FieldsFit(q.app) /\ SamePage(a, q.app)
  BY Zenon, <1>1, <1>3 DEF SamePage
<1>5. admin /\ q.ok => q.app.admin = q.app.controller
  BY Zenon, <1>1, <1>3 DEF FieldsFit
<1> QED  BY Zenon, <1>4, <1>5 DEF q

\* An answer is shown for the controller and the network that it came from
\* (Answered).
LEMMA AnswerFits ==
  ASSUME NEW a, FieldsFit(a), NEW r, r.op \in {"issue", "members"} => r.net = a.selected
  PROVE  FieldsFit(Window!Answered(a, r)) /\ SamePage(a, Window!Answered(a, r))
<1> DEFINE b == Window!Answered(a, r)
           from(n) == Window!From(a.controller, n)
           show(part, n) == [a EXCEPT !.shown[part] = from(n)]
<1>1. ASSUME NEW part \in Parts, NEW n,
             n = None \/ (n = a.selected /\ part \in {"members", "issued"})
      PROVE  FieldsFit(show(part, n)) /\ SamePage(a, show(part, n))
  <2>1. from(n).from = a.controller /\ from(n).net = n
    BY DEF Window!From
  <2> HIDE DEF from
  <2> QED  BY Zenon, <1>1, <2>1, ShowFits
<1>2. Parts = {"networks", "members", "issued", "document", "key"}
  BY DEF Parts
<1>3. CASE r.op \in {"networks", "key", "document"}
  <2>1. b = show(r.op, None)
    BY <1>3 DEF Window!Answered
  <2>2. r.op \in Parts
    BY <1>2, <1>3
  <2> HIDE DEF show, b
  <2>3. FieldsFit(show(r.op, None)) /\ SamePage(a, show(r.op, None))
    BY Zenon, <1>1, <2>2
  <2> QED  BY Zenon, <2>1, <2>3 DEF b
<1>4. CASE r.op = "issue"
  <2>1. b = show("issued", r.net)
    BY <1>4, Zenon DEF Window!Answered
  <2>2. "issued" \in Parts /\ r.net = a.selected
    BY <1>2, <1>4
  <2> HIDE DEF show, b
  <2>3. FieldsFit(show("issued", r.net)) /\ SamePage(a, show("issued", r.net))
    BY Zenon, <1>1, <2>2
  <2> QED  BY Zenon, <2>1, <2>3 DEF b
<1>5. CASE r.op = "members"
  <2>1. b = [show("members", r.net) EXCEPT !.selected = r.net]
    BY <1>5 DEF Window!Answered
  <2>2. FieldsFit(show("members", r.net)) /\ SamePage(a, show("members", r.net)) /\ r.net = a.selected
    BY Zenon, <1>1, <1>2, <1>5
  <2> DEFINE f == show("members", r.net)
  <2>3. FieldsFit(f) /\ SamePage(a, f) /\ b = [f EXCEPT !.selected = f.selected]
    BY Zenon, <2>1, <2>2 DEF SamePage
  <2> HIDE DEF f, b
  <2>4. DOMAIN b = DOMAIN f /\ b.editor = f.editor /\ b.told = f.told /\ b.shown = f.shown
        /\ b.controller = f.controller /\ b.selected = f.selected /\ b.admin = f.admin
    BY <2>3 DEF FieldsFit, Shape
  <2>5. SamePage(f, b) /\ b.admin \in {None, b.controller}
    BY Zenon, <2>3, <2>4 DEF SamePage, FieldsFit
  <2>6. FieldsFit(b)
    BY Zenon, <2>3, <2>4, <2>5, TokenFits
  <2>7. SamePage(a, b)
    BY Zenon, <2>3, <2>5 DEF SamePage
  <2> QED  BY Zenon, <2>6, <2>7 DEF b
<1>6. CASE r.op = "delete"
  <2>1. b = [a EXCEPT !.shown["members"] = None]
    BY <1>6 DEF Window!Answered
  <2>2. FieldsFit([a EXCEPT !.shown["members"] = None])
        /\ SamePage(a, [a EXCEPT !.shown["members"] = None])
    BY Zenon, <1>2, ShowFits
  <2> QED  BY Zenon, <2>1, <2>2
<1>7. CASE r.op \in {"policy", "save"}
  <2> DEFINE e == Window!from_manifest(a, r.net)
  <2>1. b = [a EXCEPT !.editor = e]
    BY <1>7, Zenon DEF Window!Answered
  <2>2. DOMAIN e = {"target", "loaded", "stale", "at"}
    BY DEF Window!from_manifest
  <2>3. e.at = a.told[e.target.from][e.target.net]
    BY DEF Window!from_manifest, Window!From
  <2> HIDE DEF e
  <2>4. FieldsFit([a EXCEPT !.editor = e]) /\ SamePage(a, [a EXCEPT !.editor = e])
    BY Zenon, <2>2, <2>3, EditorFits
  <2> QED  BY Zenon, <2>1, <2>4
<1>8. CASE r.op = "exit"
  <2>1. b = [a EXCEPT !.told[a.controller][r.net] = @ + 1,
                      !.editor = Window!invalidate_after_exit_update(@)]
    BY <1>8 DEF Window!Answered
  <2> HIDE DEF b
  <2>2. /\ DOMAIN b = DOMAIN a /\ b.editor = [a.editor EXCEPT !.stale = TRUE]
        /\ b.shown = a.shown /\ b.controller = a.controller /\ b.selected = a.selected
        /\ b.admin = a.admin
    BY <2>1 DEF Window!invalidate_after_exit_update, FieldsFit, Shape
  <2>3. DOMAIN b.editor = {"target", "loaded", "stale", "at"} /\ ~Window!request(b.editor)
    BY <2>2 DEF Window!request, FieldsFit, Shape
  <2>4. Shape(b) /\ b.admin \in {None, b.controller} /\ SamePage(a, b)
    BY Zenon, <2>2, <2>3 DEF FieldsFit, Shape, SamePage
  <2>5. DraftFits(b)
    BY Zenon, <2>3 DEF DraftFits
  <2>6. ShownFits(b)
    BY Zenon, <2>2 DEF FieldsFit, ShownFits
  <2> QED  BY Zenon, <2>4, <2>5, <2>6 DEF b, FieldsFit
<1>9. CASE r.op = "admin_token"
  <2>1. b = [a EXCEPT !.admin = a.controller, !.bound = None]
    BY <1>9, Zenon DEF Window!Answered
  <2> HIDE DEF b
  <2>2. /\ DOMAIN b = DOMAIN a /\ b.editor = a.editor /\ b.told = a.told /\ b.shown = a.shown
        /\ b.controller = a.controller /\ b.selected = a.selected /\ b.admin = a.controller
    BY <2>1 DEF FieldsFit, Shape
  <2>3. SamePage(a, b) /\ b.admin \in {None, b.controller}
    BY Zenon, <2>2 DEF SamePage
  <2>4. FieldsFit(b)
    BY Zenon, <2>2, <2>3, TokenFits
  <2> QED  BY Zenon, <2>3, <2>4 DEF b
<1>10. CASE r.op = "draft"
  <2> DEFINE e == Window!import(a)
  <2>1. b = [a EXCEPT !.editor = e]
    BY <1>10, Zenon DEF Window!Answered
  <2>2. DOMAIN e = {"target", "loaded", "stale", "at"}
    BY DEF Window!import, FieldsFit, Shape
  <2>3. e.target = a.editor.target /\ e.at = a.told[a.editor.target.from][a.editor.target.net]
    BY DEF Window!import, FieldsFit, Shape
  <2> HIDE DEF e
  <2>4. FieldsFit([a EXCEPT !.editor = e]) /\ SamePage(a, [a EXCEPT !.editor = e])
    BY Zenon, <2>2, <2>3, EditorFits
  <2> QED  BY Zenon, <2>1, <2>4
<1>11. CASE r.op \notin {"networks", "key", "document", "issue", "members", "delete", "policy",
                         "save", "exit", "admin_token", "draft"}
  <2>1. b = a
    BY <1>11, Zenon DEF Window!Answered
  <2> QED  BY Zenon, <2>1 DEF SamePage
<1> QED  BY Zenon, <1>3, <1>4, <1>5, <1>6, <1>7, <1>8, <1>9, <1>10, <1>11

-----------------------------------------------------------------------------
\* A sequence of requests that fit.
LEMMA SequenceFits ==
  ASSUME NEW a, NEW ask, NEW free
  PROVE  LET Fits(r) == RequestFits(r, a, ask, free)
             All(todo) == TodoFits(todo, a, ask, free)
         IN  /\ \A x : Fits(x) => All(<<x>>)
             /\ \A x, y : Fits(x) /\ Fits(y) => All(<<x, y>>)
             /\ \A x, y, z : Fits(x) /\ Fits(y) /\ Fits(z) => All(<<x, y, z>>)
             /\ \A x, y, z, u : Fits(x) /\ Fits(y) /\ Fits(z) /\ Fits(u) => All(<<x, y, z, u>>)
             /\ \A s, t : All(s) /\ All(t) => All(s \o t)
<1> DEFINE Fits(r) == RequestFits(r, a, ask, free)
           All(todo) == TodoFits(todo, a, ask, free)
<1>1. ASSUME NEW S, \A r \in S : Fits(r), NEW todo \in Seq(S)
      PROVE  All(todo)
  BY Zenon, <1>1 DEF TodoFits
<1> HIDE DEF Fits, All
<1>2. ASSUME NEW x, NEW y, NEW z, NEW u
      PROVE  /\ Fits(x) => All(<<x>>)
             /\ Fits(x) /\ Fits(y) => All(<<x, y>>)
             /\ Fits(x) /\ Fits(y) /\ Fits(z) => All(<<x, y, z>>)
             /\ Fits(x) /\ Fits(y) /\ Fits(z) /\ Fits(u) => All(<<x, y, z, u>>)
  <2>1. /\ <<x>> \in Seq({x}) /\ <<x, y>> \in Seq({x, y}) /\ <<x, y, z>> \in Seq({x, y, z})
        /\ <<x, y, z, u>> \in Seq({x, y, z, u})
    OBVIOUS
  <2>2. Fits(x) => All(<<x>>)
    BY Zenon, <1>1, <2>1
  <2>3. Fits(x) /\ Fits(y) => All(<<x, y>>)
    BY Zenon, <1>1, <2>1
  <2>4. Fits(x) /\ Fits(y) /\ Fits(z) => All(<<x, y, z>>)
    BY Zenon, <1>1, <2>1
  <2>5. Fits(x) /\ Fits(y) /\ Fits(z) /\ Fits(u) => All(<<x, y, z, u>>)
    BY Zenon, <1>1, <2>1
  <2> QED  BY <2>2, <2>3, <2>4, <2>5
<1>3. ASSUME NEW s, NEW t, All(s), All(t)
      PROVE  All(s \o t)
  <2>1. PICK S : s \in Seq(S) /\ \A r \in S : Fits(r)
    BY Zenon, <1>3 DEF TodoFits, All, Fits
  <2>2. PICK T : t \in Seq(T) /\ \A r \in T : Fits(r)
    BY Zenon, <1>3 DEF TodoFits, All, Fits
  <2>3. s \in Seq(S \cup T) /\ t \in Seq(S \cup T)
    BY <2>1, <2>2
  <2>4. s \o t \in Seq(S \cup T)
    BY <2>3
  <2>5. \A r \in S \cup T : Fits(r)
    BY Zenon, <2>1, <2>2
  <2> QED  BY Zenon, <1>1, <2>4, <2>5
<1> QED  BY Zenon, <1>2, <1>3 DEF Fits, All

\* What the buttons start at once depends on no question and no network.
LEMMA UnaskedFits ==
  ASSUME NEW a, NEW todo \in Window!Unasked
  PROVE  TodoFits(todo, a, None, TRUE)
<1> DEFINE All(s) == TodoFits(s, a, None, TRUE)
           Fits(r) == RequestFits(r, a, None, TRUE)
<1>1. \A r : r.op \notin {"issue", "members", "delete", "remove"} => Fits(r)
  BY Zenon DEF RequestFits
<1> HIDE DEF Fits
<1>2. ASSUME NEW op, op \notin {"issue", "members", "delete", "remove"}
      PROVE  /\ Fits(Window!Agent(op)) /\ Fits(Window!File(op)) /\ Fits(Window!Process(op))
             /\ Fits(Window!Inside(op)) /\ Fits(Window!Public(op, None)) /\ Fits(Window!Admin(op, None))
  <2>1. /\ Window!Agent(op).op = op /\ Window!File(op).op = op /\ Window!Process(op).op = op
        /\ Window!Inside(op).op = op /\ Window!Public(op, None).op = op
        /\ Window!Admin(op, None).op = op
    BY Zenon DEF Window!Agent, Window!File, Window!Process, Window!Inside, Window!Public,
       Window!Admin, Window!Step
  <2> QED  BY Zenon, <1>1, <1>2, <2>1
<1>3. Fits([Window!refresh_status EXCEPT !.must = FALSE])
  <2>1. [Window!refresh_status EXCEPT !.must = FALSE].op = "status"
    BY DEF Window!refresh_status, Window!Agent, Window!Step
  <2> QED  BY Zenon, <1>1, <2>1
<1>4. /\ \A x : Fits(x) => All(<<x>>)
      /\ \A x, y : Fits(x) /\ Fits(y) => All(<<x, y>>)
      /\ \A x, y, z : Fits(x) /\ Fits(y) /\ Fits(z) => All(<<x, y, z>>)
      /\ \A x, y, z, u : Fits(x) /\ Fits(y) /\ Fits(z) /\ Fits(u) => All(<<x, y, z, u>>)
  BY Zenon, SequenceFits DEF Fits
<1> HIDE DEF All
<1>5. All(Window!refresh) /\ All(Window!adapter)
  BY Zenon, <1>2, <1>3, <1>4
     DEF Window!refresh, Window!adapter, Window!refresh_status, Window!refresh_sessions
<1>6. /\ All(Window!apply_exit_selection) /\ All(Window!apply_exit_gateway)
      /\ All(Window!configure_relay) /\ All(Window!configure_planet)
  BY Zenon, <1>2, <1>4 DEF Window!apply_exit_selection, Window!apply_exit_gateway,
                   Window!configure_relay, Window!configure_planet
<1>7. All(Window!create_local_network) /\ All(Window!join_network)
  BY Zenon, <1>2, <1>4 DEF Window!create_local_network, Window!join_network,
     Window!refresh_status
<1>8. /\ All(Window!read_controller_document) /\ All(Window!create_managed_network)
      /\ All(<<Window!refresh_managed_networks>>)
  BY Zenon, <1>2, <1>4 DEF Window!read_controller_document, Window!create_managed_network,
                   Window!refresh_managed_networks
<1>9. /\ All(Window!run_cli_command) /\ All(Window!run_native_task)
      /\ All(Window!export_policy_file) /\ All(Window!start_json_export)
  BY Zenon, <1>2, <1>4 DEF Window!run_cli_command, Window!run_native_task,
     Window!export_policy_file,
                   Window!start_json_export
<1>10. \A s \in Window!start_credential_import : All(s)
  BY Zenon, <1>2, <1>4 DEF Window!start_credential_import
<1>11. All(todo)
  BY Zenon, <1>5, <1>6, <1>7, <1>8, <1>9, <1>10 DEF Window!Unasked
<1> QED  BY Zenon, <1>11 DEF All

\* So do an invitation and the operations on a draft.
LEMMA OthersFit ==
  ASSUME NEW a, NEW n
  PROVE  /\ \A c \in Controllers : TodoFits(Window!join_invite_link(c), a, None, TRUE)
         /\ TodoFits(Window!save_policy(n), a, None, TRUE)
         /\ TodoFits(Window!import_policy_file, a, None, TRUE)
<1> DEFINE All(s) == TodoFits(s, a, None, TRUE)
           Fits(r) == RequestFits(r, a, None, TRUE)
<1>1. \A r : r.op \notin {"issue", "members", "delete", "remove"} => Fits(r)
  BY Zenon DEF RequestFits
<1>2. /\ \A x : Fits(x) => All(<<x>>)
      /\ \A x, y : Fits(x) /\ Fits(y) => All(<<x, y>>)
      /\ \A s, t : All(s) /\ All(t) => All(s \o t)
  BY Zenon, SequenceFits
<1>3. All(Window!join_network)
  BY Zenon, UnaskedFits DEF Window!Unasked
<1> HIDE DEF Fits, All
<1>4. ASSUME NEW c \in Controllers
      PROVE  All(Window!join_invite_link(c))
  <2> DEFINE x == [Window!Inside("switch") EXCEPT !.net = c]
  <2>1. x.op = "switch"
    BY DEF Window!Inside, Window!Step
  <2>2. Window!join_invite_link(c) = <<x>> \o Window!join_network
    BY Zenon DEF Window!join_invite_link
  <2> HIDE DEF x
  <2>3. Fits(x)
    BY Zenon, <1>1, <2>1
  <2> QED  BY Zenon, <1>2, <1>3, <2>2, <2>3
<1>5. /\ Fits(Window!Inside("not_stale")) /\ Fits(Window!File("draft")) /\ Fits(Window!Admin("save", n))
  <2>1. /\ Window!Inside("not_stale").op = "not_stale" /\ Window!File("draft").op = "draft"
        /\ Window!Admin("save", n).op = "save"
    BY Zenon DEF Window!Inside, Window!File, Window!Admin, Window!Step
  <2> QED  BY Zenon, <1>1, <2>1
<1>6. All(Window!save_policy(n)) /\ All(Window!import_policy_file)
  BY Zenon, <1>2, <1>5 DEF Window!save_policy, Window!import_policy_file
<1> QED  BY Zenon, <1>4, <1>6 DEF All

\* What a button starts for the selected network is for that network.
LEMMA UnaskedForFits ==
  ASSUME NEW a, NEW n, a.selected = n, NEW todo \in Window!UnaskedFor(n)
  PROVE  TodoFits(todo, a, None, FALSE)
<1> DEFINE All(s) == TodoFits(s, a, None, FALSE)
           Fits(r) == RequestFits(r, a, None, FALSE)
<1>1. /\ \A r : r.op \notin {"switch", "issue", "members", "delete", "remove"} => Fits(r)
      /\ \A r : r.op \in {"issue", "members"} /\ r.net = n => Fits(r)
  BY Zenon DEF RequestFits
<1>2. /\ \A x : Fits(x) => All(<<x>>)
      /\ \A x, y : Fits(x) /\ Fits(y) => All(<<x, y>>)
      /\ \A x, y, z, u : Fits(x) /\ Fits(y) /\ Fits(z) /\ Fits(u) => All(<<x, y, z, u>>)
  BY Zenon, SequenceFits
<1> HIDE DEF Fits, All
<1>3. ASSUME NEW op, op \notin {"switch", "issue", "members", "delete", "remove"}
      PROVE  /\ Fits(Window!Inside(op)) /\ Fits(Window!Public(op, n)) /\ Fits(Window!Public(op, None))
             /\ Fits(Window!Admin(op, n))
  <2>1. /\ Window!Inside(op).op = op /\ Window!Public(op, n).op = op
        /\ Window!Public(op, None).op = op /\ Window!Admin(op, n).op = op
    BY Zenon DEF Window!Inside, Window!Public, Window!Admin, Window!Step
  <2> QED  BY Zenon, <1>1, <1>3, <2>1
<1>4. Fits(Window!Admin("issue", n)) /\ Fits(Window!Admin("members", n))
  <2>1. /\ Window!Admin("issue", n).op = "issue" /\ Window!Admin("issue", n).net = n
        /\ Window!Admin("members", n).op = "members" /\ Window!Admin("members", n).net = n
    BY Zenon DEF Window!Admin, Window!Step
  <2> QED  BY Zenon, <1>1, <2>1
<1>5. All(Window!issue_enrollment_token(n)) /\ All(Window!issue_standalone_token(n))
  BY Zenon, <1>2, <1>3, <1>4 DEF Window!issue_enrollment_token,
     Window!issue_standalone_token,
         Window!refresh_controller_public_key
<1>6. All(Window!load_members(n)) /\ All(Window!save_member_routes(n))
  BY Zenon, <1>2, <1>3, <1>4 DEF Window!load_members, Window!save_member_routes
<1>7. All(Window!load_policy(n)) /\ All(Window!update_controller_exit(n))
  BY Zenon, <1>2, <1>3 DEF Window!load_policy, Window!update_controller_exit
<1>8. All(todo)
  BY Zenon, <1>5, <1>6, <1>7 DEF Window!UnaskedFor
<1> QED  BY Zenon, <1>8 DEF All

\* What a confirmed question starts is for the controller and the network that
\* it was asked about (confirmation_ui).
LEMMA ConfirmedFits ==
  ASSUME NEW a, NEW p, NEW ask, ask # None, ask.op = p.op, ask.net = p.net, ask.at = a.controller,
         p \in Window!PendingActions, p.op \notin {"start_service", "stop_service"},
         p.op \in {"remove", "revoke"} => p.net = a.selected
  PROVE  TodoFits(Window!Confirmed(ask), a, ask, FALSE)
<1> DEFINE All(s) == TodoFits(s, a, ask, FALSE)
           Fits(r) == RequestFits(r, a, ask, FALSE)
           n == p.net
           Fixed == {"stop_agent", "stop_adapter", "leave", "clear_exit", "disable_gateway",
                     "backup", "restore", "native"}
<1>1. /\ \A r : r.op \notin {"switch", "issue", "members"} /\ r.to # "controller" => Fits(r)
      /\ \A r : r.op \notin {"switch", "issue", "members"} /\ r.net \in {None, n} => Fits(r)
      /\ \A r : r.op = "members" /\ r.net = n /\ n = a.selected => Fits(r)
  BY Zenon DEF RequestFits
<1>2. /\ \A x : Fits(x) => All(<<x>>)
      /\ \A x, y : Fits(x) /\ Fits(y) => All(<<x, y>>)
      /\ \A x, y, z : Fits(x) /\ Fits(y) /\ Fits(z) => All(<<x, y, z>>)
      /\ \A s, t : All(s) /\ All(t) => All(s \o t)
  BY Zenon, SequenceFits
<1>3. p.op \in Fixed \cup {"delete", "remove", "revoke"}
  <2>1. \/ \E op \in Fixed \cup {"start_service", "stop_service"} : p = [op |-> op, net |-> None]
        \/ \E op \in {"delete", "remove", "revoke"}, m \in Nets : p = [op |-> op, net |-> m]
    BY DEF Window!PendingActions
  <2>2. \A op, m : [op |-> op, net |-> m].op = op
    BY Zenon
  <2> HIDE DEF Fixed
  <2>3. CASE \E op \in Fixed \cup {"start_service", "stop_service"} : p = [op |-> op, net |-> None]
    BY <2>2, <2>3
  <2>4. CASE \E op \in {"delete", "remove", "revoke"}, m \in Nets : p = [op |-> op, net |-> m]
    BY <2>2, <2>4
  <2> QED  BY <2>1, <2>3, <2>4
<1> HIDE DEF Fits, All, n
<1>4. ASSUME NEW op, op \notin {"switch", "issue", "members"}
      PROVE  /\ Fits(Window!Agent(op)) /\ Fits(Window!Process(op)) /\ Fits(Window!Inside(op))
             /\ Fits(Window!Public(op, n)) /\ Fits(Window!Public(op, None)) /\ Fits(Window!Admin(op, n))
  <2>1. /\ Window!Agent(op).op = op /\ Window!Agent(op).to = "agent"
        /\ Window!Process(op).op = op /\ Window!Process(op).to = "process"
        /\ Window!Inside(op).op = op /\ Window!Inside(op).to = "window"
    BY Zenon DEF Window!Agent, Window!Process, Window!Inside, Window!Step
  <2>2. /\ Window!Public(op, n).op = op /\ Window!Public(op, n).net = n
        /\ Window!Public(op, None).op = op /\ Window!Public(op, None).net = None
        /\ Window!Admin(op, n).op = op /\ Window!Admin(op, n).net = n
    BY Zenon DEF Window!Public, Window!Admin, Window!Step
  <2>3. Fits(Window!Agent(op)) /\ Fits(Window!Process(op)) /\ Fits(Window!Inside(op))
    BY Zenon, <1>1, <1>4, <2>1
  <2>4. Fits(Window!Public(op, n)) /\ Fits(Window!Public(op, None)) /\ Fits(Window!Admin(op, n))
    BY Zenon, <1>1, <1>4, <2>2
  <2> QED  BY <2>3, <2>4
<1>5. Fits([Window!refresh_status EXCEPT !.must = FALSE])
  <2>1. /\ [Window!refresh_status EXCEPT !.must = FALSE].op = "status"
        /\ [Window!refresh_status EXCEPT !.must = FALSE].to = "agent"
    BY DEF Window!refresh_status, Window!Agent, Window!Step
  <2> QED  BY Zenon, <1>1, <2>1
<1>6. /\ All(Window!stop_agent) /\ All(Window!adapter) /\ All(Window!leave_network)
      /\ All(Window!clear_exit_selection) /\ All(Window!remove_exit_gateway)
  BY Zenon, <1>2, <1>4, <1>5 DEF Window!stop_agent, Window!adapter, Window!leave_network,
         Window!clear_exit_selection, Window!remove_exit_gateway, Window!refresh_status,
         Window!refresh_sessions
<1>7. /\ All(Window!run_native_task)
      /\ All(Window!execute_backup(TRUE)) /\ All(Window!execute_backup(FALSE))
  BY Zenon, <1>2, <1>4 DEF Window!run_native_task, Window!execute_backup
<1>8. All(Window!delete_managed_network(n)) /\ All(Window!update_controller_exit(n))
  BY Zenon, <1>2, <1>4 DEF Window!delete_managed_network, Window!update_controller_exit,
         Window!refresh_managed_networks
<1>9. n = a.selected => All(Window!remove_member(n))
  <2> SUFFICES ASSUME n = a.selected PROVE All(Window!remove_member(n))
    OBVIOUS
  <2>1. Window!Admin("members", n).op = "members" /\ Window!Admin("members", n).net = n
    BY Zenon DEF Window!Admin, Window!Step
  <2>2. Fits(Window!Admin("members", n))
    BY Zenon, <1>1, <2>1
  <2>3. All(Window!load_members(n)) /\ All(<<Window!Admin("remove", n)>>)
    BY Zenon, <1>2, <1>4, <2>2 DEF Window!load_members
  <2> QED  BY Zenon, <1>2, <2>3 DEF Window!remove_member
<1>10. All(Window!Confirmed(ask))
  <2> DEFINE todo == Window!Confirmed(ask)
  <2>1. CASE p.op = "stop_agent"
    BY Zenon, <1>6, <2>1 DEF Window!Confirmed
  <2>2. CASE p.op = "stop_adapter"
    BY Zenon, <1>6, <2>2 DEF Window!Confirmed
  <2>3. CASE p.op = "leave"
    BY Zenon, <1>6, <2>3 DEF Window!Confirmed
  <2>4. CASE p.op = "clear_exit"
    BY Zenon, <1>6, <2>4 DEF Window!Confirmed
  <2>5. CASE p.op = "disable_gateway"
    BY Zenon, <1>6, <2>5 DEF Window!Confirmed
  <2>6. CASE p.op \in {"backup", "restore"}
    <3>1. todo = Window!execute_backup(p.op = "restore")
      BY Zenon, <2>6 DEF Window!Confirmed
    <3>2. (p.op = "restore") \in {TRUE, FALSE}
      BY Zenon
    <3> QED  BY Zenon, <1>7, <3>1, <3>2
  <2>7. CASE p.op = "native"
    BY Zenon, <1>7, <2>7 DEF Window!Confirmed
  <2>8. CASE p.op = "delete"
    BY Zenon, <1>8, <2>8 DEF Window!Confirmed, n
  <2>9. CASE p.op = "remove"
    BY Zenon, <1>9, <2>9 DEF Window!Confirmed, n
  <2>10. CASE p.op = "revoke"
    BY Zenon, <1>8, <2>10 DEF Window!Confirmed, n
  <2> QED  BY Zenon, <1>3, <2>1, <2>2, <2>3, <2>4, <2>5, <2>6, <2>7, <2>8, <2>9, <2>10
<1> QED  BY Zenon, <1>10 DEF All

-----------------------------------------------------------------------------
\* The rest of what a worker has to do still fits.
LEMMA TodoMoves ==
  ASSUME NEW a, NEW b, NEW ask, NEW free, free \/ SamePage(a, b),
         NEW todo, todo # <<>>, TodoFits(todo, a, ask, free)
  PROVE  /\ RequestFits(Head(todo), a, ask, free)
         /\ TodoFits(Tail(todo), b, ask, free) /\ TodoFits(<<>>, b, ask, free)
<1>1. PICK S : todo \in Seq(S) /\ \A r \in S : RequestFits(r, a, ask, free)
  BY Zenon DEF TodoFits
<1>2. Head(todo) \in S /\ Tail(todo) \in Seq(S) /\ <<>> \in Seq(S)
  BY <1>1
<1>3. \A r \in S : RequestFits(r, b, ask, free)
  BY Zenon, <1>1 DEF RequestFits, SamePage
<1> QED  BY Zenon, <1>1, <1>2, <1>3 DEF TodoFits

\* A worker that goes on with its next request.
LEMMA WorkerFits ==
  ASSUME WindowInv, job # None, job.todo # <<>>, NEW a, NEW ok, Window!Next1(a, ok), FieldsFit(a),
         \A free \in BOOLEAN : TodoFits(job.todo, job.app, job.ask, free) => free \/ SamePage(job.app, a),
         UNCHANGED <<app, pending>>, Window!TokenGoesHome'
  PROVE  WindowInv'
<1>1. JobFits(job) /\ pending = None
  BY Zenon DEF WindowInv, QuestionFits
<1>2. PICK free \in BOOLEAN : TodoFits(job.todo, job.app, job.ask, free)
  BY Zenon, <1>1 DEF JobFits
<1>3. /\ TodoFits(Tail(job.todo), a, job.ask, free) /\ TodoFits(<<>>, a, job.ask, free)
  <2>1. free \/ SamePage(job.app, a)
    BY Zenon, <1>2
  <2> DEFINE now == job.app
  <2>2. TodoFits(job.todo, now, job.ask, free) /\ (free \/ SamePage(now, a))
    BY <1>2, <2>1
  <2> HIDE DEF now
  <2> QED  BY Zenon, <2>2, TodoMoves
<1>4. /\ DOMAIN job' = DOMAIN job /\ job'.app = a /\ job'.ask = job.ask
      /\ job'.todo \in {Tail(job.todo), <<>>}
  BY <1>1 DEF Window!Next1, JobFits
<1>5. TodoFits(job'.todo, job'.app, job'.ask, free)
  BY Zenon, <1>3, <1>4
<1>6. JobFits(job')
  BY Zenon, <1>1, <1>4, <1>5 DEF JobFits
<1> QED  BY <1>1, <1>6 DEF WindowInv, QuestionFits

\* A worker that starts.
LEMMA StartFits ==
  ASSUME WindowInv, FieldsFit(app'), NEW a, FieldsFit(a), NEW todo, NEW ask, NEW free \in BOOLEAN,
         TodoFits(todo, a, ask, free), Window!start_job(a, todo, ask), pending' = None, sent' = sent
  PROVE  WindowInv'
<1>1. job' = [app |-> a, todo |-> todo, ask |-> ask, child |-> FALSE, cancel |-> FALSE, dead |-> FALSE]
  BY Zenon DEF Window!start_job, Window!capture
<1>2. /\ DOMAIN job' = {"app", "todo", "ask", "child", "cancel", "dead"}
      /\ job'.app = a /\ job'.todo = todo /\ job'.ask = ask
  BY <1>1
<1>3. JobFits(job')
  BY Zenon, <1>2 DEF JobFits
<1> QED  BY <1>3 DEF WindowInv, QuestionFits, Window!TokenGoesHome

\* A step that leaves the worker, the question and the token sent alone.
LEMMA FieldsStay ==
  ASSUME WindowInv, FieldsFit(app'), UNCHANGED <<job, pending, sent>>,
         pending = None \/ UNCHANGED app
  PROVE  WindowInv'
<1>1. QuestionFits'
  BY DEF WindowInv, QuestionFits, Window!PendingActions
<1> QED  BY <1>1 DEF WindowInv, Window!TokenGoesHome

\* The operations that a button starts (start_job).
LEMMA PressFits ==
  ASSUME WindowInv, NEW todo, NEW free \in BOOLEAN, TodoFits(todo, Window!Page, None, free),
         Window!Press(todo)
  PROVE  WindowInv'
<1>1. FieldsFit(Window!Page)
  BY Zenon, PanelFits DEF WindowInv, Window!Page
<1>2. /\ app' = Window!Page /\ Window!start_job(Window!Page, todo, None) /\ pending' = None
      /\ sent' = sent
  BY Zenon DEF Window!Press, Window!can_start_action
<1> HIDE DEF Window!Page
<1>3. FieldsFit(app')
  BY Zenon, <1>1, <1>2
<1> QED  BY Zenon, <1>1, <1>2, <1>3, StartFits

LEMMA SelectFits ==
  ASSUME WindowInv, NEW n \in Nets, Window!SelectNetwork(n)
  PROVE  WindowInv'
<1> DEFINE p == Window!Page
           a == [p EXCEPT !.selected = n, !.shown["members"] = None, !.shown["issued"] = None]
<1>1. FieldsFit(p)
  BY Zenon, PanelFits DEF WindowInv, Window!Page
<1>2. /\ Window!start_job(a, Window!load_members(n), None)
      /\ app' = Window!controller_policy_panel(a) /\ pending' = None /\ sent' = sent
  BY Zenon DEF Window!SelectNetwork, Window!can_start_action
<1> HIDE DEF p
<1>3. FieldsFit(a) /\ a.selected = n
  <2>1. /\ DOMAIN a = DOMAIN p /\ a.editor = p.editor /\ a.told = p.told /\ a.selected = n
        /\ a.controller = p.controller /\ a.admin = p.admin
        /\ a.shown = [[p.shown EXCEPT !["members"] = None] EXCEPT !["issued"] = None]
    BY <1>1 DEF FieldsFit, Shape
  <2> HIDE DEF a
  <2>2. /\ DOMAIN a.shown = Parts
        /\ \A q \in Parts : a.shown[q] = IF q \in {"members", "issued"} THEN None ELSE p.shown[q]
    BY <1>1, <2>1 DEF FieldsFit, Shape, Parts
  <2>3. ShownFits(a)
    <3> SUFFICES ASSUME NEW q \in Parts, a.shown[q] # None
                 PROVE  a.shown[q].from = a.controller /\ a.shown[q].net = None
      BY Zenon DEF ShownFits
    <3>1. a.shown[q] = p.shown[q] /\ q \notin {"members", "issued"} /\ ShownFits(p)
      BY Zenon, <1>1, <2>2 DEF FieldsFit
    <3> QED  BY Zenon, <2>1, <3>1 DEF ShownFits
  <2>4. Shape(a) /\ a.admin \in {None, a.controller} /\ DraftFits(a)
    BY Zenon, <1>1, <2>1, <2>2 DEF FieldsFit, Shape, DraftFits
  <2> QED  BY Zenon, <2>1, <2>3, <2>4 DEF FieldsFit
<1> HIDE DEF a
<1>4. FieldsFit(app')
  BY Zenon, <1>2, <1>3, PanelFits
<1>5. TodoFits(Window!load_members(n), a, None, FALSE)
  <2>1. Window!load_members(n) \in Window!UnaskedFor(n)
    BY Zenon DEF Window!UnaskedFor
  <2> QED  BY Zenon, <1>3, <2>1, UnaskedForFits
<1> QED  BY Zenon, <1>2, <1>3, <1>4, <1>5, StartFits

\* The answer to a question (confirmation_ui).
LEMMA AnswerToQuestionFits ==
  ASSUME None \notin Nets, WindowInv, NEW execute, Window!confirmation_ui(execute)
  PROVE  WindowInv'
<1>1. PICK p \in Window!PendingActions :
         /\ pending = [op |-> p.op, net |-> p.net, at |-> app.controller]
         /\ p.op \in {"remove", "revoke"} => p.net = app.selected
  BY Zenon DEF WindowInv, QuestionFits, Window!confirmation_ui
<1>2. pending.op = p.op /\ pending.net = p.net /\ pending.at = app.controller /\ pending # None
  BY <1>1, Zenon DEF Window!confirmation_ui
<1>3. CASE execute /\ pending.op \notin {"start_service", "stop_service"}
  <2>1. /\ app' = IF pending.op = "revoke" THEN [app EXCEPT !.selected = pending.net] ELSE app
        /\ Window!start_job(app', Window!Confirmed(pending), pending)
        /\ pending' = None /\ sent' = sent
    BY Zenon, <1>3 DEF Window!confirmation_ui
  <2>2. FieldsFit(app') /\ SamePage(app, app')
    <3>1. CASE pending.op = "revoke"
      <4>1. app' = [app EXCEPT !.selected = app.selected] /\ FieldsFit(app)
        BY Zenon, <1>1, <1>2, <2>1, <3>1 DEF WindowInv
      <4>2. /\ DOMAIN app' = DOMAIN app /\ app'.editor = app.editor /\ app'.told = app.told
            /\ app'.shown = app.shown /\ app'.controller = app.controller
            /\ app'.selected = app.selected /\ app'.admin = app.admin
        BY <4>1 DEF FieldsFit, Shape
      <4>3. SamePage(app, app') /\ app'.admin \in {None, app'.controller}
        BY Zenon, <4>1, <4>2 DEF SamePage, FieldsFit
      <4> QED  BY Zenon, <4>1, <4>2, <4>3, TokenFits
    <3>2. CASE pending.op # "revoke"
      BY Zenon, <2>1, <3>2 DEF WindowInv, SamePage
    <3> QED  BY <3>1, <3>2
  <2>3. TodoFits(Window!Confirmed(pending), app', pending, FALSE)
    <3>1. /\ pending.at = app'.controller /\ p.op \notin {"start_service", "stop_service"}
          /\ p.op \in {"remove", "revoke"} => p.net = app'.selected
      BY Zenon, <1>1, <1>2, <1>3, <2>2 DEF SamePage
    <3> QED  BY Zenon, <1>2, <3>1, ConfirmedFits
  <2> QED  BY Zenon, <2>1, <2>2, <2>3, StartFits
<1>4. CASE ~(execute /\ pending.op \notin {"start_service", "stop_service"})
  <2>1. UNCHANGED <<app, job, sent>> /\ pending' = None
    BY Zenon, <1>4 DEF Window!confirmation_ui
  <2> QED  BY <2>1 DEF WindowInv, QuestionFits, Window!TokenGoesHome
<1> QED  BY <1>3, <1>4

\* A step inside the window (InsideStep).
LEMMA InsideFits ==
  ASSUME WindowInv, Window!InsideStep
  PROVE  WindowInv'
<1> DEFINE r == Head(job.todo)
           a == job.app
           clear(part) == [a EXCEPT !.shown[part] = None]
           moved == [Window!switch_controller_context(a, r.net)
                       EXCEPT !.shown["key"] = Window!From(r.net, None)]
<1>1. /\ job # None /\ job.todo # <<>> /\ UNCHANGED <<app, pending, sent>>
      /\ FieldsFit(a) /\ JobFits(job)
  BY Zenon DEF Window!InsideStep, Window!Working, WindowInv, JobFits
<1>2. Window!TokenGoesHome'
  BY Zenon, <1>1 DEF WindowInv, Window!TokenGoesHome
<1>3. CASE r.op = "switch"
  <2>1. Window!Next1(moved, TRUE)
    BY Zenon, <1>3 DEF Window!InsideStep
  <2>2. FieldsFit(moved)
    <3> DEFINE b == Window!switch_controller_context(a, r.net)
               x == Window!From(r.net, None)
    <3>1. FieldsFit(b) /\ b.controller = r.net
      BY Zenon, <1>1, SwitchFits
    <3>2. x.from = r.net /\ x.net = None /\ "key" \in Parts
      BY DEF Window!From, Parts
    <3> HIDE DEF b, x
    <3>3. FieldsFit([b EXCEPT !.shown["key"] = x])
      BY Zenon, <3>1, <3>2, ShowFits
    <3> QED  BY Zenon, <3>3 DEF b, x
  <2>3. ASSUME NEW free \in BOOLEAN, TodoFits(job.todo, job.app, job.ask, free)
        PROVE  free
    <3>1. SamePage(job.app, job.app)
      BY Zenon DEF SamePage
    <3>2. RequestFits(r, job.app, job.ask, free)
      BY Zenon, <1>1, <2>3, <3>1, TodoMoves
    <3> QED  BY Zenon, <1>3, <3>2 DEF RequestFits
  <2> HIDE DEF moved
  <2> QED  BY Zenon, <1>1, <1>2, <2>1, <2>2, <2>3, WorkerFits
<1>4. CASE r.op # "switch"
  <2>1. \E b, ok : Window!Next1(b, ok) /\ (b = a \/ \E part \in Parts : b = clear(part))
    BY Zenon, <1>4 DEF Window!InsideStep, Parts
  <2>2. PICK b, ok : Window!Next1(b, ok) /\ (b = a \/ \E part \in Parts : b = clear(part))
    BY <2>1, Zenon
  <2>3. \A part \in Parts : FieldsFit(clear(part)) /\ SamePage(a, clear(part))
    BY Zenon, <1>1, ShowFits
  <2> HIDE DEF clear
  <2>4. FieldsFit(b) /\ SamePage(a, b)
    BY Zenon, <1>1, <2>2, <2>3 DEF SamePage
  <2> QED  BY Zenon, <1>1, <1>2, <2>2, <2>4, WorkerFits
<1> QED  BY <1>3, <1>4

\* A request to a controller, the agent or a file (Request).
LEMMA RequestKeeps ==
  ASSUME WindowInv, Window!Request
  PROVE  WindowInv'
<1> DEFINE r == Head(job.todo)
           a == job.app
           q == Window!controller_request(a, r.admin)
<1>1. /\ job # None /\ job.todo # <<>> /\ UNCHANGED <<app, pending>> /\ FieldsFit(a) /\ JobFits(job)
  BY Zenon DEF Window!Request, Window!Working, WindowInv, JobFits
<1>2. /\ \/ Window!Next1(Window!Answered(q.app, r), TRUE)
         \/ Window!Next1(q.app, FALSE)
      /\ sent' = IF r.admin /\ q.ok THEN [token |-> q.app.admin, to |-> q.app.controller] ELSE sent
  BY Zenon DEF Window!Request
<1>3. /\ FieldsFit(q.app) /\ SamePage(a, q.app)
      /\ r.admin /\ q.ok => q.app.admin = q.app.controller
  BY Zenon, <1>1, TokenStaysHome
<1> HIDE DEF q
<1>4. Window!TokenGoesHome'
  <2>1. CASE r.admin /\ q.ok
    <3>1. sent'.token = q.app.admin /\ sent'.to = q.app.controller
      BY <1>2, <2>1
    <3> QED  BY Zenon, <1>3, <2>1, <3>1 DEF Window!TokenGoesHome
  <2>2. CASE ~(r.admin /\ q.ok)
    BY Zenon, <1>2, <2>2 DEF WindowInv, Window!TokenGoesHome
  <2> QED  BY <2>1, <2>2
<1>5. r.op \in {"issue", "members"} => r.net = a.selected
  <2>1. PICK free \in BOOLEAN : TodoFits(job.todo, job.app, job.ask, free)
    BY Zenon, <1>1 DEF JobFits
  <2>2. SamePage(job.app, job.app)
    BY Zenon DEF SamePage
  <2>3. RequestFits(r, job.app, job.ask, free)
    BY Zenon, <1>1, <2>1, <2>2, TodoMoves
  <2> QED  BY Zenon, <2>3 DEF RequestFits
<1>6. FieldsFit(Window!Answered(q.app, r)) /\ SamePage(a, Window!Answered(q.app, r))
  <2>1. r.op \in {"issue", "members"} => r.net = q.app.selected
    BY Zenon, <1>3, <1>5 DEF SamePage
  <2>2. FieldsFit(Window!Answered(q.app, r)) /\ SamePage(q.app, Window!Answered(q.app, r))
    BY Zenon, <1>3, <2>1, AnswerFits
  <2> QED  BY Zenon, <1>3, <2>2 DEF SamePage
<1> HIDE DEF r
<1>7. CASE Window!Next1(Window!Answered(q.app, r), TRUE)
  BY Zenon, <1>1, <1>4, <1>6, <1>7, WorkerFits
<1>8. CASE Window!Next1(q.app, FALSE)
  BY Zenon, <1>1, <1>3, <1>4, <1>8, WorkerFits
<1> QED  BY Zenon, <1>2, <1>7, <1>8

\* The worker's other steps.
LEMMA WorkerKeeps ==
  ASSUME WindowInv,
         Window!Spawn \/ Window!ChildExits \/ Window!execute_process \/ Window!WorkerDies
           \/ Window!PressCancel
  PROVE  WindowInv'
<1>1. /\ job # None /\ UNCHANGED <<app, pending, sent>> /\ JobFits(job) /\ FieldsFit(job.app)
      /\ pending = None
  BY Zenon DEF Window!Spawn, Window!ChildExits, Window!execute_process, Window!WorkerDies,
         Window!PressCancel, Window!Working, WindowInv, JobFits, QuestionFits
<1>2. Window!TokenGoesHome'
  BY Zenon, <1>1 DEF WindowInv, Window!TokenGoesHome
<1>3. CASE job.todo # <<>> /\ \E ok : Window!Next1(job.app, ok)
  <2>1. SamePage(job.app, job.app)
    BY Zenon DEF SamePage
  <2> QED  BY Zenon, <1>1, <1>2, <1>3, <2>1, WorkerFits
<1>4. CASE \/ job' = [job EXCEPT !.child = TRUE]
           \/ job' = [job EXCEPT !.dead = TRUE]
           \/ job' = [job EXCEPT !.cancel = TRUE]
  <2>1. DOMAIN job' = DOMAIN job /\ job'.app = job.app /\ job'.todo = job.todo /\ job'.ask = job.ask
    BY <1>1, <1>4 DEF JobFits
  <2>2. JobFits(job')
    BY Zenon, <1>1, <2>1 DEF JobFits
  <2> QED  BY <1>1, <1>2, <2>2 DEF WindowInv, QuestionFits
<1> QED
  BY Zenon, <1>3, <1>4 DEF Window!Spawn, Window!ChildExits, Window!execute_process,
     Window!WorkerDies, Window!PressCancel, Window!Working

\* The copy replaces the fields (poll_job).
LEMMA PollFits ==
  ASSUME WindowInv, Window!poll_job
  PROVE  WindowInv'
<1>1. /\ job # None /\ job' = None /\ UNCHANGED <<pending, sent>> /\ app' \in {app, job.app}
  BY Zenon DEF Window!poll_job, Window!apply
<1>2. pending = None /\ FieldsFit(app')
  BY Zenon, <1>1 DEF WindowInv, QuestionFits, JobFits
<1> QED  BY <1>1, <1>2 DEF WindowInv, QuestionFits, Window!TokenGoesHome

\* Another address, a token, and a question asked.
LEMMA PageKeeps ==
  ASSUME None \notin Nets, WindowInv,
         \/ \E c \in Controllers : Window!controller_address_ui(c)
         \/ Window!EnterToken
         \/ \E p \in Window!PendingActions : Window!confirm_action(p)
         \/ Window!request_close \/ Window!close_confirmation_ui
  PROVE  WindowInv'
<1>1. FieldsFit(Window!Page) /\ SamePage(app, Window!Page)
  BY Zenon, PanelFits DEF WindowInv, Window!Page
<1>2. ASSUME NEW c, Window!controller_address_ui(c)
      PROVE  WindowInv'
  <2>1. /\ pending = None /\ UNCHANGED <<job, pending, sent>>
        /\ app' = Window!switch_controller_context(Window!Page, c)
    BY Zenon, <1>2 DEF Window!controller_address_ui, Window!can_start_action
  <2>2. FieldsFit(app')
    BY Zenon, <1>1, <2>1, SwitchFits
  <2> QED  BY Zenon, <2>1, <2>2, FieldsStay
<1>3. CASE Window!EnterToken
  <2> DEFINE p == Window!Page
  <2>1. pending = None /\ UNCHANGED <<job, pending, sent>> /\ app' = [p EXCEPT !.admin = app.controller]
    BY Zenon, <1>3 DEF Window!EnterToken, Window!can_start_action
  <2>2. FieldsFit(p) /\ p.controller = app.controller
    BY Zenon, <1>1 DEF SamePage
  <2> HIDE DEF p
  <2>3. /\ DOMAIN app' = DOMAIN p /\ app'.editor = p.editor /\ app'.told = p.told
        /\ app'.shown = p.shown /\ app'.controller = p.controller
        /\ app'.selected = p.selected /\ app'.admin = p.controller
    BY <2>1, <2>2 DEF FieldsFit, Shape
  <2>4. SamePage(p, app') /\ app'.admin \in {None, app'.controller}
    BY Zenon, <2>3 DEF SamePage
  <2>5. FieldsFit(app')
    BY Zenon, <2>2, <2>3, <2>4, TokenFits
  <2> QED  BY Zenon, <2>1, <2>5, FieldsStay
<1>4. ASSUME NEW p \in Window!PendingActions, Window!confirm_action(p)
      PROVE  WindowInv'
  <2>1. /\ job = None /\ UNCHANGED <<job, sent>> /\ app' = Window!Page
        /\ pending' = [op |-> p.op, net |-> p.net, at |-> app.controller]
        /\ p.net # None => app.selected = p.net \/ p.op = "delete"
    BY Zenon, <1>4 DEF Window!confirm_action, Window!can_start_action
  <2>2. p.op \in {"remove", "revoke"} => p.net # None
    BY <1>4 DEF Window!PendingActions
  <2>3. app'.controller = app.controller /\ app'.selected = app.selected /\ FieldsFit(app')
    BY Zenon, <1>1, <2>1 DEF SamePage
  <2>4. p.op \in {"remove", "revoke"} => p.net = app'.selected
    BY <2>1, <2>2, <2>3
  <2>5. pending' = [op |-> p.op, net |-> p.net, at |-> app'.controller]
    BY Zenon, <2>1, <2>3
  <2>6. \E e \in Window!PendingActions :
          /\ pending' = [op |-> e.op, net |-> e.net, at |-> app'.controller]
          /\ e.op \in {"remove", "revoke"} => e.net = app'.selected
    BY Zenon, <2>4, <2>5
  <2>7. QuestionFits'
    BY <2>1, <2>6 DEF QuestionFits, Window!PendingActions
  <2> QED  BY <2>1, <2>3, <2>7 DEF WindowInv, Window!TokenGoesHome
<1>5. CASE Window!request_close \/ Window!close_confirmation_ui
  <2>1. UNCHANGED <<app, job, pending, sent>> /\ FieldsFit(app')
    BY Zenon, <1>5 DEF Window!request_close, Window!close_confirmation_ui, WindowInv
  <2> QED  BY Zenon, <2>1, FieldsStay
<1> QED  BY Zenon, <1>2, <1>3, <1>4, <1>5

\* A window that opens.
LEMMA WindowInit == Window!Init => WindowInv
<1> SUFFICES ASSUME Window!Init PROVE WindowInv
  OBVIOUS
<1>1. PICK t \in {None, Local} : app = [Window!Initially EXCEPT !.admin = t, !.bound = t, !.home = t]
  BY Zenon DEF Window!Init
<1>2. /\ job = [app |-> app, todo |-> Window!refresh, ask |-> None, child |-> FALSE,
                cancel |-> FALSE, dead |-> FALSE]
      /\ pending = None /\ sent = None
  BY Zenon DEF Window!Init
<1>3. /\ DOMAIN app = {"controller", "admin", "bound", "home", "shown", "selected", "editor", "told"}
      /\ app.controller = Local /\ app.admin = t /\ app.shown = Window!Blank
      /\ app.selected = None /\ app.editor = Window!Fresh
  BY <1>1 DEF Window!Initially
<1>4. DOMAIN app.shown = Parts /\ \A q \in Parts : app.shown[q] = None
  BY <1>3 DEF Window!Blank, Parts
<1>5. DOMAIN app.editor = {"target", "loaded", "stale", "at"} /\ ~Window!request(app.editor)
  BY <1>3 DEF Window!Fresh, Window!request
<1>6. FieldsFit(app)
  BY Zenon, <1>3, <1>4, <1>5 DEF FieldsFit, Shape, DraftFits, ShownFits
<1>7. TodoFits(Window!refresh, app, None, TRUE)
  BY Zenon, UnaskedFits DEF Window!Unasked
<1>8. /\ DOMAIN job = {"app", "todo", "ask", "child", "cancel", "dead"}
      /\ job.app = app /\ job.todo = Window!refresh /\ job.ask = None
  BY <1>2
<1>9. JobFits(job)
  BY Zenon, <1>6, <1>7, <1>8 DEF JobFits
<1> QED  BY Zenon, <1>2, <1>6, <1>9 DEF WindowInv, QuestionFits, Window!TokenGoesHome

\* Every step keeps the invariant.
LEMMA WindowStep ==
  ASSUME None \notin Nets, WindowInv, Window!Next \/ UNCHANGED Window!vars
  PROVE  WindowInv'
<1>1. ASSUME NEW todo \in Window!Unasked, Window!Press(todo)
      PROVE  WindowInv'
  <2>1. TodoFits(todo, Window!Page, None, TRUE)
    BY Zenon, UnaskedFits
  <2> QED  BY Zenon, <1>1, <2>1, PressFits
<1>2. ASSUME NEW todo \in Window!UnaskedFor(Window!Page.selected), Window!Press(todo)
      PROVE  WindowInv'
  <2>1. TodoFits(todo, Window!Page, None, FALSE)
    BY Zenon, UnaskedForFits
  <2> QED  BY Zenon, <1>2, <2>1, PressFits
<1>3. CASE Window!PressDraft
  <2>1. /\ TodoFits(Window!save_policy(Window!Page.selected), Window!Page, None, TRUE)
        /\ TodoFits(Window!import_policy_file, Window!Page, None, TRUE)
    BY Zenon, OthersFit
  <2>2. Window!Press(Window!save_policy(Window!Page.selected)) \/ Window!Press(Window!import_policy_file)
    BY Zenon, <1>3 DEF Window!PressDraft
  <2> QED  BY Zenon, <2>1, <2>2, PressFits
<1>4. ASSUME NEW c \in Controllers, Window!Press(Window!join_invite_link(c))
      PROVE  WindowInv'
  <2>1. TodoFits(Window!join_invite_link(c), Window!Page, None, TRUE)
    BY Zenon, OthersFit
  <2> QED  BY Zenon, <1>4, <2>1, PressFits
<1>5. CASE UNCHANGED Window!vars
  <2>1. UNCHANGED <<app, job, pending, sent>> /\ FieldsFit(app')
    BY <1>5, Zenon DEF Window!vars, WindowInv
  <2> QED  BY Zenon, <2>1, FieldsStay
<1> QED
  BY Zenon, <1>1, <1>2, <1>3, <1>4, <1>5, SelectFits, PageKeeps, AnswerToQuestionFits,
     InsideFits,
     RequestKeeps, WorkerKeeps, PollFits DEF Window!Next

\* What the invariant says of the page and of the worker's next request.
LEMMA WindowSays == WindowInv => Window!ContextsApart /\ Window!DraftCurrent
<1> SUFFICES ASSUME WindowInv PROVE Window!ContextsApart /\ Window!DraftCurrent
  OBVIOUS
<1>1. Window!TokenGoesHome /\ Window!DraftCurrent
  BY Zenon DEF WindowInv, FieldsFit, DraftFits, Window!DraftCurrent
<1>2. Window!ShownBelongs
  BY Zenon DEF WindowInv, FieldsFit, Shape, ShownFits, Window!ShownBelongs
<1>3. Window!AskedHere
  <2> SUFFICES ASSUME job # None, job.todo # <<>>
               PROVE  LET r == Head(job.todo)
                      IN  /\ r.to = "controller" /\ r.op \in {"delete", "remove"} => job.ask # None
                          /\ r.to = "controller" /\ job.ask # None =>
                               job.ask.at = job.app.controller /\ (r.net # None => r.net = job.ask.net)
    BY Zenon DEF Window!AskedHere
  <2>1. PICK free \in BOOLEAN : TodoFits(job.todo, job.app, job.ask, free)
    BY Zenon DEF WindowInv, JobFits
  <2>2. SamePage(job.app, job.app)
    BY Zenon DEF SamePage
  <2>3. RequestFits(Head(job.todo), job.app, job.ask, free)
    BY Zenon, <2>1, <2>2, TodoMoves
  <2> QED  BY Zenon, <2>3 DEF RequestFits
<1> QED  BY <1>1, <1>2, <1>3, Zenon DEF Window!ContextsApart

\* A token, what a page shows and the answer to a question are used for the
\* controller and the network that they belong to, and no other: for any number
\* of controllers, networks, operations and dying workers
\* (controller_request, switch_controller_context, confirm_action).
THEOREM ContextsStayApart ==
  ASSUME None \notin Nets PROVE Window!Spec => []Window!ContextsApart
<1>1. WindowInv /\ [Window!Next]_(Window!vars) => WindowInv'
  BY WindowStep
<1> QED  BY <1>1, WindowInit, WindowSays, PTL DEF Window!Spec

\* A policy draft that may be saved was made knowing every exit change that the
\* window has reported, whatever worker's copy came back in between
\* (invalidate_after_exit_update, from_manifest).
THEOREM DraftsAreCurrent ==
  ASSUME None \notin Nets PROVE Window!Spec => []Window!DraftCurrent
<1>1. WindowInv /\ [Window!Next]_(Window!vars) => WindowInv'
  BY WindowStep
<1> QED  BY <1>1, WindowInit, WindowSays, PTL DEF Window!Spec
=============================================================================
