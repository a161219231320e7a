------------------------------ MODULE Updater -------------------------------
(***************************************************************************)
(* POST /upgrade: updater.Update replaces the executable file by a package *)
(* it downloads, under a mutex, and runRestart starts the new one.  Any    *)
(* step may fail, the machine may stop between two steps, and what is on   *)
(* disk is all that the next process finds.  The disk is described for     *)
(* systems where a rename is atomic (not Windows).                         *)
(***************************************************************************)
EXTENDS Integers

CONSTANTS
  MaxUpdates,   \* bound on the calls of Update
  MaxCrashes,   \* bound on the stops of the machine
  Nil

Contents == {"old", "new", "torn"}      \* torn: cut off, does not start

VARIABLE up

Disk == [exe |-> "old", backup |-> Nil, dir |-> FALSE, pkg |-> Nil, unpacked |-> Nil, named |-> TRUE]

Init ==
  up = [pc |-> "run", running |-> "old", disk |-> Disk,
        mkdirFailed |-> 0,              \* times that the directory was in the way
        updates |-> 0, crashes |-> 0, closeFailed |-> FALSE]

\* mu.Lock, getLatestVersion, updateDownloadURL and prepare
Update ==
  /\ up.pc = "run" /\ up.updates < MaxUpdates
  /\ up' = [up EXCEPT !.updates = @ + 1, !.pc = "version"]

\* No connection, nothing new, or the file of the executable is not there
Refuse ==
  /\ up.pc = "version"
  /\ up' = [up EXCEPT !.pc = "run"]

Prepare ==
  /\ up.pc = "version" /\ up.running = "old" /\ up.disk.exe # Nil
  /\ up' = [up EXCEPT !.pc = "download"]

\* clean, deferred once prepare has succeeded
Clean(d) == [d EXCEPT !.dir = FALSE, !.pkg = Nil, !.unpacked = Nil]

Fails == up' = [up EXCEPT !.pc = "run", !.disk = Clean(@)]

\* downloadPackageFile: the directory must not exist yet.
Download ==
  /\ up.pc = "download"
  /\ \/ up.disk.dir /\ up' = [up EXCEPT !.pc = "run", !.disk = Clean(@), !.mkdirFailed = @ + 1]
     \/ ~up.disk.dir /\ up' = [up EXCEPT !.pc = "unpack", !.disk.dir = TRUE, !.disk.pkg = "whole"]
     \/ ~up.disk.dir /\ Fails            \* the request, the limit of its length, or the file

\* gzFileUnpack and zipFileUnpack.  An error of Close is assigned to a local
\* variable after the result is set, and gets lost.  The name inside the
\* package may not be the one that prepare expects.
Unpack ==
  /\ up.pc = "unpack"
  /\ \/ \E named \in BOOLEAN :
          up' = [up EXCEPT !.pc = "backup", !.disk.unpacked = "new", !.disk.named = named]
     \/ up' = [up EXCEPT !.pc = "backup", !.disk.unpacked = "torn", !.closeFailed = TRUE]
     \/ Fails

\* backup: os.Rename
Backup ==
  /\ up.pc = "backup"
  /\ \/ up' = [up EXCEPT !.pc = "replace", !.disk.backup = up.disk.exe, !.disk.exe = Nil]
     \/ Fails

\* Mutant: the file is put in place before it is complete.
ReplaceTorn ==
  /\ up.pc = "replace"
  /\ up' = [up EXCEPT !.pc = "restart", !.disk = Clean([@ EXCEPT !.exe = "torn"])]

\* replace: os.Rename; the executable stays away if it fails.
Replace ==
  /\ up.pc = "replace"
  /\ \/ up.disk.named /\ up' = [up EXCEPT !.pc = "restart", !.disk = Clean([@ EXCEPT !.exe = up.disk.unpacked])]
     \/ Fails

\* runRestart: syscall.Exec, or the process ends.
Restart ==
  /\ up.pc = "restart"
  /\ up' = IF up.disk.exe \in {"old", "new"}
           THEN [up EXCEPT !.pc = "run", !.running = up.disk.exe] ELSE [up EXCEPT !.pc = "dead"]

\* POST /restart
AskRestart == up.pc = "run" /\ up.updates > 0 /\ up' = [up EXCEPT !.pc = "restart"]

\* The machine stops and comes back.  A file that was being written is torn.
Crash ==
  /\ up.pc \notin {"dead", "restart"} /\ up.crashes < MaxCrashes
  /\ \E made \in BOOLEAN :
       up' = [up EXCEPT !.crashes = @ + 1, !.pc = "restart",
                        !.disk.dir = @ \/ (made /\ up.pc = "download"),
                        !.disk.unpacked = IF up.pc = "unpack" THEN "torn" ELSE @]

Next ==
  \/ Update \/ Refuse \/ Prepare \/ Download \/ Unpack \/ Backup \/ Replace \/ Restart
  \/ AskRestart \/ Crash

Spec == Init /\ [][Next]_up

-----------------------------------------------------------------------------

\* Whatever fails and whenever the machine stops, an executable that starts is
\* on the disk, in its place or as the backup.
CanBeRepaired == {up.disk.exe, up.disk.backup} \cap {"old", "new"} # {}

\* What stands in the place of the executable starts, unless the error of a
\* Close was lost on the way.
NeverTorn == up.disk.exe = "torn" => up.closeFailed

\* A directory that a stop left behind makes one update fail, and not the next.
LeftoverBlocksOnce == up.mkdirFailed <= up.crashes

\* Of an update that is stopped anywhere: what is left to go on with.
UpdateCanBeRepaired == CanBeRepaired /\ NeverTorn /\ LeftoverBlocksOnce
=============================================================================
