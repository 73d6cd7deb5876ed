------------------------------- MODULE Updater -------------------------------
(***************************************************************************)
(* The program replaces itself: an administrator asks for an upgrade, the  *)
(* newest release is downloaded and unpacked beside the program, and a     *)
(* goroutine moves the program aside, the new one in its place, and starts *)
(* it in the same process.  Each move may fail, and the process may die    *)
(* between any two; whoever supervises it then starts what is installed.   *)
(***************************************************************************)
EXTENDS Integers, FiniteSets, FiniteSetsExt

CONSTANTS
  Version,    \* of the releases, numbers above 0; 0 is a development build
  MaxPath,    \* how often ".old" is appended to the program's name
  MaxFaults   \* bound on moves that fail

UpdaterAssumption == Version \subseteq Nat \ {0} /\ MaxPath \in Nat /\ MaxFaults \in Nat

Path   == 0 .. MaxPath   \* 0 is where the program is installed
Binary == [ver : Version, runs : BOOLEAN]   \* a file that is no program for here does not run
None   == [ver |-> 0, runs |-> FALSE]
Asset  == [ver : Version \cup {0}, draft : BOOLEAN, fits : BOOLEAN]

VARIABLES
  file,      \* file[p]: the program at path p
  proc,      \* the process: up or not, its version, and the path of its program
  upgrading, \* the flag that keeps a second upgrade out
  job,       \* the goroutine of the upgrade: where it is, its program, the new one
  harmed,    \* a start of the installed program may fail for a known reason
  faults

vars == <<file, proc, upgrading, job, harmed, faults>>

NoJob == [at |-> "none", path |-> 0, new |-> None]
Steps == {"remove", "backup", "install", "chmod", "exec"}

TypeOK ==
  /\ file \in [Path -> Binary \cup {None}]
  /\ proc \in [up : BOOLEAN, ver : Version, path : Path]
  /\ upgrading \in BOOLEAN
  /\ job \in {NoJob} \cup [at : Steps, path : Path, new : Binary]
  /\ harmed \in BOOLEAN /\ faults \in 0 .. MaxFaults

Init ==
  /\ \E v \in Version :
       /\ file = [p \in Path |-> IF p = 0 THEN [ver |-> v, runs |-> TRUE] ELSE None]
       /\ proc = [up |-> TRUE, ver |-> v, path |-> 0]
  /\ upgrading = FALSE /\ job = NoJob /\ harmed = FALSE /\ faults = 0

-----------------------------------------------------------------------------
\* A release has a version, is no draft, and has an uploaded archive for this
\* system under one of the names that are expected.
Usable(a) == a.ver # 0 /\ ~a.draft /\ a.fits

\* The newest of them, if there is any.
Newest(assets) ==
  LET usable == {a.ver : a \in {x \in assets : Usable(x)}}
  IN IF usable = {} THEN {} ELSE {Max(usable)}

\* The file of the archive that is taken for the program: the only one that looks
\* like one, or the one with the program's name.
Chosen(archive) ==
  IF Cardinality(archive) = 1 THEN archive ELSE archive \intersect {"program"}

\* The answer to the request lists releases, two stand for all; the archive holds
\* some files.  Any error removes what was unpacked and changes nothing else.
PrepareUpgrade ==
  /\ proc.up /\ ~upgrading /\ proc.path < MaxPath
  /\ \E a, b \in Asset, archive \in SUBSET {"program", "helper"} :
       \E v \in Newest({a, b}), f \in Chosen(archive) :
         /\ v > proc.ver
         /\ job' = [at |-> "remove", path |-> proc.path, new |-> [ver |-> v, runs |-> f = "program"]]
  /\ upgrading' = TRUE
  /\ UNCHANGED <<file, proc, harmed, faults>>

-----------------------------------------------------------------------------
Backup == job.path + 1

MayFail == faults < MaxFaults /\ faults' = faults + 1

\* The goroutine gives up; the next request may try again.
FinishUpgrade == job' = NoJob /\ upgrading' = FALSE

Goto(at) == job' = [job EXCEPT !.at = at] /\ UNCHANGED upgrading

\* Where the program of the process is once path p has been moved to q.
Moved(p, q) == proc' = [proc EXCEPT !.path = IF @ = p THEN q ELSE @]

RemoveBackup ==
  /\ job.at = "remove"
  /\ file' = [file EXCEPT ![Backup] = None]
  /\ Goto("backup")
  /\ UNCHANGED <<proc, harmed, faults>>

RenameToBackup ==
  /\ job.at = "backup"
  /\ file' = [file EXCEPT ![Backup] = file[job.path], ![job.path] = None]
  /\ Moved(job.path, Backup)
  /\ Goto("install")
  /\ UNCHANGED <<harmed, faults>>

RenameStaged ==
  /\ job.at = "install"
  /\ file' = [file EXCEPT ![job.path] = job.new]
  /\ Goto("chmod")
  /\ UNCHANGED <<proc, harmed, faults>>

Chmod ==
  /\ job.at = "chmod"
  /\ Goto("exec")
  /\ UNCHANGED <<file, proc, harmed, faults>>

\* The old backup, or the program, cannot be moved: nothing has happened yet.
BackupFails ==
  /\ job.at \in {"remove", "backup"} /\ MayFail
  /\ FinishUpgrade
  /\ UNCHANGED <<file, proc, harmed>>

\* A mutant of InstallFails: the program stays where it was moved.
InstallFailsForGood ==
  /\ job.at \in {"install", "chmod"} /\ MayFail
  /\ FinishUpgrade
  /\ UNCHANGED <<file, proc, harmed>>

\* The new program cannot be moved, or made executable: it is removed, and the old one
\* moved back, which may fail too.
InstallFails ==
  /\ job.at \in {"install", "chmod"} /\ MayFail
  /\ FinishUpgrade
  /\ \/ /\ file' = [file EXCEPT ![job.path] = file[Backup], ![Backup] = None]
        /\ Moved(Backup, job.path)
        /\ UNCHANGED harmed
     \/ file' = [file EXCEPT ![job.path] = None] /\ harmed' = TRUE /\ UNCHANGED proc

\* The process goes on with the new program, from its beginning.
Exec ==
  /\ job.at = "exec" /\ job.new.runs
  /\ proc' = [up |-> TRUE, ver |-> job.new.ver, path |-> job.path]
  /\ FinishUpgrade
  /\ UNCHANGED <<file, harmed, faults>>

\* What has been installed does not run: the old program goes on, from its backup.
ExecFails ==
  /\ job.at = "exec" /\ ~job.new.runs
  /\ FinishUpgrade
  /\ harmed' = TRUE
  /\ UNCHANGED <<file, proc, faults>>

-----------------------------------------------------------------------------
\* The process dies; between two moves nothing may be installed.
Crash ==
  /\ proc.up
  /\ proc' = [proc EXCEPT !.up = FALSE]
  /\ FinishUpgrade
  /\ harmed' = (harmed \/ job.at = "install" \/ (job.at \in {"chmod", "exec"} /\ ~job.new.runs))
  /\ UNCHANGED <<file, faults>>

Start ==
  /\ ~proc.up /\ file[0].runs
  /\ proc' = [up |-> TRUE, ver |-> file[0].ver, path |-> 0]
  /\ harmed' = FALSE
  /\ UNCHANGED <<file, upgrading, job, faults>>

\* Nothing that runs is installed: an administrator puts the program there.
Reinstall ==
  /\ ~proc.up /\ ~file[0].runs
  /\ \E v \in Version : v >= proc.ver /\ file' = [file EXCEPT ![0] = [ver |-> v, runs |-> TRUE]]
  /\ harmed' = FALSE
  /\ UNCHANGED <<proc, upgrading, job, faults>>

Next ==
  \/ PrepareUpgrade
  \/ RemoveBackup \/ RenameToBackup \/ RenameStaged \/ Chmod \/ Exec
  \/ BackupFails \/ InstallFails \/ ExecFails
  \/ Crash \/ Start \/ Reinstall

Spec == Init /\ [][Next]_vars

-----------------------------------------------------------------------------
(***************************************************************************)
(* Properties                                                              *)
(***************************************************************************)
\* Whatever fails, some path holds a program that runs; and outside an upgrade the
\* installed one runs and is no older than the one that is, or was, running, unless
\* the process died between the two moves, the old program could not be moved back,
\* or the archive held something else (apps/admin/updater/restart_unix.go:30).
UpgradeIsRecoverable ==
  /\ \E p \in Path : file[p].runs
  /\ job.at = "none" /\ ~harmed => file[0].runs /\ file[0].ver >= proc.ver
=============================================================================
