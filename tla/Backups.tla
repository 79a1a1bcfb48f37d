------------------------------- MODULE Backups -------------------------------
(***************************************************************************)
(* modules/restic.nix: a unit is stopped while backups read its files, by  *)
(* way of three kinds of systemd units.  Starting restic-quiesce stops the *)
(* unit and stopping it starts the unit again; every backup that reads     *)
(* requires it through a restic-hold of its own; restic-restart is the     *)
(* start after the backup, retried while it fails.                         *)
(*                                                                         *)
(* The stopped unit, its administrator and what systemd does by itself     *)
(* (jobs, Restart=) are external.  Every systemctl call of a script is a   *)
(* step of its own, so anything can happen between two of them.            *)
(***************************************************************************)
EXTENDS Naturals, FiniteSets

CONSTANTS
  Names,          \* the backups that list the unit
  MaxBackups,     \* bound: runs of each backup
  MaxByHand       \* bound: what an administrator (or a switch) does, and reboots

VARIABLES
  unit,      \* the ActiveState of the unit, but auto-restart (activating) and
             \* stop-post (deactivating after a crash) set apart
  pending,   \* a start or restart job of the unit is listed
  backup,    \* name -> where restic-backups-<name> is
  hold,      \* name -> the state of restic-hold-<name>
  quiesce,   \* the state of restic-quiesce, or the call its script is at
  mark,      \* the file `restart` is in its RuntimeDirectory
  sampled,   \* the state of the unit its script has read
  restart,   \* the state of restic-restart
  wanted,    \* the unit is up or on its way up, or was to a look of the script
  intruded,  \* the unit was started by hand while it was held down
  runs,      \* name -> runs so far
  byHand     \* the administrator's acts so far

unit_vars == <<unit, pending>>
script_vars == <<quiesce, mark, sampled>>
ghosts == <<wanted, intruded>>
budgets == <<runs, byHand>>
backups_vars == <<unit_vars, backup, hold, script_vars, restart, ghosts, budgets>>

Down == {"inactive", "failed"}
Up == {"active", "activating", "auto-restart"}
Sampling == {"sample sub", "sample jobs"}

\* What `systemctl show` has to say of the unit.
ShownState ==
  CASE unit = "auto-restart" -> "activating"
    [] unit = "stop-post" -> "deactivating"
    [] OTHER -> unit

\* No backup is to start the unit: it has not marked it yet, or has started it.
Free ==
  /\ restart = "inactive"
  /\ \/ quiesce = "releasing"
     \/ quiesce \in {"inactive", "take over", "stop retry", "sample"} \union Sampling /\ ~mark

\* A boot: /run is empty and the unit is wanted by its target.
Booted ==
  [unit |-> "activating", pending |-> TRUE, backup |-> [b \in Names |-> "idle"],
   hold |-> [b \in Names |-> "inactive"], quiesce |-> "inactive", mark |-> FALSE,
   sampled |-> "inactive", restart |-> "inactive", wanted |-> TRUE, intruded |-> FALSE]

BackupsInit ==
  /\ unit \in {Booted.unit, "active"} /\ pending = (unit # "active")
  /\ backup = Booted.backup /\ hold = Booted.hold
  /\ quiesce = Booted.quiesce /\ mark = Booted.mark /\ sampled = Booted.sampled
  /\ restart = Booted.restart
  /\ wanted = Booted.wanted /\ intruded = Booted.intruded
  /\ runs = [b \in Names |-> 0] /\ byHand = 0

\* The power fails, or another service reboots the host.
HostReboots ==
  /\ byHand < MaxByHand
  /\ byHand' = byHand + 1
  /\ unit' = Booted.unit /\ pending' = Booted.pending
  /\ backup' = Booted.backup /\ hold' = Booted.hold
  /\ quiesce' = Booted.quiesce /\ mark' = Booted.mark /\ sampled' = Booted.sampled
  /\ restart' = Booted.restart
  /\ wanted' = Booted.wanted /\ intruded' = Booted.intruded
  /\ UNCHANGED runs

-----------------------------------------------------------------------------
(***************************************************************************)
(* restic-backups-<name>: prepare (open the repository, try the sandbox,   *)
(* unlock), hold, read, release, maintain.                                 *)
(***************************************************************************)
BackupStarts(b) ==
  /\ backup[b] = "idle"
  /\ runs[b] < MaxBackups
  /\ backup' = [backup EXCEPT ![b] = "prepare"]
  /\ runs' = [runs EXCEPT ![b] = @ + 1]
  /\ UNCHANGED <<unit_vars, hold, script_vars, restart, ghosts, byHand>>

\* ExecStartPre, `systemctl start restic-hold-<name>`: the job of the hold
\* unit waits for that of the quiesce unit.
StartHold(b) ==
  /\ backup[b] = "prepare"
  /\ backup' = [backup EXCEPT ![b] = "hold"]
  /\ hold' = [hold EXCEPT ![b] = IF @ = "inactive" THEN "starting" ELSE @]
  /\ UNCHANGED <<unit_vars, script_vars, restart, ghosts, budgets>>

\* The call has returned, restic reads.
StartReading(b) ==
  /\ backup[b] = "hold"
  /\ hold[b] = "active"
  /\ backup' = [backup EXCEPT ![b] = "read"]
  /\ UNCHANGED <<unit_vars, hold, script_vars, restart, ghosts, budgets>>

\* ExecStart, second command: `systemctl stop restic-hold-<name>`.
StopHold(b) ==
  /\ backup[b] = "read"
  /\ backup' = [backup EXCEPT ![b] = "maintain"]
  /\ hold' = [hold EXCEPT ![b] = "inactive"]
  /\ UNCHANGED <<unit_vars, script_vars, restart, ghosts, budgets>>

\* Retention and check are through; or any step has failed or was killed.
BackupEnds(b) ==
  /\ backup[b] # "idle"
  /\ backup' = [backup EXCEPT ![b] = "idle"]
  /\ UNCHANGED <<unit_vars, hold, script_vars, restart, ghosts, budgets>>

\* Requires= and After=: the quiesce unit is up.
HoldStarts(b) ==
  /\ hold[b] = "starting"
  /\ quiesce = "active"
  /\ hold' = [hold EXCEPT ![b] = "active"]
  /\ UNCHANGED <<unit_vars, backup, script_vars, restart, ghosts, budgets>>

\* BindsTo=: the backup is over, however it ended.
HoldReleased(b) ==
  /\ hold[b] = "active"
  /\ backup[b] = "idle"
  /\ hold' = [hold EXCEPT ![b] = "inactive"]
  /\ UNCHANGED <<unit_vars, backup, script_vars, restart, ghosts, budgets>>

BackupStep(b) ==
  \/ StartHold(b)
  \/ StartReading(b)
  \/ StopHold(b)
  \/ BackupEnds(b)
  \/ HoldStarts(b)
  \/ HoldReleased(b)

-----------------------------------------------------------------------------
(***************************************************************************)
(* restic-quiesce: its start, which stops the unit (quiesceStopScript),    *)
(* and its stop, which starts it (quiesceStartScript).                     *)
(***************************************************************************)
QuiesceStarts ==
  /\ quiesce = "inactive"
  /\ \E b \in Names : hold[b] = "starting"
  /\ quiesce' = "take over"
  /\ UNCHANGED <<unit_vars, backup, hold, mark, sampled, restart, ghosts, budgets>>

\* The start after an earlier backup is still being retried: it is taken over.
TakeOver ==
  /\ quiesce = "take over"
  /\ mark' = (restart # "inactive")
  /\ quiesce' = "stop retry"
  /\ UNCHANGED <<unit_vars, backup, hold, sampled, restart, ghosts, budgets>>

\* Mutant: the retry is left to itself.
LeaveTheRetry ==
  /\ quiesce = "stop retry"
  /\ quiesce' = "sample"
  /\ UNCHANGED <<unit_vars, backup, hold, mark, sampled, restart, ghosts, budgets>>

\* `systemctl stop restic-restart-<unit>`; a start it has asked for goes on.
StopRetry ==
  /\ quiesce = "stop retry"
  /\ restart' = "inactive"
  /\ quiesce' = "sample"
  /\ UNCHANGED <<unit_vars, backup, hold, mark, sampled, ghosts, budgets>>

SampleState ==
  /\ quiesce = "sample"
  /\ sampled' = ShownState
  /\ wanted' = (unit \in Up \/ mark)
  /\ quiesce' = "sample sub"
  /\ UNCHANGED <<unit_vars, backup, hold, mark, restart, intruded, budgets>>

\* The second `systemctl show`.  The SubState is of this moment; it says
\* auto-restart or something that makes no difference.
SampleSubState ==
  /\ quiesce = "sample sub"
  /\ sampled' = IF sampled = "activating" /\ unit = "auto-restart" THEN unit ELSE sampled
  /\ quiesce' = "sample jobs"
  /\ UNCHANGED <<unit_vars, backup, hold, mark, restart, ghosts, budgets>>

\* Mutant: a unit that waits out RestartSec is taken for one that is down.
MarkOnlyRunning ==
  /\ quiesce = "sample jobs"
  /\ mark' = (mark \/ sampled \in {"active", "activating"} \/ pending)
  /\ wanted' = (wanted \/ pending)
  /\ quiesce' = IF pending \/ sampled = "activating" THEN "join" ELSE "stop"
  /\ UNCHANGED <<unit_vars, backup, hold, sampled, restart, intruded, budgets>>

\* list-jobs.  A unit that is up or on its way up is marked; a start that is
\* under way is let finish first.
SampleJobs ==
  /\ quiesce = "sample jobs"
  /\ mark' = (mark \/ sampled \in Up \/ pending)
  /\ wanted' = (wanted \/ pending)
  /\ quiesce' = IF pending \/ sampled = "activating" THEN "join" ELSE "stop"
  /\ UNCHANGED <<unit_vars, backup, hold, sampled, restart, intruded, budgets>>

\* `systemctl start <unit> || true`: it joins the job that is listed, asks for
\* one if the unit has gone down meanwhile, and returns when the job is over.
Join ==
  /\ quiesce = "join"
  /\ pending' = (pending \/ unit # "active")
  /\ unit' = IF unit = "auto-restart" THEN "activating" ELSE unit
  /\ quiesce' = "joining"
  /\ UNCHANGED <<backup, hold, mark, sampled, restart, ghosts, budgets>>

Joined ==
  /\ quiesce = "joining"
  /\ ~pending
  /\ quiesce' = "stop"
  /\ UNCHANGED <<unit_vars, backup, hold, mark, sampled, restart, ghosts, budgets>>

\* What a stop job does to the unit: a start under way, listed or automatic,
\* is cancelled.
StopJob ==
  /\ pending' = FALSE
  /\ unit' = CASE unit \in {"active", "activating", "stop-post"} -> "deactivating"
               [] unit = "auto-restart" -> "inactive"
               [] OTHER -> unit

\* `systemctl stop <unit>`.
StopUnit ==
  /\ quiesce = "stop"
  /\ StopJob
  /\ quiesce' = "stopping"
  /\ UNCHANGED <<backup, hold, mark, sampled, restart, ghosts, budgets>>

UnitStopped ==
  /\ quiesce = "stopping"
  /\ unit \in Down /\ ~pending
  /\ quiesce' = "active"
  /\ UNCHANGED <<unit_vars, backup, hold, mark, sampled, restart, ghosts, budgets>>

\* Someone's start has replaced the stop job: the call fails, and with it the
\* script, the hold units that wait for it and their backups.
QuiesceFails ==
  /\ quiesce = "stopping"
  /\ pending
  /\ quiesce' = "inactive" /\ mark' = FALSE
  /\ hold' = [b \in Names |-> IF hold[b] = "starting" THEN "inactive" ELSE hold[b]]
  /\ backup' = [b \in Names |-> IF backup[b] = "hold" THEN "idle" ELSE backup[b]]
  /\ UNCHANGED <<unit_vars, sampled, restart, ghosts, budgets>>

\* StopWhenUnneeded=: no hold unit is up, nor on its way up.
Release ==
  /\ quiesce = "active"
  /\ \A b \in Names : hold[b] = "inactive"
  /\ quiesce' = "release"
  /\ UNCHANGED <<unit_vars, backup, hold, mark, sampled, restart, ghosts, budgets>>

\* The stop script: `systemctl start restic-restart-<unit>` if the unit is marked.
StartAgain ==
  /\ quiesce = "release"
  /\ quiesce' = "releasing"
  /\ restart' = IF mark THEN "running" ELSE restart
  /\ pending' = (pending \/ (mark /\ unit # "active"))
  /\ unit' = IF mark /\ unit = "auto-restart" THEN "activating" ELSE unit
  /\ UNCHANGED <<backup, hold, mark, sampled, ghosts, budgets>>

\* The first run of restic-restart is over, well or badly; the RuntimeDirectory
\* goes away with the unit.
QuiesceStops ==
  /\ quiesce = "releasing"
  /\ restart # "running"
  /\ quiesce' = "inactive" /\ mark' = FALSE
  /\ intruded' = FALSE
  /\ UNCHANGED <<unit_vars, backup, hold, sampled, restart, wanted, budgets>>

Script ==
  \/ QuiesceStarts
  \/ TakeOver
  \/ StopRetry
  \/ SampleState
  \/ SampleSubState
  \/ SampleJobs
  \/ Join
  \/ Joined
  \/ StopUnit
  \/ UnitStopped
  \/ QuiesceFails
  \/ Release
  \/ StartAgain
  \/ QuiesceStops

-----------------------------------------------------------------------------
(***************************************************************************)
(* restic-restart: ExecStart is `systemctl start <unit>`, Restart=on-      *)
(* failure runs it again 15 minutes later.  A run ends with the unit's job *)
(* (UnitStarted, UnitFails), or here if there is none or it was cancelled. *)
(***************************************************************************)
RestartEnds ==
  /\ restart = "running"
  /\ ~pending
  /\ restart' = IF unit = "active" THEN "inactive" ELSE "waiting"
  /\ UNCHANGED <<unit_vars, backup, hold, script_vars, ghosts, budgets>>

RestartAgain ==
  /\ restart = "waiting"
  /\ restart' = "running"
  /\ pending' = (pending \/ unit # "active")
  /\ unit' = IF unit = "auto-restart" THEN "activating" ELSE unit
  /\ UNCHANGED <<backup, hold, script_vars, ghosts, budgets>>

-----------------------------------------------------------------------------
(***************************************************************************)
(* The unit.                                                               *)
(***************************************************************************)
UnitBegins ==
  /\ unit \in Down /\ pending
  /\ unit' = "activating"
  /\ UNCHANGED <<pending, backup, hold, script_vars, restart, ghosts, budgets>>

UnitStarted ==
  /\ unit = "activating"
  /\ unit' = "active" /\ pending' = FALSE
  /\ restart' = IF restart = "running" THEN "inactive" ELSE restart
  /\ UNCHANGED <<backup, hold, script_vars, ghosts, budgets>>

\* A start fails, or the unit crashes.
UnitFails ==
  /\ unit \in {"activating", "active"}
  /\ unit' = "stop-post" /\ pending' = FALSE
  /\ restart' = IF restart = "running" /\ unit = "activating" THEN "waiting" ELSE restart
  /\ UNCHANGED <<backup, hold, script_vars, ghosts, budgets>>

\* What is left of it is gone: it is restarted after RestartSec, or has used
\* up its restarts.
StopPostEnds ==
  /\ unit = "stop-post"
  /\ unit' \in {"auto-restart", "failed"}
  /\ wanted' = (wanted /\ ~(Free /\ unit' = "failed" /\ ~pending))
  /\ UNCHANGED <<pending, backup, hold, script_vars, restart, intruded, budgets>>

RestartSec ==
  /\ unit = "auto-restart"
  /\ unit' = "activating" /\ pending' = TRUE
  /\ UNCHANGED <<backup, hold, script_vars, restart, ghosts, budgets>>

UnitDown ==
  /\ unit = "deactivating"
  /\ unit' = "inactive"
  /\ UNCHANGED <<pending, backup, hold, script_vars, restart, ghosts, budgets>>

\* The administrator starts the unit, restarts it (as a switch does), stops
\* it, or stops restic-restart.
ByHand ==
  /\ byHand < MaxByHand
  /\ byHand' = byHand + 1
  /\ \/ /\ unit # "active"
        /\ pending' = TRUE
        /\ unit' = IF unit = "auto-restart" THEN "activating" ELSE unit
        /\ wanted' = (wanted \/ (Free /\ quiesce \notin Sampling))
        /\ intruded' = (intruded \/ quiesce \in {"active", "release", "releasing"})
        /\ UNCHANGED restart
     \/ /\ unit = "active"
        /\ unit' = "deactivating" /\ pending' = TRUE
        /\ UNCHANGED <<restart, ghosts>>
     \/ /\ StopJob
        /\ wanted' = (wanted /\ ~Free)
        /\ UNCHANGED <<restart, intruded>>
     \/ /\ restart # "inactive"
        /\ restart' = "inactive"
        /\ wanted' = FALSE
        /\ UNCHANGED <<unit_vars, intruded>>
  /\ UNCHANGED <<backup, hold, script_vars, runs>>

BackupsNext ==
  \/ \E b \in Names : BackupStarts(b) \/ BackupStep(b)
  \/ Script
  \/ RestartEnds
  \/ RestartAgain
  \/ UnitBegins
  \/ UnitStarted
  \/ UnitFails
  \/ StopPostEnds
  \/ RestartSec
  \/ UnitDown
  \/ ByHand
  \/ HostReboots

BackupsSpec == BackupsInit /\ [][BackupsNext]_backups_vars

-----------------------------------------------------------------------------
\* restic reads the unit's files only while the unit is down and stays down,
\* whatever other backups, retries and restarts are under way; unless it was
\* started by hand under the backup (quiesceStopScript, the hold units).
ReadsAtRest ==
  \A b \in Names : backup[b] = "read" => (unit \in Down /\ ~pending) \/ intruded

\* A unit that one of the script's three looks found up, or on its way up, is
\* up again after the backups, however they, the start after them or the host
\* end (the mark, quiesceStartScript, restartServiceFor).
ComesBack == wanted ~> (unit = "active" \/ ~wanted)

\* What quiesceStopScript says of its mark, "Started again afterwards: a unit
\* that is up or on its way up, a crash loop waiting out RestartSec included":
\* at the stop a unit without the mark is neither.
UpIsMarked == quiesce = "stop" /\ ~mark => unit \notin Up /\ ~pending
=============================================================================
