------------------------------ MODULE MCServices ------------------------------
(***************************************************************************)
(* The services of a host, one of them at work in a behaviour: what they   *)
(* do to each other is a reboot, which each of them has as a step.         *)
(***************************************************************************)
EXTENDS Backups, Upgrade, Connectivity, TLC

VARIABLE service

vars == <<service, backups_vars, upgrade_vars, connectivity_vars>>

ThreeVersions == << <<"system1">>, <<"kernel2", "system2">>, <<"kernel3", "system3">> >>
BuiltFrom ==
  [system1 |-> {}, kernel2 |-> {}, system2 |-> {"kernel2"}, kernel3 |-> {}, system3 |-> {"kernel3"}]
\* Two systems and the floor fit, three do not.
Sizes == [system1 |-> 6, kernel2 |-> 5, system2 |-> 1, kernel3 |-> 5, system3 |-> 1]

Init ==
  /\ service \in {"backups", "upgrade", "connectivity"}
  /\ BackupsInit /\ UpgradeInit /\ ConnectivityInit
  /\ service # "backups" => unit = "active"
  /\ service # "upgrade" => reboot = "none"
  /\ service # "connectivity" => has_dig /\ resolves /\ known /\ due = intervalSeconds

BackupsAt(step) ==
  service = "backups" /\ step /\ UNCHANGED <<service, upgrade_vars, connectivity_vars>>
UpgradeAt(step) ==
  service = "upgrade" /\ step /\ UNCHANGED <<service, backups_vars, connectivity_vars>>

Next ==
  \/ BackupsAt(BackupsNext)
  \/ UpgradeAt(UpgradeNext)
  \/ /\ service = "connectivity"
     /\ ConnectivityNext
     /\ UNCHANGED <<service, backups_vars, upgrade_vars>>

(***************************************************************************)
(* systemd runs the jobs it has and elapses its timers; a script goes on;  *)
(* a unit that starts comes up now and then; a build that can write does,  *)
(* and what it was told to do it does; a waiting upgrade starts although   *)
(* collections may come in between.                                        *)
(***************************************************************************)
FairSpec ==
  /\ Init /\ [][Next]_vars
  /\ \A b \in Names : WF_vars(BackupsAt(BackupStep(b)))
  /\ WF_vars(BackupsAt(Script))
  /\ WF_vars(BackupsAt(RestartEnds)) /\ WF_vars(BackupsAt(RestartAgain))
  /\ WF_vars(BackupsAt(UnitBegins)) /\ SF_vars(BackupsAt(UnitStarted))
  /\ WF_vars(BackupsAt(StopPostEnds)) /\ WF_vars(BackupsAt(RestartSec)) /\ WF_vars(BackupsAt(UnitDown))
  /\ WF_vars(UpgradeAt(Gc)) /\ WF_vars(UpgradeAt(UpgradeTimer))
  /\ WF_vars(UpgradeAt(UpgradeStep)) /\ SF_vars(UpgradeAt(UpgradeStarts))
  /\ WF_vars(UpgradeAt(BuildWrites)) /\ WF_vars(UpgradeAt(BuildSucceeds))
  /\ WF_vars(UpgradeAt(BuildFails)) /\ WF_vars(UpgradeAt(Look))
  /\ WF_vars(UpgradeAt(Shutdown))
=============================================================================
