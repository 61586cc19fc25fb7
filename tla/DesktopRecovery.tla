-------------------------- MODULE DesktopRecovery --------------------------
(***************************************************************************)
(* The desktop application over several lives.  It may crash at any time   *)
(* and leave its backend running; an independent watcher reads the state   *)
(* file every few seconds and starts the application again if it ended     *)
(* without having been stopped.  The user may start it by hand meanwhile.  *)
(***************************************************************************)
EXTENDS BridgeSupervisor

CONSTANT MaxLaunch   \* bound: lives of the application

ASSUME LaunchAssumption == MaxLaunch \in Nat \ {0}

VARIABLES
  life,      \* the desktopPid of the state file, counted
  glimpse,   \* the life the watcher found dead and is about to restart, or 0
  lastWord   \* history: what was last decided about the bridge, "run" or "stop"

recoveryVars == <<life, glimpse, lastWord>>
allVars == <<vars, recoveryVars>>

Requested == saved.enabled /\ saved.wanted   \* Test-RecoveryRequested

-----------------------------------------------------------------------------
(* whenReady of a later start.  Only one instance gets the lock, so there  *)
(* is a launch only when the application is gone.                          *)
Launch(want) ==
  /\ app' = "running"
  /\ life' = life + 1
  /\ wanted' = want
  /\ saved' = [enabled |-> TRUE, wanted |-> want]
  /\ lastWord' = IF want THEN "run" ELSE "stop"
  /\ start' = IF want THEN "health" ELSE "idle"
  /\ watching' = TRUE
  /\ UNCHANGED <<child, awaited, timerVars, backoff, checking, misses, post,
                 processVars, historyVars>>

(* The user starts the application; auto_start is read from the settings.  *)
ManualLaunch ==
  /\ app = "gone" /\ life < MaxLaunch
  /\ \E auto \in BOOLEAN : Launch(auto)
  /\ UNCHANGED glimpse

(* The application ends without a word; what it told others stands.        *)
Crash ==
  /\ app # "gone"
  /\ Vanish
  /\ UNCHANGED <<wanted, saved, post, other, signalled, told, recoveryVars>>

(* Invoke-RecoveryCheck up to its second look at the state file.           *)
WatcherLooks ==
  /\ glimpse = 0 /\ life < MaxLaunch
  /\ Requested /\ app = "gone"
  /\ glimpse' = life
  /\ UNCHANGED <<vars, life, lastWord>>

(* Slip: the file is not read again.                                       *)
StillRequested_Assumed == TRUE

StillRequested == Requested /\ life = glimpse

(* The second look and the launch, with --bridge-recovery.                 *)
WatcherActs ==
  /\ glimpse # 0
  /\ glimpse' = 0
  /\ IF StillRequested
     THEN app = "gone" /\ Launch(TRUE)
     ELSE UNCHANGED <<vars, life, lastWord>>

-----------------------------------------------------------------------------
RecoveryInit == Init /\ life = 1 /\ glimpse = 0 /\ lastWord = (IF wanted THEN "run" ELSE "stop")

RecoveryNext ==
  \/ (StartStep \/ TimerStep \/ ProcessStep \/ Exit) /\ UNCHANGED recoveryVars
  \/ (TrayStop \/ Quit) /\ lastWord' = "stop" /\ UNCHANGED <<life, glimpse>>
  \/ TrayStart /\ lastWord' = "run" /\ UNCHANGED <<life, glimpse>>
  \/ ManualLaunch \/ Crash \/ WatcherLooks \/ WatcherActs

(* The watcher polls for ever; nobody needs to start the application.      *)
RecoverySpec ==
  /\ RecoveryInit /\ [][RecoveryNext]_allVars
  /\ Fairness
  /\ WF_allVars(WatcherLooks) /\ WF_allVars(WatcherActs)

-----------------------------------------------------------------------------
(* recovery/BridgeRecovery.ps1: a manual stop or quit wins.  The watcher   *)
(* starts the application only if the last decision was to run, although   *)
(* the user may start, stop and quit it between the watcher's two looks.   *)
StopWins ==
  [][glimpse # 0 /\ app # app' /\ glimpse' = 0 => lastWord = "run"]_allVars

(* An application that was lost while its bridge was wanted comes back,    *)
(* and the bridge with it, unless somebody decides otherwise.              *)
CrashRecovered ==
  (app = "gone" /\ lastWord = "run") ~>
    (Healthy \/ Blocked \/ lastWord = "stop" \/ life = MaxLaunch)
=============================================================================
