-------------------------- MODULE BridgeSupervisor --------------------------
(***************************************************************************)
(* The part of the desktop application that keeps one backend process      *)
(* running: the asynchronous start, the watchdog, restarts with backoff,   *)
(* manual stop and start, and quitting.  The application runs on one event *)
(* loop; an action is the code between two suspension points, or one       *)
(* timer or process event.  Other programs may use the port, backends may  *)
(* crash or hang at any time.                                              *)
(***************************************************************************)
EXTENDS Naturals, FiniteSets

CONSTANTS
  Foreign,      \* what another program may be on the port
  Child,        \* the backend processes that may exist at a time
  None,         \* no process
  MaxRestart,   \* MAX_RESTART, the last step of the backoff
  MissLimit     \* failed checks after which the watchdog kills, 3

ASSUME SupervisorAssumption ==
  /\ None \notin Child
  /\ MaxRestart \in Nat \ {0}
  /\ MissLimit \in Nat \ {0}
  /\ "absent" \in Foreign /\ Foreign \subseteq {"absent", "serving", "hung"}

VARIABLES
  app,        \* "running", "quitting" (isQuitting) or "gone"
  wanted,     \* bridgeDesiredRunning
  saved,      \* the recovery state file: enabled and desiredRunning
  child,      \* bridgeProcess
  start,      \* where startBridgeProcess stands: "idle", "health", "port", "waiting"
  awaited,    \* its local child, while "waiting"
  restart,    \* bridgeRestartTimer is set
  backoff,    \* bridgeRestartCount
  stable,     \* the child bridgeStableTimer is set for, or None
  watching,   \* bridgeWatchdogTimer is set
  checking,   \* bridgeWatchdogChecking
  misses,     \* bridgeHealthFailureCount
  stopping,   \* children with a pending timer of stopBridgeProcess
  post,       \* a request to /admin/api/shutdown is on its way
  proc,       \* the processes, see Life
  other,      \* the program of someone else on the port
  signalled,  \* children that were sent SIGTERM
  told,       \* children that received the shutdown request
  asked,      \* history: children that a stop was directed at
  bad         \* history: failed checks of a child since it was last found healthy

startVars == <<start, awaited>>
timerVars == <<restart, stable, stopping>>
processVars == <<proc, other, signalled, told>>
historyVars == <<asked, bad>>
vars == <<app, wanted, saved, child, start, awaited, restart, backoff, stable,
          watching, checking, misses, stopping, post, proc, other, signalled,
          told, asked, bad>>

(* "free": no process; "starting": runs and does not listen yet; "serving" *)
(* and "hung" listen; "failed": could not be run, its error event is       *)
(* pending; "exited": its close event is pending.                          *)
Life == {"free", "starting", "serving", "hung", "failed", "exited"}

Alive(c) == proc[c] \in {"starting", "serving", "hung"}   \* exitCode === null
Listening(c) == proc[c] \in {"serving", "hung"}
Healthy == other = "serving" \/ \E c \in Child : proc[c] = "serving"
PortOpen == other # "absent" \/ \E c \in Child : Listening(c)
Blocked == other = "hung" \/ \E c \in Child : proc[c] = "hung" /\ child # c
Stopped == ~wanted \/ app # "running"

Lower(a, b) == IF a < b THEN a ELSE b

-----------------------------------------------------------------------------
(* scheduleBridgeRestart, called while shouldRestartBridge may have changed. *)
Schedule ==
  IF Stopped THEN UNCHANGED <<restart, backoff>>
  ELSE /\ restart' = TRUE
       /\ backoff' = Lower(backoff + 1, MaxRestart)

NoSchedule == UNCHANGED <<restart, backoff>>

(* Slip: the pending restart is not cancelled.                             *)
BeginStart_KeepsTimer(want) ==
  IF want /\ app = "running" /\ child = None /\ start = "idle"
  THEN start' = "health" /\ UNCHANGED restart
  ELSE UNCHANGED <<start, restart>>

(* startBridgeProcess up to its first await: it does nothing unless a      *)
(* backend is wanted, none runs and no start is in flight.                 *)
BeginStart(want) ==
  IF want /\ app = "running" /\ child = None /\ start = "idle"
  THEN start' = "health" /\ restart' = FALSE
  ELSE UNCHANGED <<start, restart>>

(* The first await of a start returns: a healthy bridge is reused.         *)
StartProbed ==
  /\ app # "gone" /\ start = "health"
  /\ \/ Stopped /\ start' = "idle" /\ UNCHANGED <<backoff, misses>>
     \/ /\ ~Stopped /\ Healthy
        /\ start' = "idle"
        /\ backoff' = 0 /\ misses' = 0
     \/ ~Stopped /\ start' = "port" /\ UNCHANGED <<backoff, misses>>
  /\ UNCHANGED <<app, wanted, saved, child, awaited, timerVars, watching,
                 checking, post, processVars, historyVars>>

(* The second await returns without a spawn: stopped meanwhile, the port   *)
(* is taken, or the backend is not installed.                              *)
StartGivesUp ==
  /\ app # "gone" /\ start = "port"
  /\ start' = "idle"
  /\ Schedule
  /\ UNCHANGED <<app, wanted, saved, child, awaited, stable, stopping, watching,
                 checking, misses, post, processVars, historyVars>>

(* Slip: what happened during the probe is not looked at.                  *)
SpawnAllowed_Always == ~PortOpen

SpawnAllowed == ~Stopped /\ ~PortOpen

(* The second await returns and the backend is spawned.  A process object  *)
(* is used again once nothing refers to it.                                *)
Spawn(c) ==
  /\ app # "gone" /\ start = "port" /\ SpawnAllowed
  /\ proc[c] = "free" /\ c \notin stopping
  /\ child' = c
  /\ start' = "waiting" /\ awaited' = c
  /\ proc' = [proc EXCEPT ![c] = "starting"]
  /\ UNCHANGED <<app, wanted, saved, timerVars, backoff, watching, checking,
                 misses, post, other, signalled, told, historyVars>>

(* Slip: failures counted against an earlier child are kept.               *)
CameUp_KeepsCount(c) ==
  stable' = c /\ bad' = [bad EXCEPT ![c] = 0] /\ UNCHANGED misses

CameUp(c) == stable' = c /\ bad' = [bad EXCEPT ![c] = 0] /\ misses' = 0

(* waitForBridgeHealthy returns true.                                      *)
WaitHealthy ==
  /\ app # "gone" /\ start = "waiting" /\ Healthy
  /\ start' = "idle" /\ awaited' = None
  /\ IF Stopped \/ child # awaited THEN UNCHANGED <<misses, stable, bad>>
     ELSE CameUp(awaited)
  /\ UNCHANGED <<app, wanted, saved, child, restart, stopping, backoff, watching,
                 checking, post, processVars, asked>>

(* waitForBridgeHealthy returns false, at its deadline or because the      *)
(* child is gone: a child that still runs is killed.                       *)
WaitFails ==
  /\ app # "gone" /\ start = "waiting"
  /\ start' = "idle" /\ awaited' = None
  /\ signalled' = IF ~Stopped /\ child = awaited /\ Alive(awaited)
                  THEN signalled \cup {awaited} ELSE signalled
  /\ UNCHANGED <<app, wanted, saved, child, timerVars, backoff, watching,
                 checking, misses, post, proc, other, told, historyVars>>

-----------------------------------------------------------------------------
(* bridgeRestartTimer fires.                                               *)
RestartFires ==
  /\ app # "gone" /\ restart
  /\ IF wanted /\ app = "running" /\ child = None /\ start = "idle"
     THEN start' = "health" ELSE UNCHANGED start
  /\ restart' = FALSE
  /\ UNCHANGED <<app, wanted, saved, child, awaited, stable, stopping, backoff,
                 watching, checking, misses, post, processVars, historyVars>>

(* bridgeStableTimer fires.                                                *)
StableFires ==
  /\ app # "gone" /\ stable # None
  /\ stable' = None
  /\ backoff' = IF child = stable /\ Alive(stable) THEN 0 ELSE backoff
  /\ UNCHANGED <<app, wanted, saved, child, startVars, restart, stopping, watching,
                 checking, misses, post, processVars, historyVars>>

(* The timer of stopBridgeProcess fires.                                   *)
StopFires(c) ==
  /\ app # "gone" /\ c \in stopping
  /\ stopping' = stopping \ {c}
  /\ signalled' = IF child = c /\ Alive(c) THEN signalled \cup {c} ELSE signalled
  /\ UNCHANGED <<app, wanted, saved, child, startVars, restart, stable, backoff,
                 watching, checking, misses, post, proc, other, told, historyVars>>

(* The interval of the watchdog fires and starts a check.                  *)
WatchdogTick ==
  /\ app # "gone" /\ watching /\ ~checking
  /\ ~Stopped /\ start = "idle" /\ ~restart
  /\ checking' = TRUE
  /\ UNCHANGED <<app, wanted, saved, child, startVars, timerVars, backoff, watching,
                 misses, post, processVars, historyVars>>

(* The check has an answer and something else happened meanwhile.          *)
WatchdogYields ==
  /\ app # "gone" /\ checking
  /\ Stopped \/ start # "idle" \/ restart
  /\ checking' = FALSE
  /\ UNCHANGED <<app, wanted, saved, child, startVars, timerVars, backoff, watching,
                 misses, post, processVars, historyVars>>

WatchdogHealthy ==
  /\ app # "gone" /\ checking
  /\ ~Stopped /\ start = "idle" /\ ~restart
  /\ Healthy
  /\ checking' = FALSE
  /\ misses' = 0
  /\ bad' = IF child = None THEN bad ELSE [bad EXCEPT ![child] = 0]
  /\ UNCHANGED <<app, wanted, saved, child, startVars, timerVars, backoff, watching,
                 post, processVars, asked>>

(* Slip: only a child that runs is looked after.                           *)
RecoverMissing_Not == UNCHANGED <<start, restart>>

RecoverMissing == BeginStart(wanted)   \* shouldRecoverUnownedBridge

(* The check failed: a child is killed at the limit, a missing one is      *)
(* started.  The count beyond the limit makes no difference.               *)
WatchdogUnhealthy ==
  /\ app # "gone" /\ checking
  /\ ~Stopped /\ start = "idle" /\ ~restart
  /\ checking' = FALSE
  /\ misses' = Lower(misses + 1, MissLimit)
  /\ IF child = None
     THEN RecoverMissing /\ UNCHANGED <<signalled, bad>>
     ELSE /\ signalled' = IF misses' >= MissLimit /\ Alive(child)
                          THEN signalled \cup {child} ELSE signalled
          /\ bad' = [bad EXCEPT ![child] = Lower(@ + 1, MissLimit)]
          /\ UNCHANGED <<start, restart>>
  /\ UNCHANGED <<app, wanted, saved, child, awaited, stable, stopping, backoff,
                 watching, post, proc, other, told, asked>>

-----------------------------------------------------------------------------
(* stopBridgeProcess.  With no child it still asks a borrowed bridge to     *)
(* end if the user asked for that; a child is asked over HTTP and killed   *)
(* when the timer fires.                                                   *)
StopProcess(borrowed, enabled) ==
  /\ wanted' = FALSE
  /\ saved' = [enabled |-> enabled, wanted |-> FALSE]
  /\ restart' = FALSE /\ stable' = None
  /\ post' = (post \/ borrowed \/ child # None)
  /\ stopping' = stopping \cup ({child} \ {None})
  /\ asked' = asked \cup ({child} \ {None})

(* The tray's entry "stop".                                                *)
TrayStop ==
  /\ app = "running"
  /\ StopProcess(TRUE, TRUE)
  /\ UNCHANGED <<app, child, startVars, backoff, watching, checking, misses,
                 processVars, bad>>

(* Slip: the decision to run is not written down.                          *)
SaveStart_Forgotten == UNCHANGED saved

SaveStart == saved' = [enabled |-> TRUE, wanted |-> TRUE]

(* The tray's entry "start".                                               *)
TrayStart ==
  /\ app = "running"
  /\ wanted' = TRUE
  /\ SaveStart
  /\ backoff' = 0
  /\ BeginStart(TRUE)
  /\ UNCHANGED <<app, child, awaited, stable, stopping, watching, checking, misses,
                 post, processVars, historyVars>>

(* The tray's entry "quit" or a quit from the system, with before-quit.    *)
Quit ==
  /\ app = "running"
  /\ app' = "quitting"
  /\ watching' = FALSE
  /\ StopProcess(FALSE, FALSE)
  /\ UNCHANGED <<child, startVars, backoff, checking, misses, processVars, bad>>

(* What is left when the application is no more: its processes, which run  *)
(* detached, and a request that was sent.                                  *)
Vanish ==
  /\ app' = "gone"
  /\ child' = None /\ start' = "idle" /\ awaited' = None
  /\ restart' = FALSE /\ stable' = None /\ stopping' = {}
  /\ watching' = FALSE /\ checking' = FALSE
  /\ backoff' = 0 /\ misses' = 0
  /\ proc' = [c \in Child |-> IF Alive(c) THEN proc[c] ELSE "free"]
  /\ asked' = {} /\ bad' = [c \in Child |-> 0]

(* The quit event, the last of the application.                            *)
Exit ==
  /\ app = "quitting"
  /\ Vanish
  /\ UNCHANGED <<wanted, saved, post, other, signalled, told>>

-----------------------------------------------------------------------------
Become(c, life) ==
  /\ proc' = [proc EXCEPT ![c] = life]
  /\ UNCHANGED <<app, wanted, saved, child, startVars, timerVars, backoff, watching,
                 checking, misses, post, other, historyVars>>

Lives(c, life) == Become(c, life) /\ UNCHANGED <<signalled, told>>

Ends(c, life) ==
  /\ Become(c, life)
  /\ signalled' = signalled \ {c}
  /\ told' = told \ {c}

ChildReady(c) == proc[c] = "starting" /\ ~PortOpen /\ Lives(c, "serving")
ChildHangs(c) == proc[c] = "serving" /\ Lives(c, "hung")
ChildRecovers(c) == proc[c] = "hung" /\ Lives(c, "serving")
ChildFails(c) == proc[c] = "starting" /\ child = c /\ Ends(c, "failed")

(* A process ends, by a signal or request or of itself.  Nobody listens to *)
(* the events of a process that an earlier application left behind.        *)
ChildExits(c) ==
  Alive(c) /\ Ends(c, IF child = c THEN "exited" ELSE "free")

(* Slip: an event of an earlier child is taken for one of this.            *)
Forget_AnyChild(c) == child' = None /\ stable' = None /\ Schedule

(* What the handlers of a child's error and close events do.               *)
Forget(c) ==
  IF child # c THEN UNCHANGED <<child, stable>> /\ NoSchedule
  ELSE child' = None /\ stable' = None /\ Schedule

ErrorEvent(c) ==
  /\ app # "gone" /\ proc[c] = "failed"
  /\ proc' = [proc EXCEPT ![c] = "exited"]
  /\ Forget(c)
  /\ UNCHANGED <<app, wanted, saved, startVars, stopping, watching, checking, misses,
                 post, other, signalled, told, historyVars>>

CloseEvent(c) ==
  /\ app # "gone" /\ proc[c] = "exited"
  /\ proc' = [proc EXCEPT ![c] = "free"]
  /\ asked' = asked \ {c} /\ bad' = [bad EXCEPT ![c] = 0]
  /\ Forget(c)
  /\ UNCHANGED <<app, wanted, saved, startVars, stopping, watching, checking, misses,
                 post, other, signalled, told>>

(* The shutdown request reaches whoever listens, or nobody.                *)
ShutdownDelivered ==
  /\ post
  /\ post' = FALSE
  /\ told' = told \cup {c \in Child : proc[c] = "serving"}
  /\ UNCHANGED <<app, wanted, saved, child, startVars, timerVars, backoff, watching,
                 checking, misses, proc, other, signalled, historyVars>>

(* Another program takes the port, answers or not, and leaves it.          *)
OtherChanges ==
  /\ other' \in Foreign \ {other}
  /\ other = "absent" => ~PortOpen
  /\ UNCHANGED <<app, wanted, saved, child, startVars, timerVars, backoff, watching,
                 checking, misses, post, proc, signalled, told, historyVars>>

-----------------------------------------------------------------------------
(* whenReady of the first start: auto_start decides whether a bridge is    *)
(* wanted; another bridge may be there already.                            *)
Init ==
  /\ app = "running"
  /\ wanted \in BOOLEAN
  /\ saved = [enabled |-> TRUE, wanted |-> wanted]
  /\ child = None
  /\ start = (IF wanted THEN "health" ELSE "idle") /\ awaited = None
  /\ restart = FALSE /\ backoff = 0 /\ stable = None
  /\ watching = TRUE /\ checking = FALSE /\ misses = 0
  /\ stopping = {} /\ post = FALSE
  /\ proc = [c \in Child |-> "free"]
  /\ other \in Foreign
  /\ signalled = {} /\ told = {} /\ asked = {}
  /\ bad = [c \in Child |-> 0]

StartStep ==
  \/ StartProbed \/ StartGivesUp \/ WaitHealthy \/ WaitFails
  \/ \E c \in Child : Spawn(c)

TimerStep ==
  \/ RestartFires \/ StableFires \/ WatchdogTick
  \/ WatchdogYields \/ WatchdogHealthy \/ WatchdogUnhealthy
  \/ \E c \in Child : StopFires(c)

UserStep == TrayStop \/ TrayStart \/ Quit \/ Exit

ProcessStep ==
  \/ ShutdownDelivered \/ OtherChanges
  \/ \E c \in Child :
       \/ ChildReady(c) \/ ChildHangs(c) \/ ChildRecovers(c) \/ ChildFails(c)
       \/ ChildExits(c) \/ ErrorEvent(c) \/ CloseEvent(c)

Next == StartStep \/ TimerStep \/ UserStep \/ ProcessStep

Spec == Init /\ [][Next]_vars

(* Timers fire, probes and waits end within their timeouts, events of a    *)
(* child are delivered, a signal ends a process.  A backend that is        *)
(* started again and again comes up once, and is spawned when the port is  *)
(* found free again and again: what may last for ever is only the trouble  *)
(* of others.  Nobody needs to stop, start or quit.                        *)
Fairness ==
  /\ WF_vars(StartStep)
  /\ WF_vars(RestartFires) /\ WF_vars(StableFires)
  /\ WF_vars(WatchdogTick)
  /\ WF_vars(WatchdogYields \/ WatchdogHealthy \/ WatchdogUnhealthy)
  /\ SF_vars(\E c \in Child : Spawn(c))
  /\ \A c \in Child :
       /\ WF_vars(StopFires(c))
       /\ WF_vars(ErrorEvent(c)) /\ WF_vars(CloseEvent(c))
       /\ WF_vars(c \in signalled /\ ChildExits(c))
       /\ SF_vars(ChildReady(c))

FairSpec == Spec /\ Fairness

-----------------------------------------------------------------------------
TypeOK ==
  /\ app \in {"running", "quitting", "gone"}
  /\ wanted \in BOOLEAN
  /\ saved \in [enabled : BOOLEAN, wanted : BOOLEAN]
  /\ child \in Child \cup {None}
  /\ start \in {"idle", "health", "port", "waiting"}
  /\ awaited \in Child \cup {None}
  /\ restart \in BOOLEAN
  /\ backoff \in 0 .. MaxRestart
  /\ stable \in Child \cup {None}
  /\ watching \in BOOLEAN
  /\ checking \in BOOLEAN
  /\ misses \in 0 .. MissLimit
  /\ stopping \subseteq Child
  /\ post \in BOOLEAN
  /\ proc \in [Child -> Life]
  /\ other \in Foreign
  /\ signalled \subseteq Child
  /\ told \subseteq Child
  /\ asked \subseteq Child
  /\ bad \in [Child -> 0 .. MissLimit]

(* While the application runs, every backend it spawned that is alive is   *)
(* the one it tracks: there is one at most, and a stop reaches it, however *)
(* starts, exits, late events and the watchdog interleave.                 *)
TracksItsBackend ==
  app # "gone" => \A c \in Child : Alive(c) => child = c

(* A pending restart means that a backend is wanted and none is tracked:   *)
(* no restart survives a stop, a quit or another start.                    *)
RestartIsWanted == restart => ~Stopped /\ child = None

(* The backoff is only ever forgiven for the tracked child while it is     *)
(* wanted: the timer of one child never resets the count for the next.     *)
StableIsCurrent == stable # None => child = stable /\ ~Stopped

(* The application kills a child only if a stop was directed at that very  *)
(* child, it did not come up in time, or it failed MissLimit checks in a   *)
(* row of its own: counts and timers of an earlier child do not count.     *)
KillsWithCause ==
  [][\A c \in signalled' \ signalled :
       c \in asked \/ awaited = c \/ bad'[c] >= MissLimit]_vars

(* A stop settles: the child ends, and no start that was under way brings  *)
(* up another, unless the user starts or quits.                            *)
StopSettles ==
  (~wanted /\ app = "running") ~> (wanted \/ app # "running" \/ child = None)

(* A wanted bridge is available in the end: whatever crashed, hung, was    *)
(* dropped or came late, someone starts it again, unless a process that is *)
(* not the application's sits on the port without answering.               *)
WantedIsServed ==
  (wanted /\ app = "running") ~> (Healthy \/ Blocked \/ ~wanted \/ app # "running")

(* There is one backend, and the application knows it.                       *)
BackendOwned == TypeOK /\ TracksItsBackend

(* The timers belong to the state they were set in.                          *)
TimersCurrent == RestartIsWanted /\ StableIsCurrent

=============================================================================
