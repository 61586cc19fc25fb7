-------------------------- MODULE SupervisorProofs --------------------------
(***************************************************************************)
(* Theorems about BridgeSupervisor, for any number of processes and any    *)
(* limits, and about DesktopRecovery, for any number of lives.             *)
(***************************************************************************)
EXTENDS DesktopRecovery, TLAPS

(* A start in flight stands for itself: there is no child and no pending   *)
(* restart before its spawn, and afterwards only its own child.            *)
StartOf ==
  /\ start \in {"health", "port"} => child = None /\ ~restart
  /\ start = "waiting" => awaited # None /\ child \in {awaited, None}

(* The events of a child that failed or ended are the tracked child's.     *)
LifeOf ==
  /\ \A c \in Child : proc[c] = "failed" => child = c
  /\ \A c \in Child : child = c => proc[c] # "free"

(* A child is still there after a stop only because the stop asked it.     *)
AskedOf == child # None /\ Stopped => child \in asked

(* The timer of a stop is set for a child that was asked.                   *)
StoppingOf == \A c \in stopping : child = c => c \in asked

(* The failures counted are the child's own, unless it is doomed anyway.   *)
CountOf ==
  \A c \in Child :
    child = c /\ start # "waiting" /\ Alive(c) /\ c \notin asked \cup signalled
      => misses <= bad[c]

(* Nothing is left of an application that is gone.                         *)
GoneOf ==
  app = "gone" => child = None /\ start = "idle" /\ ~restart /\ stable = None /\ ~checking

(* What holds in every life of the application, also after a crash.        *)
Kept ==
  /\ TypeOK /\ StartOf /\ LifeOf /\ AskedOf /\ StoppingOf /\ CountOf
  /\ GoneOf /\ RestartIsWanted /\ StableIsCurrent

(* A crash leaves backends behind that no later life tracks: this part     *)
(* holds in a life that no crash preceded.                                 *)
Inv == Kept /\ TracksItsBackend

-----------------------------------------------------------------------------
(* The types in two parts, which suit different provers.                   *)
FlagsOK ==
  /\ wanted \in BOOLEAN /\ restart \in BOOLEAN /\ watching \in BOOLEAN
  /\ checking \in BOOLEAN /\ post \in BOOLEAN
  /\ saved \in [enabled : BOOLEAN, wanted : BOOLEAN]

RestOK ==
  /\ app \in {"running", "quitting", "gone"}
  /\ child \in Child \cup {None}
  /\ start \in {"idle", "health", "port", "waiting"}
  /\ awaited \in Child \cup {None}
  /\ backoff \in 0 .. MaxRestart
  /\ stable \in Child \cup {None}
  /\ misses \in 0 .. MissLimit
  /\ stopping \subseteq Child
  /\ proc \in [Child -> Life]
  /\ other \in Foreign
  /\ signalled \subseteq Child /\ told \subseteq Child /\ asked \subseteq Child
  /\ bad \in [Child -> 0 .. MissLimit]

(* Together they are all of TypeOK, in a state and in the next.            *)
LEMMA TypeParts == /\ TypeOK <=> FlagsOK /\ RestOK
                   /\ TypeOK' <=> FlagsOK' /\ RestOK'
  BY DEF TypeOK, FlagsOK, RestOK

-----------------------------------------------------------------------------
(* The types are kept by every step.                                       *)
LEMMA TypeStep ==
  ASSUME TypeOK, StartOf, [Next]_vars
  PROVE  TypeOK'
<1>1. CASE StartProbed
  BY <1>1, SupervisorAssumption DEF TypeOK, StartProbed, timerVars,
      processVars, historyVars
<1>2. CASE StartGivesUp
  <2>1. FlagsOK'
    BY <1>2, TypeParts DEF FlagsOK, StartGivesUp, Schedule
  <2>2. RestOK'
    BY <1>2, TypeParts, SupervisorAssumption DEF RestOK, Lower, StartGivesUp,
        Schedule, processVars, historyVars
  <2>3. QED
    BY <2>1, <2>2, TypeParts
<1>3. CASE WaitHealthy
  BY <1>3, SupervisorAssumption DEF TypeOK, WaitHealthy, CameUp, processVars
<1>4. CASE WaitFails
  <2>1. FlagsOK'
    BY <1>4, TypeParts DEF FlagsOK, WaitFails, timerVars
  <2>2. RestOK'
    <3>1. signalled' \subseteq Child
      BY <1>4 DEF TypeOK, StartOf, WaitFails
    <3>2. QED
      BY <1>4, <3>1, TypeParts DEF RestOK, WaitFails, timerVars, historyVars
  <2>3. QED
    BY <2>1, <2>2, TypeParts
<1>5. CASE RestartFires
  <2>1. FlagsOK'
    BY <1>5, TypeParts DEF FlagsOK, RestartFires
  <2>2. RestOK'
    BY <1>5, TypeParts DEF RestOK, RestartFires, processVars, historyVars
  <2>3. QED
    BY <2>1, <2>2, TypeParts
<1>6. CASE StableFires
  BY <1>6, SupervisorAssumption DEF TypeOK, StableFires, startVars,
      processVars, historyVars
<1>7. CASE WatchdogTick
  BY <1>7 DEF TypeOK, WatchdogTick, startVars, timerVars, processVars,
      historyVars
<1>8. CASE WatchdogYields
  <2>1. FlagsOK'
    BY <1>8, TypeParts DEF FlagsOK, WatchdogYields, timerVars
  <2>2. RestOK'
    BY <1>8, TypeParts DEF RestOK, WatchdogYields, startVars, timerVars,
        processVars, historyVars
  <2>3. QED
    BY <2>1, <2>2, TypeParts
<1>9. CASE WatchdogHealthy
  <2>1. FlagsOK'
    BY <1>9, TypeParts DEF FlagsOK, WatchdogHealthy, timerVars
  <2>2. RestOK'
    BY <1>9, TypeParts, SupervisorAssumption DEF RestOK, WatchdogHealthy,
        startVars, timerVars, processVars
  <2>3. QED
    BY <2>1, <2>2, TypeParts
<1>10. CASE WatchdogUnhealthy
  <2>1. FlagsOK'
    BY <1>10, TypeParts DEF FlagsOK, WatchdogUnhealthy, RecoverMissing,
        BeginStart
  <2>2. RestOK'
    BY <1>10, TypeParts, SupervisorAssumption DEF RestOK, Lower,
        WatchdogUnhealthy, RecoverMissing, BeginStart
  <2>3. QED
    BY <2>1, <2>2, TypeParts
<1>11. CASE TrayStop
  BY <1>11 DEF TypeOK, TrayStop, StopProcess, startVars, processVars
<1>12. CASE TrayStart
  <2>1. FlagsOK'
    BY <1>12, TypeParts DEF FlagsOK, TrayStart, SaveStart, BeginStart
  <2>2. RestOK'
    BY <1>12, TypeParts, SupervisorAssumption DEF RestOK, TrayStart,
        BeginStart, processVars, historyVars
  <2>3. QED
    BY <2>1, <2>2, TypeParts
<1>13. CASE Quit
  BY <1>13 DEF TypeOK, Quit, StopProcess, startVars, processVars
<1>14. CASE Exit
  <2>1. FlagsOK'
    BY <1>14, TypeParts DEF FlagsOK, Exit, Vanish
  <2>2. RestOK'
    BY <1>14, TypeParts, SupervisorAssumption DEF RestOK, Life, Exit, Vanish
  <2>3. QED
    BY <2>1, <2>2, TypeParts
<1>15. CASE ShutdownDelivered
  <2>1. FlagsOK'
    BY <1>15, TypeParts DEF FlagsOK, ShutdownDelivered, timerVars
  <2>2. RestOK'
    BY <1>15, TypeParts DEF RestOK, ShutdownDelivered, startVars, timerVars,
        historyVars
  <2>3. QED
    BY <2>1, <2>2, TypeParts
<1>16. CASE OtherChanges
  BY <1>16 DEF TypeOK, OtherChanges, startVars, timerVars, historyVars
<1>17. ASSUME NEW c \in Child, Spawn(c) PROVE TypeOK'
  BY <1>17 DEF TypeOK, Life, Spawn, timerVars, historyVars
<1>18. ASSUME NEW c \in Child, StopFires(c) PROVE TypeOK'
  BY <1>18 DEF TypeOK, StopFires, startVars, historyVars
<1>19. ASSUME NEW c \in Child, ChildReady(c) PROVE TypeOK'
  BY <1>19 DEF TypeOK, Life, ChildReady, Lives, Become, startVars, timerVars,
      historyVars
<1>20. ASSUME NEW c \in Child, ChildHangs(c) PROVE TypeOK'
  BY <1>20 DEF TypeOK, Life, ChildHangs, Lives, Become, startVars, timerVars,
      historyVars
<1>21. ASSUME NEW c \in Child, ChildRecovers(c) PROVE TypeOK'
  BY <1>21 DEF TypeOK, Life, ChildRecovers, Lives, Become, startVars,
      timerVars, historyVars
<1>22. ASSUME NEW c \in Child, ChildFails(c) PROVE TypeOK'
  BY <1>22 DEF TypeOK, Life, ChildFails, Ends, Become, startVars, timerVars,
      historyVars
<1>23. ASSUME NEW c \in Child, ChildExits(c) PROVE TypeOK'
  BY <1>23 DEF TypeOK, Life, ChildExits, Ends, Become, startVars, timerVars,
      historyVars
<1>24. ASSUME NEW c \in Child, ErrorEvent(c) PROVE TypeOK'
  <2>1. FlagsOK'
    BY <1>24, TypeParts DEF FlagsOK, ErrorEvent, Forget, Schedule, NoSchedule
  <2>2. RestOK'
    BY <1>24, TypeParts, SupervisorAssumption DEF RestOK, Life, Lower,
        ErrorEvent, Forget, Schedule, NoSchedule, startVars, historyVars
  <2>3. QED
    BY <2>1, <2>2, TypeParts
<1>25. ASSUME NEW c \in Child, CloseEvent(c) PROVE TypeOK'
  <2>1. FlagsOK'
    BY <1>25, TypeParts DEF FlagsOK, CloseEvent, Forget, Schedule, NoSchedule
  <2>2. RestOK'
    BY <1>25, TypeParts, SupervisorAssumption DEF RestOK, Life, Lower,
        CloseEvent, Forget, Schedule, NoSchedule, startVars
  <2>3. QED
    BY <2>1, <2>2, TypeParts
<1>26. CASE UNCHANGED vars
  BY <1>26 DEF TypeOK, Life, Lower, Stopped, vars
<1>27. QED
  BY <1>1, <1>2, <1>3, <1>4, <1>5, <1>6, <1>7, <1>8, <1>9, <1>10, <1>11,
      <1>12,
      <1>13, <1>14, <1>15, <1>16, <1>17, <1>18, <1>19, <1>20, <1>21, <1>22,
      <1>23, <1>24, <1>25, <1>26 DEF Next, StartStep, TimerStep, UserStep,
      ProcessStep

(* Every step keeps what every life has.                                   *)
LEMMA KeptStep ==
  ASSUME Kept, [Next]_vars, TypeOK'
  PROVE  Kept'
<1>1. CASE StartProbed
  BY <1>1, SupervisorAssumption DEF Kept, StartOf, LifeOf, AskedOf,
      StoppingOf, CountOf, GoneOf, RestartIsWanted,
      StableIsCurrent, Alive, StartProbed, timerVars, processVars, historyVars
<1>2. CASE StartGivesUp
  BY <1>2, SupervisorAssumption DEF Kept, TypeOK, StartOf, LifeOf, AskedOf,
      StoppingOf, CountOf, GoneOf, RestartIsWanted,
      StableIsCurrent, Alive, Stopped, StartGivesUp, Schedule, processVars
<1>3. CASE WaitHealthy
  BY <1>3, SupervisorAssumption DEF Kept, TypeOK, StartOf, LifeOf, AskedOf,
      StoppingOf, CountOf, GoneOf, RestartIsWanted,
      StableIsCurrent, Alive, Stopped, WaitHealthy, CameUp, processVars
<1>4. CASE WaitFails
  BY <1>4, SupervisorAssumption DEF Kept, StartOf, LifeOf, AskedOf,
      StoppingOf, CountOf, GoneOf, RestartIsWanted,
      StableIsCurrent, Alive, Stopped, WaitFails, timerVars, historyVars
<1>5. CASE RestartFires
  BY <1>5 DEF Kept, StartOf, LifeOf, AskedOf, StoppingOf, CountOf, GoneOf,
      RestartIsWanted, StableIsCurrent, Alive, RestartFires,
      processVars, historyVars
<1>6. CASE StableFires
  BY <1>6 DEF Kept, StartOf, LifeOf, AskedOf, StoppingOf, CountOf, GoneOf,
      RestartIsWanted, StableIsCurrent, Alive, Stopped,
      StableFires, startVars, processVars, historyVars
<1>7. CASE WatchdogTick
  BY <1>7 DEF Kept, StartOf, LifeOf, AskedOf, StoppingOf, CountOf, GoneOf,
      RestartIsWanted, StableIsCurrent, Alive, Stopped,
      WatchdogTick, startVars, timerVars, processVars, historyVars
<1>8. CASE WatchdogYields
  BY <1>8 DEF Kept, StartOf, LifeOf, AskedOf, StoppingOf, CountOf, GoneOf,
      RestartIsWanted, StableIsCurrent, Alive, Stopped,
      WatchdogYields, startVars, timerVars, processVars, historyVars
<1>9. CASE WatchdogHealthy
  BY <1>9 DEF Kept, TypeOK, StartOf, LifeOf, AskedOf, StoppingOf, CountOf,
      GoneOf, RestartIsWanted, StableIsCurrent, Alive,
      Stopped, WatchdogHealthy, startVars, timerVars, processVars
<1>10. CASE WatchdogUnhealthy
  BY <1>10, SupervisorAssumption DEF Kept, TypeOK, StartOf, LifeOf, AskedOf,
      StoppingOf, CountOf, GoneOf, RestartIsWanted,
      StableIsCurrent, Alive, Stopped, Lower, WatchdogUnhealthy,
      RecoverMissing, BeginStart
<1>11. CASE TrayStop
  BY <1>11 DEF Kept, StartOf, LifeOf, AskedOf, StoppingOf, CountOf, GoneOf,
      RestartIsWanted, StableIsCurrent, Alive, TrayStop,
      StopProcess, startVars, processVars
<1>12. CASE TrayStart
  BY <1>12 DEF Kept, StartOf, LifeOf, AskedOf, StoppingOf, CountOf, GoneOf,
      RestartIsWanted, StableIsCurrent, Alive, Stopped,
      TrayStart, BeginStart, processVars, historyVars
<1>13. CASE Quit
  BY <1>13 DEF Kept, StartOf, LifeOf, AskedOf, StoppingOf, CountOf, GoneOf,
      RestartIsWanted, StableIsCurrent, Alive, Quit,
      StopProcess, startVars, processVars
<1>14. CASE Exit
  BY <1>14, SupervisorAssumption DEF Kept, StartOf, LifeOf, AskedOf,
      StoppingOf, CountOf, GoneOf, RestartIsWanted,
      StableIsCurrent, Alive, Exit, Vanish
<1>15. CASE ShutdownDelivered
  BY <1>15 DEF Kept, StartOf, LifeOf, AskedOf, StoppingOf, CountOf, GoneOf,
      RestartIsWanted, StableIsCurrent, Alive, Stopped,
      ShutdownDelivered, startVars, timerVars, historyVars
<1>16. CASE OtherChanges
  BY <1>16 DEF Kept, StartOf, LifeOf, AskedOf, StoppingOf, CountOf, GoneOf,
      RestartIsWanted, StableIsCurrent, Alive, Stopped,
      OtherChanges, startVars, timerVars, historyVars
<1>17. ASSUME NEW c \in Child, Spawn(c) PROVE Kept'
  <2>1. child = None /\ c # None /\ ~restart /\ stable = None
    BY <1>17, SupervisorAssumption DEF Kept, StartOf, RestartIsWanted,
        StableIsCurrent, Spawn
  <2>2. StartOf' /\ AskedOf' /\ StoppingOf' /\ CountOf' /\ GoneOf'
    BY <1>17, <2>1 DEF StartOf, AskedOf, StoppingOf, CountOf, GoneOf, Spawn,
        SpawnAllowed, Stopped, timerVars
  <2>3. LifeOf'
    <3>1. app # "gone" /\ child' = c /\ \A d \in Child \ {c} : proc'[d] = proc[d]
      BY <1>17 DEF Kept, TypeOK, Spawn
    <3>2. proc'[c] = "starting"
      BY <1>17 DEF Kept, TypeOK, Spawn
    <3>3. \A d \in Child : proc[d] # "failed"
      BY <2>1, <3>1, SupervisorAssumption DEF Kept, LifeOf
    <3>4. QED
      BY <3>1, <3>2, <3>3 DEF LifeOf, Alive
  <2>4. RestartIsWanted' /\ StableIsCurrent'
    BY <1>17, <2>1 DEF RestartIsWanted, StableIsCurrent, Spawn, timerVars
  <2>5. QED
    BY <2>2, <2>3, <2>4 DEF Kept
<1>18. ASSUME NEW c \in Child, StopFires(c) PROVE Kept'
  BY <1>18 DEF Kept, StartOf, LifeOf, AskedOf, StoppingOf, CountOf, GoneOf,
      RestartIsWanted, StableIsCurrent, Alive, Stopped,
      StopFires, startVars, historyVars
<1>19. ASSUME NEW c \in Child, ChildReady(c) PROVE Kept'
  BY <1>19 DEF Kept, StartOf, LifeOf, AskedOf, StoppingOf, CountOf, GoneOf,
      RestartIsWanted, StableIsCurrent, Alive, Stopped,
      ChildReady, Lives, Become, startVars, timerVars, historyVars
<1>20. ASSUME NEW c \in Child, ChildHangs(c) PROVE Kept'
  BY <1>20 DEF Kept, StartOf, LifeOf, AskedOf, StoppingOf, CountOf, GoneOf,
      RestartIsWanted, StableIsCurrent, Alive, Stopped,
      ChildHangs, Lives, Become, startVars, timerVars, historyVars
<1>21. ASSUME NEW c \in Child, ChildRecovers(c) PROVE Kept'
  BY <1>21 DEF Kept, StartOf, LifeOf, AskedOf, StoppingOf, CountOf, GoneOf,
      RestartIsWanted, StableIsCurrent, Alive, Stopped,
      ChildRecovers, Lives, Become, startVars, timerVars, historyVars
<1>22. ASSUME NEW c \in Child, ChildFails(c) PROVE Kept'
  BY <1>22 DEF Kept, TypeOK, StartOf, LifeOf, AskedOf, StoppingOf, CountOf,
      GoneOf, RestartIsWanted, StableIsCurrent, Alive,
      Stopped, ChildFails, Ends, Become, startVars, timerVars, historyVars
<1>23. ASSUME NEW c \in Child, ChildExits(c) PROVE Kept'
  BY <1>23 DEF Kept, TypeOK, StartOf, LifeOf, AskedOf, StoppingOf, CountOf,
      GoneOf, RestartIsWanted, StableIsCurrent, Stopped,
      ChildExits, Ends, Become, Alive, startVars, timerVars, historyVars
<1>24. ASSUME NEW c \in Child, ErrorEvent(c) PROVE Kept'
  BY <1>24, SupervisorAssumption DEF Kept, TypeOK, StartOf, LifeOf, AskedOf,
      StoppingOf, CountOf, GoneOf, RestartIsWanted,
      StableIsCurrent, Alive, Stopped, ErrorEvent, Forget, Schedule, startVars
<1>25. ASSUME NEW c \in Child, CloseEvent(c) PROVE Kept'
  BY <1>25, SupervisorAssumption DEF Kept, TypeOK, StartOf, LifeOf, AskedOf,
      StoppingOf, CountOf, GoneOf, RestartIsWanted,
      StableIsCurrent, Alive, Stopped, CloseEvent, Forget, Schedule,
      NoSchedule, startVars
<1>26. CASE UNCHANGED vars
  BY <1>26 DEF Kept, StartOf, LifeOf, AskedOf, StoppingOf, CountOf, GoneOf,
      RestartIsWanted, StableIsCurrent, Alive, Stopped, vars
<1>27. QED
  BY <1>1, <1>2, <1>3, <1>4, <1>5, <1>6, <1>7, <1>8, <1>9, <1>10, <1>11,
      <1>12,
      <1>13, <1>14, <1>15, <1>16, <1>17, <1>18, <1>19, <1>20, <1>21, <1>22,
      <1>23, <1>24, <1>25, <1>26 DEF Next, StartStep, TimerStep, UserStep,
      ProcessStep

(* And in a life that no crash preceded, what is alive is tracked.         *)
LEMMA TrackStep ==
  ASSUME Inv, [Next]_vars
  PROVE  TracksItsBackend'
<1> USE DEF TracksItsBackend, Alive
<1>1. ASSUME NEW c \in Child, Spawn(c) PROVE TracksItsBackend'
  <2>1. child = None  BY <1>1 DEF Inv, Kept, StartOf, Spawn
  <2>2. \A d \in Child : ~Alive(d)
    BY <1>1, <2>1, SupervisorAssumption DEF Inv, Spawn
  <2>3. child' = c /\ \A d \in Child \ {c} : proc'[d] = proc[d]
    BY <1>1 DEF Inv, Kept, TypeOK, Spawn
  <2>4. QED  BY <2>2, <2>3
<1>2. ASSUME NEW c \in Child, ErrorEvent(c) \/ CloseEvent(c)
      PROVE  TracksItsBackend'
  <2>1. /\ app' = app /\ app # "gone" /\ ~Alive(c)
        /\ child' = child \/ (child = c /\ child' = None)
    BY <1>2 DEF ErrorEvent, CloseEvent, Forget
  <2>2. ~Alive(c)' /\ \A d \in Child \ {c} : proc'[d] = proc[d]
    BY <1>2 DEF Inv, Kept, TypeOK, ErrorEvent, CloseEvent
  <2>3. QED  BY <2>1, <2>2 DEF Inv
<1>3. ASSUME NEW c \in Child,
             \/ ChildReady(c) \/ ChildHangs(c) \/ ChildRecovers(c)
             \/ ChildFails(c) \/ ChildExits(c)
      PROVE  TracksItsBackend'
  <2>1. /\ app' = app /\ child' = child /\ Alive(c)
        /\ \A d \in Child \ {c} : proc'[d] = proc[d]
    BY <1>3 DEF Inv, Kept, TypeOK, ChildReady, ChildHangs, ChildRecovers,
        ChildFails, ChildExits, Lives, Ends, Become
  <2>2. QED  BY <2>1 DEF Inv
<1>4. CASE Exit
  BY <1>4 DEF Exit, Vanish
<1>5. CASE (app' = app \/ app # "gone") /\ child' = child /\ proc' = proc
  BY <1>5 DEF Inv
<1>6. CASE StartStep
  BY <1>1, <1>5, <1>6 DEF StartStep, StartProbed, StartGivesUp, WaitHealthy,
     WaitFails, processVars
<1>7. CASE TimerStep
  BY <1>5, <1>7 DEF TimerStep, RestartFires, StableFires, WatchdogTick,
     WatchdogYields, WatchdogHealthy, WatchdogUnhealthy, StopFires, processVars
<1>8. CASE UserStep
  BY <1>4, <1>5, <1>8 DEF UserStep, TrayStop, TrayStart, Quit, processVars
<1>9. CASE ProcessStep
  BY <1>2, <1>3, <1>5, <1>9 DEF ProcessStep, ShutdownDelivered, OtherChanges
<1>10. CASE UNCHANGED vars
  BY <1>5, <1>10 DEF vars
<1>11. QED
  BY <1>6, <1>7, <1>8, <1>9, <1>10 DEF Next

(* The invariant holds initially.                                          *)
LEMMA InitInv == Init => Inv
<1>1. Init => FlagsOK
  <2>1. Init => saved \in [enabled : BOOLEAN, wanted : BOOLEAN]
    BY DEF Init
  <2>2. Init => /\ wanted \in BOOLEAN /\ restart \in BOOLEAN
                /\ watching \in BOOLEAN /\ checking \in BOOLEAN /\ post \in BOOLEAN
    BY Zenon DEF Init
  <2>3. QED
    BY <2>1, <2>2 DEF FlagsOK
<1>2. Init => RestOK
  BY SupervisorAssumption DEF Init, RestOK, Life
<1>3. Init => StartOf /\ LifeOf /\ AskedOf /\ StoppingOf /\ CountOf /\ GoneOf
  BY SupervisorAssumption DEF Init, StartOf, LifeOf, AskedOf, StoppingOf,
      CountOf, GoneOf, Alive
<1>4. Init => RestartIsWanted /\ StableIsCurrent /\ TracksItsBackend
  BY DEF Init, RestartIsWanted, StableIsCurrent, TracksItsBackend, Alive
<1>5. QED
  BY <1>1, <1>2, <1>3, <1>4, TypeParts DEF Inv, Kept

(* Every state of the supervisor satisfies the invariant.                  *)
THEOREM InvTheorem == Spec => []Inv
<1>1. Inv /\ [Next]_vars => Inv'
  BY TypeStep, KeptStep, TrackStep DEF Inv, Kept
<1>2. QED
  BY InitInv, <1>1, PTL DEF Spec

(* The types of the supervisor's variables are kept.                       *)
THEOREM SupervisorTypeTheorem == Spec => []TypeOK
  BY InvTheorem, PTL DEF Inv, Kept

(* While the application runs, a backend it spawned that is alive is the   *)
(* one it tracks, however starts, exits and late events interleave.        *)
THEOREM TrackingTheorem == Spec => []TracksItsBackend
<1>1. Inv => TracksItsBackend
  BY DEF Inv
<1>2. QED
  BY <1>1, InvTheorem, PTL

(* No restart is pending unless a backend is wanted and none is tracked.   *)
THEOREM RestartTheorem == Spec => []RestartIsWanted
  BY InvTheorem, PTL DEF Inv, Kept

(* The timer that forgives the backoff is that of the tracked child.       *)
THEOREM StableTheorem == Spec => []StableIsCurrent
  BY InvTheorem, PTL DEF Inv, Kept

(* A child is killed for a reason of its own: a stop asked it, it did not  *)
(* come up, or it failed enough checks in a row.                           *)
LEMMA KillStep ==
  ASSUME Kept, [Next]_vars
  PROVE  \A c \in signalled' \ signalled :
           c \in asked \/ awaited = c \/ bad'[c] >= MissLimit
<1>1. CASE WaitFails
  BY <1>1 DEF WaitFails
<1>2. ASSUME NEW d \in Child, StopFires(d)
      PROVE  signalled' \ signalled \subseteq asked
  BY <1>2 DEF Kept, StoppingOf, StopFires
<1>3. CASE WatchdogUnhealthy
  <2>1. ASSUME NEW c \in signalled' \ signalled, c \notin asked
        PROVE  bad'[c] >= MissLimit
    <3>1. /\ child = c /\ child # None /\ Alive(c) /\ start = "idle"
          /\ misses' = Lower(misses + 1, MissLimit) /\ misses' >= MissLimit
          /\ bad' = [bad EXCEPT ![c] = Lower(@ + 1, MissLimit)]
      BY <1>3, <2>1 DEF WatchdogUnhealthy, RecoverMissing
    <3>2. c \in Child /\ misses \in Nat /\ bad \in [Child -> 0 .. MissLimit]
      BY <3>1, SupervisorAssumption DEF Kept, TypeOK
    <3>3. misses <= bad[c]
      BY <2>1, <3>1, <3>2 DEF Kept, CountOf
    <3>4. QED
      BY <3>1, <3>2, <3>3, SupervisorAssumption DEF Lower
  <2>2. QED
    BY <2>1
<1>4. CASE UNCHANGED signalled
  BY <1>4
<1>5. ASSUME NEW c \in Child, ChildFails(c) \/ ChildExits(c)
      PROVE  signalled' \subseteq signalled
  BY <1>5 DEF ChildFails, ChildExits, Ends, Become
<1>6. CASE StartStep
  BY <1>1, <1>4, <1>6 DEF StartStep, StartProbed, StartGivesUp, WaitHealthy,
      Spawn, processVars
<1>7. CASE TimerStep
  BY <1>2, <1>3, <1>7 DEF TimerStep, RestartFires, StableFires, WatchdogTick,
      WatchdogYields, WatchdogHealthy, processVars
<1>8. CASE UserStep
  BY <1>4, <1>8 DEF UserStep, TrayStop, TrayStart, Quit, Exit, processVars
<1>9. CASE ProcessStep
  BY <1>5, <1>9 DEF ProcessStep, ShutdownDelivered, OtherChanges, ChildReady,
      ChildHangs, ChildRecovers, ErrorEvent, CloseEvent, Lives
<1>10. CASE UNCHANGED vars
  BY <1>4, <1>10 DEF vars
<1>11. QED
  BY <1>6, <1>7, <1>8, <1>9, <1>10 DEF Next

(* No step of any run of the supervisor kills a child without a cause.     *)
THEOREM KillTheorem == Spec => KillsWithCause
<1>1. Kept /\ [Next]_vars => [\A c \in signalled' \ signalled :
         c \in asked \/ awaited = c \/ bad'[c] >= MissLimit]_vars
  BY KillStep
<1>2. QED
  BY InvTheorem, <1>1, PTL DEF Spec, Inv, KillsWithCause

(* The application knows the one backend it owns.                          *)
THEOREM OwnershipTheorem == Spec => []BackendOwned
  BY SupervisorTypeTheorem, TrackingTheorem,
     PTL DEF BackendOwned

(* No timer outlives the state it was set for.                             *)
THEOREM TimerTheorem == Spec => []TimersCurrent
  BY RestartTheorem, StableTheorem,
     PTL DEF TimersCurrent

-----------------------------------------------------------------------------
(* The lives of the application, with crashes and the recovery watcher.    *)

(* The state file says that a bridge is wanted only if that was the last   *)
(* word.                                                                   *)
WordOf == Requested => lastWord = "run"

RecoveryInv == Kept /\ WordOf

(* A crash and a new life keep what every life has.                        *)
LEMMA CrashKept ==
  ASSUME Kept, Crash
  PROVE  Kept'
<1>1. FlagsOK'
  BY TypeParts DEF Kept, FlagsOK, Crash, Vanish
<1>2. RestOK'
  BY TypeParts, SupervisorAssumption DEF Kept, RestOK, Life, Crash, Vanish
<1>3. TypeOK'  BY <1>1, <1>2, TypeParts
<1>4. /\ StartOf' /\ LifeOf' /\ AskedOf' /\ StoppingOf' /\ CountOf' /\ GoneOf'
      /\ RestartIsWanted' /\ StableIsCurrent'
  BY SupervisorAssumption DEF Crash, Vanish, StartOf, LifeOf, AskedOf,
     StoppingOf, CountOf, GoneOf, RestartIsWanted, StableIsCurrent, Alive
<1>5. QED  BY <1>3, <1>4 DEF Kept

LEMMA LaunchKept ==
  ASSUME Kept, app = "gone", NEW want \in BOOLEAN, Launch(want)
  PROVE  Kept' /\ WordOf'
<1>1. child = None /\ ~restart /\ stable = None
  BY DEF Kept, GoneOf
<1>2. FlagsOK'
  <2>1. saved' \in [enabled : BOOLEAN, wanted : BOOLEAN]  BY DEF Launch
  <2>2. /\ wanted' = want /\ watching' = TRUE /\ restart' = restart
        /\ checking' = checking /\ post' = post
    BY DEF Launch, timerVars
  <2>3. QED  BY <2>1, <2>2, TypeParts DEF Kept, FlagsOK
<1>3. RestOK'
  BY TypeParts DEF Kept, RestOK, Launch, timerVars, processVars, historyVars
<1>4. TypeOK'  BY <1>2, <1>3, TypeParts
<1>5. /\ StartOf' /\ LifeOf' /\ AskedOf' /\ StoppingOf' /\ CountOf' /\ GoneOf'
      /\ RestartIsWanted' /\ StableIsCurrent'
  BY <1>1, SupervisorAssumption DEF Kept, Launch, timerVars, processVars,
     historyVars, StartOf, LifeOf, AskedOf, StoppingOf, CountOf, GoneOf,
     RestartIsWanted, StableIsCurrent
<1>6. WordOf'  BY DEF Launch, WordOf, Requested
<1>7. QED  BY <1>4, <1>5, <1>6 DEF Kept

(* What a step of the recovery is: one of the running application that     *)
(* keeps the last word in step with the file, a crash, or a launch.        *)
LEMMA RecoveryCases ==
  ASSUME Kept, [RecoveryNext]_allVars
  PROVE  \/ [Next]_vars /\ (WordOf => WordOf')
         \/ Crash
         \/ app = "gone" /\ \E want \in BOOLEAN : Launch(want)
<1>1. CASE (StartStep \/ TimerStep \/ ProcessStep \/ Exit) /\ UNCHANGED recoveryVars
  <2>1. Next  BY <1>1 DEF Next, UserStep
  <2>2. CASE StartStep
    BY <1>1, <2>1, <2>2 DEF StartStep, StartProbed, StartGivesUp, WaitHealthy,
       WaitFails, Spawn, recoveryVars, WordOf, Requested
  <2>3. CASE TimerStep
    BY <1>1, <2>1, <2>3 DEF TimerStep, RestartFires, StableFires, WatchdogTick,
       WatchdogYields, WatchdogHealthy, WatchdogUnhealthy, StopFires,
       recoveryVars, WordOf, Requested
  <2>4. CASE ProcessStep
    BY <1>1, <2>1, <2>4 DEF ProcessStep, ShutdownDelivered, OtherChanges,
       ChildReady, ChildHangs, ChildRecovers, ChildFails, ChildExits, Lives,
       Ends, Become, ErrorEvent, CloseEvent, recoveryVars, WordOf, Requested
  <2>5. CASE Exit
    BY <1>1, <2>1, <2>5 DEF Exit, recoveryVars, WordOf, Requested
  <2>6. QED  BY <1>1, <2>2, <2>3, <2>4, <2>5
<1>2. CASE (TrayStop \/ Quit) /\ lastWord' = "stop"
  <2>1. saved'.wanted = FALSE  BY <1>2 DEF TrayStop, Quit, StopProcess
  <2>2. QED  BY <1>2, <2>1 DEF Next, UserStep, WordOf, Requested
<1>3. CASE TrayStart /\ lastWord' = "run"
  BY <1>3 DEF Next, UserStep, WordOf
<1>4. CASE ManualLaunch
  BY <1>4 DEF ManualLaunch
<1>5. CASE WatcherLooks
  BY <1>5 DEF WatcherLooks, vars, WordOf, Requested
<1>6. CASE WatcherActs
  BY <1>6 DEF WatcherActs, vars, WordOf, Requested
<1>7. CASE UNCHANGED allVars
  BY <1>7 DEF allVars, recoveryVars, vars, WordOf, Requested
<1>8. QED
  BY <1>1, <1>2, <1>3, <1>4, <1>5, <1>6, <1>7 DEF RecoveryNext

LEMMA RecoveryStep ==
  ASSUME RecoveryInv, [RecoveryNext]_allVars
  PROVE  RecoveryInv'
<1>1. CASE [Next]_vars /\ (WordOf => WordOf')
  BY <1>1, TypeStep, KeptStep DEF RecoveryInv, Kept
<1>2. CASE Crash
  BY <1>2, CrashKept DEF RecoveryInv, Crash, recoveryVars, WordOf, Requested
<1>3. CASE app = "gone" /\ \E want \in BOOLEAN : Launch(want)
  BY <1>3, LaunchKept DEF RecoveryInv
<1>4. QED  BY <1>1, <1>2, <1>3, RecoveryCases DEF RecoveryInv

LEMMA RecoveryInvariant == RecoverySpec => []RecoveryInv
<1>1. RecoveryInit => RecoveryInv
  BY InitInv DEF RecoveryInit, Init, RecoveryInv, Inv, WordOf, Requested
<1>2. RecoveryInv /\ [RecoveryNext]_allVars => RecoveryInv'
  BY RecoveryStep
<1>3. QED  BY <1>1, <1>2, PTL DEF RecoverySpec

(* A stop wins over the recovery: the watcher starts the application only  *)
(* if the last decision was to run, whatever crashed and whoever started,  *)
(* stopped or quit it between the watcher's two looks.                     *)
THEOREM StopWinsTheorem == RecoverySpec => StopWins
<1>1. RecoveryInv /\ [RecoveryNext]_allVars =>
        [glimpse # 0 /\ app # app' /\ glimpse' = 0 => lastWord = "run"]_allVars
  <2>1. SUFFICES ASSUME RecoveryInv, RecoveryNext, glimpse # 0, app # app',
                        glimpse' = 0
                 PROVE  lastWord = "run"
    OBVIOUS
  <2>2. WatcherActs
    BY <2>1 DEF RecoveryNext, recoveryVars, ManualLaunch, Crash, WatcherLooks
  <2>3. StillRequested  BY <2>1, <2>2 DEF WatcherActs, vars
  <2>4. QED  BY <2>1, <2>3 DEF StillRequested, RecoveryInv, WordOf
<1>2. QED  BY <1>1, RecoveryInvariant, PTL DEF RecoverySpec, StopWins

(* No crash and no restart leaves a timer of an earlier life behind: in    *)
(* every life a pending restart is wanted and the stable timer is current. *)
THEOREM LivesTimerTheorem == RecoverySpec => []TimersCurrent
<1>1. RecoveryInv => TimersCurrent
  BY DEF RecoveryInv, Kept, TimersCurrent
<1>2. QED  BY <1>1, RecoveryInvariant, PTL

(* And no life kills a backend without a cause of its own.                 *)
THEOREM LivesKillTheorem == RecoverySpec => KillsWithCause
<1>1. RecoveryInv /\ [RecoveryNext]_allVars =>
        [\A c \in signalled' \ signalled :
           c \in asked \/ awaited = c \/ bad'[c] >= MissLimit]_vars
  <2>1. SUFFICES ASSUME RecoveryInv, [RecoveryNext]_allVars
                 PROVE  \A c \in signalled' \ signalled :
                          c \in asked \/ awaited = c \/ bad'[c] >= MissLimit
    OBVIOUS
  <2>2. CASE [Next]_vars
    BY <2>1, <2>2, KillStep DEF RecoveryInv
  <2>3. CASE Crash \/ \E want \in BOOLEAN : Launch(want)
    BY <2>3 DEF Crash, Launch, processVars
  <2>4. QED  BY <2>1, <2>2, <2>3, RecoveryCases DEF RecoveryInv
<1>2. QED  BY <1>1, RecoveryInvariant, PTL DEF RecoverySpec, KillsWithCause

=============================================================================
