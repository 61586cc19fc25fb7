----------------------------- MODULE MCSessions -----------------------------
(* Small instances of the two long sessions, a chat turn and a recording.    *)
(* They share nothing, so one run checks them side by side: `moves`, chosen  *)
(* at the start, is the session that takes place.                            *)
EXTENDS ChatTurn, SpeechRelay

VARIABLE moves

sessionsVars == <<moves, turnVars, vars>>

SessionsInit ==
    /\ moves \in {"turn", "speech"}
    /\ TurnInit /\ Init
    /\ moves = "speech" => route = "chat" /\ imageTool = FALSE

Turning(Step) == moves = "turn" /\ Step /\ UNCHANGED <<moves, vars>>
Speaking(Step) == moves = "speech" /\ Step /\ UNCHANGED <<moves, turnVars>>

SessionsNext == Turning(TurnNext) \/ Speaking(Next)

(* The fairness of either session, for as long as it is the one that moves.  *)
SessionsFairness ==
    /\ WF_sessionsVars(Turning(Progress))
    /\ \A h \in Handler :
         /\ WF_sessionsVars(Speaking(TakeLock(h)))
         /\ WF_sessionsVars(Speaking(ProbeNothing(h)))
         /\ WF_sessionsVars(Speaking(Finish(h)))
    /\ WF_sessionsVars(Speaking(Connect)) /\ WF_sessionsVars(Speaking(Watchdog))
    /\ WF_sessionsVars(Speaking(Wake)) /\ WF_sessionsVars(Speaking(Cleanup))
    /\ WF_sessionsVars(Speaking(Reply))

SessionsSpec == SessionsInit /\ [][SessionsNext]_sessionsVars /\ SessionsFairness
=============================================================================
