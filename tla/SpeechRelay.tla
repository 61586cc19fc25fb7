----------------------------- MODULE SpeechRelay -----------------------------
(* Speech recognition behind the bridge: one websocket session that is       *)
(* relayed to the recognition worker by three tasks, one transcription of a  *)
(* file, and the service that starts the worker for both.                    *)
(*                                                                           *)
(* Data is reduced to what the handlers branch on.  A client frame is audio, *)
(* junk (an odd or oversized block, an unknown command), stop or cancel; a   *)
(* worker message is a note (ready, partial, correcting), final, refusal     *)
(* (error, or anything that is not understood), bye (a normal close) or lost *)
(* (an abnormal one).  A task's state is the await it stands at.  Bounds:    *)
(* MaxFrames client frames, MaxNotes notes, MaxSpawns worker processes.      *)
EXTENDS Naturals

CONSTANTS MaxFrames, MaxNotes, MaxSpawns

ASSUME BoundsAssumption ==
    MaxFrames \in Nat /\ MaxNotes \in Nat /\ MaxSpawns \in Nat

Handler == {"stream", "batch"}
Ended   == {"ok", "failed", "gone", "cancelled"}

Phase == {"new", "refused", "body", "asking", "probing", "calling", "relaying",
          "cleanup", "replying", "closing", "closed", "aborted"}
Verdict == {"failed", "completed", "cancelled", "interrupted"}

VARIABLES at,        \* where each handler stands
          result,    \* what its finally block will record
          booked,    \* how often it has recorded
          lock,      \* who holds start_lock
          process,   \* what process.poll() would say of the service's process
          alive,     \* worker processes started here and still running
          spawned,   \* worker processes started so far
          upload, download, dog,   \* the three tasks of relay_audio
          stop,      \* the event
          outcome,   \* the dictionary the tasks share
          told,      \* the worker was sent the stop command
          client,    \* the other end of the websocket: here or gone
          saw,       \* the closing frames that reached it
          frames, notes

handlerVars == <<at, result, booked>>
serviceVars == <<lock, process, alive, spawned>>
taskVars    == <<upload, download, dog>>
relayVars   == <<stop, outcome, told>>
peerVars    == <<client, saw, frames, notes>>
vars == <<handlerVars, serviceVars, taskVars, relayVars, peerVars>>

Init ==
    /\ at = [h \in Handler |-> "new"]
    /\ result = [h \in Handler |-> "failed"]
    /\ booked = [h \in Handler |-> 0]
    /\ lock = "free" /\ process = "none" /\ alive = 0 /\ spawned = 0
    /\ upload = "idle" /\ download = "idle" /\ dog = "idle"
    /\ stop = FALSE /\ outcome = "failed" /\ told = FALSE
    /\ client = "here" /\ saw = {}
    /\ frames = 0 /\ notes = 0

Go(h, phase) == at' = [at EXCEPT ![h] = phase]

Settle(h, phase, verdict) ==
    Go(h, phase) /\ result' = [result EXCEPT ![h] = verdict]

(* The failed call of a handler: the websocket still owes an error frame,    *)
(* the transcription answers and records at once.                           *)
AfterFailure(h) == IF h = "stream" THEN "replying" ELSE "closing"

------------------------------------------------------------------------------
(* Both handlers check the key and the switch before anything is recorded.   *)
Refuse(h) ==
    /\ at[h] = "new" /\ Go(h, "refused")
    /\ UNCHANGED <<result, booked, serviceVars, taskVars, relayVars, peerVars>>

Admit(h) ==
    /\ at[h] = "new" /\ Go(h, IF h = "stream" THEN "asking" ELSE "body")
    /\ UNCHANGED <<result, booked, serviceVars, taskVars, relayVars, peerVars>>

(* The uploaded file is read, checked for size, form and model.              *)
ReadBody ==
    /\ at["batch"] = "body"
    /\ \/ Go("batch", "asking") /\ UNCHANGED result
       \/ Settle("batch", "closing", "failed")
    /\ UNCHANGED <<booked, serviceVars, taskVars, relayVars, peerVars>>

(* ensure_started: one caller at a time asks for the worker's health and     *)
(* starts a process when none of its own is running.                         *)
TakeLock(h) ==
    /\ at[h] = "asking" /\ lock = "free"
    /\ lock' = h /\ Go(h, "probing")
    /\ UNCHANGED <<result, booked, process, alive, spawned,
                   taskVars, relayVars, peerVars>>

(* The switch was turned off by a hot reload, the worker answered, or it did *)
(* not and there is nothing to start.                                        *)
ProbeNothing(h) ==
    /\ at[h] = "probing"
    /\ lock' = "free" /\ Go(h, "calling")
    /\ UNCHANGED <<result, booked, process, alive, spawned,
                   taskVars, relayVars, peerVars>>

(* The health check answered nonsense, or the installation is incomplete.    *)
ProbeFails(h) ==
    /\ at[h] = "probing"
    /\ lock' = "free" /\ Settle(h, AfterFailure(h), "failed")
    /\ UNCHANGED <<booked, process, alive, spawned,
                   taskVars, relayVars, peerVars>>

(* Slip: the process is not asked whether it still runs.                     *)
MayStart_Assumed == TRUE

MayStart == process # "alive"

Spawn(h) ==
    /\ at[h] = "probing" /\ MayStart /\ spawned < MaxSpawns
    /\ process' = "alive" /\ alive' = alive + 1 /\ spawned' = spawned + 1
    /\ lock' = "free" /\ Go(h, "calling")
    /\ UNCHANGED <<result, booked, taskVars, relayVars, peerVars>>

WorkerDies ==
    /\ alive > 0
    /\ alive' = alive - 1 /\ process' = "dead"
    /\ UNCHANGED <<handlerVars, lock, spawned, taskVars, relayVars, peerVars>>

(* The transcription's post: an answer with a text, one without, a worker    *)
(* that refuses, a timeout or no connection.                                 *)
Post ==
    /\ at["batch"] = "calling"
    /\ \E verdict \in {"completed", "failed"} : Settle("batch", "closing", verdict)
    /\ UNCHANGED <<booked, serviceVars, taskVars, relayVars, peerVars>>

ConnectFails ==
    /\ at["stream"] = "calling"
    /\ Settle("stream", "replying", "failed")
    /\ UNCHANGED <<booked, serviceVars, taskVars, relayVars, peerVars>>

Connect ==
    /\ at["stream"] = "calling" /\ Go("stream", "relaying")
    /\ upload' = "receiving" /\ download' = "reading" /\ dog' = "recording"
    /\ UNCHANGED <<result, booked, serviceVars, relayVars, peerVars>>

------------------------------------------------------------------------------
(* The upload task.                                                          *)
relaying == at["stream"] = "relaying"

ClientLeaves ==
    /\ client = "here" /\ client' = "gone"
    /\ UNCHANGED <<handlerVars, serviceVars, taskVars, relayVars,
                   saw, frames, notes>>

Receive ==
    /\ relaying /\ upload = "receiving" /\ frames < MaxFrames
    /\ frames' = frames + 1
    /\ UNCHANGED <<handlerVars, serviceVars, download, dog, outcome, told,
                   client, saw, notes>>

ReceiveAudio ==
    /\ Receive /\ UNCHANGED stop
    /\ upload' = IF stop THEN "failed" ELSE "sendAudio"

ReceiveJunk   == Receive /\ UNCHANGED stop /\ upload' = "failed"
ReceiveCancel == Receive /\ UNCHANGED stop /\ upload' = "sendCancelled"

ReceiveStop ==
    /\ Receive /\ stop' = TRUE
    /\ upload' = IF stop THEN "receiving" ELSE "sendStop"

ReceiveDisconnect ==
    /\ relaying /\ upload = "receiving" /\ client = "gone"
    /\ outcome' = "cancelled" /\ upload' = "ok"
    /\ UNCHANGED <<handlerVars, serviceVars, download, dog, stop, told, peerVars>>

IdleTimeout ==
    /\ relaying /\ upload = "receiving" /\ ~stop
    /\ upload' = "failed"
    /\ UNCHANGED <<handlerVars, serviceVars, download, dog, relayVars, peerVars>>

(* upstream.send returns, or the worker has closed the connection.           *)
UpstreamSend ==
    /\ relaying /\ upload \in {"sendAudio", "sendStop"}
    /\ \/ upload' = "receiving" /\ told' = (told \/ upload = "sendStop")
       \/ upload' = "failed" /\ UNCHANGED told
    /\ UNCHANGED <<handlerVars, serviceVars, download, dog, stop, outcome, peerVars>>

SendCancelled ==
    /\ relaying /\ upload = "sendCancelled"
    /\ \/ /\ client = "here" /\ saw' = saw \cup {"cancelled"}
          /\ outcome' = "cancelled" /\ upload' = "ok"
       \/ client = "gone" /\ upload' = "gone" /\ UNCHANGED <<saw, outcome>>
    /\ UNCHANGED <<handlerVars, serviceVars, download, dog, stop, told,
                   client, frames, notes>>

------------------------------------------------------------------------------
(* The download task.                                                        *)
ReadNote ==
    /\ relaying /\ download = "reading" /\ notes < MaxNotes
    /\ notes' = notes + 1 /\ download' = "sendNote"
    /\ UNCHANGED <<handlerVars, serviceVars, upload, dog, relayVars,
                   client, saw, frames>>

ReadFinal ==
    /\ relaying /\ download = "reading"
    /\ download' = IF stop THEN "sendFinal" ELSE "failed"
    /\ UNCHANGED <<handlerVars, serviceVars, upload, dog, relayVars, peerVars>>

(* refusal, bye and lost all end the task with an error of their own.        *)
ReadOther ==
    /\ relaying /\ download = "reading"
    /\ download' = "failed"
    /\ UNCHANGED <<handlerVars, serviceVars, upload, dog, relayVars, peerVars>>

NoteSent ==
    /\ relaying /\ download = "sendNote"
    /\ download' = IF client = "here" THEN "reading" ELSE "gone"
    /\ UNCHANGED <<handlerVars, serviceVars, upload, dog, relayVars, peerVars>>

(* Slip: the session counts as completed before its text is out.             *)
FinalOut_Early ==
    /\ relaying /\ download = "sendFinal"
    /\ saw' = IF client = "here" THEN saw \cup {"final"} ELSE saw
    /\ download' = "draining" /\ outcome' = "completed"
    /\ UNCHANGED <<handlerVars, serviceVars, upload, dog, stop, told,
                   client, frames, notes>>

(* The frame is on its way before send_text returns: it may wait for the     *)
(* transport to drain, and other tasks run meanwhile.                        *)
FinalOut ==
    /\ relaying /\ download = "sendFinal" /\ client = "here"
    /\ saw' = saw \cup {"final"} /\ download' = "draining"
    /\ UNCHANGED <<handlerVars, serviceVars, upload, dog, relayVars,
                   client, frames, notes>>

FinalSent ==
    /\ relaying /\ download = "draining"
    /\ download' = "ok" /\ outcome' = "completed"
    /\ UNCHANGED <<handlerVars, serviceVars, upload, dog, stop, told, peerVars>>

FinalFails ==
    /\ relaying /\ download \in {"sendFinal", "draining"} /\ client = "gone"
    /\ download' = "gone"
    /\ UNCHANGED <<handlerVars, serviceVars, upload, dog, relayVars, peerVars>>

------------------------------------------------------------------------------
(* The watchdog task.  When the event and the timer come in one turn, the    *)
(* timer may still win.                                                      *)
RecordTimeout ==
    /\ relaying /\ dog = "recording" /\ dog' = "failed"
    /\ UNCHANGED <<handlerVars, serviceVars, upload, download, relayVars, peerVars>>

SeeStop ==
    /\ relaying /\ dog = "recording" /\ stop /\ dog' = "waiting"
    /\ UNCHANGED <<handlerVars, serviceVars, upload, download, relayVars, peerVars>>

FinalTimeout ==
    /\ relaying /\ dog = "waiting" /\ dog' = "failed"
    /\ UNCHANGED <<handlerVars, serviceVars, upload, download, relayVars, peerVars>>

------------------------------------------------------------------------------
(* relay_audio wakes up some turns after the first task has ended and judges *)
(* by what it then finds.                                                    *)
Ends == {upload, download, dog} \cap Ended

Judgement ==
    IF outcome = "completed" \/ Ends \cap {"failed", "gone"} = {}
    THEN {outcome}
    ELSE {IF e = "failed" THEN "failed" ELSE "cancelled" :
            e \in Ends \cap {"failed", "gone"}}

Wake ==
    /\ relaying /\ Ends # {}
    /\ \E verdict \in Judgement : Settle("stream", "cleanup", verdict)
    /\ UNCHANGED <<booked, serviceVars, taskVars, relayVars, peerVars>>

Stopped(task) == IF task \in Ended THEN task ELSE "cancelled"

Cleanup ==
    /\ at["stream"] = "cleanup"
    /\ upload' = Stopped(upload) /\ download' = Stopped(download)
    /\ dog' = Stopped(dog)
    /\ Go("stream", IF result["stream"] = "failed" THEN "replying" ELSE "closing")
    /\ UNCHANGED <<result, booked, serviceVars, relayVars, peerVars>>

(* The error frame; a client that has gone is not an error any more.         *)
Reply ==
    /\ at["stream"] = "replying" /\ Go("stream", "closing")
    /\ saw' = IF client = "here" THEN saw \cup {"error"} ELSE saw
    /\ UNCHANGED <<result, booked, serviceVars, taskVars, relayVars,
                   client, frames, notes>>

(* The end of the finally block: audit event, usage record, socket.close.    *)
Finish(h) ==
    /\ at[h] = "closing" /\ Go(h, "closed")
    /\ booked' = [booked EXCEPT ![h] = @ + 1]
    /\ UNCHANGED <<result, serviceVars, taskVars, relayVars, peerVars>>

(* The server cancels the handler: at a shutdown, or when the client of the  *)
(* transcription is gone.  A cancellation in the finally block itself ends   *)
(* the handler there.                                                        *)
Cancel(h) ==
    /\ \/ /\ at[h] \in {"body", "asking", "probing", "calling"}
          /\ Settle(h, "closing", "interrupted")
          /\ UNCHANGED taskVars
       \/ /\ h = "stream" /\ at[h] \in {"relaying", "cleanup"}
          /\ Settle(h, "closing", "interrupted")
          /\ upload' = Stopped(upload) /\ download' = Stopped(download)
          /\ dog' = Stopped(dog)
       \/ at[h] = "replying" /\ Go(h, "aborted") /\ UNCHANGED <<result, taskVars>>
    /\ lock' = IF lock = h THEN "free" ELSE lock
    /\ UNCHANGED <<booked, process, alive, spawned, relayVars, peerVars>>

(* close() at the end of the lifespan, when no handler is left.              *)
CloseService ==
    /\ \A h \in Handler : at[h] \in {"new", "refused", "closed", "aborted"}
    /\ process = "alive" /\ process' = "dead" /\ alive' = alive - 1
    /\ UNCHANGED <<handlerVars, lock, spawned, taskVars, relayVars, peerVars>>

Upload ==
    \/ ReceiveAudio \/ ReceiveJunk \/ ReceiveCancel \/ ReceiveStop
    \/ ReceiveDisconnect \/ IdleTimeout \/ UpstreamSend \/ SendCancelled

Download ==
    \/ ReadNote \/ ReadFinal \/ ReadOther
    \/ NoteSent \/ FinalOut \/ FinalSent \/ FinalFails

(* Slip: nobody watches the phase after the stop.                            *)
Watchdog_NoFinalTimeout == RecordTimeout \/ SeeStop

Watchdog == RecordTimeout \/ SeeStop \/ FinalTimeout

Next ==
    \/ \E h \in Handler :
         \/ Refuse(h) \/ Admit(h) \/ TakeLock(h) \/ ProbeNothing(h)
         \/ ProbeFails(h) \/ Spawn(h) \/ Finish(h) \/ Cancel(h)
    \/ ReadBody \/ Post \/ ConnectFails \/ Connect
    \/ Upload \/ Download \/ Watchdog \/ ClientLeaves
    \/ Wake \/ Cleanup \/ Reply
    \/ WorkerDies \/ CloseService

(* Timers fire, awaited calls with a timeout return, and a task whose await  *)
(* has returned runs.  Nothing is assumed of the client, of the worker, or   *)
(* of a send that the worker does not read.                                  *)
Fairness ==
    /\ \A h \in Handler :
         /\ WF_vars(TakeLock(h)) /\ WF_vars(ProbeNothing(h)) /\ WF_vars(Finish(h))
    /\ WF_vars(Connect) /\ WF_vars(Watchdog)
    /\ WF_vars(Wake) /\ WF_vars(Cleanup) /\ WF_vars(Reply)

Spec == Init /\ [][Next]_vars /\ Fairness

------------------------------------------------------------------------------
TypeOK ==
    /\ at \in [Handler -> Phase]
    /\ result \in [Handler -> Verdict]
    /\ booked \in [Handler -> Nat]
    /\ lock \in Handler \cup {"free"}
    /\ process \in {"none", "alive", "dead"} /\ alive \in Nat /\ spawned \in Nat
    /\ upload \in Ended \cup {"idle", "receiving", "sendAudio", "sendStop",
                              "sendCancelled"}
    /\ download \in Ended \cup {"idle", "reading", "sendNote", "sendFinal",
                                "draining"}
    /\ dog \in Ended \cup {"idle", "recording", "waiting"}
    /\ stop \in BOOLEAN /\ told \in BOOLEAN /\ outcome \in Verdict
    /\ client \in {"here", "gone"} /\ saw \in SUBSET {"final", "cancelled", "error"}
    /\ frames \in Nat /\ notes \in Nat

(* Every admitted request is recorded exactly once, whatever ended it, by    *)
(* the time its handler is over, except one that the server cancels while it *)
(* sends its error frame; no task outlives the session that started it; and  *)
(* the bridge never runs two workers of its own.                             *)
OneWorker == alive = IF process = "alive" THEN 1 ELSE 0

Accounted ==
    /\ TypeOK
    /\ OneWorker
    /\ \A h \in Handler : booked[h] = IF at[h] = "closed" THEN 1 ELSE 0
    /\ at["stream"] \in {"replying", "closing", "closed", "aborted"} =>
           {upload, download, dog} \subseteq Ended \cup {"idle"}

(* What is recorded is what happened: a completed session has delivered its  *)
(* final text after the client asked for it, a failed one has told its       *)
(* client so and a cancelled one was given up by its client, unless nobody   *)
(* is left to tell; and the worker receives no audio once it was told to     *)
(* stop.                                                                     *)
VerdictHonest ==
    /\ booked["stream"] = 1 =>
         /\ result["stream"] = "completed" => stop /\ "final" \in saw
         /\ result["stream"] = "failed" => client = "gone" \/ "error" \in saw
         /\ result["stream"] = "cancelled" => client = "gone" \/ "cancelled" \in saw
    /\ told => upload # "sendAudio"

(* Every session ends, though the idle timeout is off after the stop, though *)
(* the worker may never answer nor read, and though the client may stay.     *)
SessionEnds ==
    at["stream"] \in Phase \ {"new", "refused"} ~> at["stream"] \in {"closed", "aborted"}

(* As the comment in relay_audio has it: a final result that was delivered   *)
(* to the client takes precedence over the races of the closing (a server    *)
(* that shuts down apart).  The code does not keep this one: the outcome is  *)
(* noted when the send returns, and another task may end before that.        *)
FinalStands ==
    booked["stream"] = 1 /\ "final" \in saw =>
        result["stream"] \in {"completed", "interrupted"}
=============================================================================
