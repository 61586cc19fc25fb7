--------------------------- MODULE GatewayStream ---------------------------
(***************************************************************************)
(* One relayed request from the choice of its route to its end: the        *)
(* upstream call, the generators that carry its stream to the client, what *)
(* is recorded about it and what it gives back.  Four routes share the     *)
(* structure and differ in what they observe and in who closes what:       *)
(*   native         /v1/responses to the official upstream                 *)
(*   native_chat    chat completions translated onto that same call        *)
(*   provider       /v1/responses to a configured provider                 *)
(*   provider_chat  chat completions translated onto a provider            *)
(* The first two lease a client of the native pool, seen from here as      *)
(* bounded admission; the others own an httpx client.  An action is the    *)
(* code between two suspension points.                                     *)
(***************************************************************************)
EXTENDS Naturals, Sequences, FiniteSets

CONSTANTS
  Request,       \* requests, each of them made once
  Routes,        \* the routes requests may take
  Sent,          \* the events upstreams may send
  Slots,         \* max_active of the pool
  Capacity       \* max_active + max_waiters

AllRoutes == {"native", "native_chat", "provider", "provider_chat"}
Pooled == {"native", "native_chat"}       \* routes that lease from the pool
Chat == {"native_chat", "provider_chat"}  \* routes with a translator

(* What an upstream event means to the gateway; "anonymous" completes a    *)
(* response that has no id, "delta" is every event that is not terminal.   *)
Event == {"delta", "completed", "anonymous", "incomplete", "failed", "error"}

(* Outcomes of a request in the statistics: 200, 499, 502 or 504, 503, and *)
(* the error status of the upstream.                                       *)
Status == {"ok", "cancelled", "failed", "busy", "refused"}

ASSUME RequestAssumption ==
  /\ Routes \subseteq AllRoutes
  /\ Sent \subseteq Event
  /\ Slots \in Nat \ {0}
  /\ Capacity \in Nat /\ Capacity >= Slots
  /\ IsFiniteSet(Request)

VARIABLES
  inside, working, \* leases of the native pool: reserved, and admitted
  pc,        \* where the coroutines of the request stand, see Stage
  route,     \* its route
  upstream,  \* its client and response: "none", "open" or "closed"
  source,    \* the upstream body: "flowing", "ended" or "broken"
  flags,     \* completed, failed and cancelled of stream_bytes
  outcome,   \* outcome of the translator: "none" until its terminal event
  due,       \* what the handler records when the upstream is closed
  recorded,  \* the calls of _record_request
  cached,    \* the response was put into the context cache
  said,      \* the events the upstream has sent
  seen,      \* the events the client has received
  gone       \* the client is gone, or its coroutine was cancelled

poolVars == <<inside, working>>
streamVars == <<source, flags, outcome, said, cached>>
vars == <<inside, working, pc, route, upstream, source, flags, outcome, due,
          recorded, cached, said, seen, gone>>

(* "new"; "sending": in build_request and client.send; "erroring": reading *)
(* an error body; "reading": reading a whole body; "collecting": a chat    *)
(* reply is aggregated; "headers": the response is returned, its generator *)
(* has not begun; "pulling": the generator awaits the upstream;            *)
(* "draining": stream_bytes has ended below a translator; "yielded": a     *)
(* chunk is being sent; "abandoned": the generator is left at its yield;   *)
(* "closing": closing the upstream; "over".                                *)
Stage == {"new", "sending", "erroring", "reading", "collecting", "headers",
          "pulling", "draining", "yielded", "abandoned", "closing", "over"}

Flags == [completed : BOOLEAN, failed : BOOLEAN, cancelled : BOOLEAN]

Pool == INSTANCE BoundedAdmission WITH Lease <- Request

-----------------------------------------------------------------------------
Goto(r, stage) == pc' = [pc EXCEPT ![r] = stage]

(* observe() of stream_bytes on route k; provider_chat has no observer.    *)
Observed(k, e, f) ==
  IF k = "provider_chat" THEN f
  ELSE [f EXCEPT !.completed = @ \/ e = "completed"
                                 \/ (e = "anonymous" /\ k = "provider"),
                 !.failed = @ \/ e \in {"failed", "error", "incomplete"}]

(* What the translator makes of an event; delivering an image may fail.    *)
Translated(e) ==
  CASE e = "delta"                      -> {"none", "failed"}
    [] e = "error"                      -> {"none"}
    [] e \in {"completed", "anonymous"} -> {"completed", "failed"}
    [] e = "incomplete"                 -> {"incomplete", "failed"}
    [] e = "failed"                     -> {"failed"}

(* Slip: a stream that ends early is not told from one that was left.      *)
Ended_Silently(k, f) == f

(* The flags once the body has ended without an exception.                 *)
Ended(k, f) ==
  IF k = "provider_chat" THEN f ELSE [f EXCEPT !.failed = @ \/ ~f.completed]

(* Slip: the context is put when the next chunk is asked for.              *)
Hear_Late(r, e, last) ==
  /\ said' = [said EXCEPT ![r] = @ \cup {e}]
  /\ flags' = [flags EXCEPT ![r] =
       IF last THEN Ended(route[r], Observed(route[r], e, @))
       ELSE Observed(route[r], e, @)]
  /\ cached' = [cached EXCEPT ![r] =
                  @ \/ ("completed" \in said[r] /\ route[r] # "provider_chat")]
  /\ IF route[r] \in Chat
     THEN \E t \in Translated(e) : outcome' = [outcome EXCEPT ![r] = t]
     ELSE UNCHANGED outcome

(* An upstream event passes observe() and, on a chat route, the            *)
(* translator; it may be the last one.  A completed response with an id    *)
(* is cached.                                                              *)
Hear(r, e, last) ==
  /\ said' = [said EXCEPT ![r] = @ \cup {e}]
  /\ flags' = [flags EXCEPT ![r] =
       IF last THEN Ended(route[r], Observed(route[r], e, @))
       ELSE Observed(route[r], e, @)]
  /\ cached' = [cached EXCEPT ![r] =
                  @ \/ (e = "completed" /\ route[r] # "provider_chat")]
  /\ IF route[r] \in Chat
     THEN \E t \in Translated(e) : outcome' = [outcome EXCEPT ![r] = t]
     ELSE UNCHANGED outcome

LeavePool(r) == IF r \in inside THEN Pool!Leave(r) ELSE UNCHANGED poolVars

(* The handler leaves its try block, to record s once the upstream is      *)
(* closed.                                                                 *)
End(r, s) ==
  /\ Goto(r, "closing")
  /\ due' = [due EXCEPT ![r] = s]

-----------------------------------------------------------------------------
(* The status the handler's on_trace gives to a finished stream.           *)

NativeStatus(f) ==
  IF f.failed THEN "failed" ELSE IF f.completed THEN "ok" ELSE "cancelled"

ProviderStatus(f) ==
  IF f.completed /\ ~f.failed THEN "ok"
  ELSE IF f.cancelled THEN "cancelled" ELSE "failed"

ChatStatus(t, failed) ==
  IF t = "failed" \/ failed THEN "failed"
  ELSE IF t \in {"completed", "incomplete"} THEN "ok" ELSE "cancelled"

(* Slip: the end of stream_bytes is recorded on the chat route as well.    *)
Finish_Inner(r, f, t, normal) ==
  /\ Goto(r, "closing")
  /\ recorded' = [recorded EXCEPT ![r] = Append(@, NativeStatus(f))]
  /\ due' = [due EXCEPT ![r] = IF route[r] = "native_chat"
                               THEN ChatStatus(t, f.failed) ELSE "none"]

(* The finally of the generators with the flags f and the translator's     *)
(* outcome t.  /v1/responses is recorded before the upstream is closed,    *)
(* native chat after it, and provider chat only when the stream ended      *)
(* without an exception.                                                   *)
Finish(r, f, t, normal) ==
  /\ Goto(r, "closing")
  /\ recorded' = [recorded EXCEPT ![r] =
       CASE route[r] = "native"        -> Append(@, NativeStatus(f))
         [] route[r] = "provider"      -> Append(@, ProviderStatus(f))
         [] route[r] = "native_chat"   -> @
         [] route[r] = "provider_chat" ->
              IF normal THEN Append(@, ChatStatus(t, FALSE)) ELSE @]
  /\ due' = [due EXCEPT ![r] = IF route[r] = "native_chat"
                               THEN ChatStatus(t, f.failed) ELSE "none"]

-----------------------------------------------------------------------------
Init ==
  /\ Pool!Init
  /\ pc = [r \in Request |-> "new"]
  /\ route \in [Request -> Routes]
  /\ upstream = [r \in Request |-> "none"]
  /\ source = [r \in Request |-> "flowing"]
  /\ flags = [r \in Request |->
                [completed |-> FALSE, failed |-> FALSE, cancelled |-> FALSE]]
  /\ outcome = [r \in Request |-> "none"]
  /\ due = [r \in Request |-> "none"]
  /\ recorded = [r \in Request |-> <<>>]
  /\ cached = [r \in Request |-> FALSE]
  /\ said = [r \in Request |-> {}]
  /\ seen = [r \in Request |-> {}]
  /\ gone = [r \in Request |-> FALSE]

(* The route makes its client and builds the request; on a pooled route    *)
(* build_request reserves a place.                                         *)
Start(r) ==
  /\ pc[r] = "new"
  /\ IF route[r] \in Pooled THEN Pool!Enter(r) ELSE UNCHANGED poolVars
  /\ upstream' = [upstream EXCEPT ![r] = "open"]
  /\ Goto(r, "sending")
  /\ UNCHANGED <<route, streamVars, due, recorded, seen, gone>>

(* The pool has no place left: NativePoolBusy out of build_request.        *)
StartBusy(r) ==
  /\ pc[r] = "new" /\ route[r] \in Pooled
  /\ Cardinality(inside) >= Capacity
  /\ upstream' = [upstream EXCEPT ![r] = "open"]
  /\ End(r, "busy")
  /\ UNCHANGED <<poolVars, route, streamVars, recorded, seen, gone>>

(* send gets a slot of the pool.                                           *)
Admitted(r) ==
  /\ pc[r] = "sending" /\ route[r] \in Pooled
  /\ Pool!Work(r)
  /\ UNCHANGED <<pc, route, upstream, streamVars, due, recorded, seen, gone>>

(* Slip: the wait for a slot has no timeout.                               *)
SendBusy_Never(r) == FALSE

(* The wait for a slot timed out: NativePoolBusy out of send.              *)
SendBusy(r) ==
  /\ pc[r] = "sending" /\ r \in inside \ working
  /\ End(r, "busy")
  /\ UNCHANGED <<poolVars, route, upstream, streamVars, recorded, seen, gone>>

(* Preparing or sending raises; what failed is told by a record of 502.    *)
SendFails(r) ==
  /\ pc[r] = "sending"
  /\ End(r, "failed")
  /\ UNCHANGED <<poolVars, route, upstream, streamVars, recorded, seen, gone>>

(* Upstream headers: an error, a stream, or a body to be read as a whole;  *)
(* native chat always has a stream, and collects it for some clients.      *)
SendReturns(r) ==
  /\ pc[r] = "sending"
  /\ route[r] \in Pooled => r \in working
  /\ \E stage \in {"erroring", "headers",
                   IF route[r] = "native_chat" THEN "collecting" ELSE "reading"} :
       Goto(r, stage)
  /\ UNCHANGED <<poolVars, route, upstream, streamVars, due, recorded, seen, gone>>

(* The error body is read, or reading it fails as well.                    *)
ErrorRead(r) ==
  /\ pc[r] = "erroring"
  /\ \E s \in {"refused", "failed"} : End(r, s)
  /\ UNCHANGED <<poolVars, route, upstream, streamVars, recorded, seen, gone>>

(* A whole body is read: a response with an id, another one, or none; on   *)
(* provider_chat one that does not convert is a failure.                   *)
BodyRead(r) ==
  /\ pc[r] = "reading"
  /\ \/ /\ \E e \in {"completed", "anonymous"} :
             /\ said' = [said EXCEPT ![r] = {e}]
             /\ cached' = [cached EXCEPT ![r] =
                             e = "completed" /\ route[r] # "provider_chat"]
        /\ End(r, "ok")
     \/ End(r, "failed") /\ UNCHANGED <<said, cached>>
  /\ UNCHANGED <<poolVars, route, upstream, source, flags, outcome, recorded,
                 seen, gone>>

(* An event reaches _collect_chat_response_from_responses_stream.          *)
Collect(r, e) ==
  /\ pc[r] = "collecting"
  /\ Hear(r, e, FALSE)
  /\ \/ outcome'[r] = "none" /\ UNCHANGED <<pc, due>>
     \/ outcome'[r] \in {"completed", "incomplete"} /\ End(r, "ok")
     \/ outcome'[r] = "failed" /\ End(r, "failed")
  /\ UNCHANGED <<poolVars, route, upstream, source, recorded, seen, gone>>

(* The stream being collected ends, or breaks, before a terminal event.    *)
CollectEnds(r) ==
  /\ pc[r] = "collecting"
  /\ \E s \in {"ended", "broken"} : source' = [source EXCEPT ![r] = s]
  /\ End(r, "failed")
  /\ UNCHANGED <<poolVars, route, upstream, flags, outcome, said, cached,
                 recorded, seen, gone>>

(* A cancellation before the response object exists.                       *)
HandlerCancelled(r) ==
  /\ pc[r] \in {"sending", "erroring", "reading", "collecting"}
  /\ gone' = [gone EXCEPT ![r] = TRUE]
  /\ End(r, "none")
  /\ UNCHANGED <<poolVars, route, upstream, streamVars, recorded, seen>>

-----------------------------------------------------------------------------
(* Streaming.                                                              *)

Begin(r) ==
  /\ pc[r] = "headers"
  /\ Goto(r, "pulling")
  /\ UNCHANGED <<poolVars, route, upstream, streamVars, due, recorded, seen, gone>>

(* Slip: the response of /v1/responses is a plain StreamingResponse.       *)
LostBeforeBegin_Plain(r) ==
  /\ pc[r] = "headers"
  /\ gone' = [gone EXCEPT ![r] = TRUE]
  /\ Goto(r, "over")
  /\ UNCHANGED <<poolVars, route, upstream, streamVars, due, recorded, seen>>

(* Sending the response's headers fails.  A generator that has not begun   *)
(* runs no finally; only _NativeStreamingResponse closes the upstream.     *)
LostBeforeBegin(r) ==
  /\ pc[r] = "headers"
  /\ gone' = [gone EXCEPT ![r] = TRUE]
  /\ Goto(r, IF route[r] = "native" THEN "closing" ELSE "over")
  /\ UNCHANGED <<poolVars, route, upstream, streamVars, due, recorded, seen>>

(* A chunk with an event is passed on; the translator may keep silent      *)
(* about one that is not terminal and ask for more.                        *)
Chunk(r, e) ==
  /\ pc[r] = "pulling"
  /\ Hear(r, e, FALSE)
  /\ \/ Goto(r, "yielded")
     \/ route[r] \in Chat /\ outcome'[r] = "none" /\ UNCHANGED pc
  /\ UNCHANGED <<poolVars, route, upstream, source, due, recorded, seen, gone>>

(* The upstream body ends; its last event may have lacked its newline and  *)
(* is parsed only now ("delta" stands for no such event).  Without a       *)
(* terminal event that is a failure.                                       *)
BodyEnds(r) ==
  /\ pc[r] = "pulling" /\ route[r] \notin Chat
  /\ source' = [source EXCEPT ![r] = "ended"]
  /\ \E e \in Sent : Hear(r, e, TRUE)
  /\ Finish(r, flags'[r], outcome'[r], TRUE)
  /\ seen' = [seen EXCEPT ![r] = said'[r]]
  /\ UNCHANGED <<poolVars, route, upstream, gone>>

(* The same below a translator, which then has its last words: the tail    *)
(* event, or the news that the stream ended early.  On native chat         *)
(* stream_bytes closes the upstream first.                                 *)
ChatBodyEnds(r) ==
  /\ pc[r] = "pulling" /\ route[r] \in Chat
  /\ source' = [source EXCEPT ![r] = "ended"]
  /\ \E e \in Sent : Hear(r, e, TRUE)
  /\ Goto(r, IF route[r] = "native_chat" THEN "draining" ELSE "yielded")
  /\ UNCHANGED <<poolVars, route, upstream, due, recorded, seen, gone>>

Drained(r) ==
  /\ pc[r] = "draining"
  /\ upstream' = [upstream EXCEPT ![r] = "closed"]
  /\ LeavePool(r)
  /\ Goto(r, "yielded")
  /\ UNCHANGED <<route, streamVars, due, recorded, seen, gone>>

(* Reading the upstream raises: a transport error, or an oversized event.  *)
BodyBreaks(r) ==
  /\ pc[r] = "pulling"
  /\ source' = [source EXCEPT ![r] = "broken"]
  /\ flags' = [flags EXCEPT ![r].failed = @ \/ route[r] # "provider_chat"]
  /\ Finish(r, flags'[r], outcome[r], FALSE)
  /\ UNCHANGED <<poolVars, route, upstream, outcome, said, cached, seen, gone>>

(* The client disconnects, or the server stops, while the generator awaits *)
(* the upstream: CancelledError.                                           *)
PullCancelled(r) ==
  /\ pc[r] = "pulling"
  /\ gone' = [gone EXCEPT ![r] = TRUE]
  /\ flags' = [flags EXCEPT ![r].cancelled = TRUE]
  /\ Finish(r, flags'[r], outcome[r], FALSE)
  /\ UNCHANGED <<poolVars, route, upstream, source, outcome, said, cached, seen>>

(* The client has the chunk.  A translator that is done, or whose source   *)
(* has ended, returns; stream_chat then closes stream_bytes at its yield.  *)
Taken(r) ==
  /\ pc[r] = "yielded"
  /\ seen' = [seen EXCEPT ![r] = said[r]]
  /\ \/ /\ outcome[r] = "none" /\ source[r] = "flowing"
        /\ Goto(r, "pulling")
        /\ UNCHANGED <<flags, due, recorded>>
     \/ /\ outcome[r] # "none" \/ source[r] = "ended"
        /\ flags' = [flags EXCEPT ![r].cancelled = @ \/ source[r] = "flowing"]
        /\ Finish(r, flags'[r], outcome[r], TRUE)
  /\ UNCHANGED <<poolVars, route, upstream, source, outcome, said, cached, gone>>

(* Sending a chunk fails or is cancelled: the generators stay at yield.    *)
ClientLost(r) ==
  /\ pc[r] = "yielded"
  /\ gone' = [gone EXCEPT ![r] = TRUE]
  /\ Goto(r, "abandoned")
  /\ UNCHANGED <<poolVars, route, upstream, streamVars, due, recorded, seen>>

(* _NativeStreamingResponse closes the upstream under its generator.       *)
ResponseOver(r) ==
  /\ pc[r] = "abandoned" /\ route[r] = "native" /\ upstream[r] = "open"
  /\ upstream' = [upstream EXCEPT ![r] = "closed"]
  /\ LeavePool(r)
  /\ UNCHANGED <<pc, route, streamVars, due, recorded, seen, gone>>

(* The loop's finalizer closes the abandoned generators: GeneratorExit.    *)
Finalized(r) ==
  /\ pc[r] = "abandoned"
  /\ flags' = [flags EXCEPT ![r].cancelled = @ \/ source[r] = "flowing"]
  /\ Finish(r, flags'[r], outcome[r], FALSE)
  /\ UNCHANGED <<poolVars, route, upstream, source, outcome, said, cached,
                 seen, gone>>

(* close_http_client, which has no effect the second time; then the        *)
(* handler, or stream_chat, records what was due.                          *)
Close(r) ==
  /\ pc[r] = "closing"
  /\ upstream' = [upstream EXCEPT ![r] = "closed"]
  /\ LeavePool(r)
  /\ recorded' = [recorded EXCEPT ![r] =
                    IF due[r] = "none" THEN @ ELSE Append(@, due[r])]
  /\ seen' = [seen EXCEPT ![r] =
                IF due[r] = "ok" /\ ~gone[r] THEN said[r] ELSE @]
  /\ Goto(r, "over")
  /\ UNCHANGED <<route, streamVars, due, gone>>

-----------------------------------------------------------------------------
(* What moves on by itself; sending may also fail at once, and a request   *)
(* be lost or cancelled.                                                   *)
Going(r) ==
  \/ Start(r) \/ StartBusy(r) \/ Admitted(r) \/ SendBusy(r) \/ SendReturns(r)
  \/ ErrorRead(r) \/ BodyRead(r) \/ CollectEnds(r) \/ Begin(r) \/ BodyEnds(r)
  \/ ChatBodyEnds(r) \/ Drained(r) \/ BodyBreaks(r) \/ Taken(r)
  \/ ResponseOver(r) \/ Finalized(r) \/ Close(r)

Lost(r) ==
  \/ SendFails(r) \/ HandlerCancelled(r) \/ LostBeforeBegin(r)
  \/ PullCancelled(r) \/ ClientLost(r)

Next ==
  \E r \in Request :
    \/ Going(r) \/ Lost(r)
    \/ \E e \in Sent : Chunk(r, e) \/ Collect(r, e)

Spec == Init /\ [][Next]_vars

-----------------------------------------------------------------------------
(* Properties.                                                             *)

(* The state has the shape the code gives it.                              *)
TypeOK ==
  /\ inside \subseteq Request
  /\ working \subseteq inside
  /\ pc \in [Request -> Stage]
  /\ route \in [Request -> Routes]
  /\ upstream \in [Request -> {"none", "open", "closed"}]
  /\ source \in [Request -> {"flowing", "ended", "broken"}]
  /\ flags \in [Request -> Flags]
  /\ outcome \in [Request -> {"none", "completed", "incomplete", "failed"}]
  /\ due \in [Request -> Status \cup {"none"}]
  /\ recorded \in [Request -> Seq(Status)]
  /\ cached \in [Request -> BOOLEAN]
  /\ said \in [Request -> SUBSET Event]
  /\ seen \in [Request -> SUBSET Event]
  /\ gone \in [Request -> BOOLEAN]

(* "Close upstream clients on cancellation" (CHANGELOG 0.2.14): a request  *)
(* that is over has closed its upstream and left the pool, on every path   *)
(* but one, a client lost before the stream began on a route other than    *)
(* /v1/responses; and while its upstream answers it holds a slot.          *)
UpstreamReleased ==
  \A r \in Request :
    /\ r \in inside => upstream[r] = "open"
    /\ pc[r] = "over" => \/ upstream[r] = "closed" /\ r \notin inside
                         \/ gone[r] /\ said[r] = {} /\ route[r] # "native"
    /\ upstream[r] = "open" /\ route[r] \in Pooled
       /\ pc[r] \in {"erroring", "reading", "collecting", "headers", "pulling",
                     "draining", "yielded", "abandoned"} => r \in working

(* The statistics count a request at most once, and exactly once when its  *)
(* client stayed or had received a part of its stream; provider chat,      *)
(* which records nothing when its stream breaks or is left, is excepted.   *)
RecordedOnce ==
  \A r \in Request :
    /\ Len(recorded[r]) + (IF due[r] # "none" /\ pc[r] # "over" THEN 1 ELSE 0) <= 1
    /\ pc[r] = "over" /\ (~gone[r] \/ seen[r] # {})
       /\ (route[r] = "provider_chat" => ~gone[r] /\ source[r] # "broken")
       => Len(recorded[r]) = 1

(* "Distinguish upstream failure/truncation (502) from client cancellation *)
(* (499)" (CHANGELOG 0.2.14): a recorded status says what happened.        *)
StatusTruthful ==
  \A r \in Request : \A i \in 1..Len(recorded[r]) :
    /\ recorded[r][i] = "ok" =>
         /\ \/ {"completed", "anonymous"} \cap said[r] # {}
            \/ "incomplete" \in said[r] /\ route[r] \in Chat
         /\ source[r] # "broken"
    /\ recorded[r][i] = "cancelled" => gone[r] \/ route[r] = "provider_chat"
    /\ recorded[r][i] = "failed" /\ source[r] = "ended" =>
         \/ "completed" \notin said[r]
         \/ said[r] \cap {"incomplete", "failed", "error"} # {}
         \/ outcome[r] = "failed"

(* A client that has received the completed response can continue it: its  *)
(* context was put before the client could see it, and only for a response *)
(* that did complete.                                                      *)
ContextReady ==
  \A r \in Request :
    /\ "completed" \in seen[r] /\ route[r] # "provider_chat" => cached[r]
    /\ cached[r] => "completed" \in said[r]

(* "Close the upstream even if downstream fails before iteration starts"   *)
(* (native_proxy.py:148): no request that is over keeps its lease.         *)
LeaseReturned == \A r \in Request : pc[r] = "over" => r \notin inside

(* "Distinguish upstream failure/truncation (502) from client cancellation *)
(* (499)" (CHANGELOG.md:65): 499 is recorded only when the client left.    *)
(* The provider chat route does not keep this one.                         *)
CancelledMeansGone ==
  \A r \in Request : \A i \in 1..Len(recorded[r]) :
    recorded[r][i] = "cancelled" => gone[r]

-----------------------------------------------------------------------------
(* Scheduling: coroutines that can go on do, httpx bounds every wait for   *)
(* the upstream by a timeout and the pool every wait for a slot, the       *)
(* finalizer runs; upstream bodies are finite.                             *)
SourceEnds(r) == BodyEnds(r) \/ ChatBodyEnds(r) \/ BodyBreaks(r) \/ CollectEnds(r)

Fairness ==
  \A r \in Request : WF_vars(Going(r)) /\ SF_vars(SourceEnds(r))

FairSpec == Spec /\ Fairness

(* Every request comes to its end, whatever its client and upstream do.    *)
RequestEnds == \A r \in Request : pc[r] = "sending" ~> pc[r] = "over"

(* However a request goes, its resources are accounted for.                  *)
ResourcesReturned == TypeOK /\ UpstreamReleased

=============================================================================
