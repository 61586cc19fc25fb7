------------------------------- MODULE ChatTurn -------------------------------
(* One turn of the Responses or the Chat endpoint that is served by an       *)
(* upstream chat model: the checks before the call, the four ways to answer  *)
(* (_handle_stream, _handle_web_search_stream, one JSON answer, a JSON       *)
(* answer with searches), the plain relay of the Chat endpoint, their        *)
(* retries, and a client that may leave at any await or yield.               *)
(*                                                                           *)
(* What an upstream stream said is reduced to what the handlers branch on:   *)
(* the kinds of output in it and whether it ended with a finish_reason that  *)
(* allows completion.  Chunks and heartbeats are not counted; what matters   *)
(* of them is the read task they leave behind.  MaxRounds is the clamped     *)
(* web_search.max_rounds; nothing else is bounded, the handlers stop by      *)
(* themselves.                                                               *)
EXTENDS Integers, Sequences, FiniteSets

CONSTANT MaxRounds

ASSUME RoundsAssumption == MaxRounds \in 1..5

Route == {"stream", "search", "json", "searchJson", "chat", "chatJson"}
Streaming == {"stream", "search", "chat"}

Thinking == {"thought", "quiet"}   \* reasoning_content, or another field for it
Speech   == {"text", "leak"}       \* leak: text that looks like a script
Calls    == {"call", "torn", "search", "image"}   \* torn: broken arguments

Answer ==
    [says : {{}, {"thought"}, {"quiet"}, {"text"}, {"leak"}, {"thought", "text"},
             {"call"}, {"torn"}, {"search"}, {"search", "call"}, {"image"}},
     whole : BOOLEAN]

Nothing == [says |-> {}, whole |-> FALSE]

VARIABLES route,   \* which way the turn takes
          imageTool, \* the upstream model was offered the image tool
          stage,
          observed, asked, \* calls made aside: an image described, an intent classified
          role,    \* what the stream in hand is for: first, leak, think, follow
          upstream, \* streams opened so far; the one in hand is the last
          unread,  \* streams opened that nobody has read yet: no request is out
          live,    \* streams that are being read and have not ended
          reader,  \* the stream of the read task the handler still holds, 0: none
          answer,  \* what was read
          leakTries, thinkTries, roundsDone,
          items,   \* output items the next translator starts from
          shown, clash, \* output indexes announced; one was announced twice
          leaked,  \* an internal web_search call went out to the client
          ends,    \* the terminal events sent, in order
          recordAs, \* the status to record after them
          records, \* the statuses recorded
          caller

flowVars  == <<route, imageTool>>
asideVars == <<observed, asked>>
before    == <<flowVars, asideVars>>
readVars  == <<upstream, unread, live, reader, answer, role>>
retryVars == <<leakTries, thinkTries, roundsDone>>
itemVars  == <<items, shown, clash, leaked>>
endVars   == <<ends, recordAs, records>>
turnVars == <<flowVars, stage, asideVars, readVars, retryVars, itemVars, endVars, caller>>

TurnInit ==
    /\ route \in Route /\ imageTool \in BOOLEAN
    /\ stage = "received" /\ observed = 0 /\ asked = 0 /\ role = "first"
    /\ upstream = 0 /\ unread = {} /\ live = {} /\ reader = 0 /\ answer = Nothing
    /\ leakTries = 0 /\ thinkTries = 0 /\ roundsDone = 0
    /\ items = 0 /\ shown = {} /\ clash = FALSE /\ leaked = FALSE
    /\ ends = <<>> /\ recordAs = 0 /\ records = <<>>
    /\ caller = "here"

Record(status) == records' = Append(records, status)

------------------------------------------------------------------------------
(* Bad JSON, a key without access to the model or to one it depends on, no   *)
(* route: each is recorded and answered.                                     *)
Responses == route \notin {"chat", "chatJson"}

Reject ==
    /\ stage = "received"
    /\ \E status \in {400, 403} : Record(status)
    /\ stage' = "over"
    /\ UNCHANGED <<before, readVars, retryVars, itemVars, ends, recordAs, caller>>

AdmitTurn ==
    /\ stage = "received" /\ stage' = "admitted"
    /\ UNCHANGED <<before, readVars, retryVars, itemVars, endVars, caller>>

(* A vision model is asked to describe the images for the text model; when   *)
(* it fails the request keeps its route.                                     *)
Observe ==
    /\ stage = "admitted" /\ Responses /\ observed = 0
    /\ observed' = 1
    /\ UNCHANGED <<flowVars, stage, asked, readVars, retryVars, itemVars, endVars, caller>>

(* The context belongs to another key.                                       *)
RejectLate ==
    /\ stage = "admitted" /\ Responses
    /\ Record(409)
    /\ stage' = "over"
    /\ UNCHANGED <<before, readVars, retryVars, itemVars, ends, recordAs, caller>>

(* Anything else that is raised before the handler's try: the set-up of the  *)
(* vision model, a provider that a reload has just removed, the adapter's    *)
(* preparation of a chat request.  ErrorHandlingMiddleware answers 500; the  *)
(* handler, which is gone, records nothing.                                  *)
SetUpFails ==
    /\ stage = "admitted"
    /\ stage' = "unhandled"
    /\ UNCHANGED <<before, readVars, retryVars, itemVars, endVars, caller>>

(* Context and client are there, and the try begins.                         *)
Prepare ==
    /\ stage = "admitted" /\ stage' = "prepared"
    /\ UNCHANGED <<before, readVars, retryVars, itemVars, endVars, caller>>

(* The request cannot be translated for the chat model.                      *)
TranslationFails ==
    /\ stage \in {"prepared", "asked"} /\ Responses
    /\ Record(500)
    /\ stage' = "over"
    /\ UNCHANGED <<before, readVars, retryVars, itemVars, ends, recordAs, caller>>

(* The text model, then the reasoning model, says whether an image is meant. *)
Classify ==
    /\ stage \in {"prepared", "asked"} /\ Responses /\ asked < 2
    /\ asked' = asked + 1 /\ stage' = "asked"
    /\ UNCHANGED <<flowVars, observed, readVars, retryVars, itemVars, endVars, caller>>

(* The request itself asks for an image, or the classifier says so: it is    *)
(* generated and answered before any chat model is called.                   *)
Intercept ==
    /\ stage \in {"prepared", "asked"} /\ Responses
    /\ stage' = "intercepted"
    /\ UNCHANGED <<before, readVars, retryVars, itemVars, endVars, caller>>

Opens(kind) ==
    /\ upstream' = upstream + 1
    /\ unread' = unread \cup {upstream'}
    /\ role' = kind /\ stage' = "reading" /\ answer' = Nothing

Start ==
    /\ stage \in {"prepared", "asked"}
    /\ Opens("first")
    /\ UNCHANGED <<before, live, reader, retryVars, itemVars, endVars, caller>>

------------------------------------------------------------------------------
(* _next_stream_chunk.  The read that is awaited is the one the handler      *)
(* still holds, or a new one on the stream in hand.                          *)
Source == IF reader # 0 THEN reader ELSE upstream

Running == Source \in unread \cup live

Idle(task) ==
    /\ stage = "reading" /\ route \in {"stream", "search"} /\ Running
    /\ unread' = unread \ {Source} /\ live' = live \cup {Source}
    /\ reader' = task
    /\ UNCHANGED <<before, stage, upstream, answer, role, retryVars, itemVars, endVars,
                   caller>>

Heartbeat == Idle(Source)
Chunk     == Idle(0)

(* StopAsyncIteration leaves the handler with the task it had; a task of a   *)
(* stream that is over says so once more and nothing is read.  An error      *)
(* without a message, in the first stream of _handle_stream, passes for the  *)
(* end as well.                                                              *)
Over == unread' = unread \ {Source} /\ live' = live \ {Source}

StreamEnds ==
    /\ stage = "reading"
    /\ answer' \in IF Running THEN Answer ELSE {Nothing}
    /\ Over
    /\ stage' = "judging"
    /\ UNCHANGED <<before, upstream, reader, role, retryVars, itemVars, endVars, caller>>

Fails ==
    /\ ends' = IF route \in {"stream", "search"} THEN Append(ends, "failed") ELSE ends
    /\ recordAs' = 500
    /\ stage' = "recording"

StreamFails ==
    /\ stage = "reading" /\ Running /\ route # "chat"
    /\ Over /\ Fails
    /\ UNCHANGED <<before, upstream, reader, answer, role, retryVars, itemVars,
                   records, caller>>

(* The relay of the Chat endpoint records first and tells the client then.   *)
ChatFails ==
    /\ stage = "reading" /\ route = "chat"
    /\ Over /\ Record(502) /\ stage' = "over"
    /\ UNCHANGED <<before, upstream, reader, answer, role, retryVars, itemVars,
                   ends, recordAs, caller>>

------------------------------------------------------------------------------
(* What the translator makes of an answer: an item for every kind of output, *)
(* and the terminal event of _finish.                                        *)
Announce(says) ==
    LET new == items..(items + Cardinality(says) - 1) IN
    /\ shown' = shown \cup new
    /\ clash' = (clash \/ new \cap shown # {})
    /\ leaked' = (leaked \/ (route = "search" /\ "search" \in says))

Completes(a, others) ==
    a.whole /\ "torn" \notin a.says /\ (others \/ a.says \ Thinking # {})

OnlyThinking(a) == a.says # {} /\ a.says \subseteq Thinking

Judging(r) == stage = "judging" /\ route = r

Conclude(terminal, status) ==
    ends' = Append(ends, terminal) /\ recordAs' = status /\ stage' = "recording"

ToImage == stage' = "image"

(* _handle_stream after the stream: the image tool, one retry when the model *)
(* only reasoned, the end.  A response.failed of _finish is recorded as 200. *)
StreamImage ==
    /\ Judging("stream") /\ role = "first" /\ imageTool /\ "image" \in answer.says
    /\ ToImage
    /\ UNCHANGED <<before, readVars, retryVars, itemVars, endVars, caller>>

StreamRetries ==
    /\ Judging("stream") /\ role = "first" /\ OnlyThinking(answer)
    /\ Opens("think") /\ reader' = 0 /\ thinkTries' = thinkTries + 1
    /\ Announce(answer.says) /\ items' = items + Cardinality(answer.says)
    /\ UNCHANGED <<before, live, leakTries, roundsDone, endVars, caller>>

StreamFinishes ==
    /\ Judging("stream")
    /\ role = "first" => ~OnlyThinking(answer) /\ ~(imageTool /\ "image" \in answer.says)
    /\ Announce(answer.says)
    /\ Conclude(IF Completes(answer, FALSE) THEN "completed" ELSE "failed", 200)
    /\ UNCHANGED <<before, readVars, retryVars, items, records, caller>>

------------------------------------------------------------------------------
(* _handle_web_search_stream, the first stream and its retries.              *)
First == Judging("search") /\ role \in {"first", "leak"}

SearchImage ==
    /\ Judging("search") /\ role # "think" /\ "image" \in answer.says
    /\ ToImage
    /\ UNCHANGED <<before, readVars, retryVars, itemVars, endVars, caller>>

LeakRetry ==
    /\ First /\ role = "first" /\ "leak" \in answer.says
    /\ Opens("leak") /\ reader' = 0 /\ leakTries' = leakTries + 1
    /\ UNCHANGED <<before, live, thinkTries, roundsDone, itemVars, endVars, caller>>

(* Nothing to search for, or the answer to the leak retry: it is replayed.   *)
Replayed ==
    /\ First /\ "image" \notin answer.says
    /\ role = "first" => answer.says \cap {"leak", "search"} = {}

ReplayRetries ==
    /\ Replayed /\ answer.whole /\ OnlyThinking(answer)
    /\ Opens("think") /\ reader' = 0 /\ thinkTries' = thinkTries + 1
    /\ Announce(answer.says) /\ items' = items + Cardinality(answer.says)
    /\ UNCHANGED <<before, live, leakTries, roundsDone, endVars, caller>>

ReplayFinishes ==
    /\ \/ Replayed /\ ~(answer.whole /\ OnlyThinking(answer))
       \/ Judging("search") /\ role = "think"
    /\ Announce(answer.says)
    /\ IF Completes(answer, FALSE) THEN Conclude("completed", 200) ELSE Conclude("failed", 500)
    /\ UNCHANGED <<before, readVars, retryVars, items, records, caller>>

(* complete_search_calls: the providers are asked, each call is an item; a   *)
(* search that is switched off, without a query or refused ends the turn.    *)
BeginSearch ==
    /\ Judging("search") /\ role \in {"first", "follow"}
    /\ "search" \in answer.says /\ "image" \notin answer.says
    /\ role = "follow" => roundsDone < MaxRounds
    /\ stage' = "searching"
    /\ UNCHANGED <<before, readVars, retryVars, itemVars, endVars, caller>>

SearchFails ==
    /\ stage = "searching"
    /\ Fails
    /\ UNCHANGED <<before, readVars, retryVars, itemVars, records, caller>>

SearchDone ==
    /\ stage = "searching" /\ route = "search"
    /\ roundsDone' = roundsDone + 1
    /\ LET new == answer.says \cap {"search", "call"} IN
         /\ shown' = shown \cup items..(items + Cardinality(new) - 1)
         /\ clash' = (clash \/ items..(items + Cardinality(new) - 1) \cap shown # {})
         /\ items' = items + Cardinality(new)
    /\ IF "call" \in answer.says
       THEN Conclude("completed", 200) /\ UNCHANGED <<upstream, unread, role, answer>>
       ELSE Opens("follow") /\ UNCHANGED <<ends, recordAs>>
    /\ reader' = IF role = "first" THEN 0 ELSE reader
    /\ UNCHANGED <<before, live, leakTries, thinkTries, leaked, records, caller>>

(* The loop over the answers to the results.  The three ways round again do  *)
(* not reset the read task.                                                  *)
Follow == Judging("search") /\ role = "follow" /\ "image" \notin answer.says
NoCalls == answer.says \cap Calls = {}
Thought == "thought" \in answer.says
Spoken  == answer.says \cap Speech # {}

MayThink   == NoCalls /\ thinkTries < 1 /\ Thought /\ ~Spoken
(* Slip: recoveries are not counted.                                         *)
MayRecover_Always == NoCalls /\ ~Thought /\ (~Spoken \/ "leak" \in answer.says)

MayRecover == NoCalls /\ leakTries < 1 /\ ~Thought /\ (~Spoken \/ "leak" \in answer.says)

FollowThinks ==
    /\ Follow /\ MayThink
    /\ Opens("follow") /\ thinkTries' = thinkTries + 1
    /\ UNCHANGED <<before, live, reader, leakTries, roundsDone, itemVars, endVars, caller>>

FollowRecovers ==
    /\ Follow /\ MayRecover
    /\ Opens("follow") /\ leakTries' = leakTries + 1
    /\ UNCHANGED <<before, live, reader, thinkTries, roundsDone, itemVars, endVars, caller>>

RoundLimit ==
    /\ Follow /\ "search" \in answer.says /\ roundsDone >= MaxRounds
    /\ Announce({"text"}) /\ items' = items + 1
    /\ Conclude("completed", 200)
    /\ UNCHANGED <<before, readVars, retryVars, records, caller>>

Last == Follow /\ ~MayThink /\ ~MayRecover /\ "search" \notin answer.says

(* A final answer is recorded as 200 whatever its terminal event is.         *)
FollowFinishes ==
    /\ Last /\ answer.says \ Thinking # {}
    /\ Announce(answer.says)
    /\ Conclude(IF Completes(answer, TRUE) THEN "completed" ELSE "failed", 200)
    /\ UNCHANGED <<before, readVars, retryVars, items, records, caller>>

(* Reasoning that the first look at the chunks did not recognise.  Its item  *)
(* is out, the next translator does not know it.                             *)
LateThinks ==
    /\ Last /\ OnlyThinking(answer) /\ thinkTries < 1
    /\ Announce(answer.says)
    /\ Opens("follow") /\ thinkTries' = thinkTries + 1
    /\ UNCHANGED <<before, live, reader, leakTries, roundsDone, items, endVars, caller>>

(* Slip: the completed event of _finish goes out before the failure.         *)
FollowEmpty_KeepsCompleted ==
    /\ Last /\ answer.says \subseteq Thinking
    /\ OnlyThinking(answer) => thinkTries >= 1
    /\ Announce(answer.says)
    /\ ends' = ends \o (IF Completes(answer, TRUE) THEN <<"completed", "failed">>
                                                  ELSE <<"failed", "failed">>)
    /\ recordAs' = 500 /\ stage' = "recording"
    /\ UNCHANGED <<before, readVars, retryVars, items, records, caller>>

(* _finish may already have said that the response failed.                   *)
FollowEmpty ==
    /\ Last /\ answer.says \subseteq Thinking
    /\ OnlyThinking(answer) => thinkTries >= 1
    /\ Announce(answer.says)
    /\ ends' = ends \o (IF Completes(answer, TRUE) THEN <<"failed">> ELSE <<"failed", "failed">>)
    /\ recordAs' = 500 /\ stage' = "recording"
    /\ UNCHANGED <<before, readVars, retryVars, items, records, caller>>

------------------------------------------------------------------------------
(* One JSON answer.                                                          *)
JsonJudges ==
    /\ Judging("json")
    /\ \/ /\ "image" \in answer.says /\ role = "first"
          /\ ToImage
          /\ UNCHANGED <<upstream, unread, role, answer, thinkTries, endVars>>
       \/ /\ OnlyThinking(answer) /\ role = "first"
          /\ Opens("think") /\ thinkTries' = thinkTries + 1
          /\ UNCHANGED endVars
       \/ /\ ~(role = "first" /\ (OnlyThinking(answer) \/ "image" \in answer.says))
          /\ recordAs' = IF answer.says \ Thinking = {} THEN 500 ELSE 200
          /\ stage' = "recording"
          /\ UNCHANGED <<upstream, unread, role, answer, thinkTries, ends, records>>
    /\ UNCHANGED <<before, live, reader, leakTries, roundsDone, itemVars, caller>>

(* _complete_with_web_search: round_index is the number of calls before this *)
(* one.  The retry of a leak spends a round.                                 *)
JsonRetries ==
    /\ Judging("searchJson") /\ "search" \notin answer.says
    /\ "leak" \in answer.says /\ leakTries < 1
    /\ leakTries' = leakTries + 1
    /\ IF upstream <= MaxRounds
       THEN Opens("leak") /\ UNCHANGED recordAs
       ELSE /\ recordAs' = 500 /\ stage' = "recording"
            /\ UNCHANGED <<upstream, unread, role, answer>>
    /\ UNCHANGED <<before, live, reader, thinkTries, roundsDone, itemVars, ends, records, caller>>

JsonFinishes ==
    /\ Judging("searchJson")
    /\ \/ /\ "search" \notin answer.says
          /\ ~("leak" \in answer.says /\ leakTries < 1)
          /\ recordAs' = IF answer.says \ Thinking = {} THEN 500 ELSE 200
       \/ /\ "search" \in answer.says /\ upstream > MaxRounds
          /\ recordAs' = 200
    /\ stage' = "recording"
    /\ UNCHANGED <<before, readVars, retryVars, itemVars, ends, records, caller>>

JsonSearches ==
    /\ Judging("searchJson") /\ "search" \in answer.says /\ upstream <= MaxRounds
    /\ stage' = "searching"
    /\ UNCHANGED <<before, readVars, retryVars, itemVars, endVars, caller>>

JsonSearchDone ==
    /\ stage = "searching" /\ route = "searchJson"
    /\ roundsDone' = roundsDone + 1
    /\ IF "call" \in answer.says
       THEN /\ recordAs' = 200 /\ stage' = "recording"
            /\ UNCHANGED <<upstream, unread, role, answer>>
       ELSE Opens("follow") /\ UNCHANGED recordAs
    /\ UNCHANGED <<before, live, reader, leakTries, thinkTries, itemVars, ends, records, caller>>

(* The Chat endpoint passes the answer on as it is.                          *)
ChatFinishes ==
    /\ stage = "judging" /\ route \in {"chat", "chatJson"}
    /\ recordAs' = 200 /\ stage' = "recording"
    /\ UNCHANGED <<before, readVars, retryVars, itemVars, ends, records, caller>>

------------------------------------------------------------------------------
(* _handle_responses_image_gen.  Success is recorded there, a failure that   *)
(* it answers is not.  A stream that called for the image relays a response  *)
(* of its own.                                                               *)
Imaging == stage \in {"image", "intercepted"}

(* Slip: a generated image is not recorded.                                  *)
ImageDone_Unrecorded ==
    /\ Imaging
    /\ stage' = IF route \in {"stream", "search"} THEN "relaying" ELSE "over"
    /\ UNCHANGED <<before, readVars, retryVars, itemVars, endVars, caller>>

ImageDone ==
    /\ Imaging
    /\ Record(200)
    /\ stage' = IF route \in {"stream", "search"} THEN "relaying" ELSE "over"
    /\ UNCHANGED <<before, readVars, retryVars, itemVars, ends, recordAs, caller>>

ImageRelayed ==
    /\ stage = "relaying"
    /\ ends' = Append(ends, "completed")
    /\ shown' = shown \cup {0} /\ clash' = (clash \/ 0 \in shown)
    /\ stage' = "over"
    /\ UNCHANGED <<before, readVars, retryVars, items, leaked, recordAs, records, caller>>

(* An error response of the image model, or no image.  A JSON answer passes  *)
(* it on; it breaks the rebuilding of the response on a stream, inside the   *)
(* try of the search stream and outside the one of the plain stream.         *)
ImageFails ==
    /\ Imaging
    /\ IF stage = "image" /\ route = "search"
       THEN Fails
       ELSE stage' = "imageless" /\ UNCHANGED <<ends, recordAs>>
    /\ UNCHANGED <<before, readVars, retryVars, itemVars, records, caller>>

(* An error raised, while the image is decoded or saved: on a stream as      *)
(* above, and else caught by the handler, which records it.                  *)
ImageBreaks ==
    /\ stage = "intercepted" \/ (stage = "image" /\ route = "json")
    /\ Record(500)
    /\ stage' = "over"
    /\ UNCHANGED <<before, readVars, retryVars, itemVars, ends, recordAs, caller>>

Recorded ==
    /\ stage = "recording"
    /\ Record(recordAs) /\ stage' = "over"
    /\ UNCHANGED <<before, readVars, retryVars, itemVars, ends, recordAs, caller>>

(* The finally blocks: the streams are closed and the read task is awaited.  *)
(* The search stream closes those its three variables name.                  *)
Finished == stage \in {"over", "imageless", "unhandled"}

(* Slip: only the stream before the reasoning retry is closed.               *)
Closed_FirstStream ==
    /\ Finished /\ (live # {} \/ reader # 0)
    /\ live' = live \ {IF role = "think" THEN upstream - 1 ELSE upstream}
    /\ reader' = 0
    /\ UNCHANGED <<before, stage, upstream, unread, answer, role, retryVars, itemVars,
                   endVars, caller>>

Closed ==
    /\ Finished /\ (live # {} \/ reader # 0)
    /\ live' = live \ {upstream} /\ reader' = 0
    /\ UNCHANGED <<before, stage, upstream, unread, answer, role, retryVars, itemVars,
                   endVars, caller>>

(* The client leaves: the handler is cancelled at its await or its generator *)
(* is closed at a yield, and nothing more is sent or recorded.               *)
Preparing == stage \in {"received", "admitted", "prepared", "asked", "intercepted"}

Leave ==
    /\ caller = "here" /\ route \in Streaming
    /\ ~Preparing /\ ~Finished
    /\ caller' = "gone" /\ stage' = "over"
    /\ UNCHANGED <<before, readVars, retryVars, itemVars, endVars>>

Progress ==
    \/ StreamEnds \/ StreamFails \/ ChatFails
    \/ StreamImage \/ StreamRetries \/ StreamFinishes
    \/ SearchImage \/ LeakRetry \/ ReplayRetries \/ ReplayFinishes
    \/ BeginSearch \/ SearchFails \/ SearchDone
    \/ FollowThinks \/ FollowRecovers \/ RoundLimit
    \/ FollowFinishes \/ LateThinks \/ FollowEmpty
    \/ JsonJudges \/ JsonRetries \/ JsonFinishes \/ JsonSearches \/ JsonSearchDone
    \/ ChatFinishes \/ ImageDone \/ ImageRelayed \/ ImageFails \/ ImageBreaks \/ Recorded
    \/ Closed

TurnNext ==
    \/ Reject \/ AdmitTurn \/ Observe \/ RejectLate \/ SetUpFails \/ Prepare
    \/ TranslationFails \/ Classify \/ Intercept \/ Start
    \/ Heartbeat \/ Chunk \/ Progress \/ Leave

(* Every stream ends, fails or times out in the end, and a handler whose     *)
(* await has returned runs on.                                               *)
TurnSpec == TurnInit /\ [][TurnNext]_turnVars /\ WF_turnVars(Progress)

------------------------------------------------------------------------------
TurnTypeOK ==
    /\ route \in Route /\ imageTool \in BOOLEAN
    /\ stage \in {"received", "admitted", "prepared", "asked", "intercepted", "reading",
                  "judging", "searching", "image", "relaying", "recording", "over",
                  "imageless", "unhandled"}
    /\ role \in {"first", "leak", "think", "follow"}
    /\ observed \in 0..1 /\ asked \in 0..2
    /\ upstream \in Nat /\ unread \in SUBSET Nat /\ live \in SUBSET Nat /\ reader \in Nat
    /\ answer \in Answer
    /\ leakTries \in Nat /\ thinkTries \in Nat /\ roundsDone \in Nat
    /\ items \in Nat /\ shown \in SUBSET Nat /\ clash \in BOOLEAN /\ leaked \in BOOLEAN
    /\ ends \in Seq({"completed", "failed"})
    /\ recordAs \in Nat /\ records \in Seq(Nat) /\ caller \in {"here", "gone"}

(* A turn is recorded at most once, and exactly once when it ends with its   *)
(* client there, but for two ways to end that the code forgets: a failure of *)
(* the set-up, before any model was asked to answer or to classify, and an   *)
(* image that could not be made, for which the request or the model's answer *)
(* had asked.                                                                *)
TurnRecorded ==
    /\ TurnTypeOK
    /\ Len(records) <= 1
    /\ Finished /\ caller = "here" /\ records = <<>> =>
         \/ stage = "unhandled" /\ upstream = 0 /\ asked = 0
         \/ stage = "imageless" /\ (upstream = 0 \/ "image" \in answer.says)

(* Searches and retries are bounded together: no turn costs more upstream    *)
(* calls than this, however the model answers.                               *)
WorkBounded ==
    upstream <= CASE route \in {"chat", "chatJson"} -> 1
                  [] route \in {"stream", "json"} -> 2
                  [] route = "search" -> MaxRounds + 3
                  [] route = "searchJson" -> MaxRounds + 1

(* What is recorded and what the client was told agree as far as they go: a  *)
(* completed response is never failed as well, nor completed twice, nor      *)
(* recorded as an error; an error on a stream was told before it was         *)
(* recorded; and an index is used twice, or an internal search handed out,   *)
(* only after a retry.                                                       *)
EndsAgree ==
    /\ "completed" \in {ends[i] : i \in DOMAIN ends} =>
         Len(ends) = 1 /\ (records # <<>> => records = <<200>>)
    /\ route \in {"stream", "search"} /\ upstream > 0 /\ records = <<500>> =>
         "failed" \in {ends[i] : i \in DOMAIN ends}
    /\ clash => role = "follow"
    /\ leaked => role \in {"leak", "think"}

(* Every turn ends, and with it its streams and its read task, if the        *)
(* upstream streams do.                                                      *)
TurnEnds == upstream > 0 ~> Finished /\ live = {} /\ reader = 0

(* As the comment on _close_chat_stream has it, a heartbeat read belongs to  *)
(* its request: what is judged is what the stream in hand said. The code does   *)
(* not keep this one: server.py:6331 carries the task to the next stream.    *)
ReadBelongs == stage = "judging" => upstream \notin unread

(* As the comment on _handle_web_search_stream has it, hosted web_search     *)
(* calls are intercepted and fulfilled. The code does not keep this one.     *)
SearchIntercepted == ~leaked
=============================================================================
