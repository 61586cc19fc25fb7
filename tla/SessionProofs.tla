---------------------------- MODULE SessionProofs ----------------------------
(* Theorems about the two long sessions: a chat turn (ChatTurn), for any     *)
(* number of search rounds, and a recording (SpeechRelay), for any number of *)
(* frames, notes and worker processes.                                       *)
EXTENDS ChatTurn, SpeechRelay, FiniteSetTheorems, TLAPS

-----------------------------------------------------------------------------
(* The chat turn. *)

Waiting == {"received", "admitted", "prepared", "asked", "intercepted"}
Going == {"reading", "judging", "searching", "image", "relaying"}

(* Nothing is recorded before the end, and the end of a turn whose client    *)
(* stayed is.                                                                *)
RecordsOf ==
    /\ records = <<>> \/ \E n \in Nat : records = <<n>>
    /\ stage \notin {"over", "relaying"} => records = <<>>
    /\ stage = "relaying" => records = <<200>>
    /\ stage = "over" /\ caller = "here" => records # <<>>
    /\ caller = "gone" => stage = "over"

(* What was told and what is about to be recorded.                           *)
EndsOf ==
    /\ ends \in {<<>>, <<"completed">>, <<"failed">>, <<"failed", "failed">>}
    /\ stage \notin {"recording", "over"} => ends = <<>>
    /\ ends = <<"completed">> =>
         /\ stage = "recording" => recordAs = 200
         /\ records \in {<<>>, <<200>>}
    /\ route \in {"stream", "search"} /\ upstream > 0 =>
         /\ stage = "recording" /\ recordAs = 500 => ends \notin {<<>>, <<"completed">>}
         /\ records = <<500>> => ends \notin {<<>>, <<"completed">>}

(* Every stream but the first was opened by a retry or a round.              *)
CallsOf ==
    /\ stage \in Waiting => upstream = 0 /\ role = "first"
    /\ route \in {"chat", "chatJson"} => upstream <= 1
    /\ route \in {"stream", "json"} => upstream <= IF role = "first" THEN 1 ELSE 2
    /\ route = "search" =>
         /\ upstream <= 1 + leakTries + thinkTries + roundsDone
         /\ leakTries <= 1 /\ thinkTries <= 1 /\ roundsDone <= MaxRounds
         /\ role = "first" => leakTries = 0
         /\ role \in {"first", "leak"} => thinkTries = 0
         /\ stage = "searching" => roundsDone < MaxRounds
         /\ role = "first" /\ stage \notin {"recording", "over"} => roundsDone = 0
    /\ route = "searchJson" =>
         /\ upstream <= MaxRounds + 1
         /\ stage = "searching" => upstream <= MaxRounds

(* The items announced are those the next translator starts after, until a   *)
(* recovery in the loop over search results forgets one.                     *)
ItemsOf ==
    /\ route \notin {"stream", "search"} => shown = {} /\ ~clash /\ stage # "relaying"
    /\ role \in {"first", "leak"} /\ stage \in Waiting \cup Going => shown = {}
    /\ role = "think" /\ stage \in Going => \A i \in shown : i < items
    /\ stage \in {"image", "relaying"} => role # "think"
    /\ clash => role = "follow"
    /\ leaked => route = "search" /\ role \in {"leak", "think"}
    /\ stage = "searching" /\ route = "search" => role \in {"first", "follow"}

(* The two ways to end that are not recorded: before any model was asked, or *)
(* because an image was.                                                     *)
LapsesOf ==
    /\ stage \in {"received", "admitted", "prepared", "unhandled"} => asked = 0
    /\ stage = "unhandled" => upstream = 0
    /\ stage = "image" => "image" \in answer.says
    /\ stage = "imageless" => upstream = 0 \/ "image" \in answer.says

TurnInv == TurnTypeOK /\ RecordsOf /\ EndsOf /\ CallsOf /\ ItemsOf /\ LapsesOf

-----------------------------------------------------------------------------
Kinds == Thinking \cup Speech \cup Calls

LEMMA Counted == ASSUME NEW S \in SUBSET Kinds PROVE Cardinality(S) \in Nat
<1>1. IsFiniteSet({"thought"} \cup {"quiet"})
  BY FS_Singleton, FS_AddElement
<1>2. IsFiniteSet({"text"} \cup {"leak"})
  BY FS_Singleton, FS_AddElement
<1>3. IsFiniteSet({"call"} \cup {"torn"})
  BY FS_Singleton, FS_AddElement
<1>4. IsFiniteSet({"call"} \cup {"torn"} \cup {"search"})
  BY <1>3, FS_AddElement
<1>5. IsFiniteSet({"call"} \cup {"torn"} \cup {"search"} \cup {"image"})
  BY <1>4, FS_AddElement
<1>6. /\ Thinking = {"thought"} \cup {"quiet"} /\ Speech = {"text"} \cup {"leak"}
      /\ Calls = {"call"} \cup {"torn"} \cup {"search"} \cup {"image"}
  BY DEF Thinking, Speech, Calls
<1>7. IsFiniteSet(Kinds)
  BY <1>1, <1>2, <1>5, <1>6, FS_Union DEF Kinds
<1> QED
  BY <1>7, FS_Subset, FS_CardinalityType

(* What was said, and how many items it makes.                               *)
LEMMA AnswerForms ==
    /\ Nothing \in Answer
    /\ \A a \in Answer : a.says \in SUBSET Kinds /\ Cardinality(a.says) \in Nat
<1>1. Nothing \in Answer
  BY DEF Nothing, Answer
<1>2. ASSUME NEW a \in Answer PROVE a.says \in SUBSET Kinds
  BY DEF Answer, Kinds, Thinking, Speech, Calls
<1> QED
  BY <1>1, <1>2, Counted

LEMMA TurnBegins == TurnInit => TurnInv
<1> SUFFICES ASSUME TurnInit PROVE TurnInv
  OBVIOUS
<1>1. TurnTypeOK
  <2>1. ends \in Seq({"completed", "failed"}) /\ records \in Seq(Nat)
    BY DEF TurnInit
  <2>2. answer \in Answer
    BY AnswerForms DEF TurnInit
  <2>3. unread \in SUBSET Nat /\ live \in SUBSET Nat /\ shown \in SUBSET Nat
    BY DEF TurnInit
  <2>4. clash \in BOOLEAN /\ leaked \in BOOLEAN /\ imageTool \in BOOLEAN
    BY DEF TurnInit
  <2>5. /\ observed \in 0..1 /\ asked \in 0..2 /\ upstream \in Nat /\ reader \in Nat
        /\ leakTries \in Nat /\ thinkTries \in Nat /\ roundsDone \in Nat
        /\ items \in Nat /\ recordAs \in Nat
    BY DEF TurnInit
  <2> QED
    BY <2>1, <2>2, <2>3, <2>4, <2>5 DEF TurnInit, TurnTypeOK
<1>2. RecordsOf /\ EndsOf
  BY DEF TurnInit, RecordsOf, EndsOf
<1>3. CallsOf /\ ItemsOf /\ LapsesOf
  BY RoundsAssumption DEF TurnInit, CallsOf, ItemsOf, LapsesOf, Waiting, Going
<1> QED
  BY <1>1, <1>2, <1>3 DEF TurnInv

(* The steps between the admission and the last record.                      *)
Refused == Reject \/ RejectLate \/ TranslationFails \/ ImageBreaks
Aside ==
    AdmitTurn \/ Observe \/ SetUpFails \/ Prepare \/ Classify \/ Intercept \/ Start
Reading == Heartbeat \/ Chunk \/ StreamEnds \/ StreamFails
OfStream == StreamImage \/ StreamRetries \/ StreamFinishes
OfSearch ==
    \/ SearchImage \/ LeakRetry \/ ReplayRetries \/ ReplayFinishes
    \/ BeginSearch \/ SearchFails \/ SearchDone
OfFollow ==
    FollowThinks \/ FollowRecovers \/ RoundLimit \/ FollowFinishes \/ LateThinks \/ FollowEmpty
OfJson ==
    JsonJudges \/ JsonRetries \/ JsonFinishes \/ JsonSearches \/ JsonSearchDone \/ ChatFinishes
Judged == OfStream \/ OfSearch \/ OfFollow \/ OfJson

LEMMA NextForms ==
    TurnNext =>
      \/ Refused \/ ChatFails \/ Recorded \/ ImageDone \/ ImageRelayed
      \/ ImageFails \/ Closed \/ Leave
      \/ Aside \/ Reading \/ Judged
BY DEF TurnNext, Progress, Refused, Aside, Reading, OfStream, OfSearch, OfFollow, OfJson, Judged

LEMMA Singles ==
    /\ \A x : Append(<<>>, x) = <<x>>
    /\ <<>> \o <<"failed">> = <<"failed">>
    /\ <<>> \o <<"failed", "failed">> = <<"failed", "failed">>
OBVIOUS

LEMMA RefusedForms ==
    Refused =>
      /\ stage \in Waiting \/ (stage = "image" /\ route = "json")
      /\ stage' = "over"
      /\ \E n \in Nat : Record(n)
      /\ UNCHANGED <<before, readVars, retryVars, itemVars, ends, recordAs, caller>>
BY DEF Refused, Reject, RejectLate, TranslationFails, ImageBreaks, Waiting

LEMMA AsideForms ==
    Aside =>
      /\ stage \in {"received", "admitted", "prepared", "asked"}
      /\ stage' \in {"admitted", "prepared", "asked", "intercepted", "unhandled", "reading"}
      /\ UNCHANGED <<flowVars, live, reader, retryVars, itemVars, endVars, caller>>
      /\ \/ stage' # "reading" /\ UNCHANGED readVars
         \/ /\ stage' = "reading" /\ upstream' = upstream + 1 /\ role' = "first"
            /\ unread' = unread \cup {upstream'} /\ answer' = Nothing
BY DEF Aside, AdmitTurn, Observe, SetUpFails, Prepare, Classify, Intercept, Start, Opens,
       before, flowVars, readVars

LEMMA ReadingForms ==
    Reading =>
      /\ stage = "reading" /\ stage' \in {"reading", "judging", "recording"}
      /\ UNCHANGED <<before, upstream, role, retryVars, itemVars, records, caller>>
      /\ \/ stage' # "recording" /\ UNCHANGED <<ends, recordAs>>
         \/ stage' = "recording" /\ Fails
BY DEF Reading, Heartbeat, Chunk, Idle, StreamEnds, StreamFails, Fails, endVars

LEMMA JudgedForms ==
    Judged =>
      /\ stage \in {"judging", "searching"}
      /\ stage' \in {"image", "searching", "reading", "recording"}
      /\ UNCHANGED <<before, records, caller>>
BY ZenonT(60) DEF Judged, OfStream, StreamImage, StreamRetries, StreamFinishes, OfSearch, SearchImage,
       LeakRetry, ReplayRetries, ReplayFinishes, BeginSearch, SearchFails, SearchDone,
       OfFollow, FollowThinks, FollowRecovers, RoundLimit, FollowFinishes, LateThinks,
       FollowEmpty, OfJson, JsonJudges, JsonRetries, JsonFinishes, JsonSearches,
       JsonSearchDone, ChatFinishes, Judging, First, Replayed, Follow, Last, ToImage, Opens,
       Conclude, Fails, endVars

-----------------------------------------------------------------------------
(* Records. *)
LEMMA RecordsStep == TurnInv /\ TurnNext => RecordsOf'
<1> SUFFICES ASSUME TurnInv, TurnNext PROVE RecordsOf'
  OBVIOUS
<1>0. RecordsOf /\ TurnTypeOK
  BY DEF TurnInv
<1>1. CASE Refused \/ ChatFails \/ Recorded
  <2>1. /\ stage \notin {"over", "relaying"} /\ stage' = "over" /\ caller' = caller
        /\ \E n \in Nat : records' = Append(records, n)
    BY <1>0, <1>1, RefusedForms, SMTT(60) DEF Waiting, ChatFails, Recorded, Record, TurnTypeOK
  <2>2. PICK n \in Nat : records' = <<n>>
    BY <1>0, <2>1, Singles DEF RecordsOf
  <2> QED
    BY <1>0, <2>1, <2>2 DEF RecordsOf
<1>2. CASE ImageDone
  <2>1. /\ stage \in {"image", "intercepted"} /\ stage' \in {"relaying", "over"}
        /\ caller' = caller /\ records' = Append(records, 200)
    BY <1>2 DEF ImageDone, Imaging, Record
  <2>2. records' = <<200>>
    BY <1>0, <2>1, Singles, ZenonT(60) DEF RecordsOf
  <2>3. (\E n \in Nat : records' = <<n>>) /\ records' # <<>>
    BY <2>2
  <2>4. caller' # "gone"
    BY <1>0, <2>1 DEF RecordsOf, TurnTypeOK
  <2> QED
    BY <2>1, <2>2, <2>3, <2>4 DEF RecordsOf
<1>3. CASE ImageRelayed \/ ImageFails \/ Closed \/ Leave
  <2>1. CASE ImageRelayed
    BY <1>0, <2>1, SMTT(60) DEF RecordsOf, ImageRelayed
  <2>2. CASE ImageFails
    BY <1>0, <2>2 DEF RecordsOf, ImageFails, Imaging, Fails
  <2>3. CASE Closed
    BY <1>0, <2>3 DEF RecordsOf, Closed, endVars
  <2>4. CASE Leave
    BY <1>0, <2>4 DEF RecordsOf, Leave, endVars
  <2> QED
    BY <1>3, <2>1, <2>2, <2>3, <2>4
<1>4. CASE Aside \/ Reading \/ Judged
  <2>1. /\ stage \notin {"over", "relaying"} /\ stage' \notin {"over", "relaying"}
        /\ UNCHANGED <<records, caller>>
    BY <1>4, AsideForms, ReadingForms, JudgedForms DEF endVars
  <2> QED
    BY <1>0, <2>1 DEF RecordsOf
<1> QED
  BY <1>1, <1>2, <1>3, <1>4, NextForms

-----------------------------------------------------------------------------
(* What was told. *)
LEMMA JudgedEnds ==
    ASSUME TurnInv, Judged
    PROVE  \/ stage' # "recording" /\ UNCHANGED ends
           \/ stage' = "recording" /\ ends' = <<"completed">> /\ recordAs' = 200
           \/ stage' = "recording" /\ ends' \in {<<"failed">>, <<"failed", "failed">>}
           \/ /\ stage' = "recording" /\ UNCHANGED ends
              /\ route \notin {"stream", "search"}
<1>1. ends = <<>>
  BY JudgedForms DEF TurnInv, EndsOf
<1>2. \A x : Append(ends, x) = <<x>> /\ ends \o <<"failed">> = <<"failed">>
             /\ ends \o <<"failed", "failed">> = <<"failed", "failed">>
  BY <1>1, Singles
<1>3. CASE OfStream
  BY <1>2, <1>3 DEF OfStream, StreamImage, StreamRetries, StreamFinishes, ToImage, Opens,
                    Conclude, endVars
<1>4. CASE SearchImage \/ LeakRetry \/ ReplayRetries \/ BeginSearch
  BY <1>4 DEF SearchImage, LeakRetry, ReplayRetries, BeginSearch, ToImage, Opens, endVars
<1>10. CASE ReplayFinishes
  <2>1. Conclude("completed", 200) \/ Conclude("failed", 500)
    BY <1>10 DEF ReplayFinishes
  <2> QED
    BY <2>1, <1>2, SMTT(60) DEF Conclude
<1>5. CASE SearchFails
  BY <1>2, <1>5 DEF SearchFails, Fails
<1>6. CASE SearchDone
  BY <1>2, <1>6 DEF SearchDone, Opens, Conclude
<1>7. CASE FollowThinks \/ FollowRecovers \/ RoundLimit \/ FollowFinishes \/ LateThinks
  BY <1>2, <1>7 DEF FollowThinks, FollowRecovers, RoundLimit, FollowFinishes, LateThinks,
                    Opens, Conclude, endVars
<1>8. CASE FollowEmpty
  BY <1>2, <1>8 DEF FollowEmpty
<1>9. CASE OfJson
  BY <1>9 DEF OfJson, JsonJudges, JsonRetries, JsonFinishes, JsonSearches, JsonSearchDone,
              ChatFinishes, Judging, ToImage, Opens, endVars
<1> QED
  BY <1>3, <1>4, <1>5, <1>6, <1>7, <1>8, <1>9, <1>10
     DEF Judged, OfSearch, OfFollow

LEMMA EndsStep == TurnInv /\ TurnNext => EndsOf'
<1> SUFFICES ASSUME TurnInv, TurnNext PROVE EndsOf'
  OBVIOUS
<1>0. EndsOf /\ RecordsOf /\ CallsOf /\ TurnTypeOK
  BY DEF TurnInv
<1>a. \A n : <<n>> # <<>> /\ (<<n>> = <<500>> => n = 500)
  OBVIOUS
<1>b. <<"completed">> # <<"failed">> /\ <<"completed">> # <<"failed", "failed">>
      /\ <<"completed">> # <<>> /\ <<"failed">> # <<>> /\ <<"failed", "failed">> # <<>>
  OBVIOUS
<1>1. CASE Refused \/ ChatFails
  <2>1. /\ ends = <<>> /\ UNCHANGED <<ends, route, upstream>> /\ stage' = "over"
        /\ route \notin {"stream", "search"} \/ upstream = 0
    BY <1>0, <1>1, RefusedForms DEF ChatFails, Waiting, CallsOf, EndsOf, before, flowVars,
                                    readVars
  <2>2. UNCHANGED upstream /\ upstream \in Nat
    BY <1>0, <2>1 DEF TurnTypeOK
  <2> QED
    BY <2>1, <2>2, <1>b DEF EndsOf
<1>2. CASE Recorded
  <2>1. /\ stage = "recording" /\ stage' = "over" /\ UNCHANGED <<ends, route, upstream>>
        /\ records' = <<recordAs>>
    BY <1>0, <1>2, Singles DEF Recorded, Record, RecordsOf, before, flowVars, readVars
  <2>2. records' = <<500>> => recordAs = 500
    BY <2>1, <1>a
  <2> QED
    BY <1>0, <2>1, <2>2 DEF EndsOf
<1>3. CASE ImageDone
  <2>0. ends = <<>> /\ records = <<>>
    BY <1>0, <1>3 DEF ImageDone, Imaging, RecordsOf, EndsOf
  <2>1. /\ stage' \in {"relaying", "over"} /\ UNCHANGED <<ends, route, upstream>>
        /\ ends = <<>> /\ records' = <<200>>
    BY <2>0, <1>3, Singles DEF ImageDone, Record, before, flowVars, readVars
  <2>2. records' # <<500>>
    BY <2>1, <1>a
  <2> QED
    BY <2>1, <2>2, <1>b DEF EndsOf
<1>4. CASE ImageRelayed
  <2>1. /\ stage' = "over" /\ ends' = <<"completed">> /\ records' = <<200>>
    BY <1>0, <1>4, Singles DEF ImageRelayed, RecordsOf, EndsOf
  <2>2. records' # <<500>>
    BY <2>1, <1>a
  <2> QED
    BY <2>1, <2>2, <1>b DEF EndsOf
<1>5. CASE ImageFails
  <2>0. ends = <<>> /\ records = <<>>
    BY <1>0, <1>5 DEF ImageFails, Imaging, RecordsOf, EndsOf
  <2>1. /\ stage' \in {"recording", "imageless"} /\ records' = <<>>
        /\ \/ stage' = "imageless" /\ ends' = <<>>
           \/ stage' = "recording" /\ ends' = <<"failed">>
    BY <2>0, <1>5, Singles DEF ImageFails, Fails
  <2>2. records' # <<500>>
    BY <2>1, <1>a
  <2> QED
    BY <2>1, <2>2, <1>b DEF EndsOf
<1>6. CASE Closed
  BY <1>0, <1>6 DEF Closed, EndsOf, endVars, before, flowVars
<1>7. CASE Leave
  <2>1. stage' = "over" /\ UNCHANGED <<ends, records, route, upstream>>
    BY <1>7 DEF Leave, endVars, before, flowVars, readVars
  <2> QED
    BY <1>0, <2>1 DEF EndsOf
<1>8. CASE Aside
  <2>1. /\ stage' \notin {"recording", "over"} /\ ends = <<>> /\ records = <<>>
        /\ UNCHANGED <<ends, records>>
    BY <1>0, <1>8, AsideForms DEF EndsOf, RecordsOf, endVars
  <2>2. records' # <<500>>
    BY <2>1, <1>a
  <2> QED
    BY <2>1, <2>2, <1>b DEF EndsOf
<1>9. CASE Reading
  <2>1. /\ stage = "reading" /\ ends = <<>> /\ records' = <<>> /\ UNCHANGED route
    BY <1>0, <1>9, ReadingForms DEF EndsOf, RecordsOf, before, flowVars
  <2>2. records' # <<500>>
    BY <2>1, <1>a
  <2>3. CASE stage' # "recording"
    <3>1. stage' \notin {"recording", "over"} /\ ends' = <<>>
      BY <1>9, <2>1, <2>3, ReadingForms
    <3> QED
      BY <2>1, <2>2, <3>1, <1>b DEF EndsOf
  <2>4. CASE stage' = "recording"
    <3>1. IF route \in {"stream", "search"} THEN ends' = <<"failed">> ELSE ends' = <<>>
      BY <1>9, <2>1, <2>4, ReadingForms, Singles DEF Fails
    <3> QED
      BY <2>1, <2>2, <2>4, <3>1, <1>b DEF EndsOf
  <2> QED
    BY <2>3, <2>4
<1>10. CASE Judged
  <2>1. /\ ends = <<>> /\ records' = <<>> /\ UNCHANGED route
        /\ stage' \in {"image", "searching", "reading", "recording"}
    BY <1>0, <1>10, JudgedForms DEF EndsOf, RecordsOf, before, flowVars
  <2>2. records' # <<500>>
    BY <2>1, <1>a
  <2>3. \/ stage' # "recording" /\ ends' = <<>>
        \/ stage' = "recording" /\ ends' = <<"completed">> /\ recordAs' = 200
        \/ stage' = "recording" /\ ends' \in {<<"failed">>, <<"failed", "failed">>}
        \/ stage' = "recording" /\ ends' = <<>> /\ route \notin {"stream", "search"}
    BY <1>10, <2>1, JudgedEnds
  <2> QED
    BY <2>1, <2>2, <2>3, <1>b DEF EndsOf
<1> QED
  BY <1>1, <1>2, <1>3, <1>4, <1>5, <1>6, <1>7, <1>8, <1>9, <1>10, NextForms

-----------------------------------------------------------------------------
(* Calls. *)
Quiet ==
    Refused \/ ChatFails \/ Recorded \/ ImageDone \/ ImageRelayed \/ ImageFails
      \/ Closed \/ Leave \/ Reading

LEMMA QuietForms ==
    Quiet =>
      /\ UNCHANGED <<route, upstream, role, leakTries, thinkTries, roundsDone>>
      /\ stage' \notin Waiting \cup {"searching", "judging"} \/ Reading
      /\ stage' \notin Waiting \cup {"searching"}
      /\ stage' \notin {"recording", "over"} => stage \notin {"recording", "over"}
<1> SUFFICES ASSUME Quiet
             PROVE  /\ UNCHANGED <<route, upstream, role, leakTries, thinkTries, roundsDone>>
                    /\ stage' \notin Waiting \cup {"searching", "judging"} \/ Reading
                    /\ stage' \notin Waiting \cup {"searching"}
                    /\ stage' \notin {"recording", "over"} => stage \notin {"recording", "over"}
  OBVIOUS
<1>1. CASE Reading
  BY <1>1, ReadingForms DEF before, flowVars, retryVars, Waiting
<1>2. CASE Refused \/ ChatFails \/ Recorded \/ Leave
  BY <1>2, RefusedForms DEF ChatFails, Recorded, Leave, before, flowVars, readVars, retryVars,
                            Waiting
<1>3. CASE ImageDone \/ ImageRelayed \/ ImageFails
  BY <1>3 DEF ImageDone, ImageRelayed, ImageFails, Fails, Imaging, before, flowVars, readVars,
              retryVars, Waiting
<1>4. CASE Closed
  BY <1>4 DEF Closed, Finished, before, flowVars, retryVars, Waiting
<1> QED
  BY <1>1, <1>2, <1>3, <1>4 DEF Quiet

LEMMA CallsStep == TurnInv /\ TurnNext => CallsOf'
<1> SUFFICES ASSUME TurnInv, TurnNext PROVE CallsOf'
  OBVIOUS
<1>0. CallsOf /\ RecordsOf /\ ItemsOf
  BY DEF TurnInv
<1>a. /\ upstream \in Nat /\ leakTries \in Nat /\ thinkTries \in Nat /\ roundsDone \in Nat
      /\ MaxRounds \in Nat /\ MaxRounds >= 1
  BY RoundsAssumption DEF TurnInv, TurnTypeOK
<1>1. CASE Quiet
  BY <1>0, <1>1, QuietForms DEF CallsOf
<1>2. CASE Aside
  <2>1. stage \in Waiting /\ stage' \in Waiting \cup {"unhandled", "reading"}
    BY <1>2, AsideForms DEF Waiting
  <2>2. upstream = 0 /\ role = "first"
    BY <2>1, <1>0 DEF CallsOf
  <2>3. UNCHANGED <<route, leakTries, thinkTries, roundsDone>>
    BY <1>2, AsideForms DEF flowVars, retryVars
  <2>4. role' = "first" /\ (upstream' = 0 \/ (stage' = "reading" /\ upstream' = 1))
    <3>1. \/ upstream' = upstream /\ role' = role
          \/ stage' = "reading" /\ upstream' = upstream + 1 /\ role' = "first"
      BY <1>2, AsideForms DEF readVars
    <3> QED
      BY <2>2, <3>1
  <2>5. stage \notin {"recording", "over", "searching"}
    BY <2>1 DEF Waiting
  <2>6. stage' # "searching" /\ "reading" \notin Waiting
    BY <2>1 DEF Waiting
  <2> QED
    BY <1>0, <1>a, <2>1, <2>2, <2>3, <2>4, <2>5, <2>6 DEF CallsOf
<1>3. CASE OfStream
  <2>0. route' = route /\ route = "stream" /\ stage = "judging"
    BY <1>3 DEF OfStream, StreamImage, StreamRetries, StreamFinishes, Judging, before, flowVars
  <2>1. CASE StreamImage \/ StreamFinishes
    <3>1. UNCHANGED <<upstream, role>> /\ stage' \in {"image", "recording"}
      BY <2>1 DEF StreamImage, StreamFinishes, Conclude, ToImage, readVars
    <3> QED
      BY <1>0, <2>0, <3>1 DEF CallsOf, Waiting
  <2>2. CASE StreamRetries
    <3>1. role = "first" /\ role' = "think" /\ upstream' = upstream + 1 /\ stage' = "reading"
      BY <2>2 DEF StreamRetries, Opens
    <3> QED
      BY <1>0, <1>a, <2>0, <3>1 DEF CallsOf, Waiting
  <2> QED
    BY <1>3, <2>1, <2>2 DEF OfStream
<1>4. CASE OfSearch /\ route = "search"
  <2>0. route' = route /\ route = "search"
    BY <1>4 DEF OfSearch, SearchImage, LeakRetry, ReplayRetries, ReplayFinishes, BeginSearch,
                SearchFails, SearchDone, before, flowVars
  <2>1. CASE SearchImage \/ ReplayFinishes \/ SearchFails
    BY <1>0, <2>0, <2>1, ZenonT(60) DEF SearchImage, ReplayFinishes, SearchFails, First, Replayed, Judging,
                            Fails, Conclude, ToImage, readVars, retryVars, CallsOf, Waiting
  <2>2. CASE LeakRetry
    <3>1. /\ role = "first" /\ role' = "leak" /\ upstream' = upstream + 1 /\ stage' = "reading"
          /\ leakTries' = leakTries + 1 /\ UNCHANGED <<thinkTries, roundsDone>>
      BY <2>2 DEF LeakRetry, First, Opens
    <3> QED
      BY <1>0, <1>a, <2>0, <3>1 DEF CallsOf, Waiting
  <2>3. CASE ReplayRetries
    <3>1. /\ role \in {"first", "leak"} /\ role' = "think" /\ upstream' = upstream + 1
          /\ stage' = "reading"
          /\ thinkTries' = thinkTries + 1 /\ UNCHANGED <<leakTries, roundsDone>>
      BY <2>3 DEF ReplayRetries, Replayed, First, Opens
    <3> QED
      BY <1>0, <1>a, <2>0, <3>1 DEF CallsOf, Waiting
  <2>4. CASE BeginSearch
    <3>1. /\ role \in {"first", "follow"}
          /\ role = "follow" => roundsDone < MaxRounds
          /\ stage = "judging" /\ stage' = "searching"
          /\ UNCHANGED <<role, upstream, thinkTries, leakTries, roundsDone>>
      BY <2>4 DEF BeginSearch, Judging, readVars, retryVars
    <3>2. roundsDone < MaxRounds
      BY <1>0, <1>a, <2>0, <3>1 DEF CallsOf
    <3> QED
      BY <1>0, <1>a, <2>0, <3>1, <3>2 DEF CallsOf, Waiting
  <2>5. CASE SearchDone
    <3>1. /\ stage = "searching" /\ roundsDone' = roundsDone + 1
          /\ UNCHANGED <<thinkTries, leakTries>>
          /\ \/ stage' = "recording" /\ UNCHANGED <<upstream, role>>
             \/ stage' = "reading" /\ upstream' = upstream + 1 /\ role' = "follow"
      BY <2>5 DEF SearchDone, Opens, Conclude
    <3> QED
      BY <1>0, <1>a, <2>0, <3>1 DEF CallsOf, Waiting
  <2> QED
    BY <1>4, <2>1, <2>2, <2>3, <2>4, <2>5 DEF OfSearch
<1>5. CASE OfSearch /\ route # "search"
  <2>1. SearchFails /\ stage = "searching"
    BY <1>5 DEF OfSearch, SearchImage, LeakRetry, ReplayRetries, ReplayFinishes, BeginSearch,
                SearchFails, SearchDone, First, Replayed, Judging
  <2> QED
    BY <1>0, <2>1 DEF SearchFails, Fails, before, flowVars, readVars, retryVars, CallsOf, Waiting
<1>6. CASE OfFollow
  <2>0. route' = route /\ route = "search" /\ stage = "judging" /\ role = "follow"
    BY <1>6 DEF OfFollow, FollowThinks, FollowRecovers, RoundLimit, FollowFinishes, LateThinks,
                FollowEmpty, Last, Follow, Judging, before, flowVars
  <2>1. CASE FollowThinks \/ LateThinks
    <3>1. /\ role' = "follow" /\ upstream' = upstream + 1 /\ stage' = "reading" /\ thinkTries < 1
          /\ thinkTries' = thinkTries + 1 /\ UNCHANGED <<leakTries, roundsDone>>
      BY <2>1 DEF FollowThinks, LateThinks, MayThink, Opens
    <3> QED
      BY <1>0, <1>a, <2>0, <3>1 DEF CallsOf, Waiting
  <2>2. CASE FollowRecovers
    <3>1. /\ role' = "follow" /\ upstream' = upstream + 1 /\ stage' = "reading" /\ leakTries < 1
          /\ leakTries' = leakTries + 1 /\ UNCHANGED <<thinkTries, roundsDone>>
      BY <2>2 DEF FollowRecovers, MayRecover, Opens
    <3> QED
      BY <1>0, <1>a, <2>0, <3>1 DEF CallsOf, Waiting
  <2>3. CASE RoundLimit \/ FollowFinishes \/ FollowEmpty
    BY <1>0, <2>0, <2>3, ZenonT(60) DEF RoundLimit, FollowFinishes, FollowEmpty, Conclude, readVars,
                            retryVars, CallsOf, Waiting
  <2> QED
    BY <1>6, <2>1, <2>2, <2>3 DEF OfFollow
<1>7. CASE OfJson
  <2>0. route' = route /\ stage \in {"judging", "searching"}
    BY <1>7 DEF OfJson, JsonJudges, JsonRetries, JsonFinishes, JsonSearches, JsonSearchDone,
                ChatFinishes, Judging, before, flowVars
  <2>1. CASE JsonJudges
    <3>1. /\ route = "json" /\ stage' \in {"image", "reading", "recording"}
          /\ \/ UNCHANGED <<upstream, role>>
             \/ role = "first" /\ role' = "think" /\ upstream' = upstream + 1
      BY <2>1 DEF JsonJudges, Judging, Opens, ToImage
    <3> QED
      BY <1>0, <1>a, <2>0, <3>1 DEF CallsOf, Waiting
  <2>2. CASE JsonRetries
    <3>1. /\ route = "searchJson" /\ stage' \in {"reading", "recording"}
          /\ \/ UNCHANGED upstream
             \/ upstream <= MaxRounds /\ upstream' = upstream + 1
      BY <2>2 DEF JsonRetries, Judging, Opens
    <3> QED
      BY <1>0, <1>a, <2>0, <3>1 DEF CallsOf, Waiting
  <2>3. CASE JsonFinishes \/ JsonSearches
    <3>1. /\ route = "searchJson" /\ UNCHANGED upstream
          /\ \/ stage' = "recording"
             \/ stage' = "searching" /\ upstream <= MaxRounds
      BY <2>3 DEF JsonFinishes, JsonSearches, Judging, readVars
    <3> QED
      BY <1>0, <1>a, <2>0, <3>1 DEF CallsOf, Waiting
  <2>4. CASE JsonSearchDone
    <3>1. /\ route = "searchJson" /\ stage = "searching" /\ stage' \in {"reading", "recording"}
          /\ UNCHANGED upstream \/ upstream' = upstream + 1
      BY <2>4 DEF JsonSearchDone, Opens
    <3> QED
      BY <1>0, <1>a, <2>0, <3>1 DEF CallsOf, Waiting
  <2>5. CASE ChatFinishes
    BY <1>0, <2>0, <2>5 DEF ChatFinishes, readVars, retryVars, CallsOf, Waiting
  <2> QED
    BY <1>7, <2>1, <2>2, <2>3, <2>4, <2>5 DEF OfJson
<1> QED
  BY <1>1, <1>2, <1>3, <1>4, <1>5, <1>6, <1>7, NextForms DEF Quiet, Judged

-----------------------------------------------------------------------------
(* Items. *)
LEMMA ItemsStep == TurnInv /\ TurnNext => ItemsOf'
<1> SUFFICES ASSUME TurnInv, TurnNext PROVE ItemsOf'
  OBVIOUS
<1>0. ItemsOf /\ CallsOf
  BY DEF TurnInv
<1>a. items \in Nat /\ shown \in SUBSET Nat /\ Cardinality(answer.says) \in Nat
  BY AnswerForms DEF TurnInv, TurnTypeOK
<1>1. CASE Refused \/ ChatFails \/ Recorded \/ ImageDone \/ ImageFails \/ Leave
  <2>1. /\ UNCHANGED <<route, role, items, shown, clash, leaked>>
        /\ stage' \in {"over", "recording", "imageless", "relaying"}
        /\ stage' = "relaying" => Imaging /\ route \in {"stream", "search"}
    BY <1>1, RefusedForms DEF ChatFails, Recorded, ImageDone, ImageFails, Leave, Fails, before,
                              flowVars, readVars, itemVars
  <2>2. Imaging => stage \in Waiting \cup Going /\ role # "think"
    BY <1>0 DEF Imaging, Waiting, Going, ItemsOf, CallsOf
  <2> QED
    BY <1>0, <2>1, <2>2 DEF ItemsOf, Waiting, Going
<1>2. CASE ImageRelayed
  <2>1. /\ stage = "relaying" /\ stage' = "over" /\ UNCHANGED <<route, role, items, leaked>>
        /\ shown' = shown \cup {0} /\ clash' = (clash \/ 0 \in shown)
    BY <1>2 DEF ImageRelayed, before, flowVars, readVars
  <2>2. role = "follow" \/ shown = {}
    BY <1>0, <2>1 DEF ItemsOf, TurnInv, TurnTypeOK, Going
  <2> QED
    BY <1>0, <2>1, <2>2 DEF ItemsOf, Waiting, Going
<1>3. CASE Closed
  BY <1>0, <1>3 DEF Closed, Finished, ItemsOf, itemVars, before, flowVars
<1>4. CASE Aside
  <2>1. /\ stage \in Waiting /\ role = "first" /\ role' = "first"
        /\ stage' \in Waiting \cup {"unhandled", "reading"}
        /\ UNCHANGED <<route, items, shown, clash, leaked>>
    BY <1>0, <1>4, AsideForms DEF Waiting, CallsOf, readVars, flowVars, itemVars
  <2> QED
    BY <1>0, <2>1 DEF ItemsOf, Waiting, Going
<1>5. CASE Reading
  <2>1. /\ stage = "reading" /\ stage' \in {"reading", "judging", "recording"}
        /\ UNCHANGED <<route, role, items, shown, clash, leaked>>
    BY <1>5, ReadingForms DEF before, flowVars, itemVars
  <2> QED
    BY <1>0, <2>1 DEF ItemsOf, Waiting, Going
<1>6. CASE OfStream
  <2>0. route' = route /\ route = "stream" /\ stage = "judging" /\ stage \in Going
    BY <1>6 DEF OfStream, StreamImage, StreamRetries, StreamFinishes, Judging, before, flowVars,
                Going
  <2>1. CASE StreamImage
    <3>1. role' = role /\ role = "first" /\ stage' = "image" /\ UNCHANGED <<items, shown, clash, leaked>>
      BY <2>1 DEF StreamImage, ToImage, readVars, itemVars
    <3> QED
      BY <1>0, <2>0, <3>1 DEF ItemsOf
  <2>2. CASE StreamRetries
    <3> DEFINE new == items..(items + Cardinality(answer.says) - 1)
    <3>1. /\ role = "first" /\ role' = "think" /\ stage' = "reading"
          /\ shown' = shown \cup new /\ clash' = (clash \/ new \cap shown # {})
          /\ leaked' = (leaked \/ (route = "search" /\ "search" \in answer.says))
          /\ items' = items + Cardinality(answer.says)
      BY <2>2 DEF StreamRetries, Opens, Announce
    <3>2. shown = {} /\ ~clash /\ ~leaked
      BY <1>0, <2>0, <3>1 DEF ItemsOf
    <3>3. \A i \in new : i < items'
      BY <1>a, <3>1
    <3>4. ~clash' /\ ~leaked' /\ shown' = new
      BY <2>0, <3>1, <3>2
    <3> QED
      BY <2>0, <3>1, <3>3, <3>4 DEF ItemsOf
  <2>3. CASE StreamFinishes
    <3> DEFINE new == items..(items + Cardinality(answer.says) - 1)
    <3>1. /\ role' = role /\ stage' = "recording"
          /\ clash' = (clash \/ new \cap shown # {})
          /\ leaked' = (leaked \/ (route = "search" /\ "search" \in answer.says))
      BY <2>3 DEF StreamFinishes, Announce, Conclude, readVars
    <3>2. role = "follow" \/ \A i \in shown : i < items
      BY <1>0, <2>0 DEF ItemsOf, TurnInv, TurnTypeOK
    <3>3. role = "follow" \/ new \cap shown = {}
      BY <1>a, <3>2
    <3>4. ~leaked' /\ (clash' => role' = "follow")
      BY <1>0, <2>0, <3>1, <3>3 DEF ItemsOf
    <3> QED
      BY <2>0, <3>1, <3>4 DEF ItemsOf, Waiting, Going
  <2> QED
    BY <1>6, <2>1, <2>2, <2>3 DEF OfStream
<1>7. CASE OfSearch /\ route = "search"
  <2>0. route' = route /\ route = "search" /\ stage \in Going
    BY <1>7, JudgedForms DEF Judged, before, flowVars, Going
  <2>1. CASE SearchImage
    <3>1. /\ role' = role /\ role # "think" /\ stage' = "image"
          /\ UNCHANGED <<items, shown, clash, leaked>>
      BY <2>1 DEF SearchImage, ToImage, readVars, itemVars
    <3> QED
      BY <1>0, <2>0, <3>1 DEF ItemsOf
  <2>2. CASE LeakRetry
    <3>1. /\ role = "first" /\ role' = "leak" /\ stage' = "reading"
          /\ UNCHANGED <<items, shown, clash, leaked>>
      BY <2>2 DEF LeakRetry, Opens, itemVars
    <3> QED
      BY <1>0, <2>0, <3>1 DEF ItemsOf
  <2>3. CASE ReplayRetries
    <3> DEFINE new == items..(items + Cardinality(answer.says) - 1)
    <3>1. /\ role \in {"first", "leak"} /\ role' = "think" /\ stage' = "reading"
          /\ shown' = shown \cup new /\ clash' = (clash \/ new \cap shown # {})
          /\ items' = items + Cardinality(answer.says)
      BY <2>3 DEF ReplayRetries, Replayed, First, Opens, Announce
    <3>2. shown = {} /\ ~clash
      BY <1>0, <2>0, <3>1 DEF ItemsOf
    <3>3. \A i \in new : i < items'
      BY <1>a, <3>1
    <3>4. ~clash' /\ shown' = new
      BY <2>0, <3>1, <3>2
    <3> QED
      BY <2>0, <3>1, <3>3, <3>4 DEF ItemsOf
  <2>4. CASE ReplayFinishes
    <3> DEFINE new == items..(items + Cardinality(answer.says) - 1)
    <3>1. /\ role' = role /\ role \in {"first", "leak", "think"} /\ stage' = "recording"
          /\ role = "first" => "search" \notin answer.says
          /\ clash' = (clash \/ new \cap shown # {})
          /\ leaked' = (leaked \/ (route = "search" /\ "search" \in answer.says))
      BY <2>4 DEF ReplayFinishes, Replayed, First, Judging, Announce, Conclude, readVars
    <3>2. \A i \in shown : i < items
      BY <1>0, <2>0, <3>1 DEF ItemsOf
    <3>3. new \cap shown = {}
      BY <1>a, <3>2
    <3>4. ~clash'
      BY <1>0, <3>1, <3>3 DEF ItemsOf
    <3>5. leaked' => role' \in {"leak", "think"}
      BY <1>0, <3>1 DEF ItemsOf
    <3> QED
      BY <2>0, <3>1, <3>4, <3>5 DEF ItemsOf, Waiting, Going
  <2>5. CASE BeginSearch
    <3>1. /\ role' = role /\ role \in {"first", "follow"} /\ stage' = "searching"
          /\ UNCHANGED <<items, shown, clash, leaked>>
      BY <2>5 DEF BeginSearch, readVars, itemVars
    <3> QED
      BY <1>0, <2>0, <3>1 DEF ItemsOf
  <2>6. CASE SearchFails
    <3>1. role' = role /\ stage' = "recording" /\ UNCHANGED <<items, shown, clash, leaked>>
      BY <2>6 DEF SearchFails, Fails, readVars, itemVars
    <3> QED
      BY <1>0, <2>0, <3>1 DEF ItemsOf, Waiting, Going
  <2>7. CASE SearchDone
    <3> DEFINE new == items..(items + Cardinality(answer.says \cap {"search", "call"}) - 1)
    <3>1. /\ stage = "searching" /\ UNCHANGED leaked
          /\ clash' = (clash \/ new \cap shown # {})
          /\ \/ stage' = "recording" /\ role' = role
             \/ stage' = "reading" /\ role' = "follow"
      BY <2>7 DEF SearchDone, Opens, Conclude
    <3>2. role \in {"first", "follow"} /\ ~leaked
      BY <1>0, <2>0, <3>1 DEF ItemsOf
    <3>3. role = "first" => shown = {} /\ ~clash
      BY <1>0, <2>0 DEF ItemsOf
    <3>4. ~leaked' /\ (clash' => role' = "follow")
      BY <3>1, <3>2, <3>3
    <3> QED
      BY <2>0, <3>1, <3>2, <3>4 DEF ItemsOf, Waiting, Going
  <2> QED
    BY <1>7, <2>1, <2>2, <2>3, <2>4, <2>5, <2>6, <2>7 DEF OfSearch
<1>8. CASE OfSearch /\ route # "search"
  <2>1. SearchFails
    BY <1>8 DEF OfSearch, SearchImage, LeakRetry, ReplayRetries, ReplayFinishes, BeginSearch,
                SearchDone, First, Replayed, Judging
  <2>2. /\ role' = role /\ route' = route /\ stage' = "recording"
        /\ UNCHANGED <<items, shown, clash, leaked>>
    BY <2>1 DEF SearchFails, Fails, readVars, itemVars, before, flowVars
  <2> QED
    BY <1>0, <2>2 DEF ItemsOf, Waiting, Going
<1>9. CASE OfFollow
  <2>0. /\ route' = route /\ route = "search" /\ role = "follow" /\ role' = "follow"
        /\ stage' \in {"reading", "recording"}
    BY <1>9 DEF OfFollow, FollowThinks, FollowRecovers, RoundLimit, FollowFinishes, LateThinks,
                FollowEmpty, Last, Follow, Judging, Opens, Conclude, before, flowVars, readVars
  <2>1. leaked' = leaked
    <3>1. CASE FollowThinks \/ FollowRecovers
      BY <3>1 DEF FollowThinks, FollowRecovers, itemVars
    <3>2. CASE RoundLimit
      BY <3>2 DEF RoundLimit, Announce, TurnInv, TurnTypeOK
    <3>3. CASE FollowFinishes \/ LateThinks \/ FollowEmpty
      <4>1. "search" \notin answer.says /\ leaked' = (leaked \/ (route = "search" /\ "search" \in answer.says))
        BY <3>3 DEF FollowFinishes, LateThinks, FollowEmpty, Last, Announce
      <4> QED
        BY <4>1 DEF TurnInv, TurnTypeOK
    <3> QED
      BY <1>9, <3>1, <3>2, <3>3 DEF OfFollow
  <2> QED
    BY <1>0, <2>0, <2>1 DEF ItemsOf, Waiting, Going
<1>10. CASE OfJson
  <2>0. /\ route' = route /\ UNCHANGED <<items, shown, clash, leaked>> /\ stage \in Going
        /\ route \notin {"stream", "search"}
        /\ stage' \in {"image", "searching", "reading", "recording"}
        /\ stage' = "image" => role' = "first"
    BY <1>10 DEF OfJson, JsonJudges, JsonRetries, JsonFinishes, JsonSearches, JsonSearchDone,
                 ChatFinishes, Judging, ToImage, Opens, before, flowVars, itemVars, Going
  <2>1. shown = {} /\ ~leaked /\ ~clash
    BY <1>0, <2>0 DEF ItemsOf
  <2> QED
    BY <1>0, <2>0, <2>1 DEF ItemsOf
<1> QED
  BY <1>1, <1>2, <1>3, <1>4, <1>5, <1>6, <1>7, <1>8, <1>9, <1>10, NextForms DEF Judged

-----------------------------------------------------------------------------
(* Types. *)
LEMMA TypeStep == TurnInv /\ TurnNext => TurnTypeOK'
<1> SUFFICES ASSUME TurnInv, TurnNext PROVE TurnTypeOK'
  OBVIOUS
<1>0. TurnTypeOK
  BY DEF TurnInv
<1>a. 0 + 1 \in 0..2 /\ \A n \in Nat : n + 1 \in Nat /\ \A m \in Nat : n..m \subseteq Nat
  OBVIOUS
<1>q. Quiet \/ Aside \/ Judged
  BY NextForms DEF Quiet
<1>1. route' \in Route /\ imageTool' \in BOOLEAN
  <2>1. UNCHANGED <<route, imageTool>>
    <3>1. CASE Quiet
      BY <3>1, ReadingForms, RefusedForms DEF Quiet, ChatFails, Recorded, ImageDone,
         ImageRelayed, ImageFails, Closed, Leave, before, flowVars
    <3> QED
      BY <1>q, <3>1, AsideForms, JudgedForms DEF before, flowVars
  <2> QED
    BY <1>0, <2>1 DEF TurnTypeOK
<1>2. observed' \in 0..1 /\ asked' \in 0..2
  <2>1. CASE Quiet
    <3>1. UNCHANGED <<observed, asked>>
      BY <2>1, ReadingForms, RefusedForms DEF Quiet, ChatFails, Recorded, ImageDone,
         ImageRelayed, ImageFails, Closed, Leave, before, asideVars
    <3> QED
      BY <1>0, <3>1 DEF TurnTypeOK
  <2>2. CASE Aside
    <3>1. \/ UNCHANGED <<observed, asked>>
          \/ observed' = 1 /\ UNCHANGED asked
          \/ UNCHANGED observed /\ asked < 2 /\ asked' = asked + 1
      BY <2>2 DEF Aside, AdmitTurn, Observe, SetUpFails, Prepare, Classify, Intercept, Start,
                  before, asideVars
    <3> QED
      BY <1>0, <3>1 DEF TurnTypeOK
  <2>3. CASE Judged
    BY <1>0, <2>3, JudgedForms DEF TurnTypeOK, before, asideVars
  <2> QED
    BY <1>q, <2>1, <2>2, <2>3
<1>3. /\ stage' \in {"received", "admitted", "prepared", "asked", "intercepted", "reading",
                     "judging", "searching", "image", "relaying", "recording", "over",
                     "imageless", "unhandled"}
      /\ caller' \in {"here", "gone"}
  <2>1. CASE Refused \/ ChatFails \/ Recorded \/ ImageDone \/ ImageRelayed \/ Leave
    BY <1>0, <2>1, RefusedForms DEF ChatFails, Recorded, ImageDone, ImageRelayed, Leave,
                                    TurnTypeOK
  <2>2. CASE ImageFails \/ Closed
    BY <1>0, <2>2 DEF ImageFails, Fails, Closed, TurnTypeOK
  <2>3. CASE Aside \/ Reading \/ Judged
    BY <1>0, <2>3, AsideForms, ReadingForms, JudgedForms DEF TurnTypeOK
  <2> QED
    BY <2>1, <2>2, <2>3, NextForms
<1>4. upstream' \in Nat /\ role' \in {"first", "leak", "think", "follow"}
  <2>1. CASE Quiet
    BY <1>0, <2>1, QuietForms DEF TurnTypeOK
  <2>2. \/ upstream' = upstream /\ role' = role
        \/ upstream' = upstream + 1 /\ role' \in {"first", "leak", "think", "follow"}
    <3>1. CASE Aside
      BY <3>1, AsideForms DEF readVars
    <3>2. CASE OfStream \/ OfSearch
      BY <3>2 DEF OfStream, StreamImage, StreamRetries, StreamFinishes, OfSearch, SearchImage,
           LeakRetry, ReplayRetries, ReplayFinishes, BeginSearch, SearchFails, SearchDone,
           Opens, readVars
    <3>3. CASE OfFollow \/ OfJson
      BY <3>3, ZenonT(60) DEF OfFollow, FollowThinks, FollowRecovers, RoundLimit, FollowFinishes,
           LateThinks, FollowEmpty, OfJson, JsonJudges, JsonRetries, JsonFinishes,
           JsonSearches, JsonSearchDone, ChatFinishes, Opens, readVars
    <3>4. CASE Quiet
      BY <3>4, QuietForms
    <3> QED
      BY <1>q, <3>1, <3>2, <3>3, <3>4 DEF Judged
  <2> QED
    BY <1>0, <1>a, <2>2 DEF TurnTypeOK
<1>5. unread' \in SUBSET Nat /\ live' \in SUBSET Nat /\ reader' \in Nat
  <2>a. upstream \in Nat /\ reader \in Nat /\ unread \in SUBSET Nat /\ live \in SUBSET Nat
    BY <1>0 DEF TurnTypeOK
  <2>0. Source \in Nat /\ upstream + 1 \in Nat
    <3>1. Source = reader \/ Source = upstream
      BY DEF Source
    <3>2. Source \in Nat
      BY <2>a, <3>1
    <3>3. upstream + 1 \in Nat
      BY <2>a
    <3> QED
      BY <3>2, <3>3
  <2>1. CASE Heartbeat \/ Chunk
    <3>1. /\ unread' = unread \ {Source} /\ live' = live \cup {Source}
          /\ reader' = Source \/ reader' = 0
      BY <2>1 DEF Heartbeat, Chunk, Idle
    <3> QED
      BY <2>a, <2>0, <3>1
  <2>2. CASE StreamEnds \/ StreamFails \/ ChatFails
    <3>1. unread' = unread \ {Source} /\ live' = live \ {Source} /\ reader' = reader
      BY <2>2 DEF StreamEnds, StreamFails, ChatFails, Over
    <3> QED
      BY <2>a, <3>1
  <2>3. CASE Closed
    BY <1>0, <2>3 DEF Closed, TurnTypeOK
  <2>4. CASE Refused \/ Recorded \/ ImageDone \/ ImageRelayed \/ ImageFails \/ Leave
    BY <1>0, <2>4, RefusedForms DEF Recorded, ImageDone, ImageRelayed, ImageFails, Leave,
                                    readVars, TurnTypeOK
  <2>5. CASE Aside
    <3>1. /\ unread' = unread \/ unread' = unread \cup {upstream + 1}
          /\ UNCHANGED <<live, reader>>
      BY <2>5, AsideForms DEF readVars
    <3> QED
      BY <1>0, <2>0, <3>1 DEF TurnTypeOK
  <2>6. CASE Judged
    <3>1. unread' = unread \/ unread' = unread \cup {upstream + 1}
      <4>1. CASE OfStream \/ OfSearch
        BY <4>1 DEF OfStream, StreamImage, StreamRetries, StreamFinishes, OfSearch, SearchImage,
             LeakRetry, ReplayRetries, ReplayFinishes, BeginSearch, SearchFails, SearchDone,
             Opens, readVars
      <4>2. CASE OfFollow \/ OfJson
        BY <4>2, ZenonT(60) DEF OfFollow, FollowThinks, FollowRecovers, RoundLimit, FollowFinishes,
             LateThinks, FollowEmpty, OfJson, JsonJudges, JsonRetries, JsonFinishes,
             JsonSearches, JsonSearchDone, ChatFinishes, Opens, readVars
      <4> QED
        BY <2>6, <4>1, <4>2 DEF Judged
    <3>2. UNCHANGED live /\ (reader' = reader \/ reader' = 0)
      <4>1. CASE OfStream \/ OfSearch
        BY <4>1 DEF OfStream, StreamImage, StreamRetries, StreamFinishes, OfSearch, SearchImage,
             LeakRetry, ReplayRetries, ReplayFinishes, BeginSearch, SearchFails, SearchDone,
             readVars
      <4>2. CASE OfFollow \/ OfJson
        BY <4>2 DEF OfFollow, FollowThinks, FollowRecovers, RoundLimit, FollowFinishes,
             LateThinks, FollowEmpty, OfJson, JsonJudges, JsonRetries, JsonFinishes,
             JsonSearches, JsonSearchDone, ChatFinishes, readVars
      <4> QED
        BY <2>6, <4>1, <4>2 DEF Judged
    <3>3. unread' \in SUBSET Nat
      BY <2>a, <2>0, <3>1
    <3> QED
      BY <2>a, <3>2, <3>3
  <2> QED
    BY <2>1, <2>2, <2>3, <2>4, <2>5, <2>6, NextForms DEF Reading
<1>6. answer' \in Answer
  <2>1. CASE Quiet
    <3>1. CASE StreamEnds
      BY <3>1, AnswerForms DEF StreamEnds
    <3>2. CASE Quiet /\ ~StreamEnds
      BY <1>0, <3>2, RefusedForms DEF Quiet, Reading, Heartbeat, Chunk, Idle, StreamFails,
           ChatFails, Recorded, ImageDone, ImageRelayed, ImageFails, Closed, Leave, readVars,
           TurnTypeOK
    <3> QED
      BY <2>1, <3>1, <3>2
  <2>2. CASE Aside
    BY <1>0, <2>2, AsideForms, AnswerForms DEF readVars, TurnTypeOK
  <2>3. CASE Judged
    <3>1. answer' = answer \/ answer' = Nothing
      <4>1. CASE OfStream \/ OfSearch
        BY <4>1 DEF OfStream, StreamImage, StreamRetries, StreamFinishes, OfSearch, SearchImage,
             LeakRetry, ReplayRetries, ReplayFinishes, BeginSearch, SearchFails, SearchDone,
             Opens, readVars
      <4>2. CASE OfFollow \/ OfJson
        BY <4>2, ZenonT(60) DEF OfFollow, FollowThinks, FollowRecovers, RoundLimit, FollowFinishes,
             LateThinks, FollowEmpty, OfJson, JsonJudges, JsonRetries, JsonFinishes,
             JsonSearches, JsonSearchDone, ChatFinishes, Opens, readVars
      <4> QED
        BY <2>3, <4>1, <4>2 DEF Judged
    <3> QED
      BY <1>0, <3>1, AnswerForms DEF TurnTypeOK
  <2> QED
    BY <1>q, <2>1, <2>2, <2>3
<1>7. leakTries' \in Nat /\ thinkTries' \in Nat /\ roundsDone' \in Nat
  <2>1. CASE Quiet \/ Aside
    BY <1>0, <2>1, QuietForms, AsideForms DEF retryVars, TurnTypeOK
  <2>2. CASE Judged
    <3>1. /\ leakTries' = leakTries \/ leakTries' = leakTries + 1
          /\ thinkTries' = thinkTries \/ thinkTries' = thinkTries + 1
          /\ roundsDone' = roundsDone \/ roundsDone' = roundsDone + 1
      <4>1. CASE OfStream \/ OfSearch
        BY <4>1 DEF OfStream, StreamImage, StreamRetries, StreamFinishes, OfSearch, SearchImage,
             LeakRetry, ReplayRetries, ReplayFinishes, BeginSearch, SearchFails, SearchDone,
             retryVars
      <4>2. CASE OfFollow \/ OfJson
        BY <4>2 DEF OfFollow, FollowThinks, FollowRecovers, RoundLimit, FollowFinishes,
             LateThinks, FollowEmpty, OfJson, JsonJudges, JsonRetries, JsonFinishes,
             JsonSearches, JsonSearchDone, ChatFinishes, retryVars
      <4> QED
        BY <2>2, <4>1, <4>2 DEF Judged
    <3> QED
      BY <1>0, <3>1 DEF TurnTypeOK
  <2> QED
    BY <1>q, <2>1, <2>2
<1>8. /\ items' \in Nat /\ shown' \in SUBSET Nat
      /\ clash' \in BOOLEAN /\ leaked' \in BOOLEAN
  <2> DEFINE more == Cardinality(answer.says)
             calls == Cardinality(answer.says \cap {"search", "call"})
  <2>0. /\ more \in Nat /\ calls \in Nat /\ Cardinality({"text"}) \in Nat
        /\ items \in Nat /\ shown \in SUBSET Nat
    <3>1. answer.says \in SUBSET Kinds /\ {"text"} \in SUBSET Kinds
      BY <1>0, AnswerForms DEF TurnTypeOK, Kinds, Speech
    <3>2. answer.says \cap {"search", "call"} \in SUBSET Kinds
      BY <3>1
    <3> QED
      BY <1>0, <3>1, <3>2, Counted DEF TurnTypeOK
  <2>1. CASE Quiet /\ ~ImageRelayed
    <3>1. UNCHANGED <<items, shown, clash, leaked>>
      BY <2>1, ReadingForms, RefusedForms DEF Quiet, ChatFails, Recorded, ImageDone,
         ImageFails, Closed, Leave, itemVars
    <3> QED
      BY <1>0, <3>1 DEF TurnTypeOK
  <2>2. CASE ImageRelayed
    <3>1. items' \in Nat /\ shown' \in SUBSET Nat
      BY <2>0, <2>2 DEF ImageRelayed
    <3>2. clash' \in BOOLEAN /\ leaked' \in BOOLEAN
      BY <1>0, <2>2 DEF ImageRelayed, TurnTypeOK
    <3> QED
      BY <3>1, <3>2
  <2>3. CASE Aside
    BY <1>0, <2>3, AsideForms DEF itemVars, TurnTypeOK
  <2>4. CASE Judged
    <3>a. \/ UNCHANGED itemVars
          \/ Announce(answer.says) /\ (items' = items \/ items' = items + more)
          \/ Announce({"text"}) /\ items' = items + 1
          \/ SearchDone
      <4>1. CASE OfStream \/ OfSearch
        BY <4>1 DEF OfStream, StreamImage, StreamRetries, StreamFinishes, OfSearch, SearchImage,
             LeakRetry, ReplayRetries, ReplayFinishes, BeginSearch, SearchFails
      <4>2. CASE OfFollow \/ OfJson
        BY <4>2, ZenonT(60) DEF OfFollow, FollowThinks, FollowRecovers, RoundLimit, FollowFinishes,
             LateThinks, FollowEmpty, OfJson, JsonJudges, JsonRetries, JsonFinishes,
             JsonSearches, JsonSearchDone, ChatFinishes
      <4> QED
        BY <2>4, <4>1, <4>2 DEF Judged
    <3>b. \/ UNCHANGED <<items, shown>>
          \/ /\ shown' = shown \cup items..(items + more - 1)
             /\ items' = items \/ items' = items + more
          \/ shown' = shown \cup items..(items + Cardinality({"text"}) - 1) /\ items' = items + 1
          \/ shown' = shown \cup items..(items + calls - 1) /\ items' = items + calls
      BY <3>a DEF Announce, SearchDone, itemVars
    <3>c. \A m \in Nat : items + m \in Nat /\ items..(items + m - 1) \subseteq Nat
      BY <2>0
    <3>d. items' \in Nat /\ shown' \in SUBSET Nat
      BY <2>0, <3>b, <3>c
    <3>e. clash' \in BOOLEAN /\ leaked' \in BOOLEAN
      <4>1. CASE UNCHANGED itemVars
        BY <1>0, <4>1 DEF itemVars, TurnTypeOK
      <4>2. CASE Announce(answer.says) \/ Announce({"text"})
        BY <4>2 DEF Announce
      <4>3. CASE SearchDone
        BY <1>0, <4>3 DEF SearchDone, TurnTypeOK
      <4> QED
        BY <3>a, <4>1, <4>2, <4>3
    <3> QED
      BY <3>d, <3>e
  <2> QED
    BY <1>q, <2>1, <2>2, <2>3, <2>4
<1>9. ends' \in Seq({"completed", "failed"}) /\ records' \in Seq(Nat)
  <2>1. ends' \in {<<>>, <<"completed">>, <<"failed">>, <<"failed", "failed">>}
    BY EndsStep DEF EndsOf
  <2>2. records' = <<>> \/ \E n \in Nat : records' = <<n>>
    BY RecordsStep DEF RecordsOf
  <2>3. /\ <<>> \in Seq({"completed", "failed"}) /\ <<"completed">> \in Seq({"completed", "failed"})
        /\ <<"failed">> \in Seq({"completed", "failed"})
        /\ <<"failed", "failed">> \in Seq({"completed", "failed"})
    OBVIOUS
  <2>4. <<>> \in Seq(Nat) /\ \A n \in Nat : <<n>> \in Seq(Nat)
    OBVIOUS
  <2> QED
    BY <2>1, <2>2, <2>3, <2>4
<1>10. recordAs' \in Nat
  <2>1. recordAs' = recordAs \/ recordAs' \in {200, 500}
    <3>1. CASE Quiet
      BY <3>1, ReadingForms, RefusedForms DEF Quiet, ChatFails, Recorded, ImageDone,
         ImageRelayed, ImageFails, Fails, Closed, Leave, endVars
    <3>2. CASE Aside
      BY <3>2, AsideForms DEF endVars
    <3>3. CASE OfStream
      BY <3>3, ZenonT(60) DEF OfStream, StreamImage, StreamRetries, StreamFinishes, Conclude, endVars
    <3>4. CASE OfSearch
      BY <3>4, ZenonT(60) DEF OfSearch, SearchImage, LeakRetry, ReplayRetries, ReplayFinishes, BeginSearch,
                  SearchFails, SearchDone, Fails, Conclude, endVars
    <3>5. CASE OfFollow
      BY <3>5 DEF OfFollow, FollowThinks, FollowRecovers, RoundLimit, FollowFinishes,
           LateThinks, FollowEmpty, Conclude, endVars
    <3>6. CASE OfJson
      BY <3>6 DEF OfJson, JsonJudges, JsonRetries, JsonFinishes, JsonSearches, JsonSearchDone,
           ChatFinishes, endVars
    <3> QED
      BY <1>q, <3>1, <3>2, <3>3, <3>4, <3>5, <3>6 DEF Judged
  <2> QED
    BY <1>0, <2>1 DEF TurnTypeOK
<1> QED
  BY <1>1, <1>2, <1>3, <1>4, <1>5, <1>6, <1>7, <1>8, <1>9, <1>10 DEF TurnTypeOK

-----------------------------------------------------------------------------
(* Ends that are not recorded. *)
LEMMA LapsesStep == TurnInv /\ TurnNext => LapsesOf'
<1> SUFFICES ASSUME TurnInv, TurnNext PROVE LapsesOf'
  OBVIOUS
<1>0. LapsesOf /\ CallsOf
  BY DEF TurnInv
<1>1. CASE Refused \/ ChatFails \/ Recorded \/ ImageDone \/ ImageRelayed \/ Leave \/ Reading
  <2>1. stage' \in {"over", "relaying", "reading", "judging", "recording"}
    BY <1>1, RefusedForms, ReadingForms DEF ChatFails, Recorded, ImageDone, ImageRelayed, Leave
  <2> QED
    BY <2>1 DEF LapsesOf
<1>2. CASE ImageFails
  <2>1. /\ stage = "image" \/ stage = "intercepted"
        /\ stage' \in {"recording", "imageless"} /\ UNCHANGED <<upstream, answer>>
    BY <1>2 DEF ImageFails, Imaging, Fails, readVars
  <2>2. stage = "intercepted" => upstream = 0
    BY <1>0 DEF CallsOf, Waiting
  <2> QED
    BY <1>0, <2>1, <2>2 DEF LapsesOf
<1>3. CASE Closed
  BY <1>0, <1>3 DEF Closed, before, asideVars, LapsesOf
<1>4. CASE Aside
  <2>1. /\ stage \in Waiting
        /\ stage' \in {"admitted", "prepared", "asked", "intercepted", "unhandled", "reading"}
        /\ stage' = "unhandled" => UNCHANGED upstream
    BY <1>4, AsideForms DEF Waiting, readVars
  <2>2. stage' \in {"admitted", "prepared", "unhandled"} =>
          stage \in {"received", "admitted"} /\ UNCHANGED asked
    BY <1>4 DEF Aside, AdmitTurn, Observe, SetUpFails, Prepare, Classify, Intercept, Start,
                Opens, before, asideVars
  <2>3. upstream = 0
    BY <1>0, <2>1 DEF CallsOf
  <2> QED
    BY <1>0, <2>1, <2>2, <2>3 DEF LapsesOf
<1>5. CASE Judged
  <2>1. stage' \in {"image", "searching", "reading", "recording"}
    BY <1>5, JudgedForms
  <2>2. stage' = "image" => "image" \in answer.says /\ answer' = answer
    <3>1. CASE OfStream
      BY <3>1 DEF OfStream, StreamImage, StreamRetries, StreamFinishes, Opens, Conclude, readVars
    <3>2. CASE OfSearch
      BY <3>2 DEF OfSearch, SearchImage, LeakRetry, ReplayRetries, ReplayFinishes, BeginSearch,
                  SearchFails, SearchDone, Opens, Conclude, Fails, readVars
    <3>3. CASE OfFollow
      BY <3>3 DEF OfFollow, FollowThinks, FollowRecovers, RoundLimit, FollowFinishes,
                  LateThinks, FollowEmpty, Opens, Conclude
    <3>4. CASE OfJson
      BY <3>4 DEF OfJson, JsonJudges, JsonRetries, JsonFinishes, JsonSearches, JsonSearchDone,
                  ChatFinishes, Opens
    <3> QED
      BY <1>5, <3>1, <3>2, <3>3, <3>4 DEF Judged
  <2> QED
    BY <2>1, <2>2 DEF LapsesOf
<1> QED
  BY <1>1, <1>2, <1>3, <1>4, <1>5, NextForms

-----------------------------------------------------------------------------
LEMMA TurnStutters == TurnInv /\ UNCHANGED turnVars => TurnInv'
<1> SUFFICES ASSUME TurnInv, UNCHANGED turnVars PROVE TurnInv'
  OBVIOUS
<1> USE DEF turnVars, flowVars, asideVars, readVars, retryVars, itemVars, endVars
<1>1. TurnTypeOK'
  BY DEF TurnInv, TurnTypeOK
<1>2. RecordsOf' /\ EndsOf'
  BY DEF TurnInv, RecordsOf, EndsOf
<1>3. CallsOf' /\ ItemsOf' /\ LapsesOf'
  BY DEF TurnInv, CallsOf, ItemsOf, LapsesOf
<1> QED
  BY <1>1, <1>2, <1>3 DEF TurnInv

LEMMA TurnAlways == TurnSpec => []TurnInv
<1>1. TurnInv /\ TurnNext => TurnInv'
  BY RecordsStep, EndsStep, CallsStep, ItemsStep, LapsesStep, TypeStep DEF TurnInv
<1>2. TurnInv /\ [TurnNext]_turnVars => TurnInv'
  BY <1>1, TurnStutters
<1> QED
  BY TurnBegins, <1>2, PTL DEF TurnSpec

(* Every variable of a turn keeps its type, for every number of rounds.      *)
THEOREM TurnTypeTheorem == TurnSpec => []TurnTypeOK
BY TurnAlways, PTL DEF TurnInv

(* A turn is recorded at most once.  One that ends with its client there and *)
(* without a record had its set-up fail, outside every try of server.py,     *)
(* before a model was asked anything, or was to make an image and could not. *)
THEOREM TurnRecordedTheorem == TurnSpec => []TurnRecorded
<1>1. TurnInv => TurnRecorded
  <2> SUFFICES ASSUME TurnInv PROVE TurnRecorded
    OBVIOUS
  <2>1. records = <<>> \/ \E n \in Nat : records = <<n>>
    BY DEF TurnInv, RecordsOf
  <2>2. Len(records) <= 1 /\ (records # <<>> => Len(records) = 1)
    <3>1. CASE records = <<>>
      <4>1. Len(records) = 0
        BY <3>1
      <4> QED
        BY <3>1, <4>1
    <3>2. CASE \E n \in Nat : records = <<n>>
      <4>1. PICK n \in Nat : records = <<n>>
        BY <3>2
      <4>2. Len(records) = 1 /\ 1 <= 1
        BY <4>1
      <4> QED
        BY <4>2
    <3> QED
      BY <2>1, <3>1, <3>2
  <2>3. CASE Finished /\ caller = "here" /\ records = <<>>
    <3>1. stage \in {"unhandled", "imageless"}
      BY <2>3 DEF TurnInv, RecordsOf, Finished
    <3> QED
      BY <2>2, <3>1 DEF TurnInv, LapsesOf, TurnRecorded
  <2> QED
    BY <2>2, <2>3 DEF TurnInv, TurnRecorded
<1> QED
  BY <1>1, TurnAlways, PTL

(* The retries and rounds of one turn cost no more upstream calls than the   *)
(* bound of its route, whatever the model answers and however often.         *)
THEOREM WorkTheorem == TurnSpec => []WorkBounded
<1>1. TurnInv => WorkBounded
  <2> SUFFICES ASSUME TurnInv PROVE WorkBounded
    OBVIOUS
  <2>a. /\ upstream \in Nat /\ leakTries \in Nat /\ thinkTries \in Nat /\ roundsDone \in Nat
        /\ MaxRounds \in Nat /\ CallsOf /\ route \in Route
    BY RoundsAssumption DEF TurnInv, TurnTypeOK
  <2>1. CASE route \in {"chat", "chatJson"}
    BY <2>a, <2>1 DEF CallsOf, WorkBounded
  <2>2. CASE route \in {"stream", "json"}
    <3>1. upstream <= 2
      BY <2>a, <2>2 DEF CallsOf
    <3> QED
      BY <2>2, <3>1 DEF WorkBounded
  <2>3. CASE route = "search"
    <3>1. upstream <= MaxRounds + 3
      BY <2>a, <2>3 DEF CallsOf
    <3> QED
      BY <2>3, <3>1 DEF WorkBounded
  <2>4. CASE route = "searchJson"
    BY <2>a, <2>4 DEF CallsOf, WorkBounded
  <2> QED
    BY <2>a, <2>1, <2>2, <2>3, <2>4 DEF Route
<1> QED
  BY <1>1, TurnAlways, PTL

(* A completed response is never failed or completed again nor recorded as   *)
(* an error, and an error that ended a stream was told before it was         *)
(* recorded.                                                                 *)
THEOREM EndsTheorem == TurnSpec => []EndsAgree
<1>1. TurnInv => EndsAgree
  <2> SUFFICES ASSUME TurnInv PROVE EndsAgree
    OBVIOUS
  <2>0. EndsOf /\ ItemsOf
    BY DEF TurnInv
  <2> DEFINE reported == {ends[i] : i \in DOMAIN ends}
  <2>1. CASE ends = <<>>
    <3>1. reported = {}
      BY <2>1
    <3> QED
      BY <2>0, <2>1, <3>1 DEF EndsOf, ItemsOf, EndsAgree
  <2>2. CASE ends = <<"completed">>
    <3>1. Len(ends) = 1 /\ (records # <<>> => records = <<200>>)
      BY <2>0, <2>2 DEF EndsOf
    <3>2. <<200>> # <<500>>
      OBVIOUS
    <3>3. route \in {"stream", "search"} /\ upstream > 0 => records # <<500>>
      BY <2>0, <2>2 DEF EndsOf
    <3> QED
      BY <2>0, <3>1, <3>3 DEF ItemsOf, EndsAgree
  <2>3. CASE ends = <<"failed">> \/ ends = <<"failed", "failed">>
    <3>1. reported = {"failed"}
      <4>1. CASE ends = <<"failed">>
        <5>1. DOMAIN ends = {1} /\ ends[1] = "failed"
          BY <4>1
        <5> QED
          BY <5>1
      <4>2. CASE ends = <<"failed", "failed">>
        <5>1. DOMAIN ends = {1, 2} /\ ends[1] = "failed" /\ ends[2] = "failed"
          BY <4>2
        <5> QED
          BY <5>1
      <4> QED
        BY <2>3, <4>1, <4>2
    <3> QED
      BY <2>0, <3>1 DEF ItemsOf, EndsAgree
  <2> QED
    BY <2>0, <2>1, <2>2, <2>3 DEF EndsOf
<1> QED
  BY <1>1, TurnAlways, PTL

-----------------------------------------------------------------------------
(* The recording. *)

Early == {"new", "refused", "body", "asking", "probing", "calling"}
After == {"replying", "closing", "closed", "aborted"}

Booked == \A h \in Handler : booked[h] = IF at[h] = "closed" THEN 1 ELSE 0

(* The tasks exist from the connection to the cleanup.                       *)
TasksOf ==
    /\ at["stream"] \in Early => upload = "idle" /\ download = "idle" /\ dog = "idle"
    /\ at["stream"] \in After => {upload, download, dog} \subseteq Ended \cup {"idle"}
    /\ dog \notin {"ok", "gone"}

(* A final text is only sent after the stop, and counts when it is out.      *)
TextOf ==
    /\ download \in {"sendFinal", "draining"} => stop
    /\ download = "draining" => "final" \in saw
    /\ outcome = "completed" => stop /\ "final" \in saw

(* Nobody is taken for gone or for having given up who is not.               *)
LeaveOf ==
    /\ "gone" \in {upload, download} => client = "gone"
    /\ outcome = "cancelled" => client = "gone" \/ "cancelled" \in saw

(* The worker hears of the stop after the event is set, and of audio before. *)
StopOf ==
    /\ told => stop
    /\ upload = "sendStop" => stop
    /\ upload = "sendAudio" => ~stop

(* The verdict of a session that is on its way out.                          *)
EndOf ==
    /\ at["stream"] \in {"cleanup", "replying", "closing", "closed"} =>
         /\ result["stream"] = "completed" => stop /\ "final" \in saw
         /\ result["stream"] = "cancelled" => client = "gone" \/ "cancelled" \in saw
    /\ at["stream"] \in {"closing", "closed"} /\ result["stream"] = "failed" =>
         client = "gone" \/ "error" \in saw

SpeechInv ==
    TypeOK /\ OneWorker /\ Booked /\ TasksOf /\ TextOf /\ LeaveOf /\ StopOf /\ EndOf

LEMMA SpeechBegins == Init => SpeechInv
<1> SUFFICES ASSUME Init PROVE SpeechInv
  OBVIOUS
<1>1. TypeOK
  BY DEF Init, TypeOK, Phase, Verdict, Ended
<1>2. OneWorker /\ Booked /\ TasksOf /\ TextOf /\ LeaveOf /\ StopOf /\ EndOf
  BY DEF Init, OneWorker, Booked, TasksOf, TextOf, LeaveOf, StopOf, EndOf, Early, After, Handler
<1> QED
  BY <1>1, <1>2 DEF SpeechInv

(* A step of a handler.                                                      *)
LEMMA GoForms ==
    ASSUME TypeOK, NEW h \in Handler, NEW phase \in Phase, Go(h, phase)
    PROVE  /\ at' \in [Handler -> Phase] /\ at'[h] = phase
           /\ \A g \in Handler \ {h} : at'[g] = at[g]
BY DEF TypeOK, Go

LEMMA SettleForms ==
    ASSUME TypeOK, NEW h \in Handler, NEW phase \in Phase, NEW verdict \in Verdict,
           Settle(h, phase, verdict)
    PROVE  /\ at' \in [Handler -> Phase] /\ at'[h] = phase
           /\ result' \in [Handler -> Verdict] /\ result'[h] = verdict
           /\ \A g \in Handler \ {h} : at'[g] = at[g] /\ result'[g] = result[g]
BY DEF TypeOK, Settle, Go

(* What a step of a task leaves to be shown.                                 *)
LEMMA TaskFrame ==
    ASSUME SpeechInv, relaying, UNCHANGED <<handlerVars, serviceVars>>
    PROVE  /\ at' = at /\ at["stream"] = "relaying" /\ OneWorker' /\ Booked' /\ EndOf'
           /\ dog' \notin {"ok", "gone"} => TasksOf'
BY DEF SpeechInv, relaying, handlerVars, serviceVars, OneWorker, Booked, EndOf, TasksOf,
       Early, After

LEMMA UploadStep == SpeechInv /\ Upload => SpeechInv'
<1> SUFFICES ASSUME SpeechInv, Upload PROVE SpeechInv'
  OBVIOUS
<1>1. /\ relaying /\ UNCHANGED <<handlerVars, serviceVars, download, dog>>
  BY DEF Upload, ReceiveAudio, ReceiveJunk, ReceiveCancel, ReceiveStop, Receive,
         ReceiveDisconnect, IdleTimeout, UpstreamSend, SendCancelled
<1>2. OneWorker' /\ Booked' /\ EndOf' /\ TasksOf'
  BY <1>1, TaskFrame DEF SpeechInv, TasksOf
<1>3. TypeOK'
  <2>1. /\ upload' \in Ended \cup {"idle", "receiving", "sendAudio", "sendStop",
                                  "sendCancelled"}
        /\ outcome' \in {outcome, "cancelled"} /\ stop' \in {stop, TRUE}
        /\ told' \in BOOLEAN
    BY DEF SpeechInv, TypeOK, Upload, ReceiveAudio, ReceiveJunk, ReceiveCancel, ReceiveStop,
           Receive, ReceiveDisconnect, IdleTimeout, UpstreamSend, SendCancelled, Ended,
           relayVars, peerVars
  <2>2. /\ saw' \in {saw, saw \cup {"cancelled"}} /\ frames' \in {frames, frames + 1}
        /\ client' = client /\ notes' = notes
    BY DEF Upload, ReceiveAudio, ReceiveJunk, ReceiveCancel, ReceiveStop,
           Receive, ReceiveDisconnect, IdleTimeout, UpstreamSend, SendCancelled, peerVars
  <2>3. saw' \in SUBSET {"final", "cancelled", "error"} /\ frames' \in Nat
    BY <2>2 DEF SpeechInv, TypeOK
  <2>4. outcome' \in Verdict /\ stop' \in BOOLEAN
    BY <2>1 DEF SpeechInv, TypeOK, Verdict
  <2> QED
    BY <1>1, <2>1, <2>2, <2>3, <2>4 DEF SpeechInv, TypeOK, handlerVars, serviceVars
<1>4. TextOf' /\ LeaveOf' /\ StopOf'
  BY <1>1
  DEF SpeechInv, TypeOK, TextOf, LeaveOf, StopOf, Upload, ReceiveAudio, ReceiveJunk,
      ReceiveCancel, ReceiveStop, Receive, ReceiveDisconnect, IdleTimeout, UpstreamSend,
      SendCancelled, relayVars, peerVars
<1> QED
  BY <1>2, <1>3, <1>4 DEF SpeechInv

LEMMA DownloadStep == SpeechInv /\ Download => SpeechInv'
<1> SUFFICES ASSUME SpeechInv, Download PROVE SpeechInv'
  OBVIOUS
<1>1. relaying /\ UNCHANGED <<handlerVars, serviceVars, upload, dog, stop, told, client>>
  BY DEF Download, ReadNote, ReadFinal, ReadOther, NoteSent, FinalOut, FinalSent, FinalFails,
         relayVars, peerVars
<1>2. OneWorker' /\ Booked' /\ EndOf' /\ TasksOf'
  BY <1>1, TaskFrame DEF SpeechInv, TasksOf
<1>3. TypeOK'
  <2>1. /\ download' \in Ended \cup {"idle", "reading", "sendNote", "sendFinal", "draining"}
        /\ outcome' \in Verdict /\ notes' \in Nat /\ frames' = frames
        /\ saw' \in {saw, saw \cup {"final"}}
    BY DEF SpeechInv, TypeOK, Download, ReadNote, ReadFinal, ReadOther, NoteSent, FinalOut,
           FinalSent, FinalFails, Ended, Verdict, relayVars, peerVars
  <2>2. saw' \in SUBSET {"final", "cancelled", "error"}
    BY <2>1 DEF SpeechInv, TypeOK
  <2> QED
    BY <1>1, <2>1, <2>2 DEF SpeechInv, TypeOK, handlerVars, serviceVars
<1>4. TextOf' /\ LeaveOf' /\ StopOf'
  BY <1>1
  DEF SpeechInv, TypeOK, TextOf, LeaveOf, StopOf, Download, ReadNote, ReadFinal, ReadOther,
      NoteSent, FinalOut, FinalSent, FinalFails, relayVars, peerVars
<1> QED
  BY <1>2, <1>3, <1>4 DEF SpeechInv

LEMMA WatchdogStep == SpeechInv /\ Watchdog => SpeechInv'
<1> SUFFICES ASSUME SpeechInv, Watchdog PROVE SpeechInv'
  OBVIOUS
<1>1. /\ relaying /\ dog' \in {"failed", "waiting"}
      /\ UNCHANGED <<handlerVars, serviceVars, upload, download, relayVars, peerVars>>
  BY DEF Watchdog, RecordTimeout, SeeStop, FinalTimeout
<1>2. OneWorker' /\ Booked' /\ EndOf' /\ TasksOf'
  BY <1>1, TaskFrame
<1>3. TypeOK'
  BY <1>1 DEF SpeechInv, TypeOK, Ended, handlerVars, serviceVars, relayVars, peerVars
<1>4. TextOf' /\ LeaveOf' /\ StopOf'
  BY <1>1 DEF SpeechInv, TextOf, LeaveOf, StopOf, relayVars, peerVars
<1> QED
  BY <1>2, <1>3, <1>4 DEF SpeechInv

-----------------------------------------------------------------------------
(* A step of a handler that leaves the tasks alone and records nothing.      *)
LEMMA HandlerFrame ==
    ASSUME SpeechInv, NEW h \in Handler, NEW phase \in Phase, NEW verdict \in Verdict,
           at' = [at EXCEPT ![h] = phase], result' = [result EXCEPT ![h] = verdict],
           at[h] # "closed", phase # "closed",
           UNCHANGED <<booked, taskVars, relayVars, peerVars>>,
           lock' \in Handler \cup {"free"}, process' \in {"none", "alive", "dead"},
           alive' \in Nat, spawned' \in Nat, OneWorker',
           h = "stream" =>
             \/ at[h] \in Early /\ phase \in Early
             \/ at[h] \in Early /\ phase = "replying" /\ verdict = "failed"
             \/ at[h] \in Early /\ phase = "closing" /\ verdict = "interrupted"
             \/ at[h] = "replying" /\ phase = "aborted"
    PROVE  SpeechInv'
<1>1. /\ at' \in [Handler -> Phase] /\ at'[h] = phase
      /\ result' \in [Handler -> Verdict] /\ result'[h] = verdict
      /\ \A g \in Handler \ {h} : at'[g] = at[g] /\ result'[g] = result[g]
  BY DEF SpeechInv, TypeOK
<1>2. TypeOK'
  BY <1>1 DEF SpeechInv, TypeOK, taskVars, relayVars, peerVars
<1>3. Booked'
  BY <1>1 DEF SpeechInv, Booked
<1>4. TextOf' /\ LeaveOf' /\ StopOf'
  BY DEF SpeechInv, TextOf, LeaveOf, StopOf, taskVars, relayVars, peerVars
<1>5. CASE h = "stream"
  <2>1. TasksOf'
    BY <1>1, <1>5 DEF SpeechInv, TasksOf, Early, After, Ended, taskVars
  <2>2. EndOf'
    BY <1>1, <1>5 DEF EndOf, Early
  <2> QED
    BY <1>2, <1>3, <1>4, <2>1, <2>2 DEF SpeechInv
<1>6. CASE h # "stream"
  <2>1. at'["stream"] = at["stream"] /\ result'["stream"] = result["stream"]
    BY <1>1, <1>6 DEF Handler
  <2>2. TasksOf' /\ EndOf'
    BY <2>1 DEF SpeechInv, TasksOf, EndOf, taskVars, relayVars, peerVars
  <2> QED
    BY <1>2, <1>3, <1>4, <2>2 DEF SpeechInv
<1> QED
  BY <1>5, <1>6

(* The same for a step that has no verdict, or no worker.                    *)
LEMMA GoFrame ==
    ASSUME SpeechInv, NEW h \in Handler, NEW phase \in Early,
           Go(h, phase), at[h] \in Early,
           UNCHANGED <<result, booked, taskVars, relayVars, peerVars>>,
           lock' \in Handler \cup {"free"}, process' \in {"none", "alive", "dead"},
           alive' \in Nat, spawned' \in Nat, OneWorker'
    PROVE  SpeechInv'
<1>1. result' = [result EXCEPT ![h] = result[h]] /\ result[h] \in Verdict
  BY DEF SpeechInv, TypeOK
<1>2. phase \in Phase /\ phase # "closed" /\ at[h] # "closed"
  BY DEF Early, Phase
<1> QED
  BY <1>1, <1>2, HandlerFrame DEF Go

LEMMA HandlerStep ==
    ASSUME SpeechInv, NEW h \in Handler,
           \/ Refuse(h) \/ Admit(h) \/ TakeLock(h) \/ ProbeNothing(h)
           \/ ProbeFails(h) \/ Spawn(h)
    PROVE  SpeechInv'
<1>0. /\ lock \in Handler \cup {"free"} /\ process \in {"none", "alive", "dead"}
      /\ alive \in Nat /\ spawned \in Nat /\ OneWorker
  BY DEF SpeechInv, TypeOK
<1>1. CASE Refuse(h) \/ Admit(h)
  <2>1. PICK phase \in Early : Go(h, phase)
    BY <1>1 DEF Refuse, Admit, Early
  <2>2. at[h] \in Early /\ OneWorker'
    BY <1>0, <1>1 DEF Refuse, Admit, Early, OneWorker, serviceVars
  <2> QED
    BY <1>0, <1>1, <2>1, <2>2, GoFrame DEF Refuse, Admit, serviceVars
<1>2. CASE TakeLock(h) \/ ProbeNothing(h)
  <2>1. PICK phase \in Early : Go(h, phase)
    BY <1>2 DEF TakeLock, ProbeNothing, Early
  <2>2. at[h] \in Early /\ OneWorker'
    BY <1>0, <1>2 DEF TakeLock, ProbeNothing, Early, OneWorker
  <2> QED
    BY <1>0, <1>2, <2>1, <2>2, GoFrame DEF TakeLock, ProbeNothing
<1>3. CASE ProbeFails(h)
  <2>1. OneWorker' /\ AfterFailure(h) \in {"replying", "closing"}
    BY <1>0, <1>3 DEF ProbeFails, OneWorker, AfterFailure
  <2>2. h = "stream" => AfterFailure(h) = "replying"
    BY DEF AfterFailure
  <2> QED
    BY <1>0, <1>3, <2>1, <2>2, HandlerFrame DEF ProbeFails, Settle, Go, Phase, Verdict, Early
<1>4. CASE Spawn(h)
  <2>1. alive' = 1 /\ process' = "alive" /\ spawned' \in Nat /\ lock' = "free"
    BY <1>0, <1>4 DEF Spawn, MayStart, OneWorker
  <2>2. at[h] \in Early /\ OneWorker' /\ "calling" \in Early
    BY <1>4, <2>1 DEF Spawn, Early, OneWorker
  <2> QED
    BY <1>4, <2>1, <2>2, GoFrame DEF Spawn
<1> QED
  BY <1>1, <1>2, <1>3, <1>4

LEMMA CallStep == SpeechInv /\ (ReadBody \/ Post \/ ConnectFails) => SpeechInv'
<1> SUFFICES ASSUME SpeechInv, ReadBody \/ Post \/ ConnectFails PROVE SpeechInv'
  OBVIOUS
<1>0. /\ lock \in Handler \cup {"free"} /\ process \in {"none", "alive", "dead"}
      /\ alive \in Nat /\ spawned \in Nat /\ OneWorker
  BY DEF SpeechInv, TypeOK
<1>1. UNCHANGED <<booked, serviceVars, taskVars, relayVars, peerVars>>
  BY DEF ReadBody, Post, ConnectFails
<1>2. OneWorker'
  BY <1>0, <1>1 DEF OneWorker, serviceVars
<1>3. "batch" \in Handler /\ "stream" \in Handler
  BY DEF Handler
<1>4. CASE ReadBody \/ Post
  <2>1. at["batch"] \in {"body", "calling"}
    BY <1>4 DEF ReadBody, Post
  <2>2. CASE Go("batch", "asking") /\ UNCHANGED result
    BY <1>0, <1>1, <1>2, <1>3, <2>1, <2>2, GoFrame DEF serviceVars, Early
  <2>3. CASE \E verdict \in {"completed", "failed"} : Settle("batch", "closing", verdict)
    BY <1>0, <1>1, <1>2, <1>3, <2>1, <2>3, HandlerFrame
    DEF Settle, Go, serviceVars, Phase, Verdict
  <2> QED
    BY <1>4, <2>2, <2>3 DEF ReadBody, Post
<1>5. CASE ConnectFails
  BY <1>0, <1>1, <1>2, <1>3, <1>5, HandlerFrame
  DEF ConnectFails, Settle, Go, serviceVars, Phase, Verdict, Early
<1> QED
  BY <1>4, <1>5

(* The steps of the stream's handler around its tasks.                       *)
LEMMA RelayStep ==
    SpeechInv /\ (Connect \/ Wake \/ Cleanup \/ Reply) => SpeechInv'
<1> SUFFICES ASSUME SpeechInv, Connect \/ Wake \/ Cleanup \/ Reply PROVE SpeechInv'
  OBVIOUS
<1>0. TypeOK /\ "stream" \in Handler
  BY DEF SpeechInv, Handler
<1>1. UNCHANGED <<booked, serviceVars, relayVars, client, frames, notes>>
  BY DEF Connect, Wake, Cleanup, Reply, peerVars
<1>2. PICK phase \in {"relaying", "cleanup", "replying", "closing"} : Go("stream", phase)
  BY DEF Connect, Wake, Cleanup, Reply, Settle
<1>3. /\ at' \in [Handler -> Phase] /\ at'["stream"] = phase
      /\ \A g \in Handler \ {"stream"} : at'[g] = at[g]
  BY <1>0, <1>2, GoForms DEF Phase
<1>4. at["stream"] # "closed"
  BY DEF Connect, Wake, Cleanup, Reply, relaying
<1>5. OneWorker' /\ Booked'
  BY <1>1, <1>3, <1>4 DEF SpeechInv, OneWorker, Booked, serviceVars
<1>6. CASE Connect
  <2>1. /\ at["stream"] = "calling" /\ at'["stream"] = "relaying"
        /\ upload' = "receiving" /\ download' = "reading" /\ dog' = "recording"
        /\ UNCHANGED <<result, peerVars>>
    BY <1>0, <1>6, GoForms DEF Connect, Phase
  <2>2. TypeOK'
    BY <1>0, <1>1, <1>3, <2>1 DEF TypeOK, serviceVars, relayVars, peerVars
  <2>3. TasksOf' /\ EndOf'
    BY <2>1 DEF TasksOf, EndOf, Early, After
  <2>4. TextOf' /\ LeaveOf' /\ StopOf'
    BY <1>1, <2>1 DEF SpeechInv, TextOf, LeaveOf, StopOf, relayVars, peerVars
  <2> QED
    BY <1>5, <2>2, <2>3, <2>4 DEF SpeechInv
<1>7. CASE Wake
  <2>1. PICK verdict \in Judgement : Settle("stream", "cleanup", verdict)
    BY <1>7 DEF Wake
  <2>2. verdict \in Verdict /\ (verdict \in {"completed"} => outcome = "completed")
    BY <1>0, <2>1 DEF Judgement, TypeOK, Verdict
  <2>3. verdict = "cancelled" => client = "gone" \/ "cancelled" \in saw
    <3>1. "gone" \in Ends => client = "gone"
      BY DEF Ends, SpeechInv, LeaveOf, TasksOf
    <3> QED
      BY <2>1, <3>1 DEF Judgement, SpeechInv, LeaveOf
  <2>4. /\ at'["stream"] = "cleanup" /\ result'["stream"] = verdict
        /\ result' \in [Handler -> Verdict]
        /\ UNCHANGED <<taskVars, peerVars>>
    BY <1>0, <1>7, <2>1, <2>2, SettleForms DEF Wake, Phase
  <2>5. TypeOK'
    BY <1>0, <1>1, <1>3, <2>4 DEF TypeOK, serviceVars, taskVars, relayVars, peerVars
  <2>6. TasksOf'
    BY <2>4 DEF SpeechInv, TasksOf, Early, After, taskVars
  <2>7. EndOf'
    BY <1>1, <2>2, <2>3, <2>4 DEF SpeechInv, EndOf, TextOf, relayVars, peerVars
  <2>8. TextOf' /\ LeaveOf' /\ StopOf'
    BY <1>1, <2>4 DEF SpeechInv, TextOf, LeaveOf, StopOf, taskVars, relayVars, peerVars
  <2> QED
    BY <1>5, <2>5, <2>6, <2>7, <2>8 DEF SpeechInv
<1>8. CASE Cleanup
  <2>1. /\ at["stream"] = "cleanup"
        /\ upload' = Stopped(upload) /\ download' = Stopped(download)
        /\ dog' = Stopped(dog) /\ UNCHANGED <<result, peerVars>>
        /\ at'["stream"] = IF result["stream"] = "failed" THEN "replying" ELSE "closing"
    BY <1>0, <1>8, GoForms DEF Cleanup, Phase
  <2>2. /\ upload' \in Ended /\ download' \in Ended /\ dog' \in Ended
        /\ upload' \in {upload, "cancelled"} /\ download' \in {download, "cancelled"}
        /\ dog' \in {dog, "cancelled"}
    BY <2>1 DEF Stopped, Ended
  <2>3. TypeOK'
    BY <1>0, <1>1, <1>3, <2>1, <2>2 DEF TypeOK, serviceVars, relayVars, peerVars
  <2>4. TasksOf'
    BY <2>1, <2>2 DEF SpeechInv, TasksOf, Early
  <2>5. EndOf'
    BY <1>1, <2>1 DEF SpeechInv, EndOf, relayVars, peerVars
  <2>6. TextOf' /\ LeaveOf' /\ StopOf'
    BY <1>1, <2>1, <2>2
    DEF SpeechInv, TextOf, LeaveOf, StopOf, relayVars, peerVars
  <2> QED
    BY <1>5, <2>3, <2>4, <2>5, <2>6 DEF SpeechInv
<1>9. CASE Reply
  <2>1. /\ at["stream"] = "replying" /\ at'["stream"] = "closing"
        /\ UNCHANGED <<result, taskVars>>
        /\ saw' \in {saw, saw \cup {"error"}} /\ (client = "here" => "error" \in saw')
    BY <1>0, <1>9, GoForms DEF Reply, Phase
  <2>2. TypeOK'
    <3>1. saw' \in SUBSET {"final", "cancelled", "error"}
      BY <1>0, <2>1 DEF TypeOK
    <3> QED
      BY <1>0, <1>1, <1>3, <2>1, <3>1 DEF TypeOK, serviceVars, taskVars, relayVars
  <2>3. TasksOf'
    BY <2>1 DEF SpeechInv, TasksOf, Early, After, taskVars
  <2>4. EndOf'
    BY <1>0, <1>1, <2>1 DEF SpeechInv, EndOf, TypeOK, relayVars
  <2>5. TextOf' /\ LeaveOf' /\ StopOf'
    BY <1>1, <2>1 DEF SpeechInv, TextOf, LeaveOf, StopOf, taskVars, relayVars
  <2> QED
    BY <1>5, <2>2, <2>3, <2>4, <2>5 DEF SpeechInv
<1> QED
  BY <1>6, <1>7, <1>8, <1>9

LEMMA FinishStep == ASSUME SpeechInv, NEW h \in Handler, Finish(h) PROVE SpeechInv'
<1>1. /\ at[h] = "closing" /\ at' \in [Handler -> Phase] /\ at'[h] = "closed"
      /\ \A g \in Handler \ {h} : at'[g] = at[g]
  BY GoForms DEF SpeechInv, Finish, Phase
<1>2. booked' = [booked EXCEPT ![h] = @ + 1]
  BY DEF Finish
<1>3. UNCHANGED <<result, serviceVars, taskVars, relayVars, peerVars>>
  BY DEF Finish
<1>4. TypeOK' /\ Booked'
  <2>1. booked[h] = 0 /\ booked \in [Handler -> Nat]
    BY <1>1 DEF SpeechInv, TypeOK, Booked
  <2>2. booked' \in [Handler -> Nat] /\ booked'[h] = 1
        /\ \A g \in Handler \ {h} : booked'[g] = booked[g]
    BY <1>2, <2>1
  <2>3. Booked'
    BY <1>1, <2>2 DEF SpeechInv, Booked
  <2>4. TypeOK'
    BY <1>1, <1>3, <2>2 DEF SpeechInv, TypeOK, serviceVars, taskVars, relayVars, peerVars
  <2> QED
    BY <2>3, <2>4
<1>5. \/ at'["stream"] = at["stream"]
      \/ at["stream"] = "closing" /\ at'["stream"] = "closed"
  BY <1>1 DEF Handler
<1>6. OneWorker' /\ TextOf' /\ LeaveOf' /\ StopOf'
  BY <1>3 DEF SpeechInv, OneWorker, TextOf, LeaveOf, StopOf, serviceVars, taskVars,
             relayVars, peerVars
<1>7. TasksOf' /\ EndOf'
  BY <1>3, <1>5 DEF SpeechInv, TasksOf, EndOf, Early, After, taskVars, relayVars, peerVars
<1> QED
  BY <1>4, <1>6, <1>7 DEF SpeechInv

LEMMA CancelStep == ASSUME SpeechInv, NEW h \in Handler, Cancel(h) PROVE SpeechInv'
<1>0. TypeOK /\ OneWorker
  BY DEF SpeechInv
<1>1. /\ lock' \in Handler \cup {"free"}
      /\ UNCHANGED <<booked, process, alive, spawned, relayVars, peerVars>>
  BY <1>0 DEF Cancel, TypeOK
<1>2. OneWorker' /\ process' \in {"none", "alive", "dead"} /\ alive' \in Nat /\ spawned' \in Nat
  BY <1>0, <1>1 DEF OneWorker, TypeOK
<1>3. CASE /\ at[h] \in {"body", "asking", "probing", "calling"}
           /\ Settle(h, "closing", "interrupted") /\ UNCHANGED taskVars
  BY <1>1, <1>2, <1>3, HandlerFrame DEF Settle, Go, Phase, Verdict, Early
<1>4. CASE at[h] = "replying" /\ Go(h, "aborted") /\ UNCHANGED <<result, taskVars>>
  <2>1. result' = [result EXCEPT ![h] = result[h]] /\ result[h] \in Verdict
    BY <1>0, <1>4 DEF TypeOK
  <2> QED
    BY <1>1, <1>2, <1>4, <2>1, HandlerFrame DEF Go, Phase
<1>5. CASE /\ h = "stream" /\ at[h] \in {"relaying", "cleanup"}
           /\ Settle(h, "closing", "interrupted")
           /\ upload' = Stopped(upload) /\ download' = Stopped(download)
           /\ dog' = Stopped(dog)
  <2>1. /\ at' \in [Handler -> Phase] /\ at'["stream"] = "closing"
        /\ result' \in [Handler -> Verdict] /\ result'["stream"] = "interrupted"
        /\ \A g \in Handler \ {h} : at'[g] = at[g]
    BY <1>0, <1>5, SettleForms DEF Phase, Verdict
  <2>2. /\ upload' \in Ended /\ download' \in Ended /\ dog' \in Ended
        /\ upload' \in {upload, "cancelled"} /\ download' \in {download, "cancelled"}
        /\ dog' \in {dog, "cancelled"}
    BY <1>5 DEF Stopped, Ended
  <2>3. TypeOK'
    BY <1>0, <1>1, <2>1, <2>2 DEF TypeOK, relayVars, peerVars
  <2>4. Booked'
    BY <1>1, <1>5, <2>1 DEF SpeechInv, Booked
  <2>5. TasksOf' /\ EndOf'
    BY <2>1, <2>2 DEF SpeechInv, TasksOf, EndOf, Early
  <2>6. TextOf' /\ LeaveOf' /\ StopOf'
    BY <1>1, <2>2
    DEF SpeechInv, TextOf, LeaveOf, StopOf, relayVars, peerVars
  <2> QED
    BY <1>2, <2>3, <2>4, <2>5, <2>6 DEF SpeechInv
<1> QED
  BY <1>3, <1>4, <1>5 DEF Cancel

(* The worker, the service and the client by themselves.                     *)
LEMMA OutsideStep ==
    SpeechInv /\ (WorkerDies \/ CloseService \/ ClientLeaves) => SpeechInv'
<1> SUFFICES ASSUME SpeechInv, WorkerDies \/ CloseService \/ ClientLeaves PROVE SpeechInv'
  OBVIOUS
<1>1. /\ UNCHANGED <<handlerVars, lock, spawned, taskVars, relayVars, saw, frames, notes>>
      /\ client' \in {client, "gone"}
  BY DEF WorkerDies, CloseService, ClientLeaves, serviceVars, peerVars
<1>2. OneWorker' /\ alive' \in Nat /\ process' \in {"none", "alive", "dead"}
  BY DEF SpeechInv, TypeOK, OneWorker, WorkerDies, CloseService, ClientLeaves, serviceVars
<1>3. TypeOK'
  BY <1>1, <1>2 DEF SpeechInv, TypeOK, handlerVars, taskVars, relayVars
<1>4. Booked' /\ TasksOf' /\ EndOf'
  BY <1>1 DEF SpeechInv, Booked, TasksOf, EndOf, handlerVars, taskVars, relayVars
<1>5. TextOf' /\ LeaveOf' /\ StopOf'
  BY <1>1 DEF SpeechInv, TextOf, LeaveOf, StopOf, taskVars, relayVars
<1> QED
  BY <1>2, <1>3, <1>4, <1>5 DEF SpeechInv

LEMMA StutterStep == SpeechInv /\ UNCHANGED vars => SpeechInv'
BY DEF SpeechInv, TypeOK, OneWorker, Booked, TasksOf, TextOf, LeaveOf, StopOf, EndOf,
       vars, handlerVars, serviceVars, taskVars, relayVars, peerVars

LEMMA SpeechAlways == Spec => []SpeechInv
<1>1. SpeechInv /\ [Next]_vars => SpeechInv'
  BY UploadStep, DownloadStep, WatchdogStep, HandlerStep, CallStep, RelayStep, FinishStep,
     CancelStep, OutsideStep, StutterStep
  DEF Next
<1> QED
  BY SpeechBegins, <1>1, PTL DEF Spec

-----------------------------------------------------------------------------
(* The state of handlers, tasks, worker and client keeps its type.           *)
THEOREM SpeechTypeTheorem == Spec => []TypeOK
<1>1. SpeechInv => TypeOK
  BY DEF SpeechInv
<1> QED
  BY <1>1, SpeechAlways, PTL

(* In every order of the three tasks, the client, the worker and a shutdown, *)
(* a request is recorded once, by the time it is over, no task outlives its  *)
(* session (asr_stream.py, relay_audio), and no two workers run.             *)
THEOREM AccountedTheorem == Spec => []Accounted
<1>1. SpeechInv => Accounted
  BY DEF SpeechInv, Accounted, Booked, TasksOf, After
<1> QED
  BY <1>1, SpeechAlways, PTL

(* What is recorded of a session is what happened to it (asr_stream.py,      *)
(* relay_audio, and the finally block of its handler).                       *)
THEOREM HonestTheorem == Spec => []VerdictHonest
<1>1. SpeechInv => VerdictHonest
  <2> SUFFICES ASSUME SpeechInv PROVE VerdictHonest
    OBVIOUS
  <2>1. booked["stream"] = 1 => at["stream"] = "closed"
    BY DEF SpeechInv, Booked, Handler
  <2> QED
    BY <2>1 DEF SpeechInv, VerdictHonest, EndOf, StopOf
<1> QED
  BY <1>1, SpeechAlways, PTL
=============================================================================
