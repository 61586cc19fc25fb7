------------------------ MODULE GatewayStreamProofs ------------------------
(***************************************************************************)
(* What GatewayStream promises holds for every number of requests, every   *)
(* mix of routes and every capacity of the pool.  The requests meet only   *)
(* in the pool, so the inductive invariant is TypeOK and, for each         *)
(* request, the five facts below.                                          *)
(***************************************************************************)
EXTENDS GatewayStream, TLAPS

Early == {"new", "sending", "erroring", "reading", "collecting", "headers"}
Live == Early \cup {"pulling", "draining", "yielded", "abandoned"}
Holding == Live \ {"new", "sending"}
HeardBad(S) == "incomplete" \in S \/ "failed" \in S \/ "error" \in S

(* What a status s recorded for r may claim.                               *)
Truthful(r, s) ==
  /\ s = "ok" =>
       /\ \/ "completed" \in said[r] \/ "anonymous" \in said[r]
          \/ "incomplete" \in said[r] /\ route[r] \in Chat
       /\ source[r] # "broken"
  /\ s = "cancelled" => gone[r] \/ route[r] = "provider_chat"
  /\ s = "failed" /\ source[r] = "ended" =>
       \/ "completed" \notin said[r]
       \/ HeardBad(said[r])
       \/ outcome[r] = "failed"

(* A record is due to a client that stayed, or received a part.            *)
Owed(r) ==
  /\ ~gone[r] \/ seen[r] # {}
  /\ route[r] = "provider_chat" => ~gone[r] /\ source[r] # "broken"

LeaseOf(r) ==
  /\ r \in inside => upstream[r] = "open" /\ route[r] \in Pooled
  /\ upstream[r] = "open" /\ route[r] \in Pooled /\ pc[r] \in Holding => r \in working
  /\ pc[r] = "over" => \/ upstream[r] = "closed"
                       \/ gone[r] /\ said[r] = {} /\ route[r] # "native"

HistoryOf(r) ==
  /\ seen[r] \subseteq said[r]
  /\ pc[r] \in Early => seen[r] = {} /\ source[r] = "flowing" /\ outcome[r] = "none"
  /\ pc[r] \in Early \ {"collecting"} => said[r] = {}
  /\ cached[r] <=> "completed" \in said[r] /\ route[r] # "provider_chat"
  /\ pc[r] = "abandoned" => gone[r]
  /\ pc[r] = "collecting" => route[r] = "native_chat"

FlagsOf(r) ==
  /\ flags[r].completed =>
       \/ "completed" \in said[r]
       \/ "anonymous" \in said[r] /\ route[r] = "provider"
  /\ flags[r].cancelled => gone[r] \/ route[r] \in Chat
  /\ route[r] = "provider_chat" => ~flags[r].failed
  /\ pc[r] \in Live =>
       /\ "completed" \in said[r] => flags[r].completed \/ route[r] = "provider_chat"
       /\ flags[r].failed =>
            \/ HeardBad(said[r])
            \/ source[r] = "ended" /\ "completed" \notin said[r]
       /\ source[r] # "broken"
       /\ source[r] = "ended" => route[r] \in Chat /\ pc[r] # "pulling"
       /\ source[r] = "ended" /\ route[r] = "native_chat" =>
            flags[r].failed \/ flags[r].completed

OutcomeOf(r) ==
  /\ outcome[r] # "none" => route[r] \in Chat
  /\ outcome[r] = "completed" => "completed" \in said[r] \/ "anonymous" \in said[r]
  /\ outcome[r] = "incomplete" => "incomplete" \in said[r]
  /\ pc[r] = "pulling" => outcome[r] = "none"
  /\ pc[r] \in Live /\ route[r] \in Chat /\ outcome[r] = "none" =>
       "completed" \notin said[r]

RecordOf(r) ==
  /\ pc[r] \in Live => recorded[r] = <<>> /\ due[r] = "none"
  /\ \/ recorded[r] = <<>>
     \/ \E s \in Status : /\ recorded[r] = <<s>>
                          /\ Truthful(r, s)
                          /\ pc[r] # "over" => due[r] = "none"
  /\ due[r] # "none" => Truthful(r, due[r])
  /\ pc[r] \in {"closing", "over"} /\ Owed(r) =>
       recorded[r] # <<>> \/ (pc[r] = "closing" /\ due[r] # "none")

OwnInv(r) == LeaseOf(r) /\ HistoryOf(r) /\ FlagsOf(r) /\ OutcomeOf(r) /\ RecordOf(r)

Inv == TypeOK /\ \A r \in Request : OwnInv(r)

(* A step of another request leaves q as it is.                            *)
Same(q) ==
  /\ q \in inside' <=> q \in inside
  /\ q \in working' <=> q \in working
  /\ pc'[q] = pc[q] /\ route'[q] = route[q] /\ upstream'[q] = upstream[q]
  /\ source'[q] = source[q] /\ flags'[q] = flags[q] /\ outcome'[q] = outcome[q]
  /\ due'[q] = due[q] /\ recorded'[q] = recorded[q] /\ cached'[q] = cached[q]
  /\ said'[q] = said[q] /\ seen'[q] = seen[q] /\ gone'[q] = gone[q]

LEMMA Frame ==
  ASSUME NEW q \in Request, OwnInv(q), Same(q)
  PROVE  OwnInv(q)'
BY DEF OwnInv, Same, LeaseOf, HistoryOf, FlagsOf, OutcomeOf, RecordOf, Owed,
   Truthful

(* It is enough to look at the request that takes the step.                *)
LEMMA OneRequest ==
  ASSUME Inv, NEW r \in Request, TypeOK', \A q \in Request \ {r} : Same(q), OwnInv(r)'
  PROVE  Inv'
<1>1. \A q \in Request \ {r} : OwnInv(q)'
  BY Frame DEF Inv
<1>2. QED
  BY <1>1 DEF Inv

LEMMA Once == ASSUME NEW s PROVE Append(<<>>, s) = <<s>> /\ <<s>> # <<>>
OBVIOUS

(* What Hear does, part by part.                                           *)
HearEff(r, e, last) ==
  /\ flags' \in [Request -> Flags]
  /\ said' \in [Request -> SUBSET Event]
  /\ cached' \in [Request -> BOOLEAN]
  /\ outcome' \in [Request -> {"none", "completed", "incomplete", "failed"}]
  /\ \A q \in Request \ {r} :
       /\ flags'[q] = flags[q] /\ said'[q] = said[q]
       /\ cached'[q] = cached[q] /\ outcome'[q] = outcome[q]
  /\ said'[r] = said[r] \cup {e}
  /\ cached'[r] <=> cached[r] \/ (e = "completed" /\ route[r] # "provider_chat")
  /\ flags'[r].cancelled = flags[r].cancelled
  /\ flags'[r].completed <=>
       \/ flags[r].completed
       \/ route[r] # "provider_chat" /\ e = "completed"
       \/ route[r] = "provider" /\ e = "anonymous"
  /\ flags'[r].failed <=>
       \/ flags[r].failed
       \/ route[r] # "provider_chat" /\ e \in {"failed", "error", "incomplete"}
       \/ last /\ route[r] # "provider_chat" /\ ~flags'[r].completed
  /\ IF route[r] \in Chat THEN outcome'[r] \in Translated(e)
     ELSE outcome'[r] = outcome[r]

LEMMA FlagsAfter ==
  ASSUME NEW k, NEW e \in Event, NEW f \in Flags
  PROVE  /\ Observed(k, e, f) \in Flags /\ Ended(k, f) \in Flags
         /\ Observed(k, e, f).cancelled = f.cancelled
         /\ Ended(k, f).cancelled = f.cancelled
         /\ Observed(k, e, f).completed <=>
              \/ f.completed
              \/ k # "provider_chat" /\ e = "completed"
              \/ k = "provider" /\ e = "anonymous"
         /\ Ended(k, f).completed = f.completed
         /\ Observed(k, e, f).failed <=>
              \/ f.failed
              \/ k # "provider_chat" /\ e \in {"failed", "error", "incomplete"}
         /\ Ended(k, f).failed <=> f.failed \/ (k # "provider_chat" /\ ~f.completed)
BY DEF Flags, Observed, Ended

LEMMA HearEffect ==
  ASSUME TypeOK, NEW r \in Request, NEW e \in Event, NEW last \in BOOLEAN,
         Hear(r, e, last)
  PROVE  HearEff(r, e, last)
<1> DEFINE g == Observed(route[r], e, flags[r])
           h == Ended(route[r], g)
<1>1. flags[r] \in Flags /\ flags \in [Request -> Flags]
  BY DEF TypeOK
<1>2. /\ g \in Flags
      /\ g.cancelled = flags[r].cancelled
      /\ g.completed <=>
           \/ flags[r].completed
           \/ route[r] # "provider_chat" /\ e = "completed"
           \/ route[r] = "provider" /\ e = "anonymous"
      /\ g.failed <=>
           \/ flags[r].failed
           \/ route[r] # "provider_chat" /\ e \in {"failed", "error", "incomplete"}
  BY <1>1, FlagsAfter
<1>3. /\ h \in Flags
      /\ h.cancelled = g.cancelled
      /\ h.completed = g.completed
      /\ h.failed <=> g.failed \/ (route[r] # "provider_chat" /\ ~g.completed)
  BY <1>2, FlagsAfter
<1>4. flags' = [flags EXCEPT ![r] = IF last THEN h ELSE g]
  BY DEF Hear
<1> HIDE DEF g, h
<1>5. /\ flags' \in [Request -> Flags]
      /\ \A q \in Request \ {r} : flags'[q] = flags[q]
      /\ flags'[r] = IF last THEN h ELSE g
  BY <1>1, <1>2, <1>3, <1>4
<1>6. Translated(e) \in SUBSET {"none", "completed", "incomplete", "failed"}
  <2>1. e \in {"delta", "completed", "anonymous", "incomplete", "failed", "error"}
    BY DEF Event
  <2>2. QED
    BY <2>1 DEF Translated
<1>7. /\ outcome' \in [Request -> {"none", "completed", "incomplete", "failed"}]
      /\ \A q \in Request \ {r} : outcome'[q] = outcome[q]
      /\ IF route[r] \in Chat THEN outcome'[r] \in Translated(e)
         ELSE outcome'[r] = outcome[r]
  <2>1. outcome \in [Request -> {"none", "completed", "incomplete", "failed"}]
    BY DEF TypeOK
  <2>2. CASE route[r] \in Chat
    <3>1. PICK t \in Translated(e) : outcome' = [outcome EXCEPT ![r] = t]
      BY <2>2 DEF Hear
    <3>2. t \in {"none", "completed", "incomplete", "failed"}
      BY <1>6
    <3>3. QED
      BY <2>1, <2>2, <3>1, <3>2
  <2>3. CASE route[r] \notin Chat
    <3>1. outcome' = outcome
      BY <2>3 DEF Hear
    <3>2. QED
      BY <2>1, <2>3, <3>1
  <2>4. QED
    BY <2>2, <2>3
<1>8. /\ said' \in [Request -> SUBSET Event]
      /\ cached' \in [Request -> BOOLEAN]
      /\ \A q \in Request \ {r} : said'[q] = said[q] /\ cached'[q] = cached[q]
      /\ said'[r] = said[r] \cup {e}
      /\ cached'[r] <=> cached[r] \/ (e = "completed" /\ route[r] # "provider_chat")
  BY ZenonT(60) DEF TypeOK, Hear
<1>9. QED
  BY <1>2, <1>3, <1>5, <1>7, <1>8 DEF HearEff

(* What Finish does when nothing is recorded yet.                          *)
FinishEff(r, f, t, normal) ==
  /\ pc' = [pc EXCEPT ![r] = "closing"]
  /\ recorded' \in [Request -> Seq(Status)]
  /\ due' \in [Request -> Status \cup {"none"}]
  /\ \A q \in Request \ {r} : recorded'[q] = recorded[q] /\ due'[q] = due[q]
  /\ route[r] = "native" => recorded'[r] = <<NativeStatus(f)>>
  /\ route[r] = "provider" => recorded'[r] = <<ProviderStatus(f)>>
  /\ route[r] = "native_chat" =>
       recorded'[r] = <<>> /\ due'[r] = ChatStatus(t, f.failed)
  /\ route[r] = "provider_chat" =>
       recorded'[r] = IF normal THEN <<ChatStatus(t, FALSE)>> ELSE <<>>
  /\ route[r] # "native_chat" => due'[r] = "none"

LEMMA FinishEffect ==
  ASSUME TypeOK, NEW r \in Request, NEW f, NEW t, NEW normal,
         recorded[r] = <<>>, Finish(r, f, t, normal)
  PROVE  FinishEff(r, f, t, normal)
<1> DEFINE NS == NativeStatus(f)
           PS == ProviderStatus(f)
           CS == ChatStatus(t, f.failed)
           CN == ChatStatus(t, FALSE)
<1>1. NS \in Status /\ PS \in Status /\ CS \in Status /\ CN \in Status
  BY DEF NativeStatus, ProviderStatus, ChatStatus, Status
<1>2. route[r] \in AllRoutes
  BY RequestAssumption DEF TypeOK
<1>3. /\ Append(recorded[r], NS) = <<NS>> /\ Append(recorded[r], PS) = <<PS>>
      /\ Append(recorded[r], CN) = <<CN>>
  BY Once
<1> HIDE DEF NS, PS, CS, CN
<1>4. /\ <<NS>> \in Seq(Status) /\ <<PS>> \in Seq(Status) /\ <<CN>> \in Seq(Status)
      /\ <<>> \in Seq(Status)
  BY <1>1
<1>5. /\ recorded' = [recorded EXCEPT ![r] =
           CASE route[r] = "native" -> <<NS>>
             [] route[r] = "provider" -> <<PS>>
             [] route[r] = "native_chat" -> <<>>
             [] route[r] = "provider_chat" -> IF normal THEN <<CN>> ELSE <<>>]
      /\ due' = [due EXCEPT ![r] = IF route[r] = "native_chat" THEN CS ELSE "none"]
      /\ pc' = [pc EXCEPT ![r] = "closing"]
  BY <1>3 DEF Finish, Goto, NS, PS, CS, CN
<1>6. recorded' \in [Request -> Seq(Status)] /\ due' \in [Request -> Status \cup {"none"}]
  BY <1>1, <1>2, <1>4, <1>5 DEF TypeOK, AllRoutes
<1>7. QED
  <2>1. recorded \in [Request -> Seq(Status)] /\ due \in [Request -> Status \cup {"none"}]
    BY DEF TypeOK
  <2>2. \A q \in Request \ {r} : recorded'[q] = recorded[q] /\ due'[q] = due[q]
    BY <1>5, <2>1
  <2>3. /\ route[r] = "native" => recorded'[r] = <<NS>>
        /\ route[r] = "provider" => recorded'[r] = <<PS>>
        /\ route[r] = "native_chat" => recorded'[r] = <<>>
        /\ route[r] = "provider_chat" =>
             recorded'[r] = IF normal THEN <<CN>> ELSE <<>>
    BY <1>5, <2>1
  <2>4. due'[r] = IF route[r] = "native_chat" THEN CS ELSE "none"
    BY <1>5, <2>1
  <2>5. QED
    BY <1>5, <1>6, <2>2, <2>3, <2>4 DEF NS, PS, CS, CN, FinishEff

(* What is recorded or due after Finish is as true as the status is.       *)
LEMMA FinishRecords ==
  ASSUME TypeOK, NEW r \in Request, NEW f, NEW t, NEW normal \in BOOLEAN,
         FinishEff(r, f, t, normal), UNCHANGED route,
         \A s : /\ route[r] = "native" => s = NativeStatus(f)
                /\ route[r] = "provider" => s = ProviderStatus(f)
                /\ route[r] = "native_chat" => s = ChatStatus(t, f.failed)
                /\ route[r] = "provider_chat" =>
                     normal /\ s = ChatStatus(t, FALSE)
                => Truthful(r, s)',
         route[r] = "provider_chat" /\ ~normal => ~Owed(r)'
  PROVE  RecordOf(r)'
<1>1. /\ NativeStatus(f) \in Status \ {"none"} /\ ProviderStatus(f) \in Status \ {"none"}
      /\ ChatStatus(t, f.failed) \in Status \ {"none"} /\ ChatStatus(t, FALSE) \in Status
  BY DEF NativeStatus, ProviderStatus, ChatStatus, Status
<1>2. pc'[r] = "closing"
  BY DEF FinishEff, TypeOK
<1>3. route[r] \in AllRoutes /\ route' = route
  BY RequestAssumption DEF TypeOK
<1>4. CASE route[r] = "native"
  <2>1. recorded'[r] = <<NativeStatus(f)>> /\ due'[r] = "none"
    BY <1>4 DEF FinishEff
  <2>2. QED
    BY <1>1, <1>2, <1>4, <2>1, Once DEF RecordOf, Live, Early
<1>5. CASE route[r] = "provider"
  <2>1. recorded'[r] = <<ProviderStatus(f)>> /\ due'[r] = "none"
    BY <1>5 DEF FinishEff
  <2>2. QED
    BY <1>1, <1>2, <1>5, <2>1, Once DEF RecordOf, Live, Early
<1>6. CASE route[r] = "native_chat"
  <2>1. recorded'[r] = <<>> /\ due'[r] = ChatStatus(t, f.failed)
    BY <1>6 DEF FinishEff
  <2>2. QED
    BY <1>1, <1>2, <1>6, <2>1 DEF RecordOf, Live, Early
<1>7. CASE route[r] = "provider_chat" /\ normal
  <2>1. recorded'[r] = <<ChatStatus(t, FALSE)>> /\ due'[r] = "none"
    BY <1>7 DEF FinishEff
  <2>2. QED
    BY <1>1, <1>2, <1>7, <2>1, Once DEF RecordOf, Live, Early
<1>8. CASE route[r] = "provider_chat" /\ ~normal
  <2>1. recorded'[r] = <<>> /\ due'[r] = "none"
    BY <1>8 DEF FinishEff
  <2>2. QED
    BY <1>2, <1>8, <2>1 DEF RecordOf, Live, Early
<1>9. QED
  BY <1>3, <1>4, <1>5, <1>6, <1>7, <1>8 DEF AllRoutes

(* Changing one flag leaves the others alone.                              *)
LEMMA FlagSet ==
  ASSUME NEW r \in Request, NEW b \in BOOLEAN, flags \in [Request -> Flags]
  PROVE  /\ flags' = [flags EXCEPT ![r].cancelled = b] =>
              /\ flags' \in [Request -> Flags]
              /\ \A q \in Request \ {r} : flags'[q] = flags[q]
              /\ flags'[r].completed = flags[r].completed
              /\ flags'[r].failed = flags[r].failed
              /\ flags'[r].cancelled = b
         /\ flags' = [flags EXCEPT ![r].failed = b] =>
              /\ flags' \in [Request -> Flags]
              /\ \A q \in Request \ {r} : flags'[q] = flags[q]
              /\ flags'[r].completed = flags[r].completed
              /\ flags'[r].failed = b
              /\ flags'[r].cancelled = flags[r].cancelled
<1>1. flags[r] \in Flags
  OBVIOUS
<1>2. [flags[r] EXCEPT !.cancelled = b] \in Flags /\ [flags[r] EXCEPT !.failed = b] \in Flags
  BY <1>1 DEF Flags
<1>3. ASSUME flags' = [flags EXCEPT ![r].cancelled = b]
      PROVE  /\ flags' \in [Request -> Flags]
             /\ \A q \in Request \ {r} : flags'[q] = flags[q]
             /\ flags'[r] = [flags[r] EXCEPT !.cancelled = b]
  BY <1>2, <1>3
<1>4. ASSUME flags' = [flags EXCEPT ![r].failed = b]
      PROVE  /\ flags' \in [Request -> Flags]
             /\ \A q \in Request \ {r} : flags'[q] = flags[q]
             /\ flags'[r] = [flags[r] EXCEPT !.failed = b]
  BY <1>2, <1>4
<1>5. QED
  BY <1>1, <1>3, <1>4 DEF Flags

LEMMA StartKeeps ==
  ASSUME Inv, NEW r \in Request, Start(r)
  PROVE  Inv'
<1>1. OwnInv(r) /\ TypeOK
  BY DEF Inv
<1>2. TypeOK'
  BY <1>1 DEF TypeOK, Start, Goto, streamVars, poolVars, Pool!Enter, Stage
<1>3. \A q \in Request \ {r} : Same(q)
  BY <1>1 DEF Same, Start, Goto, streamVars, poolVars, Pool!Enter
<1>4. LeaseOf(r)'
  BY <1>1 DEF TypeOK, OwnInv, LeaseOf, Holding, Start, Goto, poolVars
<1>5. HistoryOf(r)'
  BY <1>1 DEF OwnInv, HistoryOf, Early, Start, Goto, streamVars
<1>6. FlagsOf(r)'
  BY <1>1 DEF OwnInv, FlagsOf, Live, Early, Start, Goto, streamVars
<1>7. OutcomeOf(r)'
  BY <1>1 DEF OwnInv, OutcomeOf, Live, Early, Start, Goto, streamVars
<1>8. RecordOf(r)'
  BY <1>1 DEF OwnInv, RecordOf, Live, Early, Start, Goto
<1>9. QED
  BY <1>2, <1>3, <1>4, <1>5, <1>6, <1>7, <1>8, OneRequest DEF OwnInv

LEMMA StartBusyKeeps ==
  ASSUME Inv, NEW r \in Request, StartBusy(r)
  PROVE  Inv'
<1>1. OwnInv(r) /\ TypeOK
  BY DEF Inv
<1>2. TypeOK'
  BY <1>1 DEF TypeOK, StartBusy, End, streamVars, poolVars, Goto, Status,
      Stage
<1>3. \A q \in Request \ {r} : Same(q)
  BY <1>1 DEF Same, StartBusy, End, streamVars, poolVars, Goto
<1>4. LeaseOf(r)'
  BY <1>1 DEF OwnInv, LeaseOf, Live, Early, Holding, StartBusy, End, poolVars,
      Goto
<1>5. HistoryOf(r)'
  BY <1>1 DEF OwnInv, HistoryOf, Early, StartBusy, End, streamVars, Goto
<1>6. FlagsOf(r)'
  BY <1>1 DEF OwnInv, HistoryOf, FlagsOf, Live, Early, StartBusy, streamVars
<1>7. OutcomeOf(r)'
  BY <1>1 DEF OwnInv, HistoryOf, OutcomeOf, Early, StartBusy, streamVars
<1>8. RecordOf(r)'
  BY <1>1 DEF TypeOK, OwnInv, RecordOf, Truthful, Live, Early, StartBusy, End,
      Goto
<1>9. QED
  BY <1>2, <1>3, <1>4, <1>5, <1>6, <1>7, <1>8, OneRequest DEF OwnInv

LEMMA AdmittedKeeps ==
  ASSUME Inv, NEW r \in Request, Admitted(r)
  PROVE  Inv'
<1>1. OwnInv(r) /\ TypeOK
  BY DEF Inv
<1>2. TypeOK'
  BY <1>1 DEF TypeOK, Admitted, streamVars, Pool!Work
<1>3. \A q \in Request \ {r} : Same(q)
  BY <1>1 DEF TypeOK, Same, Admitted, streamVars, Pool!Work
<1>4. LeaseOf(r)'
  BY <1>1 DEF OwnInv, LeaseOf, Admitted, Pool!Work
<1>5. HistoryOf(r)'
  BY <1>1 DEF OwnInv, HistoryOf, Admitted, streamVars
<1>6. FlagsOf(r)'
  BY <1>1 DEF OwnInv, FlagsOf, Admitted, streamVars
<1>7. OutcomeOf(r)'
  BY <1>1 DEF OwnInv, OutcomeOf, Admitted, streamVars
<1>8. RecordOf(r)'
  BY <1>1 DEF OwnInv, RecordOf, Live, Early, Admitted
<1>9. QED
  BY <1>2, <1>3, <1>4, <1>5, <1>6, <1>7, <1>8, OneRequest DEF OwnInv

LEMMA SendBusyKeeps ==
  ASSUME Inv, NEW r \in Request, SendBusy(r)
  PROVE  Inv'
<1>1. OwnInv(r) /\ TypeOK
  BY DEF Inv
<1>2. TypeOK'
  BY <1>1 DEF TypeOK, SendBusy, End, streamVars, poolVars, Goto, Status, Stage
<1>3. \A q \in Request \ {r} : Same(q)
  BY <1>1 DEF Same, SendBusy, End, streamVars, poolVars, Goto
<1>4. LeaseOf(r)'
  BY <1>1 DEF OwnInv, LeaseOf, Live, Early, Holding, SendBusy, End, Goto
<1>5. HistoryOf(r)'
  BY <1>1 DEF OwnInv, HistoryOf, Early, SendBusy, End, streamVars, Goto
<1>6. FlagsOf(r)'
  BY <1>1 DEF OwnInv, HistoryOf, FlagsOf, Live, Early, SendBusy, streamVars
<1>7. OutcomeOf(r)'
  BY <1>1 DEF OwnInv, HistoryOf, OutcomeOf, Early, SendBusy, streamVars
<1>8. RecordOf(r)'
  BY <1>1 DEF TypeOK, OwnInv, RecordOf, Truthful, Live, Early, SendBusy, End,
      Goto
<1>9. QED
  BY <1>2, <1>3, <1>4, <1>5, <1>6, <1>7, <1>8, OneRequest DEF OwnInv

LEMMA SendFailsKeeps ==
  ASSUME Inv, NEW r \in Request, SendFails(r)
  PROVE  Inv'
<1>1. OwnInv(r) /\ TypeOK
  BY DEF Inv
<1>2. TypeOK'
  BY <1>1 DEF TypeOK, SendFails, End, streamVars, poolVars, Goto, Status,
      Stage
<1>3. \A q \in Request \ {r} : Same(q)
  BY <1>1 DEF Same, SendFails, End, streamVars, poolVars, Goto
<1>4. LeaseOf(r)'
  BY <1>1 DEF OwnInv, LeaseOf, Live, Early, Holding, SendFails, End, poolVars,
      Goto
<1>5. HistoryOf(r)'
  BY <1>1 DEF OwnInv, HistoryOf, Early, SendFails, End, streamVars, Goto
<1>6. FlagsOf(r)'
  BY <1>1 DEF OwnInv, HistoryOf, FlagsOf, Live, Early, SendFails, streamVars
<1>7. OutcomeOf(r)'
  BY <1>1 DEF OwnInv, HistoryOf, OutcomeOf, Early, SendFails, streamVars
<1>8. RecordOf(r)'
  BY <1>1 DEF TypeOK, OwnInv, HistoryOf, RecordOf, Truthful, Live, Early,
      SendFails, End, streamVars, Goto
<1>9. QED
  BY <1>2, <1>3, <1>4, <1>5, <1>6, <1>7, <1>8, OneRequest DEF OwnInv

LEMMA SendReturnsKeeps ==
  ASSUME Inv, NEW r \in Request, SendReturns(r)
  PROVE  Inv'
<1>1. OwnInv(r) /\ TypeOK
  BY DEF Inv
<1>2. TypeOK'
  BY <1>1 DEF TypeOK, SendReturns, Goto, streamVars, poolVars, Stage
<1>3. \A q \in Request \ {r} : Same(q)
  BY <1>1 DEF TypeOK, Same, SendReturns, Goto, streamVars, poolVars
<1>4. LeaseOf(r)'
  BY <1>1 DEF OwnInv, LeaseOf, SendReturns, Goto, poolVars
<1>5. HistoryOf(r)'
  BY <1>1 DEF OwnInv, HistoryOf, Early, SendReturns, Goto, streamVars
<1>6. FlagsOf(r)'
  BY <1>1 DEF OwnInv, FlagsOf, Live, Early, SendReturns, Goto, streamVars
<1>7. OutcomeOf(r)'
  BY <1>1 DEF OwnInv, OutcomeOf, Live, Early, SendReturns, Goto, streamVars
<1>8. RecordOf(r)'
  BY <1>1 DEF OwnInv, RecordOf, Live, Early, SendReturns, Goto
<1>9. QED
  BY <1>2, <1>3, <1>4, <1>5, <1>6, <1>7, <1>8, OneRequest DEF OwnInv

LEMMA ErrorReadKeeps ==
  ASSUME Inv, NEW r \in Request, ErrorRead(r)
  PROVE  Inv'
<1>1. OwnInv(r) /\ TypeOK
  BY DEF Inv
<1>2. TypeOK'
  BY <1>1 DEF TypeOK, ErrorRead, End, streamVars, poolVars, Goto, Status,
      Stage
<1>3. \A q \in Request \ {r} : Same(q)
  BY <1>1 DEF Same, ErrorRead, End, streamVars, poolVars, Goto
<1>4. LeaseOf(r)'
  BY <1>1 DEF OwnInv, LeaseOf, Live, Early, Holding, ErrorRead, End, poolVars,
      Goto
<1>5. HistoryOf(r)'
  BY <1>1 DEF OwnInv, HistoryOf, Early, ErrorRead, End, streamVars, Goto
<1>6. FlagsOf(r)'
  BY <1>1 DEF OwnInv, HistoryOf, FlagsOf, Live, Early, ErrorRead, streamVars
<1>7. OutcomeOf(r)'
  BY <1>1 DEF OwnInv, HistoryOf, OutcomeOf, Early, ErrorRead, streamVars
<1>8. RecordOf(r)'
  BY <1>1 DEF TypeOK, OwnInv, HistoryOf, RecordOf, Truthful, Live, Early,
      ErrorRead, End, streamVars, Goto
<1>9. QED
  BY <1>2, <1>3, <1>4, <1>5, <1>6, <1>7, <1>8, OneRequest DEF OwnInv

LEMMA BodyReadKeeps ==
  ASSUME Inv, NEW r \in Request, BodyRead(r)
  PROVE  Inv'
<1>1. OwnInv(r) /\ TypeOK
  BY DEF Inv
<1>2. TypeOK'
  <2>1. said' \in [Request -> SUBSET Event] /\ cached' \in [Request -> BOOLEAN]
    <3>1. CASE UNCHANGED <<said, cached>>
      BY <1>1, <3>1 DEF TypeOK
    <3>2. ASSUME NEW e \in {"completed", "anonymous"},
                 said' = [said EXCEPT ![r] = {e}],
                 cached' = [cached EXCEPT ![r] =
                              e = "completed" /\ route[r] # "provider_chat"]
          PROVE  said' \in [Request -> SUBSET Event] /\ cached' \in [Request -> BOOLEAN]
      <4>1. {e} \in SUBSET Event
        BY DEF Event
      <4>2. QED
        BY <1>1, <3>2, <4>1 DEF TypeOK
    <3>3. QED
      BY <3>1, <3>2 DEF BodyRead
  <2>2. QED
    BY <1>1, <2>1, ZenonT(60) DEF TypeOK, BodyRead, End, poolVars, Goto, Status, Stage
<1>3. \A q \in Request \ {r} : Same(q)
  BY <1>1 DEF TypeOK, Same, BodyRead, End, poolVars, Goto
<1>4. LeaseOf(r)'
  BY <1>1 DEF TypeOK, OwnInv, LeaseOf, Live, Early, Holding, BodyRead, End,
      poolVars, Goto
<1>5. HistoryOf(r)'
  <2>1. /\ pc[r] = "reading" /\ pc'[r] = "closing"
        /\ seen'[r] = {} /\ route'[r] = route[r]
    BY <1>1 DEF TypeOK, OwnInv, HistoryOf, Early, BodyRead, End, Goto
  <2>2. CASE UNCHANGED <<said, cached>>
    BY <1>1, <2>1, <2>2 DEF OwnInv, HistoryOf, Early
  <2>3. ASSUME NEW e \in {"completed", "anonymous"},
               said' = [said EXCEPT ![r] = {e}],
               cached' = [cached EXCEPT ![r] =
                            e = "completed" /\ route[r] # "provider_chat"]
        PROVE  HistoryOf(r)'
    <3>1. said'[r] = {e} /\ (cached'[r] <=> e = "completed" /\ route[r] # "provider_chat")
      BY <1>1, <2>3 DEF TypeOK
    <3>2. QED
      BY <2>1, <3>1 DEF HistoryOf, Early
  <2>4. QED
    BY <2>2, <2>3 DEF BodyRead
<1>6. FlagsOf(r)'
  BY <1>1 DEF TypeOK, OwnInv, HistoryOf, FlagsOf, Live, Early, BodyRead, End,
      Goto
<1>7. OutcomeOf(r)'
  BY <1>1 DEF TypeOK, OwnInv, HistoryOf, OutcomeOf, Live, Early, BodyRead,
      End, Goto
<1>8. RecordOf(r)'
  <2>1. /\ pc[r] = "reading" /\ pc'[r] = "closing" /\ source'[r] = "flowing"
        /\ recorded[r] = <<>> /\ recorded'[r] = <<>>
    BY <1>1 DEF TypeOK, OwnInv, HistoryOf, RecordOf, Live, Early, BodyRead,
        End, Goto
  <2>2. CASE due'[r] = "failed"
    BY <2>1, <2>2 DEF RecordOf, Live, Early, Truthful
  <2>3. ASSUME NEW e \in {"completed", "anonymous"},
               said' = [said EXCEPT ![r] = {e}], due'[r] = "ok"
        PROVE  RecordOf(r)'
    <3>1. said'[r] = {e}
      BY <1>1, <2>3 DEF TypeOK
    <3>2. Truthful(r, "ok")'
      BY <2>1, <3>1 DEF Truthful
    <3>3. QED
      BY <2>1, <2>3, <3>2 DEF RecordOf, Live, Early
  <2>4. QED
    BY <1>1, <2>2, <2>3 DEF TypeOK, BodyRead, End
<1>9. QED
  BY <1>2, <1>3, <1>4, <1>5, <1>6, <1>7, <1>8, OneRequest DEF OwnInv

LEMMA CollectEndsKeeps ==
  ASSUME Inv, NEW r \in Request, CollectEnds(r)
  PROVE  Inv'
<1>1. OwnInv(r) /\ TypeOK
  BY DEF Inv
<1>2. TypeOK'
  BY <1>1 DEF TypeOK, CollectEnds, End, poolVars, Goto, Status, Stage
<1>3. \A q \in Request \ {r} : Same(q)
  BY <1>1 DEF TypeOK, Same, CollectEnds, End, poolVars, Goto
<1>4. LeaseOf(r)'
  BY <1>1 DEF OwnInv, LeaseOf, Live, Early, Holding, CollectEnds, End,
      poolVars, Goto
<1>5. HistoryOf(r)'
  BY <1>1 DEF TypeOK, OwnInv, HistoryOf, Early, CollectEnds, End, Goto
<1>6. FlagsOf(r)'
  BY <1>1 DEF TypeOK, OwnInv, FlagsOf, Live, Early, CollectEnds, End, Goto
<1>7. OutcomeOf(r)'
  BY <1>1 DEF OwnInv, HistoryOf, OutcomeOf, Live, Early, CollectEnds
<1>8. RecordOf(r)'
  BY <1>1 DEF TypeOK, OwnInv, HistoryOf, OutcomeOf, RecordOf, Truthful, Live,
      Early, CollectEnds, End, Goto, Chat
<1>9. QED
  BY <1>2, <1>3, <1>4, <1>5, <1>6, <1>7, <1>8, OneRequest DEF OwnInv

LEMMA HandlerCancelledKeeps ==
  ASSUME Inv, NEW r \in Request, HandlerCancelled(r)
  PROVE  Inv'
<1>1. OwnInv(r) /\ TypeOK
  BY DEF Inv
<1>2. TypeOK'
  BY <1>1 DEF TypeOK, HandlerCancelled, End, streamVars, poolVars, Goto, Stage
<1>3. \A q \in Request \ {r} : Same(q)
  BY <1>1 DEF Same, HandlerCancelled, End, streamVars, poolVars, Goto
<1>4. LeaseOf(r)'
  BY <1>1 DEF OwnInv, LeaseOf, Live, Early, Holding, HandlerCancelled, End,
      poolVars, Goto
<1>5. HistoryOf(r)'
  BY <1>1 DEF OwnInv, HistoryOf, Early, HandlerCancelled, End, streamVars,
      Goto
<1>6. FlagsOf(r)'
  BY <1>1 DEF OwnInv, HistoryOf, FlagsOf, Live, Early, HandlerCancelled,
      streamVars
<1>7. OutcomeOf(r)'
  BY <1>1 DEF OwnInv, HistoryOf, OutcomeOf, Live, Early, HandlerCancelled,
      streamVars
<1>8. RecordOf(r)'
  BY <1>1 DEF TypeOK, OwnInv, HistoryOf, RecordOf, Owed, Live, Early,
      HandlerCancelled, End
<1>9. QED
  BY <1>2, <1>3, <1>4, <1>5, <1>6, <1>7, <1>8, OneRequest DEF OwnInv

LEMMA BeginKeeps ==
  ASSUME Inv, NEW r \in Request, Begin(r)
  PROVE  Inv'
<1>1. OwnInv(r) /\ TypeOK
  BY DEF Inv
<1>2. TypeOK'
  BY <1>1 DEF TypeOK, Begin, Goto, streamVars, poolVars, Stage
<1>3. \A q \in Request \ {r} : Same(q)
  BY <1>1 DEF TypeOK, Same, Begin, Goto, streamVars, poolVars
<1>4. LeaseOf(r)'
  BY <1>1 DEF OwnInv, LeaseOf, Live, Early, Holding, Begin, Goto, poolVars
<1>5. HistoryOf(r)'
  BY <1>1 DEF OwnInv, HistoryOf, Early, Begin, Goto, streamVars
<1>6. FlagsOf(r)'
  BY <1>1 DEF OwnInv, HistoryOf, FlagsOf, Live, Early, Begin, streamVars
<1>7. OutcomeOf(r)'
  BY <1>1 DEF OwnInv, HistoryOf, OutcomeOf, Early, Begin, streamVars
<1>8. RecordOf(r)'
  BY <1>1 DEF OwnInv, RecordOf, Live, Early, Begin, Goto
<1>9. QED
  BY <1>2, <1>3, <1>4, <1>5, <1>6, <1>7, <1>8, OneRequest DEF OwnInv

LEMMA LostBeforeBeginKeeps ==
  ASSUME Inv, NEW r \in Request, LostBeforeBegin(r)
  PROVE  Inv'
<1>1. OwnInv(r) /\ TypeOK
  BY DEF Inv
<1>2. TypeOK'
  BY <1>1 DEF TypeOK, LostBeforeBegin, Goto, streamVars, poolVars, Stage
<1>3. \A q \in Request \ {r} : Same(q)
  BY <1>1 DEF TypeOK, Same, LostBeforeBegin, Goto, streamVars, poolVars
<1>4. LeaseOf(r)'
  BY <1>1 DEF TypeOK, OwnInv, LeaseOf, HistoryOf, Live, Early, Holding,
      LostBeforeBegin, Goto, streamVars, poolVars
<1>5. HistoryOf(r)'
  BY <1>1 DEF OwnInv, HistoryOf, Early, LostBeforeBegin, Goto, streamVars
<1>6. FlagsOf(r)'
  BY <1>1 DEF OwnInv, FlagsOf, Live, Early, LostBeforeBegin, Goto, streamVars
<1>7. OutcomeOf(r)'
  BY <1>1 DEF OwnInv, OutcomeOf, Live, Early, LostBeforeBegin, Goto,
      streamVars
<1>8. RecordOf(r)'
  BY <1>1 DEF TypeOK, OwnInv, HistoryOf, RecordOf, Owed, Live, Early,
      LostBeforeBegin
<1>9. QED
  BY <1>2, <1>3, <1>4, <1>5, <1>6, <1>7, <1>8, OneRequest DEF OwnInv

LEMMA DrainedKeeps ==
  ASSUME Inv, NEW r \in Request, Drained(r)
  PROVE  Inv'
<1>1. OwnInv(r) /\ TypeOK
  BY DEF Inv
<1>2. TypeOK'
  BY <1>1 DEF TypeOK, Drained, Goto, streamVars, poolVars, LeavePool,
      Pool!Leave, Stage
<1>3. \A q \in Request \ {r} : Same(q)
  BY <1>1 DEF Same, Drained, Goto, streamVars, poolVars, LeavePool, Pool!Leave
<1>4. LeaseOf(r)'
  BY <1>1 DEF TypeOK, LeaseOf, Drained, poolVars, LeavePool, Pool!Leave
<1>5. HistoryOf(r)'
  BY <1>1 DEF OwnInv, HistoryOf, Early, Drained, Goto, streamVars
<1>6. FlagsOf(r)'
  BY <1>1 DEF OwnInv, FlagsOf, Live, Drained, Goto, streamVars
<1>7. OutcomeOf(r)'
  BY <1>1 DEF OwnInv, OutcomeOf, Live, Drained, Goto, streamVars
<1>8. RecordOf(r)'
  BY <1>1 DEF OwnInv, RecordOf, Live, Drained, Goto
<1>9. QED
  BY <1>2, <1>3, <1>4, <1>5, <1>6, <1>7, <1>8, OneRequest DEF OwnInv

LEMMA ClientLostKeeps ==
  ASSUME Inv, NEW r \in Request, ClientLost(r)
  PROVE  Inv'
<1>1. OwnInv(r) /\ TypeOK
  BY DEF Inv
<1>2. TypeOK'
  BY <1>1 DEF TypeOK, ClientLost, Goto, streamVars, poolVars, Stage
<1>3. \A q \in Request \ {r} : Same(q)
  BY <1>1 DEF TypeOK, Same, ClientLost, Goto, streamVars, poolVars
<1>4. LeaseOf(r)'
  BY <1>1 DEF OwnInv, LeaseOf, Live, Holding, ClientLost, Goto, poolVars
<1>5. HistoryOf(r)'
  BY <1>1 DEF TypeOK, OwnInv, HistoryOf, Early, ClientLost, Goto, streamVars
<1>6. FlagsOf(r)'
  BY <1>1 DEF OwnInv, FlagsOf, Live, ClientLost, Goto, streamVars
<1>7. OutcomeOf(r)'
  BY <1>1 DEF OwnInv, OutcomeOf, Live, ClientLost, Goto, streamVars
<1>8. RecordOf(r)'
  BY <1>1 DEF OwnInv, RecordOf, Live, ClientLost, Goto
<1>9. QED
  BY <1>2, <1>3, <1>4, <1>5, <1>6, <1>7, <1>8, OneRequest DEF OwnInv

LEMMA ResponseOverKeeps ==
  ASSUME Inv, NEW r \in Request, ResponseOver(r)
  PROVE  Inv'
<1>1. OwnInv(r) /\ TypeOK
  BY DEF Inv
<1>2. TypeOK'
  BY <1>1 DEF TypeOK, ResponseOver, streamVars, poolVars, LeavePool,
      Pool!Leave
<1>3. \A q \in Request \ {r} : Same(q)
  BY <1>1 DEF Same, ResponseOver, streamVars, poolVars, LeavePool, Pool!Leave
<1>4. LeaseOf(r)'
  BY <1>1 DEF TypeOK, LeaseOf, ResponseOver, poolVars, LeavePool, Pool!Leave
<1>5. HistoryOf(r)'
  BY <1>1 DEF OwnInv, HistoryOf, ResponseOver, streamVars
<1>6. FlagsOf(r)'
  BY <1>1 DEF OwnInv, FlagsOf, ResponseOver, streamVars
<1>7. OutcomeOf(r)'
  BY <1>1 DEF OwnInv, OutcomeOf, ResponseOver, streamVars
<1>8. RecordOf(r)'
  BY <1>1 DEF OwnInv, RecordOf, Live, ResponseOver
<1>9. QED
  BY <1>2, <1>3, <1>4, <1>5, <1>6, <1>7, <1>8, OneRequest DEF OwnInv

LEMMA CloseKeeps ==
  ASSUME Inv, NEW r \in Request, Close(r)
  PROVE  Inv'
<1>1. OwnInv(r) /\ TypeOK
  BY DEF Inv
<1>2. TypeOK'
  BY <1>1 DEF TypeOK, Close, Goto, streamVars, poolVars, LeavePool,
      Pool!Leave, Stage
<1>3. \A q \in Request \ {r} : Same(q)
  BY <1>1 DEF Same, Close, Goto, streamVars, poolVars, LeavePool, Pool!Leave
<1>4. LeaseOf(r)'
  BY <1>1 DEF TypeOK, LeaseOf, Close, poolVars, LeavePool, Pool!Leave
<1>5. HistoryOf(r)'
  BY <1>1 DEF OwnInv, HistoryOf, Early, Close, Goto, streamVars
<1>6. FlagsOf(r)'
  BY <1>1 DEF OwnInv, FlagsOf, Live, Early, Close, Goto, streamVars
<1>7. OutcomeOf(r)'
  BY <1>1 DEF OwnInv, OutcomeOf, Live, Early, Close, Goto, streamVars
<1>8. RecordOf(r)'
  <2>1. pc'[r] = "over" /\ (Truthful(r, due[r])' <=> Truthful(r, due[r]))
        /\ due' = due
    BY <1>1 DEF TypeOK, Truthful, HeardBad, Close, Goto, streamVars
  <2>2. \A s : Truthful(r, s)' <=> Truthful(r, s)
    BY DEF Truthful, HeardBad, Close, streamVars
  <2>3. Owed(r)' => Owed(r) \/ due[r] = "ok"
    BY <1>1 DEF TypeOK, Owed, Close, streamVars
  <2>4. CASE due[r] = "none"
    <3>1. recorded'[r] = recorded[r]
      BY <1>1, <2>4 DEF TypeOK, Close
    <3>2. QED
      BY <1>1, <2>1, <2>2, <2>3, <2>4, <3>1 DEF OwnInv, RecordOf, Live, Early,
          Close
  <2>5. CASE due[r] # "none"
    <3>1. recorded[r] = <<>> /\ due[r] \in Status
      BY <1>1, <2>5 DEF TypeOK, OwnInv, RecordOf, Close
    <3>2. recorded'[r] = <<due[r]>>
      BY <1>1, <2>5, <3>1, Once DEF TypeOK, Close
    <3>3. QED
      BY <1>1, <2>1, <2>2, <2>5, <3>1, <3>2, Once DEF OwnInv, RecordOf, Live,
          Early
  <2>6. QED
    BY <2>4, <2>5
<1>9. QED
  BY <1>2, <1>3, <1>4, <1>5, <1>6, <1>7, <1>8, OneRequest DEF OwnInv

LEMMA CollectKeeps ==
  ASSUME Inv, NEW r \in Request, NEW e \in Sent, Collect(r, e)
  PROVE  Inv'
<1>1. OwnInv(r) /\ TypeOK
  BY DEF Inv
<1>2. e \in Event
  BY RequestAssumption
<1>3. HearEff(r, e, FALSE)
  BY <1>1, <1>2, HearEffect DEF Collect
<1>4. TypeOK'
  <2>1. pc' \in [Request -> Stage] /\ due' \in [Request -> Status \cup {"none"}]
    BY <1>1, ZenonT(60) DEF TypeOK, Collect, End, Goto, Stage, Status
  <2>2. QED
    BY <1>1, <1>3, <2>1 DEF TypeOK, Collect, HearEff, poolVars
<1>5. \A q \in Request \ {r} : Same(q)
  BY <1>1, <1>3 DEF TypeOK, Same, Collect, End, poolVars, Goto, HearEff
<1>6. LeaseOf(r)'
  BY <1>1 DEF TypeOK, OwnInv, LeaseOf, Live, Early, Holding, Collect, End,
      poolVars, Goto
<1>7. HistoryOf(r)'
  BY <1>1, <1>3 DEF TypeOK, OwnInv, HistoryOf, Early, Collect, End, Goto,
      HearEff
<1>8. FlagsOf(r)'
  BY <1>1, <1>3 DEF OwnInv, HistoryOf, FlagsOf, HeardBad, Live, Early,
      Collect, HearEff
<1>9. OutcomeOf(r)'
  BY <1>1, <1>3, RequestAssumption DEF TypeOK, OwnInv, HistoryOf, OutcomeOf,
      Early, Collect, End, Goto, HearEff, Translated, Event
<1>10. RecordOf(r)'
  BY <1>1, <1>3, RequestAssumption DEF TypeOK, OwnInv, HistoryOf, RecordOf,
      Truthful, Live, Early, Collect, End, Goto, HearEff, Translated, Stage,
      Event
<1>11. QED
  BY <1>4, <1>5, <1>6, <1>7, <1>8, <1>9, <1>10, OneRequest DEF OwnInv

LEMMA ChunkKeeps ==
  ASSUME Inv, NEW r \in Request, NEW e \in Sent, Chunk(r, e)
  PROVE  Inv'
<1>1. OwnInv(r) /\ TypeOK
  BY DEF Inv
<1>2. e \in Event
  BY RequestAssumption
<1>3. HearEff(r, e, FALSE)
  BY <1>1, <1>2, HearEffect DEF Chunk
<1>4. TypeOK'
  <2>1. pc' \in [Request -> Stage] /\ due' \in [Request -> Status \cup {"none"}]
    BY <1>1 DEF TypeOK, Chunk, Goto, Stage, Status
  <2>2. QED
    BY <1>1, <1>3, <2>1 DEF TypeOK, Chunk, HearEff, poolVars
<1>5. \A q \in Request \ {r} : Same(q)
  BY <1>1, <1>3 DEF TypeOK, Same, Chunk, Goto, poolVars, HearEff
<1>6. LeaseOf(r)'
  BY <1>1 DEF TypeOK, OwnInv, LeaseOf, Live, Holding, Chunk, Goto, poolVars
<1>7. HistoryOf(r)'
  BY <1>1, <1>3 DEF TypeOK, OwnInv, HistoryOf, Early, Chunk, Goto, HearEff
<1>8. FlagsOf(r)'
  BY <1>1, <1>3 DEF OwnInv, FlagsOf, HeardBad, Live, Chunk, HearEff
<1>9. OutcomeOf(r)'
  BY <1>1, <1>3, RequestAssumption DEF TypeOK, OwnInv, OutcomeOf, Live, Chunk,
      Goto, HearEff, Translated, Event
<1>10. RecordOf(r)'
  BY <1>1 DEF TypeOK, OwnInv, RecordOf, Live, Chunk, Goto
<1>11. QED
  BY <1>4, <1>5, <1>6, <1>7, <1>8, <1>9, <1>10, OneRequest DEF OwnInv

LEMMA ChatBodyEndsKeeps ==
  ASSUME Inv, NEW r \in Request, ChatBodyEnds(r)
  PROVE  Inv'
<1>1. OwnInv(r) /\ TypeOK
  BY DEF Inv
<1>2. PICK e \in Event : Hear(r, e, TRUE)
  BY RequestAssumption DEF ChatBodyEnds
<1>3. HearEff(r, e, TRUE)
  BY <1>1, <1>2, HearEffect DEF ChatBodyEnds
<1>4. TypeOK'
  BY <1>1, <1>3 DEF TypeOK, ChatBodyEnds, Goto, poolVars, HearEff, Stage
<1>5. \A q \in Request \ {r} : Same(q)
  BY <1>3 DEF Same, ChatBodyEnds, Goto, poolVars, HearEff
<1>6. LeaseOf(r)'
  BY <1>1 DEF OwnInv, LeaseOf, Live, Holding, ChatBodyEnds, Goto, poolVars
<1>7. HistoryOf(r)'
  BY <1>1, <1>3 DEF OwnInv, HistoryOf, Early, ChatBodyEnds, Goto, HearEff
<1>8. FlagsOf(r)'
  BY <1>1, <1>3 DEF TypeOK, OwnInv, FlagsOf, HeardBad, Live, ChatBodyEnds,
      Goto, HearEff
<1>9. OutcomeOf(r)'
  BY <1>1, <1>3 DEF TypeOK, OwnInv, OutcomeOf, Live, ChatBodyEnds, Goto,
      HearEff, Translated, Event
<1>10. RecordOf(r)'
  BY <1>1 DEF OwnInv, RecordOf, Live, ChatBodyEnds, Goto
<1>11. QED
  BY <1>4, <1>5, <1>6, <1>7, <1>8, <1>9, <1>10, OneRequest DEF OwnInv

LEMMA BodyEndsKeeps ==
  ASSUME Inv, NEW r \in Request, BodyEnds(r)
  PROVE  Inv'
<1>1. OwnInv(r) /\ TypeOK
  BY DEF Inv
<1>2. PICK e \in Event : Hear(r, e, TRUE)
  BY RequestAssumption DEF BodyEnds
<1>3. HearEff(r, e, TRUE)
  BY <1>1, <1>2, HearEffect DEF BodyEnds
<1>4. FinishEff(r, flags'[r], outcome'[r], TRUE)
  BY <1>1, FinishEffect DEF OwnInv, RecordOf, Live, BodyEnds
<1>5. TypeOK'
  BY <1>1, <1>3, <1>4 DEF TypeOK, BodyEnds, poolVars, HearEff, FinishEff,
      Status, Stage
<1>6. \A q \in Request \ {r} : Same(q)
  BY <1>3, <1>4 DEF Same, BodyEnds, poolVars, HearEff, FinishEff
<1>7. LeaseOf(r)'
  BY <1>1, <1>4 DEF OwnInv, LeaseOf, Live, Holding, BodyEnds, poolVars,
      FinishEff
<1>8. HistoryOf(r)'
  BY <1>1, <1>3, <1>4 DEF OwnInv, HistoryOf, Early, BodyEnds, HearEff,
      FinishEff
<1>9. FlagsOf(r)'
  BY <1>1, <1>3, <1>4 DEF TypeOK, OwnInv, FlagsOf, Live, Early, BodyEnds,
      HearEff, FinishEff
<1>10. OutcomeOf(r)'
  BY <1>1, <1>3 DEF OwnInv, OutcomeOf, BodyEnds, HearEff
<1>11. RecordOf(r)'
  <2>1. ASSUME NEW s, route[r] = "native", s = NativeStatus(flags'[r])
        PROVE  Truthful(r, s)'
    BY <1>1, <1>3, <2>1 DEF OwnInv, FlagsOf, Truthful, HeardBad, Live,
        BodyEnds, HearEff, NativeStatus
  <2>2. ASSUME NEW s, route[r] = "provider", s = ProviderStatus(flags'[r])
        PROVE  Truthful(r, s)'
    BY <1>1, <1>3, <2>2 DEF OwnInv, FlagsOf, Truthful, HeardBad, Live,
        BodyEnds, HearEff, ProviderStatus
  <2>3. route[r] # "native_chat" /\ route[r] # "provider_chat" /\ UNCHANGED route
    BY DEF BodyEnds, Chat
  <2>4. route[r] \in AllRoutes
    BY <1>1, RequestAssumption DEF TypeOK
  <2>5. QED
    BY <1>1, <1>4, <2>1, <2>2, <2>3, <2>4, FinishRecords DEF AllRoutes
<1>12. QED
  BY <1>5, <1>6, <1>7, <1>8, <1>9, <1>10, <1>11, OneRequest DEF OwnInv

LEMMA BodyBreaksKeeps ==
  ASSUME Inv, NEW r \in Request, BodyBreaks(r)
  PROVE  Inv'
<1>1. OwnInv(r) /\ TypeOK
  BY DEF Inv
<1> DEFINE b == flags[r].failed \/ route[r] # "provider_chat"
<1>2. flags' = [flags EXCEPT ![r].failed = b] /\ b \in BOOLEAN
  BY <1>1 DEF TypeOK, Flags, BodyBreaks
<1> HIDE DEF b
<1>3. /\ flags' \in [Request -> Flags]
      /\ \A q \in Request \ {r} : flags'[q] = flags[q]
      /\ flags'[r].completed = flags[r].completed
      /\ flags'[r].cancelled = flags[r].cancelled
      /\ flags'[r].failed = b
  BY <1>1, <1>2, FlagSet DEF TypeOK
<1>4. FinishEff(r, flags'[r], outcome[r], FALSE)
  BY <1>1, FinishEffect DEF OwnInv, RecordOf, Live, BodyBreaks
<1>5. TypeOK'
  BY <1>1, <1>3, <1>4 DEF TypeOK, BodyBreaks, poolVars, FinishEff, Stage
<1>6. \A q \in Request \ {r} : Same(q)
  BY <1>4 DEF Same, BodyBreaks, poolVars, FinishEff
<1>7. LeaseOf(r)'
  BY <1>1, <1>4 DEF OwnInv, LeaseOf, Live, Holding, BodyBreaks, poolVars,
      FinishEff
<1>8. HistoryOf(r)'
  BY <1>1, <1>4 DEF OwnInv, HistoryOf, Early, BodyBreaks, FinishEff
<1>9. FlagsOf(r)'
  BY <1>1, <1>3, <1>4, ZenonT(60) DEF TypeOK, OwnInv, FlagsOf, Live, Early, BodyBreaks, b,
      FinishEff
<1>10. OutcomeOf(r)'
  BY <1>1 DEF OwnInv, OutcomeOf, Live, BodyBreaks
<1>11. RecordOf(r)'
  <2>1. ASSUME NEW s, route[r] = "native", s = NativeStatus(flags'[r])
        PROVE  Truthful(r, s)'
    BY <1>1, <1>3, <2>1, ZenonT(60) DEF TypeOK, Truthful, BodyBreaks, b, NativeStatus
  <2>2. ASSUME NEW s, route[r] = "provider", s = ProviderStatus(flags'[r])
        PROVE  Truthful(r, s)'
    BY <1>1, <1>3, <2>2, ZenonT(60) DEF TypeOK, OwnInv, LeaseOf, HistoryOf, FlagsOf,
        OutcomeOf, RecordOf, Owed, Truthful, HeardBad, Live, Early, Holding,
        BodyBreaks, poolVars, b, NativeStatus, ProviderStatus, ChatStatus,
        Stage, Event, Chat, Pooled, AllRoutes
  <2>3. ASSUME NEW s, route[r] = "native_chat", s = ChatStatus(outcome[r], flags'[r].failed)
        PROVE  Truthful(r, s)'
    BY <1>1, <1>3, <2>3 DEF TypeOK, OwnInv, LeaseOf, HistoryOf, FlagsOf,
        OutcomeOf, RecordOf, Owed, Truthful, HeardBad, Live, Early, Holding,
        BodyBreaks, poolVars, b, NativeStatus, ProviderStatus, ChatStatus,
        Stage, Event, Chat, Pooled, AllRoutes
  <2>4. route[r] = "provider_chat" => ~Owed(r)'
    BY <1>1, <1>3 DEF TypeOK, OwnInv, LeaseOf, HistoryOf, FlagsOf, OutcomeOf,
        RecordOf, Owed, Truthful, HeardBad, Live, Early, Holding, BodyBreaks,
        poolVars, b, NativeStatus, ProviderStatus, ChatStatus, Stage, Event,
        Chat, Pooled, AllRoutes
  <2>5. route[r] \in AllRoutes
    BY <1>1, RequestAssumption DEF TypeOK
  <2>6. QED
    BY <1>1, <1>4, <2>1, <2>2, <2>3, <2>4, <2>5, FinishRecords DEF BodyBreaks,
        AllRoutes
<1>12. QED
  BY <1>5, <1>6, <1>7, <1>8, <1>9, <1>10, <1>11, OneRequest DEF OwnInv

LEMMA PullCancelledKeeps ==
  ASSUME Inv, NEW r \in Request, PullCancelled(r)
  PROVE  Inv'
<1>1. OwnInv(r) /\ TypeOK
  BY DEF Inv
<1> DEFINE b == TRUE
<1>2. flags' = [flags EXCEPT ![r].cancelled = b] /\ b \in BOOLEAN
  BY <1>1 DEF TypeOK, Flags, PullCancelled
<1> HIDE DEF b
<1>3. /\ flags' \in [Request -> Flags]
      /\ \A q \in Request \ {r} : flags'[q] = flags[q]
      /\ flags'[r].completed = flags[r].completed
      /\ flags'[r].failed = flags[r].failed
      /\ flags'[r].cancelled = b
  BY <1>1, <1>2, FlagSet DEF TypeOK
<1>4. FinishEff(r, flags'[r], outcome[r], FALSE)
  BY <1>1, FinishEffect DEF OwnInv, RecordOf, Live, PullCancelled
<1>5. TypeOK'
  BY <1>1, <1>3, <1>4, RequestAssumption DEF TypeOK, PullCancelled, poolVars,
      b, FinishEff, NativeStatus, ProviderStatus, ChatStatus, Status, Stage,
      Event, Chat, Pooled, AllRoutes
<1>6. \A q \in Request \ {r} : Same(q)
  BY <1>1, <1>3, <1>4 DEF TypeOK, Same, PullCancelled, poolVars, b, FinishEff,
      NativeStatus, ProviderStatus, ChatStatus
<1>7. LeaseOf(r)'
  BY <1>1, <1>3, <1>4, RequestAssumption DEF TypeOK, OwnInv, LeaseOf,
      HistoryOf, FlagsOf, OutcomeOf, RecordOf, Owed, Truthful, HeardBad, Live,
      Early, Holding, PullCancelled, poolVars, b, FinishEff, NativeStatus,
      ProviderStatus, ChatStatus, Stage, Event, Chat, Pooled, AllRoutes
<1>8. HistoryOf(r)'
  BY <1>1, <1>3, <1>4, RequestAssumption DEF TypeOK, OwnInv, LeaseOf,
      HistoryOf, FlagsOf, OutcomeOf, RecordOf, Owed, Truthful, HeardBad, Live,
      Early, Holding, PullCancelled, poolVars, b, FinishEff, NativeStatus,
      ProviderStatus, ChatStatus, Stage, Event, Chat, Pooled, AllRoutes
<1>9. FlagsOf(r)'
  BY <1>1, <1>3, <1>4, RequestAssumption DEF TypeOK, OwnInv, LeaseOf,
      HistoryOf, FlagsOf, OutcomeOf, RecordOf, Owed, Truthful, HeardBad, Live,
      Early, Holding, PullCancelled, poolVars, b, FinishEff, NativeStatus,
      ProviderStatus, ChatStatus, Stage, Event, Chat, Pooled, AllRoutes
<1>10. OutcomeOf(r)'
  BY <1>1, <1>3, <1>4, RequestAssumption DEF TypeOK, OwnInv, LeaseOf,
      HistoryOf, FlagsOf, OutcomeOf, RecordOf, Owed, Truthful, HeardBad, Live,
      Early, Holding, PullCancelled, poolVars, b, FinishEff, NativeStatus,
      ProviderStatus, ChatStatus, Stage, Event, Chat, Pooled, AllRoutes
<1>11. RecordOf(r)'
  <2>1. ASSUME NEW s, route[r] = "native", s = NativeStatus(flags'[r])
        PROVE  Truthful(r, s)'
    BY <1>1, <1>3, <2>1 DEF TypeOK, OwnInv, LeaseOf, HistoryOf, FlagsOf,
        OutcomeOf, RecordOf, Owed, Truthful, HeardBad, Live, Early, Holding,
        PullCancelled, poolVars, b, NativeStatus, ProviderStatus, ChatStatus,
        Stage, Event, Chat, Pooled, AllRoutes
  <2>2. ASSUME NEW s, route[r] = "provider", s = ProviderStatus(flags'[r])
        PROVE  Truthful(r, s)'
    BY <1>1, <1>3, <2>2 DEF TypeOK, OwnInv, LeaseOf, HistoryOf, FlagsOf,
        OutcomeOf, RecordOf, Owed, Truthful, HeardBad, Live, Early, Holding,
        PullCancelled, poolVars, b, NativeStatus, ProviderStatus, ChatStatus,
        Stage, Event, Chat, Pooled, AllRoutes
  <2>3. ASSUME NEW s, route[r] = "native_chat", s = ChatStatus(outcome[r], flags'[r].failed)
        PROVE  Truthful(r, s)'
    BY <1>1, <1>3, <2>3 DEF TypeOK, OwnInv, LeaseOf, HistoryOf, FlagsOf,
        OutcomeOf, RecordOf, Owed, Truthful, HeardBad, Live, Early, Holding,
        PullCancelled, poolVars, b, NativeStatus, ProviderStatus, ChatStatus,
        Stage, Event, Chat, Pooled, AllRoutes
  <2>4. route[r] = "provider_chat" => ~Owed(r)'
    BY <1>1, <1>3 DEF TypeOK, OwnInv, LeaseOf, HistoryOf, FlagsOf, OutcomeOf,
        RecordOf, Owed, Truthful, HeardBad, Live, Early, Holding,
        PullCancelled, poolVars, b, NativeStatus, ProviderStatus, ChatStatus,
        Stage, Event, Chat, Pooled, AllRoutes
  <2>5. route[r] \in AllRoutes
    BY <1>1, RequestAssumption DEF TypeOK
  <2>6. QED
    BY <1>1, <1>4, <2>1, <2>2, <2>3, <2>4, <2>5, FinishRecords DEF
        PullCancelled, AllRoutes
<1>12. QED
  BY <1>5, <1>6, <1>7, <1>8, <1>9, <1>10, <1>11, OneRequest DEF OwnInv

LEMMA FinalizedKeeps ==
  ASSUME Inv, NEW r \in Request, Finalized(r)
  PROVE  Inv'
<1>1. OwnInv(r) /\ TypeOK
  BY DEF Inv
<1> DEFINE b == flags[r].cancelled \/ source[r] = "flowing"
<1>2. flags' = [flags EXCEPT ![r].cancelled = b] /\ b \in BOOLEAN
  BY <1>1 DEF TypeOK, Flags, Finalized
<1> HIDE DEF b
<1>3. /\ flags' \in [Request -> Flags]
      /\ \A q \in Request \ {r} : flags'[q] = flags[q]
      /\ flags'[r].completed = flags[r].completed
      /\ flags'[r].failed = flags[r].failed
      /\ flags'[r].cancelled = b
  BY <1>1, <1>2, FlagSet DEF TypeOK
<1>4. FinishEff(r, flags'[r], outcome[r], FALSE)
  BY <1>1, FinishEffect DEF OwnInv, RecordOf, Live, Finalized
<1>5. TypeOK'
  BY <1>1, <1>3, <1>4, RequestAssumption DEF TypeOK, Finalized, poolVars, b,
      FinishEff, NativeStatus, ProviderStatus, ChatStatus, Status, Stage,
      Event, Chat, Pooled, AllRoutes
<1>6. \A q \in Request \ {r} : Same(q)
  BY <1>1, <1>3, <1>4 DEF TypeOK, Same, Finalized, poolVars, b, FinishEff,
      NativeStatus, ProviderStatus, ChatStatus
<1>7. LeaseOf(r)'
  BY <1>1, <1>3, <1>4, RequestAssumption DEF TypeOK, OwnInv, LeaseOf,
      HistoryOf, FlagsOf, OutcomeOf, RecordOf, Owed, Truthful, HeardBad, Live,
      Early, Holding, Finalized, poolVars, b, FinishEff, NativeStatus,
      ProviderStatus, ChatStatus, Stage, Event, Chat, Pooled, AllRoutes
<1>8. HistoryOf(r)'
  BY <1>1, <1>3, <1>4, RequestAssumption DEF TypeOK, OwnInv, LeaseOf,
      HistoryOf, FlagsOf, OutcomeOf, RecordOf, Owed, Truthful, HeardBad, Live,
      Early, Holding, Finalized, poolVars, b, FinishEff, NativeStatus,
      ProviderStatus, ChatStatus, Stage, Event, Chat, Pooled, AllRoutes
<1>9. FlagsOf(r)'
  BY <1>1, <1>3, <1>4, RequestAssumption DEF TypeOK, OwnInv, LeaseOf,
      HistoryOf, FlagsOf, OutcomeOf, RecordOf, Owed, Truthful, HeardBad, Live,
      Early, Holding, Finalized, poolVars, b, FinishEff, NativeStatus,
      ProviderStatus, ChatStatus, Stage, Event, Chat, Pooled, AllRoutes
<1>10. OutcomeOf(r)'
  BY <1>1, <1>3, <1>4, RequestAssumption DEF TypeOK, OwnInv, LeaseOf,
      HistoryOf, FlagsOf, OutcomeOf, RecordOf, Owed, Truthful, HeardBad, Live,
      Early, Holding, Finalized, poolVars, b, FinishEff, NativeStatus,
      ProviderStatus, ChatStatus, Stage, Event, Chat, Pooled, AllRoutes
<1>11. RecordOf(r)'
  <2>1. ASSUME NEW s, route[r] = "native", s = NativeStatus(flags'[r])
        PROVE  Truthful(r, s)'
    BY <1>1, <1>3, <2>1 DEF TypeOK, OwnInv, LeaseOf, HistoryOf, FlagsOf,
        OutcomeOf, RecordOf, Owed, Truthful, HeardBad, Live, Early, Holding,
        Finalized, poolVars, b, NativeStatus, ProviderStatus, ChatStatus,
        Stage, Event, Chat, Pooled, AllRoutes
  <2>2. ASSUME NEW s, route[r] = "provider", s = ProviderStatus(flags'[r])
        PROVE  Truthful(r, s)'
    BY <1>1, <1>3, <2>2 DEF TypeOK, OwnInv, LeaseOf, HistoryOf, FlagsOf,
        OutcomeOf, RecordOf, Owed, Truthful, HeardBad, Live, Early, Holding,
        Finalized, poolVars, b, NativeStatus, ProviderStatus, ChatStatus,
        Stage, Event, Chat, Pooled, AllRoutes
  <2>3. ASSUME NEW s, route[r] = "native_chat", s = ChatStatus(outcome[r], flags'[r].failed)
        PROVE  Truthful(r, s)'
    BY <1>1, <1>3, <2>3 DEF TypeOK, OwnInv, LeaseOf, HistoryOf, FlagsOf,
        OutcomeOf, RecordOf, Owed, Truthful, HeardBad, Live, Early, Holding,
        Finalized, poolVars, b, NativeStatus, ProviderStatus, ChatStatus,
        Stage, Event, Chat, Pooled, AllRoutes
  <2>4. route[r] = "provider_chat" => ~Owed(r)'
    BY <1>1, <1>3 DEF TypeOK, OwnInv, LeaseOf, HistoryOf, FlagsOf, OutcomeOf,
        RecordOf, Owed, Truthful, HeardBad, Live, Early, Holding, Finalized,
        poolVars, b, NativeStatus, ProviderStatus, ChatStatus, Stage, Event,
        Chat, Pooled, AllRoutes
  <2>5. route[r] \in AllRoutes
    BY <1>1, RequestAssumption DEF TypeOK
  <2>6. QED
    BY <1>1, <1>4, <2>1, <2>2, <2>3, <2>4, <2>5, FinishRecords DEF Finalized,
        AllRoutes
<1>12. QED
  BY <1>5, <1>6, <1>7, <1>8, <1>9, <1>10, <1>11, OneRequest DEF OwnInv

(* The client took the chunk: the generator goes on, or its translator is  *)
(* done and the stream is finished.                                        *)
LEMMA TakenKeeps ==
  ASSUME Inv, NEW r \in Request, Taken(r)
  PROVE  Inv'
<1>1. OwnInv(r) /\ TypeOK
  BY DEF Inv
<1>2. /\ pc[r] = "yielded" /\ recorded[r] = <<>> /\ due[r] = "none"
      /\ seen' = [seen EXCEPT ![r] = said[r]]
      /\ UNCHANGED <<poolVars, route, upstream, source, outcome, said, cached, gone>>
  BY <1>1 DEF Taken, OwnInv, RecordOf, Live
<1>3. CASE pc' = [pc EXCEPT ![r] = "pulling"] /\ outcome[r] = "none"
           /\ source[r] = "flowing" /\ UNCHANGED <<flags, due, recorded>>
  <2>1. TypeOK'
    BY <1>1, <1>2, <1>3 DEF TypeOK, poolVars, Stage
  <2>2. \A q \in Request \ {r} : Same(q)
    BY <1>1, <1>2, <1>3 DEF TypeOK, Same, poolVars
  <2>3. OwnInv(r)'
    BY <1>1, <1>2, <1>3 DEF TypeOK, OwnInv, LeaseOf, HistoryOf, FlagsOf,
        OutcomeOf, RecordOf, Owed, Truthful, HeardBad, Live, Early, Holding,
        Taken, Goto, poolVars, Stage, Chat, Pooled
  <2>4. QED
    BY <2>1, <2>2, <2>3, Frame DEF Inv
<1>4. ASSUME outcome[r] # "none" \/ source[r] = "ended",
             flags' = [flags EXCEPT ![r].cancelled = @ \/ source[r] = "flowing"],
             Finish(r, flags'[r], outcome[r], TRUE)
      PROVE  Inv'
  <2> DEFINE b == flags[r].cancelled \/ source[r] = "flowing"
  <2>1. flags' = [flags EXCEPT ![r].cancelled = b] /\ b \in BOOLEAN
    BY <1>1, <1>4 DEF TypeOK, Flags
  <2> HIDE DEF b
  <2>2. /\ flags' \in [Request -> Flags]
        /\ \A q \in Request \ {r} : flags'[q] = flags[q]
        /\ flags'[r].completed = flags[r].completed
        /\ flags'[r].failed = flags[r].failed
        /\ flags'[r].cancelled = b
    BY <1>1, <2>1, FlagSet DEF TypeOK
  <2>3. FinishEff(r, flags'[r], outcome[r], TRUE)
    BY <1>1, <1>2, <1>4, FinishEffect
  <2>4. TypeOK'
    BY <1>1, <1>2, <2>2, <2>3 DEF TypeOK, FinishEff, poolVars, Stage
  <2>5. \A q \in Request \ {r} : Same(q)
    BY <1>1, <1>2, <2>2, <2>3 DEF TypeOK, Same, FinishEff, poolVars
  <2>6. route[r] \in Chat /\ route[r] \in AllRoutes
    BY <1>1, <1>2, <1>4, RequestAssumption DEF TypeOK, OwnInv, FlagsOf,
        OutcomeOf, Live
  <2>7. pc'[r] = "closing" /\ seen'[r] = said[r]
    BY <1>1, <1>2, <2>3 DEF TypeOK, FinishEff
  <2>8. LeaseOf(r)' /\ HistoryOf(r)' /\ OutcomeOf(r)'
    BY <1>1, <1>2, <2>7 DEF OwnInv, LeaseOf, HistoryOf, OutcomeOf, Holding,
        Live, Early, poolVars
  <2>9. FlagsOf(r)'
    BY <1>1, <1>2, <2>2, <2>6, <2>7 DEF OwnInv, FlagsOf, Live, Early, HeardBad
  <2>10. ASSUME NEW s, route[r] = "native_chat", s = ChatStatus(outcome[r], flags'[r].failed)
         PROVE  Truthful(r, s)'
    BY <1>1, <1>2, <1>4, <2>2, <2>6, <2>10 DEF TypeOK, OwnInv, FlagsOf,
        OutcomeOf, ChatStatus, Truthful, HeardBad, Live
  <2>11. ASSUME NEW s, route[r] = "provider_chat", s = ChatStatus(outcome[r], FALSE)
         PROVE  Truthful(r, s)'
    BY <1>1, <1>2, <2>6, <2>11 DEF TypeOK, OwnInv, FlagsOf, OutcomeOf,
        ChatStatus, Truthful, HeardBad, Live
  <2>12. RecordOf(r)'
    BY <1>1, <1>2, <2>3, <2>6, <2>10, <2>11, FinishRecords DEF Chat
  <2>13. QED
    BY <2>4, <2>5, <2>8, <2>9, <2>12, Frame DEF Inv, OwnInv
<1>5. QED
  BY <1>3, <1>4 DEF Taken, Goto

-----------------------------------------------------------------------------
LEMMA InitInv == Init => Inv
<1> SUFFICES ASSUME Init PROVE Inv
  OBVIOUS
<1>1. TypeOK
  BY DEF Init, TypeOK, Pool!Init, Stage, Flags
<1>2. ASSUME NEW r \in Request PROVE OwnInv(r)
  <2>1. /\ inside = {} /\ pc[r] = "new" /\ upstream[r] = "none" /\ source[r] = "flowing"
        /\ flags[r] = [completed |-> FALSE, failed |-> FALSE, cancelled |-> FALSE]
        /\ outcome[r] = "none" /\ due[r] = "none" /\ recorded[r] = <<>>
        /\ cached[r] = FALSE /\ said[r] = {} /\ seen[r] = {}
    BY DEF Init, Pool!Init
  <2>2. QED
    BY <2>1 DEF OwnInv, LeaseOf, HistoryOf, FlagsOf, OutcomeOf, RecordOf,
        Live, Early, Holding
<1>3. QED
  BY <1>1, <1>2 DEF Inv

LEMMA StepInv == Inv /\ [Next]_vars => Inv'
<1> SUFFICES ASSUME Inv, [Next]_vars PROVE Inv'
  OBVIOUS
<1>1. ASSUME NEW r \in Request, Going(r) PROVE Inv'
  BY <1>1, StartKeeps, StartBusyKeeps, AdmittedKeeps, SendBusyKeeps,
      SendReturnsKeeps, ErrorReadKeeps, BodyReadKeeps, CollectEndsKeeps,
      BeginKeeps, BodyEndsKeeps, ChatBodyEndsKeeps, DrainedKeeps,
      BodyBreaksKeeps, TakenKeeps, ResponseOverKeeps, FinalizedKeeps,
      CloseKeeps DEF Going
<1>2. ASSUME NEW r \in Request, Lost(r) PROVE Inv'
  BY <1>2, SendFailsKeeps, HandlerCancelledKeeps, LostBeforeBeginKeeps,
      PullCancelledKeeps, ClientLostKeeps DEF Lost
<1>3. ASSUME NEW r \in Request, NEW e \in Sent, Chunk(r, e) \/ Collect(r, e) PROVE Inv'
  BY <1>3, ChunkKeeps, CollectKeeps
<1>4. CASE UNCHANGED vars
  <2>1. \A q \in Request : Same(q)
    BY <1>4 DEF vars, Same
  <2>2. TypeOK'
    BY <1>4 DEF Inv, TypeOK, vars
  <2>3. QED
    BY <2>1, <2>2, Frame DEF Inv
<1>5. QED
  BY <1>1, <1>2, <1>3, <1>4 DEF Next

LEMMA Invariance == Spec => []Inv
BY InitInv, StepInv, PTL DEF Spec

(* The state keeps the type the code gives it.                             *)
THEOREM StreamTypeTheorem == Spec => []TypeOK
<1>1. Inv => TypeOK
  BY DEF Inv
<1>2. QED
  BY <1>1, Invariance, PTL

(* A request that is over has closed its upstream and left the pool, but   *)
(* for the one path the property names; while it is answered it holds a    *)
(* slot.                                                                   *)
THEOREM ReleaseTheorem == Spec => []UpstreamReleased
<1>1. Inv => UpstreamReleased
  BY DEF Inv, UpstreamReleased, OwnInv, LeaseOf, Holding, Live, Early
<1>2. QED
  BY <1>1, Invariance, PTL

(* A request is counted at most once, and once when its client stayed.     *)
THEOREM RecordTheorem == Spec => []RecordedOnce
<1>1. ASSUME Inv PROVE RecordedOnce
  <2>1. ASSUME NEW r \in Request
        PROVE  /\ recorded[r] = <<>> \/ \E s \in Status : recorded[r] = <<s>>
               /\ recorded[r] # <<>> /\ pc[r] # "over" => due[r] = "none"
    BY <1>1 DEF Inv, OwnInv, RecordOf
  <2>2. \A s : Len(<<s>>) = 1
    OBVIOUS
  <2>3. ASSUME NEW r \in Request
        PROVE  pc[r] = "over" /\ Owed(r) => Len(recorded[r]) = 1
    BY <1>1, <2>1, <2>2 DEF Inv, OwnInv, RecordOf
  <2>4. Len(<<>>) = 0
    OBVIOUS
  <2>5. ASSUME NEW r \in Request
        PROVE  Len(recorded[r]) + (IF due[r] # "none" /\ pc[r] # "over" THEN 1 ELSE 0) <= 1
    <3>1. CASE recorded[r] = <<>>
      BY <2>4, <3>1
    <3>2. CASE recorded[r] # <<>>
      <4>1. Len(recorded[r]) = 1 /\ ~(due[r] # "none" /\ pc[r] # "over")
        BY <2>1, <2>2, <3>2
      <4>2. QED
        BY <4>1
    <3>3. QED
      BY <3>1, <3>2
  <2>6. QED
    BY <2>3, <2>5 DEF RecordedOnce, Owed
<1>2. QED
  BY <1>1, Invariance, PTL

(* A recorded status says what happened between upstream and client.       *)
THEOREM TruthTheorem == Spec => []StatusTruthful
<1>1. ASSUME Inv PROVE StatusTruthful
  <2>1. ASSUME NEW r \in Request, NEW i \in 1..Len(recorded[r])
        PROVE  Truthful(r, recorded[r][i])
    <3>1. recorded[r] # <<>>
      BY <2>1
    <3>2. PICK s \in Status : recorded[r] = <<s>> /\ Truthful(r, s)
      BY <1>1, <3>1 DEF Inv, OwnInv, RecordOf
    <3>3. recorded[r][i] = s
      BY <2>1, <3>2
    <3>4. QED
      BY <3>2, <3>3
  <2>2. QED
    BY <2>1 DEF StatusTruthful, Truthful, HeardBad
<1>2. QED
  BY <1>1, Invariance, PTL

(* A client that has seen a response complete finds its context cached.    *)
THEOREM ContextTheorem == Spec => []ContextReady
<1>1. Inv => ContextReady
  BY DEF Inv, ContextReady, OwnInv, HistoryOf
<1>2. QED
  BY <1>1, Invariance, PTL

(* Every request gives its upstream and its lease back, on every path but   *)
(* the one that UpstreamReleased names.                                     *)
THEOREM ResourceTheorem == Spec => []ResourcesReturned
  BY StreamTypeTheorem, ReleaseTheorem,
     PTL DEF ResourcesReturned
=============================================================================
