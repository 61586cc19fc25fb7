---------------------------- MODULE CatalogSnapshot ----------------------------
(* The model list of the native backend (catalog_store.py, CatalogSnapshot,  *)
(* and native_proxy.py, fetch_merged_models): one snapshot for each account  *)
(* scope, refreshed in a task of its own that a request starts, joins or     *)
(* overlooks.  A changed list replaces the snapshot only after two matching  *)
(* observations in a row; the snapshot is kept in a file across restarts.    *)
(*                                                                           *)
(* Scopes share nothing, so one is modelled; a list is the set of its model  *)
(* ids, here one value.  Credentials are read again for every attempt, so    *)
(* each fetch may see any list, whoever is logged in by then.                *)
EXTENDS Integers, FiniteSets

CONSTANTS Lists,           \* model lists that name a GPT model
          Askers,          \* requests for the model list
          MaxCatalogStarts \* bound on restarts of the process

NoList == "no list"
NoModels == "no models"  \* an error, no JSON, or a list without a GPT model

ASSUME CatalogAssumption ==
    MaxCatalogStarts \in Nat /\ NoList \notin Lists /\ NoModels \notin Lists

FetchAttempts == 3

VARIABLES snapshot,     \* the snapshot of this process
          refresh,      \* its refresh task
          listFile,     \* the file
          askers,       \* requests
          confirmed,    \* history: lists seen twice in a row in one refresh
          lastFetched,  \* history: the last observation of this refresh
          catalogStarts,
          tasksClosed

catalogHistory == <<confirmed, lastFetched>>
catalogLife == <<catalogStarts, tasksClosed>>
catalogVars == <<snapshot, refresh, listFile, askers, catalogHistory, catalogLife>>

NoSnapshot == [loaded |-> FALSE, list |-> NoList, due |-> FALSE]
NoTask == [stage |-> "none", attempt |-> 0, previous |-> NoList, candidate |-> NoList]
NoAsker == [stage |-> "out", answer |-> NoList]

CatalogInit ==
    /\ snapshot = NoSnapshot /\ refresh = NoTask /\ listFile = NoList
    /\ askers = [q \in Askers |-> NoAsker]
    /\ confirmed = {} /\ lastFetched = NoModels
    /\ catalogStarts = 0 /\ tasksClosed = FALSE

-----------------------------------------------------------------------------
(* Requests. *)

Refreshing == refresh.stage \in {"asking", "pausing", "saving"}

(* A refresh that is running is joined, with the fetch it was given. *)
StartRefresh(previous) ==
    IF Refreshing THEN UNCHANGED <<refresh, lastFetched>>
    ELSE /\ refresh' = [NoTask EXCEPT !.stage = "asking", !.attempt = 1,
                                      !.previous = previous]
         /\ lastFetched' = NoModels

(* The first request reads the file; what cannot be read is no list. *)
LoadedSnapshots ==
    IF snapshot.loaded THEN {snapshot}
    ELSE {[loaded |-> TRUE, list |-> l, due |-> TRUE] : l \in {listFile, NoList}}

(* Only a request without a list, or with refresh=1, waits for the refresh.  *)
AskModels(q, force) ==
    \E loaded \in LoadedSnapshots :
       LET waits == force \/ loaded.list = NoList
       IN /\ askers[q].stage = "out" /\ ~tasksClosed
          /\ snapshot' = loaded
          /\ IF waits \/ loaded.due THEN StartRefresh(loaded.list)
             ELSE UNCHANGED <<refresh, lastFetched>>
          /\ askers' = [askers EXCEPT ![q] =
                          [stage |-> IF waits THEN "waiting" ELSE "answered",
                           answer |-> loaded.list]]
          /\ UNCHANGED <<listFile, confirmed, catalogLife>>

(* The joined refresh ended; a broken or cancelled one fails its waiters.    *)
AnswerAsk(q) ==
    /\ askers[q].stage = "waiting" /\ ~Refreshing
    /\ askers' = [askers EXCEPT
          ![q].stage  = IF refresh.stage = "broken" THEN "failed" ELSE "answered",
          ![q].answer = IF refresh.stage = "broken" THEN NoList ELSE snapshot.list]
    /\ UNCHANGED <<snapshot, refresh, listFile, catalogHistory, catalogLife>>

(* The client is done with the answer, or leaves while it waits: the refresh *)
(* is shielded from that.                                                    *)
ForgetAsk(q) ==
    /\ askers[q].stage # "out"
    /\ askers' = [askers EXCEPT ![q] = NoAsker]
    /\ UNCHANGED <<snapshot, refresh, listFile, catalogHistory, catalogLife>>

-----------------------------------------------------------------------------
(* The refresh. *)

(* What the world saw, whatever the code makes of it. *)
Observe(list) ==
    /\ lastFetched' = list
    /\ confirmed' = IF list # NoModels /\ lastFetched = list THEN confirmed \cup {list}
                    ELSE confirmed

RefreshOver(stage) ==
    /\ refresh' = [NoTask EXCEPT !.stage = stage]
    /\ snapshot' = [snapshot EXCEPT !.due = FALSE]

NextAttempt(candidate) ==
    IF refresh.attempt = FetchAttempts THEN RefreshOver("failed")
    ELSE /\ refresh' = [refresh EXCEPT !.stage = "pausing", !.candidate = candidate]
         /\ UNCHANGED snapshot

(* Slip: a failed attempt leaves the candidate standing. *)
FetchFailed_KeepsCandidate ==
    /\ refresh.stage = "asking"
    /\ Observe(NoModels)
    /\ NextAttempt(refresh.candidate)
    /\ UNCHANGED <<listFile, askers, catalogLife>>

FetchFailed ==
    /\ refresh.stage = "asking"
    /\ Observe(NoModels)
    /\ NextAttempt(NoList)
    /\ UNCHANGED <<listFile, askers, catalogLife>>

FetchListed(list) ==
    /\ refresh.stage = "asking"
    /\ Observe(list)
    /\ IF list \in {refresh.previous, refresh.candidate}
       THEN /\ snapshot' = [snapshot EXCEPT !.list = list]
            /\ refresh' = [refresh EXCEPT !.stage = "saving"]
       ELSE NextAttempt(list)
    /\ UNCHANGED <<listFile, askers, catalogLife>>

(* fetch knows the errors of httpx and of the login; others end the task.    *)
FetchBreaks ==
    /\ refresh.stage = "asking"
    /\ RefreshOver("broken")
    /\ UNCHANGED <<listFile, askers, catalogHistory, catalogLife>>

AskAgain ==
    /\ refresh.stage = "pausing"
    /\ refresh' = [refresh EXCEPT !.stage = "asking", !.attempt = @ + 1]
    /\ UNCHANGED <<snapshot, listFile, askers, catalogHistory, catalogLife>>

(* The file is replaced as a whole; a failure is reported and goes by. *)
SaveList(ok) ==
    /\ refresh.stage = "saving"
    /\ listFile' = IF ok THEN snapshot.list ELSE listFile
    /\ RefreshOver("done")
    /\ UNCHANGED <<askers, catalogHistory, catalogLife>>

-----------------------------------------------------------------------------
(* Around it. *)

(* REFRESH_SECONDS pass. *)
CatalogDue ==
    /\ snapshot.loaded /\ ~snapshot.due
    /\ snapshot' = [snapshot EXCEPT !.due = TRUE]
    /\ UNCHANGED <<refresh, listFile, askers, catalogHistory, catalogLife>>

(* close_catalog_tasks: a save that runs in its thread still ends. *)
CloseTasks(saved) ==
    /\ ~tasksClosed
    /\ saved => refresh.stage = "saving"
    /\ tasksClosed' = TRUE
    /\ refresh' = IF Refreshing THEN [NoTask EXCEPT !.stage = "broken"] ELSE refresh
    /\ snapshot' = [snapshot EXCEPT !.due = @ /\ ~Refreshing]
    /\ listFile' = IF saved THEN snapshot.list ELSE listFile
    /\ UNCHANGED <<askers, catalogHistory, catalogStarts>>

(* The process ends, at any point, and starts again. *)
RestartCatalog ==
    /\ catalogStarts < MaxCatalogStarts
    /\ catalogStarts' = catalogStarts + 1 /\ tasksClosed' = FALSE
    /\ snapshot' = NoSnapshot /\ refresh' = NoTask
    /\ askers' = [q \in Askers |-> NoAsker]
    /\ UNCHANGED <<listFile, catalogHistory>>

CatalogNext ==
    \/ \E q \in Askers : (\E force \in BOOLEAN : AskModels(q, force)) \/ AnswerAsk(q) \/ ForgetAsk(q)
    \/ \E list \in Lists : FetchListed(list)
    \/ FetchFailed \/ FetchBreaks \/ AskAgain
    \/ \E ok \in BOOLEAN : SaveList(ok) \/ CloseTasks(ok)
    \/ CatalogDue
    \/ RestartCatalog

CatalogSpec == CatalogInit /\ [][CatalogNext]_catalogVars

-----------------------------------------------------------------------------
(* Properties. *)

SnapshotType == [loaded : BOOLEAN, list : Lists \cup {NoList}, due : BOOLEAN]

RefreshStage == {"none", "asking", "pausing", "saving", "done", "failed", "broken"}
RefreshType ==
    [stage : RefreshStage, attempt : 0..FetchAttempts,
     previous : Lists \cup {NoList}, candidate : Lists \cup {NoList}]

AskerType ==
    [stage : {"out", "waiting", "answered", "failed"}, answer : Lists \cup {NoList}]

CatalogTypeOK ==
    /\ snapshot \in SnapshotType /\ refresh \in RefreshType
    /\ listFile \in Lists \cup {NoList}
    /\ askers \in [Askers -> AskerType]
    /\ confirmed \in SUBSET Lists /\ lastFetched \in Lists \cup {NoModels}
    /\ catalogStarts \in 0..MaxCatalogStarts /\ tasksClosed \in BOOLEAN

(* "Every changed/new list requires two matching successful observations"    *)
(* (catalog_store.py, refresh): whatever is in the snapshot, in the file or  *)
(* in an answer was seen twice in a row in one refresh, by this process or   *)
(* an earlier one, whatever failed, was joined, closed or killed in between. *)
CatalogConfirmed ==
    /\ {snapshot.list, listFile} \subseteq confirmed \cup {NoList}
    /\ \A q \in Askers : askers[q].answer \in confirmed \cup {NoList}

=============================================================================
