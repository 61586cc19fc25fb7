--------------------------- MODULE UpstreamClients ---------------------------
(* The shared clients of the chat routes: an LRU map of UpstreamClient       *)
(* objects, each with up to two HTTP clients it makes when it needs them,    *)
(* and the requests that use an object for several calls.                    *)
(*                                                                           *)
(* An object is named after the request that made it and an HTTP client      *)
(* after its object and a number that is free.  A handler takes its object   *)
(* from the map when it routes the request; the call starts later, for a     *)
(* stream at the first pull of its generator, so an eviction may come in     *)
(* between.  Bounds: the requests, and MaxConnections calls of them together.      *)
EXTENDS Integers, Sequences, FiniteSets

CONSTANTS Request, Key, PoolEntries, MaxConnections, NoHttp

Object == Request
Http   == Object \X (1..MaxConnections)

ASSUME ClientsAssumption ==
    PoolEntries \in Nat \ {0} /\ MaxConnections \in Nat /\ NoHttp \notin Http

Kind == {"plain", "stream"}   \* _client and _stream_client
CloseStage == {"start", "plain", "stream", "done"}

VARIABLES at,       \* new, routed, running, leaving, done
          object,   \* the object a request was routed to
          using,    \* the HTTP client of its running call
          late,     \* that call began on a retired object
          calls,    \* calls begun so far
          pool,     \* the objects in the map, least recently used first
          keyOf,    \* the settings an object was made for
          retired, active, slot, task,   \* the fields of the objects
          lateUsed, \* an object that a call began on when it was retired
          open,     \* the HTTP clients that are made and not closed
          ender,    \* close() inside _end_request, by request
          todo, closer   \* what close_upstream_clients still has to look at

requestVars == <<at, object, using, late, calls>>
objectVars  == <<retired, active, slot, task, lateUsed>>
closeVars   == <<ender, todo, closer>>
clientsVars == <<requestVars, pool, keyOf, objectVars, open, closeVars>>

Running == "running"
Nobody  == <<>>

ClientsInit ==
    /\ at = [r \in Request |-> "new"]
    /\ object = [r \in Request |-> r]
    /\ using = [r \in Request |-> NoHttp]
    /\ late = [r \in Request |-> FALSE]
    /\ calls = 0
    /\ pool = <<>> /\ keyOf \in [Object -> Key]
    /\ retired = [o \in Object |-> FALSE]
    /\ active = [o \in Object |-> 0]
    /\ slot = [o \in Object |-> [k \in Kind |-> NoHttp]]
    /\ task = [o \in Object |-> "none"] /\ lateUsed = {}
    /\ open = {}
    /\ ender = [r \in Request |-> "none"]
    /\ todo = <<>> /\ closer = "none"

Pooled == {pool[i] : i \in DOMAIN pool}

(* pool.close() empties the map first and visits the objects afterwards.     *)
ShuttingDown == closer # "none"

------------------------------------------------------------------------------
(* UpstreamClient.close, from one await to the next.  It starts to close an  *)
(* HTTP client that is open, and forgets whatever stands in the field when   *)
(* it comes back, be that the client it closed or one made meanwhile.  An    *)
(* aclose that raises, which would leave the other client open, is left out. *)
NextStage(o, stage) ==
    IF stage = "start" /\ slot[o]["plain"] \in open THEN "plain"
    ELSE IF stage \in {"start", "plain"} /\ slot[o]["stream"] \in open THEN "stream"
    ELSE "done"

CloseStep(o, stage) ==
    LET next == NextStage(o, stage) IN
    /\ slot' = [slot EXCEPT
         ![o]["plain"] = IF next = "plain" THEN @ ELSE NoHttp,
         ![o]["stream"] = IF next = "done" THEN NoHttp ELSE @]
    /\ open' = IF next = "done" THEN open ELSE open \ {slot[o][next]}

Closing(stage) == stage \in {"start", "plain", "stream"}

(* The task retire() creates.                                                *)
TaskStep(o) ==
    /\ Closing(task[o])
    /\ CloseStep(o, task[o])
    /\ task' = [task EXCEPT ![o] = NextStage(o, @)]
    /\ UNCHANGED <<requestVars, pool, keyOf, retired, active, lateUsed, closeVars>>

RetireIdle(o) ==
    task' = IF active[o] = 0 THEN [task EXCEPT ![o] = "start"] ELSE task

------------------------------------------------------------------------------
(* UpstreamClientPool.get                                                    *)
Position(r) == {i \in DOMAIN pool : keyOf[pool[i]] = keyOf[r]}

Reuse(r) ==
    /\ at[r] = "new" /\ ~ShuttingDown
    /\ \E i \in Position(r) :
         /\ object' = [object EXCEPT ![r] = pool[i]]
         /\ pool' = Append(SubSeq(pool, 1, i - 1) \o SubSeq(pool, i + 1, Len(pool)),
                           pool[i])
    /\ at' = [at EXCEPT ![r] = "routed"]
    /\ UNCHANGED <<using, late, calls, keyOf, objectVars, open, closeVars>>

Make(r) ==
    /\ at[r] = "new" /\ ~ShuttingDown /\ Position(r) = {}
    /\ at' = [at EXCEPT ![r] = "routed"]
    /\ IF Len(pool) < PoolEntries
       THEN pool' = Append(pool, r) /\ UNCHANGED <<retired, task>>
       ELSE /\ pool' = Append(Tail(pool), r)
            /\ retired' = [retired EXCEPT ![Head(pool)] = TRUE]
            /\ RetireIdle(Head(pool))
    /\ UNCHANGED <<object, using, late, calls, keyOf, active, slot, lateUsed, open,
                   closeVars>>

Unbound(o) ==
    ({o} \X (1..MaxConnections)) \ (open \cup {slot[o][k] : k \in Kind}
                                   \cup {using[r] : r \in Request})

(* _get_client or _get_stream_client, then _begin_request, without an await  *)
(* that suspends.                                                            *)
ClientFor(o, kind) ==
    IF slot[o][kind] # NoHttp THEN {slot[o][kind]}
    ELSE {c \in Unbound(o) : \A d \in Unbound(o) : c[2] <= d[2]}

Begin(r, kind) ==
    LET o == object[r] IN
    /\ at[r] = "routed" /\ calls < MaxConnections
    /\ at' = [at EXCEPT ![r] = Running]
    /\ calls' = calls + 1
    /\ \E http \in ClientFor(o, kind) :
         /\ using' = [using EXCEPT ![r] = http]
         /\ slot' = [slot EXCEPT ![o][kind] = http]
         /\ open' = IF slot[o][kind] = NoHttp THEN open \cup {http} ELSE open
    /\ late' = [late EXCEPT ![r] = retired[o]]
    /\ lateUsed' = IF retired[o] THEN lateUsed \cup {o} ELSE lateUsed
    /\ active' = [active EXCEPT ![o] = @ + 1]
    /\ UNCHANGED <<object, pool, keyOf, retired, task, closeVars>>

(* Slip: the last call does not look whether its object was retired. *)
LastOfRetired_Never(o) == FALSE

LastOfRetired(o) == retired[o] /\ active[o] = 1

(* The call is over, answered, failed or cancelled: _end_request.  The last  *)
(* one on a retired object closes it.                                        *)
End(r) ==
    LET o == object[r] IN
    /\ at[r] = Running
    /\ active' = [active EXCEPT ![o] = @ - 1]
    /\ using' = [using EXCEPT ![r] = NoHttp]
    /\ IF LastOfRetired(o)
       THEN at' = [at EXCEPT ![r] = "leaving"] /\ ender' = [ender EXCEPT ![r] = "start"]
       ELSE at' = [at EXCEPT ![r] = "routed"] /\ UNCHANGED ender
    /\ late' = [late EXCEPT ![r] = FALSE]
    /\ UNCHANGED <<object, calls, pool, keyOf, retired, slot, task, lateUsed, open,
                   todo, closer>>

EndStep(r) ==
    /\ at[r] = "leaving"
    /\ CloseStep(object[r], ender[r])
    /\ ender' = [ender EXCEPT ![r] = NextStage(object[r], @)]
    /\ at' = [at EXCEPT ![r] = IF ender'[r] = "done" THEN "routed" ELSE @]
    /\ UNCHANGED <<object, using, late, calls, pool, keyOf, retired, active, task,
                   lateUsed, todo, closer>>

(* No further call: the handler is over and lets go of its object.           *)
Leave(r) ==
    /\ at[r] = "routed"
    /\ at' = [at EXCEPT ![r] = "done"]
    /\ UNCHANGED <<object, using, late, calls, pool, keyOf, objectVars, open,
                   closeVars>>

------------------------------------------------------------------------------
(* close_upstream_clients at the end of the lifespan: the handlers are over, *)
(* a generator that nobody pulls any more may still hold its call.           *)
Shutdown ==
    /\ ~ShuttingDown /\ \A r \in Request : at[r] \in {"new", Running, "done"}
    /\ todo' = pool /\ pool' = <<>> /\ closer' = "next"
    /\ UNCHANGED <<requestVars, keyOf, objectVars, open, ender>>

CloserVisits ==
    /\ closer = "next" /\ todo # <<>>
    /\ retired' = [retired EXCEPT ![Head(todo)] = TRUE]
    /\ IF active[Head(todo)] = 0
       THEN closer' = "start" /\ UNCHANGED todo
       ELSE todo' = Tail(todo) /\ UNCHANGED closer
    /\ UNCHANGED <<requestVars, pool, keyOf, active, slot, task, lateUsed, open,
                   ender>>

CloserStep ==
    /\ Closing(closer)
    /\ CloseStep(Head(todo), closer)
    /\ LET next == NextStage(Head(todo), closer) IN
         IF next = "done" THEN closer' = "next" /\ todo' = Tail(todo)
                          ELSE closer' = next /\ UNCHANGED todo
    /\ UNCHANGED <<requestVars, pool, keyOf, retired, active, task, lateUsed, ender>>

ClientsNext ==
    \/ \E r \in Request :
         \/ Reuse(r) \/ Make(r) \/ End(r) \/ EndStep(r) \/ Leave(r)
         \/ \E kind \in Kind : Begin(r, kind)
    \/ \E o \in Object : TaskStep(o)
    \/ Shutdown \/ CloserVisits \/ CloserStep

ClientsSpec == ClientsInit /\ [][ClientsNext]_clientsVars

------------------------------------------------------------------------------
Calling(o) == {r \in Request : at[r] = Running /\ object[r] = o}

ClientsTypeOK ==
    /\ at \in [Request -> {"new", "routed", Running, "leaving", "done"}]
    /\ object \in [Request -> Object]
    /\ using \in [Request -> Http \cup {NoHttp}]
    /\ late \in [Request -> BOOLEAN] /\ calls \in 0..MaxConnections
    /\ pool \in Seq(Object) /\ keyOf \in [Object -> Key]
    /\ retired \in [Object -> BOOLEAN] /\ active \in [Object -> Nat]
    /\ slot \in [Object -> [Kind -> Http \cup {NoHttp}]]
    /\ task \in [Object -> CloseStage \cup {"none"}] /\ lateUsed \in SUBSET Object
    /\ open \in SUBSET Http
    /\ ender \in [Request -> CloseStage \cup {"none"}]
    /\ todo \in Seq(Object) /\ closer \in CloseStage \cup {"none", "next"}

(* The map holds at most PoolEntries objects, one per setting, none retired,  *)
(* and every HTTP client of theirs is open: a request that finds its object  *)
(* in the map and calls at once never meets a closed client.                 *)
PooledUsable ==
    /\ ClientsTypeOK
    /\ Len(pool) <= PoolEntries
    /\ \A i, j \in DOMAIN pool : keyOf[pool[i]] = keyOf[pool[j]] => i = j
    /\ \A o \in Pooled : ~retired[o] /\ \A k \in Kind : slot[o][k] \in open \cup {NoHttp}

(* Eviction, the closing tasks and the shutdown never close the HTTP client  *)
(* of a call that began before its object was retired.                       *)
EarlyCallUncut ==
    \A r \in Request : at[r] = Running /\ ~late[r] => using[r] \in open

(* An HTTP client that is open is known to its object, and its object is in  *)
(* the map, or about to be visited by the shutdown, or used by a call, or    *)
(* being closed.  An object that a call began on after its retirement is the *)
(* exception: a close that runs meanwhile may forget the client made then.   *)
Attended(o) ==
    \/ o \in Pooled \cup {todo[i] : i \in DOMAIN todo}
    \/ Calling(o) # {} \/ Closing(task[o])
    \/ \E r \in Request : object[r] = o /\ Closing(ender[r])

ClientsAttended ==
    \A c \in open :
        c[1] \notin lateUsed => Attended(c[1]) /\ \E k \in Kind : slot[c[1]][k] = c

(* Sharing, eviction and shutdown together: no call that could be served     *)
(* meets a closed HTTP client, and no open HTTP client is left to itself     *)
(* (UpstreamClientPool.get and aclose, UpstreamClient.retire and close).     *)
ClientsSound == PooledUsable /\ EarlyCallUncut /\ ClientsAttended

=============================================================================
