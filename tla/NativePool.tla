----------------------------- MODULE NativePool -----------------------------
(***************************************************************************)
(* The application-owned HTTP connection pool of the official route        *)
(* (code_cn_bridge/native_pool.py) together with the connect-retry loop    *)
(* that drives one lease (http_utils.send_with_connect_retries).           *)
(*                                                                         *)
(* Everything runs on one asyncio loop, so an action below is the code     *)
(* between two suspension points.  A lease identity stands for the         *)
(* coroutine that owns a lease; it is reused once the lease is closed.     *)
(* A client identity stands for an httpx.AsyncClient and is reused once    *)
(* that client is closed and nobody refers to it.  The counters that only  *)
(* feed snapshot() (_active, _waiting, _rejected, _resets) are left out.   *)
(***************************************************************************)
EXTENDS Integers, Sequences, FiniteSets

CONSTANTS
  Lease,        \* request coroutines that lease a client
  Client,       \* identities of httpx clients
  Gen,          \* (origin, proxy, token identity) triples
  Proxied,      \* the generations that go through a VPN proxy
  Timeout,      \* distinct httpx timeout settings
  ProxyLanes,   \* lanes of a proxied generation (4 in the code)
  MaxEntries,   \* bound on mapped clients (8 in the code)
  MaxActive,    \* max_active: slots of the semaphore
  MaxWaiters,   \* max_waiters
  MaxConnects,  \* connection attempts of one request (3 in the code)
  NoClient,     \* the lease holds no entry
  NoGen,        \* no generation yet
  NoKey         \* key of a client that is not open

Request == [gen : Gen, tmo : Timeout]
AnyRequest == CHOOSE r \in Request : TRUE  \* of a lease that is not there
Key == [gen : Gen, tmo : Timeout, lane : 1..ProxyLanes]

ASSUME ConstantsAssumption ==
  /\ IsFiniteSet(Lease)
  /\ NoClient \notin Client
  /\ NoGen \notin Gen
  /\ NoKey \notin Key
  /\ Request # {}
  /\ Proxied \subseteq Gen
  /\ ProxyLanes \in Nat \ {0}
  /\ MaxEntries \in Nat \ {0}
  /\ MaxActive \in Nat \ {0}
  /\ MaxWaiters \in Nat
  /\ MaxConnects \in Nat \ {0}

VARIABLES
  pool,          \* the client map and its entries, see PoolType
  free,          \* value of the admission semaphore
  queue,         \* leases suspended in Semaphore.acquire, oldest first
  granted,       \* leases handed a slot that have not resumed yet
  reservedCount, \* NativeClientPool._reserved
  reserved,      \* leases whose _reserved flag is set
  admitted,      \* leases whose _admitted flag is set
  pc,            \* where the coroutine owning the lease stands
  req,           \* the origin, proxy, token and timeout of its request
  held,          \* NativeClientLease._entry
  dropping,      \* the client whose aclose() the coroutine awaits
  replayed,      \* the second turn of the PoolTimeout loop has begun
  connects,      \* attempts made by send_with_connect_retries
  closer,        \* close(): "running", "gathering", then "done" or "raised"
  awaited        \* the cleanup tasks close() gathered

semVars == <<free, queue, granted>>
resVars == <<reservedCount, reserved>>
sendVars == <<replayed, connects>>
leaseVars == <<pc, req, held, dropping, replayed, connects>>
closeVars == <<closer, awaited>>
vars == <<pool, free, queue, granted, reservedCount, reserved, admitted, pc,
          req, held, dropping, replayed, connects, closer, awaited>>

closed == closer # "running"

(* "leased": constructed; "built": between sends; "waiting": in _admit;    *)
(* "refreshing": awaiting the old client's aclose in _refresh; "sending":  *)
(* in client.send; "streaming": a response was returned; "failed": only    *)
(* aclose is left; "closing": awaiting the client's aclose in aclose.      *)
Stage == {"idle", "leased", "built", "waiting", "refreshing", "sending",
          "streaming", "failed", "closing"}

PoolType ==
  [mapped  : SUBSET Client,             \* values of _entries
   before  : SUBSET (Client \X Client), \* their order: <<older, newer>>
   gen     : Gen \cup {NoGen},          \* _generation
   key     : [Client -> Key \cup {NoKey}],  \* the key it was made for
   active  : [Client -> Int],           \* _Entry.active
   retired : SUBSET Client,             \* those with _Entry.retired
   open    : SUBSET Client,             \* usable clients
   closing : SUBSET Client,             \* clients whose aclose() runs
   tasks   : SUBSET Client]             \* _closing

-----------------------------------------------------------------------------
(* The methods of NativeClientPool as functions of the pool's state.       *)

(* Slip: clients that leases still use are closed at once.                 *)
Retire_Busy(p, C) ==
  [p EXCEPT
     !.mapped  = p.mapped \ C,
     !.before  = {e \in p.before : e[1] \notin C /\ e[2] \notin C},
     !.retired = p.retired \cup C,
     !.open    = p.open \ C,
     !.closing = p.closing \cup C,
     !.tasks   = p.tasks \cup C]

(* Stop assigning the mapped clients C; schedule the close of idle ones.   *)
Retire(p, C) ==
  [p EXCEPT
     !.mapped  = p.mapped \ C,
     !.before  = {e \in p.before : e[1] \notin C /\ e[2] \notin C},
     !.retired = p.retired \cup C,
     !.open    = {c \in p.open : c \in C => p.active[c] # 0},
     !.closing = p.closing \cup {c \in C : p.active[c] = 0},
     !.tasks   = p.tasks \cup {c \in C : p.active[c] = 0}]

(* retire(): every mapped client.                                          *)
RetireAll(p) == Retire(p, p.mapped)

(* invalidate(entry): one client, once.                                    *)
Invalidate(p, c) == IF c \in p.retired THEN p ELSE Retire(p, {c})

(* A generation is the identity of the requests the map serves.            *)
Rotate(p, g) == IF g = p.gen THEN p ELSE [RetireAll(p) EXCEPT !.gen = g]

LaneCount(g) == IF g \in Proxied THEN ProxyLanes ELSE 1

(* The clients an acquisition for request r may be served by.              *)
Serving(p, r) == {c \in p.mapped : p.key[c].gen = r.gen /\ p.key[c].tmo = r.tmo}

Idle(p, r) == {c \in Serving(p, r) : p.active[c] = 0}

FreeLanes(p, r) ==
  {n \in 1..LaneCount(r.gen) : \A c \in Serving(p, r) : p.key[c].lane # n}

LeastActive(p, C) == {c \in C : \A d \in C : p.active[c] <= p.active[d]}

LowestLane(p, C) == {c \in C : \A d \in C : p.key[c].lane <= p.key[d].lane}

(* An idle client first, then an empty lane, then the least active client; *)
(* the reused one, if any.                                                 *)
Reused(p, r) ==
  IF Idle(p, r) # {} THEN LowestLane(p, Idle(p, r))
  ELSE IF FreeLanes(p, r) # {} THEN {}
  ELSE LowestLane(p, LeastActive(p, Serving(p, r)))

(* c becomes the newest of _entries, whose other values are C.             *)
Newest(before, C, c) == {e \in before : e[1] # c /\ e[2] # c} \cup (C \X {c})

Occupy(p, c) == [p EXCEPT !.active = [p.active EXCEPT ![c] = p.active[c] + 1]]

Touch(p, c) == [p EXCEPT !.before = Newest(p.before, p.mapped \ {c}, c)]

Unused(p) ==
  {c \in Client \ (p.mapped \cup p.open \cup p.closing) : p.active[c] = 0}

Create(p, c, k) ==
  [p EXCEPT !.mapped = p.mapped \cup {c},
            !.before = Newest(p.before, p.mapped, c),
            !.key = [p.key EXCEPT ![c] = k],
            !.active = [p.active EXCEPT ![c] = 0],
            !.retired = p.retired \ {c},
            !.open = p.open \cup {c}]

(* Slip: the bound is checked as if before the insertion.                  *)
Evict_OffByOne(p) ==
  IF Cardinality(p.mapped) <= MaxEntries + 1 THEN p
  ELSE Retire(p, {c \in p.mapped : \A d \in p.mapped : <<d, c>> \notin p.before})

(* One insertion exceeds the bound by at most one entry: the oldest goes.  *)
Evict(p) ==
  IF Cardinality(p.mapped) <= MaxEntries THEN p
  ELSE Retire(p, {c \in p.mapped : \A d \in p.mapped : <<d, c>> \notin p.before})

FirstLane(p, r) == {n \in FreeLanes(p, r) : \A m \in FreeLanes(p, r) : n <= m}

NewKey(r, n) == [gen |-> r.gen, tmo |-> r.tmo, lane |-> n]

(* The outcomes of _acquire: the pool it leaves and the client it returns. *)
Acquired(p, r) ==
  LET p0 == Rotate(p, r.gen) IN
  IF Reused(p0, r) # {}
  THEN {[pool |-> Occupy(Touch(p0, c), c), client |-> c] : c \in Reused(p0, r)}
  ELSE {[pool |-> Occupy(Evict(Create(p0, c, NewKey(r, n))), c), client |-> c] :
          c \in Unused(p0), n \in FirstLane(p0, r)}

(* Slip: "not entry.active" is tested before the decrement.                *)
LastOfRetired_TooEarly(p, c) == c \in p.retired /\ p.active[c] = 0

LastOfRetired(p, c) == c \in p.retired /\ p.active[c] = 1

(* _release_entry up to its await: the last lease of a retired client      *)
(* closes it.                                                              *)
Release(p, c) ==
  [p EXCEPT
     !.active  = [p.active EXCEPT ![c] = p.active[c] - 1],
     !.open    = IF LastOfRetired(p, c) THEN p.open \ {c} ELSE p.open,
     !.closing = IF LastOfRetired(p, c) THEN p.closing \cup {c} ELSE p.closing]

Closed(p, c) ==
  [p EXCEPT !.closing = p.closing \ {c},
            !.key = [p.key EXCEPT ![c] = NoKey],
            !.tasks = p.tasks \ {c}]

-----------------------------------------------------------------------------
(* asyncio.Semaphore as _admit and aclose use it.                          *)

(* Slips: waiters are not looked at, as Python 3.10 does; or nothing is.   *)
Locked_SlotOnly == free = 0
Locked_Never == FALSE

(* locked(): no slot, or somebody was there first.                         *)
Locked == free = 0 \/ queue # <<>> \/ granted # {}

(* Slip: nobody is woken.                                                  *)
SlotFreed_NoWake(q, g) == queue' = q /\ granted' = g /\ free' = free + 1

(* A slot comes back while q waits and g holds slots not yet resumed with: *)
(* the oldest waiter gets it, if there is one.                             *)
SlotFreed(q, g) ==
  IF q # <<>>
  THEN /\ queue' = Tail(q)
       /\ granted' = g \cup {Head(q)}
       /\ UNCHANGED free
  ELSE /\ queue' = q
       /\ granted' = g
       /\ free' = free + 1

Without(q, i) == SubSeq(q, 1, i - 1) \o SubSeq(q, i + 1, Len(q))

-----------------------------------------------------------------------------
Init ==
  /\ pool = [mapped |-> {}, before |-> {}, gen |-> NoGen,
             key |-> [c \in Client |-> NoKey],
             active |-> [c \in Client |-> 0],
             retired |-> Client, open |-> {}, closing |-> {},
             tasks |-> {}]
  /\ free = MaxActive
  /\ queue = <<>>
  /\ granted = {}
  /\ reservedCount = 0
  /\ reserved = {}
  /\ admitted = {}
  /\ pc = [l \in Lease |-> "idle"]
  /\ req = [l \in Lease |-> AnyRequest]
  /\ held = [l \in Lease |-> NoClient]
  /\ dropping = [l \in Lease |-> NoClient]
  /\ replayed = [l \in Lease |-> FALSE]
  /\ connects = [l \in Lease |-> 0]
  /\ closer = "running"
  /\ awaited = {}

Goto(l, stage) == pc' = [pc EXCEPT ![l] = stage]

(* _acquire on behalf of l with the pool in state p: an entry, or a client *)
(* whose construction raises, or a pool that is closed.                    *)
Acquire(l, p, next) ==
  \/ /\ ~closed
     /\ \E a \in Acquired(p, req[l]) :
          /\ pool' = a.pool
          /\ held' = [held EXCEPT ![l] = a.client]
     /\ Goto(l, next)
  \/ /\ ~closed
     /\ Reused(Rotate(p, req[l].gen), req[l]) = {}
     /\ pool' = Rotate(p, req[l].gen)
     /\ held' = [held EXCEPT ![l] = NoClient]
     /\ Goto(l, "failed")
  \/ /\ closed
     /\ pool' = p
     /\ held' = [held EXCEPT ![l] = NoClient]
     /\ Goto(l, "failed")

(* Slip: send goes on with the client it was built with.                   *)
RefreshAndSend_Stale(l, p) ==
  /\ pool' = p
  /\ Goto(l, "sending")
  /\ UNCHANGED <<held, dropping>>

(* _refresh with the pool in state p, then client.send: l keeps its client *)
(* unless that was retired; as its last lease l first awaits its close.    *)
RefreshAndSend(l, p) ==
  LET c == held[l] IN
  \/ /\ c \notin p.retired
     /\ pool' = p
     /\ Goto(l, "sending")
     /\ UNCHANGED <<held, dropping>>
  \/ /\ LastOfRetired(p, c)
     /\ pool' = Release(p, c)
     /\ held' = [held EXCEPT ![l] = NoClient]
     /\ dropping' = [dropping EXCEPT ![l] = c]
     /\ Goto(l, "refreshing")
  \/ /\ c \in p.retired /\ ~LastOfRetired(p, c)
     /\ Acquire(l, Release(p, c), "sending")
     /\ UNCHANGED dropping

-----------------------------------------------------------------------------
(* _reserve finds every place taken.                                       *)
Full == reservedCount >= MaxActive + MaxWaiters

(* A handler asks the pool for a lease: NativeClientPool.lease.            *)
Open(l, r) ==
  /\ pc[l] = "idle" /\ ~closed
  /\ Goto(l, "leased")
  /\ req' = [req EXCEPT ![l] = r]
  /\ UNCHANGED <<pool, semVars, resVars, admitted, held, dropping, sendVars,
                 closeVars>>

(* build_request when _reserve raises: closed, or every place is taken.    *)
BuildRefused(l) ==
  /\ pc[l] = "leased"
  /\ closed \/ Full
  /\ Goto(l, "failed")
  /\ UNCHANGED <<pool, semVars, resVars, admitted, req, held, dropping,
                 sendVars, closeVars>>

(* build_request: reserve, then acquire; httpx may still refuse the URL.   *)
Build(l) ==
  /\ pc[l] = "leased" /\ ~closed /\ ~Full
  /\ reservedCount' = reservedCount + 1
  /\ reserved' = reserved \cup {l}
  /\ \E next \in {"built", "failed"} : Acquire(l, pool, next)
  /\ UNCHANGED <<semVars, admitted, req, dropping, sendVars, closeVars>>

(* send when no slot has to be awaited.                                    *)
Send(l) ==
  /\ pc[l] = "built"
  /\ \/ /\ l \in admitted
        /\ UNCHANGED <<free, admitted>>
     \/ /\ l \notin admitted /\ ~Locked
        /\ free' = free - 1
        /\ admitted' = admitted \cup {l}
  /\ connects' = [connects EXCEPT ![l] = @ + 1]
  /\ replayed' = [replayed EXCEPT ![l] = FALSE]
  /\ RefreshAndSend(l, pool)
  /\ UNCHANGED <<queue, granted, resVars, req, closeVars>>

(* send that has to queue for a slot in _admit.                            *)
SendWaits(l) ==
  /\ pc[l] = "built" /\ l \notin admitted /\ Locked
  /\ queue' = Append(queue, l)
  /\ connects' = [connects EXCEPT ![l] = @ + 1]
  /\ replayed' = [replayed EXCEPT ![l] = FALSE]
  /\ Goto(l, "waiting")
  /\ UNCHANGED <<pool, free, granted, resVars, admitted, req, held, dropping,
                 closeVars>>

(* The handed slot resumes _admit, which wakes another waiter if more      *)
(* slots came back meanwhile; send goes on.                                *)
Resume(l) ==
  /\ pc[l] = "waiting" /\ l \in granted
  /\ admitted' = admitted \cup {l}
  /\ IF free > 0 /\ queue # <<>>
     THEN /\ queue' = Tail(queue)
          /\ granted' = (granted \ {l}) \cup {Head(queue)}
          /\ free' = free - 1
     ELSE /\ granted' = granted \ {l}
          /\ UNCHANGED <<queue, free>>
  /\ RefreshAndSend(l, pool)
  /\ UNCHANGED <<resVars, req, sendVars, closeVars>>

(* wait_for times out (NativePoolBusy) or the coroutine is cancelled while *)
(* it waits; a slot it was already handed goes back.                       *)
GiveUp(l) ==
  /\ pc[l] = "waiting"
  /\ \/ /\ l \in granted
        /\ SlotFreed(queue, granted \ {l})
     \/ \E i \in 1..Len(queue) :
          /\ queue[i] = l
          /\ queue' = Without(queue, i)
          /\ UNCHANGED <<free, granted>>
  /\ Goto(l, "failed")
  /\ UNCHANGED <<pool, resVars, admitted, req, held, dropping, sendVars, closeVars>>

(* _refresh goes on after the old client's aclose.                         *)
Refreshed(l) ==
  /\ pc[l] = "refreshing"
  /\ Acquire(l, Closed(pool, dropping[l]), "sending")
  /\ dropping' = [dropping EXCEPT ![l] = NoClient]
  /\ UNCHANGED <<semVars, resVars, admitted, req, sendVars, closeVars>>

(* The old client's aclose raises, or the coroutine is cancelled in it.    *)
RefreshFails(l) ==
  /\ pc[l] = "refreshing"
  /\ pool' = Closed(pool, dropping[l])
  /\ dropping' = [dropping EXCEPT ![l] = NoClient]
  /\ Goto(l, "failed")
  /\ UNCHANGED <<semVars, resVars, admitted, req, held, sendVars, closeVars>>

(* httpx assigned no connection: retire the client and replay once.        *)
PoolTimeout(l) ==
  /\ pc[l] = "sending"
  /\ \/ /\ replayed[l]
        /\ pool' = Invalidate(pool, held[l])
        /\ Goto(l, "failed")
        /\ UNCHANGED <<held, dropping, replayed>>
     \/ /\ ~replayed[l]
        /\ replayed' = [replayed EXCEPT ![l] = TRUE]
        /\ RefreshAndSend(l, Invalidate(pool, held[l]))
  /\ UNCHANGED <<semVars, resVars, admitted, req, connects, closeVars>>

(* ConnectError or ConnectTimeout: send_with_connect_retries may go again. *)
ConnectFails(l) ==
  /\ pc[l] = "sending"
  /\ pool' = Invalidate(pool, held[l])
  /\ Goto(l, IF connects[l] < MaxConnects THEN "built" ELSE "failed")
  /\ UNCHANGED <<semVars, resVars, admitted, req, held, dropping, sendVars,
                 closeVars>>

(* Any other transport error, or a cancellation, in send or mid-stream;    *)
(* and the errors that say nothing about the client.                       *)
Fails(l) ==
  /\ pc[l] \in {"sending", "streaming"}
  /\ \E transport \in BOOLEAN :
       pool' = IF transport THEN Invalidate(pool, held[l]) ELSE pool
  /\ Goto(l, "failed")
  /\ UNCHANGED <<semVars, resVars, admitted, req, held, dropping, sendVars,
                 closeVars>>

SendReturns(l) ==
  /\ pc[l] = "sending"
  /\ Goto(l, "streaming")
  /\ UNCHANGED <<pool, semVars, resVars, admitted, req, held, dropping,
                 sendVars, closeVars>>

(* The finally of aclose: give back the slot and the reservation.          *)
GiveBack(l) ==
  /\ IF l \in admitted THEN SlotFreed(queue, granted)
     ELSE UNCHANGED semVars
  /\ admitted' = admitted \ {l}
  /\ reservedCount' = reservedCount - (IF l \in reserved THEN 1 ELSE 0)
  /\ reserved' = reserved \ {l}
  /\ Goto(l, "idle")
  /\ req' = [req EXCEPT ![l] = AnyRequest]
  /\ connects' = [connects EXCEPT ![l] = 0]
  /\ replayed' = [replayed EXCEPT ![l] = FALSE]

(* aclose when no client has to be closed with it.                         *)
Aclose(l) ==
  /\ pc[l] \in {"leased", "built", "streaming", "failed"}
  /\ \/ /\ held[l] = NoClient
        /\ UNCHANGED pool
     \/ /\ held[l] # NoClient /\ ~LastOfRetired(pool, held[l])
        /\ pool' = Release(pool, held[l])
  /\ held' = [held EXCEPT ![l] = NoClient]
  /\ GiveBack(l)
  /\ UNCHANGED <<dropping, closeVars>>

(* aclose by the last lease of a retired client awaits that client first.  *)
AcloseClient(l) ==
  /\ pc[l] \in {"leased", "built", "streaming", "failed"}
  /\ held[l] # NoClient /\ LastOfRetired(pool, held[l])
  /\ pool' = Release(pool, held[l])
  /\ held' = [held EXCEPT ![l] = NoClient]
  /\ dropping' = [dropping EXCEPT ![l] = held[l]]
  /\ Goto(l, "closing")
  /\ UNCHANGED <<semVars, resVars, admitted, req, sendVars, closeVars>>

ClientClosed(l) ==
  /\ pc[l] = "closing"
  /\ pool' = Closed(pool, dropping[l])
  /\ dropping' = [dropping EXCEPT ![l] = NoClient]
  /\ GiveBack(l)
  /\ UNCHANGED <<held, closeVars>>

(* A cleanup task of _schedule_close ends; an exception of its aclose ends *)
(* the gather of close() while other cleanups may still run.               *)
CleanupEnds(c) ==
  /\ c \in pool.tasks
  /\ pool' = Closed(pool, c)
  /\ \/ closer' = closer
     \/ closer = "gathering" /\ c \in awaited /\ closer' = "raised"
  /\ UNCHANGED <<semVars, resVars, admitted, leaseVars, awaited>>

(* The settings switch pooling off: _native_client retires every client.   *)
PoolingOff ==
  /\ pool' = RetireAll(pool)
  /\ UNCHANGED <<semVars, resVars, admitted, leaseVars, closeVars>>

(* close() of the pool, up to the gather of the cleanup tasks.             *)
ShutDown ==
  /\ closer = "running"
  /\ pool' = RetireAll(pool)
  /\ awaited' = pool'.tasks
  /\ closer' = IF awaited' = {} THEN "done" ELSE "gathering"
  /\ UNCHANGED <<semVars, resVars, admitted, leaseVars>>

Gathered ==
  /\ closer = "gathering" /\ awaited \cap pool.tasks = {}
  /\ pool' = [pool EXCEPT !.tasks = {}]
  /\ closer' = "done"
  /\ awaited' = {}
  /\ UNCHANGED <<semVars, resVars, admitted, leaseVars>>

OwnerStep(l) ==
  \/ BuildRefused(l) \/ Build(l) \/ Send(l) \/ SendWaits(l) \/ Resume(l)
  \/ GiveUp(l) \/ Refreshed(l) \/ RefreshFails(l) \/ PoolTimeout(l)
  \/ ConnectFails(l) \/ Fails(l) \/ SendReturns(l)
  \/ Aclose(l) \/ AcloseClient(l) \/ ClientClosed(l)

Next ==
  \/ \E l \in Lease : OwnerStep(l) \/ \E r \in Request : Open(l, r)
  \/ \E c \in Client : CleanupEnds(c)
  \/ PoolingOff \/ ShutDown \/ Gathered

Spec == Init /\ [][Next]_vars

-----------------------------------------------------------------------------
(* Properties.                                                             *)

(* The state has the shape the code gives it.                              *)
TypeOK ==
  /\ pool \in PoolType
  /\ free \in Nat
  /\ queue \in Seq(Lease)
  /\ granted \subseteq Lease
  /\ reservedCount \in Nat
  /\ reserved \subseteq Lease
  /\ admitted \subseteq Lease
  /\ pc \in [Lease -> Stage]
  /\ req \in [Lease -> Request]
  /\ held \in [Lease -> Client \cup {NoClient}]
  /\ dropping \in [Lease -> Client \cup {NoClient}]
  /\ replayed \in [Lease -> BOOLEAN]
  /\ connects \in [Lease -> Nat]
  /\ closer \in {"running", "gathering", "done", "raised"}
  /\ awaited \subseteq Client

(* Every slot of the semaphore is free, handed over or behind an admitted  *)
(* lease, and the leases that were admitted or wait are reserved ones, of  *)
(* which there are never more than max_active + max_waiters: no sequence   *)
(* of timeouts, cancellations and closes loses or invents capacity.        *)
CapacityConserved ==
  /\ free + Cardinality(granted) + Cardinality(admitted) = MaxActive
  /\ reservedCount = Cardinality(reserved)
  /\ reservedCount <= MaxActive + MaxWaiters
  /\ \A l \in Lease : l \in admitted \/ pc[l] = "waiting" => l \in reserved

(* "Closing a request releases its lease, never another request's client": *)
(* whatever retires clients, one a lease holds is open and not being closed. *)
HeldClientOpen ==
  \A l \in Lease : held[l] # NoClient => held[l] \in pool.open

(* A client that is open is in the map or held by a lease that closes it   *)
(* when it ends: retiring leaks no connection.                             *)
NoOrphanClient ==
  \A c \in pool.open : c \in pool.mapped \/ \E l \in Lease : held[l] = c

(* A client that is closing has exactly one closer: a cleanup task or one  *)
(* lease that awaits it.                                                   *)
OneCloser ==
  \A c \in pool.closing :
    /\ c \in pool.tasks \/ \E l \in Lease : dropping[l] = c
    /\ \A l \in Lease : dropping[l] = c =>
         c \notin pool.tasks /\ \A m \in Lease : dropping[m] = c => m = l

(* A lease uses only a client made for its own origin, proxy, token and    *)
(* timeout, through every retry, refresh and lane.                         *)
OwnIdentity ==
  \A l \in Lease : held[l] # NoClient =>
    /\ pool.key[held[l]] # NoKey
    /\ pool.key[held[l]].gen = req[l].gen
    /\ pool.key[held[l]].tmo = req[l].tmo

(* The map is bounded, holds one client per lane, all of the current       *)
(* generation and none of them retired or closing.                         *)
MapSound ==
  /\ Cardinality(pool.mapped) <= MaxEntries
  /\ \A c \in pool.mapped :
       /\ c \in pool.open \ pool.retired
       /\ pool.key[c].gen = pool.gen
       /\ \A d \in pool.mapped : pool.key[d] = pool.key[c] => d = c

(* A closed pool maps no client, whatever a queued or retrying lease does  *)
(* later, and once close() returns every client left is one that a lease   *)
(* is using or closing.                                                    *)
ClosedPoolDrained ==
  /\ closed => pool.mapped = {}
  /\ closer = "done" => \A c \in pool.open \cup pool.closing :
       \E l \in Lease : held[l] = c \/ dropping[l] = c

(* A request is only ever sent through a client that is not retired.       *)
SendsOnLiveClient ==
  [][\A l \in Lease :
       pc'[l] = "sending" /\ (pc[l] # "sending" \/ held'[l] # held[l])
         => held'[l] \notin pool'.retired]_vars

(* Nobody gets a slot before a lease that was waiting for one.             *)
NoOvertaking ==
  [][\A l \in Lease : l \in admitted' \ admitted =>
       l \in granted \/ (queue = <<>> /\ granted = {})]_vars

(* A free slot with somebody waiting is about to be handed over.           *)
NoLostWakeup == free > 0 /\ queue # <<>> => granted # {}

-----------------------------------------------------------------------------
(* Scheduling: the loop runs every coroutine that can go on; a response or *)
(* a send ends (httpx has timeouts for both) and its owner closes the      *)
(* lease in a finally.  Nothing makes a wait for a slot time out here.     *)
Going(l) ==
  \/ BuildRefused(l) \/ Build(l) \/ Send(l) \/ SendWaits(l) \/ Resume(l)
  \/ Refreshed(l) \/ PoolTimeout(l) \/ ConnectFails(l) \/ Fails(l)
  \/ SendReturns(l) \/ (pc[l] \in {"streaming", "failed"} /\ Aclose(l))
  \/ (pc[l] \in {"streaming", "failed"} /\ AcloseClient(l)) \/ ClientClosed(l)

Fairness ==
  /\ \A l \in Lease : WF_vars(Going(l))
  /\ \A c \in Client : WF_vars(CleanupEnds(c))
  /\ WF_vars(Gathered)

FairSpec == Spec /\ Fairness

(* Even if no wait ever timed out, a lease that waits gets a slot.         *)
WaiterServed == \A l \in Lease : pc[l] = "waiting" ~> pc[l] # "waiting"

(* After close() every client is closed and all capacity is back.          *)
ShutdownCompletes ==
  closed ~> /\ pool.open \cup pool.closing = {}
            /\ free = MaxActive /\ reservedCount = 0

-----------------------------------------------------------------------------
(* The pool implements bounded admission: however leases are built, queue, *)
(* time out, retry, refresh and close, to the outside a request enters,    *)
(* gets one slot and leaves with everything it had.                        *)
Admission == INSTANCE BoundedAdmission WITH
  inside <- reserved, working <- admitted,
  Slots <- MaxActive, Capacity <- MaxActive + MaxWaiters

ImplementsAdmission == Admission!Spec

(* What the pool promises to its leases, on the whole: reservations and      *)
(* slots balance, a free slot finds its waiter, and a closed pool is empty.  *)
SlotsAccounted == TypeOK /\ CapacityConserved /\ NoLostWakeup /\ ClosedPoolDrained

(* And to its clients: a client lives as long as it is held, is closed by    *)
(* one party, and serves the configuration it was made for.                  *)
ClientLife == HeldClientOpen /\ NoOrphanClient /\ OneCloser /\ OwnIdentity

=============================================================================
