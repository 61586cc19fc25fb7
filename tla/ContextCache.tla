----------------------------- MODULE ContextCache -----------------------------
(* The cache of response contexts (native_proxy.py, _native_context_get and  *)
(* _native_context_put) and the turns that read and fill it.  A turn may     *)
(* name the response it continues; the bridge expands that into the cached   *)
(* items, sends the whole to the upstream, and caches input and output under *)
(* the new id.                                                               *)
(*                                                                           *)
(* A turn's items are one token, its response id, so that a context is a     *)
(* sequence of ids and says which turns it still knows; its size is its      *)
(* length.  Turns overlap: between Begin and Complete others may read, fill  *)
(* and evict.  Everything else is synchronous and one step.                  *)
EXTENDS Integers, SequencesExt

CONSTANTS MaxTurns,   \* bound on the turns
          Keys,       \* access keys; "" is unmanaged access
          MaxEntries, MaxBytes, Ttl, \* limits of the cache
          MaxTime     \* bound on the clock

ASSUME CacheAssumption ==
    /\ MaxEntries \in Nat \ {0} /\ MaxBytes \in Nat \ {0} /\ Ttl \in Nat
    /\ MaxTurns \in Nat /\ MaxTime \in Nat

(* The ways a turn is served: the native backend, a chat model, a Responses  *)
(* provider that keeps no state, one that supports previous_response_id.     *)
Ways == {"native", "chat", "stateless", "stateful"}

NoTurn == 0
Notice == -1  \* "could not restore history", in the place of the items

VARIABLES contexts,   \* the cache: id -> items and when they were put
          usedBefore, \* its order: <<i, j>> when i was used before j
          owners,     \* _RESPONSE_CONTEXT_OWNERS: id -> way and key
          cacheBytes,
          clock,
          turns       \* the turns begun, by response id

cacheVars == <<contexts, usedBefore, owners, cacheBytes, clock, turns>>

CacheInit ==
    /\ contexts = <<>> /\ usedBefore = {}
    /\ owners = <<>>
    /\ cacheBytes = 0
    /\ clock = 0
    /\ turns = <<>>

-----------------------------------------------------------------------------
(* The cache. *)

Cached == DOMAIN contexts

SizeOf(f, ids) == SumFunction([id \in ids |-> Len(f[id].items)])

Expired(id) == clock - contexts[id].born > Ttl

(* What a lookup throws away, whoever asks. *)
Stale(prev) == IF prev \in Cached /\ Expired(prev) THEN {prev} ELSE {}

Without(order, id) == {p \in order : id \notin {p[1], p[2]}}

MadeNewest(id) == Without(usedBefore, id) \cup ((Cached \ {id}) \X {id})

(* The entries that the loop of popitem(last=False) leaves: each fits        *)
(* together with all that were used after it.                                *)
Fits(f, ids) == Cardinality(ids) <= MaxEntries /\ SizeOf(f, ids) <= MaxBytes

Kept(f, order) == {id \in DOMAIN f : Fits(f, {x \in DOMAIN f : x = id \/ <<id, x>> \in order})}

WithEntry(f, id, value) == [x \in DOMAIN f \cup {id} |-> IF x = id THEN value ELSE f[x]]

(* A context larger than the cache is not put, and what the id had stays. *)
Put(id, items, way, key) ==
    LET filled == WithEntry(contexts, id, [items |-> items, born |-> clock])
        kept == Kept(filled, MadeNewest(id))
        replaced == Cached \cap {id}
    IN IF Len(items) > MaxBytes
       THEN UNCHANGED <<contexts, usedBefore, owners, cacheBytes>>
       ELSE /\ contexts' = Restrict(filled, kept)
            /\ usedBefore' = MadeNewest(id) \cap (kept \X kept)
            /\ owners' = Restrict(WithEntry(owners, id, [way |-> way, key |-> key]), kept)
            /\ cacheBytes' = cacheBytes - SizeOf(contexts, replaced) + Len(items)
                                - SizeOf(filled, DOMAIN filled \ kept)

(* A lookup discards what is too old and makes what it reads the newest. *)
Looked(prev, read) ==
    LET left == Cached \ Stale(prev)
    IN /\ contexts' = Restrict(contexts, left)
       /\ usedBefore' = IF read THEN MadeNewest(prev) ELSE usedBefore \cap (left \X left)
       /\ owners' = Restrict(owners, DOMAIN owners \ Stale(prev))
       /\ cacheBytes' = cacheBytes - SizeOf(contexts, Stale(prev))

-----------------------------------------------------------------------------
(* The turns. *)

Known(prev) == prev \in Cached /\ ~Expired(prev)

(* Slip: whoever names a response may read it. *)
Refused_Never(prev, key) == FALSE

(* A keyed caller may only name a response its own key made. *)
Refused(prev, key) ==
    /\ key # "" /\ prev # NoTurn
    /\ IF Known(prev) THEN owners[prev].key # key ELSE TRUE

(* A Responses provider is handed the id itself where it can use it, or where *)
(* nobody knows it; everyone else gets the items.                            *)
Forwarded(way, prev) ==
    /\ way \in {"stateless", "stateful"}
    /\ IF Known(prev) THEN way = "stateful" /\ owners[prev].way = way ELSE TRUE

Expanded(way, prev) ==
    IF prev = NoTurn \/ Forwarded(way, prev) THEN <<>>
    ELSE IF Known(prev) THEN contexts[prev].items
    ELSE IF way = "chat" THEN <<Notice>> ELSE <<>>

(* The turns before a turn, the first one first. *)
Line(prev) == IF prev = NoTurn THEN <<>> ELSE Append(turns[prev].line, prev)

Turn(way, key, prev) ==
    [way |-> way, key |-> key, line |-> Line(prev), stage |-> "running",
     input |-> Expanded(way, prev)]

BeginTurn(way, key, prev) ==
    /\ Len(turns) < MaxTurns
    /\ ~Refused(prev, key)
    /\ turns' = Append(turns, Turn(way, key, prev))
    /\ Looked(prev, Known(prev) /\ ~Forwarded(way, prev))
    /\ UNCHANGED clock

RefuseTurn(key, prev) ==
    /\ Refused(prev, key)
    /\ Looked(prev, FALSE)
    /\ UNCHANGED <<clock, turns>>

(* The upstream completed the response: observed in its stream or its body. *)
CompleteTurn(id) ==
    LET turn == turns[id]
    IN /\ turn.stage = "running"
       /\ Put(id, turn.input \o <<id>>, turn.way, turn.key)
       /\ turns' = [turns EXCEPT ![id].stage = "completed"]
       /\ UNCHANGED clock

(* Other outcomes put nothing. *)
EndTurn(id) ==
    /\ turns[id].stage = "running"
    /\ turns' = [turns EXCEPT ![id].stage = "ended"]
    /\ UNCHANGED <<contexts, usedBefore, owners, cacheBytes, clock>>

CacheTick ==
    /\ clock < MaxTime
    /\ clock' = clock + 1
    /\ UNCHANGED <<contexts, usedBefore, owners, cacheBytes, turns>>

Completed == {id \in DOMAIN turns : turns[id].stage = "completed"}

CacheNext ==
    \/ \E key \in Keys, prev \in Completed \cup {NoTurn} :
          \/ \E way \in Ways : BeginTurn(way, key, prev)
          \/ RefuseTurn(key, prev)
    \/ \E id \in DOMAIN turns : CompleteTurn(id) \/ EndTurn(id)
    \/ CacheTick

CacheSpec == CacheInit /\ [][CacheNext]_cacheVars

-----------------------------------------------------------------------------
(* Properties. *)

(* The limits hold, the running count is the size of what is cached, and the *)
(* map of owners follows every replacement, eviction and expiry.             *)
LimitsHold ==
    /\ Cardinality(Cached) <= MaxEntries
    /\ cacheBytes = SizeOf(contexts, Cached) /\ cacheBytes <= MaxBytes
    /\ DOMAIN owners = Cached

(* The items after the notice, which can only stand at their head. *)
Recalled(input) ==
    IF input # <<>> /\ Head(input) = Notice THEN Tail(input) ELSE input

(* What a keyed turn is given comes from its own line of turns, each made    *)
(* with the same key, in order and without a hole: the tail of the line.     *)
(* ("test_access_key_cannot_replay_another_keys_context")                    *)
OwnHistory ==
    \A id \in DOMAIN turns :
        LET known == Recalled(turns[id].input)
        IN /\ IsSuffix(known, turns[id].line)
           /\ turns[id].key # "" =>
                 \A i \in 1..Len(known) : turns[known[i]].key = turns[id].key

(* A chat model that is not told the whole history is told that it is not:   *)
(* in a line of chat turns every gap is marked by the notice.                *)
GapIsMarked ==
    \A id \in DOMAIN turns :
        LET turn == turns[id] IN
        (/\ turn.way = "chat"
         /\ \A i \in 1..Len(turn.line) : turns[turn.line[i]].way = "chat")
        => Contains(turn.input, Notice) \/ turn.input = turn.line

(* "Force the client to replay the complete conversation so model switches   *)
(* cannot lose session context" (native_proxy.py, merge_model_catalog): what *)
(* is replayed to a chat model without a notice goes back to the first turn. *)
(* The code does not keep this one: the second turn through a stateful       *)
(* provider caches its own items only.                                       *)
SwitchKeepsContext ==
    \A id \in DOMAIN turns :
        turns[id].way = "chat" =>
            Contains(turns[id].input, Notice) \/ turns[id].input = turns[id].line

(* The cache of contexts keeps to its limits and to its owners, gives a turn *)
(* its own history only and tells it of every gap (_native_context_put,      *)
(* _native_context_owner, prepare_chat_responses_payload).                   *)
CacheSound == LimitsHold /\ OwnHistory /\ GapIsMarked

=============================================================================
