----------------------------- MODULE ToolHistory -----------------------------
(* The history of tool calls a conversation carries, and its repair.  Items  *)
(* come from whatever model ran the earlier turns and from a client that may *)
(* have been cut off, so calls and outputs need not match.  The bridge pairs *)
(* them twice: in the items it caches and sends to the native upstream       *)
(* (_repair_orphan_tool_outputs) and in the messages it makes of them for a  *)
(* chat model (_map_input_to_messages, _sanitize_tool_history).  The         *)
(* Responses providers of the configuration get and leave their items        *)
(* unrepaired (prepare_provider_responses_payload): their turns are not      *)
(* among those of a conversation here.                                       *)
(*                                                                           *)
(* An item is a record of its type, its call_id and its other id (0 is none, *)
(* ids are ordered as their strings are), whether it holds an image, and a   *)
(* number `n` that stands for all it says.                                   *)
EXTENDS Integers, SequencesExt, FiniteSetsExt

CONSTANTS Items,      \* the items a conversation may hold, with n = 0
          MaxItems    \* how many come up in one conversation

ItemTypes == {"call", "output", "shell_output", "reasoning", "search_call",
              "image_call", "user", "assistant", "other"}

ASSUME HistoryAssumption ==
    /\ MaxItems \in Nat
    /\ Items \subseteq [type : ItemTypes, call : Nat, id : Nat, image : BOOLEAN, n : {0}]

VARIABLES context,    \* the items of earlier turns, as they were cached
          delta,      \* the items of this turn's input so far
          came        \* every item that ever came, in order

contextVars == <<context, delta, came>>

IsCall(it) == it.type = "call"
IsOutput(it) == it.type \in {"output", "shell_output"}
Ids(it) == {it.call, it.id} \ {0}
Given(it) == IF it.call # 0 THEN it.call ELSE it.id

-----------------------------------------------------------------------------
(* Items for the native upstream.  An output no call shares an id with gets  *)
(* a call of its own before it, under its smallest id or one of its place,   *)
(* and takes that as its call_id if it has none.                             *)
Unavailable(id) == [type |-> "call", call |-> id, id |-> 0, image |-> FALSE, n |-> -1]

OrphanId(it, place) == IF Ids(it) = {} THEN -1 - place ELSE Min(Ids(it))

CallIds(items) == UNION {Ids(items[k]) : k \in {k \in DOMAIN items : IsCall(items[k])}}

IsOrphan(it, items) == IsOutput(it) /\ Ids(it) \cap CallIds(items) = {}

(* What an item becomes; an orphan without an id is named by its place in    *)
(* the repaired items.                                                       *)
Paired(items, k) ==
    LET it == items[k]
        id == OrphanId(it, k - 1 + Cardinality({j \in 1 .. k - 1 : IsOrphan(items[j], items)}))
    IN  IF IsOrphan(it, items)
        THEN <<Unavailable(id), IF it.call = 0 THEN [it EXCEPT !.call = id] ELSE it>>
        ELSE <<it>>

Repaired(items) == FlattenSeq([k \in DOMAIN items |-> Paired(items, k)])

-----------------------------------------------------------------------------
(* Messages for a chat model.  Calls that follow one another become one      *)
(* assistant message with the reasoning before them; images of outputs wait  *)
(* until the outputs are through and then come as a message of the user.     *)
Message(role, n) == [role |-> role, n |-> n, call |-> 0, calls |-> <<>>, why |-> <<>>]

Empty == [out |-> <<>>, calls |-> <<>>, why |-> <<>>, images |-> <<>>]

FlushCalls(m) ==
    IF m.calls = <<>> THEN m
    ELSE [m EXCEPT !.out = Append(@, [Message("assistant", 0) EXCEPT !.calls = m.calls, !.why = m.why]),
                   !.calls = <<>>, !.why = <<>>]

FlushImages(m) ==
    IF m.images = <<>> THEN m
    ELSE [m EXCEPT !.out = Append(@, [Message("pictures", 0) EXCEPT !.why = m.images]), !.images = <<>>]

AddReasoning(m, it) == [FlushImages(m) EXCEPT !.why = Append(@, it.n)]

AddImageCall(m, it) ==
    [FlushImages(FlushCalls(m)) EXCEPT !.out = Append(@, Message("assistant", it.n))]

AddOutput(m, it) ==
    [FlushCalls(m) EXCEPT !.images = IF it.image THEN Append(@, it.n) ELSE @,
       !.out = Append(@, [Message("tool", it.n) EXCEPT !.call = Given(it)])]

AddCall(m, it) == [FlushImages(m) EXCEPT !.calls = Append(@, [call |-> Given(it), n |-> it.n])]

(* Everything else is a message: reasoning goes with the assistant's next.   *)
AddMessage(m, it) ==
    LET flushed == FlushCalls(FlushImages(m)) IN
    IF it.type = "assistant"
    THEN [flushed EXCEPT !.why = <<>>,
            !.out = Append(@, [Message("assistant", it.n) EXCEPT !.why = flushed.why])]
    ELSE [flushed EXCEPT !.out = Append(@, Message("user", IF it.type = "user" THEN it.n ELSE 0))]

AddItem(m, it) ==
    CASE it.type = "reasoning" -> AddReasoning(m, it)
      [] it.type = "search_call" -> m
      [] it.type = "image_call" -> AddImageCall(m, it)
      [] it.type = "output" -> AddOutput(m, it)
      [] it.type = "call" -> AddCall(m, it)
      [] OTHER -> AddMessage(m, it)

(* Reasoning nothing followed goes to the last assistant message, if any.    *)
AttachReasoning(m) ==
    LET spoken == {k \in DOMAIN m.out : m.out[k].role = "assistant"} IN
    IF m.why = <<>> \/ spoken = {} THEN m.out
    ELSE [m.out EXCEPT ![Max(spoken)].why = @ \o m.why]

Collected(items) ==
    LET m[k \in 0 .. Len(items)] == IF k = 0 THEN Empty ELSE AddItem(m[k - 1], items[k])
    IN  m[Len(items)]

Mapped(items) == AttachReasoning(FlushImages(FlushCalls(Collected(items))))

-----------------------------------------------------------------------------
(* A message with calls takes the run of tool messages right after it.  Each *)
(* call is answered by its results there, or by a notice that its outcome is *)
(* unknown; any other tool message gets an unavailable call before it.       *)
HasCalls(msgs, i) == i \in DOMAIN msgs /\ msgs[i].calls # <<>>
Run(msgs, i) == {j \in DOMAIN msgs : j > i /\ \A k \in i + 1 .. j : msgs[k].role = "tool"}
InRun(msgs, j) == \E i \in 1 .. j - 1 : HasCalls(msgs, i) /\ j \in Run(msgs, i)

(* Slip: one result to a call, the rest is lost.                             *)
ResultsOf_First(msgs, i, id) ==
    LET found == {j \in Run(msgs, i) : msgs[j].call = id}
    IN  <<IF found # {} THEN msgs[Min(found)] ELSE [Message("tool", -1) EXCEPT !.call = id]>>

ResultsOf(msgs, i, id) ==
    LET found == {j \in Run(msgs, i) : msgs[j].call = id}
    IN  IF found = {} THEN <<[Message("tool", -1) EXCEPT !.call = id]>>
        ELSE FlattenSeq([j \in DOMAIN msgs |-> IF j \in found THEN <<msgs[j]>> ELSE <<>>])

(* Ids of a place in the history: a call's without one, an orphan's.         *)
PlaceId(i, k) == -100 * i - k

WithOrphanCall(msg, id) ==
    <<[Message("assistant", 0) EXCEPT !.calls = <<[call |-> id, n |-> -1]>>],
      [msg EXCEPT !.call = id]>>

Answered(msgs, i) ==
    LET calls == [k \in DOMAIN msgs[i].calls |->
                    [msgs[i].calls[k] EXCEPT !.call = IF @ = 0 THEN PlaceId(i, k) ELSE @]]
        ids   == {calls[k].call : k \in DOMAIN calls}
        rest  == {j \in Run(msgs, i) : msgs[j].call \notin ids}
        OrphanOf(j) == WithOrphanCall(msgs[j], IF msgs[j].call = 0 THEN PlaceId(i, 50 + j) ELSE msgs[j].call)
    IN  <<[msgs[i] EXCEPT !.calls = calls]>>
          \o FlattenSeq([k \in DOMAIN calls |-> ResultsOf(msgs, i, calls[k].call)])
          \o FlattenSeq([j \in DOMAIN msgs |-> IF j \in rest THEN OrphanOf(j) ELSE <<>>])

Block(msgs, i) ==
    CASE HasCalls(msgs, i) -> Answered(msgs, i)
      [] InRun(msgs, i) -> <<>>
      [] msgs[i].role = "tool" /\ ~InRun(msgs, i) ->
           WithOrphanCall(msgs[i], IF msgs[i].call = 0 THEN PlaceId(i, 50) ELSE msgs[i].call)
      [] OTHER -> <<msgs[i]>>

Sanitized(msgs) == FlattenSeq([i \in DOMAIN msgs |-> Block(msgs, i)])

-----------------------------------------------------------------------------
(* A conversation: items come in one by one, the request that is made of     *)
(* them is cached, and what the model replies is cached with it.             *)
Prepared == Repaired(context \o delta)

HistoryInit == context = <<>> /\ delta = <<>> /\ came = <<>>

Bring(it) ==
    /\ Len(came) < MaxItems
    /\ LET new == [it EXCEPT !.n = Len(came) + 1]
       IN  delta' = Append(delta, new) /\ came' = Append(came, new)
    /\ UNCHANGED context

SendTurn ==
    /\ delta # <<>>
    /\ context' = Prepared /\ delta' = <<>>
    /\ UNCHANGED came

Reply(it) ==
    /\ Len(came) < MaxItems /\ context # <<>> /\ delta = <<>>
    /\ it.type \in {"call", "reasoning", "image_call", "assistant"}
    /\ LET new == [it EXCEPT !.n = Len(came) + 1]
       IN  context' = Append(context, new) /\ came' = Append(came, new)
    /\ UNCHANGED delta

HistoryNext == (\E it \in Items : Bring(it) \/ Reply(it)) \/ SendTurn
HistorySpec == HistoryInit /\ [][HistoryNext]_contextVars

-----------------------------------------------------------------------------
(* What chat providers insist on: a tool message answers a call of the       *)
(* assistant message its run follows, and every call is answered there.      *)
PairedForChat(chat) ==
    \A i \in DOMAIN chat :
      /\ chat[i].role = "tool" =>
           \E a \in 1 .. i - 1 : /\ i \in Run(chat, a)
                                 /\ \E k \in DOMAIN chat[a].calls : chat[a].calls[k].call = chat[i].call
      /\ \A k \in DOMAIN chat[i].calls :
           \E j \in Run(chat, i) : chat[j].call = chat[i].calls[k].call

(* "Repair incomplete tool turns without erasing possible side effects"      *)
(* (protocol.py:404): each call is there once, each output and image at      *)
(* least once, what was said once and in order, and reasoning once if any    *)
(* message can carry it.  (An output of type local_shell_call_output is not  *)
(* known to the chat translation and is lost.)                               *)
NothingErased(chat) ==
    LET Of(T)  == {came[k].n : k \in {k \in DOMAIN came : came[k].type \in T}}
        calls  == UNION {{i} \X DOMAIN chat[i].calls : i \in DOMAIN chat}
        whys   == UNION {{i} \X DOMAIN chat[i].why : i \in {i \in DOMAIN chat : chat[i].role = "assistant"}}
        heard  == {i \in DOMAIN chat : chat[i].role \in {"user", "assistant"} /\ chat[i].n > 0}
        images == {i \in DOMAIN chat : chat[i].role = "pictures"}
    IN  /\ \A n \in Of({"call"}) : Cardinality({p \in calls : chat[p[1]].calls[p[2]].n = n}) = 1
        /\ Of({"output"}) \subseteq {chat[i].n : i \in {i \in DOMAIN chat : chat[i].role = "tool"}}
        /\ \A n \in Of({"output"}) : came[n].image =>
             \E i \in images : \E k \in DOMAIN chat[i].why : chat[i].why[k] = n
        /\ {chat[i].n : i \in heard} = Of({"user", "assistant", "image_call"})
        /\ \A i, j \in heard : i < j => chat[i].n < chat[j].n
        /\ \A n \in Of({"reasoning"}) :
             Cardinality({p \in whys : chat[p[1]].why[p[2]] = n}) = 1
               \/ Of({"assistant", "image_call", "call"}) = {}

(* A call is said to have an unknown outcome only if its output did not come *)
(* in the run of outputs that follows the calls.                             *)
DoubtFounded(chat, items) ==
    \A i \in DOMAIN chat : \A c \in DOMAIN chat[i].calls :
      LET call == chat[i].calls[c] IN
      call.n > 0 /\ (\E j \in Run(chat, i) : chat[j].n = -1 /\ chat[j].call = call.call) =>
        ~\E p, q, r \in DOMAIN items :
           /\ items[p].type = "call" /\ items[p].n = call.n
           /\ p < r /\ r <= q /\ Given(items[q]) = call.call
           /\ \A k \in p .. r - 1 : items[k].type \in {"call", "reasoning", "search_call"}
           /\ \A k \in r .. q : items[k].type \in {"output", "search_call"}
           /\ items[q].type = "output"

(* The native upstream finds the call of every output, and finds it by its   *)
(* call_id if nothing that came goes by the output's other id; and what was  *)
(* repaired in one turn is not touched again in the next: the conversation   *)
(* only grows.  (An orphan whose other id sorts before its call_id gets its  *)
(* call under that id.)                                                      *)
Crossed(a, b) == a.id \in Ids(b) \/ b.id \in Ids(a)

LinkedForNative(items) ==
    /\ \A k \in DOMAIN items : IsOutput(items[k]) =>
         /\ ~IsOrphan(items[k], items)
         /\ \/ items[k].id \in 1 .. items[k].call - 1
            \/ \E j \in DOMAIN items \ {k} : items[j].n > 0 /\ Crossed(items[j], items[k])
            \/ \E j \in DOMAIN items : IsCall(items[j]) /\ items[j].call = items[k].call
    /\ IsPrefix(context, items)

(* The tool calls of a conversation survive its repairs.                     *)
HistoryKept ==
    LET items == Prepared
        chat  == Sanitized(Mapped(items))
    IN  /\ PairedForChat(chat) /\ NothingErased(chat)
        /\ DoubtFounded(chat, items) /\ LinkedForNative(items)
=============================================================================
