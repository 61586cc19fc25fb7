---------------------------- MODULE StreamTranslator ----------------------------
(* The translator that turns the chunks of an upstream chat stream into the  *)
(* events of a Responses stream (protocol.py, StreamTranslator), driven as   *)
(* _handle_stream drives it: chunks, at most one retry whose translator      *)
(* starts from the items of the first, then _finish or the handler's own     *)
(* response.failed.  What a client makes of the events is kept with them.    *)
(*                                                                           *)
(* A chunk with several parts is the same as several chunks with one part    *)
(* each.  The handlers always defer the completion to the end of the stream, *)
(* so the other mode is left out, as are texts, names and identifiers.  Text *)
(* is a sequence of characters of which only the think tags mean anything;   *)
(* "r" stands for the text of reasoning_content, which is never content.     *)
EXTENDS Integers, Sequences, SequencesExt, FiniteSetsExt

CONSTANTS Pieces,    \* what one chunk may carry as content
          MaxChunks, \* chunks of one stream
          MaxToolCalls   \* _STREAM_TOOL_CALLS_MAX

ASSUME StreamAssumption ==
    /\ \A piece \in Pieces : piece \in Seq(STRING)
    /\ \A piece \in Pieces : \A i \in 1..Len(piece) : piece[i] # "r"
    /\ MaxChunks \in Nat /\ MaxToolCalls \in Nat \ {0}

Open  == <<"<", "o", ">">>   \* <think> and </think>: they share one character
Close == <<"<", "c", ">">>

Has(s, tag)    == tag \in SubSeqs(s)
Before(s, tag) == SubSeq(s, 1, IndexFirstSubSeq(tag, s) - 1)
After(s, tag)  == SubSeq(s, IndexFirstSubSeq(tag, s) + Len(tag), Len(s))

(* The arguments of a tool call so far: a JSON object that is complete, the  *)
(* beginning of one, or something no further piece can repair.               *)
Grown(args) ==
    CASE args = "none"  -> {"part", "whole", "spoilt"}
      [] args = "part"  -> {"part", "whole", "spoilt"}
      [] args = "whole" -> {"whole", "spoilt"}
      [] OTHER          -> {"spoilt"}

Tools == {"plain", "custom", "native"}  \* native: local shell, tool search

-----------------------------------------------------------------------------
(* The client that reads the events: what it was told of, what came out of   *)
(* order, how the response ended.                                            *)

Unread == [created |-> FALSE, added |-> {}, done |-> {}, odd |-> {},
           ended |-> "open", stray |-> FALSE]

Terminal == {"completed", "failed", "incomplete"}

OutOfOrder(r, kind, i) ==
    \/ kind = "added" /\ i \in r.added
    \/ kind \in {"delta", "done"} /\ i \notin r.added \ r.done

See(r, kind, i) ==
    [created |-> r.created \/ kind = "created",
     added   |-> IF kind = "added" THEN r.added \cup {i} ELSE r.added,
     done    |-> IF kind = "done" THEN r.done \cup {i} ELSE r.done,
     odd     |-> IF OutOfOrder(r, kind, i) THEN r.odd \cup {i} ELSE r.odd,
     ended   |-> IF kind \in Terminal THEN kind ELSE r.ended,
     stray   |-> \/ r.stray \/ r.ended # "open"
                 \/ kind = "created" /\ r.created
                 \/ kind \in {"added", "delta", "done"} /\ ~r.created]

-----------------------------------------------------------------------------
(* The translator at work. *)

Fresh(items, created, client) ==
    [created |-> created, reason |-> "none", items |-> items, first |-> Len(items),
     thinking |-> 0, text |-> 0, calls |-> <<>>,
     mode |-> "detecting", held |-> <<>>,
     thought |-> <<>>, visible |-> <<>>, client |-> client]

VARIABLES stage,   \* reading, over
          t,       \* the translator at work
          retried, \* it is the second one
          said,    \* the content it was given, since the last tool boundary
          cut,     \* a tool boundary came
          chunks   \* chunks of this stream so far

translatorVars == <<stage, t, retried, said, cut, chunks>>

Emit(s, kind, i) == [s EXCEPT !.client = See(@, kind, i)]

-----------------------------------------------------------------------------
(* The parts of the translator, as functions of its state. *)

Placed(s, kind) ==
    [s EXCEPT !.items = Append(@, [kind |-> kind, status |-> "in_progress"])]

Created(s) == IF s.created THEN s ELSE Emit([s EXCEPT !.created = TRUE], "created", 0)

Started(s, kind) == Emit(Placed(s, kind), "added", Len(s.items) + 1)

BeginThink(s) ==
    IF s.thinking # 0 THEN s
    ELSE [Started(s, "reasoning") EXCEPT !.thinking = Len(s.items) + 1]

Think(s, what) ==
    LET on == BeginThink(s)
    IN IF what = <<>> THEN s
       ELSE Emit([on EXCEPT !.thought = @ \o what], "delta", on.thinking)

(* Slip: the item that was closed is still taken for the open one. *)
EndThink_StaysOpen(s) ==
    IF s.thinking = 0 THEN s
    ELSE Emit([s EXCEPT !.items[s.thinking].status = "completed"], "done", s.thinking)

EndThink(s) ==
    IF s.thinking = 0 THEN s
    ELSE [Emit([s EXCEPT !.items[s.thinking].status = "completed"], "done", s.thinking)
             EXCEPT !.thinking = 0]

BeginText(s) ==
    IF s.text # 0 THEN s
    ELSE [Started(s, "message") EXCEPT !.text = Len(s.items) + 1]

Say(s, what) ==
    LET on == BeginText(s)
    IN IF what = <<>> THEN s
       ELSE Emit([on EXCEPT !.visible = @ \o what], "delta", on.text)

EndText(s) ==
    IF s.text = 0 THEN s
    ELSE [Emit([s EXCEPT !.items[s.text].status = "completed"], "done", s.text)
             EXCEPT !.text = 0]

(* Slip: thinking text is passed on as it comes. *)
Keep_Nothing(s) == 0

(* How much of the buffer may still become the closing tag. *)
Keep(s) ==
    Max({n \in 0..(Len(Close) - 1) :
            n <= Len(s) /\ IsPrefix(SubSeq(s, Len(s) - n + 1, Len(s)), Close)})

(* One turn of the loop over the content: what it does to the translator,    *)
(* what remains.                                                             *)
Scan(s, rest) ==
    LET buffer == s.held \o rest
        switch(mode) == [s EXCEPT !.held = <<>>, !.mode = mode]
        n == Len(buffer) - Keep(buffer)
        Turn(to, remains) == [s |-> to, rest |-> remains]
    IN IF rest = <<>> THEN Turn(s, rest)
       ELSE IF s.mode = "reasoning" THEN
          IF Has(buffer, Close)
          THEN Turn(EndThink(Think(switch("text"), Before(buffer, Close))),
                    After(buffer, Close))
          ELSE Turn(Think([s EXCEPT !.held = SubSeq(buffer, n + 1, Len(buffer))],
                          SubSeq(buffer, 1, n)), <<>>)
       ELSE IF s.mode = "detecting" /\ IsPrefix(buffer, Open)
          THEN Turn([s EXCEPT !.held = buffer], <<>>)
       ELSE IF Has(buffer, Open)
          THEN Turn(Say(switch("reasoning"), Before(buffer, Open)), After(buffer, Open))
       ELSE Turn(Say(switch("text"), buffer), <<>>)

(* Every turn takes a character at least, but a first one that finds the     *)
(* whole tag held back.                                                      *)
Content(s, piece) ==
    LET turn[n \in 0..(Len(piece) + 1)] ==
            IF n = 0 THEN [s |-> s, rest |-> piece]
            ELSE Scan(turn[n - 1].s, turn[n - 1].rest)
    IN turn[Len(piece) + 1].s

(* A tool call or the end of the stream: what was held back goes out. *)
Flush(s) ==
    LET let == [s EXCEPT !.held = <<>>,
                         !.mode = IF @ = "reasoning" /\ s.held = <<>> THEN @ ELSE "text"]
    IN IF s.mode = "reasoning" THEN Think(let, s.held) ELSE Say(let, s.held)

CallItem(s, i) == s.calls[i].item

(* The call with this index, made when its first delta comes. *)
Called(s, i) ==
    IF i <= Len(s.calls) THEN s
    ELSE [Placed(s, "call") EXCEPT
             !.calls = Append(@, [item |-> Len(s.items) + 1, tool |-> "none",
                                  args |-> "none", late |-> FALSE])]

Named(s, i, tool) ==
    IF tool = "none" \/ s.calls[i].tool # "none" THEN s
    ELSE Emit([s EXCEPT !.calls[i].tool = tool], "added", CallItem(s, i))

Argued(s, i, args) ==
    LET c  == s.calls[i]
        on == [s EXCEPT !.calls[i] = [c EXCEPT !.args = args, !.late = @ \/ c.tool = "none"]]
    IN IF c.tool = "custom" THEN on ELSE Emit(on, "delta", c.item)

EndCall(s, i) ==
    LET c == s.calls[i]
        on == [s EXCEPT !.items[c.item].status = "completed",
                        !.calls[i].late = @ \/ c.tool = "none"]
    IN Emit(IF c.tool = "custom" THEN Emit(on, "delta", c.item) ELSE on,
            "done", c.item)

EndCalls(s) ==
    LET ended[n \in 0..Len(s.calls)] == IF n = 0 THEN s ELSE EndCall(ended[n - 1], n)
    IN ended[Len(s.calls)]

OnlyThinking(s) == \A i \in 1..Len(s.items) : s.items[i].kind = "reasoning"

Torn(s) == \E i \in 1..Len(s.calls) : s.calls[i].args # "whole"

Finish(s) ==
    IF s.reason # "stop" \/ Torn(s)
    THEN Emit(s, "incomplete", 0)
    ELSE LET ended == EndCalls(EndText(EndThink(Flush(s))))
         IN Emit(ended, IF OnlyThinking(ended) THEN "failed" ELSE "completed", 0)

-----------------------------------------------------------------------------
TranslatorInit ==
    /\ stage = "reading"
    /\ t = Fresh(<<>>, FALSE, Unread)
    /\ retried = FALSE
    /\ said = <<>> /\ cut = FALSE
    /\ chunks = 0

Took(s) ==
    /\ stage = "reading"
    /\ chunks < MaxChunks
    /\ chunks' = chunks + 1
    /\ t' = s
    /\ UNCHANGED <<stage, retried>>

EmptyChunk ==
    /\ Took(Created(t))
    /\ UNCHANGED <<said, cut>>

ReasonChunk(reason) ==
    /\ Took([Created(t) EXCEPT !.reason = reason])
    /\ UNCHANGED <<said, cut>>

(* reasoning_content, or reasoning in one of its other forms *)
ReasoningChunk ==
    /\ Took(Think(Created(t), <<"r">>))
    /\ UNCHANGED <<said, cut>>

ContentChunk(piece) ==
    /\ Took(Content(Created(t), piece))
    /\ said' = said \o piece
    /\ UNCHANGED cut

CallOf(i, tool) == Named(Called(Flush(Created(t)), i), i, tool)

ToolChunk(i, tool) ==
    /\ i <= MaxToolCalls
    /\ \/ Took(CallOf(i, tool))
       \/ \E args \in Grown(CallOf(i, tool).calls[i].args) :
             Took(Argued(CallOf(i, tool), i, args))
    /\ cut' = TRUE
    /\ UNCHANGED said

(* The handler ends the stream itself, whatever became of the translator:    *)
(* the client sees none of the events of the chunk it failed at.             *)
HandlerFails(s) ==
    /\ stage = "reading"
    /\ stage' = "over"
    /\ t' = [s EXCEPT !.client = See(t.client, "failed", 0)]
    /\ UNCHANGED <<retried, chunks, said, cut>>

(* One call too many, or arguments too long.                                 *)
LimitExceeded(i, tool) ==
    /\ chunks < MaxChunks
    /\ HandlerFails(IF i > MaxToolCalls THEN Flush(Created(t)) ELSE CallOf(i, tool))

UpstreamFails == HandlerFails(t)

(* The upstream ended with thoughts and nothing else: a second stream, whose *)
(* translator starts from the items of the first.                            *)
Retry ==
    /\ stage = "reading"
    /\ ~retried /\ t.items # <<>> /\ OnlyThinking(t)
    /\ t' = Fresh(t.items, TRUE, t.client)
    /\ retried' = TRUE /\ chunks' = 0
    /\ said' = <<>> /\ cut' = FALSE
    /\ UNCHANGED stage

StreamEnds ==
    /\ stage = "reading"
    /\ retried \/ t.items = <<>> \/ ~OnlyThinking(t)
    /\ stage' = "over"
    /\ t' = Finish(t)
    /\ UNCHANGED <<retried, chunks, said, cut>>

TranslatorNext ==
    \/ EmptyChunk
    \/ \E reason \in {"stop", "length"} : ReasonChunk(reason)
    \/ ReasoningChunk
    \/ \E piece \in Pieces : ContentChunk(piece)
    \/ \E i \in 1..(Len(t.calls) + 1), tool \in Tools \cup {"none"} :
          ToolChunk(i, tool) \/ LimitExceeded(i, tool)
    \/ UpstreamFails
    \/ Retry
    \/ StreamEnds

TranslatorSpec == TranslatorInit /\ [][TranslatorNext]_translatorVars

-----------------------------------------------------------------------------
(* Properties. *)

(* The client is told of an item once, of its pieces while it is open, of    *)
(* its end once, and of one end of the response, nothing after it; only the  *)
(* items of calls whose first arguments came before their name, or that      *)
(* never got one, are out of order.                                          *)
EventsInOrder ==
    /\ ~t.client.stray
    /\ \A k \in t.client.odd : \E i \in 1..Len(t.calls) :
          t.calls[i].item = k /\ t.calls[i].late

(* "Tool calls must never be finalized without valid JSON" (protocol.py,     *)
(* _finish), and a completed response has an answer in it and leaves no item *)
(* of its stream open: items are done in the events as in the list.          *)
CompletedWhole ==
    t.client.ended = "completed" =>
        /\ \A i \in 1..Len(t.calls) : t.calls[i].args = "whole"
        /\ t.reason = "stop"
        /\ ~OnlyThinking(t)
        /\ (t.first + 1)..Len(t.items) \subseteq t.client.done
        /\ \A i \in 1..Len(t.items) :
              i \in t.client.done <=> t.items[i].status = "completed"

(* The thoughts that came as content. *)
FromContent(thought) ==
    LET kept[n \in 0..Len(thought)] ==
            IF n = 0 THEN <<>>
            ELSE IF thought[n] = "r" THEN kept[n - 1]
            ELSE Append(kept[n - 1], thought[n])
    IN kept[Len(thought)]

(* Where the content is cut into chunks does not show: content that opens    *)
(* with the think tag and has no later one is thought up to the closing tag  *)
(* and visible after it, content without the tag is visible; what is held    *)
(* back is only ever the beginning of a tag.                                 *)
CutIndependent ==
    LET thought == FromContent(t.thought) \o
                     (IF t.mode = "reasoning" THEN t.held ELSE <<>>)
        visible == t.visible \o (IF t.mode = "detecting" THEN t.held ELSE <<>>)
        rest    == SubSeq(said, Len(Open) + 1, Len(said))
    IN ~cut =>
        /\ IsPrefix(t.held, Open) \/ IsStrictPrefix(t.held, Close)
        /\ ~Has(said, Open) => thought = <<>> /\ visible = said
        /\ (IsStrictPrefix(Open, said) /\ ~Has(rest, Open)) =>
              IF Has(rest, Close)
              THEN thought = Before(rest, Close) /\ visible = After(rest, Close)
              ELSE thought = rest /\ visible = <<>>

(* What every reader of the stream relies on.                                *)
ResponseWellFormed == EventsInOrder /\ CompletedWhole

=============================================================================
