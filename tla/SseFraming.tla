----------------------------- MODULE SseFraming -----------------------------
(* Server-sent events, as the bridge's four readers take them from a stream  *)
(* of bytes that may be cut at any place: the chat upstream's client, the    *)
(* observer beside a relayed stream, the converter of a Responses stream to  *)
(* chat, and the websocket that forwards events as frames.                   *)
(*                                                                           *)
(* Bytes are abstract: "d" is the prefix data: of a line, ":" the start of a *)
(* comment, "e" that of another field, "(" and ")" begin and end a JSON      *)
(* object, "x" is text in it, "h" and "l" are the two bytes of a character,  *)
(* "D" is the text [DONE], "r" and "n" are carriage return and line feed.    *)
EXTENDS Integers, SequencesExt

CONSTANTS Streams,    \* the byte streams an upstream may send
          MaxLine,    \* _SSE_LINE_MAX_BYTES, _SSE_PENDING_MAX_BYTES
          MaxEvent,   \* _SSE_EVENT_MAX_BYTES
          MaxLines    \* _SSE_EVENT_MAX_LINES

ASSUME FramingAssumption ==
    /\ MaxLine \in Nat /\ MaxEvent \in Nat /\ MaxLines \in Nat
    /\ \A s \in Streams : s \in Seq({"d", ":", "e", "(", ")", "x", "h", "l", "D", "r", "n"})

VARIABLES stream,     \* what the upstream sends
          fed,        \* how many bytes of it have been read
          torn,       \* whether a chunk ended inside a character or a CRLF
          over,       \* whether its end has been read
          client, observer, converter, socket    \* the readers

framingVars == <<stream, fed, torn, over, client, observer, converter, socket>>

(* Parts of a sequence between the bytes that satisfy Ends.                  *)
Split(s, Ends(_)) ==
    LET Next(parts, b) == IF Ends(b) THEN Append(parts, <<>>)
                          ELSE [parts EXCEPT ![Len(parts)] = Append(@, b)]
    IN  FoldLeft(Next, << <<>> >>, s)

Joined(lines) == IF lines = <<>> THEN <<>>
                 ELSE Head(lines) \o FlattenSeq([k \in 1 .. Len(lines) - 1 |-> <<"n">> \o lines[k + 1]])

HasPrefix(line, b) == line # <<>> /\ Head(line) = b
Values(lines) ==
    LET data == SelectSeq(lines, LAMBDA line : HasPrefix(line, "d"))
    IN  [k \in DOMAIN data |-> Tail(data[k])]

(* What a parser makes of a document: white space between its parts is gone. *)
Text(doc) == SelectSeq(doc, LAMBDA b : b \notin {"r", "n"})
IsObject(doc) ==
    LET t == Text(doc) IN
    Len(t) > 1 /\ t[1] = "(" /\ t[Len(t)] = ")" /\ \A k \in 2 .. Len(t) - 1 : t[k] # ")"

Done == <<"D">>

-----------------------------------------------------------------------------
(* The client of a chat upstream: bounded lines first, whatever ends them,   *)
(* then events.  Text after a data line that is no field of its own belongs  *)
(* to it: some providers break a line inside a string.  It reads no further  *)
(* than [DONE].                                                              *)
ClientInit == [pending |-> <<>>, skip |-> FALSE, data |-> <<>>, size |-> 0, out |-> <<>>,
               broken |-> FALSE, done |-> FALSE]

Yield(c) ==
    LET doc == Text(Joined(c.data)) IN
    CASE c.data = <<>> -> c
      [] c.data # <<>> /\ doc = Done -> [c EXCEPT !.data = <<>>, !.done = TRUE]
      [] OTHER -> [c EXCEPT !.data = <<>>, !.out = Append(@, doc)]

Collect(c, line, value) ==
    IF c.size + Len(line) > MaxEvent THEN [c EXCEPT !.broken = TRUE]
    ELSE [c EXCEPT !.size = @ + Len(line), !.data = Append(@, value)]

ClientLine(c, line) ==
    CASE line = <<>> -> [Yield(c) EXCEPT !.size = 0]
      [] HasPrefix(line, "d") -> Collect(c, line, Tail(line))
      [] line # <<>> /\ Head(line) \notin {":", "d", "e"} /\ c.data # <<>> -> Collect(c, line, line)
      [] OTHER -> c

ClientByte(c, b) ==
    CASE c.broken \/ c.done -> c
      [] b = "n" /\ c.skip /\ ~(c.broken \/ c.done) -> [c EXCEPT !.skip = FALSE]
      [] b \in {"r", "n"} /\ ~(b = "n" /\ c.skip) /\ ~(c.broken \/ c.done) ->
           ClientLine([c EXCEPT !.pending = <<>>, !.skip = (b = "r")], c.pending)
      [] OTHER -> IF Len(c.pending) + 1 > MaxLine THEN [c EXCEPT !.broken = TRUE]
                  ELSE [c EXCEPT !.pending = Append(@, b), !.skip = FALSE]

ClientEnd(c) ==
    LET last == IF c.pending = <<>> THEN c ELSE ClientLine([c EXCEPT !.pending = <<>>], c.pending)
    IN  IF c.broken \/ c.done THEN c ELSE IF last.broken \/ last.done THEN last ELSE Yield(last)

-----------------------------------------------------------------------------
(* The observer: lines end with a line feed, and an event is an object the   *)
(* moment its data is one; [DONE] drops what is no object yet.  A limit that *)
(* is exceeded takes what the chunk held with it.                            *)
ObserverInit == [pending |-> <<>>, data |-> <<>>, size |-> 0, out |-> <<>>, broken |-> FALSE]

Cleared(o) == [o EXCEPT !.data = <<>>, !.size = 0]

Stripped(line) ==
    LET kept == {k \in DOMAIN line : \E j \in k .. Len(line) : line[j] # "r"}
    IN  SubSeq(line, 1, Cardinality(kept))

ObserverLine(o, raw) ==
    LET line  == Stripped(raw)
        value == Tail(line)
        with  == [o EXCEPT !.data = Append(@, value), !.size = @ + Len(value)]
        doc   == Joined(with.data)
    IN  CASE o.broken -> o
          [] Len(line) > MaxLine /\ ~o.broken -> [Cleared(o) EXCEPT !.broken = TRUE]
          [] line = <<>> /\ ~o.broken -> Cleared(o)
          [] ~HasPrefix(line, "d") /\ line # <<>> /\ Len(line) <= MaxLine /\ ~o.broken -> o
          [] OTHER ->
               IF value = Done THEN Cleared(o)
               ELSE IF Len(o.data) >= MaxLines \/ o.size + Len(value) > MaxEvent
               THEN [Cleared(o) EXCEPT !.broken = TRUE]
               ELSE IF IsObject(doc) THEN [Cleared(with) EXCEPT !.out = Append(@, Text(doc))]
               ELSE with

(* Slip: the line that a chunk breaks off is not kept for the next.          *)
ObserverFeed_Forgets(o, chunk) ==
    LET lines == Split(chunk, LAMBDA b : b = "n")
    IN  FoldLeft(ObserverLine, o, Front(lines))

ObserverFeed(o, chunk) ==
    LET lines == Split(o.pending \o chunk, LAMBDA b : b = "n")
        rest  == Last(lines)
        heard == FoldLeft(ObserverLine, [o EXCEPT !.pending = rest], Front(lines))
    IN  IF o.broken THEN o
        ELSE IF Len(rest) > MaxLine \/ heard.broken
        THEN [Cleared(o) EXCEPT !.pending = <<>>, !.broken = TRUE]
        ELSE heard

ObserverEnd(o) == IF o.pending = <<>> \/ o.broken THEN o
                  ELSE ObserverLine([o EXCEPT !.pending = <<>>], o.pending)

-----------------------------------------------------------------------------
(* Converter and websocket decode each chunk by itself: a byte whose other   *)
(* half is in another chunk becomes a replacement character, and a CRLF cut  *)
(* in two stays what it is.  Blocks end at an empty line.                    *)
Decoded(chunk) ==
    [k \in DOMAIN chunk |->
      IF \/ chunk[k] = "h" /\ ~(k < Len(chunk) /\ chunk[k + 1] = "l")
         \/ chunk[k] = "l" /\ ~(k > 1 /\ chunk[k - 1] = "h")
      THEN "?" ELSE chunk[k]]

WithoutCr(chunk) ==
    LET kept == SelectSeq([k \in DOMAIN chunk |-> k],
                  LAMBDA k : ~(chunk[k] = "r" /\ k < Len(chunk) /\ chunk[k + 1] = "n"))
    IN  [k \in DOMAIN kept |-> chunk[kept[k]]]

Received(chunk) == WithoutCr(Decoded(chunk))

BlocksInit == [buffer |-> <<>>, out |-> <<>>]

Parsed(out, block) ==
    LET doc == Joined(Values(Split(block, LAMBDA b : b = "n")))
    IN  IF IsObject(doc) THEN Append(out, Text(doc)) ELSE out

ConverterByte(v, b) ==
    IF b = "n" /\ v.buffer # <<>> /\ Last(v.buffer) = "n"
    THEN [buffer |-> <<>>, out |-> Parsed(v.out, Front(v.buffer))]
    ELSE [v EXCEPT !.buffer = Append(@, b)]

ConverterFeed(v, chunk) == FoldLeft(ConverterByte, v, Received(chunk))
ConverterEnd(v) == [v EXCEPT !.out = Parsed(@, v.buffer)]

Relayed(out, block) ==
    LET doc == Joined(Values(Split(block, LAMBDA b : b \in {"r", "n"})))
    IN  IF Text(doc) \notin {<<>>, Done} THEN Append(out, Text(doc)) ELSE out

SocketByte(v, b) ==
    IF b = "n" /\ v.buffer # <<>> /\ Last(v.buffer) = "n"
    THEN [buffer |-> <<>>, out |-> Relayed(v.out, Front(v.buffer))]
    ELSE [v EXCEPT !.buffer = Append(@, b)]

SocketFeed(v, chunk) == FoldLeft(SocketByte, v, Received(chunk))

-----------------------------------------------------------------------------
FramingInit ==
    /\ stream \in Streams
    /\ fed = 0 /\ torn = FALSE /\ over = FALSE
    /\ client = ClientInit /\ observer = ObserverInit
    /\ converter = BlocksInit /\ socket = BlocksInit

Feed ==
    /\ ~over
    /\ \E to \in fed + 1 .. Len(stream) :
         LET chunk == SubSeq(stream, fed + 1, to) IN
         /\ fed' = to
         /\ torn' = (torn \/ (to < Len(stream) /\ SubSeq(stream, to, to + 1) \in {<<"h", "l">>, <<"r", "n">>}))
         /\ client' = FoldLeft(ClientByte, client, chunk)
         /\ observer' = ObserverFeed(observer, chunk)
         /\ converter' = ConverterFeed(converter, chunk)
         /\ socket' = SocketFeed(socket, chunk)
    /\ UNCHANGED <<stream, over>>

(* The end of the stream: the websocket drops what no empty line ended.      *)
FramingEnds ==
    /\ ~over /\ fed = Len(stream)
    /\ over' = TRUE
    /\ client' = ClientEnd(client) /\ observer' = ObserverEnd(observer)
    /\ converter' = ConverterEnd(converter)
    /\ UNCHANGED <<stream, fed, torn, socket>>

FramingNext == Feed \/ FramingEnds
FramingSpec == FramingInit /\ [][FramingNext]_framingVars

-----------------------------------------------------------------------------
(* The reference: the lines of the whole stream, whatever ends them, grouped *)
(* at the empty ones.                                                        *)
LinesOf(s) ==
    LET parts == Split(WithoutCr(s), LAMBDA b : b \in {"r", "n"})
    IN  IF Last(parts) = <<>> THEN Front(parts) ELSE parts

Groups(s) ==
    LET Next(groups, line) == IF line = <<>> THEN Append(groups, <<>>)
                              ELSE [groups EXCEPT ![Len(groups)] = Append(@, line)]
    IN  FoldLeft(Next, << <<>> >>, LinesOf(s))

DocumentsOf(groups) ==
    SelectSeq([k \in DOMAIN groups |-> Text(Joined(Values(groups[k])))],
              LAMBDA doc : doc \notin {<<>>, Done})

Documents(s) == DocumentsOf(Groups(s))
Ended(s) == DocumentsOf(Front(Groups(s)))

(* Whether a line, or the lines of an event, exceed a limit by one at most   *)
(* to spare: the observer counts a carriage return that a chunk cut off.     *)
LineOver(s, spare) == \E line \in ToSet(LinesOf(s)) : Len(line) + spare > MaxLine
EventOver(s) ==
    \E event \in ToSet(Groups(s)) :
      FoldLeft(LAMBDA n, line : n + Len(line), 0,
               SelectSeq(event, LAMBDA line : HasPrefix(line, "d"))) > MaxEvent

LinesOver(s) == \E event \in ToSet(Groups(s)) : Len(Values(event)) > MaxLines

BareCr(s) == \E k \in DOMAIN s : s[k] = "r" /\ ~(k < Len(s) /\ s[k + 1] = "n")

(* Every reader sees the events the stream holds, in order, and when it has  *)
(* ended all of them, wherever the chunks were cut, as far as it can: the    *)
(* observer takes no bare carriage return for a line end, converter and      *)
(* websocket read a cut character or CRLF wrongly, and the websocket does    *)
(* not send what no empty line ends.  The limits bite for long lines and     *)
(* long events only, and in the observer for events of many lines.           *)
EventsSeen ==
    LET all == Documents(stream) IN
    /\ IsPrefix(client.out, all) /\ (over /\ ~client.broken => client.out = all)
    /\ ~BareCr(stream) =>
         IsPrefix(observer.out, all) /\ (over /\ ~observer.broken => observer.out = all)
    /\ ~BareCr(stream) /\ ~torn =>
         /\ IsPrefix(converter.out, all) /\ (over => converter.out = all)
         /\ IsPrefix(socket.out, all) /\ (over => socket.out = Ended(stream))
    /\ client.broken => LineOver(stream, 0) \/ EventOver(stream)
    /\ observer.broken =>
         LineOver(stream, 1) \/ EventOver(stream) \/ LinesOver(stream) \/ BareCr(stream)
    /\ over /\ LineOver(stream, 0) =>
         (client.broken \/ client.done) /\ (observer.broken \/ BareCr(stream))
    /\ over /\ LinesOver(stream) => observer.broken \/ BareCr(stream)

(* A test of the observer (test_native_observability.py:97) feeds it a       *)
(* character in two chunks; the same of the converter.  The code does not    *)
(* keep this one.                                                            *)
CutCharactersRead == over /\ ~BareCr(stream) => converter.out = Documents(stream)
=============================================================================
