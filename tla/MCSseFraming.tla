---------------------------- MODULE MCSseFraming ----------------------------
(* Small instances of SseFraming: up to three lines, or four of the shorter  *)
(* ones, of events on one data line or more, of comments and of [DONE], with *)
(* every kind of line end, and the same without the last one; and a stream   *)
(* that ends at once.                                                        *)
EXTENDS SseFraming

ShortLines == {<<>>, <<"d", "(", ")">>, <<"d", "(">>, <<"d", "h", "l", ")">>, <<"d", "D">>,
               <<":", "x", "x", "x", "x">>}
OtherLines == {<<"d">>, <<"d", "(", "x", "x">>, <<":", "x", "x", "x", "x", "x">>}

(* Every event is one object, and no object before its last line; the last   *)
(* event may be [DONE].                                                      *)
Whole(s) ==
    LET events == Groups(s) IN
    \A g \in DOMAIN events :
      LET values == Values(events[g]) IN
      \/ values = <<>>
      \/ /\ IsObject(Joined(values)) /\ Done \notin ToSet(values)
         /\ \A k \in 1 .. Len(values) - 1 : ~IsObject(Joined(SubSeq(values, 1, k)))
      \/ /\ values = <<Done>>
         /\ \A later \in g + 1 .. Len(events) : Values(events[later]) = <<>>

With(s, ending) == FlattenSeq([k \in DOMAIN s |-> IF s[k] = "n" THEN ending ELSE <<s[k]>>])

SmallStreams ==
    LET texts == UNION {[1 .. 2 -> ShortLines \cup OtherLines], [1 .. 3 -> ShortLines \cup OtherLines],
                          [1 .. 4 -> ShortLines]}
        plain == {s \in {FlattenSeq([k \in DOMAIN t |-> Append(t[k], "n")]) : t \in texts} : Whole(s)}
    IN  {<<>>} \cup plain \cup {Front(s) : s \in plain}
          \cup {With(s, <<"r", "n">>) : s \in plain} \cup {With(s, <<"r">>) : s \in plain}
=============================================================================
