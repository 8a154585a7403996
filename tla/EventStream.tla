---------------------------- MODULE EventStream ----------------------------
(***************************************************************************)
(* The answer's way to the page: _sse writes events as frames of lines,    *)
(* the network delivers them in reads cut anywhere, and streamChatMessage  *)
(* puts the frames together and dispatches them.                           *)
(*                                                                         *)
(* A character is a symbol: a line feed, a field's name, or one that       *)
(* stands for text.  A payload is a text, which may hold all of these.     *)
(***************************************************************************)
EXTENDS Order, Sequences

Feed == "feed"
EventField == "event"
DataField == "data"

\* What json.dumps writes for a line feed.
Escaped == "escape"

\* What the api sends: an event's name has no line feed, and a payload is text.
Event(symbols) == [event : symbols \ {Feed}, payload : Seq(symbols \ {Escaped})]

\* json.dumps of a payload, on one line.
Dumps(payload) ==
    [i \in 1 .. Len(payload) |-> IF payload[i] = Feed THEN Escaped ELSE payload[i]]

\* JSON.parse.
Parse(data) ==
    [i \in 1 .. Len(data) |-> IF data[i] = Escaped THEN Feed ELSE data[i]]

\* _sse.
Sse(e) ==
    <<EventField, e.event, Feed, DataField>> \o Dumps(e.payload) \o <<Feed, Feed>>

\* The first n of the events, one after the other.
Wire(events, n) ==
    LET upto[i \in 0 .. n] == IF i = 0 THEN <<>> ELSE upto[i - 1] \o Sse(events[i])
    IN upto[n]

Lines(raw) ==
    LET ends == InOrder({i \in 1 .. Len(raw) : raw[i] = Feed} \cup {Len(raw) + 1}, Upward)
    IN [n \in 1 .. Len(ends) |->
           SubSeq(raw, IF n = 1 THEN 1 ELSE ends[n - 1] + 1, ends[n] - 1)]

\* The lines of a field, without its name.
Field(raw, name) ==
    LET lines == Lines(raw)
        of == InOrder({n \in 1 .. Len(lines) : lines[n] # <<>> /\ lines[n][1] = name},
                      Upward)
    IN [i \in 1 .. Len(of) |-> Tail(lines[of[i]])]

\* join, of at least one line.
Join(lines) ==
    LET upto[n \in 1 .. Len(lines)] ==
            IF n = 1 THEN lines[1] ELSE upto[n - 1] \o <<Feed>> \o lines[n]
    IN upto[Len(lines)]

\* parseSseFrame and dispatchFrame: what a frame makes the page do.
Dispatched(raw) ==
    LET data == Field(raw, DataField)
        named == Field(raw, EventField)
    IN IF data = <<>>
         THEN <<>>
         ELSE <<[event   |-> IF named = <<>> THEN "message" ELSE named[Len(named)][1],
                 payload |-> Parse(Join(data))]>>

\* indexOf of the empty line that ends a frame.
Boundaries(buffer) ==
    {i \in 1 .. Len(buffer) - 1 : buffer[i] = Feed /\ buffer[i + 1] = Feed}

\* The inner loop's round.
TakeFrame(s) ==
    LET b == CHOOSE i \in Boundaries(s.buffer) : \A j \in Boundaries(s.buffer) : i <= j
    IN IF Boundaries(s.buffer) = {}
         THEN s
         ELSE [buffer |-> SubSeq(s.buffer, b + 2, Len(s.buffer)),
               events |-> s.events \o Dispatched(SubSeq(s.buffer, 1, b - 1))]

\* Mutant: the buffer is the read's own.
OfThisRead(s, value) == [buffer |-> value, events |-> s.events]

\* buffer += value.
Buffered(s, value) == [buffer |-> s.buffer \o value, events |-> s.events]

\* The outer loop's round.
Read(s, value) ==
    LET after[n \in 0 .. Len(s.buffer) + Len(value)] ==
            IF n = 0 THEN Buffered(s, value) ELSE TakeFrame(after[n - 1])
    IN after[Len(s.buffer) + Len(value)]

\* The events of a stream that came in these reads.
Received(reads) ==
    LET upto[n \in 0 .. Len(reads)] ==
            IF n = 0 THEN [buffer |-> <<>>, events |-> <<>>]
                     ELSE Read(upto[n - 1], reads[n])
    IN upto[Len(reads)].events
=============================================================================
