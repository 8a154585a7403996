----------------------------- MODULE AnswerPath -----------------------------
(***************************************************************************)
(* The way of an answer: a document's text is cut into the chunks that     *)
(* Answers ranks (Chunking), and what the provider says is streamed to the *)
(* page (EventStream).                                                     *)
(***************************************************************************)
EXTENDS Answers, Chunking, EventStream

CONSTANTS
    Texts,    \* texts a document may have
    Sizes,    \* and chunk_size may be
    Symbols,  \* what a stream is made of
    Streams   \* the events of an answer

ASSUME AnswerPathAssumption ==
    /\ \A text \in Texts : IsText(text)
    /\ Sizes \subseteq Nat
    /\ {Feed, Escaped, EventField, DataField} \subseteq Symbols
    /\ Streams \subseteq Seq(Event(Symbols))

Windows ==
    \A text \in Texts, size \in Sizes : \A overlap \in 0 .. size - 1 :
        LET windows == ChunkText(text, size, overlap) IN
        IF text = <<>>
          THEN windows = <<>>
          ELSE Cover(text, overlap, windows) /\ Bounded(text, size, windows)

\* Chunks are windows over the whole text: every word is in one, in order,
\* neighbours share at most the overlap, and only a word that does not fit
\* makes a chunk longer than size (chunk_text's loop over the words).  No
\* state is in it: it is asked before the question is.
ChunksAreWindows == stage = "idle" => Windows

\* The events that end within the first last symbols.
Whole(events, last) ==
    LET whole == {n \in 0 .. Len(events) : Len(Wire(events, n)) <= last}
    IN SubSeq(events, 1, CHOOSE n \in whole : \A m \in whole : m <= n)

FramesOverReads ==
    \A events \in Streams :
        LET wire == Wire(events, Len(events)) IN
        \A last \in 0 .. Len(wire) : \A i \in 0 .. last : \A j \in i .. last :
            Received(<<SubSeq(wire, 1, i), SubSeq(wire, i + 1, j), SubSeq(wire, j + 1, last)>>)
                = Whole(events, last)

\* The page does what the server sent, event by event, wherever the network
\* cuts the stream into reads; of a stream that breaks off it does the events
\* that came whole (the loop of streamChatMessage against _sse).  No state is
\* in it either.
FramesSurviveReads == stage = "idle" => FramesOverReads
=============================================================================
