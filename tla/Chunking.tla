------------------------------ MODULE Chunking ------------------------------
(***************************************************************************)
(* chunk_text: a text is cut at word boundaries into overlapping windows.  *)
(*                                                                         *)
(* Characters are reduced to lengths.  After _normalize a text is its      *)
(* words with one space between them; it is given as the sequence whose    *)
(* i-th element is the position behind word i and one space, so that word  *)
(* i takes text[i] - text[i-1] - 1 characters.  A run of words is the      *)
(* interval of their numbers.                                              *)
(***************************************************************************)
EXTENDS Integers, Sequences

Edge(text, i) == IF i = 0 THEN 0 ELSE text[i]

\* Every word has at least one character.
IsText(text) ==
    /\ text \in Seq(Nat)
    /\ \A i \in 1 .. Len(text) : \A j \in 0 .. i - 1 :
           Edge(text, i) >= Edge(text, j) + 2

\* sum(len(w) + 1) over the words from first to last.
Spaced(text, first, last) == Edge(text, last) - Edge(text, first - 1)

\* len(" ".join(...)) of at least one word.
Joined(text, first, last) == Spaced(text, first, last) - 1

\* Mutant: the tail's length is tested before the word is added to it.
TailPastOverlap(text, first, last, overlap) ==
    CHOOSE f \in first .. last :
        /\ Spaced(text, f + 1, last) <= overlap
        /\ f = first \/ Spaced(text, f, last) > overlap

\* The overlap tail: the most of the last words that fit in overlap.
TailStart(text, first, last, overlap) ==
    CHOOSE f \in first .. last + 1 :
        /\ Spaced(text, f, last) <= overlap
        /\ f = first \/ Spaced(text, f - 1, last) > overlap

\* The loop's variables: chunks, current (the words from first to before
\* next) and length.
Start == [chunks |-> <<>>, first |-> 1, next |-> 1, length |-> 0]

\* One round of the loop.  The space before the word is counted although the
\* tail, whose words count with one each, may bring it already.
PlaceWord(text, size, overlap, s) ==
    LET word == s.next
        added == Joined(text, word, word) + (IF s.first < word THEN 1 ELSE 0)
        full == s.length + added > size /\ s.first < word
        tail == TailStart(text, s.first, word - 1, overlap)
    IN IF full
         THEN [chunks |-> Append(s.chunks, [first |-> s.first, last |-> word - 1]),
               first  |-> tail,
               next   |-> word + 1,
               length |-> Spaced(text, tail, word - 1) + added]
         ELSE [chunks |-> s.chunks,
               first  |-> s.first,
               next   |-> word + 1,
               length |-> s.length + added]

\* What is left in current is the last chunk.
Close(s) == Append(s.chunks, [first |-> s.first, last |-> s.next - 1])

ChunkText(text, size, overlap) ==
    LET scan[i \in 0 .. Len(text)] ==
            IF i = 0 THEN Start ELSE PlaceWord(text, size, overlap, scan[i - 1])
    IN IF text = <<>> THEN <<>> ELSE Close(scan[Len(text)])

-----------------------------------------------------------------------------
\* No word is lost or reordered: the first chunk starts the text, the last
\* ends it, each starts no later than behind the one before and repeats of it
\* no more than overlap, and each brings at least one new word.
Cover(text, overlap, chunks) ==
    /\ chunks[1].first = 1
    /\ chunks[Len(chunks)].last = Len(text)
    /\ \A i \in 1 .. Len(chunks) - 1 :
           /\ chunks[i].first <= chunks[i + 1].first
           /\ chunks[i + 1].first <= chunks[i].last + 1
           /\ chunks[i].last < chunks[i + 1].last
           /\ Spaced(text, chunks[i + 1].first, chunks[i].last) <= overlap

\* A chunk is longer than size only where one word does not fit: it is that
\* word behind the tail carried over, and nothing else.
Bounded(text, size, chunks) ==
    \A i \in 1 .. Len(chunks) :
        \/ Joined(text, chunks[i].first, chunks[i].last) <= size
        \/ chunks[i].last = IF i = 1 THEN chunks[i].first ELSE chunks[i - 1].last + 1
=============================================================================
