----------------------------- MODULE MCAnswers -----------------------------
(* A small instance of AnswerPath for TLC.                                  *)
EXTENDS AnswerPath, TLC

Symmetry == Permutations(Docs)

\* Texts of up to five words of one, two or four characters.
ShortTexts ==
    UNION {{[i \in 1 .. n |-> LET upto[j \in 0 .. i] == IF j = 0 THEN 0
                                                         ELSE upto[j - 1] + w[j] + 1
                              IN upto[i]] :
              w \in [1 .. n -> {1, 2, 4}]} : n \in 0 .. 5}

SmallSizes == 1 .. 7

FewSymbols == {Feed, Escaped, EventField, DataField, "token", "done", "text"}

ShortEvent ==
    [event : {"token", "done"},
     payload : {<<>>, <<"text">>, <<DataField>>, <<Feed>>, <<Feed, Feed>>}]

\* Up to two events, of payloads that look like the frame around them.
ShortStreams == UNION {[1 .. n -> ShortEvent] : n \in 0 .. 2}
=============================================================================
