---------------------------- MODULE MCIngestion ----------------------------
(* Small instances of Ingestion for TLC, with the chunk counts chunk_text   *)
(* gives for their texts.                                                   *)
EXTENDS Ingestion, Chunking

\* One document has three words, of which two fit in a chunk, and the others
\* have no text.
CONSTANT TextDoc
TextOf(d) == IF d = TextDoc THEN <<3, 6, 9>> ELSE <<>>
SomeEmpty == [d \in Docs |-> IF d = TextDoc THEN 2 ELSE 0]

ASSUME CountsAssumption ==
    \A d \in Docs : ChunkCount[d] = Len(ChunkText(TextOf(d), 5, 2))
=============================================================================
