------------------------- MODULE DocumentLifecycle -------------------------
(***************************************************************************)
(* What the document pipeline promises its users, with no workers, queue   *)
(* or transactions: a document has a status and is in the search index     *)
(* whole or not at all, and its status changes in five ways.  Ingestion    *)
(* implements this specification.                                          *)
(***************************************************************************)
CONSTANTS
    Docs,
    HasText      \* the documents whose text yields chunks

VARIABLES
    status,      \* what GET /documents/{id} shows; "none" for a 404
    indexed      \* the documents whose chunks search can return

vars == <<status, indexed>>

TypeOK ==
    /\ status \in [Docs -> {"none", "pending", "processing", "ready", "failed"}]
    /\ indexed \subseteq HasText

Init ==
    /\ status = [d \in Docs |-> "none"]
    /\ indexed = {}

Become(d, s) == status' = [status EXCEPT ![d] = s]

Create(d) ==
    /\ status[d] = "none"
    /\ Become(d, "pending")
    /\ UNCHANGED indexed

Begin(d) ==
    /\ status[d] # "none"
    /\ Become(d, "processing")
    /\ UNCHANGED indexed

\* The chunks show together with the status, unless the run's view of the
\* status was stale; then the status stays what another run made it.
Publish(d) ==
    /\ status[d] # "none"
    /\ indexed' = indexed \cup ({d} \cap HasText)
    /\ Become(d, "ready") \/ UNCHANGED status

\* A failed run leaves in the index what an earlier run put there.
Fail(d) ==
    /\ status[d] # "none"
    /\ Become(d, "failed")
    /\ UNCHANGED indexed

Remove(d) ==
    /\ status[d] # "none"
    /\ Become(d, "none")
    /\ indexed' = indexed \ {d}

Next ==
    \E d \in Docs : Create(d) \/ Begin(d) \/ Publish(d) \/ Fail(d) \/ Remove(d)

Spec == Init /\ [][Next]_vars
=============================================================================
