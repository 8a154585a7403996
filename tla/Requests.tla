------------------------------ MODULE Requests ------------------------------
(***************************************************************************)
(* The requests of one api process: the connection pool they share, the    *)
(* tenant each transaction is bound to, and what row-level security then   *)
(* lets a statement read and write.                                        *)
(*                                                                         *)
(* A plain request runs in the transaction get_principal opens.  A chat    *)
(* request also streams: its generator opens a second session, which takes *)
(* a connection from the pool for each of its two transactions.            *)
(***************************************************************************)

CONSTANTS
    Orgs,       \* tenants
    NoOrg,      \* app.current_org_id is not set
    Conns,      \* connections the pool may open (pool_size and overflow)
    NoConn,     \* the session holds no connection
    Plain,      \* requests answered from the principal's transaction
    Chats,      \* POST /conversations/{id}/messages
    OrgOf       \* the tenant of each request's caller

Reqs == Plain \cup Chats

ASSUME RequestsAssumption ==
    /\ NoOrg \notin Orgs
    /\ NoConn \notin Conns
    /\ OrgOf \in [Reqs -> Orgs]
    /\ Plain \cap Chats = {}

\* A row of an org-scoped table: its org_id, the request that inserted it,
\* and which of that request's inserts it is.
Row == [org : Orgs, by : Reqs, part : {"row", "question", "answer"}]

RowOf(r, p) == [org |-> OrgOf[r], by |-> r, part |-> p]

Stage == {"new", "waiting", "open", "queried", "ask", "asking", "answer",
          "answering", "retrieved", "closing", "done", "failed"}

\* The stages at which a request waits for a connection of the pool.
Waiting == {"waiting", "ask", "answer"}

VARIABLES
    stage,   \* where each request is
    main,    \* the connection of its principal's session
    side,    \* the connection of its generator's session
    bound,   \* app.current_org_id on each connection
    rows,    \* committed rows
    seen     \* rows each request has read

vars == <<stage, main, side, bound, rows, seen>>

Init ==
    /\ stage = [r \in Reqs |-> "new"]
    /\ main = [r \in Reqs |-> NoConn]
    /\ side = [r \in Reqs |-> NoConn]
    /\ bound = [c \in Conns |-> NoOrg]
    /\ rows = {}
    /\ seen = [r \in Reqs |-> {}]

-----------------------------------------------------------------------------
Goto(r, s) == stage' = [stage EXCEPT ![r] = s]

Free == {c \in Conns : \A r \in Reqs : main[r] # c /\ side[r] # c}

\* set_org_context, the first statement of a transaction.
Bind(c, o) == [bound EXCEPT ![c] = o]

\* Mutant: the setting that ended reads as an empty string, not as unset.
UnbindEmpty(cs) == [c \in Conns |-> IF c \in cs THEN "" ELSE bound[c]]

\* A commit or a rollback ends what set_config(..., is_local) set.
Unbind(cs) == [c \in Conns |-> IF c \in cs THEN NoOrg ELSE bound[c]]

\* The policy org_isolation, USING: no row when nothing is bound.
Visible(c) == {x \in rows : x.org = bound[c]}

\* The policy, WITH CHECK.
Insertable(c, x) == x.org = bound[c]

\* The token or the key has been resolved; the session asks for a connection.
Arrive(r) ==
    /\ stage[r] = "new"
    /\ Goto(r, "waiting")
    /\ UNCHANGED <<main, side, bound, rows, seen>>

\* Mutant: one session serves every request.
BeginShared(r) ==
    /\ stage[r] = "waiting"
    /\ \E c \in Conns :
         /\ main' = [main EXCEPT ![r] = c]
         /\ bound' = Bind(c, OrgOf[r])
    /\ Goto(r, "open")
    /\ UNCHANGED <<side, rows, seen>>

\* get_principal: a connection is checked out, BEGIN, set_org_context.
BeginPrincipal(r) ==
    /\ stage[r] = "waiting"
    /\ \E c \in Free :
         /\ main' = [main EXCEPT ![r] = c]
         /\ bound' = Bind(c, OrgOf[r])
    /\ Goto(r, "open")
    /\ UNCHANGED <<side, rows, seen>>

\* The statements of the endpoint.
Query(r) ==
    /\ stage[r] = "open"
    /\ seen' = [seen EXCEPT ![r] = @ \cup Visible(main[r])]
    /\ Goto(r, "queried")
    /\ UNCHANGED <<main, side, bound, rows>>

\* A plain request ends: what it wrote is committed, or the policy refused it,
\* and the connection goes back to the pool.
Commit(r) ==
    /\ stage[r] = "queried" /\ r \in Plain
    /\ \/ rows' = rows
       \/ /\ Insertable(main[r], RowOf(r, "row"))
          /\ rows' = rows \cup {RowOf(r, "row")}
    /\ bound' = Unbind({main[r]})
    /\ main' = [main EXCEPT ![r] = NoConn]
    /\ Goto(r, "done")
    /\ UNCHANGED <<side, seen>>

\* The chat endpoint returns its StreamingResponse; the framework leaves the
\* principal's session open until the response is sent.
StartStream(r) ==
    /\ stage[r] = "queried" /\ r \in Chats
    /\ Goto(r, "ask")
    /\ UNCHANGED <<main, side, bound, rows, seen>>

\* event_stream begins a transaction of its own session.
BeginSide(r, from, to) ==
    /\ stage[r] = from
    /\ \E c \in Free :
         /\ side' = [side EXCEPT ![r] = c]
         /\ bound' = Bind(c, OrgOf[r])
    /\ Goto(r, to)
    /\ UNCHANGED <<main, rows, seen>>

\* Mutant: the session keeps its connection after a commit.
CommitKeeping(r, from, part, to) ==
    /\ stage[r] = from
    /\ Insertable(side[r], RowOf(r, part))
    /\ rows' = rows \cup {RowOf(r, part)}
    /\ bound' = Unbind({side[r]})
    /\ Goto(r, to)
    /\ UNCHANGED <<main, side, seen>>

\* It commits a message; the session gives its connection back.
CommitSide(r, from, part, to) ==
    /\ stage[r] = from
    /\ Insertable(side[r], RowOf(r, part))
    /\ rows' = rows \cup {RowOf(r, part)}
    /\ bound' = Unbind({side[r]})
    /\ side' = [side EXCEPT ![r] = NoConn]
    /\ Goto(r, to)
    /\ UNCHANGED <<main, seen>>

\* First transaction: the user's message.
BeginQuestion(r) == BeginSide(r, "ask", "asking")
CommitQuestion(r) == CommitSide(r, "asking", "question", "answer")

\* Mutant: the second transaction is not bound again.
BeginUnbound(r) ==
    /\ stage[r] = "answer"
    /\ \E c \in Free : side' = [side EXCEPT ![r] = c]
    /\ Goto(r, "answering")
    /\ UNCHANGED <<main, bound, rows, seen>>

\* Second transaction: retrieval, generation, the assistant's message.
BeginAnswer(r) == BeginSide(r, "answer", "answering")

Retrieve(r) ==
    /\ stage[r] = "answering"
    /\ seen' = [seen EXCEPT ![r] = @ \cup Visible(side[r])]
    /\ Goto(r, "retrieved")
    /\ UNCHANGED <<main, side, bound, rows>>

CommitAnswer(r) == CommitSide(r, "retrieved", "answer", "closing")

\* The stream is over and the request's exit stack closes the principal.
ClosePrincipal(r) ==
    /\ stage[r] = "closing"
    /\ bound' = Unbind({main[r]})
    /\ main' = [main EXCEPT ![r] = NoConn]
    /\ Goto(r, "done")
    /\ UNCHANGED <<side, rows, seen>>

\* The request fails: both sessions roll back.
RollBack(r) ==
    /\ bound' = Unbind({main[r], side[r]})
    /\ main' = [main EXCEPT ![r] = NoConn]
    /\ side' = [side EXCEPT ![r] = NoConn]
    /\ Goto(r, "failed")
    /\ UNCHANGED <<rows, seen>>

\* A statement fails, the client disconnects or the caller is refused.
Abort(r) ==
    /\ stage[r] \notin {"new", "done", "failed"}
    /\ RollBack(r)

\* Mutant: the pool waits without a limit.
WaitForever(r) == FALSE

\* No connection came free before the pool's timeout, which the engine leaves
\* at its default: the checkout raises.
TimeOut(r) ==
    /\ stage[r] \in Waiting
    /\ Free = {}
    /\ RollBack(r)

-----------------------------------------------------------------------------
Progress(r) ==
    \/ BeginPrincipal(r)
    \/ Query(r)
    \/ Commit(r)
    \/ StartStream(r)
    \/ BeginQuestion(r)
    \/ CommitQuestion(r)
    \/ BeginAnswer(r)
    \/ Retrieve(r)
    \/ CommitAnswer(r)
    \/ ClosePrincipal(r)

Next == \E r \in Reqs : Arrive(r) \/ Progress(r) \/ TimeOut(r) \/ Abort(r)

Spec == Init /\ [][Next]_vars

\* A request goes on, and one that waits for a connection gets one or is timed
\* out.
FairSpec == Spec /\ \A r \in Reqs : WF_vars(Progress(r) \/ TimeOut(r))

-----------------------------------------------------------------------------
(* Properties                                                              *)

TypeOK ==
    /\ stage \in [Reqs -> Stage]
    /\ main \in [Reqs -> Conns \cup {NoConn}]
    /\ side \in [Reqs -> Conns \cup {NoConn}]
    /\ bound \in [Conns -> Orgs \cup {NoOrg}]
    /\ rows \subseteq Row
    /\ seen \in [Reqs -> SUBSET Row]

\* No request reads a row of another tenant, however the pool hands one
\* connection from tenant to tenant and from transaction to transaction, and
\* whatever fails in between.
RowsStayInTenant ==
    /\ \A r \in Reqs : \A x \in seen[r] : x.org = OrgOf[r]
    /\ \A x \in rows : x.org = OrgOf[x.by]

\* A connection in the pool carries nobody's tenant: after a commit, a
\* rollback or a disconnect the next request starts unbound (db.py, "the
\* setting is scoped to the active transaction and cannot leak across pooled
\* connections").
PoolIsUnbound == \A c \in Free : bound[c] = NoOrg

\* Every read finds all its tenant's rows: row-level security answers a
\* transaction that forgot to bind its tenant with an empty result and no
\* error, so one missing set_org_context would show as an answer without
\* sources.
ReadsAreComplete ==
    [][\A r \in Reqs :
          /\ stage[r] \in {"open", "answering"}
          /\ stage'[r] \in {"queried", "retrieved"}
          => {x \in rows : x.org = OrgOf[r]} \subseteq seen'[r]]_vars

\* Every request ends, also where streams hold one connection each, wait for a
\* second, and between them hold the whole pool: its timeout fails one of
\* them, whose connection the others go on with.
RequestsEnd ==
    \A r \in Reqs : stage[r] = "waiting" ~> stage[r] \in {"done", "failed"}

\* Everyone waits on everyone: no connection is free, and each is held by a
\* request that waits for another one.
Stalled ==
    /\ Free = {}
    /\ \A r \in Reqs : main[r] # NoConn \/ side[r] # NoConn => stage[r] \in Waiting

\* Only streams lock the pool up: when everyone waits on everyone, every
\* connection is the principal's of a stream that waits for its second one
\* (get_principal keeps its session open while event_stream runs).
StallIsOfStreams ==
    Stalled => \A c \in Conns : \E r \in Chats :
        main[r] = c /\ side[r] = NoConn /\ stage[r] \in {"ask", "answer"}
=============================================================================
