--------------------------- MODULE RequestsProofs ---------------------------
(***************************************************************************)
(* Proofs about Requests, for any number of tenants, requests and          *)
(* connections.  PoolInv says who holds which connection and what it is    *)
(* bound to; tenant isolation and the ways the pool locks up follow.       *)
(***************************************************************************)
EXTENDS Requests, TLAPS

\* Stages at which the generator's session is inside a transaction.
SideStages == {"asking", "answering", "retrieved"}

\* Stages at which the principal's session may hold a connection.
MainStages == {"open", "queried", "ask", "answer", "closing"} \cup SideStages

\* A session holds a connection exactly while it is in a transaction.
Holding ==
    \A r \in Reqs :
        /\ stage[r] \in {"open", "queried"} => main[r] # NoConn
        /\ stage[r] \notin MainStages => main[r] = NoConn
        /\ stage[r] \in SideStages => side[r] # NoConn
        /\ stage[r] \notin SideStages => side[r] = NoConn
        /\ stage[r] \notin {"new", "waiting", "open", "queried", "done", "failed"}
              => r \in Chats

\* No connection is held twice.
Exclusive ==
    \A r, q \in Reqs :
        /\ main[r] # NoConn => main[r] # side[q]
        /\ main[r] # NoConn /\ r # q => main[r] # main[q]
        /\ side[r] # NoConn /\ r # q => side[r] # side[q]

\* A held connection is bound to its holder's tenant, a free one to nobody.
BoundToHolder ==
    /\ \A r \in Reqs : main[r] # NoConn => bound[main[r]] = OrgOf[r]
    /\ \A r \in Reqs : side[r] # NoConn => bound[side[r]] = OrgOf[r]
    /\ PoolIsUnbound

PoolInv ==
    /\ TypeOK
    /\ Holding
    /\ Exclusive
    /\ BoundToHolder
    /\ RowsStayInTenant

LEMMA PoolInvInit == Init => PoolInv
BY RequestsAssumption
   DEF Init, PoolInv, TypeOK, Holding, Exclusive, BoundToHolder, PoolIsUnbound,
       RowsStayInTenant, Stage, MainStages, SideStages, Row, Free

-----------------------------------------------------------------------------
(* Type correctness, action by action.                                     *)

LEMMA RowOfType == \A r \in Reqs : \A p \in {"row", "question", "answer"} :
    RowOf(r, p) \in Row /\ RowOf(r, p).org = OrgOf[r] /\ RowOf(r, p).by = r
BY RequestsAssumption DEF RowOf, Row

LEMMA UnbindType ==
    ASSUME TypeOK, NEW cs PROVE Unbind(cs) \in [Conns -> Orgs \cup {NoOrg}]
BY DEF TypeOK, Unbind

LEMMA BindType ==
    ASSUME TypeOK, NEW c \in Conns, NEW r \in Reqs
    PROVE  Bind(c, OrgOf[r]) \in [Conns -> Orgs \cup {NoOrg}]
BY RequestsAssumption DEF TypeOK, Bind

LEMMA TypeStep == ASSUME TypeOK, [Next]_vars PROVE TypeOK'
<1>1. CASE UNCHANGED vars
  BY <1>1 DEF TypeOK, vars
<1>2. ASSUME NEW r \in Reqs, Arrive(r) PROVE TypeOK'
  BY <1>2 DEF TypeOK, Arrive, Goto, Stage
<1>3. ASSUME NEW r \in Reqs, BeginPrincipal(r) PROVE TypeOK'
  BY <1>3, BindType DEF TypeOK, BeginPrincipal, Goto, Stage, Free
<1>4. ASSUME NEW r \in Reqs, Query(r) PROVE TypeOK'
  BY <1>4 DEF TypeOK, Query, Goto, Stage, Visible
<1>5. ASSUME NEW r \in Reqs, Commit(r) PROVE TypeOK'
  BY <1>5, UnbindType, RowOfType DEF TypeOK, Commit, Goto, Stage
<1>6. ASSUME NEW r \in Reqs, StartStream(r) PROVE TypeOK'
  BY <1>6 DEF TypeOK, StartStream, Goto, Stage
<1>7. ASSUME NEW r \in Reqs, BeginQuestion(r) \/ BeginAnswer(r) PROVE TypeOK'
  <2>1. PICK c \in Conns, s \in {"asking", "answering"} :
          /\ stage' = [stage EXCEPT ![r] = s]
          /\ side' = [side EXCEPT ![r] = c]
          /\ bound' = Bind(c, OrgOf[r])
          /\ UNCHANGED <<main, rows, seen>>
    BY <1>7 DEF BeginQuestion, BeginAnswer, BeginSide, Goto, Free
  <2> QED
    BY <2>1, BindType DEF TypeOK, Stage
<1>8. ASSUME NEW r \in Reqs, CommitQuestion(r) \/ CommitAnswer(r) PROVE TypeOK'
  BY <1>8, UnbindType, RowOfType
     DEF TypeOK, CommitQuestion, CommitAnswer, CommitSide, Goto, Stage
<1>9. ASSUME NEW r \in Reqs, Retrieve(r) PROVE TypeOK'
  BY <1>9 DEF TypeOK, Retrieve, Goto, Stage, Visible
<1>10. ASSUME NEW r \in Reqs, ClosePrincipal(r) PROVE TypeOK'
  BY <1>10, UnbindType DEF TypeOK, ClosePrincipal, Goto, Stage
<1>11. ASSUME NEW r \in Reqs, TimeOut(r) \/ Abort(r) PROVE TypeOK'
  BY <1>11, UnbindType DEF TypeOK, TimeOut, Abort, RollBack, Goto, Stage
<1> QED
  BY <1>1, <1>2, <1>3, <1>4, <1>5, <1>6, <1>7, <1>8, <1>9, <1>10, <1>11
     DEF Next, Progress
-----------------------------------------------------------------------------
(* Every action takes a connection, gives connections back, or leaves the  *)
(* sessions alone.  The three lemmas below prove the invariant for each    *)
(* kind, from what such a step does to the connections.                    *)

\* r's session s takes the free connection c and binds it.
LEMMA TakeMain ==
    ASSUME PoolInv, TypeOK', NEW r \in Reqs, BeginPrincipal(r)
    PROVE  PoolInv'
<1>1. PICK c \in Free :
         /\ main' = [main EXCEPT ![r] = c]
         /\ bound' = [bound EXCEPT ![c] = OrgOf[r]]
  BY DEF BeginPrincipal, Bind
<1>2. c \in Conns /\ c # NoConn /\ \A q \in Reqs : main[q] # c /\ side[q] # c
  BY <1>1, RequestsAssumption DEF Free
<1>3. stage[r] = "waiting" /\ stage' = [stage EXCEPT ![r] = "open"]
  BY DEF BeginPrincipal, Goto
<1>4. UNCHANGED <<side, rows, seen>>
  BY DEF BeginPrincipal
<1>5. main[r] = NoConn /\ side[r] = NoConn
  BY <1>3 DEF PoolInv, Holding, MainStages, SideStages
<1>6. Holding'
  BY <1>1, <1>2, <1>3, <1>4
     DEF PoolInv, TypeOK, Holding, MainStages, SideStages
<1>7. Exclusive'
  BY <1>1, <1>2, <1>4, <1>5 DEF PoolInv, TypeOK, Exclusive
<1>8. BoundToHolder'
  <2>1. \A q \in Reqs : main'[q] # NoConn => bound'[main'[q]] = OrgOf[q]
    BY <1>1, <1>2 DEF PoolInv, TypeOK, BoundToHolder
  <2>2. \A q \in Reqs : side'[q] # NoConn => bound'[side'[q]] = OrgOf[q]
    BY <1>1, <1>2, <1>4 DEF PoolInv, TypeOK, BoundToHolder
  <2>3. Free' \subseteq Free \ {c}
    BY <1>1, <1>2, <1>4, <1>5, RequestsAssumption DEF PoolInv, TypeOK, Free
  <2>4. PoolIsUnbound'
    BY <1>1, <1>2, <2>3 DEF PoolInv, TypeOK, BoundToHolder, PoolIsUnbound, Free
  <2> QED
    BY <2>1, <2>2, <2>4 DEF BoundToHolder
<1>9. RowsStayInTenant'
  BY <1>1, <1>3, <1>4 DEF PoolInv, TypeOK, RowsStayInTenant
<1> QED
  BY <1>6, <1>7, <1>8, <1>9 DEF PoolInv

LEMMA TakeSide ==
    ASSUME PoolInv, TypeOK', NEW r \in Reqs, BeginQuestion(r) \/ BeginAnswer(r)
    PROVE  PoolInv'
<1>1. PICK c \in Free, to \in {"asking", "answering"} :
         /\ side' = [side EXCEPT ![r] = c]
         /\ bound' = [bound EXCEPT ![c] = OrgOf[r]]
         /\ stage' = [stage EXCEPT ![r] = to]
         /\ stage[r] \in {"ask", "answer"}
  BY DEF BeginQuestion, BeginAnswer, BeginSide, Bind, Goto
<1>2. c \in Conns /\ c # NoConn /\ \A q \in Reqs : main[q] # c /\ side[q] # c
  BY <1>1, RequestsAssumption DEF Free
<1>4. UNCHANGED <<main, rows, seen>>
  BY DEF BeginQuestion, BeginAnswer, BeginSide
<1>5. side[r] = NoConn /\ r \in Chats
  BY <1>1 DEF PoolInv, Holding, MainStages, SideStages
<1>6. Holding'
  BY <1>1, <1>2, <1>4, <1>5
     DEF PoolInv, TypeOK, Holding, MainStages, SideStages
<1>7. Exclusive'
  BY <1>1, <1>2, <1>4, <1>5 DEF PoolInv, TypeOK, Exclusive
<1>8. BoundToHolder'
  <2>1. \A q \in Reqs : main'[q] # NoConn => bound'[main'[q]] = OrgOf[q]
    BY <1>1, <1>2, <1>4 DEF PoolInv, TypeOK, BoundToHolder
  <2>2. \A q \in Reqs : side'[q] # NoConn => bound'[side'[q]] = OrgOf[q]
    BY <1>1, <1>2, <1>4 DEF PoolInv, TypeOK, BoundToHolder
  <2>3. Free' \subseteq Free \ {c}
    BY <1>1, <1>2, <1>4, <1>5, RequestsAssumption DEF PoolInv, TypeOK, Free
  <2>4. PoolIsUnbound'
    BY <1>1, <1>2, <2>3 DEF PoolInv, TypeOK, BoundToHolder, PoolIsUnbound, Free
  <2> QED
    BY <2>1, <2>2, <2>4 DEF BoundToHolder
<1>9. RowsStayInTenant'
  BY <1>1, <1>4 DEF PoolInv, TypeOK, RowsStayInTenant
<1> QED
  BY <1>6, <1>7, <1>8, <1>9 DEF PoolInv

\* r gives back the connections in cs, which are among its own, and the rest
\* of the sessions stay: what a commit, a rollback and a close do.
GiveBack(r, cs, to) ==
    /\ cs \subseteq {main[r], side[r]}
    /\ main' = [main EXCEPT ![r] = IF main[r] \in cs THEN NoConn ELSE main[r]]
    /\ side' = [side EXCEPT ![r] = IF side[r] \in cs THEN NoConn ELSE side[r]]
    /\ bound' = Unbind(cs)
    /\ stage' = [stage EXCEPT ![r] = to]

LEMMA GiveBackSafe ==
    ASSUME PoolInv, NEW r \in Reqs, NEW cs, NEW to, GiveBack(r, cs, to)
    PROVE  Exclusive' /\ BoundToHolder'
<1> USE DEF PoolInv, TypeOK
<1>1. /\ \A q \in Reqs : main'[q] \in {main[q], NoConn}
      /\ \A q \in Reqs : side'[q] \in {side[q], NoConn}
  BY DEF GiveBack
<1>2. Exclusive'
  BY <1>1 DEF Exclusive
<1>3. \A q \in Reqs : main'[q] # NoConn => main'[q] = main[q] /\ main[q] \notin cs
  BY DEF GiveBack, Exclusive
<1>4. \A q \in Reqs : side'[q] # NoConn => side'[q] = side[q] /\ side[q] \notin cs
  BY DEF GiveBack, Exclusive
<1>5. \A c \in Conns : bound'[c] = IF c \in cs THEN NoOrg ELSE bound[c]
  BY DEF GiveBack, Unbind
<1>6. \A q \in Reqs : main'[q] # NoConn => bound'[main'[q]] = OrgOf[q]
  BY <1>3, <1>5 DEF BoundToHolder
<1>7. \A q \in Reqs : side'[q] # NoConn => bound'[side'[q]] = OrgOf[q]
  BY <1>4, <1>5 DEF BoundToHolder
<1>8. Free' \subseteq Free \cup cs
  BY DEF GiveBack, Free
<1>9. PoolIsUnbound'
  BY <1>5, <1>8 DEF BoundToHolder, PoolIsUnbound, Free
<1> QED
  BY <1>2, <1>6, <1>7, <1>9 DEF BoundToHolder
-----------------------------------------------------------------------------
LEMMA PoolInvStep == ASSUME PoolInv, [Next]_vars PROVE PoolInv'
<1>0. TypeOK'
  BY TypeStep DEF PoolInv
<1>1. CASE UNCHANGED vars
  BY <1>1 DEF vars, PoolInv, TypeOK, Holding, Exclusive, BoundToHolder,
              PoolIsUnbound, RowsStayInTenant, Free
<1>2. ASSUME NEW r \in Reqs, Arrive(r) PROVE PoolInv'
  <2>1. UNCHANGED <<main, side, bound, rows, seen>> /\ stage[r] = "new"
        /\ stage' = [stage EXCEPT ![r] = "waiting"]
    BY <1>2 DEF Arrive, Goto
  <2> QED
    BY <1>0, <2>1
       DEF PoolInv, TypeOK, Holding, Exclusive, BoundToHolder, PoolIsUnbound,
           RowsStayInTenant, Free, MainStages, SideStages
<1>3. ASSUME NEW r \in Reqs, BeginPrincipal(r) PROVE PoolInv'
  BY <1>0, <1>3, TakeMain
<1>4. ASSUME NEW r \in Reqs, BeginQuestion(r) \/ BeginAnswer(r) PROVE PoolInv'
  BY <1>0, <1>4, TakeSide
<1>5. ASSUME NEW r \in Reqs, Query(r) \/ Retrieve(r) PROVE PoolInv'
  <2>1. PICK c \in Conns :
          /\ bound[c] = OrgOf[r]
          /\ seen' = [seen EXCEPT ![r] = @ \cup Visible(c)]
    BY <1>5 DEF Query, Retrieve, PoolInv, TypeOK, Holding, BoundToHolder, SideStages
  <2>2. UNCHANGED <<main, side, bound, rows>>
    BY <1>5 DEF Query, Retrieve
  <2>3. \/ stage[r] = "open" /\ stage' = [stage EXCEPT ![r] = "queried"]
        \/ stage[r] = "answering" /\ stage' = [stage EXCEPT ![r] = "retrieved"]
    BY <1>5 DEF Query, Retrieve, Goto
  <2>4. RowsStayInTenant'
    BY <2>1, <2>2 DEF PoolInv, TypeOK, RowsStayInTenant, Visible
  <2>5. Holding'
    BY <2>2, <2>3 DEF PoolInv, TypeOK, Holding, MainStages, SideStages
  <2>6. Exclusive' /\ BoundToHolder'
    BY <2>2 DEF PoolInv, Exclusive, BoundToHolder, PoolIsUnbound, Free
  <2> QED
    BY <1>0, <2>4, <2>5, <2>6 DEF PoolInv
<1>6. ASSUME NEW r \in Reqs, Commit(r) PROVE PoolInv'
  <2>1. stage[r] = "queried" /\ side[r] = NoConn /\ main[r] # NoConn
    BY <1>6 DEF Commit, PoolInv, Holding, SideStages
  <2>2. GiveBack(r, {main[r]}, "done")
    BY <1>6, <2>1 DEF Commit, GiveBack, Goto, PoolInv, TypeOK
  <2>3. Exclusive' /\ BoundToHolder'
    BY <2>2, GiveBackSafe
  <2>4. Holding'
    BY <2>1, <2>2
       DEF GiveBack, PoolInv, TypeOK, Holding, MainStages, SideStages
  <2>5. RowsStayInTenant'
    BY <1>6, RowOfType DEF Commit, PoolInv, RowsStayInTenant
  <2> QED
    BY <1>0, <2>3, <2>4, <2>5 DEF PoolInv
<1>7. ASSUME NEW r \in Reqs, StartStream(r) PROVE PoolInv'
  <2>1. stage[r] = "queried" /\ side[r] = NoConn /\ main[r] # NoConn /\ r \in Chats
    BY <1>7 DEF StartStream, PoolInv, Holding, SideStages
  <2>2. GiveBack(r, {}, "ask")
    <3>1. bound = Unbind({})
      BY DEF PoolInv, TypeOK, Unbind
    <3> QED
      BY <1>7, <2>1, <3>1 DEF StartStream, GiveBack, Goto, PoolInv, TypeOK
  <2>3. Exclusive' /\ BoundToHolder'
    BY <2>2, GiveBackSafe
  <2>4. Holding'
    BY <2>1, <2>2
       DEF GiveBack, PoolInv, TypeOK, Holding, MainStages, SideStages
  <2>5. RowsStayInTenant'
    BY <1>7 DEF StartStream, PoolInv, RowsStayInTenant
  <2> QED
    BY <1>0, <2>3, <2>4, <2>5 DEF PoolInv
<1>8. ASSUME NEW r \in Reqs, CommitQuestion(r) \/ CommitAnswer(r) PROVE PoolInv'
  <2>1. PICK part \in {"question", "answer"} : rows' = rows \cup {RowOf(r, part)}
    BY <1>8 DEF CommitQuestion, CommitAnswer, CommitSide
  <2>2. \/ stage[r] = "asking" /\ stage' = [stage EXCEPT ![r] = "answer"]
        \/ stage[r] = "retrieved" /\ stage' = [stage EXCEPT ![r] = "closing"]
    BY <1>8 DEF CommitQuestion, CommitAnswer, CommitSide, Goto
  <2>3. r \in Chats /\ side[r] # NoConn /\ main[r] # side[r]
    BY <2>2 DEF PoolInv, Holding, Exclusive, SideStages
  <2>4. PICK to \in {"answer", "closing"} :
          /\ GiveBack(r, {side[r]}, to)
          /\ stage[r] = "asking" \/ stage[r] = "retrieved"
    BY <1>8, <2>2, <2>3
       DEF CommitQuestion, CommitAnswer, CommitSide, GiveBack, Goto, PoolInv, TypeOK
  <2>5. Exclusive' /\ BoundToHolder'
    BY <2>4, GiveBackSafe
  <2>6. Holding'
    BY <2>3, <2>4
       DEF GiveBack, PoolInv, TypeOK, Holding, MainStages, SideStages
  <2>7. seen' = seen
    BY <1>8 DEF CommitQuestion, CommitAnswer, CommitSide
  <2>8. RowsStayInTenant'
    BY <2>1, <2>7, RowOfType DEF PoolInv, RowsStayInTenant
  <2> QED
    BY <1>0, <2>5, <2>6, <2>8 DEF PoolInv
<1>9. ASSUME NEW r \in Reqs, ClosePrincipal(r) PROVE PoolInv'
  <2>1. stage[r] = "closing" /\ side[r] = NoConn
    BY <1>9 DEF ClosePrincipal, PoolInv, Holding, SideStages
  <2>2. GiveBack(r, {main[r]}, "done")
    BY <1>9, <2>1 DEF ClosePrincipal, GiveBack, Goto, PoolInv, TypeOK
  <2>3. Exclusive' /\ BoundToHolder'
    BY <2>2, GiveBackSafe
  <2>4. Holding'
    BY <2>1, <2>2
       DEF GiveBack, PoolInv, TypeOK, Holding, MainStages, SideStages
  <2>5. RowsStayInTenant'
    BY <1>9 DEF ClosePrincipal, PoolInv, RowsStayInTenant
  <2> QED
    BY <1>0, <2>3, <2>4, <2>5 DEF PoolInv
<1>10. ASSUME NEW r \in Reqs, TimeOut(r) \/ Abort(r) PROVE PoolInv'
  <2>1. RollBack(r)
    BY <1>10 DEF TimeOut, Abort
  <2>2. GiveBack(r, {main[r], side[r]}, "failed")
    BY <2>1 DEF RollBack, GiveBack, Goto, PoolInv, TypeOK
  <2>3. Exclusive' /\ BoundToHolder'
    BY <2>2, GiveBackSafe
  <2>4. Holding'
    BY <2>2
       DEF GiveBack, PoolInv, TypeOK, Holding, MainStages, SideStages
  <2>5. RowsStayInTenant'
    BY <2>1 DEF RollBack, PoolInv, RowsStayInTenant
  <2> QED
    BY <1>0, <2>3, <2>4, <2>5 DEF PoolInv
<1> QED
  BY <1>1, <1>2, <1>3, <1>4, <1>5, <1>6, <1>7, <1>8, <1>9, <1>10
     DEF Next, Progress

THEOREM PoolInvariant == Spec => []PoolInv
BY PoolInvInit, PoolInvStep, PTL DEF Spec

\* Every reachable state of the requests and the pool has its types.
THEOREM RequestTypes == Spec => []TypeOK
<1>1. PoolInv => TypeOK
  BY DEF PoolInv
<1> QED
  BY <1>1, PoolInvariant, PTL

\* Tenant isolation, for any number of tenants, requests and connections:
\* nothing a request reads, and nothing in the tables, is of another tenant.
THEOREM TenantIsolation == Spec => []RowsStayInTenant
<1>1. PoolInv => RowsStayInTenant
  BY DEF PoolInv
<1> QED
  BY <1>1, PoolInvariant, PTL

\* A connection goes back to the pool with no tenant bound, whatever ended
\* the transaction.
THEOREM NoTenantLeaks == Spec => []PoolIsUnbound
<1>1. PoolInv => PoolIsUnbound
  BY DEF PoolInv, BoundToHolder
<1> QED
  BY <1>1, PoolInvariant, PTL

\* A read in a bound transaction returns every row of the tenant.
THEOREM ReadsComplete == Spec => ReadsAreComplete
<1>1. ASSUME PoolInv, Next, NEW r \in Reqs,
             stage[r] \in {"open", "answering"},
             stage'[r] \in {"queried", "retrieved"}
      PROVE  {x \in rows : x.org = OrgOf[r]} \subseteq seen'[r]
  <2>1. PICK q \in Reqs : Arrive(q) \/ Progress(q) \/ TimeOut(q) \/ Abort(q)
    BY <1>1 DEF Next
  <2>2. Query(r) \/ Retrieve(r)
    <3>1. PICK s : stage' = [stage EXCEPT ![q] = s]
      BY <2>1 DEF Arrive, Progress, TimeOut, Abort, RollBack, BeginPrincipal, Query, Commit,
                  StartStream, BeginQuestion, CommitQuestion, BeginAnswer,
                  BeginSide, CommitSide, Retrieve, CommitAnswer,
                  ClosePrincipal, Goto
    <3>2. q = r
      BY <1>1, <3>1 DEF PoolInv, TypeOK
    <3> QED
      BY <1>1, <2>1, <3>2
         DEF PoolInv, TypeOK, Arrive, Progress, TimeOut, Abort, RollBack, BeginPrincipal, Commit,
             StartStream, BeginQuestion, CommitQuestion, BeginAnswer,
             BeginSide, CommitSide, CommitAnswer, ClosePrincipal, Goto
  <2>3. PICK c \in Conns :
          /\ bound[c] = OrgOf[r]
          /\ seen' = [seen EXCEPT ![r] = @ \cup Visible(c)]
    BY <1>1, <2>2
       DEF Query, Retrieve, PoolInv, TypeOK, Holding, BoundToHolder, SideStages
  <2> QED
    BY <1>1, <2>3 DEF Visible, PoolInv, TypeOK
<1>2. PoolInv /\ [Next]_vars =>
        [\A r \in Reqs :
            /\ stage[r] \in {"open", "answering"}
            /\ stage'[r] \in {"queried", "retrieved"}
            => {x \in rows : x.org = OrgOf[r]} \subseteq seen'[r]]_vars
  BY <1>1
<1> QED
  BY <1>2, PoolInvariant, PTL DEF Spec, ReadsAreComplete
-----------------------------------------------------------------------------
(* How the pool locks up.                                                  *)

\* If everyone waits on everyone, each connection is the principal's of some
\* stream that waits for its second one, whatever the pool's size and the
\* number of streams: a plain request takes no part in it.
LEMMA StalledPool ==
    ASSUME PoolInv, Stalled, NEW c \in Conns
    PROVE  \E r \in Chats : main[r] = c /\ side[r] = NoConn /\ stage[r] \in {"ask", "answer"}
<1>1. PICK r \in Reqs : main[r] = c \/ side[r] = c
  BY DEF Stalled, Free
<1>2. c # NoConn
  BY RequestsAssumption
<1>3. stage[r] \in Waiting
  BY <1>1, <1>2 DEF Stalled
<1>4. side[r] = NoConn
  BY <1>3 DEF PoolInv, Holding, Waiting, SideStages
<1>5. stage[r] # "waiting"
  BY <1>1, <1>2, <1>4 DEF PoolInv, Holding, MainStages, SideStages
<1> QED
  BY <1>1, <1>2, <1>3, <1>4, <1>5 DEF PoolInv, Holding, Waiting

\* The pool locks up in one way only: as many streams as it has connections
\* hold one each and wait for a second.
THEOREM OnlyStreamsStall == Spec => []StallIsOfStreams
<1>1. PoolInv => StallIsOfStreams
  BY StalledPool DEF StallIsOfStreams
<1> QED
  BY <1>1, PoolInvariant, PTL
=============================================================================
