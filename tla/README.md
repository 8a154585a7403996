# Verification of the AI knowledge platform

TLA+ models of the platform in `src/`, the TLC runs that check them on small
instances and the TLAPS proofs of what holds for every instance. The code is the
reference: every definition is translated from the lines `PROJECT.json` ("map")
names for it.

## 1. The system

The platform is a multi-tenant retrieval-augmented-generation service: an
organization uploads PDFs, a worker splits them into embedded chunks, and its users
ask questions that are answered by a language model with citations into the chunks.

| Part | Where | State it keeps | Operations |
|------|-------|----------------|------------|
| Document api | `services/api/.../routers/documents.py` | `documents` rows, PDFs in the object store | create, upload, update, delete, list |
| Ingestion worker | `libs/core/core/ingestion.py`, `services/worker/.../tasks/ingest.py` | `document_chunks`, document `status`/`error`, embedding usage | `run_ingestion`, the task around it |
| Queue | `services/api/src/api/tasks.py`, `celery_app.py` | tasks at the broker | enqueue, deliver, redeliver |
| Chat | `routers/chat.py`, `core/rag/*` | `conversations`, `messages` | one streamed turn, in two transactions of its own |
| Usage and budgets | `core/usage.py`, `routers/usage.py`, `routers/organizations.py` | `usage_events`, `monthly_budget_usd` | record an event, detect the crossing, set the budget |
| Webhooks | `routers/webhooks.py`, `worker/tasks/webhooks.py` | `org_webhooks` | register, deliver a signed event |
| Requests | `api/deps.py`, `core/db.py` | pooled connections, the tenant bound to each transaction | resolve the principal, bind the tenant, commit or roll back |
| Accounts | `routers/auth.py`, `users.py`, `api_keys.py` | users, refresh tokens, API keys, OAuth links | signup, login, refresh, logout, OAuth callback, user and key administration |
| Rate limit | `core/ratelimit.py` | a Redis counter per key, address and window | count and refuse |
| Retrieval and answers | `core/retrieval.py`, `core/rag/*`, `providers/llm.py` | the state of one question | two search arms, rank fusion, numbered prompt, streamed tokens with their counts, citation extraction |
| Answer stream | `_sse` in `chat.py`, `services/web/src/api/chat.ts` | the client's buffer | frame events, put reads together, dispatch |
| Chunking | `core/chunking.py` | none | split a page into overlapping chunks |
| Web client | `services/web/src` | tokens in localStorage, React state | fetch with silent refresh, streamed chat, sign in and out, pages that poll |
| Operations | `infra/`, `migrations/`, `scripts/`, `main.py` | schema, policies, deployment | migrate, deploy, health check |

How they interact:

* A request resolves its principal in `get_principal`, a yield dependency that holds a
  pooled connection with an open transaction until FastAPI closes it. With the version
  `uv.lock` pins that happens *after* the response has been sent and its background
  tasks have run, so the commit of an upload comes after its ingest task is enqueued.
* The worker and the api share the database, the object store and Redis; nothing else
  orders them. A Celery task is acknowledged when a worker takes it and may be delivered
  twice when Redis' visibility timeout passes while it waits.
* A chat turn uses two further transactions on a second connection, and keeps the one of
  the request as long as the answer streams.
* The web client keeps both tokens in localStorage, and two code paths exchange the
  refresh token: the fetch client and the streaming chat.

Hard behaviours: overlapping deliveries of one task; a deletion under a running ingestion;
the order of commit, response and enqueue; a search in three statements beside them; budget decisions computed from a sum read
before other turns commit; disconnects inside a transaction that also holds the usage
record; connections held across a stream; concurrent exchanges of one refresh token, and one that
outlives its login; a counter that is kept by two commands.

The same words mean different things in the parts above, so the models keep them apart:
a *request* is an HTTP call in the api, a *turn* a chat request, a *call* a fetch of the
web client, a *task* a Celery message, a *run* one execution of `run_ingestion`.

## 2. What makes each part correct

| Part | It is correct when |
|------|--------------------|
| Document api, worker, queue | a document is in the search index whole or not at all, and only while it exists; `ready` means searchable; chunks in the index were billed; a status moves forward unless its task was delivered twice; an answered upload is durable unless its commit fails, its object is there, and it comes to rest |
| Chat | history holds finished turns and not the question being asked; an answer is stored exactly if it is charged, after its question |
| Usage and budgets | an alert is never early, is repeated only by turns that overlapped, and is not missed by turns that did not |
| Webhooks | one failing endpoint does not keep the event from the others; a webhook gets only its organization's events, of its kinds, and none raised after it was deleted |
| Requests | no transaction reads or writes rows of another tenant; none reads an empty database for want of a binding; a pool that is locked up is so by streams, and its timeout ends it |
| Accounts | one user per address; a provider account signs in one existing user; every organization keeps an admin; a key acts only for a member; no commit restores what another changed |
| Sessions, web client | a refresh token is exchanged once and within its time; a user is signed out only for cause; a sign-out revokes; no call waits forever |
| Rate limit | at most `limit` calls that are counted while a window lasts pass in it; a counter that was left without expiry refuses nobody later |
| Retrieval and answers | no hit comes behind a worse one; the hits of a document are of one edition; a citation names the source the prompt showed under its number; the counts charged are those of the whole answer |
| Answer stream | events arrive whole and in order wherever the network cuts the stream |
| Chunking | every word is in a chunk, in order; the overlap is bounded; how far a chunk may exceed `size` |
| Pages | a stream is shown under its own conversation; a page polls until no document is under way |

## 3. The modules

| Module | Models | State | Actions |
|--------|--------|-------|---------|
| `DocumentLifecycle` | what the document pipeline promises, with no worker, queue or transaction | the status shown, the documents in the index | `Create`, `Begin`, `Publish`, `Fail`, `Remove` |
| `Ingestion` | the document pipeline of one tenant | committed rows and chunks, objects, the queue, where each request and each worker is, what each worker's session has loaded | one per commit or per statement that reads or locks; `Crash`, `DatabaseFails`, `OpenFailed`, `AbandonUpload` for faults |
| `IngestionProofs` | theorems about `Ingestion` | | |
| `ChatTurn` | the turns of one conversation and the usage they record | messages, usage per month, what each turn has read | a turn's two transactions statement by statement, `Drop` (a disconnect), ingestion costs, budget changes, a new month |
| `ChatTurnProofs` | theorems about `ChatTurn` | | |
| `Requests` | the requests of one api process | connections held, the tenant bound on each, rows, what was read | begin, query and commit of the request's transaction and of the stream's two, `TimeOut` of the pool, `Abort` |
| `RequestsProofs` | theorems about `Requests` | | |
| `Sessions` | the web client of one tab and the endpoints that rotate and revoke tokens | the call stages, the exchange of each, the pair in localStorage, the server's tokens | requests, replies, the two steps of an exchange, sign-in and sign-out, the expiry of either token (`Expire`, `Lapse`), `Lose` |
| `SessionsProofs` | theorems about `Sessions` | | |
| `Accounts` | organizations, users, keys and provider links | the four tables and what each request in progress has read | the reads and the commit of every endpoint that writes them |
| `AccountsProofs` | theorems about `Accounts` | | |
| `Webhooks` | hooks of all tenants and the deliveries of their events | the hooks, the event and the list each delivery has read | registration, deletion, `Raise`, the read of the hooks, one POST, `Redeliver`, `Die` |
| `WebhooksProofs` | theorems about `Webhooks` | | |
| `RateLimit` | one endpoint's counters for one address, used by every replica | the clock, a counter and its expiry per window, where each call is | `Tick`, reading the clock, `INCR`, `EXPIRE`, the decision, `Fail` |
| `RateLimitProofs` | theorems about `RateLimit` | | |
| `Answers` | one search or chat answer beside the documents it is about | titles and chunks by ingestion; what each arm ranked, the hits, the prompt's sources, the tokens, their count, the citations | the three statements of `hybrid_search`, tokens of each kind of provider, `Cite`, `Raise`; `Ingest`, `Rename`, `Delete` |
| `Chunking` | `chunk_text` | none: a recursive function over word positions | |
| `EventStream` | the frames of an answer, the reads and the client's buffer | none: functions of a stream and its cuts | |
| `Order` | sorting, for `Answers` (the fusion, the load, the citations) and `EventStream` (lines) | none | |
| `AnswerPath` | the way of an answer: `Chunking`, `Answers` and `EventStream` together, with the texts and streams there are | that of `Answers` | those of `Answers` |
| `AnswerPathProofs` | theorems about `Chunking`, `Answers`, `EventStream` and `AnswerPath` | | |
| `MC*` | instances for TLC | | |

How they correspond to the code:

* **A transaction is cut where another can come between**: at each read whose result is
  used later, and at the commit. The statements between, a flush included, take effect at
  the commit; where a statement waits for another transaction's lock (the row an
  `UPDATE` or `DELETE` holds, the unique index an `INSERT` meets), the wait is a guard,
  and what it finds afterwards decides the outcome as PostgreSQL does in READ COMMITTED.
* **SQLAlchemy's unit of work** is part of the models. A column that is assigned the
  value it was loaded with is not written (`Dirty` in `Ingestion` and in `Accounts`); an
  `UPDATE` or `DELETE` that finds no row raises and rolls back.
* **FastAPI closes yield dependencies after the response and its background tasks** (the
  version in `uv.lock`), and the models know no other order: an upload is stored, answered,
  enqueued and then committed, and a stream runs inside its principal's transaction.
* **JavaScript runs to its next await**: what `client.ts` does between two awaits is one
  action of `Sessions`, and the continuations of a shared promise run together.
* **Data** is kept as far as a property tells it apart: a document has a chunk count, a
  chunk its run and index, an answer its cost, a user an address, a role and a flag.
  Hashes, names, texts, scores and times within a month are left out.

`Ingestion` implements `DocumentLifecycle`: its status is the status column and its index
the set of documents with chunks. The other modules are components that meet at a few
places, each named in both: `ChatTurn` sees an ingestion as a cost that is committed
(`Embed`), `Requests` sees a turn as two transactions on a second connection, `Sessions`
sees an account as the flag `active`, `Accounts` sees a sign-in as the guard that finds a
user. `Answers` meets `Ingestion` at the committed chunks (`Ingest` stands for the second
transaction of `run_ingestion`) and `ChatTurn` at the counts an answer is charged by;
PATCH, which writes a document's title only, is its `Rename`. `AnswerPath` puts the three
modules an answer passes through together. `Webhooks` takes the events
`Ingestion` and `ChatTurn` enqueue, as any event of any tenant. `Chunking` is what
`Ingestion` keeps as a chunk count.

## 4. What the runs check

A run is a module, a configuration and the properties the configuration lists. A
property is broken by at least one change to the modelled code that a programmer could
make; those variants stand in the modules beside the definitions they vary, each under a
comment that begins with "Mutant".

| Run | Instance | What it shows |
|-----|----------|---------------|
| `MCIngestion` | two documents (one yields two chunks, one has no text), two workers, one redelivery, one fault, with fairness | chunks are those of one run, whole (`ChunksWhole`), present under `ready` (`ReadyIsSearchable`) and billed (`ChunksAreBilled`); the pipeline implements `DocumentLifecycle` (`ImplementsLifecycle`); a status moves forward while nothing was redelivered (`StatusAdvances`); an upload comes to rest unless a process died or its task found no row (`UploadSettles`) |
| `MCIngestionEarlyTask` | one document | refutes `EnqueuedAfterCommit` |
| `MCIngestionStaleError` | one document, one redelivery | refutes `ReadyHasNoError` |
| `MCChat` | two turns of cost 2 and a history of three messages; one cost the usage table rounds up, budgets 2 and 3, one ingestion, one budget change, one new month | alerts are never early (`AlertMeansReached`), repeated only by turns that overlapped (`AlertsOverlap`), not missed in sequence (`CrossingNoticed`); a turn that was told done is remembered, but for what as many later messages pushed out (`FollowUpSeesAnswer`); an answer is stored exactly if it is charged, after its question (`AnswersAreCharged`) |
| `MCChatNoAlert` | two turns that reach the budget only together | refutes `CrossingAlerts` |
| `MCRequests` | two tenants, each with a plain request and a chat, two connections, with fairness | tenants are isolated (`RowsStayInTenant`), every read is complete (`ReadsAreComplete`), and requests end, those of a pool the streams have locked up too (`RequestsEnd`) |
| `MCSessions` | a `loadSession` call, a page's call and a stream; two events, two access tokens that expire; with fairness | users are signed out for cause only (`SignedOutForCause`), calls of the fetch client share an exchange (`FetchesShareExchange`), rotation leaves one token (`RotationKeepsOne`), a sign-out revokes (`LogoutRevokes`), calls end (`CallsEnd`) |
| `MCSessionsTwice` | a `loadSession` call and a stream | refutes `ExchangedOnce` |
| `MCAccounts` | three addresses, one of them a provider account's, three users, one key, two concurrent requests of any kind | admins remain (`OrgKeepsAdmin`), an address names one user and a link identifies one that exists (`AccountsIdentify`), a stale commit restores nothing (`NoStaleRestore`) |
| `MCAnswers` | two documents of two chunks each, both arms ranking up to two chunks, the best two loaded, a new ingestion of one of them and two titles of each, answers of up to two tokens by each kind of provider | hits of a document are of one edition and carry one title (`OneEdition`), none comes behind a worse one (`BestFirst`), citations are what the prompt showed (`CitationsResolve`), counts are final (`UsageIsFinal`) |
| | over all texts of up to five words, sizes up to 7 and every overlap | the windows of `chunk_text` cover the text within their bounds (`ChunksAreWindows`) |
| | over all streams of up to two events, whole or broken off, in three reads | the page does what was sent, event by event (`FramesSurviveReads`) |
| `MCRateLimit` | four calls, a limit of two, three windows of two ticks | no window admits more of the calls counted while it lasts (`WindowHolds`); a refused call's window was full (`RefusedForCause`) |
| `MCWebhooks` | two tenants, two kinds, two hooks, two deliveries, one redelivery, one death, with fairness | an event reaches only subscribed hooks of its tenant that were there (`OwnHooksOnly`), and every one of them unless the delivery dies (`EveryHookPosted`) |

`CHECK_DEADLOCK FALSE` stands in every configuration because every instance comes to a
state with nothing left to do: its documents, turns, requests or ids are used up. Waiting
for each other is what `RequestsEnd`, `CallsEnd` and `UploadSettles` are about, and
`StallIsOfStreams`, which is proved.

### Bounds, and why they are enough

* `MaxRedeliveries`, `MaxFaults`: two deliveries are what it takes for two runs of one
  document, or two posts of one event, to overlap. One fault reaches every rollback and
  crash at every point; with a redelivery it meets another run at every point.
* Two chunks are the least that can be present in part; the document without text takes
  the code's other branch.
* Two turns overlap in every way two turns can. The overlap of three is pairwise in
  `AlertsOverlap`, and the proof holds for any number.
* A window of three messages does not hold the two messages of each of two turns, so it
  drops one, and which one depends on how the turns overlapped. `FollowUpSeesAnswer` is
  about the turn that could open now, so two turns show what a third would be sent.
* Costs and budgets: with turns of 2 and budgets 2 and 3, one turn reaches the budget
  exactly, one passes it, an embedding of 1 makes the sum odd, and a cost that is rounded
  up (`RoundedUp`) meets a budget in the table that it does not meet in the comparison.
* Two connections for two chats are the pool that two streams lock up: each holds one as
  principal and waits for its second, and plain requests wait behind them. One tenant
  follows the other on both connections.
* `MaxEvents` counts what happens to the client from outside, together: sign-ins, lost
  replies and refused calls, a deactivation, refresh tokens that expire. The second is a
  login while an exchange of the first is on its way, or a mishap. Two calls of the fetch
  client are what sharing an exchange takes, and the stream is the second path.
  `MaxExpiries`: the access tokens of both logins expire, or one and that of a granted pair.
* Three users: the least with an admin, another admin and one that a third request
  provisions. Two requests in progress give every pair of endpoints.
* `Answers`: `OneEdition` takes two hits of one document, so documents have two chunks; a new
  ingestion between the arms lets them rank both editions of a document, and beside the
  other document, which did not change, the load find some hits and not others. Two tokens
  hold a marker twice, out of order, or of no source. Scores are exact fractions (`Share`, `Exceeds`), where the code adds
  floats. `RrfK` is the code's 60; `AnswersAssumption` keeps
  `CandidateK` below `RrfK + 2` (the settings have 50 and 60), because only then does a
  chunk both arms found always score above one that a single arm found.
* Texts of words of one, two and four characters meet each size exactly, by one less and
  by one more; five words make three chunks with a carried tail.
* Four calls against a limit of two: one beyond the limit in one window, or two full
  windows; with two ticks to a window a key set in its last tick outlives it by one.
  Windows are bounded by `MaxWindow`, and the key of one is used in the next at most.
* Symmetry: on requests and on plain addresses in `MCAccounts`, on documents in
  `MCAnswers`, on calls in `MCRateLimit`. The configurations and the properties treat
  these alike, and the properties of those runs are safety properties.

### Fairness

* `Ingestion`: weak fairness of each document's request (the coroutine runs), of each
  worker's next statement, and of a waiting task being taken by some worker (Celery polls
  its queue). There is none for clients, redeliveries or faults. A step that waits for a
  lock is not enabled and becomes so when the holder, which is fair, ends.
* `Requests`: weak fairness of each request's next step, the timeout of the pool among them
  (SQLAlchemy's default, `db.py` sets none): a request that waits gets a connection or,
  while none is free, raises in the end. It is not assumed that it wins against the others.
  A statement ends, and so does a model's answer. Arrival and abort are not fair.
* `Sessions`: weak fairness of each call's next step, of the server or the client: a fetch
  settles and its continuation runs. Expiry of either token, sign-in, sign-out and mishaps
  are not fair.
* `Webhooks`: weak fairness of each delivery's next step: a worker takes a waiting task, and
  every POST ends within the client's timeout. Registration, deletion and death are not.

## 5. What is proved

For every value of the constants, under the named assumptions of the modules
(`IngestionAssumption`, `ChatAssumption`, `RequestsAssumption`, `SessionsAssumption`,
`AccountsAssumption`, `RateLimitAssumption`, `WebhooksAssumption`, `AnswersAssumption`,
`AnswerPathAssumption`: the constants' types, finite sets of calls and documents where
they are counted, that no-value constants are not values, and `CandidateK < RrfK + 2`) and
nothing else. In particular the bounds on redeliveries, faults, users, keys, chunks,
ingestions and tokens are arbitrary numbers.

**`IngestionProofs`.** `IndexInv` conjoins types, `ChunksWhole`, `ReadyIsSearchable`,
`ChunkRowsHaveDocument` and `CommittersExclude`. No conjunct is inductive alone: that the
committed chunks are one batch needs that the committing worker's DELETE saw all there
are, and this needs that no other worker is between its INSERT and its commit. Most steps
leave what the invariant reads alone; the lemma `QuietKeepsIndex` disposes of them at
once, and one lemma each treats the insert, the commit and the deletion. From it follow
`IndexIsWhole`, `ReadyMeansSearchable`, `NoChunkWithoutDocument`, `CommittersAreExclusive`
and `EveryChunkIsBilled`. `UploadInv` (a request that has stored its object but not
committed has no row yet) gives `KeysResolve` and `AnsweredUploadsAreDurable`: an upload that was answered
is a row, or was one that has been deleted, or is still to be committed by a request that is
running, or was lost to a fault, a failed commit or a death after the 201 (`documents.py`
commits last). The fault is the case to mind: nothing else loses an answered upload.
`StatusInv` speaks of the time before the first redelivery: a
document has one task at most, waiting or in one worker (`OneTask`), and its status is the
one that worker's stage has left it with (`StatusFits`), so every change of it moves on:
`StatusesAdvance`. With it `ErrorInv` (a session about to write has loaded a row without an
error) gives `ErrorsAreHonest`. `Implementation` shows `Spec => Lifecycle!Spec`: every step
maps to one of the five changes of a document or to none.

**`ChatTurnProofs`.** `AlertInv` adds to the two alert properties what ties a decision to
the sum it was made from: committed spending of a month only grows, a sum is at most what
is committed since, and a turn that saw an alerting turn's event has summed at least the
budget that turn reached. `AlertsAreNeverEarly` and `SecondAlertNeedsOverlap` follow.
`NoticeInv`: while no turn overlaps another, within one month, under a budget that was
never changed and with no ingestion billed, a turn has summed all that was spent before it,
so spending stays under the budget until a turn notices: `SequentialCrossingIsNoticed`. `MessageInv`: messages have distinct times, and a turn
that has answered has asked before and is recorded; `AnswersMatchCharges` follows.
`HistoryHoldsSettledTurns` rests on `WindowIsFull`, a count: a message is outside the
window only if the window holds `MaxHistory` messages and all of them are later than it.

**`RequestsProofs`.** `PoolInv`: a session holds a connection exactly in a transaction, no
connection is held twice, and a held connection is bound to its holder's tenant, a free
one to nobody. `TenantIsolation`, `NoTenantLeaks` and `ReadsComplete` follow.
`OnlyStreamsStall` says who can lock the pool up, whatever its size: if no connection is
free and every holder waits for another one, each connection is the principal's of a stream
that is between its two transactions or before the first. A plain request never takes part:
it holds a connection only while it does not wait.

**`AccountsProofs`.** `AccountsInv` adds to the table properties that ids are not reused
(`Numbered`) and that what a request has read of a user still holds if the user is still
there (`ReadsHold`: address and organization of a row never change). `AdminsRemain`,
`OneUserPerAddress`, `AccountsSignInOne` (addresses and provider links together), `KeysBelong` and the action property
`NothingRestored` follow. `AdminsRemain` is where it matters that a caller's own row is
the one loaded with the check, and that the guards on oneself cover role, flag and
deletion.

**`SessionsProofs`.** `SessionsInv` has ten named parts beside the types, each a lemma of
its own. A call presents the token its exchange asks with (`Asks`); a granted pair is
known to the call it was granted to alone (`Grants`); fetches ask one at a time
(`OneAsks`), so without a fault no token is presented by two of them (`TakeTurns`), which
is `FetchesTakeTurns`. Unless two calls presented one token of it (`Shared`, which a fetch
and a stream can bring about), a login has one live token and the exchanges under way have
read it (`OneLive`: `OneLiveToken`). If nothing failed either, and no exchange of the login
before ended in this one (`Calm`), one call asks at a time, streams included (`AskAlone`),
and the live token is in the store, granted and about to be stored, or on its way to be
revoked (`LiveIsKnown`: `SignOutRevokes`). So nothing refuses the user's own exchange
until its token expires (`StaysIn`: `NotSignedOutByItself`). `EndedLogins` and
`OfLastLogin` keep the tokens of two logins apart. Two flags mark the exchanges that blur
them: `outlived`, one was under way when the user signed in; `racing`, one was under way
when he signed out.

**`WebhooksProofs`.** `Matched`: what a delivery still has to post to, and what it has
posted to, was visible to its tenant, subscribed to the kind, and not among the hooks
deleted when the event was raised. It is inductive with the types because a row never
changes and an id is not given out again. `OwnHooks` follows.

**`RateLimitProofs`.** In its window a key cannot expire (`Outlives`), so it has counted
every call in time (`Tallied`) and the counts it gave them differ (`Distinct`). At most
`Limit` of these are at most `Limit`: `NoWindowAdmitsMore`. A key never counts more calls
than came with its window (`Honest`), whatever died half-way: `RefusalsHaveCause`.

**`AnswerPathProofs`**, in three parts. The last two share the lemmas about sorting: in a
finite ordered set every place is taken by one element (`PlacesFill`, a count), so
`InOrder` lists it (`InOrderSorts`).

*A text.* `chunk_text` is a recursive function. Its loop keeps an invariant of
its variables: it holds at the start (`LoopStarts`), one round keeps it
(`RoundKeepsInvariant`), and at the end of the text it gives `Cover` and `Bounded`
(`ClosedTextIsCovered`). The induction over the text is proved too. `Induction` is had from
the well-foundedness of `<`: a property that passes from each number to the next and fails
somewhere fails somewhere first. `Recursion` makes of it that a recursion over numbers
whose i-th value is in a set `A[i]` has a solution, so that the function `CHOOSE` picks
satisfies its equation, and `OneSolution` that this function stays in the `A[i]`. With the
states that satisfy the invariant as `A[i]`, `ChunksCoverText` follows.

*A question.* `TypeInv` adds to the types that a deleted document has no chunks and that
there are no hits before the load (`AnswerTypes`). `OneEdition` is inductive with it,
because one statement loads all hits (`HitsAreOneEdition`). `RankInv`: an arm ranks an id
once, and what was ranked is there still unless its document changed since. From it
`FusionHonoursRanks`: scores are sums of fractions; one that is ahead in an arm, and has
all the arms of the other, has more (`Ahead`), and two arms give more than one does
(`TwoBeatOne`), because no position reaches `RrfK + 2` - this is where the assumption on
`CandidateK` is needed. Sorting by score and cutting at the limit keeps that, and so does
the load, which only drops (`LoadFinds`). `AnswerInv` ties the prompt's sources to the
hits and the counts to the tokens at each stage: `MarkersResolve`, `CountsAreFinal`.

*The stream.* `_sse` makes frames whose only empty line ends them (`FrameEnds`), and the
page makes of a frame the event it was made from (`FrameDispatched`), whatever the payload
holds. The page is at an event (`AtEvent`) when it has done the first k events and its
buffer is what came behind the k-th frame. A read keeps it there (`BufferGrows`); then the
first empty line in the buffer is the end of the next frame (`BoundaryIsEnd`), and every
round of the inner loop moves it on by one event (`TakeNext`) until none is whole
(`TakeNothing`). The buffer has more symbols than whole frames, so the rounds suffice
(`ReadCatchesUp`). Over the reads this gives `StreamSurvivesReads`, for any number of
reads; `ReadsLoseNoFrame` is the case of three that the run checks.

Proved without a run of their own, because a small instance adds nothing to the proof:
`NoChunkWithoutDocument`, `CommittersAreExclusive`, `KeysResolve`,
`AnsweredUploadsAreDurable`, `ErrorsAreHonest`, `NoTenantLeaks`, `OnlyStreamsStall` and
`KeysBelong`.

Every safety property of the passing runs is proved. Model-checked only is liveness:
`UploadSettles`, `RequestsEnd`, `CallsEnd` and `EveryHookPosted`, which with fairness and
`ENABLED` is out of the prover's reach. Induction over data is proved where it is over
numbers (`Induction` is a lemma about a set of numbers, not about an operator).

## 6. Where the code and what is said of it differ

Four runs end in a counterexample, each to a sentence of the repository:

1. `MCIngestionEarlyTask`: `documents.py` enqueues "only after the request transaction
   commits". A background task runs before the yield dependency that commits is closed,
   so a worker that is quick enough finds no row, ends its task as done with 0 chunks, and
   the document stays `pending`.
2. `MCIngestionStaleError`: two overlapping deliveries can leave a document `ready` with
   an `error`. The second run assigns `None` to a column it loaded as `None`, which the
   unit of work does not write. It takes a second delivery: `ErrorsAreHonest`.
3. `MCChatNoAlert`: the budget alert fires "on the one request that pushes" spending over
   the budget. Two turns that reach it together both read the sum before, and neither
   fires.
4. `MCSessionsTwice`: the client refreshes "exactly once even if several requests 401
   concurrently". The streaming chat has an exchange of its own.

Met while modelling and visible in the models, without a run of their own:

* `chat.py` says that "the request-scoped session from get_principal has already committed
  and closed" when the stream runs. It is open until the response has been sent, so a stream
  holds two connections in its transactions and one between them. With the default pool (5,
  and 10 overflow) fifteen streams that hold one each wait for a second until the pool's
  timeout fails one of them (`RequestsEnd`); nothing but streams can do this
  (`OnlyStreamsStall`).
* Two admins who demote each other at the same moment leave an organization without one:
  each passed its check before the other committed. `lapsed` marks such organizations and
  `OrgKeepsAdmin` excludes them.
* An exchange that outlives a sign-out stores a pair again (`racing`), or, if the user has
  signed in meanwhile, ends or replaces the new login's session (`outlived`).
* A refresh token lasts 14 days from the exchange that issued it. When it has expired
  the next fetch that comes back 401 signs the user out (`Lapse`).
* Any reply to an exchange other than 200, a 429 or a 500 included, clears the session
  (`Lose` into `refused`).
* A document that was deleted before its task runs ends in a `document.ready` event with 0
  chunks (`notifyAbsent`).
* The embeddings of a run that rolls back were paid for and leave no usage record; a
  second delivery pays for them again. Ingestion compares no budget, so spending
  it carries past the budget raises no alert (`Embed`).
* A worker that dies leaves its document `processing`: the task was acknowledged.
* A turn that begins in one month and sums in the next is compared with a month its event
  is not in (`InOneMonth`).
* A turn that is cut off after the last token records no usage: the event is inserted in
  the transaction a disconnect rolls back, although "every generation call" is recorded
  according to `README.md`.
* A comparison is made with the exact cost, the table holds costs rounded to six decimals:
  a turn whose rounded cost meets the budget may raise no alert, and no later one does
  (`MetByRounding`).
* A chunk may be longer than `size`: the word that did not fit is put behind the carried
  tail without another test. The last chunk may lie within the one before and its tail.
* A call whose `INCR` comes after its window's key has expired starts a new count under an
  old name and is admitted beyond the limit.
* A POST that raises anything but an `httpx.HTTPError` ends the delivery for the hooks
  behind it (`Die`).
* `Chat.tsx` keeps one stream state for the page: a conversation the user moves to shows
  the stream of the one he left; and a stream that ends without an error and without a
  `done` event leaves `isStreaming` set.
* The OAuth callback that links an existing user issues tokens without the `is_active`
  check of its first branch; `get_principal` refuses them later.

## 7. What is not modelled

* **The pages of the web client**: React state and a query cache, owned by one event loop.
  What reaches the chat page is `EventStream`.
* **Usage endpoints**: read-only aggregates of the rows `ChatTurn` and `Ingestion` write.
* **Embedding providers, prices, OAuth clients, PDF extraction, the S3 client**: outside
  services or pure look-ups; the models keep that a call fails or succeeds, and its cost.
  A model is taken to report its token counts (`UsageIsFinal`).
* **Start-up, health, migrations, deployment**: straight-line or declarative. The schema's
  policies, unique indexes and foreign keys are in the guards of the commits they decide.
* Inside modelled parts: the creation of conversations; the look-up of the prompt
  template; the texts, vectors and distances that decide what a search arm finds (any
  ranking of current chunks); the signature of a webhook; the auth role's connection pool
  (its sessions hold one connection and wait for no other); a file upload of the web
  client, which never refreshes; several browser tabs.

## 8. Plan

Done: `DocumentLifecycle` and `Ingestion`, `ChatTurn`, `Requests`, `Sessions`, `Accounts`,
`Webhooks`, `RateLimit`, `Chunking`, `Answers` and `EventStream`, each with proofs of all
its safety properties that hold.

Left, to extend the model: the conversation a first message creates, in `ChatTurn`; uploads
as a third kind of call and a second tab over the same localStorage, in `Sessions`; the
chat page's stream state against the displayed conversation.

Left to prove: `ChatTurn` as an implementation of an abstract ledger of alerts.

## 9. Files

`PROJECT.json` lists the components with their sources, the runs, for every property a
variant of the code that breaks it, the source lines of every definition, the findings,
the hazards and the theorems. A run is `tlc -config <run>.cfg <module>`, a proof
`tlapm <module>.tla`.
