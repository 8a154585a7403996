------------------------------ MODULE Webhooks ------------------------------
(***************************************************************************)
(* Webhooks of all tenants: registration and deletion in the api, and the  *)
(* delivery of events, dispatch_webhooks_for_event, which an ingestion     *)
(* task calls at its end and the worker's dispatch_webhook_event task runs *)
(* for the api.  A delivery reads the hooks in one transaction and posts   *)
(* to them one after the other.                                            *)
(***************************************************************************)
EXTENDS Integers, FiniteSets

CONSTANTS
    Orgs,
    Kinds,            \* WebhookEvent
    Hooks,            \* ids of org_webhooks rows
    Deliveries,       \* calls of dispatch_webhooks_for_event
    MaxRedeliveries,  \* bound: tasks the broker hands out again
    MaxFaults         \* bound: crashes and raised errors

ASSUME WebhooksAssumption ==
    /\ Orgs # {} /\ Kinds # {}
    /\ MaxRedeliveries \in Nat
    /\ MaxFaults \in Nat

\* A row of org_webhooks; nothing changes one, is_active is never cleared.
Hook == [org : Orgs, kinds : (SUBSET Kinds) \ {{}}]

Event == [org : Orgs, kind : Kinds]

AnyHook == CHOOSE r \in Hook : TRUE

AnyEvent == CHOOSE e \in Event : TRUE

Stage == {"none", "queued", "posting", "done", "dead"}

VARIABLES
    row,         \* org_webhooks
    created,     \* the hooks that were made
    live,        \* those not deleted since
    stage,       \* where each delivery is
    event,       \* what it delivers
    gone,        \* history: the hooks deleted before it was enqueued
    todo,        \* the hooks it has read and not posted to
    posted,      \* history: those it has posted to
    redelivered,
    faults

vars == <<row, created, live, stage, event, gone, todo, posted, redelivered, faults>>

Init ==
    /\ row = [h \in Hooks |-> AnyHook]
    /\ created = {}
    /\ live = {}
    /\ stage = [d \in Deliveries |-> "none"]
    /\ event = [d \in Deliveries |-> AnyEvent]
    /\ gone = [d \in Deliveries |-> {}]
    /\ todo = [d \in Deliveries |-> {}]
    /\ posted = [d \in Deliveries |-> {}]
    /\ redelivered = 0
    /\ faults = 0

-----------------------------------------------------------------------------
\* POST /webhooks.
CreateHook(h, r) ==
    /\ h \notin created
    /\ row' = [row EXCEPT ![h] = r]
    /\ created' = created \cup {h}
    /\ live' = live \cup {h}
    /\ UNCHANGED <<stage, event, gone, todo, posted, redelivered, faults>>

\* Mutant: the id of a deleted hook is given out again.
FreeHook(h) ==
    /\ h \in live
    /\ live' = live \ {h}
    /\ created' = created \ {h}
    /\ UNCHANGED <<row, stage, event, gone, todo, posted, redelivered, faults>>

\* DELETE /webhooks/{id}.
DeleteHook(h) ==
    /\ h \in live
    /\ live' = live \ {h}
    /\ UNCHANGED <<row, created, stage, event, gone, todo, posted, redelivered, faults>>

Begin(d, e) ==
    /\ stage[d] = "none"
    /\ stage' = [stage EXCEPT ![d] = "queued"]
    /\ event' = [event EXCEPT ![d] = e]
    /\ gone' = [gone EXCEPT ![d] = created \ live]
    /\ UNCHANGED <<row, created, live, todo, posted, faults>>

\* enqueue_webhook_event in the api, or the end of an ingestion task.
Raise(d, e) == Begin(d, e) /\ UNCHANGED redelivered

\* The broker hands a waiting task out a second time.
Redeliver(d, c) ==
    /\ redelivered < MaxRedeliveries
    /\ stage[c] = "queued"
    /\ Begin(d, event[c])
    /\ redelivered' = redelivered + 1

-----------------------------------------------------------------------------
\* Mutant: the policy is not in force.
VisibleToAll(org) == live

\* What row-level security shows of the table to a session bound to org.
Visible(org) == {h \in live : row[h].org = org}

Subscribed(e) == {h \in Visible(e.org) : e.kind \in row[h].kinds}

\* The transaction that reads the hooks; with none there is nothing to do.
LoadHooks(d) ==
    LET hooks == Subscribed(event[d]) IN
    /\ stage[d] = "queued"
    /\ todo' = [todo EXCEPT ![d] = hooks]
    /\ stage' = [stage EXCEPT ![d] = IF hooks = {} THEN "done" ELSE "posting"]
    /\ UNCHANGED <<row, created, live, event, gone, posted, redelivered, faults>>

Took(d, h) ==
    /\ stage[d] = "posting"
    /\ h \in todo[d]
    /\ posted' = [posted EXCEPT ![d] = @ \cup {h}]

\* Mutant: an endpoint that fails ends the loop.
StopAtError(d, h) ==
    /\ Took(d, h)
    /\ todo' = [todo EXCEPT ![d] = @ \ {h}]
    /\ stage' = [stage EXCEPT ![d] = "done"]
    /\ UNCHANGED <<row, created, live, event, gone, redelivered, faults>>

\* One POST: an endpoint that answers an error or not within the timeout is
\* logged and skipped like one that answers 2xx, and the next one follows in
\* the order the query gave, which is any.
PostHook(d, h) ==
    /\ Took(d, h)
    /\ todo' = [todo EXCEPT ![d] = @ \ {h}]
    /\ stage' = [stage EXCEPT ![d] = IF todo[d] = {h} THEN "done" ELSE "posting"]
    /\ UNCHANGED <<row, created, live, event, gone, redelivered, faults>>

\* The worker is killed, the database raises, or a POST raises what is not an
\* httpx.HTTPError: the rest of the list is not posted to.
Die(d) ==
    /\ faults < MaxFaults
    /\ stage[d] \in {"queued", "posting"}
    /\ stage' = [stage EXCEPT ![d] = "dead"]
    /\ todo' = [todo EXCEPT ![d] = {}]
    /\ faults' = faults + 1
    /\ UNCHANGED <<row, created, live, event, gone, posted, redelivered>>

Step(d) == LoadHooks(d) \/ \E h \in Hooks : PostHook(d, h)

Next ==
    \/ \E h \in Hooks : DeleteHook(h) \/ \E r \in Hook : CreateHook(h, r)
    \/ \E d \in Deliveries :
           \/ \E e \in Event : Raise(d, e)
           \/ \E c \in Deliveries : Redeliver(d, c)
           \/ Step(d)
           \/ Die(d)

Spec == Init /\ [][Next]_vars

\* A worker takes a waiting task and goes on with the one it has: every POST
\* ends within the client's timeout.
FairSpec == Spec /\ \A d \in Deliveries : WF_vars(Step(d))
-----------------------------------------------------------------------------
TypeOK ==
    /\ row \in [Hooks -> Hook]
    /\ created \subseteq Hooks
    /\ live \subseteq created
    /\ stage \in [Deliveries -> Stage]
    /\ event \in [Deliveries -> Event]
    /\ gone \in [Deliveries -> SUBSET created]
    /\ todo \in [Deliveries -> SUBSET created]
    /\ posted \in [Deliveries -> SUBSET created]
    /\ redelivered \in Nat
    /\ faults \in Nat

\* An event reaches hooks of its own tenant that subscribe to its kind, none
\* that was deleted before the event was raised, also when hooks come and go
\* and tasks are delivered twice while others are being posted.
OwnHooksOnly ==
    \A d \in Deliveries : \A h \in posted[d] :
        /\ row[h].org = event[d].org
        /\ event[d].kind \in row[h].kinds
        /\ h \notin gone[d]

\* "a slow or failing endpoint is skipped and logged rather than retried, so
\* one bad webhook can't back up the queue" (tasks/webhooks.py): every hook
\* subscribed when the event is raised is posted to, whatever the others
\* answer, unless it is deleted first or the delivery dies; and the delivery
\* ends.
EveryHookPosted ==
    \A d \in Deliveries :
        /\ stage[d] = "queued" ~> stage[d] \in {"done", "dead"}
        /\ \A h \in Hooks :
               stage[d] = "queued" /\ h \in Subscribed(event[d])
                 ~> h \in posted[d] \/ h \notin live \/ stage[d] = "dead"
=============================================================================
