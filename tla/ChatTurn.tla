------------------------------ MODULE ChatTurn ------------------------------
(***************************************************************************)
(* POST /conversations/{id}/messages: the turns of one conversation, the   *)
(* usage events they record and the budget alert they may raise.           *)
(*                                                                         *)
(* A turn runs two transactions of its own, with the language model        *)
(* streaming inside the second.  Other turns, the ingestion pipeline's     *)
(* embedding costs, the administrator who sets the budget and the turn of  *)
(* the month come between any two of its statements.                       *)
(***************************************************************************)
EXTENDS Integers, FiniteSets

CONSTANTS
    Turns,            \* chat requests
    Cost,             \* what each turn's generation costs, as usage_events
                      \* holds it: rounded to the column's six decimals
    RoundedUp,        \* turns whose exact cost is less than that
    Budgets,          \* amounts an administrator may set
    EmbeddingCost,    \* what one ingestion costs
    MaxHistory,       \* max_history_messages
    MaxMonth,         \* bound: months that pass
    MaxEmbeddings,    \* bound: ingestions
    MaxBudgetChanges  \* bound: changes of the budget

ASSUME ChatAssumption ==
    /\ Cost \in [Turns -> Nat]
    /\ RoundedUp \subseteq {t \in Turns : Cost[t] > 0}
    /\ Budgets \subseteq Nat
    /\ EmbeddingCost \in Nat
    /\ MaxHistory \in Nat \ {0}
    /\ MaxMonth \in Nat
    /\ MaxEmbeddings \in Nat
    /\ MaxBudgetChanges \in Nat

Months == 0 .. MaxMonth

\* monthly_budget_usd is NULL
NoBudget == -1

\* A message: its turn, who wrote it, and created_at, the start of the
\* transaction that inserted it.
Message == [turn : Turns, role : {"user", "assistant"}, at : Nat]

Stage == {"new", "opened", "asked", "streaming", "generated", "priced",
          "committing", "alerting", "closing", "done", "gone"}

VARIABLES
    stage,       \* where each turn is
    clock,       \* the database's time, a tick for each transaction begun
    month,       \* the current month
    messages,    \* committed messages of the conversation
    history,     \* the messages each turn sent along as history
    settled,     \* the turns that were done when each turn was opened
    began,       \* start of each turn's second transaction
    beganMonth,  \* and its month
    prior,       \* month-to-date cost as record_usage read it
    priorMonth,  \* and the month it summed
    seen,        \* the turns whose usage event that sum included
    cap,         \* the budget as record_usage read it
    spent,       \* committed cost of the usage events of each month
    recorded,    \* turns with a committed generation usage event
    budget,      \* monthly_budget_usd
    crossed,     \* turns that committed and found the budget crossed
    alerts,      \* turns that enqueued a budget.alert
    embeddings,
    budgetChanges

turnVars == <<history, settled, began, beganMonth, prior, priorMonth, seen, cap>>
dbVars == <<messages, spent, recorded, budget>>
worldVars == <<month, embeddings, budgetChanges>>
vars == <<stage, clock, month, messages, history, settled, began, beganMonth,
          prior, priorMonth, seen, cap, spent, recorded, budget,
          crossed, alerts, embeddings, budgetChanges>>

Init ==
    /\ stage = [t \in Turns |-> "new"]
    /\ clock = 0
    /\ month = 0
    /\ messages = {}
    /\ history = [t \in Turns |-> {}]
    /\ settled = [t \in Turns |-> {}]
    /\ began = [t \in Turns |-> 0]
    /\ beganMonth = [t \in Turns |-> 0]
    /\ prior = [t \in Turns |-> 0]
    /\ priorMonth = [t \in Turns |-> 0]
    /\ seen = [t \in Turns |-> {}]
    /\ cap = [t \in Turns |-> NoBudget]
    /\ spent = [m \in Months |-> 0]
    /\ recorded = {}
    /\ budget \in Budgets \cup {NoBudget}
    /\ crossed = {}
    /\ alerts = {}
    /\ embeddings = 0
    /\ budgetChanges = 0

-----------------------------------------------------------------------------
Goto(t, s) == stage' = [stage EXCEPT ![t] = s]

\* Mutant: the order is not descending, the window is of the oldest messages.
RecentOldest == {m \in messages :
                   Cardinality({n \in messages : n.at < m.at}) < MaxHistory}

\* The last MaxHistory messages by created_at.
Recent == {m \in messages :
             Cardinality({n \in messages : n.at > m.at}) < MaxHistory}

\* The endpoint: the conversation is found and its history loaded.
Open(t) ==
    /\ stage[t] = "new"
    /\ history' = [history EXCEPT ![t] = Recent]
    /\ settled' = [settled EXCEPT ![t] = {s \in Turns : stage[s] = "done"}]
    /\ Goto(t, "opened")
    /\ UNCHANGED <<clock, dbVars, began, beganMonth, prior, priorMonth, seen,
                   cap, crossed, alerts, worldVars>>

\* First transaction of the stream: the user's message, committed by itself.
PersistQuestion(t) ==
    /\ stage[t] = "opened"
    /\ messages' = messages \cup {[turn |-> t, role |-> "user", at |-> clock]}
    /\ clock' = clock + 1
    /\ Goto(t, "asked")
    /\ UNCHANGED <<turnVars, spent, recorded, budget, crossed,
                   alerts, worldVars>>

\* Second transaction, its first statement: now() is fixed here.
BeginAnswer(t) ==
    /\ stage[t] = "asked"
    /\ began' = [began EXCEPT ![t] = clock]
    /\ beganMonth' = [beganMonth EXCEPT ![t] = month]
    /\ clock' = clock + 1
    /\ Goto(t, "streaming")
    /\ UNCHANGED <<history, settled, prior, priorMonth, seen, cap, dbVars,
                   crossed, alerts, worldVars>>

\* stream_answer: retrieval, then the model's tokens, each yielded at once.
Generate(t) ==
    /\ stage[t] = "streaming"
    /\ Goto(t, "generated")
    /\ UNCHANGED <<turnVars, clock, dbVars, crossed, alerts, worldVars>>

\* Mutant: the sum over no events is left the NULL it is.
MonthToDateNull == IF spent[month] = 0 THEN -1 ELSE spent[month]

\* month_to_date_cost_usd: the sum of the committed events since the start of
\* the month on the api's clock, zero if there are none.
MonthToDate == spent[month]

\* Mutant: the answer is committed before its usage is recorded.
ReadPriorAfterAnswer(t) ==
    /\ stage[t] = "generated"
    /\ messages' = messages \cup
         {[turn |-> t, role |-> "assistant", at |-> began[t]]}
    /\ prior' = [prior EXCEPT ![t] = MonthToDate]
    /\ priorMonth' = [priorMonth EXCEPT ![t] = month]
    /\ seen' = [seen EXCEPT ![t] = recorded]
    /\ Goto(t, "priced")
    /\ UNCHANGED <<history, settled, began, beganMonth, cap, clock, spent,
                   recorded, budget, crossed, alerts, worldVars>>

\* record_usage, its first statement.
ReadPrior(t) ==
    /\ stage[t] = "generated"
    /\ prior' = [prior EXCEPT ![t] = MonthToDate]
    /\ priorMonth' = [priorMonth EXCEPT ![t] = month]
    /\ seen' = [seen EXCEPT ![t] = recorded]
    /\ Goto(t, "priced")
    /\ UNCHANGED <<history, settled, began, beganMonth, cap, clock, dbVars,
                   crossed, alerts, worldVars>>

\* record_usage: the event is flushed, then the organization is read.
ReadBudget(t) ==
    /\ stage[t] = "priced"
    /\ cap' = [cap EXCEPT ![t] = budget]
    /\ Goto(t, "committing")
    /\ UNCHANGED <<history, settled, began, beganMonth, prior, priorMonth, seen,
                   clock, dbVars, crossed, alerts, worldVars>>

\* What of the exact cost counts against a budget, which is a whole number of
\* the column's units like every sum of stored costs.
Whole(t) == IF t \in RoundedUp THEN Cost[t] - 1 ELSE Cost[t]

\* Mutants: the upper comparison is missing, the lower one is, the upper one
\* is strict.
CrossingEarly(t) == cap[t] # NoBudget /\ prior[t] < cap[t]

CrossingAgain(t) == cap[t] # NoBudget /\ cap[t] <= prior[t] + Whole(t)

CrossingStrict(t) ==
    cap[t] # NoBudget /\ prior[t] < cap[t] /\ cap[t] < prior[t] + Whole(t)

\* record_usage's crossed: the sum before the turn is of stored costs, the
\* turn's own cost is the exact one.
Crossing(t) ==
    /\ cap[t] # NoBudget
    /\ prior[t] < cap[t]
    /\ cap[t] <= prior[t] + Whole(t)

\* Second transaction, the commit: the answer and its usage event together.
CommitAnswer(t) ==
    /\ stage[t] = "committing"
    /\ messages' = messages \cup
         {[turn |-> t, role |-> "assistant", at |-> began[t]]}
    /\ spent' = [spent EXCEPT ![beganMonth[t]] = @ + Cost[t]]
    /\ recorded' = recorded \cup {t}
    /\ IF Crossing(t)
         THEN Goto(t, "alerting") /\ crossed' = crossed \cup {t}
         ELSE Goto(t, "closing") /\ UNCHANGED crossed
    /\ UNCHANGED <<turnVars, clock, budget, alerts, worldVars>>

\* enqueue_webhook_event after the commit.
SendAlert(t) ==
    /\ stage[t] = "alerting"
    /\ alerts' = alerts \cup {t}
    /\ Goto(t, "closing")
    /\ UNCHANGED <<turnVars, clock, dbVars, crossed, worldVars>>

\* The citations and done events.
Finish(t) ==
    /\ stage[t] = "closing"
    /\ Goto(t, "done")
    /\ UNCHANGED <<turnVars, clock, dbVars, crossed, alerts, worldVars>>

\* The client disconnects, the model, the database or the broker raises, or
\* the process is killed: the open transaction rolls back.
Drop(t) ==
    /\ stage[t] \notin {"new", "done", "gone"}
    /\ Goto(t, "gone")
    /\ UNCHANGED <<turnVars, clock, dbVars, crossed, alerts, worldVars>>

\* run_ingestion records an embedding usage event and checks no budget.
Embed ==
    /\ embeddings < MaxEmbeddings
    /\ spent' = [spent EXCEPT ![month] = @ + EmbeddingCost]
    /\ embeddings' = embeddings + 1
    /\ UNCHANGED <<stage, turnVars, clock, messages, recorded, budget, crossed,
                   alerts, month, budgetChanges>>

\* PATCH /organizations/me by an administrator.
SetBudget ==
    /\ budgetChanges < MaxBudgetChanges
    /\ budget' \in (Budgets \cup {NoBudget}) \ {budget}
    /\ budgetChanges' = budgetChanges + 1
    /\ UNCHANGED <<stage, turnVars, clock, messages, spent, recorded, crossed,
                   alerts, month, embeddings>>

NewMonth ==
    /\ month < MaxMonth
    /\ month' = month + 1
    /\ UNCHANGED <<stage, turnVars, clock, dbVars, crossed, alerts,
                   embeddings, budgetChanges>>

Advance(t) ==
    \/ PersistQuestion(t)
    \/ BeginAnswer(t)
    \/ Generate(t)
    \/ ReadPrior(t)
    \/ ReadBudget(t)
    \/ CommitAnswer(t)
    \/ SendAlert(t)
    \/ Finish(t)

World == Embed \/ SetBudget \/ NewMonth

Next ==
    \/ \E t \in Turns : Open(t) \/ Advance(t) \/ Drop(t)
    \/ World

Spec == Init /\ [][Next]_vars

-----------------------------------------------------------------------------
(* Properties                                                              *)

TypeOK ==
    /\ stage \in [Turns -> Stage]
    /\ clock \in Nat
    /\ month \in Months
    /\ messages \subseteq Message
    /\ history \in [Turns -> SUBSET Message]
    /\ settled \in [Turns -> SUBSET Turns]
    /\ began \in [Turns -> Nat]
    /\ beganMonth \in [Turns -> Months]
    /\ prior \in [Turns -> Nat]
    /\ priorMonth \in [Turns -> Months]
    /\ seen \in [Turns -> SUBSET Turns]
    /\ cap \in [Turns -> Budgets \cup {NoBudget}]
    /\ spent \in [Months -> Nat]
    /\ recorded \subseteq Turns
    /\ budget \in Budgets \cup {NoBudget}
    /\ crossed \subseteq Turns
    /\ alerts \subseteq Turns
    /\ embeddings \in Nat
    /\ budgetChanges \in Nat

\* The turn's usage event is dated in the month whose spending it was added
\* to when the crossing was decided.
InOneMonth(t) == beganMonth[t] = priorMonth[t]

\* An alert is never early: by the time it is decided the committed spending
\* of its month has reached the budget it was compared with, whatever other
\* turns and ingestions did since it was summed.
AlertMeansReached ==
    \A t \in crossed : InOneMonth(t) => spent[priorMonth[t]] >= cap[t]

\* Two turns alert for the same budget in the same month only if they
\* overlapped: neither saw the other's usage event when it summed the month.
AlertsOverlap ==
    \A s, t \in crossed :
        /\ s # t
        /\ InOneMonth(s)
        /\ InOneMonth(t)
        /\ priorMonth[s] = priorMonth[t]
        /\ cap[s] = cap[t]
        => s \notin seen[t]

\* Turns that recorded usage without seeing each other's.
Overlapped ==
    \E s, t \in recorded : s # t /\ s \notin seen[t] /\ t \notin seen[s]

\* A turn whose stored cost meets the budget exactly and whose exact cost does
\* not: the next sum has reached the budget and no turn crosses it.
MetByRounding(t) == t \in RoundedUp /\ prior[t] + Cost[t] = cap[t]

\* When spending reaches a budget that never changed, some turn noticed,
\* unless turns overlapped, an ingestion paid for part of it, the month turned
\* or a cost was rounded up to the budget: the sequential case of the alert.
CrossingNoticed ==
    budget # NoBudget /\ budget > 0 /\ budgetChanges = 0 /\ embeddings = 0
      /\ month = 0 /\ ~Overlapped /\ spent[month] >= budget
    => crossed # {} \/ \E t \in recorded : MetByRounding(t)

\* The messages of h that were created later than m.
After(h, m) == {n \in h : n.at > m.at}

\* Both messages of each turn of ss are in the conversation, and each is in the
\* history h unless h has a whole window of later ones instead.
Remembers(h, ss) ==
    \A s \in ss :
        /\ {m.role : m \in {n \in messages : n.turn = s}} = {"user", "assistant"}
        /\ \A m \in messages : m.turn = s =>
               m \in h \/ Cardinality(After(h, m)) = MaxHistory

\* A client that was told done and asks on: the earlier turn is in the history
\* sent along, but for what as many later messages have pushed out, however the
\* turns in between, their answers dated at the start of their transactions,
\* overlapped.  So it is for a turn that opens now, and so it was for each that
\* has opened.
FollowUpSeesAnswer ==
    /\ Remembers(Recent, {s \in Turns : stage[s] = "done"})
    /\ \A t \in Turns : stage[t] # "new" => Remembers(history[t], settled[t])

\* An answer is in the conversation exactly if its cost is in the usage
\* events, and only after its question, however the turn ended.
AnswersAreCharged ==
    \A t \in Turns :
        /\ t \in recorded <=> \E m \in messages : m.turn = t /\ m.role = "assistant"
        /\ t \in recorded => \E q, a \in messages :
               q.turn = t /\ a.turn = t /\ q.role = "user" /\ q.at < a.at

\* "exactly one alert per monthly cycle" (README): a turn that saw the month
\* under budget and committed it at or over the budget alerts.
CrossingAlerts ==
    budget # NoBudget /\ spent[month] >= budget /\ budget > 0
      /\ (\A t \in Turns : stage[t] \in {"new", "done"})
    => alerts # {}
=============================================================================
