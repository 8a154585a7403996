--------------------------- MODULE ChatTurnProofs ---------------------------
(***************************************************************************)
(* Theorems about the budget alert and the messages of ChatTurn, for every *)
(* set of turns, costs, budgets and history window.                        *)
(***************************************************************************)
EXTENDS ChatTurn, FiniteSetTheorems, WellFoundedInduction, TLAPS

USE ChatAssumption

\* Every reachable state of a conversation has its types.
THEOREM ChatTypes == Spec => []TypeOK
<1>1. Init => TypeOK
  BY DEF Init, TypeOK, Stage, Months, NoBudget
<1>2. TypeOK /\ [Next]_vars => TypeOK'
  <2> SUFFICES ASSUME TypeOK, [Next]_vars PROVE TypeOK'
    OBVIOUS
  <2> USE DEF TypeOK, Goto, Stage, Months, turnVars, dbVars, worldVars
  <2>1. ASSUME NEW t \in Turns, Open(t) PROVE TypeOK'
    BY <2>1 DEF Open, Recent
  <2>2. ASSUME NEW t \in Turns, PersistQuestion(t) PROVE TypeOK'
    <3>1. [turn |-> t, role |-> "user", at |-> clock] \in Message
      BY DEF Message
    <3>2. stage' \in [Turns -> Stage] /\ clock' \in Nat
      BY <2>2 DEF PersistQuestion
    <3>3. messages' \subseteq Message
      BY <2>2, <3>1 DEF PersistQuestion
    <3>4. /\ UNCHANGED <<turnVars, spent, recorded, budget>>
          /\ UNCHANGED <<crossed, alerts, worldVars>>
      BY <2>2 DEF PersistQuestion
    <3> HIDE DEF Stage
    <3> QED
      BY <3>2, <3>3, <3>4
  <2>3. ASSUME NEW t \in Turns, BeginAnswer(t) PROVE TypeOK'
    <3>1. stage' \in [Turns -> Stage] /\ clock' \in Nat
      BY <2>3 DEF BeginAnswer
    <3>2. began' \in [Turns -> Nat] /\ beganMonth' \in [Turns -> Months]
      BY <2>3 DEF BeginAnswer
    <3>3. /\ UNCHANGED <<history, settled, prior, priorMonth, seen, cap, dbVars>>
          /\ UNCHANGED <<crossed, alerts, worldVars>>
      BY <2>3 DEF BeginAnswer
    <3> HIDE DEF Stage, Months
    <3> QED
      BY <3>1, <3>2, <3>3
  <2>4. ASSUME NEW t \in Turns, Generate(t) PROVE TypeOK'
    <3>1. stage' \in [Turns -> Stage]
      BY <2>4 DEF Generate
    <3>2. UNCHANGED <<turnVars, clock, dbVars, crossed, alerts, worldVars>>
      BY <2>4 DEF Generate
    <3> HIDE DEF Stage, Months
    <3> QED
      BY <3>1, <3>2
  <2>5. ASSUME NEW t \in Turns, ReadPrior(t) PROVE TypeOK'
    <3>1. stage' \in [Turns -> Stage] /\ prior' \in [Turns -> Nat]
      BY <2>5 DEF ReadPrior, MonthToDate
    <3>2. priorMonth' \in [Turns -> Months] /\ seen' \in [Turns -> SUBSET Turns]
      BY <2>5 DEF ReadPrior, MonthToDate
    <3>3. /\ UNCHANGED <<history, settled, began, beganMonth, cap, clock, dbVars>>
          /\ UNCHANGED <<crossed, alerts, worldVars>>
      BY <2>5 DEF ReadPrior, MonthToDate
    <3> HIDE DEF Stage, Months
    <3> QED
      BY <3>1, <3>2, <3>3
  <2>6. ASSUME NEW t \in Turns, ReadBudget(t) PROVE TypeOK'
    <3>1. stage' \in [Turns -> Stage] /\ cap' \in [Turns -> Budgets \cup {NoBudget}]
      BY <2>6 DEF ReadBudget
    <3>2. UNCHANGED <<history, settled, began, beganMonth, prior, priorMonth, seen,
                      clock, dbVars, crossed, alerts, worldVars>>
      BY <2>6 DEF ReadBudget
    <3> HIDE DEF Stage, Months
    <3> QED
      BY <3>1, <3>2
  <2>7. ASSUME NEW t \in Turns, CommitAnswer(t) PROVE TypeOK'
    <3>1. [turn |-> t, role |-> "assistant", at |-> began[t]] \in Message
      BY DEF Message
    <3>2. spent' \in [Months -> Nat]
      BY <2>7 DEF CommitAnswer
    <3>3. stage' \in [Turns -> Stage] /\ crossed' \subseteq Turns
      BY <2>7 DEF CommitAnswer
    <3>4. messages' \subseteq Message /\ recorded' \subseteq Turns
      BY <2>7, <3>1 DEF CommitAnswer
    <3>5. UNCHANGED <<turnVars, clock, budget, alerts, worldVars>>
      BY <2>7 DEF CommitAnswer
    <3> HIDE DEF Stage, Months
    <3> QED
      BY <3>2, <3>3, <3>4, <3>5
  <2>8. ASSUME NEW t \in Turns, SendAlert(t) PROVE TypeOK'
    <3>1. stage' \in [Turns -> Stage] /\ alerts' \subseteq Turns
      BY <2>8 DEF SendAlert
    <3>2. UNCHANGED <<turnVars, clock, dbVars, crossed, worldVars>>
      BY <2>8 DEF SendAlert
    <3> HIDE DEF Stage, Months
    <3> QED
      BY <3>1, <3>2
  <2>9. ASSUME NEW t \in Turns, Finish(t) PROVE TypeOK'
    <3>1. stage' \in [Turns -> Stage]
      BY <2>9 DEF Finish
    <3>2. UNCHANGED <<turnVars, clock, dbVars, crossed, alerts, worldVars>>
      BY <2>9 DEF Finish
    <3> HIDE DEF Stage, Months
    <3> QED
      BY <3>1, <3>2
  <2>10. ASSUME NEW t \in Turns, Drop(t) PROVE TypeOK'
    <3>1. stage' \in [Turns -> Stage]
      BY <2>10 DEF Drop
    <3>2. UNCHANGED <<turnVars, clock, dbVars, crossed, alerts, worldVars>>
      BY <2>10 DEF Drop
    <3> HIDE DEF Stage, Months
    <3> QED
      BY <3>1, <3>2
  <2>11. CASE Embed
    <3>1. spent' \in [Months -> Nat] /\ embeddings' \in Nat
      BY <2>11 DEF Embed
    <3>2. /\ UNCHANGED <<stage, turnVars, clock, messages, recorded, budget>>
          /\ UNCHANGED <<crossed, alerts, month, budgetChanges>>
      BY <2>11 DEF Embed
    <3> HIDE DEF Stage, Months
    <3> QED
      BY <3>1, <3>2
  <2>12. CASE SetBudget
    <3>1. budget' \in Budgets \cup {NoBudget} /\ budgetChanges' \in Nat
      BY <2>12 DEF SetBudget
    <3>2. /\ UNCHANGED <<stage, turnVars, clock, messages, spent, recorded>>
          /\ UNCHANGED <<crossed, alerts, month, embeddings>>
      BY <2>12 DEF SetBudget
    <3> HIDE DEF Stage, Months
    <3> QED
      BY <3>1, <3>2
  <2>13. CASE NewMonth
    <3>1. month' \in Months
      BY <2>13 DEF NewMonth
    <3>2. UNCHANGED <<stage, turnVars, clock, dbVars, crossed, alerts,
                      embeddings, budgetChanges>>
      BY <2>13 DEF NewMonth
    <3> HIDE DEF Stage, Months
    <3> QED
      BY <3>1, <3>2
  <2>14. CASE UNCHANGED vars
    BY <2>14 DEF vars
  <2> QED
    BY <2>1, <2>2, <2>3, <2>4, <2>5, <2>6, <2>7, <2>8, <2>9, <2>10, <2>11, <2>12, <2>13, <2>14
    DEF Next, Advance, World
<1> QED
  BY <1>1, <1>2, PTL DEF Spec

-----------------------------------------------------------------------------
\* The turn has summed the month and has not committed.
Summed(t) == stage[t] \in {"priced", "committing"}

\* The inductive invariant of the alert.  What a turn summed is never more
\* than the month holds later, since spending only grows; and if a turn whose
\* crossing is committed was part of the sum, the sum has reached its budget.
AlertInv ==
    /\ \A t \in recorded : stage[t] \in {"alerting", "closing", "done", "gone"}
    /\ crossed \subseteq recorded
    /\ \A t \in Turns : seen[t] \subseteq recorded
    /\ \A t \in Turns : Summed(t) => prior[t] <= spent[priorMonth[t]]
    /\ \A t \in crossed : Crossing(t)
    /\ AlertMeansReached
    /\ \A s \in crossed, t \in Turns :
           /\ Summed(t) \/ t \in crossed
           /\ s \in seen[t] /\ InOneMonth(s) /\ priorMonth[s] = priorMonth[t]
           => cap[s] <= prior[t]

\* The columns of the turn that decide the alert, once it has recorded usage.
Decided(t) ==
    <<beganMonth[t], prior[t], priorMonth[t], seen[t], cap[t]>>

\* A step that neither sums a month nor commits: it may raise the spending,
\* and it leaves what turns that summed have read.
Steady ==
    /\ UNCHANGED <<recorded, crossed>>
    /\ \A m \in Months : spent[m] <= spent'[m]
    /\ \A t \in Turns : seen'[t] = seen[t] /\ prior'[t] = prior[t]
                        /\ priorMonth'[t] = priorMonth[t]
    /\ \A t \in recorded : UNCHANGED Decided(t)
    /\ \A t \in recorded : stage'[t] \in {"alerting", "closing", "done", "gone"}
    /\ \A t \in Turns : Summed(t)' => Summed(t)

LEMMA TurnNumbers ==
    ASSUME TypeOK, NEW t \in Turns
    PROVE  priorMonth[t] \in Months /\ prior[t] \in Int /\ cap[t] \in Int
<1>1. prior[t] \in Nat /\ priorMonth[t] \in Months
  BY DEF TypeOK
<1>2. cap[t] \in Budgets \cup {NoBudget}
  BY DEF TypeOK
<1>3. NoBudget \in Int /\ Budgets \subseteq Int
  BY DEF NoBudget
<1>4. cap[t] \in Int
  BY <1>2, <1>3
<1> QED
  BY <1>1, <1>4

LEMMA SteadyKeeps ==
    ASSUME TypeOK, TypeOK', AlertInv, Steady
    PROVE  AlertInv'
<1>1. \A t \in Turns : priorMonth[t] \in Months /\ prior[t] \in Int /\ cap[t] \in Int
  BY TurnNumbers
<1>2. \A m \in Months : spent[m] \in Int /\ spent'[m] \in Int /\ spent[m] <= spent'[m]
  <2>1. \A m \in Months : spent[m] \in Nat
    BY DEF TypeOK
  <2>2. \A m \in Months : spent'[m] \in Nat
    BY DEF TypeOK
  <2>3. \A m \in Months : spent[m] <= spent'[m]
    BY DEF Steady
  <2> QED
    BY <2>1, <2>2, <2>3
<1>3. \A t \in Turns : Summed(t)' => prior'[t] <= spent'[priorMonth'[t]]
  <2> SUFFICES ASSUME NEW t \in Turns, Summed(t)'
               PROVE  prior'[t] <= spent'[priorMonth'[t]]
    OBVIOUS
  <2>1. prior'[t] = prior[t] /\ priorMonth'[t] = priorMonth[t] /\ Summed(t)
    BY DEF Steady
  <2>2. prior[t] <= spent[priorMonth[t]]
    BY <2>1 DEF AlertInv
  <2> QED
    BY <1>1, <1>2, <2>1, <2>2
<1>4. crossed' = crossed /\ \A t \in crossed : t \in Turns /\ UNCHANGED Decided(t)
  BY DEF Steady, AlertInv, TypeOK
<1>5. \A t \in crossed' : Crossing(t)'
  BY <1>4 DEF AlertInv, Crossing, Whole, Decided
<1>6. AlertMeansReached'
  <2> SUFFICES ASSUME NEW t \in crossed, InOneMonth(t)
               PROVE  spent'[priorMonth[t]] >= cap[t]
    BY <1>4 DEF AlertMeansReached, InOneMonth, Decided
  <2>1. spent[priorMonth[t]] >= cap[t]
    BY DEF AlertInv, AlertMeansReached
  <2> QED
    BY <1>1, <1>2, <1>4, <2>1
<1>7. ASSUME NEW s \in crossed', NEW t \in Turns,
             Summed(t)' \/ t \in crossed',
             s \in seen'[t], InOneMonth(s)', priorMonth'[s] = priorMonth'[t]
      PROVE  cap'[s] <= prior'[t]
  <2>1. s \in crossed /\ InOneMonth(s) /\ cap'[s] = cap[s] /\ priorMonth'[s] = priorMonth[s]
    BY <1>4, <1>7 DEF InOneMonth, Decided
  <2>2. /\ Summed(t) \/ t \in crossed
        /\ seen'[t] = seen[t] /\ prior'[t] = prior[t] /\ priorMonth'[t] = priorMonth[t]
    BY <1>4, <1>7 DEF Steady
  <2> QED
    BY <1>7, <2>1, <2>2 DEF AlertInv
<1>8. /\ \A t \in recorded' : stage'[t] \in {"alerting", "closing", "done", "gone"}
      /\ crossed' \subseteq recorded'
      /\ \A t \in Turns : seen'[t] \subseteq recorded'
  BY DEF Steady, AlertInv
<1> QED
  BY <1>3, <1>5, <1>6, <1>7, <1>8 DEF AlertInv

\* Every step but the sum and the commit is steady.
LEMMA SteadySteps ==
    ASSUME TypeOK, AlertInv, [Next]_vars
    PROVE  \/ Steady
           \/ \E t \in Turns : ReadPrior(t) \/ CommitAnswer(t)
<1> USE DEF TypeOK, Steady, Decided, Summed, Goto, turnVars, dbVars, worldVars
<1>1. \A t \in recorded : stage[t] \in {"alerting", "closing", "done", "gone"}
  BY DEF AlertInv
<1>2. ASSUME NEW t \in Turns, Open(t) PROVE Steady
  BY <1>1, <1>2 DEF Open
<1>3. ASSUME NEW t \in Turns, PersistQuestion(t) PROVE Steady
  BY <1>1, <1>3 DEF PersistQuestion
<1>4. ASSUME NEW t \in Turns, BeginAnswer(t) PROVE Steady
  BY <1>1, <1>4 DEF BeginAnswer
<1>5. ASSUME NEW t \in Turns, Generate(t) PROVE Steady
  BY <1>1, <1>5 DEF Generate
<1>6. ASSUME NEW t \in Turns, ReadBudget(t) PROVE Steady
  BY <1>1, <1>6 DEF ReadBudget
<1>7. ASSUME NEW t \in Turns, SendAlert(t) PROVE Steady
  BY <1>1, <1>7 DEF SendAlert
<1>8. ASSUME NEW t \in Turns, Finish(t) PROVE Steady
  BY <1>1, <1>8 DEF Finish
<1>9. ASSUME NEW t \in Turns, Drop(t) PROVE Steady
  BY <1>1, <1>9 DEF Drop
<1>10. CASE Embed
  BY <1>1, <1>10 DEF Embed
<1>11. CASE SetBudget
  BY <1>1, <1>11 DEF SetBudget
<1>12. CASE NewMonth
  BY <1>1, <1>12 DEF NewMonth
<1>13. CASE UNCHANGED vars
  BY <1>1, <1>13 DEF vars
<1> QED
  BY <1>2, <1>3, <1>4, <1>5, <1>6, <1>7, <1>8, <1>9, <1>10, <1>11, <1>12, <1>13
  DEF Next, Advance, World

LEMMA ReadPriorKeeps ==
    ASSUME TypeOK, TypeOK', AlertInv, NEW t \in Turns, ReadPrior(t)
    PROVE  AlertInv'
<1> USE DEF TypeOK, ReadPrior, MonthToDate, dbVars
<1>1. t \notin recorded /\ t \notin crossed
  BY DEF AlertInv
<1>2. /\ prior' = [prior EXCEPT ![t] = spent[month]]
      /\ priorMonth' = [priorMonth EXCEPT ![t] = month]
      /\ seen' = [seen EXCEPT ![t] = recorded]
      /\ stage' = [stage EXCEPT ![t] = "priced"]
      /\ UNCHANGED <<recorded, crossed, spent, cap, beganMonth>>
  BY DEF Goto
<1>3. /\ \A u \in recorded' : stage'[u] \in {"alerting", "closing", "done", "gone"}
      /\ crossed' \subseteq recorded'
      /\ \A u \in Turns : seen'[u] \subseteq recorded'
  BY <1>1, <1>2 DEF AlertInv
<1>4. \A u \in Turns : Summed(u)' => prior'[u] <= spent'[priorMonth'[u]]
  BY <1>2 DEF AlertInv, Summed
<1>5. \A u \in crossed' : Crossing(u)'
  BY <1>1, <1>2 DEF AlertInv, Crossing, Whole
<1>6. AlertMeansReached'
  BY <1>1, <1>2 DEF AlertInv, AlertMeansReached, InOneMonth
<1>7. ASSUME NEW s \in crossed', NEW u \in Turns,
             Summed(u)' \/ u \in crossed',
             s \in seen'[u], InOneMonth(s)', priorMonth'[s] = priorMonth'[u]
      PROVE  cap'[s] <= prior'[u]
  <2>1. s \in crossed /\ s # t /\ s \in Turns /\ InOneMonth(s)
    BY <1>1, <1>2, <1>7 DEF InOneMonth
  <2>2. CASE u = t
    BY <1>2, <1>7, <2>1, <2>2 DEF AlertInv, AlertMeansReached, NoBudget
  <2>3. CASE u # t
    BY <1>2, <1>7, <2>1, <2>3 DEF AlertInv, Summed
  <2> QED
    BY <2>2, <2>3
<1> QED
  BY <1>3, <1>4, <1>5, <1>6, <1>7 DEF AlertInv

LEMMA CommitKeeps ==
    ASSUME TypeOK, TypeOK', AlertInv, NEW t \in Turns, CommitAnswer(t)
    PROVE  AlertInv'
<1> USE DEF TypeOK, CommitAnswer, turnVars
<1>1. t \notin recorded /\ t \notin crossed /\ Summed(t)
  BY DEF AlertInv, Summed
<1>2. /\ UNCHANGED <<prior, priorMonth, seen, cap, beganMonth>>
      /\ recorded' = recorded \cup {t}
      /\ spent' = [spent EXCEPT ![beganMonth[t]] = @ + Cost[t]]
  OBVIOUS
<1>3. /\ stage' = [stage EXCEPT ![t] = "alerting"] \/ stage' = [stage EXCEPT ![t] = "closing"]
      /\ crossed' = crossed \/ (crossed' = crossed \cup {t} /\ Crossing(t))
  BY DEF Goto
<1>4. \A m \in Months : /\ spent[m] \in Int /\ spent'[m] \in Int
                        /\ spent[m] <= spent'[m]
  <2>1. \A m \in Months : spent[m] \in Nat
    OBVIOUS
  <2>2. Cost[t] \in Nat /\ beganMonth[t] \in Months
    OBVIOUS
  <2>3. \A m \in Months : spent'[m] = IF m = beganMonth[t] THEN spent[m] + Cost[t]
                                                           ELSE spent[m]
    BY <1>2
  <2> QED
    BY <2>1, <2>2, <2>3
<1>5. \A u \in Turns : priorMonth[u] \in Months /\ prior[u] \in Int /\ cap[u] \in Int
  BY TurnNumbers
<1>6. /\ \A u \in recorded' : stage'[u] \in {"alerting", "closing", "done", "gone"}
      /\ crossed' \subseteq recorded'
      /\ \A u \in Turns : seen'[u] \subseteq recorded'
  BY <1>2, <1>3 DEF AlertInv
<1>7. \A u \in Turns : Summed(u)' => prior'[u] <= spent'[priorMonth'[u]]
  <2> SUFFICES ASSUME NEW u \in Turns, Summed(u)'
               PROVE  prior[u] <= spent'[priorMonth[u]]
    BY <1>2
  <2>1. Summed(u)
    BY <1>3 DEF Summed
  <2>2. prior[u] <= spent[priorMonth[u]]
    BY <2>1 DEF AlertInv
  <2> QED
    BY <1>4, <1>5, <2>2
<1>8. \A u \in crossed' : Crossing(u)'
  BY <1>2, <1>3 DEF AlertInv, Crossing, Whole
<1>9. AlertMeansReached'
  <2> SUFFICES ASSUME NEW u \in crossed', InOneMonth(u)
               PROVE  spent'[priorMonth[u]] >= cap[u]
    BY <1>2 DEF AlertMeansReached, InOneMonth
  <2>1. CASE u \in crossed
    <3>1. spent[priorMonth[u]] >= cap[u] /\ u \in Turns
      BY <2>1 DEF AlertInv, AlertMeansReached
    <3> QED
      BY <1>4, <1>5, <3>1
  <2>2. CASE u = t /\ Crossing(t)
    <3>1. spent'[priorMonth[t]] = spent[priorMonth[t]] + Cost[t]
      BY <1>2, <2>2 DEF InOneMonth
    <3>2. prior[t] <= spent[priorMonth[t]]
      BY <1>1 DEF AlertInv
    <3>3. Whole(t) <= Cost[t] /\ Whole(t) \in Int /\ Cost[t] \in Nat
      BY ChatAssumption DEF Whole
    <3> QED
      BY <1>4, <1>5, <2>2, <3>1, <3>2, <3>3 DEF Crossing
  <2> QED
    BY <1>3, <2>1, <2>2
<1>10. ASSUME NEW s \in crossed', NEW u \in Turns,
              Summed(u)' \/ u \in crossed',
              s \in seen'[u], InOneMonth(s)', priorMonth'[s] = priorMonth'[u]
       PROVE  cap'[s] <= prior'[u]
  <2>1. s # t
    BY <1>1, <1>2, <1>10 DEF AlertInv
  <2>2. s \in crossed /\ InOneMonth(s)
    BY <1>2, <1>3, <1>10, <2>1 DEF InOneMonth
  <2>3. Summed(u) \/ u \in crossed
    BY <1>1, <1>3, <1>10 DEF Summed
  <2> QED
    BY <1>2, <1>10, <2>2, <2>3 DEF AlertInv
<1> QED
  BY <1>6, <1>7, <1>8, <1>9, <1>10 DEF AlertInv

LEMMA AlertInductive == Spec => []AlertInv
<1>1. Init => AlertInv
  BY DEF Init, AlertInv, Summed, AlertMeansReached
<1>2. AlertInv /\ TypeOK /\ TypeOK' /\ [Next]_vars => AlertInv'
  BY SteadySteps, SteadyKeeps, ReadPriorKeeps, CommitKeeps
<1> QED
  BY <1>1, <1>2, ChatTypes, PTL DEF Spec

\* No budget alert is decided before the committed spending of its month
\* reached the budget it was compared with.
THEOREM AlertsAreNeverEarly == Spec => []AlertMeansReached
  BY AlertInductive, PTL DEF AlertInv

\* Two alerts for one budget in one month come from overlapping turns only:
\* turns that follow each other raise at most one.
THEOREM SecondAlertNeedsOverlap == Spec => []AlertsOverlap
<1>1. TypeOK /\ AlertInv => AlertsOverlap
  <2> SUFFICES ASSUME TypeOK, AlertInv, NEW s \in crossed, NEW t \in crossed,
                      InOneMonth(s), priorMonth[s] = priorMonth[t],
                      cap[s] = cap[t], s \in seen[t]
               PROVE  FALSE
    BY DEF AlertsOverlap
  <2>1. cap[s] <= prior[t]
    BY DEF AlertInv, TypeOK
  <2>3. prior[t] < cap[t]
    BY DEF AlertInv, Crossing, Whole
  <2>2. prior[t] \in Int /\ cap[t] \in Int
    BY TurnNumbers DEF TypeOK
  <2> QED
    BY <2>1, <2>2, <2>3
<1> QED
  BY <1>1, ChatTypes, AlertInductive, PTL
-----------------------------------------------------------------------------
\* The turn's second transaction is open, and its answer not committed.
Pending(t) == stage[t] \in {"streaming", "generated", "priced", "committing"}

\* The turn's answer is committed and its client still there.
Told(t) == stage[t] \in {"alerting", "closing", "done"}

QuestionBefore(t, time) ==
    \E q \in messages : q.turn = t /\ q.role = "user" /\ q.at < time

\* A turn that answers has asked before.
Asked ==
    /\ \A t \in Turns : stage[t] = "asked" => QuestionBefore(t, clock)
    /\ \A t \in Turns : Pending(t) => QuestionBefore(t, began[t])

\* No two messages have, or will have, one time.
Stamped ==
    /\ \A m \in messages : m.at < clock
    /\ \A m, n \in messages : m.at = n.at => m = n
    /\ \A t \in Turns : Pending(t) =>
           began[t] < clock /\ \A m \in messages : m.at # began[t]
    /\ \A s, t \in Turns : Pending(s) /\ Pending(t) /\ began[s] = began[t] => s = t

MessageInv ==
    /\ IsFiniteSet(messages)
    /\ \A t \in Turns : Told(t) => t \in recorded
    /\ Asked
    /\ Stamped
    /\ AnswersAreCharged

\* A step that writes no message and fixes no time.
Hushed ==
    /\ UNCHANGED <<messages, recorded, clock, began>>
    /\ \A t \in Turns : stage'[t] = "asked" => stage[t] = "asked"
    /\ \A t \in Turns : Pending(t)' => Pending(t)
    /\ \A t \in Turns : Told(t)' => Told(t)

LEMMA HushedSteps ==
    ASSUME TypeOK, [Next]_vars
    PROVE  \/ Hushed
           \/ \E t \in Turns : PersistQuestion(t) \/ BeginAnswer(t) \/ CommitAnswer(t)
<1>0. stage \in [Turns -> Stage]
  BY DEF TypeOK
<1> USE <1>0 DEF Hushed, Pending, Told, Goto, turnVars, dbVars, worldVars
<1>1. ASSUME NEW t \in Turns, Open(t) PROVE Hushed
  BY <1>1 DEF Open
<1>2. ASSUME NEW t \in Turns, Generate(t) PROVE Hushed
  BY <1>2 DEF Generate
<1>3. ASSUME NEW t \in Turns, ReadPrior(t) PROVE Hushed
  BY <1>3 DEF ReadPrior, MonthToDate
<1>4. ASSUME NEW t \in Turns, ReadBudget(t) PROVE Hushed
  BY <1>4 DEF ReadBudget
<1>5. ASSUME NEW t \in Turns, SendAlert(t) PROVE Hushed
  BY <1>5 DEF SendAlert
<1>6. ASSUME NEW t \in Turns, Finish(t) PROVE Hushed
  BY <1>6 DEF Finish
<1>7. ASSUME NEW t \in Turns, Drop(t) PROVE Hushed
  BY <1>7 DEF Drop
<1>8. CASE World
  BY <1>8 DEF World, Embed, SetBudget, NewMonth
<1>9. CASE UNCHANGED vars
  BY <1>9 DEF vars
<1> QED
  BY <1>1, <1>2, <1>3, <1>4, <1>5, <1>6, <1>7, <1>8, <1>9 DEF Next, Advance

LEMMA HushedKeeps == MessageInv /\ Hushed => MessageInv'
<1> SUFFICES ASSUME MessageInv, Hushed PROVE MessageInv'
  OBVIOUS
<1> USE DEF Hushed
<1>1. Asked'
  BY DEF MessageInv, Asked, QuestionBefore
<1>2. Stamped'
  BY DEF MessageInv, Stamped
<1>3. AnswersAreCharged'
  BY DEF MessageInv, AnswersAreCharged
<1> QED
  BY <1>1, <1>2, <1>3 DEF MessageInv

LEMMA PersistKeeps ==
    ASSUME TypeOK, MessageInv, NEW t \in Turns, PersistQuestion(t)
    PROVE  MessageInv'
<1> DEFINE new == [turn |-> t, role |-> "user", at |-> clock]
<1>1. /\ stage[t] = "opened" /\ stage' = [stage EXCEPT ![t] = "asked"]
      /\ stage \in [Turns -> Stage]
      /\ messages' = messages \cup {new}
      /\ clock' = clock + 1
      /\ clock \in Nat
      /\ UNCHANGED <<recorded, began>>
  BY DEF PersistQuestion, Goto, turnVars, TypeOK
<1>2. \A u \in Turns : Pending(u)' => Pending(u) /\ u # t
  BY <1>1 DEF Pending
<1>3. \A m \in messages : m.at \in Nat /\ m.at < clock /\ m.at < clock' /\ m.at # clock
  <2>1. \A m \in messages : m.at \in Nat
    BY DEF TypeOK, Message
  <2>2. \A m \in messages : m.at < clock
    BY DEF MessageInv, Stamped
  <2> QED
    BY <1>1, <2>1, <2>2
<1>4. new.turn = t /\ new.role = "user" /\ new.at = clock /\ new.at < clock'
  BY <1>1
<1> HIDE DEF new
<1>5. IsFiniteSet(messages') /\ \A u \in Turns : Told(u)' => u \in recorded'
  BY <1>1, FS_AddElement DEF MessageInv, Told
<1>6. Asked'
  <2>1. ASSUME NEW u \in Turns, stage'[u] = "asked" PROVE QuestionBefore(u, clock)'
    <3>1. CASE u = t
      BY <1>1, <1>4, <3>1 DEF QuestionBefore
    <3>2. CASE u # t
      <4>1. stage[u] = "asked"
        BY <1>1, <2>1, <3>2
      <4>2. PICK q \in messages : q.turn = u /\ q.role = "user" /\ q.at < clock
        BY <4>1 DEF MessageInv, Asked, QuestionBefore
      <4> QED
        BY <1>1, <1>3, <4>2 DEF QuestionBefore
    <3> QED
      BY <3>1, <3>2
  <2>2. ASSUME NEW u \in Turns, Pending(u)' PROVE QuestionBefore(u, began[u])'
    BY <1>1, <1>2, <2>2 DEF MessageInv, Asked, QuestionBefore
  <2> QED
    BY <2>1, <2>2 DEF Asked
<1>7. Stamped'
  <2>1. \A m \in messages' : m.at < clock'
    BY <1>1, <1>3, <1>4
  <2>2. \A m, n \in messages' : m.at = n.at => m = n
    BY <1>1, <1>3, <1>4 DEF MessageInv, Stamped
  <2>3. ASSUME NEW u \in Turns, Pending(u)'
        PROVE  began'[u] < clock' /\ \A m \in messages' : m.at # began'[u]
    <3>1. began[u] < clock /\ began[u] \in Nat /\ \A m \in messages : m.at # began[u]
      BY <1>2, <2>3 DEF MessageInv, Stamped, TypeOK
    <3> QED
      BY <1>1, <1>4, <3>1
  <2>4. \A s, u \in Turns : Pending(s)' /\ Pending(u)' /\ began'[s] = began'[u] => s = u
    BY <1>1, <1>2 DEF MessageInv, Stamped
  <2> QED
    BY <2>1, <2>2, <2>3, <2>4 DEF Stamped
<1>8. AnswersAreCharged'
  <2>1. \A m \in messages' : m.role = "assistant" => m \in messages
    BY <1>1, <1>4
  <2>2. messages \subseteq messages' /\ recorded' = recorded
    BY <1>1
  <2> QED
    BY <2>1, <2>2 DEF MessageInv, AnswersAreCharged
<1> QED
  BY <1>5, <1>6, <1>7, <1>8 DEF MessageInv

LEMMA BeginKeeps ==
    ASSUME TypeOK, MessageInv, NEW t \in Turns, BeginAnswer(t)
    PROVE  MessageInv'
<1>1. /\ stage[t] = "asked" /\ stage' = [stage EXCEPT ![t] = "streaming"]
      /\ stage \in [Turns -> Stage]
      /\ began' = [began EXCEPT ![t] = clock]
      /\ began \in [Turns -> Nat]
      /\ clock' = clock + 1
      /\ clock \in Nat
      /\ UNCHANGED <<recorded, messages>>
  BY DEF BeginAnswer, Goto, dbVars, TypeOK
<1>2. \A u \in Turns : u # t =>
          (Pending(u)' <=> Pending(u)) /\ began'[u] = began[u] /\ stage'[u] = stage[u]
  BY <1>1 DEF Pending
<1>3. began'[t] = clock /\ stage'[t] = "streaming"
  BY <1>1
<1>4. \A m \in messages : m.at \in Nat /\ m.at < clock /\ m.at < clock' /\ m.at # clock
  <2>1. \A m \in messages : m.at \in Nat
    BY DEF TypeOK, Message
  <2>2. \A m \in messages : m.at < clock
    BY DEF MessageInv, Stamped
  <2> QED
    BY <1>1, <2>1, <2>2
<1>5. IsFiniteSet(messages') /\ \A u \in Turns : Told(u)' => u \in recorded'
  BY <1>1 DEF MessageInv, Told
<1>6. Asked'
  <2>1. ASSUME NEW u \in Turns, stage'[u] = "asked" PROVE QuestionBefore(u, clock)'
    <3>1. stage[u] = "asked"
      BY <1>2, <1>3, <2>1
    <3>2. PICK q \in messages : q.turn = u /\ q.role = "user" /\ q.at < clock
      BY <3>1 DEF MessageInv, Asked, QuestionBefore
    <3> QED
      BY <1>1, <1>4, <3>2 DEF QuestionBefore
  <2>2. ASSUME NEW u \in Turns, Pending(u)' PROVE QuestionBefore(u, began[u])'
    <3>1. CASE u = t
      BY <1>1, <1>3, <3>1 DEF MessageInv, Asked, QuestionBefore
    <3>2. CASE u # t
      BY <1>1, <1>2, <2>2, <3>2 DEF MessageInv, Asked, QuestionBefore
    <3> QED
      BY <3>1, <3>2
  <2> QED
    BY <2>1, <2>2 DEF Asked
<1>7. Stamped'
  <2>1. \A m \in messages' : m.at < clock'
    BY <1>1, <1>4
  <2>2. \A m, n \in messages' : m.at = n.at => m = n
    BY <1>1 DEF MessageInv, Stamped
  <2>3. \A u \in Turns : Pending(u) =>
            began[u] < clock /\ began[u] # clock /\ began[u] < clock'
            /\ \A m \in messages : m.at # began[u]
    <3>1. \A u \in Turns : began[u] \in Nat
      BY <1>1
    <3>2. \A u \in Turns : Pending(u) =>
              began[u] < clock /\ \A m \in messages : m.at # began[u]
      BY DEF MessageInv, Stamped
    <3> QED
      BY <1>1, <3>1, <3>2
  <2>4. ASSUME NEW u \in Turns, Pending(u)'
        PROVE  began'[u] < clock' /\ \A m \in messages' : m.at # began'[u]
    BY <1>1, <1>2, <1>3, <1>4, <2>3, <2>4
  <2>5. ASSUME NEW s \in Turns, NEW u \in Turns,
               Pending(s)', Pending(u)', began'[s] = began'[u]
        PROVE  s = u
    BY <1>2, <1>3, <2>3, <2>5 DEF MessageInv, Stamped
  <2> QED
    BY <2>1, <2>2, <2>4, <2>5 DEF Stamped
<1>8. AnswersAreCharged'
  BY <1>1 DEF MessageInv, AnswersAreCharged
<1> QED
  BY <1>5, <1>6, <1>7, <1>8 DEF MessageInv

LEMMA AnswerKeeps ==
    ASSUME TypeOK, MessageInv, NEW t \in Turns, CommitAnswer(t)
    PROVE  MessageInv'
<1> DEFINE new == [turn |-> t, role |-> "assistant", at |-> began[t]]
<1>1. /\ stage[t] = "committing"
      /\ stage' = [stage EXCEPT ![t] = "alerting"] \/ stage' = [stage EXCEPT ![t] = "closing"]
      /\ stage \in [Turns -> Stage]
      /\ messages' = messages \cup {new}
      /\ recorded' = recorded \cup {t}
      /\ UNCHANGED <<clock, began>>
  BY DEF CommitAnswer, Goto, turnVars, TypeOK
<1>2. /\ Pending(t)
      /\ \A u \in Turns : Pending(u)' => Pending(u) /\ u # t
      /\ \A u \in Turns : stage'[u] = "asked" => stage[u] = "asked"
      /\ \A u \in Turns : Told(u)' => Told(u) \/ u = t
  BY <1>1 DEF Pending, Told
<1>3. began[t] < clock /\ \A m \in messages : m.at # began[t]
  BY <1>2 DEF MessageInv, Stamped
<1>4. new.turn = t /\ new.role = "assistant" /\ new.at = began[t]
  OBVIOUS
<1> HIDE DEF new
<1>5. IsFiniteSet(messages') /\ \A u \in Turns : Told(u)' => u \in recorded'
  BY <1>1, <1>2, FS_AddElement DEF MessageInv
<1>6. Asked'
  BY <1>1, <1>2 DEF MessageInv, Asked, QuestionBefore
<1>7. Stamped'
  <2>1. \A m \in messages' : m.at < clock'
    BY <1>1, <1>3, <1>4 DEF MessageInv, Stamped
  <2>2. \A m, n \in messages' : m.at = n.at => m = n
    BY <1>1, <1>3, <1>4 DEF MessageInv, Stamped
  <2>3. ASSUME NEW u \in Turns, Pending(u)'
        PROVE  began'[u] < clock' /\ \A m \in messages' : m.at # began'[u]
    <3>1. u # t /\ Pending(u) /\ began[u] # began[t]
      BY <1>2, <2>3 DEF MessageInv, Stamped
    <3> QED
      BY <1>1, <1>4, <3>1 DEF MessageInv, Stamped
  <2>4. \A s, u \in Turns : Pending(s)' /\ Pending(u)' /\ began'[s] = began'[u] => s = u
    BY <1>1, <1>2 DEF MessageInv, Stamped
  <2> QED
    BY <2>1, <2>2, <2>3, <2>4 DEF Stamped
<1>8. AnswersAreCharged'
  <2>1. \E q, a \in messages' :
            q.turn = t /\ a.turn = t /\ q.role = "user" /\ q.at < a.at
    <3>1. PICK q \in messages : q.turn = t /\ q.role = "user" /\ q.at < began[t]
      BY <1>2 DEF MessageInv, Asked, QuestionBefore
    <3> QED
      BY <1>1, <1>4, <3>1
  <2>2. new \in messages' /\ messages \subseteq messages'
    BY <1>1
  <2>3. ASSUME NEW u \in Turns
        PROVE  u \in recorded' <=> \E m \in messages' : m.turn = u /\ m.role = "assistant"
    <3>1. CASE u = t
      BY <1>1, <1>4, <2>2, <3>1
    <3>2. CASE u # t
      BY <1>1, <1>4, <2>2, <3>2 DEF MessageInv, AnswersAreCharged
    <3> QED
      BY <3>1, <3>2
  <2>4. ASSUME NEW u \in Turns, u \in recorded'
        PROVE  \E q, a \in messages' :
                   q.turn = u /\ a.turn = u /\ q.role = "user" /\ q.at < a.at
    <3>1. CASE u = t
      BY <2>1, <3>1
    <3>2. CASE u # t
      BY <1>1, <2>2, <2>4, <3>2 DEF MessageInv, AnswersAreCharged
    <3> QED
      BY <3>1, <3>2
  <2> QED
    BY <2>3, <2>4 DEF AnswersAreCharged
<1> QED
  BY <1>5, <1>6, <1>7, <1>8 DEF MessageInv

LEMMA MessagesHold == Spec => []MessageInv
<1>1. Init => MessageInv
  BY FS_EmptySet DEF Init, MessageInv, Asked, Stamped, AnswersAreCharged, Pending, Told
<1>2. TypeOK /\ MessageInv /\ [Next]_vars => MessageInv'
  BY HushedSteps, HushedKeeps, PersistKeeps, BeginKeeps, AnswerKeeps
<1> QED
  BY <1>1, <1>2, ChatTypes, PTL DEF Spec

\* An answer is in the conversation exactly if it is charged, and after its
\* question.
THEOREM AnswersMatchCharges == Spec => []AnswersAreCharged
  BY MessagesHold, PTL DEF MessageInv

-----------------------------------------------------------------------------
\* Nothing but turns spends, in one month and under one budget.
Calm == budget # NoBudget /\ budget > 0 /\ budgetChanges = 0 /\ embeddings = 0 /\ month = 0

Unnoticed == crossed = {} /\ ~\E t \in recorded : MetByRounding(t)

\* A turn that has seen all others' usage has summed what there is; as long as
\* turns follow each other and none crosses, spending stays under the budget.
NoticeInv ==
    /\ \A t \in Turns : beganMonth[t] <= month /\ priorMonth[t] <= month
    /\ Calm => \A t \in Turns : Summed(t) /\ seen[t] = recorded => prior[t] = spent[0]
    /\ Calm => \A t \in Turns :
           stage[t] = "committing" \/ t \in recorded => cap[t] = budget
    /\ Calm /\ ~Overlapped /\ Unnoticed => spent[0] < budget

\* A step that leaves what the invariant reads of turns that summed, and does
\* not make a month, an ingestion or a budget undone.
Idle ==
    /\ UNCHANGED <<recorded, crossed, prior, seen, cap>>
    /\ \A t \in Turns : stage'[t] = "committing" => stage[t] = "committing"
    /\ \A t \in Turns : Summed(t)' => Summed(t)
    /\ \A t \in Turns : beganMonth'[t] <= month' /\ priorMonth'[t] <= month'
    /\ Calm' => Calm /\ UNCHANGED <<spent, budget>>

LEMMA IdleKeeps == NoticeInv /\ Idle => NoticeInv'
<1> SUFFICES ASSUME NoticeInv, Idle PROVE NoticeInv'
  OBVIOUS
<1>1. ASSUME Calm', NEW t \in Turns, Summed(t)', seen'[t] = recorded' PROVE prior'[t] = spent'[0]
  BY <1>1 DEF Idle, NoticeInv
<1>2. ASSUME Calm', NEW t \in Turns, stage'[t] = "committing" \/ t \in recorded'
      PROVE  cap'[t] = budget'
  BY <1>2 DEF Idle, NoticeInv
<1>3. ASSUME Calm', ~Overlapped', Unnoticed' PROVE spent'[0] < budget'
  <2>1. Calm /\ ~Overlapped /\ Unnoticed
    BY <1>3 DEF Idle, Overlapped, Unnoticed, MetByRounding
  <2> QED
    BY <1>3, <2>1 DEF Idle, NoticeInv
<1> QED
  BY <1>1, <1>2, <1>3 DEF Idle, NoticeInv

LEMMA IdleSteps ==
    ASSUME TypeOK, NoticeInv, [Next]_vars
    PROVE  \/ Idle
           \/ \E t \in Turns : ReadPrior(t) \/ ReadBudget(t) \/ CommitAnswer(t)
<1>0. /\ stage \in [Turns -> Stage]
      /\ beganMonth \in [Turns -> Months] /\ priorMonth \in [Turns -> Months]
      /\ month \in Nat /\ embeddings \in Nat /\ budgetChanges \in Nat
      /\ \A t \in Turns : beganMonth[t] <= month /\ priorMonth[t] <= month
  BY DEF TypeOK, NoticeInv, Months
<1>1. \A t \in Turns : beganMonth[t] \in Nat /\ priorMonth[t] \in Nat
  BY <1>0 DEF Months
<1> USE <1>0, <1>1 DEF Idle, Summed, Goto, Calm, turnVars, dbVars, worldVars
<1>2. ASSUME NEW t \in Turns, Open(t) PROVE Idle
  BY <1>2 DEF Open
<1>3. ASSUME NEW t \in Turns, PersistQuestion(t) PROVE Idle
  BY <1>3 DEF PersistQuestion
<1>4. ASSUME NEW t \in Turns, BeginAnswer(t) PROVE Idle
  BY <1>4 DEF BeginAnswer
<1>5. ASSUME NEW t \in Turns, Generate(t) PROVE Idle
  BY <1>5 DEF Generate
<1>6. ASSUME NEW t \in Turns, SendAlert(t) PROVE Idle
  BY <1>6 DEF SendAlert
<1>7. ASSUME NEW t \in Turns, Finish(t) PROVE Idle
  BY <1>7 DEF Finish
<1>8. ASSUME NEW t \in Turns, Drop(t) PROVE Idle
  BY <1>8 DEF Drop
<1>9. CASE Embed
  BY <1>9 DEF Embed
<1>10. CASE SetBudget
  BY <1>10 DEF SetBudget
<1>11. CASE NewMonth
  BY <1>11 DEF NewMonth
<1>12. CASE UNCHANGED vars
  BY <1>12 DEF vars
<1> QED
  BY <1>2, <1>3, <1>4, <1>5, <1>6, <1>7, <1>8, <1>9, <1>10, <1>11, <1>12
  DEF Next, Advance, World

LEMMA SumNotices ==
    ASSUME TypeOK, AlertInv, NoticeInv, NEW t \in Turns, ReadPrior(t)
    PROVE  NoticeInv'
<1>1. /\ stage[t] = "generated" /\ stage' = [stage EXCEPT ![t] = "priced"]
      /\ prior' = [prior EXCEPT ![t] = spent[month]]
      /\ priorMonth' = [priorMonth EXCEPT ![t] = month]
      /\ seen' = [seen EXCEPT ![t] = recorded]
      /\ UNCHANGED <<beganMonth, cap, spent, recorded, budget, crossed,
                     month, embeddings, budgetChanges>>
  BY DEF ReadPrior, MonthToDate, Goto, dbVars, worldVars
<1>2. /\ stage \in [Turns -> Stage] /\ month \in Nat
      /\ prior \in [Turns -> Nat] /\ seen \in [Turns -> SUBSET Turns]
      /\ priorMonth \in [Turns -> Months] /\ recorded \subseteq Turns
  BY DEF TypeOK, Months
<1>3. t \notin recorded
  BY <1>1 DEF AlertInv
<1>4. Calm' <=> Calm
  BY <1>1 DEF Calm
<1>5. \A u \in Turns : beganMonth'[u] <= month' /\ priorMonth'[u] <= month'
  BY <1>1, <1>2 DEF NoticeInv
<1>6. ASSUME Calm', NEW u \in Turns, Summed(u)', seen'[u] = recorded' PROVE prior'[u] = spent'[0]
  <2>1. CASE u = t
    BY <1>1, <1>2, <1>4, <1>6, <2>1 DEF Calm
  <2>2. CASE u # t
    BY <1>1, <1>2, <1>4, <1>6, <2>2 DEF NoticeInv, Summed
  <2> QED
    BY <2>1, <2>2
<1>7. ASSUME Calm', NEW u \in Turns, stage'[u] = "committing" \/ u \in recorded'
      PROVE  cap'[u] = budget'
  BY <1>1, <1>2, <1>4, <1>7 DEF NoticeInv
<1>8. ASSUME Calm', ~Overlapped', Unnoticed' PROVE spent'[0] < budget'
  <2>1. \A u \in recorded : seen'[u] = seen[u] /\ prior'[u] = prior[u]
    BY <1>1, <1>2, <1>3
  <2>2. ~Overlapped
    BY <1>1, <1>8, <2>1 DEF Overlapped
  <2>3. Unnoticed
    BY <1>1, <1>8, <2>1 DEF Unnoticed, MetByRounding
  <2> QED
    BY <1>1, <1>4, <1>8, <2>2, <2>3 DEF NoticeInv
<1> QED
  BY <1>5, <1>6, <1>7, <1>8 DEF NoticeInv

LEMMA BudgetNotices ==
    ASSUME TypeOK, AlertInv, NoticeInv, NEW t \in Turns, ReadBudget(t)
    PROVE  NoticeInv'
<1>1. /\ stage[t] = "priced" /\ stage' = [stage EXCEPT ![t] = "committing"]
      /\ cap' = [cap EXCEPT ![t] = budget]
      /\ UNCHANGED <<beganMonth, prior, priorMonth, seen, spent, recorded,
                     budget, crossed, month, embeddings, budgetChanges>>
  BY DEF ReadBudget, Goto, dbVars, worldVars
<1>2. /\ stage \in [Turns -> Stage] /\ recorded \subseteq Turns
      /\ cap \in [Turns -> Budgets \cup {NoBudget}]
  BY DEF TypeOK
<1>3. t \notin recorded
  BY <1>1 DEF AlertInv
<1>4. Calm' <=> Calm
  BY <1>1 DEF Calm
<1>5. ASSUME Calm', NEW u \in Turns, Summed(u)', seen'[u] = recorded' PROVE prior'[u] = spent'[0]
  BY <1>1, <1>2, <1>4, <1>5 DEF NoticeInv, Summed
<1>6. ASSUME Calm', NEW u \in Turns, stage'[u] = "committing" \/ u \in recorded'
      PROVE  cap'[u] = budget'
  BY <1>1, <1>2, <1>4, <1>6 DEF NoticeInv
<1>7. ASSUME Calm', ~Overlapped', Unnoticed' PROVE spent'[0] < budget'
  <2>1. \A u \in recorded : cap'[u] = cap[u]
    BY <1>1, <1>2, <1>3
  <2>2. ~Overlapped /\ Unnoticed
    BY <1>1, <1>7, <2>1 DEF Overlapped, Unnoticed, MetByRounding
  <2> QED
    BY <1>1, <1>4, <1>7, <2>2 DEF NoticeInv
<1> QED
  BY <1>1, <1>5, <1>6, <1>7 DEF NoticeInv

LEMMA CommitNotices ==
    ASSUME TypeOK, AlertInv, NoticeInv, NEW t \in Turns, CommitAnswer(t)
    PROVE  NoticeInv'
<1>1. /\ stage[t] = "committing"
      /\ stage' = [stage EXCEPT ![t] = "alerting"] \/ stage' = [stage EXCEPT ![t] = "closing"]
      /\ spent' = [spent EXCEPT ![beganMonth[t]] = @ + Cost[t]]
      /\ recorded' = recorded \cup {t}
      /\ IF Crossing(t) THEN crossed' = crossed \cup {t} ELSE crossed' = crossed
      /\ UNCHANGED <<beganMonth, prior, priorMonth, seen, cap, budget,
                     month, embeddings, budgetChanges>>
  BY DEF CommitAnswer, Goto, turnVars, worldVars
<1>2. /\ stage \in [Turns -> Stage] /\ recorded \subseteq Turns
      /\ spent \in [Months -> Nat] /\ beganMonth \in [Turns -> Months]
      /\ \A u \in Turns : seen[u] \subseteq recorded
  BY DEF TypeOK, AlertInv
<1>3. t \notin recorded
  BY <1>1 DEF AlertInv
<1>4. Calm' <=> Calm
  BY <1>1 DEF Calm
<1>5. ASSUME NEW u \in Turns, Summed(u)', seen'[u] = recorded' PROVE FALSE
  BY <1>1, <1>2, <1>3, <1>5
<1>6. ASSUME Calm', NEW u \in Turns, stage'[u] = "committing" \/ u \in recorded'
      PROVE  cap'[u] = budget'
  BY <1>1, <1>2, <1>4, <1>6 DEF NoticeInv
<1>7. ASSUME Calm', ~Overlapped', Unnoticed' PROVE spent'[0] < budget'
  <2>1. ~Overlapped
    BY <1>1, <1>7 DEF Overlapped
  <2>2. ~Crossing(t) /\ ~MetByRounding(t) /\ Unnoticed
    BY <1>1, <1>7 DEF Unnoticed, MetByRounding
  <2>3. spent[0] < budget
    BY <1>4, <1>7, <2>1, <2>2 DEF NoticeInv
  <2>4. seen[t] = recorded
    <3>1. ASSUME NEW s \in recorded, s \notin seen[t] PROVE FALSE
      <4>1. s \in Turns /\ s # t /\ t \notin seen[s]
        BY <1>2, <1>3
      <4>2. s \in recorded' /\ t \in recorded' /\ seen' = seen
        BY <1>1
      <4> QED
        BY <1>7, <3>1, <4>1, <4>2 DEF Overlapped
    <3> QED
      BY <1>2, <3>1
  <2>5. prior[t] = spent[0] /\ cap[t] = budget
    BY <1>1, <1>4, <1>7, <2>4 DEF NoticeInv, Summed
  <2>6. beganMonth[t] = 0
    BY <1>2, <1>4, <1>7 DEF NoticeInv, Calm, Months
  <2>7. spent'[0] = spent[0] + Cost[t]
    BY <1>1, <1>2, <2>6 DEF Months
  <2>8. spent[0] \in Nat /\ Cost[t] \in Nat /\ cap[t] # NoBudget /\ cap[t] \in Int
    <3>1. cap[t] \in Int
      BY TurnNumbers
    <3> QED
      BY <1>2, <1>4, <1>7, <2>5, <3>1 DEF Months, Calm
  <2>9. cap[t] > spent[0] + Cost[t]
    <3>1. ~(cap[t] <= spent[0] + Whole(t))
      BY <2>2, <2>3, <2>5, <2>8 DEF Crossing
    <3>2. CASE t \in RoundedUp
      <4>1. Whole(t) = Cost[t] - 1
        BY <3>2 DEF Whole
      <4>2. spent[0] + Cost[t] # cap[t]
        BY <2>2, <2>5, <3>2 DEF MetByRounding
      <4> QED
        BY <2>8, <3>1, <4>1, <4>2
    <3>3. CASE t \notin RoundedUp
      BY <2>8, <3>1, <3>3 DEF Whole
    <3> QED
      BY <3>2, <3>3
  <2> QED
    BY <1>1, <2>5, <2>7, <2>8, <2>9
<1> QED
  BY <1>1, <1>5, <1>6, <1>7 DEF NoticeInv

LEMMA NoticeHolds == Spec => []NoticeInv
<1>1. Init => NoticeInv
  BY DEF Init, NoticeInv, Summed, Overlapped, Unnoticed, Calm, Months
<1>2. TypeOK /\ AlertInv /\ NoticeInv /\ [Next]_vars => NoticeInv'
  BY IdleSteps, IdleKeeps, SumNotices, BudgetNotices, CommitNotices
<1> QED
  BY <1>1, <1>2, ChatTypes, AlertInductive, PTL DEF Spec

\* Turns that follow each other do not reach a budget unnoticed.
THEOREM SequentialCrossingIsNoticed == Spec => []CrossingNoticed
<1>1. TypeOK /\ NoticeInv => CrossingNoticed
  <2> SUFFICES ASSUME TypeOK, NoticeInv, Calm, ~Overlapped, spent[month] >= budget,
                      Unnoticed
               PROVE  FALSE
    BY DEF CrossingNoticed, Calm, Unnoticed
  <2>1. spent[0] < budget /\ spent[0] >= budget
    BY DEF NoticeInv, Calm
  <2>2. spent[0] \in Int /\ budget \in Int
    BY DEF TypeOK, Months, NoBudget
  <2> QED
    BY <2>1, <2>2
<1> QED
  BY <1>1, ChatTypes, NoticeHolds, PTL

-----------------------------------------------------------------------------
(* The window of the history                                               *)

Later(m) == {n \in messages : n.at > m.at}

\* A set of numbers has a least one.
LEMMA LeastNumber ==
    ASSUME NEW T, T \subseteq Nat, T # {}
    PROVE  \E x \in T : \A y \in T : x <= y
<1> DEFINE R == {ss \in Nat \X Nat : ss[1] < ss[2]}
<1>1. IsWellFoundedOn(R, Nat)
  BY NatLessThanWellFounded, Zenon DEF OpToRel
<1>2. PICK x \in T : \A y \in T : ~(<<y, x>> \in R)
  <2> HIDE DEF R
  <2> QED
    BY <1>1, WFMin
<1>3. ASSUME NEW y \in T PROVE x <= y
  <2>1. x \in Nat /\ y \in Nat /\ ~(<<y, x>> \in R)
    BY <1>2
  <2>2. ~(y < x)
    BY <2>1
  <2> QED
    BY <2>1, <2>2
<1> QED
  BY <1>2, <1>3

\* Some of the messages are the earliest, and some the latest.
LEMMA EarliestMessage ==
    ASSUME TypeOK, NEW S, S \subseteq messages, S # {}
    PROVE  \E e \in S : \A m \in S : e.at <= m.at
<1>1. \A m \in S : m.at \in Nat
  BY DEF TypeOK, Message
<1> DEFINE T == {m.at : m \in S}
<1>2. T \subseteq Nat /\ T # {}
  BY <1>1
<1>3. PICK x \in T : \A y \in T : x <= y
  <2> HIDE DEF T
  <2> QED
    BY <1>2, LeastNumber
<1> QED
  BY <1>3

LEMMA LatestMessage ==
    ASSUME TypeOK, Stamped, NEW S, S \subseteq messages, S # {}
    PROVE  \E e \in S : \A m \in S : m.at <= e.at
<1>1. clock \in Nat /\ \A m \in S : m.at \in Nat /\ m.at < clock
  <2>1. \A m \in S : m.at \in Nat
    BY DEF TypeOK, Message
  <2>2. \A m \in S : m.at < clock
    BY DEF Stamped
  <2> QED
    BY <2>1, <2>2 DEF TypeOK
<1> DEFINE T == {clock - m.at : m \in S}
<1>2. T \subseteq Nat /\ T # {}
  BY <1>1
<1>3. PICK x \in T : \A y \in T : x <= y
  <2> HIDE DEF T
  <2> QED
    BY <1>2, LeastNumber
<1>4. PICK e \in S : x = clock - e.at
  BY <1>3
<1>5. ASSUME NEW m \in S PROVE m.at <= e.at
  <2>1. clock - e.at <= clock - m.at
    BY <1>3, <1>4
  <2> QED
    BY <1>1, <2>1
<1> QED
  BY <1>5

\* If any message is too old for the window, the window is full of later ones:
\* those behind the latest that is too old are MaxHistory or more, and those
\* behind the earliest that is not are fewer.
LEMMA WindowIsFull ==
    ASSUME TypeOK, MessageInv, NEW x \in messages, x \notin Recent
    PROVE  Cardinality(After(Recent, x)) = MaxHistory
<1>1. /\ IsFiniteSet(messages) /\ MaxHistory \in Nat
      /\ Stamped
      /\ \A m, n \in messages : m.at = n.at => m = n
      /\ \A m \in messages : m.at \in Nat
  BY DEF MessageInv, Stamped, TypeOK, Message
<1>2. ASSUME NEW S, S \subseteq messages
      PROVE  /\ IsFiniteSet(S) /\ Cardinality(S) \in Nat
             /\ \A T \in SUBSET S : Cardinality(T) <= Cardinality(S)
  BY <1>1, <1>2, FS_Subset, FS_CardinalityType
<1>3. /\ \A m \in messages : Later(m) \subseteq messages
      /\ \A m \in messages : m \in Recent <=> Cardinality(Later(m)) < MaxHistory
      /\ Recent \subseteq messages
  BY DEF Recent, Later
<1>4. PICK o \in messages \ Recent : \A m \in messages \ Recent : m.at <= o.at
  BY <1>1, LatestMessage, messages \ Recent # {}, messages \ Recent \subseteq messages
<1>5. Later(o) = Recent
  <2>1. ASSUME NEW m \in Later(o) PROVE m \in Recent
    BY <1>1, <1>4, <2>1 DEF Later
  <2>2. ASSUME NEW m \in Recent, m.at <= o.at PROVE FALSE
    <3>1. Later(o) \subseteq Later(m)
      BY <1>1, <1>3, <1>4, <2>2 DEF Later
    <3>2. Cardinality(Later(o)) <= Cardinality(Later(m))
      BY <1>2, <1>3, <3>1
    <3>3. Cardinality(Later(m)) < MaxHistory /\ ~(Cardinality(Later(o)) < MaxHistory)
      BY <1>3, <1>4, <2>2
    <3>4. Cardinality(Later(o)) \in Nat /\ Cardinality(Later(m)) \in Nat
      BY <1>2, <1>3, <1>4
    <3> QED
      BY <1>1, <3>2, <3>3, <3>4
  <2>3. ASSUME NEW m \in Recent PROVE m \in Later(o)
    BY <1>1, <1>3, <1>4, <2>2, <2>3 DEF Later
  <2> QED
    BY <2>1, <2>3
<1>6. Cardinality(Recent) \in Nat /\ Cardinality(Recent) >= MaxHistory
  BY <1>1, <1>2, <1>3, <1>4, <1>5
<1>7. Recent # {}
  BY <1>6, FS_EmptySet, ChatAssumption
<1>8. PICK e \in Recent : \A m \in Recent : e.at <= m.at
  BY <1>3, <1>7, EarliestMessage
<1>9. Recent = Later(e) \cup {e}
  <2>1. ASSUME NEW m \in Recent, m # e PROVE m \in Later(e)
    BY <1>1, <1>3, <1>8, <2>1 DEF Later
  <2>2. ASSUME NEW m \in Later(e) PROVE m \in Recent
    <3>1. m \in messages /\ e \in messages /\ m.at > e.at
      BY <1>3, <1>8, <2>2 DEF Later
    <3>2. Later(m) \subseteq Later(e)
      BY <1>1, <3>1 DEF Later
    <3>3. Cardinality(Later(m)) <= Cardinality(Later(e))
      BY <1>2, <1>3, <3>1, <3>2
    <3>4. Cardinality(Later(e)) < MaxHistory
      BY <1>3, <1>8, <3>1
    <3>5. Cardinality(Later(e)) \in Nat /\ Cardinality(Later(m)) \in Nat
      BY <1>2, <1>3, <3>1
    <3> QED
      BY <1>1, <1>3, <3>1, <3>3, <3>4, <3>5
  <2> QED
    BY <1>8, <2>1, <2>2
<1>10. Cardinality(Recent) = Cardinality(Later(e)) + 1
  <2>1. e \notin Later(e) /\ IsFiniteSet(Later(e))
    BY <1>1, <1>2, <1>3, <1>8 DEF Later
  <2> QED
    BY <1>9, <2>1, FS_AddElement
<1>11. Cardinality(Later(e)) \in Nat /\ Cardinality(Later(e)) < MaxHistory
  BY <1>2, <1>3, <1>8
<1>12. ASSUME NEW m \in Recent PROVE m.at > x.at
  <2>1. x.at <= o.at /\ m.at > o.at
    BY <1>4, <1>5 DEF Later
  <2> QED
    BY <1>1, <1>3, <1>4, <2>1
<1>13. After(Recent, x) = Recent
  BY <1>12 DEF After
<1> QED
  BY <1>1, <1>6, <1>10, <1>11, <1>13

Of(s) == {m \in messages : m.turn = s}

\* What a turn opened with is not changed later, nor is what a finished turn
\* left in the conversation.
LEMMA OpenedStays ==
    ASSUME TypeOK, [Next]_vars
    PROVE  \/ /\ UNCHANGED <<history, settled>>
              /\ \A t \in Turns : stage'[t] # "new" => stage[t] # "new"
           \/ \E t \in Turns : Open(t)
<1> DEFINE Kept == /\ UNCHANGED <<history, settled>>
                   /\ \A t \in Turns : stage'[t] # "new" => stage[t] # "new"
<1>0. stage \in [Turns -> Stage]
  BY DEF TypeOK
<1> USE <1>0 DEF Goto, turnVars
<1>1. ASSUME NEW t \in Turns, Advance(t) PROVE Kept
  BY <1>1 DEF Advance, PersistQuestion, BeginAnswer, Generate, ReadPrior, ReadBudget,
              CommitAnswer, SendAlert, Finish
<1>2. ASSUME NEW t \in Turns, Drop(t) PROVE Kept
  BY <1>2 DEF Drop
<1>3. CASE World
  BY <1>3 DEF World, Embed, SetBudget, NewMonth
<1>4. CASE UNCHANGED vars
  BY <1>4 DEF vars
<1> QED
  BY <1>1, <1>2, <1>3, <1>4 DEF Next

LEMMA DoneStays ==
    ASSUME TypeOK, [Next]_vars, NEW s \in Turns, stage[s] = "done"
    PROVE  stage'[s] = "done" /\ Of(s)' = Of(s)
<1> DEFINE Kept == stage'[s] = "done" /\ Of(s)' = Of(s)
<1>0. stage \in [Turns -> Stage]
  BY DEF TypeOK
<1> USE <1>0 DEF Goto, Of, dbVars
<1>1. ASSUME NEW t \in Turns, Open(t) PROVE Kept
  BY <1>1 DEF Open
<1>2. ASSUME NEW t \in Turns, Advance(t) PROVE Kept
  <2>1. CASE PersistQuestion(t)
    BY <2>1 DEF PersistQuestion
  <2>2. CASE CommitAnswer(t)
    BY <2>2 DEF CommitAnswer
  <2> QED
    BY <1>2, <2>1, <2>2 DEF Advance, BeginAnswer, Generate, ReadPrior, ReadBudget,
                            SendAlert, Finish
<1>3. ASSUME NEW t \in Turns, Drop(t) PROVE Kept
  BY <1>3 DEF Drop
<1>4. CASE World
  BY <1>4 DEF World, Embed, SetBudget, NewMonth
<1>5. CASE UNCHANGED vars
  BY <1>5 DEF vars
<1> QED
  BY <1>1, <1>2, <1>3, <1>4, <1>5 DEF Next

\* What a turn that opens now sends along.
LEMMA RecentRemembers ==
    ASSUME TypeOK, MessageInv
    PROVE  Remembers(Recent, {s \in Turns : stage[s] = "done"})
<1>1. ASSUME NEW s \in Turns, stage[s] = "done"
      PROVE  {m.role : m \in {n \in messages : n.turn = s}} = {"user", "assistant"}
  <2>1. s \in recorded
    BY <1>1 DEF MessageInv, Told
  <2>2. /\ \E q \in messages : q.turn = s /\ q.role = "user"
        /\ \E a \in messages : a.turn = s /\ a.role = "assistant"
    BY <2>1 DEF MessageInv, AnswersAreCharged
  <2>3. \A m \in messages : m.role \in {"user", "assistant"}
    BY DEF TypeOK, Message
  <2> QED
    BY <2>2, <2>3
<1> QED
  BY <1>1, WindowIsFull DEF Remembers

\* What every opened turn sent along, of turns that are done.
HistoryInv ==
    \A t \in Turns :
        /\ stage[t] # "new" => Remembers(history[t], settled[t])
        /\ \A s \in settled[t] : stage[s] = "done"

LEMMA OpenSeesAnswers ==
    ASSUME TypeOK, MessageInv, HistoryInv, NEW t \in Turns, Open(t)
    PROVE  HistoryInv'
<1>1. /\ history' = [history EXCEPT ![t] = Recent]
      /\ settled' = [settled EXCEPT ![t] = {s \in Turns : stage[s] = "done"}]
      /\ stage' = [stage EXCEPT ![t] = "opened"]
      /\ stage[t] = "new"
      /\ messages' = messages
      /\ history \in [Turns -> SUBSET Message]
      /\ settled \in [Turns -> SUBSET Turns]
      /\ stage \in [Turns -> Stage]
  BY DEF Open, Goto, TypeOK, dbVars
<1>2. ASSUME NEW h, NEW ss, Remembers(h, ss) PROVE Remembers(h, ss)'
  BY <1>1, <1>2 DEF Remembers, After
<1>3. ASSUME NEW u \in Turns, NEW s \in settled'[u] PROVE stage'[s] = "done"
  <2>1. s \in Turns /\ stage[s] = "done"
    BY <1>1, <1>3 DEF HistoryInv
  <2> QED
    BY <1>1, <2>1
<1>4. ASSUME NEW u \in Turns, stage'[u] # "new"
      PROVE  Remembers(history[u], settled[u])'
  <2>1. CASE u = t
    <3>1. history'[u] = Recent /\ settled'[u] = {s \in Turns : stage[s] = "done"}
      BY <1>1, <2>1
    <3>2. Remembers(history'[u], settled'[u])
      BY <3>1, RecentRemembers
    <3> QED
      BY <1>1, <3>2 DEF Remembers, After
  <2>2. CASE u # t
    <3>1. /\ history'[u] = history[u] /\ settled'[u] = settled[u]
          /\ stage[u] # "new"
      BY <1>1, <1>4, <2>2
    <3>2. Remembers(history'[u], settled'[u])
      BY <3>1 DEF HistoryInv
    <3> QED
      BY <1>1, <3>2 DEF Remembers, After
  <2> QED
    BY <2>1, <2>2
<1> QED
  BY <1>3, <1>4 DEF HistoryInv

\* A client that was told done and asks on is answered with both messages of
\* that turn in the history, or with a window full of messages later than the
\* one that is missing.
THEOREM HistoryHoldsSettledTurns == Spec => []FollowUpSeesAnswer
<1>1. Init => HistoryInv
  BY DEF Init, HistoryInv
<1>2. TypeOK /\ MessageInv /\ HistoryInv /\ [Next]_vars => HistoryInv'
  <2> SUFFICES ASSUME TypeOK, MessageInv, HistoryInv, [Next]_vars
               PROVE  HistoryInv'
    OBVIOUS
  <2>1. CASE /\ UNCHANGED <<history, settled>>
             /\ \A t \in Turns : stage'[t] # "new" => stage[t] # "new"
    <3>1. ASSUME NEW t \in Turns, NEW s \in settled'[t]
          PROVE  /\ s \in settled[t]
                 /\ stage'[s] = "done"
                 /\ {n \in messages' : n.turn = s} = {n \in messages : n.turn = s}
      <4>1. s \in settled[t] /\ s \in Turns
        BY <2>1, <3>1 DEF TypeOK
      <4>2. stage[s] = "done"
        BY <4>1 DEF HistoryInv
      <4> QED
        BY <4>1, <4>2, DoneStays DEF Of
    <3>2. ASSUME NEW t \in Turns, stage'[t] # "new"
          PROVE  Remembers(history[t], settled[t])'
      <4>1. Remembers(history[t], settled[t])
        BY <2>1, <3>2 DEF HistoryInv
      <4>2. ASSUME NEW s \in settled'[t]
            PROVE  /\ {m.role : m \in {n \in messages' : n.turn = s}}
                          = {"user", "assistant"}
                   /\ \A m \in messages' : m.turn = s =>
                        \/ m \in history[t]
                        \/ Cardinality(After(history[t], m)) = MaxHistory
        <5>1. \A m \in messages' : m.turn = s => m \in messages
          BY <3>1, <4>2
        <5> QED
          BY <3>1, <4>1, <4>2, <5>1 DEF Remembers
      <4> QED
        BY <2>1, <4>2 DEF Remembers, After
    <3> QED
      BY <3>1, <3>2 DEF HistoryInv
  <2>2. CASE \E t \in Turns : Open(t)
    BY <2>2, OpenSeesAnswers
  <2> QED
    BY <2>1, <2>2, OpenedStays
<1>3. TypeOK /\ MessageInv /\ HistoryInv => FollowUpSeesAnswer
  BY RecentRemembers DEF HistoryInv, FollowUpSeesAnswer
<1> QED
  BY <1>1, <1>2, <1>3, ChatTypes, MessagesHold, PTL DEF Spec
=============================================================================
