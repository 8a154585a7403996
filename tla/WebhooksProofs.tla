--------------------------- MODULE WebhooksProofs ---------------------------
(***************************************************************************)
(* Theorems about Webhooks, for any number of tenants, hooks, deliveries,  *)
(* redeliveries and faults.                                                *)
(*                                                                         *)
(* Types are inductive by themselves.  That an event reaches hooks of its  *)
(* own tenant only (Matched) needs the same of the hooks a delivery has    *)
(* read and not posted to, and that a deleted hook never comes back.       *)
(***************************************************************************)
EXTENDS Webhooks, TLAPS

USE WebhooksAssumption

-----------------------------------------------------------------------------
(* Types                                                                   *)

LEMMA TypeInit == Init => TypeOK
<1> SUFFICES ASSUME Init PROVE TypeOK
  OBVIOUS
<1>1. AnyHook \in Hook
  <2>1. PICK o \in Orgs, k \in Kinds : TRUE
    BY WebhooksAssumption
  <2>2. {k} \in SUBSET Kinds /\ k \in {k} /\ ~(k \in {})
    BY <2>1
  <2>3. {k} \in (SUBSET Kinds) \ {{}}
    BY <2>2
  <2>4. [org |-> o, kinds |-> {k}] \in Hook
    BY <2>1, <2>3 DEF Hook
  <2> QED
    BY <2>4 DEF AnyHook
<1>2. AnyEvent \in Event
  <2>1. PICK o \in Orgs, k \in Kinds : TRUE
    BY WebhooksAssumption
  <2>2. [org |-> o, kind |-> k] \in Event
    BY <2>1 DEF Event
  <2> QED
    BY <2>2 DEF AnyEvent
<1> QED
  BY <1>1, <1>2 DEF Init, TypeOK, Stage

LEMMA TypeStep == TypeOK /\ [Next]_vars => TypeOK'
<1> SUFFICES ASSUME TypeOK, [Next]_vars PROVE TypeOK'
  OBVIOUS
<1>1. ASSUME NEW h \in Hooks, DeleteHook(h) PROVE TypeOK'
  BY <1>1 DEF TypeOK, DeleteHook
<1>2. ASSUME NEW h \in Hooks, NEW r \in Hook, CreateHook(h, r) PROVE TypeOK'
  BY <1>2 DEF TypeOK, CreateHook
<1>3. ASSUME NEW d \in Deliveries, NEW e \in Event, Begin(d, e), redelivered' \in Nat
      PROVE  TypeOK'
  BY <1>3 DEF TypeOK, Begin, Stage
<1>4. ASSUME NEW d \in Deliveries, NEW e \in Event, Raise(d, e) PROVE TypeOK'
  BY <1>3, <1>4 DEF Raise, TypeOK
<1>5. ASSUME NEW d \in Deliveries, NEW c \in Deliveries, Redeliver(d, c) PROVE TypeOK'
  <2>1. event[c] \in Event /\ redelivered' \in Nat /\ Begin(d, event[c])
    BY <1>5 DEF Redeliver, TypeOK
  <2> QED
    BY <1>3, <2>1
<1>6. ASSUME NEW d \in Deliveries, LoadHooks(d) PROVE TypeOK'
  <2>1. Subscribed(event[d]) \subseteq created
    BY DEF Subscribed, Visible, TypeOK
  <2> QED
    BY <1>6, <2>1 DEF TypeOK, LoadHooks, Stage
<1>7. ASSUME NEW d \in Deliveries, NEW h \in Hooks, PostHook(d, h) PROVE TypeOK'
  <2>1. h \in created
    BY <1>7 DEF PostHook, Took, TypeOK
  <2>2. /\ posted' \in [Deliveries -> SUBSET created]
        /\ todo' \in [Deliveries -> SUBSET created]
    BY <1>7, <2>1 DEF PostHook, Took, TypeOK
  <2>3. stage' \in [Deliveries -> Stage]
    BY <1>7 DEF PostHook, TypeOK, Stage
  <2> QED
    BY <1>7, <2>2, <2>3 DEF PostHook, TypeOK
<1>8. ASSUME NEW d \in Deliveries, Die(d) PROVE TypeOK'
  BY <1>8 DEF TypeOK, Die, Stage
<1>9. CASE UNCHANGED vars
  BY <1>9 DEF TypeOK, vars
<1> QED
  BY <1>1, <1>2, <1>4, <1>5, <1>6, <1>7, <1>8, <1>9 DEF Next, Step

\* Every reachable state is well typed.
THEOREM WebhookTypes == Spec => []TypeOK
  BY TypeInit, TypeStep, PTL DEF Spec

-----------------------------------------------------------------------------
(* Deliveries                                                              *)

\* A hook that delivery d may post to.
Meant(d, h) ==
    /\ row[h].org = event[d].org
    /\ event[d].kind \in row[h].kinds
    /\ h \notin gone[d]

Matched ==
    \A d \in Deliveries :
        /\ gone[d] \cap live = {}
        /\ stage[d] = "none" => todo[d] = {} /\ posted[d] = {}
        /\ \A h \in todo[d] \cup posted[d] : Meant(d, h)

LEMMA MatchedStep == TypeOK /\ Matched /\ [Next]_vars => Matched'
<1> SUFFICES ASSUME TypeOK, Matched, [Next]_vars PROVE Matched'
  OBVIOUS
<1>1. ASSUME NEW h \in Hooks, DeleteHook(h) PROVE Matched'
  BY <1>1 DEF TypeOK, Matched, Meant, DeleteHook
<1>2. ASSUME NEW h \in Hooks, NEW r \in Hook, CreateHook(h, r) PROVE Matched'
  <2>1. \A g \in created : g \in Hooks /\ row'[g] = row[g]
    BY <1>2 DEF TypeOK, CreateHook
  <2>2. \A d \in Deliveries : gone[d] \cup todo[d] \cup posted[d] \subseteq created
    BY DEF TypeOK
  <2> QED
    BY <1>2, <2>1, <2>2 DEF Matched, Meant, CreateHook
<1>3. ASSUME NEW d \in Deliveries, NEW e, Begin(d, e) PROVE Matched'
  <2>1. /\ stage[d] = "none"
        /\ \A c \in Deliveries : stage'[c] = IF c = d THEN "queued" ELSE stage[c]
        /\ \A c \in Deliveries : event'[c] = IF c = d THEN e ELSE event[c]
        /\ \A c \in Deliveries : gone'[c] = IF c = d THEN created \ live ELSE gone[c]
        /\ UNCHANGED <<row, live, todo, posted>>
    BY <1>3 DEF Begin, TypeOK
  <2> QED
    BY <2>1 DEF Matched, Meant
<1>4. ASSUME NEW d \in Deliveries, LoadHooks(d) PROVE Matched'
  <2>1. /\ \A c \in Deliveries :
             todo'[c] = IF c = d THEN Subscribed(event[d]) ELSE todo[c]
        /\ \A c \in Deliveries : stage'[c] = "none" => stage[c] = "none" /\ c # d
        /\ UNCHANGED <<row, live, event, gone, posted>>
    BY <1>4 DEF LoadHooks, TypeOK
  <2>2. \A h \in Subscribed(event[d]) :
          h \in live /\ row[h].org = event[d].org /\ event[d].kind \in row[h].kinds
    BY DEF Subscribed, Visible
  <2>3. \A h \in Subscribed(event[d]) : Meant(d, h)
    BY <2>2 DEF Matched, Meant
  <2>4. ASSUME NEW c \in Deliveries, NEW h \in todo'[c] \cup posted'[c] PROVE Meant(c, h)'
    <3>1. Meant(c, h)
      BY <2>1, <2>3, <2>4 DEF Matched
    <3> QED
      BY <2>1, <3>1 DEF Meant
  <2> QED
    BY <2>1, <2>4 DEF Matched
<1>5. ASSUME NEW d \in Deliveries, NEW h \in Hooks, PostHook(d, h) PROVE Matched'
  <2>1. /\ h \in todo[d] /\ stage[d] = "posting"
        /\ \A c \in Deliveries : todo'[c] = IF c = d THEN todo[c] \ {h} ELSE todo[c]
        /\ \A c \in Deliveries : posted'[c] = IF c = d THEN posted[c] \cup {h} ELSE posted[c]
        /\ \A c \in Deliveries : stage'[c] = "none" => stage[c] = "none" /\ c # d
        /\ UNCHANGED <<row, live, event, gone>>
    BY <1>5 DEF PostHook, Took, TypeOK
  <2>2. ASSUME NEW c \in Deliveries, NEW g \in todo'[c] \cup posted'[c] PROVE Meant(c, g)'
    <3>1. g \in todo[c] \cup posted[c]
      BY <2>1, <2>2
    <3>2. Meant(c, g)
      BY <3>1 DEF Matched
    <3> QED
      BY <2>1, <3>2 DEF Meant
  <2> QED
    BY <2>1, <2>2 DEF Matched
<1>6. ASSUME NEW d \in Deliveries, Die(d) PROVE Matched'
  <2>1. /\ \A c \in Deliveries : todo'[c] \subseteq todo[c]
        /\ \A c \in Deliveries : stage'[c] = "none" => stage[c] = "none"
        /\ UNCHANGED <<row, live, event, gone, posted>>
    BY <1>6 DEF Die, TypeOK
  <2> QED
    BY <2>1 DEF Matched, Meant
<1>7. CASE UNCHANGED vars
  BY <1>7 DEF Matched, Meant, vars
<1> QED
  BY <1>1, <1>2, <1>3, <1>4, <1>5, <1>6, <1>7 DEF Next, Step, Raise, Redeliver

\* An event reaches hooks of its own tenant that subscribe to its kind and were
\* not deleted before it was raised.
THEOREM OwnHooks == Spec => []OwnHooksOnly
<1>1. Init => Matched
  BY DEF Init, Matched, Meant
<1>2. Matched => OwnHooksOnly
  BY DEF Matched, Meant, OwnHooksOnly
<1> QED
  BY <1>1, <1>2, TypeInit, TypeStep, MatchedStep, PTL DEF Spec
=============================================================================
