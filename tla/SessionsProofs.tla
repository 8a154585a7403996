--------------------------- MODULE SessionsProofs ---------------------------
(***************************************************************************)
(* Theorems about Sessions.                                                *)
(*                                                                         *)
(* A call presents the token of the exchange it asks with (Asks), and a    *)
(* granted pair is known to the call it was granted to alone (Grants).     *)
(* From these: fetches take turns, a login has one live token, which its   *)
(* exchanges have read, and it is in the store or about to be; so nothing  *)
(* refuses the user's own exchange unless two calls presented one token,   *)
(* or the token has expired.                                               *)
(***************************************************************************)
EXTENDS Sessions, TLAPS, FiniteSetTheorems, SequenceTheorems

USE SessionsAssumption

-----------------------------------------------------------------------------
(* Helpers                                                                 *)

\* A finite set has at most one element exactly if its elements are equal.
LEMMA AtMostOne ==
    ASSUME NEW S, IsFiniteSet(S)
    PROVE  Cardinality(S) <= 1 <=> \A x, y \in S : x = y
<1>1. ASSUME Cardinality(S) <= 1, NEW x \in S, NEW y \in S PROVE x = y
  <2>1. Cardinality({x}) = 1 /\ Cardinality({x}) <= Cardinality(S)
    BY FS_Singleton, FS_Subset, {x} \in SUBSET S
  <2>2. Cardinality(S) \in Nat
    BY FS_CardinalityType
  <2>3. Cardinality(S) = Cardinality({x})
    BY <1>1, <2>1, <2>2
  <2> QED
    BY <2>3, FS_Subset, {x} \in SUBSET S
<1>2. ASSUME \A x, y \in S : x = y PROVE Cardinality(S) <= 1
  <2>1. CASE S = {}
    BY <2>1, FS_EmptySet
  <2>2. CASE S # {}
    <3>1. PICK x \in S : TRUE
      BY <2>2
    <3>2. S = {x}
      BY <1>2, <3>1
    <3> QED
      BY <3>2, FS_Singleton
  <2> QED
    BY <2>1, <2>2
<1> QED
  BY <1>1, <1>2

-----------------------------------------------------------------------------
(* Types                                                                   *)

\* _issue_tokens extends the tables by one pair.
LEMMA IssueExtends ==
    ASSUME TypeOK, NEW login \in Nat, NEW revoked, Issue(login, revoked)
    PROVE  /\ issued' = issued + 1 /\ issued' \in Nat
           /\ 0 .. issued \subseteq 0 .. issued'
           /\ fresh' \subseteq 1 .. issued'
           /\ live' \subseteq 1 .. issued'
           /\ chain' \in [1 .. issued' -> Nat]
           /\ presented' \in [1 .. issued' -> SUBSET Calls]
           /\ \A n \in 1 .. issued : chain'[n] = chain[n] /\ presented'[n] = presented[n]
           /\ chain'[issued + 1] = login
           /\ presented'[issued + 1] = {}
           /\ fresh' = fresh \cup {issued + 1}
           /\ live' = (live \cup {issued + 1}) \ revoked
           /\ lapsed' = lapsed /\ lapsed' \subseteq 1 .. issued'
<1>1. issued' = issued + 1 /\ issued \in Nat
  BY DEF TypeOK, Issue
<1>2. fresh' \subseteq 1 .. issued' /\ live' \subseteq 1 .. issued'
  <2>1. fresh' = fresh \cup {issued + 1} /\ live' \subseteq live \cup {issued + 1}
    BY DEF Issue
  <2>2. fresh \subseteq 1 .. issued /\ live \subseteq 1 .. issued
    BY DEF TypeOK
  <2> QED
    BY <1>1, <2>1, <2>2
<1>3. /\ chain' \in [1 .. issued + 1 -> Nat]
      /\ \A n \in 1 .. issued : chain'[n] = chain[n]
      /\ chain'[issued + 1] = login
  <2>1. chain \in [1 .. issued -> Nat] /\ chain' = Append(chain, login)
    BY DEF TypeOK, Issue
  <2>2. chain \in Seq(Nat) /\ Len(chain) = issued /\ login \in Nat
    BY <1>1, <2>1
  <2>3. /\ Append(chain, login) \in Seq(Nat)
        /\ Len(Append(chain, login)) = issued + 1
        /\ \A n \in 1 .. issued : Append(chain, login)[n] = chain[n]
        /\ Append(chain, login)[issued + 1] = login
    BY <2>2, AppendProperties
  <2>4. chain' \in Seq(Nat) /\ Len(chain') = issued + 1
    BY <2>1, <2>3
  <2>5. chain' \in [1 .. Len(chain') -> Nat]
    BY <2>4, LenProperties
  <2> QED
    BY <2>1, <2>3, <2>4, <2>5
<1>4. /\ presented' \in [1 .. issued + 1 -> SUBSET Calls]
      /\ \A n \in 1 .. issued : presented'[n] = presented[n]
      /\ presented'[issued + 1] = {}
  <2>1. presented \in [1 .. issued -> SUBSET Calls] /\ presented' = Append(presented, {})
    BY DEF TypeOK, Issue
  <2>2. presented \in Seq((SUBSET Calls)) /\ Len(presented) = issued /\ {} \in (SUBSET Calls)
    BY <1>1, <2>1
  <2>3. /\ Append(presented, {}) \in Seq((SUBSET Calls))
        /\ Len(Append(presented, {})) = issued + 1
        /\ \A n \in 1 .. issued : Append(presented, {})[n] = presented[n]
        /\ Append(presented, {})[issued + 1] = {}
    BY <2>2, AppendProperties
  <2>4. presented' \in Seq((SUBSET Calls)) /\ Len(presented') = issued + 1
    BY <2>1, <2>3
  <2>5. presented' \in [1 .. Len(presented') -> (SUBSET Calls)]
    BY <2>4, LenProperties
  <2> QED
    BY <2>1, <2>3, <2>4, <2>5
<1>5. fresh' = fresh \cup {issued + 1} /\ live' = (live \cup {issued + 1}) \ revoked
  BY DEF Issue
<1>6. lapsed' = lapsed /\ lapsed' \subseteq 1 .. issued'
  <2>1. lapsed' = lapsed /\ lapsed \subseteq 1 .. issued
    BY DEF Issue, TypeOK
  <2> QED
    BY <1>1, <2>1
<1> QED
  BY <1>1, <1>2, <1>3, <1>4, <1>5, <1>6

\* The types of the calls alone, for pairs up to n.
CallTypes(n) ==
    /\ stage \in [Calls -> Stage]
    /\ used \in [Calls -> 0 .. n]
    /\ exchange \in [Calls -> Exchange]
    /\ token \in [Calls -> 0 .. n]
    /\ grant \in [Calls -> 0 .. n]
    /\ store \in 0 .. n

\* A call asks exactly while it has an exchange, which presents its token; a
\* call that presented a token has not been answered with 401 since.
Asks ==
    /\ \A c \in Calls : exchange[c] = "none" <=> stage[c] # "asking"
    /\ \A c \in Calls : stage[c] = "asking" =>
         token[c] \in 1 .. issued /\ c \in presented[token[c]]
    /\ \A n \in 1 .. issued : \A c \in presented[n] :
         stage[c] \in {"asking", "resent", "ok", "failed"}

\* What a call that came back 401 does.
LEMMA RefreshCases ==
    ASSUME NEW c \in Calls, RefreshFetch(c) \/ RefreshStream(c)
    PROVE  /\ stage[c] = "denied"
           /\ UNCHANGED <<used, grant, serverVars, active, userVars, faults>>
           /\ \/ /\ stage' = [stage EXCEPT ![c] = "joined"]
                 /\ UNCHANGED <<exchange, token, store, presented>>
              \/ /\ store = Nothing
                 /\ Fail({c})
                 /\ UNCHANGED <<exchange, token, presented>>
              \/ /\ store # Nothing
                 /\ c \in Fetches => Leaders = {}
                 /\ StartExchange(c)
                 /\ UNCHANGED store
  BY SessionsAssumption DEF RefreshFetch, RefreshStream, Calls

\* Every action keeps the types.
LEMMA TypeStep == TypeOK /\ Asks /\ [Next]_vars => TypeOK'
<1> SUFFICES ASSUME TypeOK, Asks, [Next]_vars PROVE TypeOK'
  OBVIOUS
<1>0. /\ issued \in Nat /\ logins \in Nat /\ faults \in Nat /\ MaxEvents \in Nat
      /\ Events = logins + faults + Cardinality(lapsed) + (IF active THEN 0 ELSE 1)
      /\ Cardinality(lapsed) \in Nat
      /\ chain \in [1 .. issued -> Nat]
      /\ presented \in [1 .. issued -> SUBSET Calls]
  <2>1. lapsed \subseteq 1 .. issued /\ issued \in Nat
    BY DEF TypeOK
  <2>2. IsFiniteSet(lapsed)
    <3>1. IsFiniteSet(1 .. issued)
      BY <2>1, FS_Interval, 1 \in Int, issued \in Int
    <3> QED
      BY <2>1, <3>1, FS_Subset
  <2>3. Cardinality(lapsed) \in Nat
    BY <2>2, FS_CardinalityType
  <2> QED
    BY <2>1, <2>3 DEF TypeOK, Events
<1>1. CASE Login
  <2>1. Issue(logins + 1, {}) /\ logins + 1 \in Nat /\ UNCHANGED clientVars
    BY <1>0, <1>1 DEF Login
  <2>2. logins' \in 0 .. MaxEvents
    BY <1>0, <1>1 DEF Login
  <2>3. /\ outlived' \in BOOLEAN /\ racing' \in BOOLEAN
        /\ signedOut' \in BOOLEAN /\ active' \in BOOLEAN
        /\ faults' \in 0 .. MaxEvents
    BY <1>1 DEF Login, TypeOK
  <2>4. leaving' \subseteq 1 .. issued /\ store' = issued + 1
    BY <1>1 DEF Login, TypeOK
  <2>5. CallTypes(issued)
    BY DEF TypeOK, CallTypes
  <2> HIDE DEF Issue
  <2>6. /\ issued' = issued + 1 /\ issued' \in Nat
        /\ 0 .. issued \subseteq 0 .. issued'
        /\ fresh' \subseteq 1 .. issued' /\ live' \subseteq 1 .. issued'
        /\ lapsed' \subseteq 1 .. issued'
        /\ chain' \in [1 .. issued' -> Nat]
        /\ presented' \in [1 .. issued' -> SUBSET Calls]
    BY <2>1, IssueExtends
  <2>7. UNCHANGED <<stage, used, exchange, token, grant>>
    BY <2>1 DEF clientVars
  <2>8. /\ stage' \in [Calls -> Stage] /\ exchange' \in [Calls -> Exchange]
        /\ used' \in [Calls -> 0 .. issued']
        /\ token' \in [Calls -> 0 .. issued']
        /\ grant' \in [Calls -> 0 .. issued']
    BY <2>5, <2>6, <2>7 DEF CallTypes
  <2>9. leaving' \subseteq 1 .. issued' /\ store' \in 0 .. issued'
    BY <1>0, <2>4, <2>6
  <2> QED
    BY <2>2, <2>3, <2>6, <2>8, <2>9 DEF TypeOK
<1>2. CASE Logout
  <2>1. racing' \in BOOLEAN
    BY <1>2 DEF Logout, TypeOK
  <2>2. leaving' \subseteq 1 .. issued /\ store' \in 0 .. issued
    BY <1>0, <1>2 DEF Logout, TypeOK, Nothing
  <2>3. UNCHANGED <<clientVars, serverVars, presented, active, logins, outlived, faults>>
        /\ signedOut'
    BY <1>2 DEF Logout
  <2> QED
    BY <2>1, <2>2, <2>3 DEF TypeOK, clientVars, serverVars
<1>3. CASE Deactivate
  BY <1>3 DEF TypeOK, Deactivate, clientVars, serverVars, userVars
<1>4. CASE Lose
  <2>1. faults' \in 0 .. MaxEvents
    BY <1>0, <1>4 DEF Lose
  <2>2. exchange' \in [Calls -> Exchange]
    BY <1>4 DEF TypeOK, Lose, Exchange
  <2>3. stage' \in [Calls -> Stage] /\ store' \in 0 .. issued
    BY <1>0, <1>4 DEF TypeOK, Lose, Fail, Stage, Nothing
  <2>4. leaving' \subseteq 1 .. issued
    BY <1>4 DEF TypeOK, Lose
  <2>5. UNCHANGED <<used, token, grant, serverVars, presented, active, logins,
                    signedOut, outlived, racing>>
    BY <1>4 DEF Lose
  <2> QED
    BY <2>1, <2>2, <2>3, <2>4, <2>5 DEF TypeOK, serverVars
<1>5. ASSUME NEW c \in Calls, Send(c) PROVE TypeOK'
  BY <1>5 DEF TypeOK, Send, serverVars, userVars, Stage
<1>6. ASSUME NEW c \in Calls, ReadToken(c) PROVE TypeOK'
  BY <1>6 DEF TypeOK, ReadToken, serverVars, userVars, Exchange
<1>7. ASSUME NEW c \in Calls, CommitExchange(c) PROVE TypeOK'
  <2>1. chain[token[c]] \in Nat
    BY <1>0, <1>7 DEF Asks, CommitExchange
  <2>2. Issue(chain[token[c]], {token[c]})
    BY <1>7 DEF CommitExchange
  <2>3. /\ exchange' \in [Calls -> Exchange]
        /\ grant' \in [Calls -> 0 .. issued + 1]
    BY <1>0, <1>7 DEF CommitExchange, TypeOK, Exchange
  <2>4. UNCHANGED <<stage, used, token, store, active, userVars, faults>>
    BY <1>7 DEF CommitExchange
  <2>5. CallTypes(issued) /\ leaving \subseteq 1 .. issued
    BY DEF TypeOK, CallTypes
  <2>6. /\ issued' = issued + 1 /\ issued' \in Nat
        /\ 0 .. issued \subseteq 0 .. issued'
        /\ fresh' \subseteq 1 .. issued'
        /\ live' \subseteq 1 .. issued'
        /\ lapsed' \subseteq 1 .. issued'
        /\ chain' \in [1 .. issued' -> Nat]
        /\ presented' \in [1 .. issued' -> SUBSET Calls]
    BY <2>1, <2>2, IssueExtends
  <2>7. stage' \in [Calls -> Stage] /\ exchange' \in [Calls -> Exchange]
    BY <2>3, <2>4, <2>5 DEF CallTypes
  <2>8. /\ used' \in [Calls -> 0 .. issued']
        /\ token' \in [Calls -> 0 .. issued']
        /\ grant' \in [Calls -> 0 .. issued']
        /\ store' \in 0 .. issued'
    <3>1. used' \in [Calls -> 0 .. issued] /\ token' \in [Calls -> 0 .. issued]
          /\ store' \in 0 .. issued
      BY <2>4, <2>5 DEF CallTypes
    <3> QED
      BY <2>3, <2>6, <3>1
  <2>9. /\ active' \in BOOLEAN /\ logins' \in 0 .. MaxEvents /\ signedOut' \in BOOLEAN
        /\ outlived' \in BOOLEAN /\ racing' \in BOOLEAN /\ faults' \in 0 .. MaxEvents
    BY <2>4 DEF TypeOK, userVars
  <2>10. leaving' \subseteq 1 .. issued'
    BY <1>0, <2>4, <2>5, <2>6 DEF userVars
  <2> QED
    BY <2>6, <2>7, <2>8, <2>9, <2>10 DEF TypeOK
<1>8. ASSUME NEW c \in Calls, Answer(c) PROVE TypeOK'
  BY <1>8 DEF TypeOK, Answer, serverVars, userVars, Stage, Nothing
<1>9. ASSUME NEW c \in Calls, RefreshFetch(c) \/ RefreshStream(c) PROVE TypeOK'
  <2>1. UNCHANGED <<used, grant, serverVars, active, userVars, faults>>
    BY <1>9 DEF RefreshFetch, RefreshStream
  <2>2. stage' \in [Calls -> Stage]
    <3>1. stage \in [Calls -> Stage]
      BY DEF TypeOK
    <3>2. \/ stage' = [stage EXCEPT ![c] = "joined"]
          \/ stage' = [stage EXCEPT ![c] = "asking"]
          \/ stage' = [d \in Calls |-> IF d \in {c} THEN "failed" ELSE stage[d]]
      BY <1>9, RefreshCases DEF StartExchange, Fail
    <3> QED
      BY <3>1, <3>2 DEF Stage
  <2>3. exchange' \in [Calls -> Exchange]
    BY <1>9 DEF RefreshFetch, RefreshStream, StartExchange, TypeOK, Exchange
  <2>4. token' \in [Calls -> 0 .. issued]
    BY <1>9 DEF RefreshFetch, RefreshStream, StartExchange, TypeOK
  <2>5. store' \in 0 .. issued
    BY <1>0, <1>9 DEF RefreshFetch, RefreshStream, Fail, TypeOK, Nothing
  <2>6. presented' \in [1 .. issued -> SUBSET Calls]
    BY <1>0, <1>9 DEF RefreshFetch, RefreshStream, StartExchange, TypeOK, Nothing
  <2> QED
    BY <2>1, <2>2, <2>3, <2>4, <2>5, <2>6 DEF TypeOK, serverVars, userVars
<1>11. ASSUME NEW c \in Calls, Renew(c) PROVE TypeOK'
  BY <1>11 DEF TypeOK, Renew, Forget, serverVars, userVars, Stage, Exchange, Nothing
<1>12. ASSUME NEW c \in Calls, DropSession(c) PROVE TypeOK'
  BY <1>12 DEF TypeOK, DropSession, Forget, serverVars, userVars, Stage, Exchange, Nothing
<1>13. ASSUME NEW c \in Calls, GiveUp(c) PROVE TypeOK'
  BY <1>13 DEF TypeOK, GiveUp, Fail, Forget, serverVars, userVars, Stage, Exchange, Nothing
<1>14. ASSUME NEW n \in 1 .. issued, Expire(n) PROVE TypeOK'
  BY <1>14 DEF TypeOK, Expire, clientVars, userVars
<1>17. ASSUME NEW n \in 1 .. issued, Lapse(n) PROVE TypeOK'
  BY <1>17 DEF TypeOK, Lapse, clientVars, userVars
<1>15. ASSUME NEW n \in 1 .. issued, RevokeOnLogout(n) PROVE TypeOK'
  BY <1>15 DEF TypeOK, RevokeOnLogout, clientVars
<1>16. CASE UNCHANGED vars
  BY <1>16 DEF TypeOK, vars
<1> QED
  BY <1>1, <1>2, <1>3, <1>4, <1>5, <1>6, <1>7, <1>8, <1>9, <1>11, <1>12,
     <1>13, <1>14, <1>15, <1>16, <1>17 DEF Next, Server, Client

\* Asks is kept.
LEMMA AsksStep == TypeOK /\ Asks /\ [Next]_vars => Asks'
<1> SUFFICES ASSUME TypeOK, Asks, [Next]_vars PROVE Asks'
  OBVIOUS
<1>0. /\ issued \in Nat
      /\ presented \in [1 .. issued -> SUBSET Calls]
      /\ stage \in [Calls -> Stage]
      /\ exchange \in [Calls -> Exchange]
      /\ token \in [Calls -> 0 .. issued]
      /\ store \in 0 .. issued
      /\ chain \in [1 .. issued -> Nat]
  BY DEF TypeOK
<1>1. CASE Login
  <2>1. Issue(logins + 1, {}) /\ logins + 1 \in Nat /\ UNCHANGED clientVars
    BY <1>1 DEF Login, TypeOK
  <2>2. /\ issued' = issued + 1 /\ presented'[issued + 1] = {}
        /\ \A n \in 1 .. issued : presented'[n] = presented[n]
    BY <2>1, IssueExtends
  <2> QED
    BY <1>0, <2>1, <2>2 DEF Asks, clientVars
<1>2. CASE Logout
  BY <1>2 DEF Logout, Asks, clientVars, serverVars
<1>3. CASE Deactivate
  BY <1>3 DEF Deactivate, Asks, clientVars, serverVars
<1>4. CASE Lose
  BY <1>0, <1>4 DEF Lose, Fail, Asks, serverVars
<1>5. ASSUME NEW c \in Calls, Send(c) PROVE Asks'
  BY <1>0, <1>5 DEF Send, Asks, serverVars
<1>6. ASSUME NEW c \in Calls, ReadToken(c) PROVE Asks'
  BY <1>0, <1>6 DEF ReadToken, Asks, serverVars
<1>7. ASSUME NEW c \in Calls, CommitExchange(c) PROVE Asks'
  <2>1. chain[token[c]] \in Nat
    BY <1>0, <1>7 DEF Asks, CommitExchange
  <2>2. Issue(chain[token[c]], {token[c]})
    BY <1>7 DEF CommitExchange
  <2>3. /\ issued' = issued + 1 /\ presented'[issued + 1] = {}
        /\ \A n \in 1 .. issued : presented'[n] = presented[n]
    BY <2>1, <2>2, IssueExtends
  <2>4. /\ UNCHANGED <<stage, token>>
        /\ exchange[c] = "read"
        /\ \A d \in Calls : exchange'[d] = IF d = c THEN "granted" ELSE exchange[d]
    BY <1>0, <1>7 DEF CommitExchange
  <2>5. \A d \in Calls : exchange'[d] = "none" <=> stage'[d] # "asking"
    BY <2>4 DEF Asks
  <2>6. \A d \in Calls : stage'[d] = "asking" =>
          token'[d] \in 1 .. issued' /\ d \in presented'[token'[d]]
    BY <1>0, <2>3, <2>4 DEF Asks
  <2>7. \A n \in 1 .. issued' : \A d \in presented'[n] :
          stage'[d] \in {"asking", "resent", "ok", "failed"}
    BY <1>0, <2>3, <2>4 DEF Asks
  <2> QED
    BY <2>5, <2>6, <2>7 DEF Asks
<1>8. ASSUME NEW c \in Calls, Answer(c) PROVE Asks'
  BY <1>0, <1>8 DEF Answer, Asks, serverVars
<1>9. ASSUME NEW c \in Calls, RefreshFetch(c) \/ RefreshStream(c) PROVE Asks'
  <2>1. stage[c] = "denied" /\ UNCHANGED serverVars
    BY <1>9, RefreshCases
  <2>2. CASE /\ stage' = [stage EXCEPT ![c] = "joined"]
             /\ UNCHANGED <<exchange, token, store, presented>>
    BY <1>0, <2>1, <2>2 DEF Asks, serverVars
  <2>3. CASE Fail({c}) /\ UNCHANGED <<exchange, token, presented>>
    BY <1>0, <2>1, <2>3 DEF Asks, Fail, serverVars
  <2>4. CASE store # Nothing /\ StartExchange(c)
    <3>1. store \in 1 .. issued /\ issued' = issued
      BY <1>0, <2>1, <2>4 DEF Nothing, serverVars
    <3>2. /\ \A d \in Calls : stage'[d] = IF d = c THEN "asking" ELSE stage[d]
          /\ \A d \in Calls : exchange'[d] = IF d = c THEN "sent" ELSE exchange[d]
          /\ \A d \in Calls : token'[d] = IF d = c THEN store ELSE token[d]
          /\ \A n \in 1 .. issued :
               presented'[n] = IF n = store THEN presented[n] \cup {c} ELSE presented[n]
      BY <1>0, <2>4, <3>1 DEF StartExchange
    <3>3. \A d \in Calls : exchange'[d] = "none" <=> stage'[d] # "asking"
      BY <3>2 DEF Asks
    <3>4. \A d \in Calls : stage'[d] = "asking" =>
            token'[d] \in 1 .. issued' /\ d \in presented'[token'[d]]
      <4>1. ASSUME NEW d \in Calls, stage'[d] = "asking"
            PROVE  token'[d] \in 1 .. issued' /\ d \in presented'[token'[d]]
        <5>1. CASE d = c
          BY <3>1, <3>2, <5>1
        <5>2. CASE d # c
          <6>1. token'[d] = token[d] /\ token[d] \in 1 .. issued
                /\ d \in presented[token[d]]
            BY <3>2, <4>1, <5>2 DEF Asks
          <6>2. d \in presented'[token[d]]
            BY <3>2, <6>1
          <6> QED
            BY <3>1, <6>1, <6>2
        <5> QED
          BY <5>1, <5>2
      <4> QED
        BY <4>1
    <3>5. \A n \in 1 .. issued' : \A d \in presented'[n] :
            stage'[d] \in {"asking", "resent", "ok", "failed"}
      <4>1. ASSUME NEW n \in 1 .. issued, NEW d \in presented'[n]
            PROVE  stage'[d] \in {"asking", "resent", "ok", "failed"}
        <5>1. d = c \/ d \in presented[n]
          BY <3>1, <3>2, <4>1
        <5>2. c \in Calls /\ presented[n] \subseteq Calls
          BY <1>0, <4>1
        <5> QED
          BY <3>2, <4>1, <5>1, <5>2 DEF Asks
      <4> QED
        BY <3>1, <4>1
    <3> QED
      BY <3>3, <3>4, <3>5 DEF Asks
  <2> QED
    BY <1>9, <2>2, <2>3, <2>4, RefreshCases
<1>11. ASSUME NEW c \in Calls, Renew(c) PROVE Asks'
  BY <1>0, <1>11 DEF Renew, Forget, Resumed, Asks, serverVars
<1>12. ASSUME NEW c \in Calls, DropSession(c) PROVE Asks'
  BY <1>0, <1>12 DEF DropSession, Forget, Resumed, Asks, serverVars
<1>13. ASSUME NEW c \in Calls, GiveUp(c) PROVE Asks'
  BY <1>0, <1>13 DEF GiveUp, Fail, Forget, Resumed, Asks, serverVars
<1>14. ASSUME NEW n \in 1 .. issued, Expire(n) PROVE Asks'
  BY <1>14 DEF Asks, Expire, clientVars
<1>17. ASSUME NEW n \in 1 .. issued, Lapse(n) PROVE Asks'
  BY <1>17 DEF Asks, Lapse, clientVars
<1>15. ASSUME NEW n \in 1 .. issued, RevokeOnLogout(n) PROVE Asks'
  BY <1>15 DEF Asks, RevokeOnLogout, clientVars
<1>16. CASE UNCHANGED vars
  BY <1>16 DEF Asks, vars
<1> QED
  BY <1>1, <1>2, <1>3, <1>4, <1>5, <1>6, <1>7, <1>8, <1>9, <1>11, <1>12,
     <1>13, <1>14, <1>15, <1>16, <1>17 DEF Next, Server, Client

LEMMA TypesInit == Init => TypeOK /\ Asks
<1> SUFFICES ASSUME Init PROVE TypeOK /\ Asks
  OBVIOUS
<1>1. chain = <<>> /\ presented = <<>> /\ issued = 0
  BY DEF Init
<1>2. chain \in Seq(Nat) /\ presented \in Seq(SUBSET Calls)
      /\ Len(chain) = 0 /\ Len(presented) = 0
  BY <1>1
<1>3. /\ chain \in [1 .. Len(chain) -> Nat]
      /\ presented \in [1 .. Len(presented) -> SUBSET Calls]
  BY <1>2, LenProperties
<1> QED
  <2>1. /\ chain \in [1 .. issued -> Nat]
        /\ presented \in [1 .. issued -> SUBSET Calls]
    BY <1>1, <1>2, <1>3
  <2>2. /\ stage \in [Calls -> Stage] /\ exchange \in [Calls -> Exchange]
        /\ used \in [Calls -> 0 .. issued] /\ token \in [Calls -> 0 .. issued]
        /\ grant \in [Calls -> 0 .. issued]
    BY <1>1 DEF Init, Stage, Exchange, Nothing
  <2>3. TypeOK
    <3>1. /\ store = 0 /\ issued = 0 /\ fresh = {} /\ live = {} /\ lapsed = {}
          /\ leaving = {} /\ logins = 0 /\ faults = 0
          /\ active \in BOOLEAN /\ signedOut \in BOOLEAN
          /\ outlived \in BOOLEAN /\ racing \in BOOLEAN
      BY DEF Init, Nothing
    <3>2. 0 \in 0 .. MaxEvents
      BY SessionsAssumption
    <3> QED
      <4>1. /\ store \in 0 .. issued /\ issued \in Nat /\ logins \in 0 .. MaxEvents
            /\ fresh \subseteq 1 .. issued /\ live \subseteq 1 .. issued
            /\ lapsed \subseteq 1 .. issued
            /\ leaving \subseteq 1 .. issued /\ faults \in 0 .. MaxEvents
        BY <3>1, <3>2
      <4> QED
        BY <2>1, <2>2, <3>1, <4>1, Zenon DEF TypeOK
  <2>4. Asks
    BY <1>1 DEF Init, Asks
  <2> QED
    BY <2>3, <2>4

\* Every reachable state is well typed.
THEOREM SessionTypes == Spec => []TypeOK
<1>1. TypeOK /\ Asks /\ [Next]_vars => (TypeOK /\ Asks)'
  BY TypeStep, AsksStep
<1> QED
  BY <1>1, TypesInit, PTL DEF Spec

-----------------------------------------------------------------------------
(* What the larger actions change, entry by entry                          *)

LEMMA LoginEffect ==
    ASSUME TypeOK, Login
    PROVE  /\ issued' = issued + 1 /\ store' = issued'
           /\ \A n \in 1 .. issued : chain'[n] = chain[n] /\ presented'[n] = presented[n]
           /\ chain'[issued'] = logins + 1 /\ presented'[issued'] = {}
           /\ fresh' = fresh \cup {issued'} /\ live' = live \cup {issued'}
           /\ logins' = logins + 1 /\ ~signedOut' /\ ~racing'
           /\ outlived' <=> \E c \in Calls : stage[c] = "asking"
           /\ UNCHANGED <<stage, used, exchange, token, grant, lapsed, active, leaving,
                          faults>>
<1>1. Issue(logins + 1, {}) /\ logins + 1 \in Nat
  BY DEF Login, TypeOK
<1>2. /\ store' = issued + 1 /\ logins' = logins + 1 /\ ~signedOut' /\ ~racing'
      /\ outlived' <=> \E c \in Calls : stage[c] = "asking"
      /\ UNCHANGED <<stage, used, exchange, token, grant, active, leaving, faults>>
  BY DEF Login, clientVars
<1> QED
  BY <1>1, <1>2, IssueExtends

LEMMA CommitEffect ==
    ASSUME TypeOK, Asks, NEW c \in Calls, CommitExchange(c)
    PROVE  /\ exchange[c] = "read" /\ stage[c] = "asking"
           /\ token[c] \in 1 .. issued /\ c \in presented[token[c]]
           /\ \A d \in Calls : exchange'[d] = IF d = c THEN "granted" ELSE exchange[d]
           /\ \A d \in Calls : grant'[d] = IF d = c THEN issued' ELSE grant[d]
           /\ issued' = issued + 1
           /\ \A n \in 1 .. issued : chain'[n] = chain[n] /\ presented'[n] = presented[n]
           /\ chain'[issued'] = chain[token[c]] /\ presented'[issued'] = {}
           /\ fresh' = fresh \cup {issued'}
           /\ live' = (live \cup {issued'}) \ {token[c]}
           /\ UNCHANGED <<stage, used, token, store, lapsed, active, logins, signedOut,
                          outlived, racing, leaving, faults>>
<1>1. /\ exchange[c] = "read" /\ Issue(chain[token[c]], {token[c]})
      /\ exchange' = [exchange EXCEPT ![c] = "granted"]
      /\ grant' = [grant EXCEPT ![c] = issued + 1]
      /\ UNCHANGED <<stage, used, token, store, active, logins, signedOut,
                     outlived, racing, leaving, faults>>
  BY DEF CommitExchange, userVars
<1>2. /\ stage[c] = "asking" /\ token[c] \in 1 .. issued
      /\ c \in presented[token[c]] /\ chain[token[c]] \in Nat
  BY <1>1 DEF Asks, TypeOK
<1>3. /\ \A d \in Calls : exchange'[d] = IF d = c THEN "granted" ELSE exchange[d]
      /\ \A d \in Calls : grant'[d] = IF d = c THEN issued + 1 ELSE grant[d]
  BY <1>1 DEF TypeOK
<1> QED
  BY <1>1, <1>2, <1>3, IssueExtends

\* The calls of cs fail, and may sign the user out.
Fails(cs) ==
    /\ \A d \in Calls : stage'[d] = IF d \in cs THEN "failed" ELSE stage[d]
    /\ store' \in {store, Nothing}

Joins(c) ==
    /\ \A d \in Calls : stage'[d] = IF d = c THEN "joined" ELSE stage[d]
    /\ UNCHANGED <<exchange, token, store, presented>>

FailsAlone(c) ==
    /\ store = Nothing
    /\ Fails({c})
    /\ UNCHANGED <<exchange, token, presented>>

Starts(c) ==
    /\ store \in 1 .. issued
    /\ c \in Fetches => \A d \in Fetches : stage[d] # "asking"
    /\ \A d \in Calls : stage'[d] = IF d = c THEN "asking" ELSE stage[d]
    /\ \A d \in Calls : exchange'[d] = IF d = c THEN "sent" ELSE exchange[d]
    /\ \A d \in Calls : token'[d] = IF d = c THEN store ELSE token[d]
    /\ \A n \in 1 .. issued :
         presented'[n] = IF n = store THEN presented[n] \cup {c} ELSE presented[n]
    /\ c \notin presented[store]
    /\ UNCHANGED store

LEMMA RefreshEffect ==
    ASSUME TypeOK, Asks, NEW c \in Calls, RefreshFetch(c) \/ RefreshStream(c)
    PROVE  /\ stage[c] = "denied" /\ exchange[c] = "none"
           /\ UNCHANGED <<used, grant, issued, fresh, live, lapsed, chain, active, logins,
                          signedOut, outlived, racing, leaving, faults>>
           /\ Joins(c) \/ FailsAlone(c) \/ Starts(c)
<1>1. /\ stage[c] = "denied" /\ exchange[c] = "none"
      /\ UNCHANGED <<used, grant, issued, fresh, live, lapsed, chain, active, logins,
                     signedOut, outlived, racing, leaving, faults>>
  BY RefreshCases DEF Asks, serverVars, userVars
<1>2. CASE /\ stage' = [stage EXCEPT ![c] = "joined"]
           /\ UNCHANGED <<exchange, token, store, presented>>
  <2>1. \A d \in Calls : stage'[d] = IF d = c THEN "joined" ELSE stage[d]
    BY <1>2 DEF TypeOK
  <2> QED
    BY <1>1, <1>2, <2>1 DEF Joins
<1>3. CASE /\ store = Nothing /\ Fail({c})
           /\ UNCHANGED <<exchange, token, presented>>
  <2>1. Fails({c})
    BY <1>3 DEF Fail, Fails
  <2> QED
    BY <1>1, <1>3, <2>1 DEF FailsAlone
<1>4. CASE /\ store # Nothing /\ (c \in Fetches => Leaders = {})
           /\ StartExchange(c) /\ UNCHANGED store
  <2>1. store \in 1 .. issued
    BY <1>4 DEF TypeOK, Nothing
  <2>2. c \in Fetches => \A d \in Fetches : stage[d] # "asking"
    BY <1>4 DEF Leaders
  <2>3. /\ \A d \in Calls : stage'[d] = IF d = c THEN "asking" ELSE stage[d]
        /\ \A d \in Calls : exchange'[d] = IF d = c THEN "sent" ELSE exchange[d]
        /\ \A d \in Calls : token'[d] = IF d = c THEN store ELSE token[d]
        /\ \A n \in 1 .. issued :
             presented'[n] = IF n = store THEN presented[n] \cup {c} ELSE presented[n]
    BY <1>4 DEF TypeOK, StartExchange
  <2>4. c \notin presented[store]
    BY <1>1, <2>1 DEF Asks
  <2> QED
    BY <1>1, <1>4, <2>1, <2>2, <2>3, <2>4 DEF Starts
<1> QED
  BY <1>2, <1>3, <1>4, RefreshCases

LEMMA RenewEffect ==
    ASSUME TypeOK, Asks, NEW c \in Calls, Renew(c)
    PROVE  /\ stage[c] = "asking" /\ exchange[c] = "granted" /\ store' = grant[c]
           /\ \A d \in Calls : exchange'[d] = IF d = c THEN "none" ELSE exchange[d]
           /\ \A d \in Calls : token'[d] = IF d = c THEN Nothing ELSE token[d]
           /\ \A d \in Calls : grant'[d] = IF d = c THEN Nothing ELSE grant[d]
           /\ \A d \in Calls : \/ stage'[d] = "resent" /\ used'[d] = grant[c]
                               \/ stage'[d] = stage[d] /\ used'[d] = used[d]
           /\ stage'[c] = "resent"
           /\ UNCHANGED <<issued, fresh, live, lapsed, chain, presented, active, logins,
                          signedOut, outlived, racing, leaving, faults>>
  BY DEF Renew, Forget, Resumed, TypeOK, serverVars, userVars

\* An exchange ends without a pair, and its calls fail.
LEMMA EndEffect ==
    ASSUME TypeOK, Asks, NEW c \in Calls, DropSession(c) \/ GiveUp(c)
    PROVE  /\ stage[c] = "asking" /\ exchange[c] \in {"refused", "lost"}
           /\ store' \in {store, Nothing}
           /\ \A d \in Calls : exchange'[d] = IF d = c THEN "none" ELSE exchange[d]
           /\ \A d \in Calls : token'[d] = IF d = c THEN Nothing ELSE token[d]
           /\ \A d \in Calls : grant'[d] = IF d = c THEN Nothing ELSE grant[d]
           /\ c \in Fetches /\ exchange[c] = "refused" => store' = Nothing
           /\ \A d \in Calls : stage'[d] = "failed" \/ stage'[d] = stage[d]
           /\ \A d \in Calls : d # c /\ stage[d] = "asking" => stage'[d] = "asking"
           /\ stage'[c] = "failed"
           /\ UNCHANGED <<used, issued, fresh, live, lapsed, chain, presented, active,
                          logins, signedOut, outlived, racing, leaving, faults>>
<1>1. CASE DropSession(c)
  BY <1>1 DEF DropSession, Forget, Resumed, TypeOK, serverVars, userVars
<1>2. CASE GiveUp(c)
  BY <1>2, SessionsAssumption
     DEF GiveUp, Fail, Forget, Resumed, TypeOK, serverVars, userVars
<1> QED
  BY <1>1, <1>2

-----------------------------------------------------------------------------
(* Granted pairs                                                           *)

\* A granted pair is known to nobody but the call it was granted to: it is
\* neither stored, presented nor signed out.  A call is sent again in time.
Grants ==
    /\ \A c \in Calls : exchange[c] = "granted" =>
         /\ grant[c] \in live /\ grant[c] \in fresh
         /\ grant[c] # store /\ grant[c] \notin leaving
         /\ presented[grant[c]] = {}
         /\ chain[grant[c]] = chain[token[c]]
    /\ \A c, d \in Calls : exchange[c] = "granted" /\ exchange[d] = "granted" =>
         (grant[c] = grant[d] => c = d)
    /\ \A c \in Calls : stage[c] = "resent" => used[c] \in fresh

LEMMA GrantsStep == TypeOK /\ Asks /\ Grants /\ [Next]_vars => Grants'
<1> SUFFICES ASSUME TypeOK, Asks, Grants, [Next]_vars PROVE Grants'
  OBVIOUS
<1>0. /\ issued \in Nat /\ store \in 0 .. issued
      /\ fresh \subseteq 1 .. issued /\ live \subseteq 1 .. issued
      /\ leaving \subseteq 1 .. issued
      /\ stage \in [Calls -> Stage] /\ exchange \in [Calls -> Exchange]
      /\ \A c \in Calls : exchange[c] = "granted" =>
           grant[c] \in 1 .. issued /\ stage[c] = "asking" /\ token[c] \in 1 .. issued
  BY DEF TypeOK, Asks, Grants
<1>1. CASE Login
  BY <1>0, <1>1, LoginEffect DEF Grants
<1>2. CASE Logout
  BY <1>0, <1>2 DEF Logout, Grants, clientVars, serverVars, Nothing
<1>3. CASE Deactivate
  BY <1>3 DEF Deactivate, Grants, clientVars, serverVars, userVars
<1>4. CASE Lose
  BY <1>0, <1>4 DEF Lose, Fail, Grants, serverVars, Nothing
<1>5. ASSUME NEW c \in Calls, Send(c) PROVE Grants'
  BY <1>0, <1>5 DEF Send, Grants, serverVars, userVars, TypeOK
<1>6. ASSUME NEW c \in Calls, ReadToken(c) PROVE Grants'
  BY <1>0, <1>6 DEF ReadToken, Grants, serverVars, userVars
<1>7. ASSUME NEW c \in Calls, CommitExchange(c) PROVE Grants'
  <2>1. ASSUME NEW d \in Calls, exchange'[d] = "granted"
        PROVE  /\ grant'[d] \in live' /\ grant'[d] \in fresh'
               /\ grant'[d] # store' /\ grant'[d] \notin leaving'
               /\ presented'[grant'[d]] = {}
               /\ chain'[grant'[d]] = chain'[token'[d]]
    <3>1. CASE d = c
      BY <1>0, <1>7, <2>1, <3>1, CommitEffect
    <3>2. CASE d # c
      BY <1>0, <1>7, <2>1, <3>2, CommitEffect DEF Grants
    <3> QED
      BY <3>1, <3>2
  <2>2. ASSUME NEW d \in Calls, NEW e \in Calls, exchange'[d] = "granted",
               exchange'[e] = "granted", grant'[d] = grant'[e]
        PROVE  d = e
    BY <1>0, <1>7, <2>2, CommitEffect DEF Grants
  <2>3. ASSUME NEW d \in Calls, stage'[d] = "resent" PROVE used'[d] \in fresh'
    BY <1>7, <2>3, CommitEffect DEF Grants
  <2> QED
    BY <2>1, <2>2, <2>3 DEF Grants
<1>8. ASSUME NEW c \in Calls, Answer(c) PROVE Grants'
  BY <1>0, <1>8 DEF Answer, Grants, serverVars, userVars, TypeOK, Nothing
<1>9. ASSUME NEW c \in Calls, RefreshFetch(c) \/ RefreshStream(c) PROVE Grants'
  <2>1. CASE Joins(c)
    BY <1>0, <1>9, <2>1, RefreshEffect DEF Grants, Joins
  <2>2. CASE FailsAlone(c)
    BY <1>0, <1>9, <2>2, RefreshEffect DEF Grants, FailsAlone, Fails, Nothing
  <2>3. CASE Starts(c)
    <3>1. \A d \in Calls : exchange'[d] = "granted" =>
            exchange[d] = "granted" /\ d # c /\ token'[d] = token[d]
            /\ presented'[grant[d]] = presented[grant[d]]
      BY <1>0, <2>3 DEF Grants, Starts
    <3> QED
      BY <1>0, <1>9, <2>3, <3>1, RefreshEffect DEF Grants, Starts
  <2> QED
    BY <1>9, <2>1, <2>2, <2>3, RefreshEffect
<1>11. ASSUME NEW c \in Calls, Renew(c) PROVE Grants'
  BY <1>0, <1>11, RenewEffect DEF Grants
<1>12. ASSUME NEW c \in Calls, DropSession(c) \/ GiveUp(c) PROVE Grants'
  BY <1>0, <1>12, EndEffect DEF Grants, Nothing
<1>14. ASSUME NEW n \in 1 .. issued, Expire(n) PROVE Grants'
  BY <1>0, <1>14 DEF Grants, Expire, JustGranted, clientVars, userVars
<1>17. ASSUME NEW n \in 1 .. issued, Lapse(n) PROVE Grants'
  BY <1>0, <1>17 DEF Grants, Lapse, clientVars, userVars
<1>15. ASSUME NEW n \in 1 .. issued, RevokeOnLogout(n) PROVE Grants'
  BY <1>0, <1>15 DEF Grants, RevokeOnLogout, clientVars
<1>16. CASE UNCHANGED vars
  BY <1>16 DEF Grants, vars
<1> QED
  BY <1>1, <1>2, <1>3, <1>4, <1>5, <1>6, <1>7, <1>8, <1>9, <1>11, <1>12,
     <1>14, <1>15, <1>16, <1>17 DEF Next, Server, Client

-----------------------------------------------------------------------------
(* Logins                                                                  *)

\* A token that is to be revoked is of a login that has ended.
EndedLogins ==
    /\ \A n \in 1 .. issued : chain[n] <= logins
    /\ ~signedOut => \A n \in leaving : chain[n] < logins

LEMMA EndedLoginsStep == TypeOK /\ Asks /\ EndedLogins /\ [Next]_vars => EndedLogins'
<1> SUFFICES ASSUME TypeOK, Asks, EndedLogins, [Next]_vars PROVE EndedLogins'
  OBVIOUS
<1>0. /\ issued \in Nat /\ store \in 0 .. issued /\ logins \in Nat
      /\ leaving \subseteq 1 .. issued
      /\ chain \in [1 .. issued -> Nat]
  BY DEF TypeOK
<1>1. CASE Login
  <2>1. /\ issued' = issued + 1 /\ logins' = logins + 1 /\ leaving' = leaving
        /\ \A n \in 1 .. issued : chain'[n] = chain[n]
        /\ chain'[issued'] = logins + 1
    BY <1>1, LoginEffect
  <2>2. ASSUME NEW n \in 1 .. issued PROVE chain'[n] < logins'
    BY <1>0, <2>1, <2>2 DEF EndedLogins
  <2>3. \A n \in 1 .. issued' : chain'[n] <= logins'
    BY <1>0, <2>1, <2>2 DEF EndedLogins
  <2>4. \A n \in leaving' : chain'[n] < logins'
    BY <1>0, <2>1, <2>2
  <2> QED
    BY <2>3, <2>4 DEF EndedLogins
<1>2. CASE Logout
  BY <1>0, <1>2 DEF Logout, EndedLogins, clientVars, serverVars, Nothing
<1>3. CASE Deactivate
  BY <1>3 DEF Deactivate, EndedLogins, clientVars, serverVars, userVars
<1>4. CASE Lose
  BY <1>0, <1>4 DEF Lose, Fail, EndedLogins, serverVars, Nothing
<1>5. ASSUME NEW c \in Calls, Send(c) PROVE EndedLogins'
  BY <1>0, <1>5 DEF Send, EndedLogins, serverVars, userVars, TypeOK
<1>6. ASSUME NEW c \in Calls, ReadToken(c) PROVE EndedLogins'
  BY <1>0, <1>6 DEF ReadToken, EndedLogins, serverVars, userVars
<1>7. ASSUME NEW c \in Calls, CommitExchange(c) PROVE EndedLogins'
  <2>1. /\ issued' = issued + 1 /\ logins' = logins /\ leaving' = leaving
        /\ signedOut' = signedOut /\ token[c] \in 1 .. issued
        /\ \A n \in 1 .. issued : chain'[n] = chain[n]
        /\ chain'[issued'] = chain[token[c]]
    BY <1>7, CommitEffect
  <2>2. \A n \in 1 .. issued' : chain'[n] <= logins'
    BY <1>0, <2>1 DEF EndedLogins
  <2>3. ~signedOut' => \A n \in leaving' : chain'[n] < logins'
    BY <1>0, <2>1 DEF EndedLogins
  <2> QED
    BY <2>2, <2>3 DEF EndedLogins
<1>8. ASSUME NEW c \in Calls, Answer(c) PROVE EndedLogins'
  BY <1>0, <1>8 DEF Answer, EndedLogins, serverVars, userVars, Nothing, TypeOK
<1>9. ASSUME NEW c \in Calls, RefreshFetch(c) \/ RefreshStream(c) PROVE EndedLogins'
  <2>1. CASE Joins(c)
    BY <1>0, <1>9, <2>1, RefreshEffect DEF EndedLogins, Joins
  <2>2. CASE FailsAlone(c)
    BY <1>0, <1>9, <2>2, RefreshEffect DEF EndedLogins, FailsAlone, Fails, Nothing
  <2>3. CASE Starts(c)
    BY <1>0, <1>9, <2>3, RefreshEffect DEF EndedLogins, Starts, Nothing
  <2> QED
    BY <1>9, <2>1, <2>2, <2>3, RefreshEffect
<1>11. ASSUME NEW c \in Calls, Renew(c) PROVE EndedLogins'
  BY <1>0, <1>11, RenewEffect DEF EndedLogins
<1>12. ASSUME NEW c \in Calls, DropSession(c) \/ GiveUp(c) PROVE EndedLogins'
  BY <1>0, <1>12, EndEffect DEF EndedLogins, Nothing
<1>14. ASSUME NEW n \in 1 .. issued, Expire(n) PROVE EndedLogins'
  BY <1>0, <1>14 DEF EndedLogins, Expire, clientVars, userVars
<1>17. ASSUME NEW n \in 1 .. issued, Lapse(n) PROVE EndedLogins'
  BY <1>0, <1>17 DEF EndedLogins, Lapse, clientVars, userVars
<1>15. ASSUME NEW n \in 1 .. issued, RevokeOnLogout(n) PROVE EndedLogins'
  BY <1>0, <1>15 DEF EndedLogins, RevokeOnLogout, clientVars
<1>16. CASE UNCHANGED vars
  BY <1>16 DEF EndedLogins, vars
<1> QED
  BY <1>1, <1>2, <1>3, <1>4, <1>5, <1>6, <1>7, <1>8, <1>9, <1>11, <1>12,
     <1>14, <1>15, <1>16, <1>17 DEF Next, Server, Client

\* The store and the exchanges are of the last login, unless an exchange was
\* under way when it began; after a sign-out there are none, unless one was
\* under way then.
OfLastLogin ==
    ~outlived =>
        /\ store # Nothing => chain[store] = logins
        /\ \A c \in Calls : stage[c] = "asking" => chain[token[c]] = logins
        /\ signedOut /\ ~racing =>
             store = Nothing /\ \A c \in Calls : stage[c] # "asking"

LEMMA OfLastLoginStep == TypeOK /\ Asks /\ Grants /\ OfLastLogin /\ [Next]_vars => OfLastLogin'
<1> SUFFICES ASSUME TypeOK, Asks, Grants, OfLastLogin, [Next]_vars PROVE OfLastLogin'
  OBVIOUS
<1>0. /\ issued \in Nat /\ store \in 0 .. issued /\ logins \in Nat
      /\ leaving \subseteq 1 .. issued
      /\ chain \in [1 .. issued -> Nat]
  BY DEF TypeOK
<1>a. \A c \in Calls : stage[c] = "asking" => token[c] \in 1 .. issued
  BY DEF Asks
<1>b. \A c \in Calls : exchange[c] = "granted" =>
        stage[c] = "asking" /\ grant[c] \in 1 .. issued /\ chain[grant[c]] = chain[token[c]]
  BY DEF TypeOK, Asks, Grants
<1>1. CASE Login
  BY <1>0, <1>a, <1>1, LoginEffect DEF OfLastLogin
<1>2. CASE Logout
  BY <1>0, <1>2 DEF Logout, OfLastLogin, clientVars, serverVars, Nothing
<1>3. CASE Deactivate
  BY <1>3 DEF Deactivate, OfLastLogin, clientVars, serverVars, userVars
<1>4. CASE Lose
  BY <1>0, <1>4 DEF Lose, Fail, OfLastLogin, serverVars, Nothing
<1>5. ASSUME NEW c \in Calls, Send(c) PROVE OfLastLogin'
  BY <1>0, <1>5 DEF Send, OfLastLogin, serverVars, userVars, TypeOK
<1>6. ASSUME NEW c \in Calls, ReadToken(c) PROVE OfLastLogin'
  BY <1>0, <1>6 DEF ReadToken, OfLastLogin, serverVars, userVars
<1>7. ASSUME NEW c \in Calls, CommitExchange(c) PROVE OfLastLogin'
  <2>1. \A n \in 1 .. issued : chain'[n] = chain[n]
    BY <1>7, CommitEffect
  <2>2. UNCHANGED <<stage, token, store, logins, signedOut, outlived, racing>>
    BY <1>7, CommitEffect
  <2> QED
    BY <1>0, <1>a, <2>1, <2>2 DEF OfLastLogin, Nothing
<1>8. ASSUME NEW c \in Calls, Answer(c) PROVE OfLastLogin'
  BY <1>0, <1>8 DEF Answer, OfLastLogin, serverVars, userVars, Nothing, TypeOK
<1>9. ASSUME NEW c \in Calls, RefreshFetch(c) \/ RefreshStream(c) PROVE OfLastLogin'
  <2>1. CASE Joins(c)
    BY <1>0, <1>a, <1>9, <2>1, RefreshEffect DEF OfLastLogin, Joins
  <2>2. CASE FailsAlone(c)
    BY <1>0, <1>a, <1>9, <2>2, RefreshEffect DEF OfLastLogin, FailsAlone, Fails, Nothing
  <2>3. CASE Starts(c)
    BY <1>0, <1>a, <1>9, <2>3, RefreshEffect DEF OfLastLogin, Starts, Nothing
  <2> QED
    BY <1>9, <2>1, <2>2, <2>3, RefreshEffect
<1>11. ASSUME NEW c \in Calls, Renew(c) PROVE OfLastLogin'
  <2>1. /\ stage[c] = "asking" /\ exchange[c] = "granted" /\ store' = grant[c]
        /\ \A d \in Calls : token'[d] = IF d = c THEN Nothing ELSE token[d]
        /\ \A d \in Calls : stage'[d] = "resent" \/ stage'[d] = stage[d]
        /\ stage'[c] = "resent"
        /\ UNCHANGED <<chain, logins, signedOut, outlived, racing>>
    BY <1>11, RenewEffect
  <2>2. chain[grant[c]] = chain[token[c]]
    BY <1>b, <2>1
  <2> QED
    BY <2>1, <2>2 DEF OfLastLogin
<1>12. ASSUME NEW c \in Calls, DropSession(c) \/ GiveUp(c) PROVE OfLastLogin'
  BY <1>0, <1>12, EndEffect DEF OfLastLogin, Nothing
<1>14. ASSUME NEW n \in 1 .. issued, Expire(n) PROVE OfLastLogin'
  BY <1>0, <1>14 DEF OfLastLogin, Expire, clientVars, userVars
<1>17. ASSUME NEW n \in 1 .. issued, Lapse(n) PROVE OfLastLogin'
  BY <1>0, <1>17 DEF OfLastLogin, Lapse, clientVars, userVars
<1>15. ASSUME NEW n \in 1 .. issued, RevokeOnLogout(n) PROVE OfLastLogin'
  BY <1>0, <1>15 DEF OfLastLogin, RevokeOnLogout, clientVars
<1>16. CASE UNCHANGED vars
  BY <1>16 DEF OfLastLogin, vars
<1> QED
  BY <1>1, <1>2, <1>3, <1>4, <1>5, <1>6, <1>7, <1>8, <1>9, <1>11, <1>12,
     <1>14, <1>15, <1>16, <1>17 DEF Next, Server, Client

-----------------------------------------------------------------------------
(* Fetches                                                                 *)

\* One fetch asks at a time.
OneAsks == \A c, d \in Fetches : stage[c] = "asking" /\ stage[d] = "asking" => c = d

LEMMA OneAsksStep == TypeOK /\ Asks /\ OneAsks /\ [Next]_vars => OneAsks'
<1> SUFFICES ASSUME TypeOK, Asks, OneAsks, [Next]_vars PROVE OneAsks'
  OBVIOUS
<1>0. /\ Fetches \subseteq Calls
      /\ stage \in [Calls -> Stage]
  BY DEF TypeOK, Calls
<1>1. CASE Login
  BY <1>0, <1>1, LoginEffect DEF OneAsks
<1>2. CASE Logout
  BY <1>0, <1>2 DEF Logout, OneAsks, clientVars, serverVars, Nothing
<1>3. CASE Deactivate
  BY <1>3 DEF Deactivate, OneAsks, clientVars, serverVars, userVars
<1>4. CASE Lose
  BY <1>0, <1>4 DEF Lose, Fail, OneAsks, serverVars, Nothing
<1>5. ASSUME NEW c \in Calls, Send(c) PROVE OneAsks'
  BY <1>0, <1>5 DEF Send, OneAsks, serverVars, userVars, TypeOK
<1>6. ASSUME NEW c \in Calls, ReadToken(c) PROVE OneAsks'
  BY <1>0, <1>6 DEF ReadToken, OneAsks, serverVars, userVars
<1>7. ASSUME NEW c \in Calls, CommitExchange(c) PROVE OneAsks'
  BY <1>0, <1>7, CommitEffect DEF OneAsks
<1>8. ASSUME NEW c \in Calls, Answer(c) PROVE OneAsks'
  BY <1>0, <1>8 DEF Answer, OneAsks, serverVars, userVars, Nothing, TypeOK
<1>9. ASSUME NEW c \in Calls, RefreshFetch(c) \/ RefreshStream(c) PROVE OneAsks'
  <2>1. CASE Joins(c)
    BY <1>0, <1>9, <2>1, RefreshEffect DEF OneAsks, Joins
  <2>2. CASE FailsAlone(c)
    BY <1>0, <1>9, <2>2, RefreshEffect DEF OneAsks, FailsAlone, Fails, Nothing
  <2>3. CASE Starts(c)
    BY <1>0, <1>9, <2>3, RefreshEffect DEF OneAsks, Starts, Nothing
  <2> QED
    BY <1>9, <2>1, <2>2, <2>3, RefreshEffect
<1>11. ASSUME NEW c \in Calls, Renew(c) PROVE OneAsks'
  BY <1>0, <1>11, RenewEffect DEF OneAsks
<1>12. ASSUME NEW c \in Calls, DropSession(c) \/ GiveUp(c) PROVE OneAsks'
  BY <1>0, <1>12, EndEffect DEF OneAsks, Nothing
<1>14. ASSUME NEW n \in 1 .. issued, Expire(n) PROVE OneAsks'
  BY <1>0, <1>14 DEF OneAsks, Expire, clientVars, userVars
<1>17. ASSUME NEW n \in 1 .. issued, Lapse(n) PROVE OneAsks'
  BY <1>0, <1>17 DEF OneAsks, Lapse, clientVars, userVars
<1>15. ASSUME NEW n \in 1 .. issued, RevokeOnLogout(n) PROVE OneAsks'
  BY <1>0, <1>15 DEF OneAsks, RevokeOnLogout, clientVars
<1>16. CASE UNCHANGED vars
  BY <1>16 DEF OneAsks, vars
<1> QED
  BY <1>1, <1>2, <1>3, <1>4, <1>5, <1>6, <1>7, <1>8, <1>9, <1>11, <1>12,
     <1>14, <1>15, <1>16, <1>17 DEF Next, Server, Client

\* Without a mishap, a fetch that has asked leaves its token in the store only
\* while it asks, and so no other presents it again.
TakeTurns ==
    faults = 0 =>
        /\ \A c \in Calls : exchange[c] # "lost"
        /\ \A n \in 1 .. issued : \A c, d \in presented[n] \cap Fetches : c = d
        /\ store # Nothing =>
             \A c \in presented[store] \cap Fetches : stage[c] = "asking"

LEMMA TakeTurnsStep == TypeOK /\ Asks /\ Grants /\ OneAsks /\ TakeTurns /\ [Next]_vars => TakeTurns'
<1> SUFFICES ASSUME TypeOK, Asks, Grants, OneAsks, TakeTurns, [Next]_vars PROVE TakeTurns'
  OBVIOUS
<1>0. /\ issued \in Nat /\ store \in 0 .. issued /\ faults \in Nat
      /\ Fetches \subseteq Calls
      /\ stage \in [Calls -> Stage] /\ exchange \in [Calls -> Exchange]
      /\ presented \in [1 .. issued -> SUBSET Calls]
  BY DEF TypeOK, Calls
<1>1. CASE Login
  BY <1>0, <1>1, LoginEffect DEF TakeTurns
<1>2. CASE Logout
  BY <1>0, <1>2 DEF Logout, TakeTurns, clientVars, serverVars, Nothing
<1>3. CASE Deactivate
  BY <1>3 DEF Deactivate, TakeTurns, clientVars, serverVars, userVars
<1>4. CASE Lose
  BY <1>0, <1>4 DEF Lose, Fail, TakeTurns, serverVars, Nothing
<1>5. ASSUME NEW c \in Calls, Send(c) PROVE TakeTurns'
  BY <1>0, <1>5 DEF Send, TakeTurns, serverVars, userVars, TypeOK
<1>6. ASSUME NEW c \in Calls, ReadToken(c) PROVE TakeTurns'
  BY <1>0, <1>6 DEF ReadToken, TakeTurns, serverVars, userVars
<1>7. ASSUME NEW c \in Calls, CommitExchange(c) PROVE TakeTurns'
  <2>1. /\ issued' = issued + 1
        /\ \A n \in 1 .. issued : presented'[n] = presented[n]
        /\ presented'[issued'] = {}
        /\ \A d \in Calls : exchange'[d] = IF d = c THEN "granted" ELSE exchange[d]
        /\ UNCHANGED <<stage, store, faults>>
    BY <1>7, CommitEffect
  <2>2. faults = 0 => \A n \in 1 .. issued' :
                        \A d, e \in presented'[n] \cap Fetches : d = e
    BY <1>0, <2>1 DEF TakeTurns
  <2>3. store # Nothing => presented'[store] = presented[store]
    BY <1>0, <2>1 DEF Nothing
  <2> QED
    BY <2>1, <2>2, <2>3 DEF TakeTurns
<1>8. ASSUME NEW c \in Calls, Answer(c) PROVE TakeTurns'
  BY <1>0, <1>8 DEF Answer, TakeTurns, serverVars, userVars, Nothing, TypeOK
<1>9. ASSUME NEW c \in Calls, RefreshFetch(c) \/ RefreshStream(c) PROVE TakeTurns'
  <2>1. CASE Joins(c)
    BY <1>0, <1>9, <2>1, RefreshEffect DEF TakeTurns, Joins
  <2>2. CASE FailsAlone(c)
    BY <1>0, <1>9, <2>2, RefreshEffect DEF TakeTurns, FailsAlone, Fails, Nothing
  <2>3. CASE Starts(c)
    <3>1. /\ stage[c] = "denied" /\ faults' = faults /\ issued' = issued
          /\ store' = store /\ store \in 1 .. issued
      BY <1>9, <2>3, RefreshEffect DEF Starts
    <3>2. /\ c \in Fetches => \A d \in Fetches : stage[d] # "asking"
          /\ \A d \in Calls : stage'[d] = IF d = c THEN "asking" ELSE stage[d]
          /\ \A d \in Calls : exchange'[d] = IF d = c THEN "sent" ELSE exchange[d]
          /\ \A n \in 1 .. issued :
               presented'[n] = IF n = store THEN presented[n] \cup {c} ELSE presented[n]
      BY <2>3 DEF Starts
    <3> SUFFICES ASSUME faults = 0 PROVE TakeTurns'
      BY <3>1 DEF TakeTurns
    <3>3. \A d \in presented[store] \cap Fetches : stage[d] = "asking"
      BY <3>1 DEF TakeTurns, Nothing
    <3>4. \A n \in 1 .. issued : \A d, e \in presented'[n] \cap Fetches : d = e
      <4>1. ASSUME NEW n \in 1 .. issued, NEW d \in presented'[n] \cap Fetches,
                   NEW e \in presented'[n] \cap Fetches
            PROVE  d = e
        <5>0. \A x, y \in presented[n] \cap Fetches : x = y
          BY <4>1 DEF TakeTurns
        <5>1. CASE n = store
          <6>1. presented'[n] = presented[n] \cup {c}
            BY <3>2, <4>1, <5>1
          <6>2. CASE c \in Fetches
            BY <3>2, <3>3, <4>1, <5>1, <6>1, <6>2
          <6>3. CASE c \notin Fetches
            BY <4>1, <5>0, <6>1, <6>3
          <6> QED
            BY <6>2, <6>3
        <5>2. CASE n # store
          BY <3>2, <4>1, <5>0, <5>2
        <5> QED
          BY <5>1, <5>2
      <4> QED
        BY <4>1
    <3>5. \A d \in presented'[store] \cap Fetches : stage'[d] = "asking"
      <4>1. presented'[store] = presented[store] \cup {c}
        BY <3>1, <3>2
      <4> QED
        BY <1>0, <3>2, <3>3, <4>1
    <3>6. \A d \in Calls : exchange'[d] # "lost"
      BY <3>2 DEF TakeTurns
    <3> QED
      BY <3>1, <3>4, <3>5, <3>6 DEF TakeTurns
  <2> QED
    BY <1>9, <2>1, <2>2, <2>3, RefreshEffect
<1>11. ASSUME NEW c \in Calls, Renew(c) PROVE TakeTurns'
  <2>1. /\ exchange[c] = "granted" /\ store' = grant[c]
        /\ \A d \in Calls : exchange'[d] = IF d = c THEN "none" ELSE exchange[d]
        /\ UNCHANGED <<issued, presented, faults>>
    BY <1>11, RenewEffect
  <2>2. presented[grant[c]] = {}
    BY <2>1 DEF Grants
  <2> QED
    BY <1>0, <2>1, <2>2 DEF TakeTurns
<1>12. ASSUME NEW c \in Calls, DropSession(c) \/ GiveUp(c) PROVE TakeTurns'
  <2> SUFFICES ASSUME faults' = 0 PROVE TakeTurns'
    BY DEF TakeTurns
  <2>1. /\ exchange[c] \in {"refused", "lost"}
        /\ store' \in {store, Nothing}
        /\ c \in Fetches /\ exchange[c] = "refused" => store' = Nothing
        /\ \A d \in Calls : exchange'[d] = IF d = c THEN "none" ELSE exchange[d]
        /\ \A d \in Calls : d # c /\ stage[d] = "asking" => stage'[d] = "asking"
        /\ UNCHANGED <<issued, presented, faults>>
    BY <1>12, EndEffect
  <2>2. exchange[c] = "refused"
    BY <2>1 DEF TakeTurns
  <2> QED
    BY <1>0, <2>1, <2>2 DEF TakeTurns
<1>14. ASSUME NEW n \in 1 .. issued, Expire(n) PROVE TakeTurns'
  BY <1>0, <1>14 DEF TakeTurns, Expire, clientVars, userVars
<1>17. ASSUME NEW n \in 1 .. issued, Lapse(n) PROVE TakeTurns'
  BY <1>0, <1>17 DEF TakeTurns, Lapse, clientVars, userVars
<1>15. ASSUME NEW n \in 1 .. issued, RevokeOnLogout(n) PROVE TakeTurns'
  BY <1>0, <1>15 DEF TakeTurns, RevokeOnLogout, clientVars
<1>16. CASE UNCHANGED vars
  BY <1>16 DEF TakeTurns, vars
<1> QED
  BY <1>1, <1>2, <1>3, <1>4, <1>5, <1>6, <1>7, <1>8, <1>9, <1>11, <1>12,
     <1>14, <1>15, <1>16, <1>17 DEF Next, Server, Client

-----------------------------------------------------------------------------
(* Rotation                                                                *)

\* PresentedTwice, without the cardinality.
Shared(l) == \E n \in 1 .. issued : chain[n] = l /\ \E c, d \in presented[n] : c # d

\* What was presented stays so.
LEMMA SharedStays ==
    ASSUME TypeOK, Asks, [Next]_vars, NEW l, Shared(l)
    PROVE  Shared(l)'
<1> DEFINE Grows == issued' \in {issued, issued + 1}
                    /\ \A n \in 1 .. issued : presented[n] \subseteq presented'[n]
                                              /\ chain'[n] = chain[n]
<1>0. issued \in Nat
  BY DEF TypeOK
<1>1. ASSUME Login PROVE Grows
  BY <1>1, LoginEffect
<1>7. ASSUME NEW c \in Calls, CommitExchange(c) PROVE Grows
  BY <1>7, CommitEffect
<1>9. ASSUME NEW c \in Calls, RefreshFetch(c) \/ RefreshStream(c) PROVE Grows
  BY <1>9, RefreshEffect DEF Joins, FailsAlone, Starts
<1>15. ASSUME NEW n \in 1 .. issued, Expire(n) \/ Lapse(n) \/ RevokeOnLogout(n) PROVE Grows
  BY <1>15 DEF Expire, Lapse, RevokeOnLogout
<1>16. ASSUME Logout \/ Deactivate \/ Lose \/ UNCHANGED vars PROVE Grows
  BY <1>16 DEF Logout, Deactivate, Lose, serverVars, vars
<1>17. ASSUME NEW c \in Calls,
              \/ Send(c) \/ ReadToken(c) \/ Answer(c)
              \/ Renew(c) \/ DropSession(c) \/ GiveUp(c)
       PROVE  Grows
  BY <1>17 DEF Send, ReadToken, Answer, Renew, DropSession, GiveUp, serverVars
<1>18. Grows
  BY <1>1, <1>7, <1>9, <1>15, <1>16, <1>17 DEF Next, Server, Client
<1>19. PICK n \in 1 .. issued : chain[n] = l /\ \E c, d \in presented[n] : c # d
  BY DEF Shared
<1>20. PICK c \in presented[n], d \in presented[n] : c # d
  BY <1>19
<1>21. /\ n \in 1 .. issued' /\ chain'[n] = l
       /\ c \in presented'[n] /\ d \in presented'[n]
  BY <1>0, <1>18, <1>19, <1>20
<1> QED
  BY <1>20, <1>21 DEF Shared

\* Login l has one live token, which is the one its exchanges have read.
LiveOf(l) ==
    /\ \A m, n \in live : chain[m] = l /\ chain[n] = l => m = n
    /\ \A c \in Calls : exchange[c] = "read" /\ chain[token[c]] = l =>
         \A n \in live : chain[n] = l => n = token[c]
    /\ \A c, d \in Calls : exchange[c] = "read" /\ exchange[d] = "read" =>
         (chain[token[c]] = l /\ chain[token[d]] = l => token[c] = token[d])

\* That is so as long as no two calls present one token of that login.
OneLive == \A l \in Nat : ~Shared(l) => LiveOf(l)

LEMMA OneLiveStep ==
    TypeOK /\ Asks /\ EndedLogins /\ OneLive /\ [Next]_vars => OneLive'
<1> SUFFICES ASSUME TypeOK, Asks, EndedLogins, OneLive, [Next]_vars,
                    NEW l \in Nat, ~Shared(l)'
             PROVE  LiveOf(l)'
  BY DEF OneLive
<1>0. /\ issued \in Nat /\ live \subseteq 1 .. issued /\ logins \in Nat
      /\ exchange \in [Calls -> Exchange]
      /\ token \in [Calls -> 0 .. issued]
      /\ chain \in [1 .. issued -> Nat]
      /\ ~Shared(l) /\ LiveOf(l)
  <2>1. ~Shared(l)
    BY SharedStays
  <2> QED
    BY <2>1 DEF TypeOK, OneLive
<1>a. \A c \in Calls : exchange[c] = "read" =>
        token[c] \in 1 .. issued /\ c \in presented[token[c]]
  BY DEF Asks
\* A step that reads nothing and issues nothing keeps it.
<1>b. ASSUME live' \subseteq live, chain' = chain,
             \A d \in Calls : exchange'[d] = "read" =>
               exchange[d] = "read" /\ token'[d] = token[d]
      PROVE  LiveOf(l)'
  <2>1. \A m, n \in live' : chain'[m] = l /\ chain'[n] = l => m = n
    BY <1>0, <1>b DEF LiveOf
  <2>2. \A d \in Calls : exchange'[d] = "read" /\ chain'[token'[d]] = l =>
          \A n \in live' : chain'[n] = l => n = token'[d]
    BY <1>0, <1>b DEF LiveOf
  <2>3. \A d, e \in Calls : exchange'[d] = "read" /\ exchange'[e] = "read" =>
          (chain'[token'[d]] = l /\ chain'[token'[e]] = l => token'[d] = token'[e])
    BY <1>0, <1>b DEF LiveOf
  <2> QED
    BY <2>1, <2>2, <2>3 DEF LiveOf
\* So does one that issues a pair of another login, or of this one when it has
\* no live token and no exchange that has read one.
<1>c. ASSUME issued' = issued + 1, token' = token,
             \A n \in 1 .. issued : chain'[n] = chain[n],
             live' \subseteq live \cup {issued'},
             \A d \in Calls : exchange'[d] = "read" => exchange[d] = "read",
             chain'[issued'] = l =>
               /\ \A n \in live' : n # issued' => chain[n] # l
               /\ \A d \in Calls : exchange'[d] = "read" => chain[token[d]] # l
      PROVE  LiveOf(l)'
  <2>1. ASSUME NEW n \in live', chain'[n] = l, n # issued'
        PROVE  n \in live /\ chain[n] = l /\ chain'[issued'] # l
    BY <1>0, <1>c, <2>1
  <2>2. ASSUME NEW d \in Calls, exchange'[d] = "read", chain'[token'[d]] = l
        PROVE  /\ exchange[d] = "read" /\ token'[d] = token[d] /\ chain[token[d]] = l
               /\ chain'[issued'] # l
    BY <1>a, <1>c, <2>2
  <2>3. \A m, n \in live' : chain'[m] = l /\ chain'[n] = l => m = n
    BY <1>0, <2>1 DEF LiveOf
  <2>4. ASSUME NEW d \in Calls, exchange'[d] = "read", chain'[token'[d]] = l,
               NEW n \in live', chain'[n] = l
        PROVE  n = token'[d]
    BY <1>0, <2>1, <2>2, <2>4 DEF LiveOf
  <2>5. ASSUME NEW d \in Calls, NEW e \in Calls,
               exchange'[d] = "read", exchange'[e] = "read",
               chain'[token'[d]] = l, chain'[token'[e]] = l
        PROVE  token'[d] = token'[e]
    BY <1>0, <2>2, <2>5 DEF LiveOf
  <2> QED
    BY <2>3, <2>4, <2>5 DEF LiveOf
<1>1. CASE Login
  <2>1. /\ issued' = issued + 1
        /\ \A n \in 1 .. issued : chain'[n] = chain[n] /\ chain[n] # logins + 1
        /\ chain'[issued'] = logins + 1
        /\ live' = live \cup {issued'}
        /\ UNCHANGED <<exchange, token>>
    BY <1>0, <1>1, LoginEffect DEF EndedLogins
  <2> QED
    BY <1>0, <1>a, <1>c, <2>1
<1>2. CASE Logout \/ Deactivate \/ UNCHANGED vars
  <2>1. UNCHANGED <<live, chain, exchange, token>>
    BY <1>2 DEF Logout, Deactivate, clientVars, serverVars, vars
  <2> QED
    BY <1>b, <2>1
<1>4. CASE Lose
  <2>1. UNCHANGED <<live, chain, token>>
    BY <1>4 DEF Lose, serverVars
  <2>2. \A d \in Calls : exchange'[d] = "read" => exchange[d] = "read"
    BY <1>0, <1>4 DEF Lose
  <2> QED
    BY <1>b, <2>1, <2>2
<1>5. ASSUME NEW c \in Calls, Send(c) \/ Answer(c) PROVE LiveOf(l)'
  <2>1. UNCHANGED <<live, chain, exchange, token>>
    BY <1>5 DEF Send, Answer, serverVars
  <2> QED
    BY <1>b, <2>1
<1>6. ASSUME NEW c \in Calls, ReadToken(c) PROVE LiveOf(l)'
  <2>1. /\ UNCHANGED <<live, chain, token>>
        /\ \A d \in Calls : exchange'[d] = "read" =>
             exchange[d] = "read" \/ (d = c /\ token[c] \in live)
    BY <1>0, <1>6 DEF ReadToken, serverVars, Usable
  <2>2. ASSUME NEW d \in Calls, exchange'[d] = "read", chain[token[d]] = l,
               NEW n \in live, chain[n] = l
        PROVE  n = token[d]
    BY <1>0, <2>1, <2>2 DEF LiveOf
  <2>3. ASSUME NEW d \in Calls, NEW e \in Calls,
               exchange'[d] = "read", exchange'[e] = "read",
               chain[token[d]] = l, chain[token[e]] = l
        PROVE  token[d] = token[e]
    BY <1>0, <2>1, <2>3 DEF LiveOf
  <2>4. \A m, n \in live : chain[m] = l /\ chain[n] = l => m = n
    BY <1>0 DEF LiveOf
  <2> QED
    BY <2>1, <2>2, <2>3, <2>4 DEF LiveOf
<1>7. ASSUME NEW c \in Calls, CommitExchange(c) PROVE LiveOf(l)'
  <2>1. /\ exchange[c] = "read" /\ token[c] \in 1 .. issued
        /\ \A d \in Calls : exchange'[d] = IF d = c THEN "granted" ELSE exchange[d]
        /\ issued' = issued + 1
        /\ \A n \in 1 .. issued : chain'[n] = chain[n]
        /\ chain'[issued'] = chain[token[c]]
        /\ live' = (live \cup {issued'}) \ {token[c]}
        /\ token' = token
    BY <1>7, CommitEffect
  <2>2. ASSUME chain[token[c]] = l, NEW n \in live', n # issued'
        PROVE  chain[n] # l
    <3>1. n \in live /\ n # token[c]
      BY <2>1, <2>2
    <3> QED
      BY <1>0, <2>1, <2>2, <3>1 DEF LiveOf
  <2>3. ASSUME chain[token[c]] = l, NEW d \in Calls, exchange'[d] = "read"
        PROVE  chain[token[d]] # l
    <3>1. d # c /\ exchange[d] = "read"
      BY <2>1, <2>3
    <3>2. token[d] # token[c]
      BY <1>0, <1>a, <2>1, <2>3, <3>1 DEF Shared
    <3> QED
      BY <1>0, <2>1, <2>3, <3>1, <3>2 DEF LiveOf
  <2>4. \A d \in Calls : exchange'[d] = "read" => exchange[d] = "read"
    BY <2>1
  <2> QED
    BY <1>c, <2>1, <2>2, <2>3, <2>4
<1>9. ASSUME NEW c \in Calls, RefreshFetch(c) \/ RefreshStream(c) PROVE LiveOf(l)'
  <2>1. UNCHANGED <<live, chain>>
    BY <1>9, RefreshEffect
  <2>2. \A d \in Calls : exchange'[d] = "read" => exchange[d] = "read" /\ token'[d] = token[d]
    BY <1>0, <1>9, RefreshEffect DEF Joins, FailsAlone, Starts
  <2> QED
    BY <1>b, <2>1, <2>2
<1>11. ASSUME NEW c \in Calls, Renew(c) \/ DropSession(c) \/ GiveUp(c) PROVE LiveOf(l)'
  <2>1. UNCHANGED <<live, chain>>
    BY <1>11, RenewEffect, EndEffect
  <2>2. \A d \in Calls : exchange'[d] = "read" => exchange[d] = "read" /\ token'[d] = token[d]
    BY <1>0, <1>11, RenewEffect, EndEffect
  <2> QED
    BY <1>b, <2>1, <2>2
<1>15. ASSUME NEW n \in 1 .. issued, Expire(n) \/ Lapse(n) \/ RevokeOnLogout(n)
       PROVE  LiveOf(l)'
  <2>1. live' \subseteq live /\ UNCHANGED <<chain, exchange, token>>
    BY <1>15 DEF Expire, Lapse, RevokeOnLogout, clientVars
  <2> QED
    BY <1>b, <2>1
<1> QED
  BY <1>1, <1>2, <1>4, <1>5, <1>6, <1>7, <1>9, <1>11, <1>15 DEF Next, Server, Client

-----------------------------------------------------------------------------
(* Signing out                                                             *)

\* Nothing has disturbed the last login.
Calm == ~Shared(logins) /\ ~outlived /\ faults = 0

LEMMA CalmBefore ==
    ASSUME TypeOK, Asks, [Next]_vars, Calm', ~Login
    PROVE  Calm /\ UNCHANGED <<logins, outlived>>
<1> DEFINE Held == UNCHANGED <<logins, outlived>> /\ faults' \in {faults, faults + 1}
<1>1. Held
  <2>1. ASSUME NEW c \in Calls, RefreshFetch(c) \/ RefreshStream(c) PROVE Held
    BY <2>1, RefreshEffect
  <2>2. ASSUME NEW c \in Calls, Server(c) PROVE Held
    BY <2>2 DEF Server, ReadToken, CommitExchange, Answer, userVars
  <2>3. ASSUME NEW c \in Calls, Send(c) \/ Renew(c) \/ DropSession(c) \/ GiveUp(c)
        PROVE  Held
    BY <2>3 DEF Send, Renew, DropSession, GiveUp, userVars
  <2>4. ASSUME NEW n \in 1 .. issued, Expire(n) \/ Lapse(n) \/ RevokeOnLogout(n)
        PROVE  Held
    BY <2>4 DEF Expire, Lapse, RevokeOnLogout, userVars
  <2>5. ASSUME Logout \/ Deactivate \/ Lose \/ UNCHANGED vars PROVE Held
    BY <2>5 DEF Logout, Deactivate, Lose, userVars, vars
  <2> QED
    BY <2>1, <2>2, <2>3, <2>4, <2>5 DEF Next, Client
<1>2. faults = 0 /\ ~outlived
  BY <1>1 DEF Calm, TypeOK
<1>3. ~Shared(logins)
  BY <1>1, SharedStays DEF Calm, Shared
<1> QED
  BY <1>1, <1>2, <1>3 DEF Calm

\* Then one call asks at a time, streams included, and nothing else changes
\* the store meanwhile.
AskAlone ==
    Calm =>
        \A c \in Calls : stage[c] = "asking" =>
            /\ store \in {token[c], Nothing}
            /\ \A d \in Calls : stage[d] = "asking" => d = c

LEMMA AskAloneStep ==
    TypeOK /\ Asks /\ OfLastLogin /\ AskAlone /\ [Next]_vars => AskAlone'
<1> SUFFICES ASSUME TypeOK, Asks, OfLastLogin, AskAlone, [Next]_vars, Calm'
             PROVE  AskAlone'
  BY DEF AskAlone
<1> DEFINE Alone == \A c \in Calls : stage[c] = "asking" =>
                      /\ store \in {token[c], Nothing}
                      /\ \A d \in Calls : stage[d] = "asking" => d = c
<1> SUFFICES Alone'
  BY DEF AskAlone
<1>0. /\ issued \in Nat /\ store \in 0 .. issued
      /\ stage \in [Calls -> Stage]
      /\ chain \in [1 .. issued -> Nat]
  BY DEF TypeOK
<1>1. CASE Login
  BY <1>1, LoginEffect DEF Calm
<1> SUFFICES ASSUME ~Login PROVE Alone'
  BY <1>1
<1>2. Calm /\ logins' = logins /\ Alone
  BY CalmBefore DEF AskAlone
<1>b. ASSUME \A d \in Calls : stage'[d] = "asking" =>
                stage[d] = "asking" /\ token'[d] = token[d],
             store' \in {store, Nothing}
      PROVE  Alone'
  BY <1>2, <1>b
<1> HIDE DEF Alone
<1>3. CASE Lose
  BY <1>0, <1>2, <1>3 DEF Lose, Calm
<1>4. CASE Logout \/ Deactivate \/ UNCHANGED vars
  <2>1. UNCHANGED <<stage, token>> /\ store' \in {store, Nothing}
    BY <1>4 DEF Logout, Deactivate, clientVars, vars
  <2> QED
    BY <1>b, <2>1
<1>5. ASSUME NEW c \in Calls, Send(c) \/ Answer(c) \/ ReadToken(c) PROVE Alone'
  <2>1. /\ token' = token /\ store' \in {store, Nothing}
        /\ \A d \in Calls : stage'[d] = "asking" => stage[d] = "asking"
    BY <1>0, <1>5 DEF Send, Answer, ReadToken
  <2> QED
    BY <1>b, <2>1
<1>7. ASSUME NEW c \in Calls, CommitExchange(c) PROVE Alone'
  BY <1>7, <1>b, CommitEffect
<1>9. ASSUME NEW c \in Calls, RefreshFetch(c) \/ RefreshStream(c) PROVE Alone'
  <2>1. CASE Joins(c) \/ FailsAlone(c)
    <3>1. /\ token' = token /\ store' \in {store, Nothing}
          /\ \A d \in Calls : stage'[d] = "asking" => stage[d] = "asking"
      BY <1>0, <2>1 DEF Joins, FailsAlone, Fails
    <3> QED
      BY <1>b, <3>1
  <2>2. CASE Starts(c)
    <3>1. /\ store \in 1 .. issued /\ store' = store /\ c \notin presented[store]
          /\ \A d \in Calls : stage'[d] = IF d = c THEN "asking" ELSE stage[d]
          /\ \A d \in Calls : token'[d] = IF d = c THEN store ELSE token[d]
          /\ presented'[store] = presented[store] \cup {c}
          /\ issued' = issued /\ chain' = chain
      BY <1>9, <2>2, RefreshEffect DEF Starts
    <3>2. ASSUME NEW d \in Calls, stage[d] = "asking" PROVE FALSE
      <4>1. token[d] = store
        BY <1>2, <3>1, <3>2 DEF Alone, Nothing
      <4>2. d \in presented'[store] /\ c \in presented'[store] /\ c # d
        BY <3>1, <3>2, <4>1 DEF Asks
      <4>3. chain'[store] = logins'
        BY <1>2, <3>1 DEF OfLastLogin, Calm, Nothing
      <4> QED
        BY <3>1, <4>2, <4>3 DEF Calm, Shared
    <3>3. \A d \in Calls : stage'[d] = "asking" => d = c /\ token'[d] = store'
      BY <3>1, <3>2
    <3> QED
      BY <3>3 DEF Alone
  <2> QED
    BY <1>9, <2>1, <2>2, RefreshEffect
<1>11. ASSUME NEW c \in Calls, Renew(c) PROVE Alone'
  <2>1. /\ stage[c] = "asking" /\ stage'[c] = "resent"
        /\ \A d \in Calls : stage'[d] = "resent" \/ stage'[d] = stage[d]
    BY <1>11, RenewEffect
  <2>2. \A d \in Calls : stage'[d] # "asking"
    BY <1>2, <2>1 DEF Alone
  <2> QED
    BY <2>2 DEF Alone
<1>12. ASSUME NEW c \in Calls, DropSession(c) \/ GiveUp(c) PROVE Alone'
  BY <1>12, <1>b, EndEffect
<1>15. ASSUME NEW n \in 1 .. issued, Expire(n) \/ Lapse(n) \/ RevokeOnLogout(n)
       PROVE  Alone'
  <2>1. UNCHANGED <<stage, token, store>>
    BY <1>15 DEF Expire, Lapse, RevokeOnLogout, clientVars
  <2> QED
    BY <1>b, <2>1
<1> QED
  BY <1>3, <1>4, <1>5, <1>7, <1>9, <1>11, <1>12, <1>15 DEF Next, Server, Client

\* The usable token of the last login is on its way to be revoked, in the store
\* or about to be; if an exchange was refused, it is on its way to be revoked.
Outside == {n \in live \ lapsed : chain[n] = logins} \ leaving

LiveIsKnown ==
    Calm /\ active =>
        /\ \A n \in Outside :
             \/ n = store
             \/ \E c \in Calls : exchange[c] = "granted" /\ grant[c] = n
        /\ \A c \in Calls : exchange[c] = "refused" => Outside = {}

LEMMA LiveIsKnownStep ==
    /\ TypeOK /\ Asks /\ Grants /\ EndedLogins /\ OfLastLogin /\ TakeTurns /\ OneLive
    /\ AskAlone /\ LiveIsKnown /\ [Next]_vars
    => LiveIsKnown'
<1> SUFFICES ASSUME TypeOK, Asks, Grants, EndedLogins, OfLastLogin, TakeTurns, OneLive,
                    AskAlone, LiveIsKnown, [Next]_vars, Calm', active' = TRUE
             PROVE  LiveIsKnown'
  BY DEF LiveIsKnown
<1> DEFINE Known ==
      /\ \A n \in Outside :
           \/ n = store
           \/ \E c \in Calls : exchange[c] = "granted" /\ grant[c] = n
      /\ \A c \in Calls : exchange[c] = "refused" => Outside = {}
<1> SUFFICES Known'
  BY DEF LiveIsKnown
<1>0. /\ issued \in Nat /\ logins \in Nat /\ store \in 0 .. issued
      /\ live \subseteq 1 .. issued
      /\ stage \in [Calls -> Stage] /\ exchange \in [Calls -> Exchange]
      /\ chain \in [1 .. issued -> Nat]
      /\ \A n \in 1 .. issued : chain[n] <= logins
  BY DEF TypeOK, EndedLogins
<1>1. CASE Login
  <2>1. /\ issued' = issued + 1 /\ store' = issued'
        /\ \A n \in 1 .. issued : chain'[n] = chain[n]
        /\ live' = live \cup {issued'}
        /\ logins' = logins + 1
        /\ \A c \in Calls : stage[c] # "asking"
        /\ exchange' = exchange
    BY <1>1, LoginEffect DEF Calm
  <2>2. ASSUME NEW n \in live', chain'[n] = logins' PROVE n = store'
    <3>1. ASSUME n \in live PROVE FALSE
      <4>1. n \in 1 .. issued /\ chain'[n] = chain[n]
        BY <1>0, <2>1, <3>1
      <4> QED
        BY <1>0, <2>1, <2>2, <4>1
    <3> QED
      BY <2>1, <2>2, <3>1
  <2>3. \A c \in Calls : exchange'[c] = "none"
    BY <2>1 DEF Asks
  <2> QED
    BY <2>2, <2>3 DEF Outside
<1> SUFFICES ASSUME ~Login PROVE Known'
  BY <1>1
<1>2. Calm /\ logins' = logins
  BY CalmBefore
<1>3. active = TRUE
  <2>1. ASSUME NEW c \in Calls, RefreshFetch(c) \/ RefreshStream(c) PROVE active' = active
    BY <2>1, RefreshEffect
  <2>2. ASSUME NEW c \in Calls,
               Send(c) \/ Server(c) \/ Renew(c) \/ DropSession(c) \/ GiveUp(c)
        PROVE  active' = active
    BY <2>2 DEF Server, ReadToken, CommitExchange, Answer, Send, Renew, DropSession, GiveUp
  <2>3. ASSUME NEW n \in 1 .. issued, Expire(n) \/ Lapse(n) \/ RevokeOnLogout(n)
        PROVE  active' = active
    BY <2>3 DEF Expire, Lapse, RevokeOnLogout
  <2>4. ASSUME Logout \/ Lose \/ UNCHANGED vars PROVE active' = active
    BY <2>4 DEF Logout, Lose, vars
  <2>5. ASSUME Deactivate PROVE FALSE
    BY <2>5 DEF Deactivate
  <2> QED
    BY <2>1, <2>2, <2>3, <2>4, <2>5 DEF Next, Client
<1>4. Known
  BY <1>2, <1>3 DEF LiveIsKnown
<1>5. /\ store # Nothing => chain[store] = logins
      /\ \A c \in Calls : stage[c] = "asking" => chain[token[c]] = logins
      /\ \A c \in Calls : exchange[c] # "lost"
      /\ LiveOf(logins)
  BY <1>0, <1>2 DEF Calm, OfLastLogin, TakeTurns, OneLive
<1>6. \A c \in Calls : stage[c] = "asking" =>
        /\ store \in {token[c], Nothing}
        /\ \A d \in Calls : stage[d] = "asking" => d = c
  BY <1>2 DEF AskAlone
\* A step that issues, stores and refuses nothing keeps it.
<1>b. ASSUME Outside' \subseteq Outside, store' = store,
             \A d \in Calls : exchange[d] = "granted" =>
               exchange'[d] = "granted" /\ grant'[d] = grant[d],
             \A d \in Calls : exchange'[d] = "refused" => exchange[d] = "refused"
      PROVE  Known'
  BY <1>4, <1>b
\* So does one after which nothing is outside.
<1>c. ASSUME Outside' = {} PROVE Known'
  BY <1>c
<1> HIDE DEF Known
<1>7. CASE Lose
  BY <1>2, <1>7 DEF Lose, Calm
<1>8. CASE Logout
  <2>1. /\ leaving' = leaving \cup {store}
        /\ UNCHANGED <<live, lapsed, chain, exchange, grant>>
    BY <1>8 DEF Logout, clientVars, serverVars
  <2>2. Outside' \subseteq Outside \ {store}
    BY <1>2, <2>1 DEF Outside
  <2> QED
    BY <1>4, <2>1, <2>2 DEF Known
<1>9. CASE Deactivate
  BY <1>9 DEF Deactivate
<1>10. ASSUME NEW c \in Calls, Send(c) PROVE Known'
  <2>1. UNCHANGED <<live, lapsed, chain, leaving, store, exchange, grant>>
    BY <1>10 DEF Send, serverVars, userVars
  <2> QED
    BY <1>2, <1>b, <2>1 DEF Outside
<1>11. ASSUME NEW c \in Calls, Answer(c) PROVE Known'
  <2>1. UNCHANGED <<live, lapsed, chain, leaving, exchange, grant>>
    BY <1>11 DEF Answer, serverVars, userVars
  <2>2. stage[c] = "resent" => used[c] \in fresh
    BY DEF Grants
  <2>3. store' = store
    BY <1>0, <1>3, <1>11, <2>2 DEF Answer
  <2> QED
    BY <1>2, <1>b, <2>1, <2>3 DEF Outside
<1>12. ASSUME NEW c \in Calls, ReadToken(c) PROVE Known'
  <2>1. /\ UNCHANGED <<live, lapsed, chain, leaving, store, grant>>
        /\ exchange[c] = "sent" /\ stage[c] = "asking"
        /\ \A d \in Calls : d # c => exchange'[d] = exchange[d]
        /\ exchange'[c] = "refused" => token[c] \notin live \ lapsed
    BY <1>0, <1>3, <1>12 DEF ReadToken, serverVars, userVars, Usable, Asks
  <2>2. Outside' = Outside
    BY <1>2, <2>1 DEF Outside
  <2>3. CASE exchange'[c] # "refused"
    BY <1>b, <2>1, <2>2, <2>3
  <2>4. CASE exchange'[c] = "refused"
    <3>1. ASSUME NEW n \in Outside PROVE FALSE
      <4>1. n \in live \ lapsed /\ n # Nothing
        BY <1>0, <3>1 DEF Outside, Nothing
      <4>2. n # store
        BY <1>6, <2>1, <2>4, <4>1
      <4>3. PICK d \in Calls : exchange[d] = "granted"
        BY <1>4, <3>1, <4>2 DEF Known
      <4>4. stage[d] = "asking"
        BY <4>3 DEF Asks
      <4> QED
        BY <1>6, <2>1, <4>3, <4>4
    <3> QED
      BY <1>c, <2>2, <3>1
  <2> QED
    BY <2>3, <2>4
<1>13. ASSUME NEW c \in Calls, CommitExchange(c) PROVE Known'
  <2>1. /\ exchange[c] = "read" /\ stage[c] = "asking" /\ token[c] \in 1 .. issued
        /\ \A d \in Calls : exchange'[d] = IF d = c THEN "granted" ELSE exchange[d]
        /\ grant'[c] = issued'
        /\ issued' = issued + 1
        /\ \A n \in 1 .. issued : chain'[n] = chain[n]
        /\ live' = (live \cup {issued'}) \ {token[c]}
    BY <1>13, CommitEffect
  <2>2. ASSUME NEW n \in Outside' PROVE n = issued'
    <3>1. n \in live' /\ chain'[n] = logins
      BY <1>2 DEF Outside
    <3>2. ASSUME n # issued' PROVE FALSE
      <4>1. n \in live /\ n # token[c] /\ chain[n] = logins
        BY <1>0, <2>1, <3>1, <3>2
      <4> QED
        BY <1>5, <2>1, <4>1 DEF LiveOf
    <3> QED
      BY <3>2
  <2>3. ASSUME NEW d \in Calls, exchange'[d] = "refused" PROVE FALSE
    <3>1. exchange[d] = "refused" /\ d # c
      BY <2>1, <2>3
    <3>2. stage[d] = "asking"
      BY <3>1 DEF Asks
    <3> QED
      BY <1>6, <2>1, <3>1, <3>2
  <2>4. exchange'[c] = "granted"
    BY <2>1
  <2> QED
    BY <2>1, <2>2, <2>3, <2>4 DEF Known
<1>14. ASSUME NEW c \in Calls, RefreshFetch(c) \/ RefreshStream(c) PROVE Known'
  <2>1. /\ UNCHANGED <<live, lapsed, chain, leaving, grant>>
        /\ exchange[c] = "none"
    BY <1>14, RefreshEffect
  <2>2. /\ store' = store
        /\ \A d \in Calls : exchange[d] = "granted" => exchange'[d] = "granted"
        /\ \A d \in Calls : exchange'[d] = "refused" => exchange[d] = "refused"
    BY <1>14, <2>1, RefreshEffect DEF Joins, FailsAlone, Fails, Starts
  <2> QED
    BY <1>2, <1>b, <2>1, <2>2 DEF Outside
<1>15. ASSUME NEW c \in Calls, Renew(c) PROVE Known'
  <2>1. /\ exchange[c] = "granted" /\ store' = grant[c] /\ stage[c] = "asking"
        /\ \A d \in Calls : exchange'[d] = IF d = c THEN "none" ELSE exchange[d]
        /\ UNCHANGED <<live, lapsed, chain, leaving>>
    BY <1>15, RenewEffect
  <2>2. grant[c] \in live /\ chain[grant[c]] = logins
    BY <1>5, <2>1 DEF Grants
  <2>3. \A n \in Outside' : n = store'
    BY <1>2, <1>5, <2>1, <2>2 DEF LiveOf, Outside
  <2>4. ASSUME NEW d \in Calls, exchange'[d] = "refused" PROVE FALSE
    <3>1. exchange[d] = "refused" /\ d # c
      BY <2>1, <2>4
    <3>2. stage[d] = "asking"
      BY <3>1 DEF Asks
    <3> QED
      BY <1>6, <2>1, <3>1, <3>2
  <2> QED
    BY <2>3, <2>4 DEF Known
<1>16. ASSUME NEW c \in Calls, DropSession(c) \/ GiveUp(c) PROVE Known'
  <2>1. /\ exchange[c] \in {"refused", "lost"}
        /\ UNCHANGED <<live, lapsed, chain, leaving>>
    BY <1>16, EndEffect
  <2>2. Outside = {}
    BY <1>4, <1>5, <2>1 DEF Known
  <2>3. Outside' = Outside
    BY <1>2, <2>1 DEF Outside
  <2> QED
    BY <1>c, <2>2, <2>3
<1>17. ASSUME NEW n \in 1 .. issued, Expire(n) \/ Lapse(n) PROVE Known'
  <2>1. /\ UNCHANGED <<live, chain, leaving, store, exchange, grant>>
        /\ lapsed \subseteq lapsed'
    BY <1>17 DEF Expire, Lapse, clientVars, userVars
  <2>2. Outside' \subseteq Outside
    BY <1>2, <2>1 DEF Outside
  <2> QED
    BY <1>b, <2>1, <2>2
<1>18. ASSUME NEW n \in 1 .. issued, RevokeOnLogout(n) PROVE Known'
  <2>1. /\ leaving' = leaving \ {n} /\ live' = live \ {n}
        /\ UNCHANGED <<chain, lapsed, store, exchange, grant>>
    BY <1>18 DEF RevokeOnLogout, clientVars
  <2>2. Outside' \subseteq Outside
    BY <1>2, <2>1 DEF Outside
  <2> QED
    BY <1>b, <2>1, <2>2
<1>19. CASE UNCHANGED vars
  <2>1. UNCHANGED <<live, lapsed, chain, leaving, store, exchange, grant>>
    BY <1>19 DEF vars
  <2> QED
    BY <1>2, <1>b, <2>1 DEF Outside
<1> QED
  BY <1>7, <1>8, <1>9, <1>10, <1>11, <1>12, <1>13, <1>14, <1>15, <1>16, <1>17,
     <1>18, <1>19 DEF Next, Server, Client

-----------------------------------------------------------------------------
(* Staying signed in                                                       *)

\* Nothing that ends a session has happened.
Quiet ==
    /\ logins > 0 /\ ~signedOut /\ active /\ faults = 0 /\ ~outlived
    /\ \A n \in lapsed : chain[n] # logins
    /\ ~Shared(logins)

\* Then the stored token is good or being exchanged, and no exchange is refused.
StaysIn ==
    Quiet =>
        /\ store # Nothing
        /\ store \in live \/ presented[store] # {}
        /\ \A c \in Calls : exchange[c] = "sent" => token[c] \in live
        /\ \A c \in Calls : exchange[c] # "refused"

LEMMA StaysInStep ==
    /\ TypeOK /\ Asks /\ Grants /\ EndedLogins /\ OfLastLogin /\ TakeTurns /\ StaysIn
    /\ [Next]_vars
    => StaysIn'
<1> SUFFICES ASSUME TypeOK, Asks, Grants, EndedLogins, OfLastLogin, TakeTurns, StaysIn,
                    [Next]_vars, Quiet'
             PROVE  StaysIn'
  BY DEF StaysIn
<1> DEFINE Stays ==
      /\ store # Nothing
      /\ store \in live \/ presented[store] # {}
      /\ \A c \in Calls : exchange[c] = "sent" => token[c] \in live
      /\ \A c \in Calls : exchange[c] # "refused"
<1> SUFFICES Stays'
  BY DEF StaysIn
<1>0. /\ issued \in Nat /\ logins \in Nat /\ faults \in Nat /\ store \in 0 .. issued
      /\ live \subseteq 1 .. issued
      /\ stage \in [Calls -> Stage] /\ exchange \in [Calls -> Exchange]
      /\ token \in [Calls -> 0 .. issued]
      /\ presented \in [1 .. issued -> SUBSET Calls]
      /\ lapsed \subseteq 1 .. issued /\ chain \in [1 .. issued -> Nat]
      /\ logins' > 0 /\ ~signedOut' /\ active' /\ faults' = 0 /\ ~outlived'
      /\ ~Shared(logins)'
  BY DEF TypeOK, Quiet
<1> DEFINE Undisturbed ==
      /\ UNCHANGED <<logins, signedOut, active, faults, outlived>>
      /\ \A n \in 1 .. issued : chain'[n] = chain[n]
      /\ lapsed \subseteq lapsed'
<1>a. ASSUME Undisturbed
      PROVE  /\ Stays /\ ~Shared(logins) /\ \A n \in lapsed : chain[n] # logins
             /\ chain[store] = logins
             /\ \A c \in Calls : stage[c] = "asking" => chain[token[c]] = logins
  <2>1. ~Shared(logins)
    BY <1>0, <1>a, SharedStays DEF Shared
  <2>2. Quiet
    BY <1>0, <1>a, <2>1 DEF Quiet
  <2>3. Stays
    BY <2>2 DEF StaysIn
  <2>4. ~outlived
    BY <2>2 DEF Quiet
  <2> QED
    BY <2>1, <2>2, <2>3, <2>4 DEF Quiet, OfLastLogin
<1> HIDE DEF Stays
<1>1. ASSUME Login PROVE Stays'
  <2>1. /\ issued' = issued + 1 /\ store' = issued' /\ live' = live \cup {issued'}
        /\ \A c \in Calls : stage[c] # "asking"
        /\ exchange' = exchange
    BY <1>0, <1>1, LoginEffect
  <2>2. \A c \in Calls : exchange[c] = "none"
    BY <2>1 DEF Asks
  <2> QED
    BY <1>0, <2>1, <2>2 DEF Stays, Nothing
<1>2. ASSUME Logout \/ Deactivate \/ Lose PROVE Stays'
  <2>1. CASE Logout
    BY <1>0, <2>1, Zenon DEF Logout
  <2>2. CASE Deactivate
    BY <1>0, <2>2, Zenon DEF Deactivate
  <2>3. CASE Lose
    BY <1>0, <2>3 DEF Lose
  <2> QED
    BY <1>2, <2>1, <2>2, <2>3
<1>3. ASSUME UNCHANGED vars PROVE Stays'
  <2>1. Undisturbed
        /\ UNCHANGED <<store, live, presented, exchange, token>>
    BY <1>3 DEF vars
  <2> QED
    BY <1>a, <2>1 DEF Stays
<1>5. ASSUME NEW c \in Calls, Send(c) PROVE Stays'
  <2>1. Undisturbed
        /\ UNCHANGED <<store, live, presented, exchange, token>>
    BY <1>5 DEF Send, serverVars, userVars
  <2> QED
    BY <1>a, <2>1 DEF Stays
<1>6. ASSUME NEW c \in Calls, ReadToken(c) PROVE Stays'
  <2>1. Undisturbed
        /\ UNCHANGED <<store, live, presented, token>>
        /\ exchange[c] = "sent"
        /\ exchange' = [exchange EXCEPT
             ![c] = IF token[c] \in Usable THEN "read" ELSE "refused"]
    BY <1>6 DEF ReadToken, serverVars, userVars
  <2>2. Stays /\ token[c] \in live
    BY <1>a, <2>1 DEF Stays
  <2>a. token[c] \in Usable
    <3>1. stage[c] = "asking" /\ chain[token[c]] = logins
      BY <1>a, <2>1 DEF Asks
    <3>2. token[c] \notin lapsed /\ active
      BY <1>0, <1>a, <2>1, <3>1
    <3> QED
      BY <2>2, <3>2 DEF Usable
  <2>3. \A d \in Calls : exchange'[d] = IF d = c THEN "read" ELSE exchange[d]
    BY <1>0, <2>1, <2>a
  <2> QED
    BY <2>1, <2>2, <2>3 DEF Stays
<1>7. ASSUME NEW c \in Calls, CommitExchange(c) PROVE Stays'
  <2>1. /\ token[c] \in 1 .. issued /\ c \in presented[token[c]]
        /\ \A d \in Calls : exchange'[d] = IF d = c THEN "granted" ELSE exchange[d]
        /\ issued' = issued + 1
        /\ \A n \in 1 .. issued : presented'[n] = presented[n]
        /\ live' = (live \cup {issued'}) \ {token[c]}
        /\ UNCHANGED <<token, store>>
    BY <1>7, CommitEffect
  <2>2. Undisturbed
    BY <1>7, CommitEffect
  <2>3. Stays /\ ~Shared(logins)
    BY <1>a, <2>2
  <2>4. store \in 1 .. issued
    BY <1>0, <2>3 DEF Stays, Nothing
  <2>5. store' \in live' \/ presented'[store'] # {}
    BY <2>1, <2>3, <2>4 DEF Stays
  <2>6. ASSUME NEW d \in Calls, exchange'[d] = "sent" PROVE token'[d] \in live'
    <3>1. d # c /\ exchange[d] = "sent" /\ token[d] \in live
      BY <2>1, <2>3, <2>6 DEF Stays
    <3>2. stage[d] = "asking" /\ d \in presented[token[d]] /\ chain[token[d]] = logins
      BY <1>a, <2>2, <3>1 DEF Asks
    <3>3. token[d] # token[c]
      BY <1>0, <2>1, <2>3, <3>1, <3>2 DEF Shared
    <3> QED
      BY <2>1, <3>1, <3>3
  <2> QED
    BY <2>1, <2>3, <2>5, <2>6 DEF Stays
<1>8. ASSUME NEW c \in Calls, Answer(c) PROVE Stays'
  <2>1. Undisturbed
        /\ UNCHANGED <<live, presented, exchange, token>>
    BY <1>8 DEF Answer, serverVars, userVars
  <2>2. stage[c] = "resent" => used[c] \in fresh
    BY DEF Grants
  <2>3. store' = store
    BY <1>0, <1>8, <2>1, <2>2 DEF Answer
  <2> QED
    BY <1>a, <2>1, <2>3 DEF Stays
<1>9. ASSUME NEW c \in Calls, RefreshFetch(c) \/ RefreshStream(c) PROVE Stays'
  <2>1. /\ Undisturbed
        /\ UNCHANGED <<live, issued>>
    BY <1>9, RefreshEffect
  <2>2. Stays /\ chain[store] = logins
    BY <1>a, <2>1
  <2>3. CASE Joins(c)
    BY <2>1, <2>2, <2>3 DEF Joins, Stays
  <2>4. CASE FailsAlone(c)
    BY <2>2, <2>4 DEF FailsAlone, Stays
  <2>5. CASE Starts(c)
    <3>1. /\ store \in 1 .. issued /\ store' = store
          /\ \A d \in Calls : exchange'[d] = IF d = c THEN "sent" ELSE exchange[d]
          /\ \A d \in Calls : token'[d] = IF d = c THEN store ELSE token[d]
          /\ presented'[store] = presented[store] \cup {c}
          /\ c \notin presented[store]
      BY <2>5 DEF Starts
    <3>2. presented[store] = {}
      <4>1. ASSUME NEW d \in presented[store] PROVE FALSE
        <5>1. /\ store \in 1 .. issued' /\ chain'[store] = logins' /\ c # d
              /\ c \in presented'[store] /\ d \in presented'[store]
          BY <2>1, <2>2, <3>1, <4>1
        <5> QED
          BY <1>0, <5>1 DEF Shared
      <4> QED
        BY <4>1
    <3>3. store \in live
      BY <2>2, <3>2 DEF Stays
    <3> QED
      BY <2>1, <2>2, <3>1, <3>3 DEF Stays
  <2> QED
    BY <1>9, <2>3, <2>4, <2>5, RefreshEffect
<1>11. ASSUME NEW c \in Calls, Renew(c) PROVE Stays'
  <2>1. /\ exchange[c] = "granted" /\ store' = grant[c]
        /\ \A d \in Calls : exchange'[d] = IF d = c THEN "none" ELSE exchange[d]
        /\ \A d \in Calls : token'[d] = IF d = c THEN Nothing ELSE token[d]
        /\ UNCHANGED <<live, presented>>
    BY <1>11, RenewEffect
  <2>2. Undisturbed
    BY <1>11, RenewEffect
  <2>3. grant[c] \in live /\ grant[c] # Nothing
    BY <1>0, <2>1 DEF Grants, Nothing
  <2> QED
    BY <1>a, <2>1, <2>2, <2>3 DEF Stays
<1>12. ASSUME NEW c \in Calls, DropSession(c) \/ GiveUp(c) PROVE Stays'
  <2>1. exchange[c] \in {"refused", "lost"}
    BY <1>12, EndEffect
  <2>2. Undisturbed
    BY <1>12, EndEffect
  <2>3. exchange[c] # "refused"
    BY <1>a, <2>2 DEF Stays
  <2>4. exchange[c] # "lost"
    BY <1>0, <2>2 DEF TakeTurns
  <2> QED
    BY <2>1, <2>3, <2>4
<1>14. ASSUME NEW n \in 1 .. issued, Expire(n) PROVE Stays'
  <2>1. Undisturbed
        /\ UNCHANGED <<store, live, presented, exchange, token>>
    BY <1>14 DEF Expire, clientVars, userVars
  <2> QED
    BY <1>a, <2>1 DEF Stays
<1>17. ASSUME NEW n \in 1 .. issued, Lapse(n) PROVE Stays'
  <2>1. Undisturbed
        /\ UNCHANGED <<store, live, presented, exchange, token>>
    BY <1>17 DEF Lapse, clientVars, userVars
  <2> QED
    BY <1>a, <2>1 DEF Stays
<1>15. ASSUME NEW n \in 1 .. issued, RevokeOnLogout(n) PROVE Stays'
  <2>1. /\ n \in leaving /\ live' = live \ {n}
        /\ Undisturbed
        /\ UNCHANGED <<store, presented, exchange, token>>
    BY <1>15 DEF RevokeOnLogout, clientVars
  <2>2. Stays /\ chain[store] = logins
    BY <1>a, <2>1
  <2>3. chain[n] # logins
    BY <1>0, <2>1 DEF EndedLogins, TypeOK
  <2>4. store # n
    BY <2>2, <2>3
  <2>5. \A d \in Calls : exchange[d] = "sent" => token[d] # n
    BY <1>a, <2>1, <2>3 DEF Asks
  <2> QED
    BY <2>1, <2>2, <2>4, <2>5 DEF Stays
<1> QED
  BY <1>1, <1>2, <1>3, <1>5, <1>6, <1>7, <1>8, <1>9, <1>11, <1>12, <1>14, <1>15,
     <1>17 DEF Next, Server, Client

-----------------------------------------------------------------------------
(* The safety properties                                                   *)

SessionsInv ==
    /\ TypeOK /\ Asks /\ Grants
    /\ EndedLogins /\ OfLastLogin
    /\ OneAsks /\ TakeTurns
    /\ OneLive /\ AskAlone /\ LiveIsKnown /\ StaysIn

LEMMA InvHolds == Spec => []SessionsInv
<1>1. Init => SessionsInv
  <2> SUFFICES ASSUME Init PROVE SessionsInv
    OBVIOUS
  <2>1. TypeOK /\ Asks
    BY TypesInit
  <2>2. Grants
    BY DEF Init, Grants
  <2>3. EndedLogins /\ OfLastLogin
    BY DEF Init, EndedLogins, OfLastLogin
  <2>4. OneAsks /\ TakeTurns
    BY DEF Init, OneAsks, TakeTurns, Calls
  <2>5. OneLive /\ AskAlone /\ LiveIsKnown /\ StaysIn
    BY DEF Init, OneLive, LiveOf, AskAlone, LiveIsKnown, Outside, StaysIn, Quiet
  <2> QED
    BY <2>1, <2>2, <2>3, <2>4, <2>5 DEF SessionsInv
<1>2. SessionsInv /\ [Next]_vars => SessionsInv'
  BY TypeStep, AsksStep, GrantsStep, EndedLoginsStep, OfLastLoginStep, OneAsksStep,
     TakeTurnsStep, OneLiveStep, AskAloneStep, LiveIsKnownStep,
     StaysInStep, Zenon DEF SessionsInv
<1> QED
  BY <1>1, <1>2, PTL DEF Spec

\* The two ways to say that a token was presented twice.
LEMMA SharedIsTwice == TypeOK => \A l : Shared(l) <=> PresentedTwice(l)
<1> SUFFICES ASSUME TypeOK, NEW l PROVE Shared(l) <=> PresentedTwice(l)
  OBVIOUS
<1>1. ASSUME NEW n \in 1 .. issued
      PROVE  Cardinality(presented[n]) > 1 <=> \E c, d \in presented[n] : c # d
  <2>1. presented[n] \subseteq Calls /\ IsFiniteSet(Calls)
    BY SessionsAssumption DEF TypeOK
  <2>2. IsFiniteSet(presented[n])
    BY <2>1, FS_Subset
  <2>3. Cardinality(presented[n]) \in Nat
    BY <2>2, FS_CardinalityType
  <2>4. Cardinality(presented[n]) <= 1 <=> \A c, d \in presented[n] : c = d
    BY <2>2, AtMostOne
  <2> QED
    BY <2>3, <2>4
<1> QED
  BY <1>1 DEF Shared, PresentedTwice

\* The client does not sign its user out by itself: when the tokens are gone,
\* the user did, or something failed, or a token of this very login expired or
\* was presented twice, or an exchange of the login before ended in it.
THEOREM NotSignedOutByItself == Spec => []SignedOutForCause
<1>1. SessionsInv => SignedOutForCause
  BY SharedIsTwice DEF SessionsInv, StaysIn, Quiet, SignedOutForCause, TypeOK
<1> QED
  BY <1>1, InvHolds, PTL

\* Fetches never present a refresh token twice, unless something was lost.
THEOREM FetchesTakeTurns == Spec => []FetchesShareExchange
<1>1. SessionsInv => FetchesShareExchange
  <2> SUFFICES ASSUME SessionsInv, faults = 0, NEW n \in 1 .. issued
               PROVE  Cardinality(presented[n] \cap Fetches) <= 1
    BY DEF FetchesShareExchange
  <2>1. \A c, d \in presented[n] \cap Fetches : c = d
    BY DEF SessionsInv, TakeTurns
  <2>2. presented[n] \cap Fetches \subseteq Calls /\ IsFiniteSet(Calls)
    BY SessionsAssumption DEF Calls
  <2>3. IsFiniteSet(presented[n] \cap Fetches)
    BY <2>2, FS_Subset
  <2> QED
    BY <2>1, <2>3, AtMostOne
<1> QED
  BY <1>1, InvHolds, PTL

\* Rotation leaves one unrevoked refresh token for each login, unless two
\* calls presented one of that login.
THEOREM OneLiveToken == Spec => []RotationKeepsOne
<1>1. SessionsInv => RotationKeepsOne
  <2> SUFFICES ASSUME SessionsInv, NEW m \in live, NEW n \in live, chain[m] = chain[n],
                      ~PresentedTwice(chain[m])
               PROVE  m = n
    BY DEF RotationKeepsOne
  <2>1. chain[m] \in Nat
    BY DEF SessionsInv, TypeOK
  <2>2. LiveOf(chain[m])
    BY <2>1, SharedIsTwice DEF SessionsInv, OneLive
  <2> QED
    BY <2>2 DEF LiveOf
<1> QED
  BY <1>1, InvHolds, PTL

\* Once a sign-out has been processed, a usable token of that login is one the
\* client still holds, from an exchange that was under way.
THEOREM SignOutRevokes == Spec => []LogoutRevokes
<1>1. SessionsInv => LogoutRevokes
  <2> SUFFICES ASSUME SessionsInv, signedOut, leaving = {}, faults = 0, ~outlived,
                      ~PresentedTwice(logins), NEW n \in Usable, chain[n] = logins
               PROVE  /\ racing
                      /\ \/ n = store
                         \/ \E c \in Calls : exchange[c] = "granted" /\ grant[c] = n
    BY DEF LogoutRevokes
  <2>1. Calm
    BY SharedIsTwice DEF SessionsInv, Calm
  <2>2. active /\ n \in Outside /\ n # Nothing
    BY DEF Usable, Outside, Nothing, SessionsInv, TypeOK
  <2>3. n = store \/ \E c \in Calls : exchange[c] = "granted" /\ grant[c] = n
    BY <2>1, <2>2 DEF SessionsInv, LiveIsKnown
  <2>4. ASSUME ~racing PROVE FALSE
    <3>1. store = Nothing /\ \A c \in Calls : stage[c] # "asking"
      BY <2>4 DEF SessionsInv, OfLastLogin
    <3> QED
      BY <2>2, <2>3, <3>1 DEF SessionsInv, Asks
  <2> QED
    BY <2>3, <2>4
<1> QED
  BY <1>1, InvHolds, PTL
=============================================================================
