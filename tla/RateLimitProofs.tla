-------------------------- MODULE RateLimitProofs --------------------------
(***************************************************************************)
(* Proofs about RateLimit, for any number of calls, any limit and any      *)
(* length of the window.  While its window lasts a key cannot expire, so   *)
(* the counts it gives are distinct; and it never counts more than came.   *)
(***************************************************************************)
EXTENDS RateLimit, FiniteSetTheorems, TLAPS

\* A call's stage says what is known of its count.
Staged ==
    \A c \in Calls :
        /\ stage[c] # "new" => bucket[c] = arrived[c]
        /\ stage[c] \in {"new", "keyed"} => count[c] = 0
        /\ stage[c] \notin {"new", "keyed", "failed"} => count[c] > 0
        /\ stage[c] = "admitted" => count[c] <= Limit
        /\ stage[c] = "refused" => count[c] > Limit
        /\ arrived[c] <= window
        /\ at[c] <= window

\* A key does not expire in its window.
Outlives == \A b \in Windows : expires[b] = Never \/ expires[b].window > b

\* The key of the window that lasts has counted every call in time.
Tallied ==
    \A b \in Windows : b = window => \A c \in InTime(b) : count[c] <= counter[b]

Distinct ==
    \A b \in Windows : \A c, e \in InTime(b) : c # e => count[c] # count[e]

\* The calls of window b among those counted.
Counted(cnt, arr, b) == {e \in Calls : cnt[e] > 0 /\ arr[e] = b}

\* A key, and what calls were told, counts no more calls than there were.
Honest ==
    /\ \A b \in Windows : counter[b] <= Cardinality(Counted(count, arrived, b))
    /\ \A c \in Calls : count[c] <= Cardinality(Counted(count, arrived, arrived[c]))

LimitInv == TypeOK /\ Staged /\ Outlives /\ Tallied /\ Distinct /\ Honest

-----------------------------------------------------------------------------
LEMMA NeverIsTime == Never \in Time
BY DEF Never, Time

LEMMA CurrentIsNat ==
    ASSUME TypeOK, NEW b \in Windows
    PROVE  Current(b) \in Nat /\ Current(b) <= counter[b]
BY DEF TypeOK, Current

LEMMA InitTypeOK == Init => TypeOK
BY RateLimitAssumption, NeverIsTime DEF Init, TypeOK, Windows, Stage

LEMMA NextTypeOK == TypeOK /\ [Next]_vars => TypeOK'
<1> SUFFICES ASSUME TypeOK, [Next]_vars PROVE TypeOK'
  OBVIOUS
<1> USE RateLimitAssumption
<1>1. CASE Tick
  BY <1>1 DEF TypeOK, Tick, Windows
<1>2. ASSUME NEW c \in Calls, ReadClock(c) PROVE TypeOK'
  BY <1>2 DEF TypeOK, ReadClock, Bucket, Stage
<1>3. ASSUME NEW c \in Calls, Incr(c) PROVE TypeOK'
  <2>1. bucket[c] \in Windows /\ Current(bucket[c]) + 1 \in Nat
    BY CurrentIsNat DEF TypeOK
  <2> HIDE DEF Current
  <2> QED
    BY <1>3, <2>1, NeverIsTime DEF TypeOK, Incr, Stage
<1>4. ASSUME NEW c \in Calls, SetExpiry(c) PROVE TypeOK'
  <2>1. OneWindowLater \in Time
    BY DEF TypeOK, OneWindowLater, Time, Windows
  <2> QED
    BY <1>4, <2>1 DEF TypeOK, SetExpiry, Stage
<1>5. ASSUME NEW c \in Calls, Decide(c) PROVE TypeOK'
  BY <1>5 DEF TypeOK, Decide, Stage
<1>6. ASSUME NEW c \in Calls, Fail(c) PROVE TypeOK'
  BY <1>6 DEF TypeOK, Fail, Stage
<1>7. CASE UNCHANGED vars
  BY <1>7 DEF TypeOK, vars
<1> QED
  BY <1>1, <1>2, <1>3, <1>4, <1>5, <1>6, <1>7 DEF Next

\* Every reachable state of the limiter has its types.
THEOREM LimiterTypes == Spec => []TypeOK
BY InitTypeOK, NextTypeOK, PTL DEF Spec

-----------------------------------------------------------------------------
LEMMA CountedIsFinite ==
    ASSUME NEW cnt, NEW arr, NEW b
    PROVE  /\ IsFiniteSet(Counted(cnt, arr, b))
           /\ Cardinality(Counted(cnt, arr, b)) \in Nat
<1>1. Counted(cnt, arr, b) \in SUBSET Calls
  BY DEF Counted
<1> QED
  BY <1>1, RateLimitAssumption, FS_Subset, FS_CardinalityType

LEMMA InitLimitInv == Init => LimitInv
<1> SUFFICES ASSUME Init PROVE LimitInv
  OBVIOUS
<1>1. TypeOK
  BY InitTypeOK
<1>2. Staged /\ Outlives /\ Tallied /\ Distinct
  BY RateLimitAssumption DEF Init, Staged, Outlives, Tallied, Distinct, InTime, Windows
<1>3. Honest
  <2>1. \A b \in Windows : counter[b] = 0
    BY DEF Init
  <2>2. \A c \in Calls : count[c] = 0
    BY DEF Init
  <2> QED
    BY <2>1, <2>2, CountedIsFinite DEF Honest
<1> QED
  BY <1>1, <1>2, <1>3 DEF LimitInv

\* A step that leaves counts and keys alone keeps what is said of them.
LEMMA CountsUnchanged ==
    ASSUME Honest, Distinct,
           UNCHANGED <<counter, at, count>>,
           \A e \in Calls : count[e] > 0 => arrived'[e] = arrived[e],
           TypeOK, TypeOK'
    PROVE  Honest' /\ Distinct' /\ \A b : InTime(b)' = InTime(b)
<1>1. \A b : Counted(count, arrived', b) = Counted(count, arrived, b)
  BY DEF Counted
<1>2. \A b : InTime(b)' = InTime(b)
  BY DEF InTime
<1>3. Honest'
  <2>1. ASSUME NEW c \in Calls
        PROVE  count[c] <= Cardinality(Counted(count, arrived', arrived'[c]))
    <3>1. CASE count[c] > 0
      <4>1. arrived'[c] = arrived[c]
        BY <3>1
      <4>2. count[c] <= Cardinality(Counted(count, arrived, arrived[c]))
        BY DEF Honest
      <4> QED
        BY <1>1, <4>1, <4>2
    <3>2. CASE ~(count[c] > 0)
      <4>1. count[c] = 0
        BY <3>2 DEF TypeOK
      <4>2. Cardinality(Counted(count, arrived', arrived'[c])) \in Nat
        BY CountedIsFinite
      <4> QED
        BY <4>1, <4>2
    <3> QED
      BY <3>1, <3>2
  <2>2. ASSUME NEW b \in Windows
        PROVE  counter[b] <= Cardinality(Counted(count, arrived', b))
    BY <1>1 DEF Honest
  <2> QED
    BY <2>1, <2>2 DEF Honest
<1>4. Distinct'
  BY <1>2 DEF Distinct
<1> QED
  BY <1>2, <1>3, <1>4

\* INCR gives a number of its own to a call that comes in time, and counts
\* one call more.
LEMMA IncrCounts ==
    ASSUME LimitInv, TypeOK', NEW c \in Calls, Incr(c),
           NEW b, b = bucket[c], NEW n, n = Current(b) + 1
    PROVE  Tallied' /\ Distinct' /\ Honest'
<1>1. /\ b \in Windows /\ b = arrived[c] /\ count[c] = 0 /\ n \in Nat
      /\ n > 0 /\ n <= counter[b] + 1 /\ counter[b] \in Nat
  <2>1. b \in Windows /\ b = arrived[c] /\ count[c] = 0
    BY DEF LimitInv, Staged, Incr, TypeOK
  <2>2. Current(b) \in Nat /\ Current(b) <= counter[b] /\ counter[b] \in Nat
    BY <2>1, CurrentIsNat DEF LimitInv, TypeOK
  <2> QED
    BY <2>1, <2>2
<1>2. /\ counter' = [counter EXCEPT ![b] = n]
      /\ count' = [count EXCEPT ![c] = n]
      /\ at' = [at EXCEPT ![c] = window]
      /\ UNCHANGED <<window, arrived>>
  BY DEF Incr
<1>3. b = window => n = counter[b] + 1
  <2> SUFFICES ASSUME b = window PROVE ~Expired(b)
    BY DEF Current
  <2>1. expires[b] = Never \/ (expires[b].window > b /\ expires[b] \in Time)
    BY <1>1 DEF LimitInv, Outlives, TypeOK
  <2>2. b \in Int
    BY <1>1 DEF Windows
  <2> QED
    BY <2>1, <2>2 DEF Expired, Time
<1>4. /\ \A d \in Windows : InTime(d)' \subseteq InTime(d) \cup {c}
      /\ \A d \in Windows : c \in InTime(d)' => d = window /\ d = b
  BY <1>1, <1>2 DEF InTime, LimitInv, TypeOK
<1>6. /\ count'[c] = n /\ \A e \in Calls \ {c} : count'[e] = count[e]
      /\ \A e \in Calls : count[e] \in Nat
  BY <1>2 DEF LimitInv, TypeOK
<1>7. \A e \in InTime(window) : count[e] <= counter[window]
  BY DEF LimitInv, Tallied, TypeOK
<1>8. /\ window \in Windows /\ \A d \in Windows : counter[d] \in Nat
      /\ counter'[b] = n /\ \A d \in Windows \ {b} : counter'[d] = counter[d]
  BY <1>1, <1>2 DEF LimitInv, TypeOK
<1>9. Tallied'
  <2> SUFFICES ASSUME NEW d \in Windows, d = window, NEW e \in InTime(d)'
               PROVE  count'[e] <= counter'[d]
    BY <1>2 DEF Tallied
  <2>1. CASE e = c
    BY <1>1, <1>4, <1>6, <1>8, <2>1
  <2>2. CASE e # c
    <3>1. e \in InTime(d) /\ e \in Calls
      BY <1>4, <2>2 DEF InTime
    <3>2. counter[d] <= counter'[d] /\ counter[d] \in Nat /\ counter'[d] \in Nat
      BY <1>1, <1>3, <1>8
    <3>3. count'[e] = count[e] /\ count[e] <= counter[d] /\ count[e] \in Nat
      BY <1>6, <1>7, <2>2, <3>1
    <3> QED
      BY <3>2, <3>3
  <2> QED
    BY <2>1, <2>2
<1>10. Distinct'
  <2> SUFFICES ASSUME NEW d \in Windows, NEW e \in InTime(d)', NEW f \in InTime(d)',
                      e # f
               PROVE  count'[e] # count'[f]
    BY DEF Distinct
  <2>1. ASSUME NEW g \in InTime(d)', g # c, c \in InTime(d)'
        PROVE  count'[g] # count'[c]
    <3>1. d = window /\ d = b
      BY <1>4, <2>1
    <3>2. g \in InTime(d) /\ g \in Calls
      BY <1>4, <2>1 DEF InTime
    <3>3. count[g] <= counter[b] /\ count[g] \in Nat /\ count'[g] = count[g]
      BY <1>6, <1>7, <2>1, <3>1, <3>2
    <3>4. count'[c] = counter[b] + 1 /\ counter[b] \in Nat
      BY <1>1, <1>3, <1>6, <3>1
    <3> QED
      BY <3>3, <3>4
  <2>2. CASE e # c /\ f # c
    <3>1. e \in InTime(d) /\ f \in InTime(d) /\ e \in Calls /\ f \in Calls
      BY <1>4, <2>2 DEF InTime
    <3> QED
      BY <1>6, <2>2, <3>1 DEF LimitInv, Distinct
  <2> QED
    BY <2>1, <2>2
<1>11. Honest'
  <2> DEFINE Old(d) == Counted(count, arrived, d)
             New(d) == Counted(count', arrived, d)
  <2>1. New(b) = Old(b) \cup {c} /\ c \notin Old(b)
    <3>1. \A e \in Calls \ {c} : count'[e] > 0 <=> count[e] > 0
      BY <1>6
    <3> QED
      BY <1>1, <1>6, <3>1 DEF Counted
  <2>2. ASSUME NEW d, d # b PROVE New(d) = Old(d)
    BY <1>1, <1>6, <2>2 DEF Counted
  <2>3. ASSUME NEW d PROVE Cardinality(Old(d)) \in Nat /\ Cardinality(New(d)) \in Nat
    BY CountedIsFinite
  <2>4. Cardinality(New(b)) = Cardinality(Old(b)) + 1
    BY <2>1, CountedIsFinite, FS_AddElement
  <2>5. \A d \in Windows : counter[d] <= Cardinality(Old(d))
    BY DEF LimitInv, Honest
  <2>6. \A e \in Calls : count[e] <= Cardinality(Old(arrived[e]))
    BY DEF LimitInv, Honest
  <2> HIDE DEF Old, New
  <2>7. n <= Cardinality(New(b))
    BY <1>1, <2>3, <2>4, <2>5
  <2>8. ASSUME NEW d \in Windows PROVE counter'[d] <= Cardinality(New(d))
    BY <1>8, <2>2, <2>5, <2>7
  <2>9. ASSUME NEW e \in Calls PROVE count'[e] <= Cardinality(New(arrived[e]))
    <3>1. CASE e = c
      BY <1>1, <1>6, <2>7, <3>1
    <3>2. CASE e # c
      <4>1. count'[e] = count[e] /\ count[e] \in Nat
        BY <1>6, <3>2
      <4>2. Cardinality(Old(arrived[e])) <= Cardinality(New(arrived[e]))
        <5>1. CASE arrived[e] = b
          BY <2>3, <2>4, <5>1
        <5>2. CASE arrived[e] # b
          <6>1. New(arrived[e]) = Old(arrived[e])
            BY <2>2, <5>2
          <6> QED
            BY <2>3, <6>1
        <5> QED
          BY <5>1, <5>2
      <4> QED
        BY <2>3, <2>6, <4>1, <4>2
    <3> QED
      BY <3>1, <3>2
  <2> QED
    BY <1>2, <2>8, <2>9 DEF Honest, New
<1> QED
  BY <1>9, <1>10, <1>11

LEMMA NextLimitInv == LimitInv /\ [Next]_vars => LimitInv'
<1> SUFFICES ASSUME LimitInv, [Next]_vars PROVE LimitInv'
  OBVIOUS
<1> USE RateLimitAssumption
<1>a. TypeOK /\ TypeOK'
  BY NextTypeOK DEF LimitInv
<1>b. Staged /\ Outlives /\ Tallied /\ Distinct /\ Honest
  BY DEF LimitInv
<1>1. CASE Tick
  <2>1. UNCHANGED <<counter, expires, stage, bucket, arrived, at, count>>
        /\ window \in Nat /\ window' \in Nat /\ window <= window'
    BY <1>1, <1>a DEF Tick, TypeOK, Windows
  <2>2. Honest' /\ Distinct' /\ \A b : InTime(b)' = InTime(b)
    BY <1>a, <1>b, <2>1, CountsUnchanged
  <2>3. Staged'
    BY <1>a, <1>b, <2>1 DEF Staged, TypeOK, Windows
  <2>4. Outlives'
    BY <1>b, <2>1 DEF Outlives
  <2>5. Tallied'
    <3>1. CASE window' = window
      BY <1>b, <2>1, <2>2, <3>1 DEF Tallied
    <3>2. CASE window' # window
      <4>1. ASSUME NEW b \in Windows, b = window', NEW c \in InTime(b) PROVE FALSE
        <5>1. c \in Calls /\ arrived[c] = b /\ arrived[c] <= window
          BY <1>b, <4>1 DEF InTime, Staged
        <5> QED
          BY <2>1, <3>2, <4>1, <5>1
      <4> QED
        BY <2>2, <4>1 DEF Tallied
    <3> QED
      BY <3>1, <3>2
  <2> QED
    BY <1>a, <2>2, <2>3, <2>4, <2>5 DEF LimitInv
<1>2. ASSUME NEW c \in Calls, ReadClock(c) PROVE LimitInv'
  <2>1. count[c] = 0 /\ UNCHANGED <<window, counter, expires, at, count>>
    BY <1>2, <1>b DEF ReadClock, Staged
  <2>2. \A e \in Calls : count[e] > 0 => arrived'[e] = arrived[e]
    BY <1>2, <1>a, <2>1 DEF ReadClock, TypeOK
  <2>3. Honest' /\ Distinct' /\ \A b : InTime(b)' = InTime(b)
    BY <1>a, <1>b, <2>1, <2>2, CountsUnchanged
  <2>4. Staged'
    BY <1>2, <1>a, <1>b DEF ReadClock, Staged, Bucket, TypeOK, Windows
  <2>5. Outlives'
    BY <1>b, <2>1 DEF Outlives
  <2>6. Tallied'
    BY <1>b, <2>1, <2>3 DEF Tallied
  <2> QED
    BY <1>a, <2>3, <2>4, <2>5, <2>6 DEF LimitInv
<1>3. ASSUME NEW c \in Calls, Incr(c) PROVE LimitInv'
  <2>1. Tallied' /\ Distinct' /\ Honest'
    BY <1>3, <1>a, IncrCounts
  <2>2. bucket[c] \in Windows /\ Current(bucket[c]) + 1 \in Nat /\ Current(bucket[c]) + 1 > 0
    BY <1>a, CurrentIsNat DEF TypeOK
  <2>3. Staged'
    <3>1. /\ stage[c] = "keyed" /\ stage'[c] \in {"expiring", "counted"}
          /\ count'[c] = Current(bucket[c]) + 1 /\ at'[c] = window
          /\ UNCHANGED <<window, bucket, arrived>>
      BY <1>3, <1>a DEF Incr, TypeOK
    <3>2. \A e \in Calls \ {c} :
              stage'[e] = stage[e] /\ count'[e] = count[e] /\ at'[e] = at[e]
      BY <1>3, <1>a DEF Incr, TypeOK
    <3>3. window <= window
      BY <1>a DEF TypeOK, Windows
    <3> QED
      BY <1>b, <2>2, <3>1, <3>2, <3>3 DEF Staged
  <2>4. Outlives'
    <3> HIDE DEF Current, Never
    <3> QED
      BY <1>3, <1>a, <1>b DEF Incr, Outlives, TypeOK
  <2> QED
    BY <1>a, <2>1, <2>3, <2>4 DEF LimitInv
<1>4. ASSUME NEW c \in Calls, SetExpiry(c) PROVE LimitInv'
  <2>1. UNCHANGED <<window, counter, bucket, arrived, at, count>>
    BY <1>4 DEF SetExpiry
  <2>2. Honest' /\ Distinct' /\ \A b : InTime(b)' = InTime(b)
    BY <1>a, <1>b, <2>1, CountsUnchanged
  <2>3. Staged'
    BY <1>4, <1>a, <1>b DEF SetExpiry, Staged, TypeOK
  <2>4. Outlives'
    <3>1. OneWindowLater.window = window + 1
      BY DEF OneWindowLater
    <3>2. bucket[c] <= window /\ bucket[c] \in Windows /\ window \in Windows
      BY <1>4, <1>a, <1>b DEF SetExpiry, Staged, TypeOK
    <3>3. \A d \in Windows : expires'[d] = IF d = bucket[c] THEN OneWindowLater
                                                             ELSE expires[d]
      BY <1>4, <1>a DEF SetExpiry, TypeOK
    <3> HIDE DEF OneWindowLater
    <3> QED
      BY <1>b, <3>1, <3>2, <3>3 DEF Outlives, Windows
  <2>5. Tallied'
    BY <1>b, <2>1, <2>2 DEF Tallied
  <2> QED
    BY <1>a, <2>2, <2>3, <2>4, <2>5 DEF LimitInv
<1>5. ASSUME NEW c \in Calls, Decide(c) \/ Fail(c) PROVE LimitInv'
  <2>1. UNCHANGED <<window, counter, expires, bucket, arrived, at, count>>
    BY <1>5 DEF Decide, Fail
  <2>2. Honest' /\ Distinct' /\ \A b : InTime(b)' = InTime(b)
    BY <1>a, <1>b, <2>1, CountsUnchanged
  <2>3. Staged'
    BY <1>5, <1>a, <1>b DEF Decide, Fail, OverLimit, Staged, TypeOK
  <2>4. Outlives'
    BY <1>b, <2>1 DEF Outlives
  <2>5. Tallied'
    BY <1>b, <2>1, <2>2 DEF Tallied
  <2> QED
    BY <1>a, <2>2, <2>3, <2>4, <2>5 DEF LimitInv
<1>6. CASE UNCHANGED vars
  <2>1. UNCHANGED <<window, tick, counter, expires, stage, bucket, arrived, at, count>>
    BY <1>6 DEF vars
  <2>2. Honest' /\ Distinct' /\ \A b : InTime(b)' = InTime(b)
    BY <1>a, <1>b, <2>1, CountsUnchanged
  <2>3. Staged' /\ Outlives'
    BY <1>b, <2>1 DEF Staged, Outlives
  <2>4. Tallied'
    BY <1>b, <2>1, <2>2 DEF Tallied
  <2> QED
    BY <1>a, <2>2, <2>3, <2>4 DEF LimitInv
<1> QED
  BY <1>1, <1>2, <1>3, <1>4, <1>5, <1>6 DEF Next

LEMMA LimiterInvariant == Spec => []LimitInv
BY InitLimitInv, NextLimitInv, PTL DEF Spec

-----------------------------------------------------------------------------
\* The admitted calls of a window have distinct counts from 1 to Limit.
LEMMA LimitInvHolds == LimitInv => WindowHolds
<1> SUFFICES ASSUME LimitInv, NEW b \in Windows,
                    NEW S, S = {c \in InTime(b) : stage[c] = "admitted"},
                    ~ (Cardinality(S) <= Limit)
             PROVE  FALSE
  BY DEF WindowHolds
<1> DEFINE f == [c \in S |-> count[c]]
<1>1. S \subseteq Calls /\ IsFiniteSet(S) /\ Cardinality(S) \in Nat
  <2>1. S \in SUBSET Calls
    BY DEF InTime
  <2> QED
    BY <2>1, RateLimitAssumption, FS_Subset, FS_CardinalityType
<1>2. IsFiniteSet(1 .. Limit) /\ Cardinality(1 .. Limit) = Limit
  BY RateLimitAssumption, FS_Interval
<1>3. f \in [S -> 1 .. Limit]
  <2>1. ASSUME NEW c \in S PROVE count[c] \in 1 .. Limit
    <3>1. /\ c \in Calls /\ count[c] > 0 /\ count[c] \in Nat
          /\ stage[c] = "admitted"
      BY <1>1 DEF LimitInv, TypeOK, InTime
    <3>2. count[c] <= Limit
      BY <3>1 DEF LimitInv, Staged
    <3> QED
      BY <3>1, <3>2, RateLimitAssumption
  <2> QED
    BY <2>1
<1>4. Cardinality(1 .. Limit) < Cardinality(S)
  BY <1>1, <1>2, RateLimitAssumption
<1>5. PICK c, e \in S : c # e /\ f[c] = f[e]
  <2>1. PICK T : T = 1 .. Limit
    OBVIOUS
  <2>2. /\ IsFiniteSet(S) /\ IsFiniteSet(T) /\ f \in [S -> T]
        /\ Cardinality(T) < Cardinality(S)
    BY <1>1, <1>2, <1>3, <1>4, <2>1
  <2> HIDE DEF f
  <2> QED
    BY <2>2, FS_PigeonHole, Zenon
<1>6. c \in InTime(b) /\ e \in InTime(b) /\ count[c] = count[e]
  BY <1>5
<1> QED
  BY <1>5, <1>6 DEF LimitInv, Distinct

\* No window admits more than its limit of the calls counted while it lasts.
THEOREM NoWindowAdmitsMore == Spec => []WindowHolds
BY LimiterInvariant, LimitInvHolds, PTL

\* A call is refused only when its window had more calls than the limit.
THEOREM RefusalsHaveCause == Spec => []RefusedForCause
<1>1. LimitInv => RefusedForCause
  <2> SUFFICES ASSUME LimitInv, NEW c \in Calls, stage[c] = "refused"
               PROVE  Cardinality(Counted(count, arrived, arrived[c])) > Limit
    BY DEF RefusedForCause, Counted
  <2>1. count[c] > Limit /\ count[c] \in Nat
        /\ count[c] <= Cardinality(Counted(count, arrived, arrived[c]))
    BY DEF LimitInv, Staged, Honest, TypeOK
  <2>2. Cardinality(Counted(count, arrived, arrived[c])) \in Nat
    BY CountedIsFinite
  <2> QED
    BY <2>1, <2>2, RateLimitAssumption
<1> QED
  BY <1>1, LimiterInvariant, PTL
=============================================================================
