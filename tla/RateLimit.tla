----------------------------- MODULE RateLimit -----------------------------
(***************************************************************************)
(* enforce_rate_limit: a counter in Redis for each fixed window of time,   *)
(* shared by every replica of the api.  One endpoint and one client        *)
(* address are modelled: each pair has keys of its own.                    *)
(*                                                                         *)
(* Time is the number of the window and the ticks since it began, so that  *)
(* int(time.time() // window_seconds) is the variable window.              *)
(***************************************************************************)
EXTENDS Integers, FiniteSets

CONSTANTS
    Calls,      \* requests from the address
    Limit,      \* calls a window admits
    Ticks,      \* window_seconds: ticks in a window
    MaxWindow   \* bound: the last window

ASSUME RateLimitAssumption ==
    /\ IsFiniteSet(Calls)
    /\ Limit \in Nat
    /\ Ticks \in Nat \ {0}
    /\ MaxWindow \in Nat

Windows == 0 .. MaxWindow

Time == [window : Int, tick : Int]

\* The expiry of a key that has none.
Never == [window |-> -1, tick |-> 0]

Stage == {"new", "keyed", "expiring", "counted", "admitted", "refused", "failed"}

VARIABLES
    window,   \* the clock
    tick,
    counter,  \* the count under each window's key (0: no key)
    expires,  \* when Redis drops the key
    stage,    \* where each call is
    bucket,   \* the window whose key a call uses
    arrived,  \* history: the window in which it read the clock
    at,       \* history: the window in which its INCR ran
    count     \* what its INCR returned (0: not run)

vars == <<window, tick, counter, expires, stage, bucket, arrived, at, count>>

Init ==
    /\ window = 0 /\ tick = 0
    /\ counter = [b \in Windows |-> 0]
    /\ expires = [b \in Windows |-> Never]
    /\ stage = [c \in Calls |-> "new"]
    /\ bucket = [c \in Calls |-> 0]
    /\ arrived = [c \in Calls |-> 0]
    /\ at = [c \in Calls |-> 0]
    /\ count = [c \in Calls |-> 0]

-----------------------------------------------------------------------------
\* The clock moves on by a tick, the last of a window into the next.
Tick ==
    /\ IF tick + 1 < Ticks
         THEN tick' = tick + 1 /\ UNCHANGED window
         ELSE tick' = 0 /\ window < MaxWindow /\ window' = window + 1
    /\ UNCHANGED <<counter, expires, stage, bucket, arrived, at, count>>

\* Mutant: the key does not name its window.
OneKey == 0

\* Mutant: time.time() / window_seconds is rounded up.
RoundedUp == window + 1

\* The window part of redis_key.
Bucket == window

\* A call reads the clock and makes its key.
ReadClock(c) ==
    /\ stage[c] = "new"
    /\ stage' = [stage EXCEPT ![c] = "keyed"]
    /\ bucket' = [bucket EXCEPT ![c] = Bucket]
    /\ arrived' = [arrived EXCEPT ![c] = window]
    /\ UNCHANGED <<window, tick, counter, expires, at, count>>

\* Redis drops a key when its time has come, before any command sees it.
Expired(b) ==
    /\ expires[b] # Never
    /\ \/ expires[b].window < window
       \/ expires[b].window = window /\ expires[b].tick <= tick

Current(b) == IF Expired(b) THEN 0 ELSE counter[b]

\* INCR: a key that is not there is made, without an expiry.
Incr(c) ==
    LET b == bucket[c] IN
    /\ stage[c] = "keyed"
    /\ counter' = [counter EXCEPT ![b] = Current(b) + 1]
    /\ count' = [count EXCEPT ![c] = Current(b) + 1]
    /\ at' = [at EXCEPT ![c] = window]
    /\ IF Current(b) = 0
         THEN /\ stage' = [stage EXCEPT ![c] = "expiring"]
              /\ expires' = [expires EXCEPT ![b] = Never]
         ELSE /\ stage' = [stage EXCEPT ![c] = "counted"]
              /\ UNCHANGED expires
    /\ UNCHANGED <<window, tick, bucket, arrived>>

\* Mutant: the key ends with the window of its first call.
ThisWindow == [window |-> window, tick |-> Ticks - 1]

\* window_seconds from now.
OneWindowLater == [window |-> window + 1, tick |-> tick]

\* EXPIRE, by the call whose INCR made the key.
SetExpiry(c) ==
    /\ stage[c] = "expiring"
    /\ expires' = [expires EXCEPT ![bucket[c]] = OneWindowLater]
    /\ stage' = [stage EXCEPT ![c] = "counted"]
    /\ UNCHANGED <<window, tick, counter, bucket, arrived, at, count>>

OverLimit(c) == count[c] > Limit

\* The call is refused with 429 or goes on to the endpoint.
Decide(c) ==
    /\ stage[c] = "counted"
    /\ stage' = [stage EXCEPT ![c] = IF OverLimit(c) THEN "refused" ELSE "admitted"]
    /\ UNCHANGED <<window, tick, counter, expires, bucket, arrived, at, count>>

\* Redis raises, its reply is lost or the process dies: the call ends with
\* what it has done so far.
Fail(c) ==
    /\ stage[c] \in {"keyed", "expiring", "counted"}
    /\ stage' = [stage EXCEPT ![c] = "failed"]
    /\ UNCHANGED <<window, tick, counter, expires, bucket, arrived, at, count>>

Next ==
    \/ Tick
    \/ \E c \in Calls :
           ReadClock(c) \/ Incr(c) \/ SetExpiry(c) \/ Decide(c) \/ Fail(c)

Spec == Init /\ [][Next]_vars
-----------------------------------------------------------------------------
TypeOK ==
    /\ window \in Windows
    /\ tick \in 0 .. Ticks - 1
    /\ counter \in [Windows -> Nat]
    /\ expires \in [Windows -> Time]
    /\ stage \in [Calls -> Stage]
    /\ bucket \in [Calls -> Windows]
    /\ arrived \in [Calls -> Windows]
    /\ at \in [Calls -> Windows]
    /\ count \in [Calls -> Nat]

\* Calls of window b that were counted while it lasted.
InTime(b) == {c \in Calls : count[c] > 0 /\ arrived[c] = b /\ at[c] = b}

\* No window admits more than Limit of the calls that are counted while it
\* lasts, whichever calls die between INCR and EXPIRE: a key never goes before
\* its window is over ("Raise 429 once more than limit calls land in the
\* current window").  A call whose INCR comes after that may find the key gone
\* and is admitted beyond the limit.
WindowHolds ==
    \A b \in Windows :
        Cardinality({c \in InTime(b) : stage[c] = "admitted"}) <= Limit

\* A call is refused only when more than Limit calls that arrived in its
\* window have been counted: a key that never expires, because its first call
\* died before EXPIRE, refuses nobody in a later window.
RefusedForCause ==
    \A c \in Calls : stage[c] = "refused" =>
        Cardinality({e \in Calls : count[e] > 0 /\ arrived[e] = arrived[c]}) > Limit
=============================================================================
