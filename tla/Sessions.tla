------------------------------ MODULE Sessions ------------------------------
(***************************************************************************)
(* One user's session: the web client of one browser tab, which exchanges  *)
(* its refresh token when a call comes back 401, and the auth endpoints    *)
(* that rotate and revoke the tokens.                                      *)
(*                                                                         *)
(* Tokens are issued in pairs, and a pair is named by its number.  The     *)
(* exchange of a refresh token reads the row and commits in two steps,     *)
(* with no lock between; what JavaScript runs without an await is one step.*)
(***************************************************************************)
EXTENDS Integers, FiniteSets, Sequences

CONSTANTS
    Fetches,    \* calls made through apiFetch
    Boots,      \* those of loadSession, which signs out when one fails
    Streams,    \* chat turns, through streamChatMessage
    MaxExpiries, \* bound: access tokens that expire
    MaxEvents   \* bound: sign-ins, replies lost, server errors, deactivations
                \* and refresh tokens that expire, together

Calls == Fetches \cup Streams

ASSUME SessionsAssumption ==
    /\ Boots \subseteq Fetches
    /\ Fetches \cap Streams = {}
    /\ IsFiniteSet(Calls)
    /\ MaxExpiries \in Nat
    /\ MaxEvents \in Nat

\* The number of no pair: nothing in localStorage.
Nothing == 0

\* A call waits on its own exchange ("asking") or on the one another call has
\* started ("joined", the shared refreshPromise).
Stage == {"idle", "sent", "denied", "asking", "joined", "resent", "ok", "failed"}

\* Where the exchange of an asking call is.
Exchange == {"none", "sent", "read", "granted", "refused", "lost"}

VARIABLES
    stage,      \* where each call is
    used,       \* the access token it was sent with
    exchange,   \* where the exchange it started is
    token,      \* the refresh token that exchange presents
    grant,      \* the pair the server granted it
    store,      \* the pair in localStorage
    issued,     \* pairs issued so far
    fresh,      \* pairs whose access token has not expired
    live,       \* pairs whose refresh token is not revoked
    lapsed,     \* pairs whose refresh token has expired
    chain,      \* the login each pair descends from
    presented,  \* the calls that presented each refresh token
    active,     \* the user is active
    logins,
    signedOut,  \* the user has signed out since the last login
    outlived,   \* an exchange was under way at the last login
    racing,     \* an exchange was under way at a sign-out since
    leaving,    \* refresh tokens on their way to POST /auth/logout
    faults

clientVars == <<stage, used, exchange, token, grant>>
serverVars == <<issued, fresh, live, lapsed, chain>>
userVars == <<logins, signedOut, outlived, racing, leaving>>
vars == <<stage, used, exchange, token, grant, store, issued, fresh, live, lapsed,
          chain, presented, active, logins, signedOut, outlived, racing, leaving,
          faults>>

Init ==
    /\ stage = [c \in Calls |-> "idle"]
    /\ used = [c \in Calls |-> Nothing]
    /\ exchange = [c \in Calls |-> "none"]
    /\ token = [c \in Calls |-> Nothing]
    /\ grant = [c \in Calls |-> Nothing]
    /\ store = Nothing
    /\ issued = 0
    /\ fresh = {}
    /\ live = {}
    /\ lapsed = {}
    /\ chain = <<>>
    /\ presented = <<>>
    /\ active = TRUE
    /\ logins = 0
    /\ signedOut = FALSE
    /\ outlived = FALSE
    /\ racing = FALSE
    /\ leaving = {}
    /\ faults = 0

-----------------------------------------------------------------------------
(* The auth endpoints                                                      *)

\* _issue_tokens: a fresh pair, of the given login, is committed.
Issue(login, revoked) ==
    /\ issued' = issued + 1
    /\ fresh' = fresh \cup {issued + 1}
    /\ live' = (live \cup {issued + 1}) \ revoked
    /\ chain' = Append(chain, login)
    /\ presented' = Append(presented, {})
    /\ UNCHANGED lapsed

Events == logins + faults + Cardinality(lapsed) + IF active THEN 0 ELSE 1

\* POST /auth/login, and the client keeps the pair.
Login ==
    /\ store = Nothing
    /\ active
    /\ Events < MaxEvents
    /\ logins' = logins + 1
    /\ Issue(logins + 1, {})
    /\ store' = issued + 1
    /\ signedOut' = FALSE
    /\ outlived' = \E c \in Calls : stage[c] = "asking"
    /\ racing' = FALSE
    /\ UNCHANGED <<clientVars, active, leaving, faults>>

\* The pairs whose refresh token can be exchanged.
Usable == IF active THEN live \ lapsed ELSE {}

\* POST /auth/refresh, the reads of the token and of its user: the token must
\* not be revoked or expired, and its user be active.
ReadToken(c) ==
    /\ exchange[c] = "sent"
    /\ exchange' = [exchange EXCEPT
         ![c] = IF token[c] \in Usable THEN "read" ELSE "refused"]
    /\ UNCHANGED <<stage, used, token, grant, store, serverVars, presented,
                   active, userVars, faults>>

\* Mutant: the transaction is not committed, and the pair is answered.
CommitNothing(c) ==
    /\ exchange[c] = "read"
    /\ exchange' = [exchange EXCEPT ![c] = "granted"]
    /\ grant' = [grant EXCEPT ![c] = issued + 1]
    /\ UNCHANGED <<stage, used, token, store, serverVars, presented, active,
                   userVars, faults>>

\* Mutant: all of the user's tokens are revoked, the fresh one too.
CommitRevokingAll(c) ==
    /\ exchange[c] = "read"
    /\ exchange' = [exchange EXCEPT ![c] = "granted"]
    /\ grant' = [grant EXCEPT ![c] = issued + 1]
    /\ Issue(chain[token[c]], live \cup {issued + 1})
    /\ UNCHANGED <<stage, used, token, store, active, userVars, faults>>

\* Mutant: the presented token is not revoked.
CommitKeepingOld(c) ==
    /\ exchange[c] = "read"
    /\ exchange' = [exchange EXCEPT ![c] = "granted"]
    /\ grant' = [grant EXCEPT ![c] = issued + 1]
    /\ Issue(chain[token[c]], {})
    /\ UNCHANGED <<stage, used, token, store, active, userVars, faults>>

\* Its commit: the presented token is revoked and a fresh pair issued.
CommitExchange(c) ==
    /\ exchange[c] = "read"
    /\ exchange' = [exchange EXCEPT ![c] = "granted"]
    /\ grant' = [grant EXCEPT ![c] = issued + 1]
    /\ Issue(chain[token[c]], {token[c]})
    /\ UNCHANGED <<stage, used, token, store, active, userVars, faults>>

\* Mutant: the revocation is not committed.
LogoutWithoutCommit(n) ==
    /\ n \in leaving
    /\ leaving' = leaving \ {n}
    /\ UNCHANGED <<clientVars, store, serverVars, presented, active, logins,
                   signedOut, outlived, racing, faults>>

\* POST /auth/logout.
RevokeOnLogout(n) ==
    /\ n \in leaving
    /\ leaving' = leaving \ {n}
    /\ live' = live \ {n}
    /\ UNCHANGED <<clientVars, store, issued, fresh, lapsed, chain, presented,
                   active, logins, signedOut, outlived, racing, faults>>

\* The pair was granted to a call that has not been answered since.
JustGranted(n) ==
    \E c \in Calls :
        \/ stage[c] = "asking" /\ grant[c] = n
        \/ stage[c] = "resent" /\ used[c] = n

\* An access token reaches the end of its time, which is long enough for the
\* call it was granted to.  Only a token that is still somewhere matters.
Expire(n) ==
    /\ n \in fresh
    /\ n = store \/ \E c \in Calls : used[c] = n
    /\ ~JustGranted(n)
    /\ Cardinality((1 .. issued) \ fresh) < MaxExpiries
    /\ fresh' = fresh \ {n}
    /\ UNCHANGED <<clientVars, store, issued, live, lapsed, chain, presented,
                   active, userVars, faults>>

\* A refresh token reaches the end of its time, long after the access token of
\* its pair.  Only one that is still good matters, and then in the store or in a
\* request.
Lapse(n) ==
    /\ n \in live \ (lapsed \cup fresh)
    /\ n = store \/ \E c \in Calls : exchange[c] = "sent" /\ token[c] = n
    /\ Events < MaxEvents
    /\ lapsed' = lapsed \cup {n}
    /\ UNCHANGED <<clientVars, store, issued, fresh, live, chain, presented,
                   active, userVars, faults>>

\* An administrator deactivates the user.
Deactivate ==
    /\ active
    /\ Events < MaxEvents
    /\ active' = FALSE
    /\ UNCHANGED <<clientVars, store, serverVars, presented, userVars, faults>>

\* get_principal admits a call, or answers 401.
Answer(c) ==
    /\ stage[c] \in {"sent", "resent"}
    /\ stage' = [stage EXCEPT ![c] =
         IF used[c] \in fresh /\ active THEN "ok"
         ELSE IF stage[c] = "sent" THEN "denied" ELSE "failed"]
    /\ store' = IF stage'[c] = "failed" /\ c \in Boots THEN Nothing ELSE store
    /\ used' = [used EXCEPT ![c] = Nothing]
    /\ UNCHANGED <<exchange, token, grant, serverVars, presented, active,
                   userVars, faults>>

-----------------------------------------------------------------------------
(* The client                                                              *)

\* A page makes a call.
Send(c) ==
    /\ stage[c] = "idle"
    /\ store # Nothing
    /\ stage' = [stage EXCEPT ![c] = "sent"]
    /\ used' = [used EXCEPT ![c] = store]
    /\ UNCHANGED <<exchange, token, grant, store, serverVars, presented, active,
                   userVars, faults>>

\* Calls end with an error; loadSession signs out when one of its own does.
Fail(cs) ==
    /\ stage' = [c \in Calls |-> IF c \in cs THEN "failed" ELSE stage[c]]
    /\ store' = IF cs \cap Boots # {} THEN Nothing ELSE store

\* Mutant: refreshPromise is not kept.
NoLeader == {}

\* The exchange that refreshPromise stands for, if there is one.
Leaders == {c \in Fetches : stage[c] = "asking"}

\* POST /auth/refresh with the token that is in the store.
StartExchange(c) ==
    /\ stage' = [stage EXCEPT ![c] = "asking"]
    /\ exchange' = [exchange EXCEPT ![c] = "sent"]
    /\ token' = [token EXCEPT ![c] = store]
    /\ presented' = [presented EXCEPT ![store] = @ \cup {c}]

\* apiFetch sees 401: it waits for the exchange that is under way, or starts
\* one, or has no refresh token and fails.
RefreshFetch(c) ==
    /\ c \in Fetches /\ stage[c] = "denied"
    /\ \/ /\ Leaders # {}
          /\ stage' = [stage EXCEPT ![c] = "joined"]
          /\ UNCHANGED <<exchange, token, store, presented>>
       \/ /\ Leaders = {} /\ store = Nothing
          /\ Fail({c})
          /\ UNCHANGED <<exchange, token, presented>>
       \/ /\ Leaders = {} /\ store # Nothing
          /\ StartExchange(c)
          /\ UNCHANGED store
    /\ UNCHANGED <<used, grant, serverVars, active, userVars, faults>>

\* streamChatMessage sees 401: it makes an exchange of its own.
RefreshStream(c) ==
    /\ c \in Streams /\ stage[c] = "denied"
    /\ \/ store = Nothing /\ Fail({c}) /\ UNCHANGED <<exchange, token, presented>>
       \/ store # Nothing /\ StartExchange(c) /\ UNCHANGED store
    /\ UNCHANGED <<used, grant, serverVars, active, userVars, faults>>

\* Mutant: an exchange resumes only the call that started it.
ResumedAlone(c) == {c}

\* The calls an exchange's end resumes: its own, and those that joined it.
Resumed(c) ==
    {c} \cup (IF c \in Fetches THEN {d \in Fetches : stage[d] = "joined"} ELSE {})

\* The exchange is over (finally: refreshPromise = null).
Forget(c) ==
    /\ exchange' = [exchange EXCEPT ![c] = "none"]
    /\ token' = [token EXCEPT ![c] = Nothing]
    /\ grant' = [grant EXCEPT ![c] = Nothing]

\* A granted exchange comes back: the pair is stored and the calls are sent
\* again with it.
Renew(c) ==
    /\ stage[c] = "asking" /\ exchange[c] = "granted"
    /\ store' = grant[c]
    /\ stage' = [d \in Calls |-> IF d \in Resumed(c) THEN "resent" ELSE stage[d]]
    /\ used' = [d \in Calls |-> IF d \in Resumed(c) THEN grant[c] ELSE used[d]]
    /\ Forget(c)
    /\ UNCHANGED <<serverVars, presented, active, userVars, faults>>

\* A refused exchange comes back to apiFetch: the session is over.
DropSession(c) ==
    /\ c \in Fetches
    /\ stage[c] = "asking" /\ exchange[c] = "refused"
    /\ stage' = [d \in Calls |-> IF d \in Resumed(c) THEN "failed" ELSE stage[d]]
    /\ store' = Nothing
    /\ Forget(c)
    /\ UNCHANGED <<used, serverVars, presented, active, userVars, faults>>

\* A refused exchange of a stream, or one whose reply never came: the calls
\* fail with what they had, and the store is left.
GiveUp(c) ==
    /\ stage[c] = "asking"
    /\ exchange[c] \in (IF c \in Streams THEN {"lost", "refused"} ELSE {"lost"})
    /\ Fail(Resumed(c))
    /\ Forget(c)
    /\ UNCHANGED <<used, serverVars, presented, active, userVars, faults>>

\* The user signs out: the store is emptied, and the server told.
Logout ==
    /\ store # Nothing
    /\ store' = Nothing
    /\ leaving' = leaving \cup {store}
    /\ signedOut' = TRUE
    /\ racing' = (racing \/ \E c \in Calls : stage[c] = "asking")
    /\ UNCHANGED <<clientVars, serverVars, presented, active, logins, outlived,
                   faults>>

\* The network or the server fails: the request or the reply of an exchange is
\* lost, an exchange is answered with another error than 401, a logout does
\* not arrive, a call has no answer.
Lose ==
    /\ Events < MaxEvents
    /\ faults' = faults + 1
    /\ \/ /\ \E c \in Calls :
               \/ exchange[c] \in {"sent", "granted"}
                  /\ exchange' = [exchange EXCEPT ![c] = "lost"]
               \/ exchange[c] = "sent"
                  /\ exchange' = [exchange EXCEPT ![c] = "refused"]
          /\ UNCHANGED <<stage, store, leaving>>
       \/ /\ \E n \in leaving : leaving' = leaving \ {n}
          /\ UNCHANGED <<stage, store, exchange>>
       \/ /\ \E c \in Calls : stage[c] \in {"sent", "resent"} /\ Fail({c})
          /\ UNCHANGED <<exchange, leaving>>
    /\ UNCHANGED <<used, token, grant, serverVars, presented, active, logins,
                   signedOut, outlived, racing>>

-----------------------------------------------------------------------------
Server(c) == ReadToken(c) \/ CommitExchange(c) \/ Answer(c)

Client(c) ==
    \/ RefreshFetch(c)
    \/ RefreshStream(c)
    \/ Renew(c)
    \/ DropSession(c)
    \/ GiveUp(c)

Next ==
    \/ Login \/ Logout \/ Deactivate \/ Lose
    \/ \E c \in Calls : Send(c) \/ Server(c) \/ Client(c)
    \/ \E n \in 1 .. issued : Expire(n) \/ Lapse(n) \/ RevokeOnLogout(n)

Spec == Init /\ [][Next]_vars

\* A request that was sent is answered, and the client handles the answer.
FairSpec == Spec /\ \A c \in Calls : WF_vars(Server(c) \/ Client(c))

-----------------------------------------------------------------------------
(* Properties                                                              *)

TypeOK ==
    /\ stage \in [Calls -> Stage]
    /\ used \in [Calls -> 0 .. issued]
    /\ exchange \in [Calls -> Exchange]
    /\ token \in [Calls -> 0 .. issued]
    /\ grant \in [Calls -> 0 .. issued]
    /\ store \in 0 .. issued
    /\ issued \in Nat
    /\ fresh \subseteq 1 .. issued
    /\ live \subseteq 1 .. issued
    /\ lapsed \subseteq 1 .. issued
    /\ chain \in [1 .. issued -> Nat]
    /\ presented \in [1 .. issued -> SUBSET Calls]
    /\ active \in BOOLEAN
    /\ logins \in 0 .. MaxEvents
    /\ signedOut \in BOOLEAN
    /\ outlived \in BOOLEAN
    /\ racing \in BOOLEAN
    /\ leaving \subseteq 1 .. issued
    /\ faults \in 0 .. MaxEvents

\* Some refresh token of the login was presented by two calls.
PresentedTwice(login) ==
    \E n \in 1 .. issued : chain[n] = login /\ Cardinality(presented[n]) > 1

\* The client does not sign its user out by itself.  When the tokens are gone,
\* the user signed out or was deactivated, something failed, an exchange of the
\* login before ended in this one, or a token of this login itself has expired
\* or was presented twice: what happened to earlier logins is no cause.
SignedOutForCause ==
    store = Nothing /\ logins > 0 =>
        \/ signedOut \/ ~active \/ faults > 0 \/ outlived
        \/ \E n \in lapsed : chain[n] = logins
        \/ PresentedTwice(logins)

\* Calls of the fetch client that come back 401 together share one exchange:
\* they never present a refresh token twice, unless a reply was lost.
FetchesShareExchange ==
    faults = 0 => \A n \in 1 .. issued : Cardinality(presented[n] \cap Fetches) <= 1

\* A refresh token is exchanged once, whatever calls are under way: "Refreshes
\* the access token exactly once even if several requests 401 concurrently"
\* (client.ts).
ExchangedOnce == \A n \in 1 .. issued : Cardinality(presented[n]) <= 1

\* Rotation leaves one unrevoked refresh token for each login: there are two
\* only if two exchanges of one token of that very login overlapped.
RotationKeepsOne ==
    \A m, n \in live :
        chain[m] = chain[n] => m = n \/ PresentedTwice(chain[m])

\* Once the server has processed a sign-out, a refresh token of that login can
\* be used only if an exchange was under way at the sign-out, and then it is
\* the one pair the client still holds or is about to be given, so that the
\* next sign-out reaches it.  This holds while nothing failed, no exchange of
\* the login before ended in this one, and no token of it was presented twice.
LogoutRevokes ==
    signedOut /\ leaving = {} /\ faults = 0 /\ ~outlived /\ ~PresentedTwice(logins) =>
        \A n \in Usable : chain[n] = logins =>
            /\ racing
            /\ n = store \/ \E c \in Calls : exchange[c] = "granted" /\ grant[c] = n

\* Every call comes to an end: none waits forever on an exchange another call
\* started, whatever becomes of it.  (A call is made once, so in the end none
\* is under way.)
CallsEnd == <>[](\A c \in Calls : stage[c] \in {"idle", "ok", "failed"})
=============================================================================
