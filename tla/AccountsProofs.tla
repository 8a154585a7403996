--------------------------- MODULE AccountsProofs ---------------------------
(***************************************************************************)
(* Proofs about Accounts, for any number of addresses, accounts, users and *)
(* concurrent requests.  AccountsInv ties what a request has read to the   *)
(* tables: a row may be changed or gone by the commit, but it is never     *)
(* another user's row, nor one of another organization.                    *)
(***************************************************************************)
EXTENDS Accounts, TLAPS

\* Ids not given out have no row.
Numbered == \A i \in Ids : i >= nextUser => users[i] = None

\* What a request has read of user i is still true, if i is still there.
Knows(i, o) == i \in Ids /\ i < nextUser /\ (Present(i) => users[i].org = o)

ReadsHold ==
    \A s \in Slots :
        /\ req[s].op \in {"resolved", "checked", "loaded"} =>
              req[s].org \in Ids /\ Knows(req[s].actor, req[s].org)
        /\ req[s].op \in {"checked", "loaded"} => req[s].old # None
        /\ req[s].op = "loaded" => Knows(req[s].target, req[s].org)
        /\ req[s].op = "link" =>
              /\ req[s].account \in Accounts
              /\ req[s].target \in Ids /\ req[s].target < nextUser
              /\ Present(req[s].target) =>
                    users[req[s].target].email = EmailOf[req[s].account]
        /\ req[s].op = "provision" =>
              /\ req[s].account \in Accounts
              /\ req[s].email = EmailOf[req[s].account]
        /\ req[s].op = "signup" => req[s].email \in Emails

AccountsInv ==
    /\ TypeOK
    /\ Numbered
    /\ ReadsHold
    /\ OrgKeepsAdmin
    /\ EmailsUnique
    /\ LinksIdentify
    /\ KeysActForMembers

LEMMA AccountsInvInit == Init => AccountsInv
BY AccountsAssumption
   DEF Init, AccountsInv, TypeOK, Numbered, ReadsHold, OrgKeepsAdmin, EmailsUnique,
       LinksIdentify, KeysActForMembers, Ids, KeyIds, Idle, Asking, Request, Present

-----------------------------------------------------------------------------
(* The rows of requests that the steps make.                               *)

LEMMA RequestTypes ==
    /\ Idle \in Request
    /\ \A e \in Emails : Asking("signup", e, None, 0) \in Request
    /\ \A a \in Accounts, i \in Ids : Asking("link", None, a, i) \in Request
    /\ \A a \in Accounts, e \in Emails : Asking("provision", e, a, 0) \in Request
    /\ \A i, o \in Ids : Acting("resolved", i, o, 0, None) \in Request
    /\ \A i, o \in Ids, u \in User : Acting("checked", i, o, 0, u) \in Request
    /\ \A i, o, t \in Ids, u \in User \cup {None} :
         Acting("loaded", i, o, t, u) \in Request
BY DEF Idle, Request, Asking, Acting

LEMMA WrittenType ==
    ASSUME TypeOK, NEW q \in Request, NEW c \in UserUpdate,
           q.target \in Ids, Present(q.target)
    PROVE  Written(q, c) \in User
<1>1. users[q.target] \in User
  BY DEF TypeOK, Present
<1>2. PICK r \in Roles : r = IF c.role \in {"keep", q.old.role}
                              THEN users[q.target].role ELSE c.role
  BY <1>1 DEF UserUpdate, User
<1>3. PICK a \in {"yes", "no"} : a = IF c.active \in {"keep", q.old.active}
                                     THEN users[q.target].active ELSE c.active
  BY <1>1 DEF UserUpdate, User
<1>4. Written(q, c) = [email |-> users[q.target].email, org |-> users[q.target].org,
                       role |-> r, active |-> a]
  BY <1>2, <1>3 DEF Written
<1> QED
  BY <1>1, <1>4 DEF User

LEMMA TypeStep == ASSUME TypeOK, ReadsHold, [Next]_vars PROVE TypeOK'
<1> USE AccountsAssumption
<1>1. CASE UNCHANGED vars
  BY <1>1 DEF TypeOK, vars
<1>2. ASSUME NEW s \in Slots, SignUp(s) PROVE TypeOK'
  <2>1. PICK e \in Emails : Read(s, Asking("signup", e, None, 0))
    BY <1>2 DEF SignUp
  <2> QED
    BY <2>1, RequestTypes DEF TypeOK, Read, Become
<1>3. ASSUME NEW s \in Slots, CommitSignUp(s) PROVE TypeOK'
  <2>1. req[s].email \in Emails
    BY <1>3 DEF ReadsHold, CommitSignUp
  <2>2. [email |-> req[s].email, org |-> nextUser, role |-> "admin", active |-> "yes"] \in User
    BY <1>3, <2>1 DEF User, CommitSignUp, Insert
  <2> QED
    BY <1>3, <2>2, RequestTypes DEF TypeOK, CommitSignUp, Insert, Become
<1>4. ASSUME NEW s \in Slots, FindOwner(s) PROVE TypeOK'
  <2>1. PICK a \in Accounts, i \in Ids : Read(s, Asking("link", None, a, i))
    BY <1>4 DEF FindOwner
  <2> QED
    BY <2>1, RequestTypes DEF TypeOK, Read, Become
<1>5. ASSUME NEW s \in Slots, CommitLink(s) PROVE TypeOK'
  <2>1. [account |-> req[s].account, user |-> req[s].target] \in Link
    BY <1>5 DEF ReadsHold, CommitLink, Link
  <2> QED
    BY <1>5, <2>1, RequestTypes DEF TypeOK, CommitLink, Become
<1>6. ASSUME NEW s \in Slots, FindNobody(s) PROVE TypeOK'
  <2>1. PICK a \in Accounts : Read(s, Asking("provision", EmailOf[a], a, 0))
    BY <1>6 DEF FindNobody
  <2> QED
    BY <2>1, RequestTypes DEF TypeOK, Read, Become
<1>7. ASSUME NEW s \in Slots, CommitProvision(s) PROVE TypeOK'
  <2>1. req[s].email \in Emails /\ req[s].account \in Accounts
    BY <1>7 DEF ReadsHold, CommitProvision
  <2>2. [email |-> req[s].email, org |-> nextUser, role |-> "admin", active |-> "yes"] \in User
    BY <1>7, <2>1 DEF User, CommitProvision, Insert
  <2>3. [account |-> req[s].account, user |-> nextUser] \in Link
    BY <1>7, <2>1 DEF Link, CommitProvision, Insert
  <2> QED
    BY <1>7, <2>2, <2>3, RequestTypes DEF TypeOK, CommitProvision, Insert, Become
<1>8. ASSUME NEW s \in Slots, NEW i \in Ids, Present(i), Read(s, Checked(i)) PROVE TypeOK'
  <2>1. users[i] \in User /\ users[i].org \in Ids
    BY <1>8 DEF TypeOK, Present, User
  <2> QED
    BY <1>8, <2>1, RequestTypes DEF TypeOK, Read, Become, Checked
<1>9. ASSUME NEW s \in Slots, ResolveKey(s) PROVE TypeOK'
  <2>1. PICK k \in KeyIds : /\ keys[k] # None /\ Active(keys[k].creator)
                            /\ Read(s, Acting("resolved", keys[k].creator, keys[k].org, 0, None))
    BY <1>9 DEF ResolveKey
  <2>2. keys[k].creator \in Ids /\ keys[k].org \in Ids
    BY <2>1 DEF TypeOK, Key, Active, Present
  <2> QED
    BY <2>1, <2>2, RequestTypes DEF TypeOK, Read, Become
<1>10. ASSUME NEW s \in Slots, ByKey(s) PROVE TypeOK'
  BY <1>8, <1>10 DEF ByKey, Admitted, ActiveAdmin, Active, Present
<1>11. ASSUME NEW s \in Slots, CreateUser(s) PROVE TypeOK'
  <2>1. PICK e \in Emails, r \in Roles : Insert(e, req[s].org, r)
    BY <1>11 DEF CreateUser
  <2>2. [email |-> e, org |-> req[s].org, role |-> r, active |-> "yes"] \in User
    BY <1>11 DEF User, CreateUser, ReadsHold
  <2> QED
    BY <1>11, <2>1, <2>2, RequestTypes DEF TypeOK, CreateUser, Insert, Become
<1>12. ASSUME NEW s \in Slots, LoadUser(s) PROVE TypeOK'
  <2>1. PICK i \in Ids : Read(s, Acting("loaded", req[s].actor, req[s].org, i,
                           IF i = req[s].actor THEN req[s].old ELSE users[i]))
    BY <1>12 DEF LoadUser
  <2>2. PICK u \in User \cup {None} : u = IF i = req[s].actor THEN req[s].old ELSE users[i]
    BY DEF TypeOK, Request
  <2>3. req[s].actor \in Ids /\ req[s].org \in Ids
    BY <1>12 DEF LoadUser, ReadsHold, Knows
  <2> QED
    BY <2>1, <2>2, <2>3, RequestTypes DEF TypeOK, Read, Become
<1>13. ASSUME NEW s \in Slots, PatchUser(s) PROVE TypeOK'
  <2>1. PICK c \in UserUpdate :
          /\ Present(req[s].target)
          /\ users' = [users EXCEPT ![req[s].target] = Written(req[s], c)]
    BY <1>13 DEF PatchUser
  <2>2. Written(req[s], c) \in User
    BY <2>1, WrittenType DEF TypeOK, Present
  <2>3. lapsed' \subseteq Ids
    BY <1>13 DEF PatchUser, Lapse, TypeOK, ReadsHold
  <2> QED
    BY <1>13, <2>1, <2>2, <2>3, RequestTypes DEF TypeOK, PatchUser, Become
<1>14. ASSUME NEW s \in Slots, DeleteUser(s) PROVE TypeOK'
  <2>1. lapsed' \subseteq Ids
    BY <1>14 DEF DeleteUser, Lapse, TypeOK, ReadsHold
  <2>2. keys' \in [KeyIds -> Key \cup {None}]
    <3>1. ASSUME NEW k \in KeyIds, keys[k] \in Key
          PROVE  [keys[k] EXCEPT !.creator = 0] \in Key
      BY <3>1 DEF Key
    <3> QED
      BY <1>14, <3>1 DEF DeleteUser, Detach, TypeOK
  <2> QED
    BY <1>14, <2>1, <2>2, RequestTypes DEF TypeOK, DeleteUser, Become
<1>15. ASSUME NEW s \in Slots, CreateKey(s) PROVE TypeOK'
  <2>1. [org |-> req[s].org, creator |-> req[s].actor, live |-> TRUE] \in Key
    BY <1>15 DEF CreateKey, ReadsHold, Knows, Key
  <2> QED
    BY <1>15, <2>1, RequestTypes DEF TypeOK, CreateKey, Become
<1>16. ASSUME NEW s \in Slots, RevokeKey(s) PROVE TypeOK'
  <2>1. PICK k \in KeyIds : keys[k] # None /\ keys' = [keys EXCEPT ![k].live = FALSE]
    BY <1>16 DEF RevokeKey
  <2>2. [keys[k] EXCEPT !.live = FALSE] \in Key
    BY <2>1 DEF TypeOK, Key
  <2> QED
    BY <1>16, <2>1, <2>2, RequestTypes DEF TypeOK, RevokeKey, Become
<1>17. ASSUME NEW s \in Slots, Finish(s) PROVE TypeOK'
  BY <1>17, RequestTypes DEF TypeOK, Finish, Read, Become
<1> QED
  BY <1>1, <1>2, <1>3, <1>4, <1>5, <1>6, <1>7, <1>8, <1>9, <1>10, <1>11, <1>12, <1>13,
     <1>14, <1>15, <1>16, <1>17 DEF Next, ByToken

-----------------------------------------------------------------------------
(* What a step may do to the table of users.                               *)

\* Either no row changes, or a row is inserted under the next id with a free
\* address, or one row is written with its address and organization kept, or
\* one row is removed.
Inserts(e, o, r) ==
    /\ e \in Emails /\ o \in Ids /\ r \in Roles
    /\ EmailFree(e) /\ Insert(e, o, r)

Writes(q, c) ==
    /\ q.target \in Ids /\ Present(q.target)
    /\ users' = [users EXCEPT ![q.target] = Written(q, c)]
    /\ nextUser' = nextUser

Removes(i) ==
    /\ i \in Ids
    /\ users' = [users EXCEPT ![i] = None]
    /\ nextUser' = nextUser

LEMMA WrittenKeeps ==
    \A q, c : /\ Written(q, c).email = users[q.target].email
              /\ Written(q, c).org = users[q.target].org
BY DEF Written

LEMMA UserSteps ==
    ASSUME TypeOK, ReadsHold, [Next]_vars
    PROVE  \/ UNCHANGED <<users, nextUser>>
           \/ \E e \in Emails, o \in Ids, r \in Roles : Inserts(e, o, r)
           \/ \E s \in Slots, c \in UserUpdate : Writes(req[s], c)
           \/ \E i \in Ids : Removes(i)
<1> USE AccountsAssumption
<1>1. CASE UNCHANGED vars
  BY <1>1 DEF vars
<1>2. ASSUME NEW s \in Slots, SignUp(s) \/ FindOwner(s) \/ FindNobody(s) \/ ByToken(s)
                              \/ ResolveKey(s) \/ ByKey(s) \/ LoadUser(s) \/ Finish(s)
      PROVE  UNCHANGED <<users, nextUser>>
  BY <1>2 DEF SignUp, FindOwner, FindNobody, ByToken, ResolveKey, ByKey, LoadUser, Finish, Read
<1>3. ASSUME NEW s \in Slots, CommitLink(s) \/ CreateKey(s) \/ RevokeKey(s)
      PROVE  UNCHANGED <<users, nextUser>>
  BY <1>3 DEF CommitLink, CreateKey, RevokeKey
<1>4. ASSUME NEW s \in Slots, CommitSignUp(s)
      PROVE  Inserts(req[s].email, nextUser, "admin")
  BY <1>4 DEF CommitSignUp, Inserts, Insert, ReadsHold
<1>5. ASSUME NEW s \in Slots, CommitProvision(s)
      PROVE  Inserts(req[s].email, nextUser, "admin")
  BY <1>5 DEF CommitProvision, Inserts, Insert, ReadsHold
<1>6. ASSUME NEW s \in Slots, CreateUser(s)
      PROVE  \E e \in Emails, r \in Roles : Inserts(e, req[s].org, r) /\ req[s].org \in Ids
  BY <1>6 DEF CreateUser, Inserts, ReadsHold
<1>7. ASSUME NEW s \in Slots, PatchUser(s)
      PROVE  \E c \in UserUpdate : Writes(req[s], c)
  BY <1>7 DEF PatchUser, Writes, Present
<1>8. ASSUME NEW s \in Slots, DeleteUser(s)
      PROVE  Removes(req[s].target) /\ req[s].target \in Ids
  BY <1>8 DEF DeleteUser, Removes, ReadsHold, Knows
<1> QED
  BY <1>1, <1>2, <1>3, <1>4, <1>5, <1>6, <1>7, <1>8 DEF Next, Inserts

\* Rows keep their address and organization, and ids given out are not reused.
RowsKeep ==
    /\ nextUser' >= nextUser
    /\ \A i \in Ids : i < nextUser /\ Present(i)' =>
          /\ Present(i)
          /\ users'[i].email = users[i].email
          /\ users'[i].org = users[i].org

LEMMA RowsKeepStep ==
    ASSUME TypeOK, ReadsHold, Numbered, EmailsUnique, [Next]_vars
    PROVE  RowsKeep /\ Numbered' /\ EmailsUnique'
<1> USE AccountsAssumption
<1>1. CASE UNCHANGED <<users, nextUser>>
  BY <1>1 DEF TypeOK, Present, RowsKeep, Numbered, EmailsUnique
<1>2. ASSUME NEW e \in Emails, NEW o \in Ids, NEW r \in Roles, Inserts(e, o, r)
      PROVE  RowsKeep /\ Numbered' /\ EmailsUnique'
  <2>1. RowsKeep /\ Numbered'
    BY <1>2 DEF Inserts, Insert, TypeOK, Present, RowsKeep, Numbered, Ids
  <2>2. \A i \in Ids : Present(i)' => i = nextUser \/ (Present(i) /\ users'[i] = users[i])
    BY <1>2 DEF Inserts, Insert, TypeOK, Present
  <2>3. users'[nextUser].email = e
    BY <1>2 DEF Inserts, Insert, TypeOK
  <2>4. EmailsUnique'
    BY <1>2, <2>2, <2>3 DEF Inserts, EmailFree, Registered, EmailsUnique
  <2> QED
    BY <2>1, <2>4
<1>3. ASSUME NEW s \in Slots, NEW c \in UserUpdate, Writes(req[s], c)
      PROVE  RowsKeep /\ Numbered' /\ EmailsUnique'
  <2>1. \A i \in Ids : Present(i)' => /\ Present(i)
                                      /\ users'[i].email = users[i].email
                                      /\ users'[i].org = users[i].org
    BY <1>3, WrittenKeeps DEF Writes, TypeOK, Present
  <2>2. nextUser' = nextUser /\ nextUser \in Nat
    BY <1>3 DEF Writes, TypeOK
  <2> QED
    BY <2>1, <2>2 DEF RowsKeep, Numbered, EmailsUnique, Present, Ids
<1>4. ASSUME NEW i \in Ids, Removes(i)
      PROVE  RowsKeep /\ Numbered' /\ EmailsUnique'
  <2>1. \A j \in Ids : Present(j)' => Present(j) /\ users'[j] = users[j]
    BY <1>4 DEF Removes, TypeOK, Present
  <2>2. nextUser' = nextUser /\ nextUser \in Nat
    BY <1>4 DEF Removes, TypeOK
  <2> QED
    BY <2>1, <2>2 DEF RowsKeep, Numbered, EmailsUnique, Present, Ids
<1> QED
  BY <1>1, <1>2, <1>3, <1>4, UserSteps

-----------------------------------------------------------------------------
(* What the requests have read.                                            *)

\* One slot's part of ReadsHold.
Holds(q) ==
    /\ q.op \in {"resolved", "checked", "loaded"} => q.org \in Ids /\ Knows(q.actor, q.org)
    /\ q.op \in {"checked", "loaded"} => q.old # None
    /\ q.op = "loaded" => Knows(q.target, q.org)
    /\ q.op = "link" =>
          /\ q.account \in Accounts
          /\ q.target \in Ids /\ q.target < nextUser
          /\ Present(q.target) => users[q.target].email = EmailOf[q.account]
    /\ q.op = "provision" => q.account \in Accounts /\ q.email = EmailOf[q.account]
    /\ q.op = "signup" => q.email \in Emails

LEMMA ReadsHoldParts == ReadsHold <=> \A s \in Slots : Holds(req[s])
BY DEF ReadsHold, Holds

LEMMA HoldsKept ==
    ASSUME TypeOK, TypeOK', RowsKeep, NEW q \in Request, Holds(q) PROVE Holds(q)'
BY DEF TypeOK, RowsKeep, Holds, Knows, Present, Ids

LEMMA PresentNumbered ==
    ASSUME TypeOK, Numbered, NEW i \in Ids, Present(i) PROVE i < nextUser
BY DEF TypeOK, Numbered, Present, Ids

\* What a step leaves in a slot was there, or holds of the tables it has read.
LEMMA RequestSteps ==
    ASSUME AccountsInv, [Next]_vars, NEW t \in Slots
    PROVE  \E q \in Request : req'[t] = q /\ Holds(q)
<1> USE AccountsAssumption
<1> USE DEF AccountsInv
<1>1. Holds(req[t]) /\ req[t] \in Request
  BY ReadsHoldParts DEF TypeOK
<1>2. Holds(Idle) /\ Idle \in Request
  BY RequestTypes DEF Holds, Idle, Asking
<1>3. ASSUME NEW s \in Slots, NEW q \in Request, Become(s, q), Holds(q)
      PROVE  \E r \in Request : req'[t] = r /\ Holds(r)
  BY <1>1, <1>3 DEF Become, TypeOK
<1>4. CASE UNCHANGED vars
  BY <1>1, <1>4 DEF vars
<1>5. ASSUME NEW s \in Slots, Become(s, Idle)
      PROVE  \E r \in Request : req'[t] = r /\ Holds(r)
  BY <1>2, <1>3, <1>5
<1>6. ASSUME NEW s \in Slots, SignUp(s)
      PROVE  \E r \in Request : req'[t] = r /\ Holds(r)
  <2>1. PICK e \in Emails : Become(s, Asking("signup", e, None, 0))
    BY <1>6 DEF SignUp, Read
  <2>2. Holds(Asking("signup", e, None, 0))
    BY DEF Holds, Asking
  <2> QED
    BY <1>3, <2>1, <2>2, RequestTypes
<1>7. ASSUME NEW s \in Slots, FindOwner(s)
      PROVE  \E r \in Request : req'[t] = r /\ Holds(r)
  <2>1. PICK a \in Accounts, i \in Ids :
          /\ Present(i) /\ users[i].email = EmailOf[a]
          /\ Become(s, Asking("link", None, a, i))
    BY <1>7 DEF FindOwner, Read
  <2>2. Holds(Asking("link", None, a, i))
    BY <2>1, PresentNumbered DEF Holds, Asking
  <2> QED
    BY <1>3, <2>1, <2>2, RequestTypes
<1>8. ASSUME NEW s \in Slots, FindNobody(s)
      PROVE  \E r \in Request : req'[t] = r /\ Holds(r)
  <2>1. PICK a \in Accounts : Become(s, Asking("provision", EmailOf[a], a, 0))
    BY <1>8 DEF FindNobody, Read
  <2>2. Holds(Asking("provision", EmailOf[a], a, 0))
    BY DEF Holds, Asking
  <2> QED
    BY <1>3, <2>1, <2>2, RequestTypes
<1>9. ASSUME NEW s \in Slots, NEW i \in Ids, Present(i), Become(s, Checked(i))
      PROVE  \E r \in Request : req'[t] = r /\ Holds(r)
  <2>1. users[i] \in User /\ users[i] # None /\ users[i].org \in Ids
    BY <1>9 DEF TypeOK, Present, User
  <2>2. Holds(Checked(i))
    BY <1>9, <2>1, PresentNumbered DEF Holds, Checked, Acting, Knows
  <2>3. Checked(i) \in Request
    BY <2>1, RequestTypes DEF Checked
  <2> QED
    BY <1>3, <1>9, <2>2, <2>3
<1>10. ASSUME NEW s \in Slots, ResolveKey(s)
       PROVE  \E r \in Request : req'[t] = r /\ Holds(r)
  <2>1. PICK k \in KeyIds : /\ keys[k] # None /\ Active(keys[k].creator)
                            /\ Become(s, Acting("resolved", keys[k].creator, keys[k].org, 0, None))
    BY <1>10 DEF ResolveKey, Read
  <2>2. keys[k].creator \in Ids /\ keys[k].org \in Ids
    BY <2>1 DEF TypeOK, Key, Active, Present
  <2>3. Knows(keys[k].creator, keys[k].org)
    <3>1. Present(keys[k].creator) /\ keys[k].creator < nextUser
      BY <2>1, <2>2, PresentNumbered DEF Active
    <3>2. keys[k].creator # 0
      BY <2>2 DEF Ids
    <3> QED
      BY <2>1, <2>2, <3>1, <3>2 DEF Knows, KeysActForMembers
  <2>4. Holds(Acting("resolved", keys[k].creator, keys[k].org, 0, None))
    BY <2>2, <2>3 DEF Holds, Acting
  <2> QED
    BY <1>3, <2>1, <2>2, <2>4, RequestTypes
<1>11. ASSUME NEW s \in Slots, LoadUser(s)
       PROVE  \E r \in Request : req'[t] = r /\ Holds(r)
  <2>1. PICK i \in Ids :
          /\ Present(i) /\ users[i].org = req[s].org
          /\ Become(s, Acting("loaded", req[s].actor, req[s].org, i,
                              IF i = req[s].actor THEN req[s].old ELSE users[i]))
    BY <1>11 DEF LoadUser, Read
  <2>2. Holds(req[s]) /\ req[s].op = "checked"
    BY <1>11, ReadsHoldParts DEF LoadUser
  <2>3. PICK u \in User : u = IF i = req[s].actor THEN req[s].old ELSE users[i]
    BY <2>1, <2>2 DEF TypeOK, Request, Holds, Present
  <2>4. u # None
    OBVIOUS
  <2>5. req[s].actor \in Ids /\ req[s].org \in Ids /\ Knows(req[s].actor, req[s].org)
    BY <2>2 DEF Holds, Knows
  <2>6. Holds(Acting("loaded", req[s].actor, req[s].org, i, u))
    BY <2>1, <2>4, <2>5, PresentNumbered DEF Holds, Acting, Knows
  <2> QED
    BY <1>3, <2>1, <2>3, <2>5, <2>6, RequestTypes
<1> QED
  BY <1>4, <1>5, <1>6, <1>7, <1>8, <1>9, <1>10, <1>11
     DEF Next, CommitSignUp, CommitLink, CommitProvision, ByToken, ByKey, Admitted,
         ActiveAdmin, Active, Present, CreateUser, PatchUser, DeleteUser, CreateKey,
         RevokeKey, Finish, Read

LEMMA ReadsHoldStep ==
    ASSUME AccountsInv, TypeOK', RowsKeep, [Next]_vars PROVE ReadsHold'
<1> SUFFICES ASSUME NEW t \in Slots PROVE Holds(req[t])'
  BY DEF ReadsHold, Holds
<1>1. PICK q \in Request : req'[t] = q /\ Holds(q)
  BY RequestSteps
<1>2. Holds(q)'
  BY <1>1, HoldsKept DEF AccountsInv
<1> QED
  BY <1>1, <1>2 DEF Holds

-----------------------------------------------------------------------------
(* Every organization keeps an admin.                                      *)

\* An active admin of o survives an insert.
LEMMA InsertKeepsAdmin ==
    ASSUME TypeOK, Numbered, NEW e \in Emails, NEW g \in Ids, NEW r \in Roles,
           Insert(e, g, r), NEW i \in Ids, ActiveAdmin(i)
    PROVE  ActiveAdmin(i)' /\ users'[i].org = users[i].org
<1>1. i # nextUser
  BY DEF ActiveAdmin, Active, Present, Numbered, TypeOK, Ids
<1> QED
  BY <1>1 DEF Insert, TypeOK, ActiveAdmin, Active, Present

\* A founding admin is one of the organization it founds.
LEMMA FounderIsAdmin ==
    ASSUME TypeOK, NEW e \in Emails, Insert(e, nextUser, "admin"), NEW n, n = nextUser
    PROVE  n \in Ids /\ ActiveAdmin(n)' /\ users'[n].org = n
<1>1. n \in Ids
  BY DEF Insert
<1>2. users'[n] = [email |-> e, org |-> n, role |-> "admin", active |-> "yes"]
  BY <1>1 DEF Insert, TypeOK
<1>3. users'[n] \in User
  BY <1>1, <1>2, AccountsAssumption DEF User
<1>4. users'[n] # None
  BY <1>3, AccountsAssumption
<1> QED
  BY <1>1, <1>2, <1>4 DEF ActiveAdmin, Active, Present

LEMMA OrgKeepsAdminStep ==
    ASSUME AccountsInv, [Next]_vars PROVE OrgKeepsAdmin'
<1> USE AccountsAssumption
<1> USE DEF AccountsInv
<1> SUFFICES ASSUME NEW o \in orgs', o \notin lapsed'
             PROVE  \E i \in Ids : ActiveAdmin(i)' /\ users'[i].org = o
  BY DEF OrgKeepsAdmin
<1>1. ASSUME UNCHANGED <<users, orgs, lapsed>>
      PROVE  \E i \in Ids : ActiveAdmin(i)' /\ users'[i].org = o
  BY <1>1 DEF OrgKeepsAdmin, ActiveAdmin, Active, Present
<1>2. ASSUME NEW s \in Slots, CommitSignUp(s) \/ CommitProvision(s)
      PROVE  \E i \in Ids : ActiveAdmin(i)' /\ users'[i].org = o
  <2>1. req[s].email \in Emails /\ Insert(req[s].email, nextUser, "admin")
    BY <1>2 DEF CommitSignUp, CommitProvision, ReadsHold
  <2>2. CASE o = nextUser
    <3>1. o \in Ids /\ ActiveAdmin(o)' /\ users'[o].org = o
      BY <2>1, <2>2, FounderIsAdmin
    <3> QED
      BY <3>1
  <2>3. CASE o # nextUser
    <3>1. PICK i \in Ids : ActiveAdmin(i) /\ users[i].org = o
      BY <1>2, <2>3 DEF OrgKeepsAdmin, CommitSignUp, CommitProvision
    <3>2. nextUser \in Ids
      BY <2>1 DEF Insert
    <3> QED
      BY <2>1, <3>1, <3>2, InsertKeepsAdmin
  <2> QED
    BY <2>2, <2>3
<1>3. ASSUME NEW s \in Slots, CreateUser(s)
      PROVE  \E i \in Ids : ActiveAdmin(i)' /\ users'[i].org = o
  <2>1. PICK e \in Emails, r \in Roles : Insert(e, req[s].org, r)
    BY <1>3 DEF CreateUser
  <2>2. req[s].org \in Ids
    BY <1>3 DEF CreateUser, ReadsHold
  <2>3. PICK i \in Ids : ActiveAdmin(i) /\ users[i].org = o
    BY <1>3 DEF OrgKeepsAdmin, CreateUser
  <2> QED
    BY <2>1, <2>2, <2>3, InsertKeepsAdmin
<1>4. ASSUME NEW s \in Slots, NEW a, NEW t, a = req[s].actor, t = req[s].target,
             req[s].op = "loaded", orgs' = orgs, lapsed' = Lapse(req[s]),
             \A i \in Ids : i # t => users'[i] = users[i],
             ActiveAdmin(a) /\ t = a => ActiveAdmin(a)',
             RowsKeep
      PROVE  \E i \in Ids : ActiveAdmin(i)' /\ users'[i].org = o
  <2>1. PICK i \in Ids : ActiveAdmin(i) /\ users[i].org = o
    BY <1>4 DEF OrgKeepsAdmin, Lapse
  <2>2. Knows(a, req[s].org) /\ Knows(t, req[s].org)
    BY <1>4 DEF ReadsHold
  <2>3. CASE i # t
    BY <1>4, <2>1, <2>3 DEF ActiveAdmin, Active, Present
  <2>4. CASE i = t
    <3>1. o = req[s].org
      BY <2>1, <2>2, <2>4 DEF Knows, ActiveAdmin, Active
    <3>2. ActiveAdmin(a) /\ users[a].org = o
      BY <1>4, <2>2, <3>1 DEF Lapse, Knows, ActiveAdmin, Active
    <3>3. ActiveAdmin(a)'
      BY <1>4, <2>2, <3>2 DEF Knows, ActiveAdmin, Active, Present
    <3>4. users'[a].org = o
      BY <1>4, <2>2, <3>2, <3>3 DEF RowsKeep, Knows, ActiveAdmin, Active
    <3> QED
      BY <2>2, <3>3, <3>4 DEF Knows
  <2> QED
    BY <2>3, <2>4
<1>5. RowsKeep
  BY RowsKeepStep
<1>6. ASSUME NEW s \in Slots, PatchUser(s)
      PROVE  \E i \in Ids : ActiveAdmin(i)' /\ users'[i].org = o
  <2>1. PICK c \in UserUpdate, a \in Ids \cup {0}, t \in Ids :
          /\ SelfGuard(req[s], c) /\ Present(t)
          /\ a = req[s].actor /\ t = req[s].target
          /\ users' = [users EXCEPT ![t] = Written(req[s], c)]
    BY <1>6 DEF PatchUser, Present, TypeOK, Request
  <2>2. Written(req[s], c) \in User
    BY <2>1, WrittenType DEF TypeOK
  <2>3. ActiveAdmin(a) /\ t = a
           => Written(req[s], c).role = "admin" /\ Written(req[s], c).active = "yes"
    BY <2>1 DEF SelfGuard, Written, ActiveAdmin, Active, UserUpdate
  <2>4. users'[t] = Written(req[s], c) /\ \A i \in Ids : i # t => users'[i] = users[i]
    BY <2>1 DEF TypeOK
  <2>5. ActiveAdmin(a) /\ t = a => ActiveAdmin(a)'
    BY <2>1, <2>2, <2>3, <2>4 DEF ActiveAdmin, Active, Present
  <2> QED
    BY <1>4, <1>5, <1>6, <2>1, <2>4, <2>5 DEF PatchUser
<1>7. ASSUME NEW s \in Slots, DeleteUser(s)
      PROVE  \E i \in Ids : ActiveAdmin(i)' /\ users'[i].org = o
  <2>1. PICK a, t : a = req[s].actor /\ t = req[s].target /\ t # a
    BY <1>7 DEF DeleteUser
  <2>2. \A i \in Ids : i # t => users'[i] = users[i]
    BY <1>7, <2>1 DEF DeleteUser, TypeOK
  <2> QED
    BY <1>4, <1>5, <1>7, <2>1, <2>2 DEF DeleteUser
<1>8. ASSUME NEW s \in Slots, SignUp(s) \/ FindOwner(s) \/ FindNobody(s) \/ ByToken(s)
                              \/ ResolveKey(s) \/ ByKey(s) \/ LoadUser(s) \/ Finish(s)
      PROVE  UNCHANGED <<users, orgs, lapsed>>
  BY <1>8 DEF SignUp, FindOwner, FindNobody, ByToken, ResolveKey, ByKey, LoadUser, Finish, Read
<1>9. ASSUME NEW s \in Slots, CommitLink(s) \/ CreateKey(s) \/ RevokeKey(s)
      PROVE  UNCHANGED <<users, orgs, lapsed>>
  BY <1>9 DEF CommitLink, CreateKey, RevokeKey
<1>10. CASE UNCHANGED vars
  BY <1>1, <1>10 DEF vars
<1> QED
  BY <1>1, <1>2, <1>3, <1>6, <1>7, <1>8, <1>9, <1>10 DEF Next

-----------------------------------------------------------------------------
(* Links and keys.                                                         *)

\* A step leaves the links and the users they name, adds one, or removes a
\* user and the user's links.
LEMMA LinksIdentifyStep ==
    ASSUME AccountsInv, TypeOK', RowsKeep, [Next]_vars PROVE LinksIdentify'
<1> USE AccountsAssumption
<1> USE DEF AccountsInv
<1>1. ASSUME NEW l \in links, Present(l.user)'
      PROVE  Present(l.user)' /\ users'[l.user].email = EmailOf[l.account]
  <2>1. l.user \in Ids /\ l.user < nextUser
    BY <1>1, PresentNumbered DEF LinksIdentify, TypeOK, Link
  <2> QED
    BY <1>1, <2>1 DEF RowsKeep, LinksIdentify
<1>2. ASSUME links' \subseteq links, \A l \in links' : Present(l.user)'
      PROVE  LinksIdentify'
  BY <1>1, <1>2 DEF LinksIdentify
<1>3. ASSUME NEW l \in Link, links' = links \cup {l}, ~Linked(l.account),
             \A m \in links : Present(m.user)',
             Present(l.user)', users'[l.user].email = EmailOf[l.account]
      PROVE  LinksIdentify'
  BY <1>1, <1>3 DEF LinksIdentify, Linked
<1>4. ASSUME UNCHANGED users, NEW l \in links PROVE Present(l.user)'
  BY <1>4 DEF LinksIdentify, Present
<1>5. ASSUME NEW e \in Emails, NEW o \in Ids, NEW r \in Roles, Insert(e, o, r), NEW l \in links
      PROVE  Present(l.user)'
  <2>1. l.user # nextUser
    BY PresentNumbered DEF LinksIdentify, TypeOK, Link
  <2> QED
    BY <1>5, <2>1 DEF LinksIdentify, Present, Insert, TypeOK
<1>6. CASE UNCHANGED vars
  BY <1>2, <1>4, <1>6 DEF vars
<1>7. ASSUME NEW s \in Slots, SignUp(s) \/ FindOwner(s) \/ FindNobody(s) \/ ByToken(s)
                              \/ ResolveKey(s) \/ ByKey(s) \/ LoadUser(s) \/ Finish(s)
      PROVE  LinksIdentify'
  <2>1. UNCHANGED <<users, links>>
    BY <1>7 DEF SignUp, FindOwner, FindNobody, ByToken, ResolveKey, ByKey, LoadUser, Finish, Read
  <2> QED
    BY <1>2, <1>4, <2>1
<1>8. ASSUME NEW s \in Slots, CreateKey(s) \/ RevokeKey(s) PROVE LinksIdentify'
  <2>1. UNCHANGED <<users, links>>
    BY <1>8 DEF CreateKey, RevokeKey
  <2> QED
    BY <1>2, <1>4, <2>1
<1>9. ASSUME NEW s \in Slots, CommitSignUp(s) PROVE LinksIdentify'
  <2>1. req[s].email \in Emails /\ nextUser \in Ids
    BY <1>9 DEF CommitSignUp, Insert, ReadsHold
  <2> QED
    BY <1>2, <1>5, <1>9, <2>1 DEF CommitSignUp
<1>10. ASSUME NEW s \in Slots, CreateUser(s) PROVE LinksIdentify'
  BY <1>2, <1>5, <1>10 DEF CreateUser, ReadsHold
<1>11. ASSUME NEW s \in Slots, CommitLink(s) PROVE LinksIdentify'
  <2>1. PICK l \in Link : l = [account |-> req[s].account, user |-> req[s].target]
    BY <1>11 DEF CommitLink, ReadsHold, Link
  <2>2. ~Linked(l.account) /\ Present(l.user) /\ users[l.user].email = EmailOf[l.account]
    BY <1>11, <2>1 DEF CommitLink, LinkAccepted, ReadsHold
  <2>3. links' = links \cup {l} /\ users' = users
    BY <1>11, <2>1 DEF CommitLink
  <2> QED
    BY <1>3, <1>4, <2>2, <2>3 DEF Present
<1>12. ASSUME NEW s \in Slots, CommitProvision(s) PROVE LinksIdentify'
  <2>1. req[s].email \in Emails /\ nextUser \in Ids /\ req[s].email = EmailOf[req[s].account]
    BY <1>12 DEF CommitProvision, Insert, ReadsHold
  <2>2. PICK l \in Link : l = [account |-> req[s].account, user |-> nextUser]
    BY <1>12, <2>1 DEF ReadsHold, CommitProvision, Link
  <2>3. users'[l.user] = [email |-> req[s].email, org |-> nextUser, role |-> "admin",
                          active |-> "yes"]
    BY <1>12, <2>1, <2>2 DEF CommitProvision, Insert, TypeOK
  <2>4. users'[l.user] # None /\ l.user \in Ids
    BY <2>1, <2>2, <2>3 DEF User
  <2>5. Present(l.user)' /\ users'[l.user].email = EmailOf[l.account]
    BY <2>1, <2>2, <2>3, <2>4 DEF Present
  <2>6. links' = links \cup {l} /\ ~Linked(l.account)
    BY <1>12, <2>2 DEF CommitProvision
  <2> QED
    BY <1>3, <1>5, <1>12, <2>1, <2>5, <2>6 DEF CommitProvision
<1>13. ASSUME NEW s \in Slots, PatchUser(s) PROVE LinksIdentify'
  <2>1. PICK c \in UserUpdate :
          /\ Present(req[s].target)
          /\ users' = [users EXCEPT ![req[s].target] = Written(req[s], c)]
    BY <1>13 DEF PatchUser
  <2>2. Written(req[s], c) # None
    BY <2>1, WrittenType DEF Present, TypeOK
  <2>3. \A l \in links : Present(l.user)'
    BY <2>1, <2>2 DEF LinksIdentify, Present, TypeOK
  <2> QED
    BY <1>2, <1>13, <2>3 DEF PatchUser
<1>14. ASSUME NEW s \in Slots, DeleteUser(s) PROVE LinksIdentify'
  <2>1. \A l \in links' : Present(l.user)'
    BY <1>14 DEF DeleteUser, LinksIdentify, Present, TypeOK
  <2> QED
    BY <1>2, <1>14, <2>1 DEF DeleteUser
<1> QED
  BY <1>6, <1>7, <1>8, <1>9, <1>10, <1>11, <1>12, <1>13, <1>14 DEF Next

\* A key's creator and organization are as they were, or it is new, or its
\* creator is removed with the row.
LEMMA KeysActForMembersStep ==
    ASSUME AccountsInv, TypeOK', RowsKeep, [Next]_vars PROVE KeysActForMembers'
<1> USE AccountsAssumption
<1> USE DEF AccountsInv
<1> SUFFICES ASSUME NEW k \in KeyIds, keys'[k] # None,
                    NEW c, c = keys'[k].creator, c # 0
             PROVE  Present(c)' /\ users'[c].org = keys'[k].org
  BY DEF KeysActForMembers
<1>1. ASSUME keys[k] # None, keys[k].creator = c, keys'[k].org = keys[k].org,
             Present(c) => Present(c)'
      PROVE  Present(c)' /\ users'[c].org = keys'[k].org
  <2>1. Present(c) /\ users[c].org = keys[k].org /\ c \in Ids
    BY <1>1 DEF KeysActForMembers, Present
  <2>2. c < nextUser
    BY <2>1, PresentNumbered
  <2> QED
    BY <1>1, <2>1, <2>2 DEF RowsKeep
<1>2. ASSUME UNCHANGED users, Present(c) PROVE Present(c)'
  BY <1>2 DEF Present
<1>3. ASSUME NEW e \in Emails, NEW o \in Ids, NEW r \in Roles, Insert(e, o, r), Present(c)
      PROVE  Present(c)'
  <2>1. c # nextUser /\ c \in Ids
    BY <1>3, PresentNumbered DEF Present, TypeOK, Numbered
  <2> QED
    BY <1>3, <2>1 DEF Present, Insert, TypeOK
<1>4. CASE UNCHANGED <<users, keys>>
  BY <1>1, <1>2, <1>4
<1>5. CASE UNCHANGED vars
  BY <1>4, <1>5 DEF vars
<1>6. ASSUME NEW s \in Slots, SignUp(s) \/ FindOwner(s) \/ FindNobody(s) \/ ByToken(s)
                              \/ ResolveKey(s) \/ ByKey(s) \/ LoadUser(s) \/ Finish(s)
                              \/ CommitLink(s)
      PROVE  UNCHANGED <<users, keys>>
  BY <1>6 DEF SignUp, FindOwner, FindNobody, ByToken, ResolveKey, ByKey, LoadUser, Finish, Read,
     CommitLink
<1>7. ASSUME NEW s \in Slots, CommitSignUp(s) \/ CommitProvision(s) \/ CreateUser(s)
      PROVE  Present(c)' /\ users'[c].org = keys'[k].org
  <2>1. PICK e \in Emails, o \in Ids, r \in Roles : Insert(e, o, r)
    BY <1>7 DEF CommitSignUp, CommitProvision, CreateUser, Insert, ReadsHold
  <2>2. keys' = keys
    BY <1>7 DEF CommitSignUp, CommitProvision, CreateUser
  <2> QED
    BY <1>1, <1>3, <2>1, <2>2
<1>8. ASSUME NEW s \in Slots, PatchUser(s)
      PROVE  Present(c)' /\ users'[c].org = keys'[k].org
  <2>1. PICK u \in UserUpdate :
          /\ Present(req[s].target)
          /\ users' = [users EXCEPT ![req[s].target] = Written(req[s], u)]
    BY <1>8 DEF PatchUser
  <2>2. Written(req[s], u) # None
    BY <2>1, WrittenType DEF Present, TypeOK
  <2>3. Present(c) => Present(c)'
    BY <2>1, <2>2 DEF Present, TypeOK
  <2> QED
    BY <1>1, <1>8, <2>3 DEF PatchUser
<1>9. ASSUME NEW s \in Slots, DeleteUser(s)
      PROVE  Present(c)' /\ users'[c].org = keys'[k].org
  <2>1. keys'[k] = IF keys[k] # None /\ keys[k].creator = req[s].target
                   THEN [keys[k] EXCEPT !.creator = 0] ELSE keys[k]
    BY <1>9 DEF DeleteUser, Detach
  <2>2. keys[k] \in Key \cup {None}
    BY DEF TypeOK
  <2>3. keys'[k] = keys[k] /\ keys[k].creator # req[s].target
    BY <2>1, <2>2 DEF Key
  <2>4. c # req[s].target /\ Present(c) => Present(c)'
    BY <1>9 DEF DeleteUser, Present, TypeOK
  <2> QED
    BY <1>1, <2>3, <2>4
<1>10. ASSUME NEW s \in Slots, CreateKey(s)
       PROVE  Present(c)' /\ users'[c].org = keys'[k].org
  <2>1. CASE k = nextKey
    <3>1. keys'[k] = [org |-> req[s].org, creator |-> req[s].actor, live |-> TRUE]
      BY <1>10, <2>1 DEF CreateKey, TypeOK
    <3>2. Present(req[s].actor) /\ users[req[s].actor].org = req[s].org /\ users' = users
      BY <1>10 DEF CreateKey, ReadsHold, Knows
    <3> QED
      BY <3>1, <3>2 DEF Present
  <2>2. CASE k # nextKey
    BY <1>1, <1>2, <1>10, <2>2 DEF CreateKey, TypeOK
  <2> QED
    BY <2>1, <2>2
<1>11. ASSUME NEW s \in Slots, RevokeKey(s)
       PROVE  Present(c)' /\ users'[c].org = keys'[k].org
  <2>1. PICK j \in KeyIds : keys[j] # None /\ keys' = [keys EXCEPT ![j].live = FALSE]
    BY <1>11 DEF RevokeKey
  <2>2. keys[k] # None /\ keys'[k].creator = keys[k].creator /\ keys'[k].org = keys[k].org
    BY <2>1 DEF TypeOK, Key
  <2> QED
    BY <1>1, <1>2, <1>11, <2>2 DEF RevokeKey
<1> QED
  BY <1>4, <1>5, <1>6, <1>7, <1>8, <1>9, <1>10, <1>11 DEF Next

-----------------------------------------------------------------------------
(* The theorems.                                                           *)

LEMMA AccountsInvStep == AccountsInv /\ [Next]_vars => AccountsInv'
<1> SUFFICES ASSUME AccountsInv, [Next]_vars PROVE AccountsInv'
  OBVIOUS
<1>1. TypeOK'
  BY TypeStep DEF AccountsInv
<1>2. RowsKeep /\ Numbered' /\ EmailsUnique'
  BY RowsKeepStep DEF AccountsInv
<1>3. ReadsHold'
  BY <1>1, <1>2, ReadsHoldStep
<1>4. OrgKeepsAdmin'
  BY OrgKeepsAdminStep
<1>5. LinksIdentify' /\ KeysActForMembers'
  BY <1>1, <1>2, LinksIdentifyStep, KeysActForMembersStep
<1> QED
  BY <1>1, <1>2, <1>3, <1>4, <1>5 DEF AccountsInv

LEMMA AccountsInvHolds == Spec => []AccountsInv
BY AccountsInvInit, AccountsInvStep, PTL DEF Spec

\* Every row, and what every request remembers of one, has its type.
THEOREM AccountTypes == Spec => []TypeOK
<1>1. AccountsInv => TypeOK
  BY DEF AccountsInv
<1> QED
  BY <1>1, AccountsInvHolds, PTL

\* users.py's guards on oneself keep an active admin in every organization no
\* request changed for a caller who had lost the role.
THEOREM AdminsRemain == Spec => []OrgKeepsAdmin
<1>1. AccountsInv => OrgKeepsAdmin
  BY DEF AccountsInv
<1> QED
  BY <1>1, AccountsInvHolds, PTL

\* No address is registered twice, whichever of the four ways it came in.
THEOREM OneUserPerAddress == Spec => []EmailsUnique
<1>1. AccountsInv => EmailsUnique
  BY DEF AccountsInv
<1> QED
  BY <1>1, AccountsInvHolds, PTL

\* An address is one user's, and a provider account signs in one existing user,
\* the one with its address.
THEOREM AccountsSignInOne == Spec => []AccountsIdentify
<1>1. AccountsInv => AccountsIdentify
  BY DEF AccountsInv, AccountsIdentify
<1> QED
  BY <1>1, AccountsInvHolds, PTL

\* A key acts for a user of its organization or for nobody.
THEOREM KeysBelong == Spec => []KeysActForMembers
<1>1. AccountsInv => KeysActForMembers
  BY DEF AccountsInv
<1> QED
  BY <1>1, AccountsInvHolds, PTL

\* A commit sets back nothing another request changed meanwhile.
LEMMA NoRestoreStep ==
    ASSUME AccountsInv, [Next]_vars, NEW s \in Slots,
           NEW q, q = req[s], q.op = "loaded", req'[s] = Idle
    PROVE  IF users[q.target] = None THEN users'[q.target] = None
           ELSE users'[q.target] # None =>
             /\ users[q.target].role # q.old.role => users'[q.target].role # q.old.role
             /\ users[q.target].active # q.old.active
                   => users'[q.target].active # q.old.active
<1> USE AccountsAssumption
<1> USE DEF AccountsInv
<1>1. q # Idle /\ q.target \in Ids
  BY DEF Idle, Asking, ReadsHold, Knows
<1>2. ASSUME NEW t \in Slots, t # s, NEW r, Become(t, r) PROVE FALSE
  BY <1>1, <1>2 DEF Become, TypeOK
<1>3. CASE PatchUser(s)
  <2>1. PICK c \in UserUpdate :
          /\ Present(q.target)
          /\ users' = [users EXCEPT ![q.target] = Written(q, c)]
    BY <1>3 DEF PatchUser
  <2>2. users'[q.target] = Written(q, c) /\ users[q.target] # None
    BY <1>1, <2>1 DEF TypeOK, Present
  <2>3. /\ Written(q, c).role = IF c.role \in {"keep", q.old.role}
                                THEN users[q.target].role ELSE c.role
        /\ Written(q, c).active = IF c.active \in {"keep", q.old.active}
                                  THEN users[q.target].active ELSE c.active
    BY DEF Written
  <2> QED
    BY <2>2, <2>3
<1>4. CASE DeleteUser(s)
  BY <1>1, <1>4 DEF DeleteUser, TypeOK
<1>5. CASE Finish(s)
  BY <1>5 DEF Finish, Read
<1>6. CASE UNCHANGED vars
  BY <1>1, <1>6 DEF vars
<1>7. ASSUME NEW t \in Slots, SignUp(t) \/ FindOwner(t) \/ FindNobody(t) \/ ByToken(t)
                              \/ ResolveKey(t) \/ ByKey(t) \/ LoadUser(t)
      PROVE  FALSE
  <2>1. t # s
    BY <1>1, <1>7 DEF SignUp, FindOwner, FindNobody, ByToken, ResolveKey, ByKey, LoadUser
  <2>2. \E r : Become(t, r)
    BY <1>7 DEF SignUp, FindOwner, FindNobody, ByToken, ResolveKey, ByKey, LoadUser, Read
  <2> QED
    BY <1>2, <2>1, <2>2
<1>8. ASSUME NEW t \in Slots, CommitSignUp(t) \/ CommitLink(t) \/ CommitProvision(t)
                              \/ CreateUser(t) \/ CreateKey(t) \/ RevokeKey(t)
      PROVE  FALSE
  <2>1. t # s
    BY <1>8 DEF CommitSignUp, CommitLink, CommitProvision, CreateUser, CreateKey, RevokeKey
  <2>2. Become(t, Idle)
    BY <1>8 DEF CommitSignUp, CommitLink, CommitProvision, CreateUser, CreateKey, RevokeKey
  <2> QED
    BY <1>2, <2>1, <2>2
<1>9. ASSUME NEW t \in Slots, PatchUser(t) \/ DeleteUser(t) \/ Finish(t) PROVE t = s
  <2>1. Become(t, Idle)
    BY <1>9 DEF PatchUser, DeleteUser, Finish, Read
  <2> QED
    BY <1>2, <2>1
<1> QED
  BY <1>3, <1>4, <1>5, <1>6, <1>7, <1>8, <1>9 DEF Next

THEOREM NothingRestored == Spec => NoStaleRestore
<1>1. AccountsInv /\ [Next]_vars =>
        [\A s \in Slots :
           LET q == req[s]
               now == users[q.target]
           IN req[s].op = "loaded" /\ req'[s] = Idle =>
                 IF now = None THEN users'[q.target] = None
                 ELSE users'[q.target] # None =>
                   /\ now.role # q.old.role => users'[q.target].role # q.old.role
                   /\ now.active # q.old.active => users'[q.target].active # q.old.active]_vars
  BY NoRestoreStep
<1> QED
  BY <1>1, AccountsInvHolds, PTL DEF Spec, NoStaleRestore
=============================================================================
