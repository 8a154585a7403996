------------------------------ MODULE Accounts ------------------------------
(***************************************************************************)
(* Organizations, their users, the users' API keys and linked provider     *)
(* accounts: signup, the OAuth callback, and the administration of users   *)
(* and of keys.                                                            *)
(*                                                                         *)
(* A request reads in some steps and commits in another: other requests    *)
(* commit in between, and the unique indexes and foreign keys of the       *)
(* tables decide at the commit.  A flush holds its locks until the commit, *)
(* so the two are one step.                                                *)
(***************************************************************************)
EXTENDS Integers, FiniteSets

CONSTANTS
    Emails,    \* e-mail addresses
    Accounts,  \* accounts at the OAuth providers
    EmailOf,   \* the address the provider gives for each account
    Roles,     \* user roles, "admin" among them
    Slots,     \* requests in progress at once
    None,      \* no row
    MaxUsers,  \* bound: users ever created
    MaxKeys    \* bound: API keys ever created

Ids == 1..MaxUsers
KeyIds == 1..MaxKeys

\* A row of users; an organization has the number of its first user.
User == [email : Emails, org : Ids, role : Roles, active : {"yes", "no"}]

\* A row of api_keys; creator 0 is NULL.
Key == [org : Ids, creator : Ids \cup {0}, live : BOOLEAN]

\* A row of oauth_accounts.
Link == [account : Accounts, user : Ids]

\* UserUpdate: "keep" is an absent field.
UserUpdate == [role : Roles \cup {"keep"}, active : {"yes", "no", "keep"}]

ASSUME AccountsAssumption ==
    /\ EmailOf \in [Accounts -> Emails]
    /\ "admin" \in Roles /\ "keep" \notin Roles
    /\ None \notin User /\ None \notin Key
    /\ MaxUsers \in Nat
    /\ MaxKeys \in Nat

\* What the request in a slot has read: who it acts for, in which
\* organization, the user it is about, and a row as its session loaded it.
Request == [op : {"idle", "signup", "link", "provision", "resolved", "checked", "loaded"},
            actor : Ids \cup {0}, org : Ids \cup {0}, target : Ids \cup {0},
            old : User \cup {None},
            email : Emails \cup {None}, account : Accounts \cup {None}]

\* A request about an address, a provider account and the user it belongs to.
Asking(o, e, a, i) ==
    [op |-> o, actor |-> 0, org |-> 0, target |-> i, old |-> None,
     email |-> e, account |-> a]

\* A request of user i of organization g, about user t with the row u.
Acting(o, i, g, t, u) ==
    [op |-> o, actor |-> i, org |-> g, target |-> t, old |-> u,
     email |-> None, account |-> None]

Idle == Asking("idle", None, None, 0)

VARIABLES
    orgs,      \* rows of organizations
    users,     \* rows of users, by id
    keys,      \* rows of api_keys, by id
    links,     \* rows of oauth_accounts
    nextUser,  \* the next id of a user
    nextKey,   \* the next id of a key
    req,       \* the request in each slot
    lapsed     \* organizations whose users were changed by a request whose
               \* caller had stopped being an active admin since it was checked

vars == <<orgs, users, keys, links, nextUser, nextKey, req, lapsed>>

Init ==
    /\ orgs = {}
    /\ users = [i \in Ids |-> None]
    /\ keys = [k \in KeyIds |-> None]
    /\ links = {}
    /\ nextUser = 1
    /\ nextKey = 1
    /\ req = [s \in Slots |-> Idle]
    /\ lapsed = {}

-----------------------------------------------------------------------------
Present(i) == i \in Ids /\ users[i] # None

Active(i) == Present(i) /\ users[i].active = "yes"

ActiveAdmin(i) == Active(i) /\ users[i].role = "admin"

Registered(e) == \E i \in Ids : Present(i) /\ users[i].email = e

Linked(a) == \E l \in links : l.account = a

\* uq_users_email
EmailFree(e) == ~Registered(e)

\* Mutant: a user_id without a foreign key.
LinkDangling(a, i) == ~Linked(a)

\* uq_oauth_provider_account and the foreign key on users
LinkAccepted(a, i) == ~Linked(a) /\ Present(i)

Become(s, r) == req' = [req EXCEPT ![s] = r]

Read(s, r) ==
    /\ Become(s, r)
    /\ UNCHANGED <<orgs, users, keys, links, nextUser, nextKey, lapsed>>

\* A new user's row.
Insert(e, o, r) ==
    /\ nextUser \in Ids
    /\ users' = [users EXCEPT ![nextUser] =
                    [email |-> e, org |-> o, role |-> r, active |-> "yes"]]
    /\ nextUser' = nextUser + 1

-----------------------------------------------------------------------------
(* Signup and the OAuth callback, on the session of the auth role.         *)

\* The address is looked up: 409 when it is registered.
SignUp(s) ==
    /\ req[s] = Idle
    /\ \E e \in Emails :
         /\ ~Registered(e)
         /\ Read(s, Asking("signup", e, None, 0))

\* An organization and its first admin, in one transaction.
CommitSignUp(s) ==
    /\ req[s].op = "signup"
    /\ EmailFree(req[s].email)
    /\ Insert(req[s].email, nextUser, "admin")
    /\ orgs' = orgs \cup {nextUser}
    /\ Become(s, Idle)
    /\ UNCHANGED <<keys, links, nextKey, lapsed>>

\* The callback finds no link for the account, but a user with its address.
\* (A link found signs its user in and changes no row modelled here.)
FindOwner(s) ==
    /\ req[s] = Idle
    /\ \E a \in Accounts, i \in Ids :
         /\ ~Linked(a)
         /\ Present(i) /\ users[i].email = EmailOf[a]
         /\ Read(s, Asking("link", None, a, i))

CommitLink(s) ==
    /\ req[s].op = "link"
    /\ LinkAccepted(req[s].account, req[s].target)
    /\ links' = links \cup {[account |-> req[s].account, user |-> req[s].target]}
    /\ Become(s, Idle)
    /\ UNCHANGED <<orgs, users, keys, nextUser, nextKey, lapsed>>

\* The callback finds neither: the first sign-in of an unknown person.
FindNobody(s) ==
    /\ req[s] = Idle
    /\ \E a \in Accounts :
         /\ ~Linked(a) /\ ~Registered(EmailOf[a])
         /\ Read(s, Asking("provision", EmailOf[a], a, 0))

\* An organization, its admin and the admin's link, in one transaction.
CommitProvision(s) ==
    /\ req[s].op = "provision"
    /\ EmailFree(req[s].email) /\ ~Linked(req[s].account)
    /\ Insert(req[s].email, nextUser, "admin")
    /\ orgs' = orgs \cup {nextUser}
    /\ links' = links \cup {[account |-> req[s].account, user |-> nextUser]}
    /\ Become(s, Idle)
    /\ UNCHANGED <<keys, nextKey, lapsed>>

-----------------------------------------------------------------------------
(* Administration, on the session of the principal.                        *)

\* What get_principal and require_role accept.
Admitted(i, o) == ActiveAdmin(i) /\ users[i].org = o

Checked(i) == Acting("checked", i, users[i].org, 0, users[i])

\* A bearer token, of a user who may be gone by now.
ByToken(s) ==
    /\ req[s] = Idle
    /\ \E i \in Ids : Present(i) /\ Admitted(i, users[i].org) /\ Read(s, Checked(i))

\* An API key, verified in a transaction of its own on the auth role.
ResolveKey(s) ==
    /\ req[s] = Idle
    /\ \E k \in KeyIds :
         /\ keys[k] # None /\ keys[k].live
         /\ Active(keys[k].creator)
         /\ Read(s, Acting("resolved", keys[k].creator, keys[k].org, 0, None))

\* ... then its creator is the principal.
ByKey(s) ==
    /\ req[s].op = "resolved"
    /\ Admitted(req[s].actor, req[s].org)
    /\ Read(s, Checked(req[s].actor))

\* POST /users: the address may be registered in any organization.
CreateUser(s) ==
    /\ req[s].op = "checked"
    /\ \E e \in Emails, r \in Roles : EmailFree(e) /\ Insert(e, req[s].org, r)
    /\ Become(s, Idle)
    /\ UNCHANGED <<orgs, keys, links, nextKey, lapsed>>

\* _get_org_user: the identity map keeps the caller's own row as first loaded.
LoadUser(s) ==
    /\ req[s].op = "checked"
    /\ \E i \in Ids :
         /\ Present(i) /\ users[i].org = req[s].org
         /\ Read(s, Acting("loaded", req[s].actor, req[s].org, i,
                           IF i = req[s].actor THEN req[s].old ELSE users[i]))

\* Mutant: the guard covers the role only.
SelfGuardRole(q, c) == q.target = q.actor => c.role \in {"keep", "admin"}

\* The caller's guards on himself.
SelfGuard(q, c) ==
    q.target = q.actor => c.role \in {"keep", "admin"} /\ c.active # "no"

\* An assignment of the value loaded is no change, and is not written.
Dirty(q, c) ==
    \/ c.role \notin {"keep", q.old.role}
    \/ c.active \notin {"keep", q.old.active}

\* Mutant: every column is written, those not asked for as loaded.
WrittenRow(q, c) ==
    [q.old EXCEPT !.role = IF c.role = "keep" THEN @ ELSE c.role,
                  !.active = IF c.active = "keep" THEN @ ELSE c.active]

\* Mutant: absent fields are assigned too.
WrittenAbsent(q, c) ==
    [users[q.target] EXCEPT !.role = c.role, !.active = c.active]

\* The UPDATE sets the changed columns of the row as it is at the commit.
Written(q, c) ==
    LET u == users[q.target]
    IN [email |-> u.email, org |-> u.org,
        role |-> IF c.role \in {"keep", q.old.role} THEN u.role ELSE c.role,
        active |-> IF c.active \in {"keep", q.old.active} THEN u.active ELSE c.active]

\* The organizations in which a caller without the role has changed a user.
Lapse(q) == IF ActiveAdmin(q.actor) THEN lapsed ELSE lapsed \cup {q.org}

\* PATCH /users/{id}: an UPDATE that finds no row is an error.
PatchUser(s) ==
    /\ req[s].op = "loaded"
    /\ \E c \in UserUpdate :
         /\ SelfGuard(req[s], c) /\ Dirty(req[s], c)
         /\ Present(req[s].target)
         /\ users' = [users EXCEPT ![req[s].target] = Written(req[s], c)]
    /\ lapsed' = Lapse(req[s])
    /\ Become(s, Idle)
    /\ UNCHANGED <<orgs, keys, links, nextUser, nextKey>>

\* ON DELETE SET NULL
Detach(i) ==
    [k \in KeyIds |-> IF keys[k] # None /\ keys[k].creator = i
                      THEN [keys[k] EXCEPT !.creator = 0] ELSE keys[k]]

\* DELETE /users/{id}: links go with the row, keys stay without a creator.
DeleteUser(s) ==
    /\ req[s].op = "loaded"
    /\ req[s].target # req[s].actor
    /\ users' = [users EXCEPT ![req[s].target] = None]
    /\ links' = {l \in links : l.user # req[s].target}
    /\ keys' = Detach(req[s].target)
    /\ lapsed' = Lapse(req[s])
    /\ Become(s, Idle)
    /\ UNCHANGED <<orgs, nextUser, nextKey>>

\* POST /api-keys: the creator must still be there.
CreateKey(s) ==
    /\ req[s].op = "checked"
    /\ nextKey \in KeyIds
    /\ Present(req[s].actor)
    /\ keys' = [keys EXCEPT ![nextKey] =
                   [org |-> req[s].org, creator |-> req[s].actor, live |-> TRUE]]
    /\ nextKey' = nextKey + 1
    /\ Become(s, Idle)
    /\ UNCHANGED <<orgs, users, links, nextUser, lapsed>>

\* DELETE /api-keys/{id}, of the caller's organization.
RevokeKey(s) ==
    /\ req[s].op = "checked"
    /\ \E k \in KeyIds :
         /\ keys[k] # None /\ keys[k].org = req[s].org
         /\ keys' = [keys EXCEPT ![k].live = FALSE]
    /\ Become(s, Idle)
    /\ UNCHANGED <<orgs, users, links, nextUser, nextKey, lapsed>>

\* A request that writes nothing: it was refused by a check, an index or a
\* foreign key, updated a row that is gone, changed nothing, or broke off.
Finish(s) ==
    /\ req[s] # Idle
    /\ Read(s, Idle)

Next ==
    \E s \in Slots :
        \/ SignUp(s) \/ CommitSignUp(s)
        \/ FindOwner(s) \/ CommitLink(s)
        \/ FindNobody(s) \/ CommitProvision(s)
        \/ ByToken(s) \/ ResolveKey(s) \/ ByKey(s)
        \/ CreateUser(s) \/ LoadUser(s) \/ PatchUser(s) \/ DeleteUser(s)
        \/ CreateKey(s) \/ RevokeKey(s)
        \/ Finish(s)

Spec == Init /\ [][Next]_vars

-----------------------------------------------------------------------------
(* Properties.                                                             *)

TypeOK ==
    /\ orgs \subseteq Ids /\ lapsed \subseteq Ids
    /\ users \in [Ids -> User \cup {None}]
    /\ keys \in [KeyIds -> Key \cup {None}]
    /\ links \subseteq Link
    /\ nextUser \in Nat \ {0} /\ nextKey \in Nat \ {0}
    /\ req \in [Slots -> Request]

\* The guards on demoting, deactivating and deleting oneself keep an active
\* admin in every organization, whatever requests run at once, as long as no
\* request commits for a caller who was demoted or removed after its check.
OrgKeepsAdmin ==
    \A o \in orgs \ lapsed : \E i \in Ids : ActiveAdmin(i) /\ users[i].org = o

\* Two requests that both found an address free do not both register it.
EmailsUnique ==
    \A i, j \in Ids :
        Present(i) /\ Present(j) /\ users[i].email = users[j].email => i = j

\* A provider account signs in one user, who exists and has its address: two
\* callbacks for one account, or one racing the removal of the user, included.
LinksIdentify ==
    /\ \A l, m \in links : l.account = m.account => l = m
    /\ \A l \in links : Present(l.user) /\ users[l.user].email = EmailOf[l.account]

\* An address signs in one user, and so does a provider account.
AccountsIdentify == EmailsUnique /\ LinksIdentify

\* A key acts for a user who exists and is of the key's organization, or for
\* nobody: a key made while its creator is deleted included.
KeysActForMembers ==
    \A k \in KeyIds :
        keys[k] # None /\ keys[k].creator # 0 =>
            /\ Present(keys[k].creator)
            /\ users[keys[k].creator].org = keys[k].org

\* What another request has changed since this one loaded the row is not set
\* back by this one's commit: neither a column nor the row's removal.
NoStaleRestore ==
    [][\A s \in Slots :
         LET q == req[s]
             now == users[q.target]
         IN req[s].op = "loaded" /\ req'[s] = Idle =>
               IF now = None THEN users'[q.target] = None
               ELSE users'[q.target] # None =>
                 /\ now.role # q.old.role => users'[q.target].role # q.old.role
                 /\ now.active # q.old.active => users'[q.target].active # q.old.active]_vars
=============================================================================
