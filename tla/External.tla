------------------------------ MODULE External ------------------------------
(***************************************************************************)
(* The external interface: integrations, their keys, and the writes made   *)
(* with them (connections/services.py, auth.py and api.py), with the users *)
(* whose authority keys depend on (erp/api.py UserViewSet).                *)
(*                                                                         *)
(* A request is authenticated first, with what its thread reads then, and  *)
(* acts later under the lock of the company.  An administrator acts with   *)
(* the authority read at authentication; a key is read again.              *)
(*                                                                         *)
(* A content is what one request says: the scope of the action, the        *)
(* identifier of a transaction (Nobody for customers and drafts), its      *)
(* meaning after validation and its spelling, which only the fingerprint   *)
(* sees.  What refuses a write for other reasons (currency, form, the      *)
(* ledger's rules for drafts) is left to End.  Customers and drafts are    *)
(* rows like those of the company, which its users go on editing.          *)
(***************************************************************************)
EXTENDS FiniteSets, Naturals

CONSTANTS
  Users,         \* primary keys of users
  Integrations,  \* primary keys of integrations
  KeyIds,        \* primary keys of integration keys
  RowIds,        \* primary keys of what external requests create
  Idems,         \* values of the header Idempotency-Key
  Scopes,        \* the scopes that write
  Grants,        \* the sets of scopes an administrator may give a key
  Contents,      \* what integrations send
  Threads,       \* threads of the server
  Nobody

ASSUME ExternalAssumption ==
  /\ Grants \subseteq SUBSET Scopes
  /\ Nobody \notin Users \cup Integrations \cup KeyIds \cup RowIds \cup Scopes
  /\ \A c \in Contents :
       /\ c.scope \in Scopes
       /\ c = [scope |-> c.scope, external |-> c.external, meaning |-> c.meaning,
               spelling |-> c.spelling]

VARIABLES
  users,         \* role and activity of each user
  integrations,  \* each "absent", "enabled" or "disabled"
  keys,          \* the integration keys
  served,        \* whether the subscription lets the company be served
  rows,          \* customers, drafts and transactions created by external requests
  registry,      \* the external requests that were executed, with their answers
  answered,      \* the answers integrations have received
  work           \* what each thread serves, with what it read at authentication

access == <<users, integrations, keys, served>>
effects == <<rows, registry, answered>>
vars == <<access, effects, work>>

NoUser == [role |-> Nobody, active |-> FALSE]
NoKey == [integration |-> Nobody, creator |-> Nobody, scopes |-> {}, over |-> TRUE]
NoRow == [integration |-> Nobody, scope |-> Nobody, external |-> Nobody, meaning |-> Nobody]
Idle == [user |-> Nobody, key |-> Nobody, scope |-> Nobody]

AdminsAmong(people) == {u \in Users : people[u].role = "admin" /\ people[u].active}
Admins == AdminsAmong(users)
Issued == {x \in KeyIds : keys[x] # NoKey}
Stored == {n \in RowIds : rows[n] # NoRow}

\* assert_key_active; a key is over once it is revoked or its time has come.
LiveFor(x, scope) ==
  /\ x \in Issued
  /\ ~keys[x].over
  /\ integrations[keys[x].integration] = "enabled"
  /\ keys[x].creator \in Admins
  /\ scope \in keys[x].scopes
  /\ served

\* The same check under the lock, on the key read again.
StillLiveByScope(x, scope) == scope \in keys[x].scopes
StillLive(x, scope) == LiveFor(x, scope)

(***************************************************************************)
(* Administrators.                                                         *)
(***************************************************************************)

\* Authentication of a session: the role, the activity and the access of the company are
\* read here and not again.
SignIn(th, u) ==
  /\ work[th] = Idle
  /\ u \in Admins
  /\ served
  /\ work' = [work EXCEPT ![th] = [user |-> u, key |-> Nobody, scope |-> Nobody]]
  /\ UNCHANGED <<access, effects>>

Administers(th) ==
  /\ work[th].user # Nobody
  /\ work' = [work EXCEPT ![th] = Idle]
  /\ UNCHANGED <<served, effects>>

\* An active administrator may lose that place only to another one.
ReplaceableByRole(u) == \E v \in Users \ {u} : users[v].role = "admin"
Replaceable(u) == \E v \in Users \ {u} : v \in Admins

\* UserViewSet._save: a new user, or any change of the role and the activity of one.
SaveUser(th, u, role, active) ==
  /\ Administers(th)
  /\ u \in Admins /\ ~(role = "admin" /\ active) => Replaceable(u)
  /\ users' = [users EXCEPT ![u] = [role |-> role, active |-> active]]
  /\ UNCHANGED <<integrations, keys>>

SaveIntegration(th, i, state) ==
  /\ Administers(th)
  /\ integrations' = [integrations EXCEPT ![i] = state]
  /\ UNCHANGED <<users, keys>>

Issuable(i) == integrations[i] = "enabled"

IssueKey(th, x, i, scopes) ==
  /\ Administers(th)
  /\ x \notin Issued
  /\ Issuable(i)
  /\ keys' = [keys EXCEPT ![x] = [integration |-> i, creator |-> work[th].user,
                                  scopes |-> scopes, over |-> FALSE]]
  /\ UNCHANGED <<users, integrations>>

Over(x) ==
  keys' = [keys EXCEPT ![x] = [integration |-> keys[x].integration,
                               creator |-> keys[x].creator,
                               scopes |-> keys[x].scopes, over |-> TRUE]]

Revoke(th, x) ==
  /\ Administers(th)
  /\ x \in Issued
  /\ Over(x)
  /\ UNCHANGED <<users, integrations>>

(***************************************************************************)
(* Integrations.                                                           *)
(***************************************************************************)

\* IntegrationAuthentication, and the check of the scope before the payload is read.
Arrive(th, x, scope) ==
  /\ work[th] = Idle
  /\ LiveFor(x, scope)
  /\ work' = [work EXCEPT ![th] = [user |-> Nobody, key |-> x, scope |-> scope]]
  /\ UNCHANGED <<access, effects>>

Registered(i, idem) == {q \in registry : q.integration = i /\ q.idem = idem}

\* A transaction belongs to the integration; customers and drafts to the company alone.
Effect(i, content) ==
  [integration |-> IF content.external = Nobody THEN Nobody ELSE i,
   scope |-> content.scope, external |-> content.external, meaning |-> content.meaning]

\* The transaction of the integration that has the identifier of the content.
Known(i, content) ==
  {n \in Stored : /\ content.external # Nobody
                  /\ rows[n].integration = i
                  /\ rows[n].external = content.external}

SameByIdentifier(n, i, content) == TRUE
Same(n, i, content) == rows[n] = Effect(i, content)

\* The operation of ExternalView.post: row n is found (receive_transaction) or created.
Perform(i, content, n) ==
  \/ /\ n \in Known(i, content)
     /\ Same(n, i, content)
     /\ UNCHANGED rows
  \/ /\ Known(i, content) = {}
     /\ n \in RowIds \ Stored
     /\ rows' = [rows EXCEPT ![n] = Effect(i, content)]

Request(i, idem, content, n) ==
  [integration |-> i, idem |-> idem, content |-> content, row |-> n]

RegisterOnceTold(q, told) == registry' = IF told THEN registry \cup {q} ELSE registry
Register(q, told) == registry' = registry \cup {q}

\* external_write of a new request, whose answer may be lost.
Write(th, idem, content, n, told) ==
  LET x == work[th].key
      i == keys[x].integration
      q == Request(i, idem, content, n)
  IN /\ x # Nobody
     /\ content.scope = work[th].scope
     /\ StillLive(x, content.scope)
     /\ Registered(i, idem) = {}
     /\ Perform(i, content, n)
     /\ Register(q, told)
     /\ answered' = IF told THEN answered \cup {q} ELSE answered
     /\ work' = [work EXCEPT ![th] = Idle]
     /\ UNCHANGED access

\* external_write of a request that was executed before.
Replay(th, idem, content) ==
  LET x == work[th].key IN
  /\ x # Nobody
  /\ content.scope = work[th].scope
  /\ StillLive(x, content.scope)
  /\ \E q \in Registered(keys[x].integration, idem) :
       /\ q.content = content
       /\ answered' = answered \cup {Request(keys[x].integration, idem, content, q.row)}
  /\ work' = [work EXCEPT ![th] = Idle]
  /\ UNCHANGED <<access, rows, registry>>

\* A request that ends with no effect: a reading, a refusal, or the death of its thread.
End(th) ==
  /\ work[th] # Idle
  /\ work' = [work EXCEPT ![th] = Idle]
  /\ UNCHANGED <<access, effects>>

\* Users edit a customer or a draft, whoever created it; transactions have no such service.
EditRow(n) ==
  /\ n \in Stored
  /\ rows[n].external = Nobody
  /\ \E content \in Contents :
       /\ content.scope = rows[n].scope
       /\ content.external = Nobody
       /\ rows' = [rows EXCEPT ![n].meaning = content.meaning]
  /\ UNCHANGED <<access, registry, answered, work>>

(***************************************************************************)
(* Time and the subscription.                                              *)
(***************************************************************************)
Expire(x) ==
  /\ x \in Issued
  /\ Over(x)
  /\ UNCHANGED <<users, integrations, served, effects, work>>

SetServed(flag) ==
  /\ served' = flag
  /\ UNCHANGED <<users, integrations, keys, effects, work>>

\* bootstrap_admin has created one administrator.
Init ==
  /\ \E u \in Users :
       users = [v \in Users |-> IF v = u THEN [role |-> "admin", active |-> TRUE] ELSE NoUser]
  /\ integrations = [i \in Integrations |-> "absent"]
  /\ keys = [x \in KeyIds |-> NoKey]
  /\ served = TRUE
  /\ rows = [n \in RowIds |-> NoRow]
  /\ registry = {}
  /\ answered = {}
  /\ work = [th \in Threads |-> Idle]

Administration(th) ==
  \/ \E u \in Users : SignIn(th, u)
  \/ \E u \in Users, role \in {"admin", "other"}, active \in BOOLEAN :
       SaveUser(th, u, role, active)
  \/ \E i \in Integrations, state \in {"enabled", "disabled"} : SaveIntegration(th, i, state)
  \/ \E x \in KeyIds, i \in Integrations, scopes \in Grants : IssueKey(th, x, i, scopes)
  \/ \E x \in KeyIds : Revoke(th, x)

Service(th) ==
  \/ \E x \in KeyIds, scope \in Scopes : Arrive(th, x, scope)
  \/ \E idem \in Idems, content \in Contents, n \in RowIds, told \in BOOLEAN :
       Write(th, idem, content, n, told)
  \/ \E idem \in Idems, content \in Contents : Replay(th, idem, content)
  \/ End(th)

Next ==
  \/ \E th \in Threads : Administration(th) \/ Service(th)
  \/ \E n \in RowIds : EditRow(n)
  \/ \E x \in KeyIds : Expire(x)
  \/ \E flag \in BOOLEAN : SetServed(flag)

Spec == Init /\ [][Next]_vars

(***************************************************************************)
(* Properties.                                                             *)
(***************************************************************************)

\* Tables hold rows of their own shape; a key belongs to an integration and a creator that
\* exist, and a request that was executed points to a row that exists.
UserRow == [role : {"admin", "other", Nobody}, active : BOOLEAN]
KeyRow ==
  [integration : Integrations \cup {Nobody}, creator : Users \cup {Nobody},
   scopes : SUBSET Scopes, over : BOOLEAN]
EffectRow == {NoRow} \cup {Effect(i, c) : i \in Integrations, c \in Contents}
RequestRow == [integration : Integrations, idem : Idems, content : Contents, row : RowIds]
Work ==
  [user : Users \cup {Nobody}, key : KeyIds \cup {Nobody}, scope : Scopes \cup {Nobody}]
TypeOK ==
  /\ users \in [Users -> UserRow]
  /\ integrations \in [Integrations -> {"absent", "enabled", "disabled"}]
  /\ keys \in [KeyIds -> KeyRow]
  /\ \A x \in Issued :
       /\ keys[x].integration \in Integrations
       /\ integrations[keys[x].integration] # "absent"
       /\ keys[x].creator \in Users
  /\ served \in BOOLEAN
  /\ rows \in [RowIds -> EffectRow]
  /\ registry \subseteq RequestRow
  /\ \A q \in registry : q.row \in Stored
  /\ answered \subseteq registry
  /\ work \in [Threads -> Work]
  /\ \A th \in Threads : work[th].key # Nobody => work[th].key \in Issued

\* Somebody can always administer the company: however many administrators change each
\* other at the same time, even after they lost their own authority, an active one remains.
AnAdminRemains == Admins # {}

\* What an integration writes is covered, at the moment it is written, by a key that is
\* neither revoked nor expired, of an integration that is enabled, created by someone who
\* still is an active administrator, with the scope, in a company that is served: whatever
\* was true when the request was authenticated.  Nothing else creates a row or touches a
\* transaction; a customer or a draft, once there, is the company's to edit.
WritesAreAuthorised ==
  [][\A n \in RowIds :
       rows'[n] # rows[n] /\ (n \in Stored => rows[n].external # Nobody) =>
       \E x \in KeyIds :
         /\ LiveFor(x, rows'[n].scope)
         /\ rows'[n].integration \in {Nobody, keys[x].integration}]_vars

\* A request has one effect, whichever keys of the integration it is sent with, however
\* often it is repeated and wherever its answers are lost: executed requests are told apart
\* by integration and idempotency key; what is created is owed to a request, customers and
\* drafts to exactly one; and a transaction is created once for its identifier.
OneEffectPerRequest ==
  /\ \A q, r \in registry : q.integration = r.integration /\ q.idem = r.idem => q = r
  /\ \A n \in Stored : \E q \in registry : q.row = n
  /\ \A q, r \in registry : q.row = r.row /\ q.content.external = Nobody => q = r
  /\ \A n, m \in Stored :
       /\ rows[n].external # Nobody
       /\ rows[n].integration = rows[m].integration
       /\ rows[n].external = rows[m].external
       => n = m

\* A transaction is what was sent; a customer or a draft is what users made of it.
StandsFor(n, q) ==
  /\ n \in Stored
  /\ rows[n].scope = q.content.scope
  /\ rows[n].external = q.content.external
  /\ q.content.external # Nobody => rows[n] = Effect(q.integration, q.content)

\* An integration can rely on its answers for ever: the transaction named holds what was
\* sent, the customer or the draft named is there, and two answers to one request are the
\* same, although what a repetition sends is no longer what a customer says.
AnswersNameTheirRow ==
  /\ \A a \in answered : StandsFor(a.row, a)
  /\ \A a, b \in answered : a.integration = b.integration /\ a.idem = b.idem => a.row = b.row
=============================================================================
