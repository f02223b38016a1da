--------------------------- MODULE ExternalProofs ---------------------------
(***************************************************************************)
(* What holds of the external interface for any number of users,           *)
(* integrations, keys and requests.                                        *)
(***************************************************************************)
EXTENDS External, TLAPS

(***************************************************************************)
(* Types.                                                                  *)
(***************************************************************************)

\* The rows that stand for nothing are not rows that stand for something.
LEMMA IssuedRow ==
  ASSUME NEW k \in KeyRow, k.integration \in Integrations
  PROVE  k # NoKey
BY ExternalAssumption DEF NoKey, KeyRow

LEMMA EffectIsRow ==
  ASSUME NEW i \in Integrations, NEW c \in Contents
  PROVE  Effect(i, c) \in EffectRow /\ Effect(i, c) # NoRow
BY ExternalAssumption DEF Effect, EffectRow, NoRow

\* A step that changes neither keys nor integrations nor effects keeps the types.
LEMMA AdministrationTypes ==
  ASSUME TypeOK, NEW th \in Threads, Administration(th)
  PROVE  TypeOK'
<1>1. ASSUME NEW u \in Users, SignIn(th, u)
      PROVE  TypeOK'
  BY <1>1 DEF TypeOK, SignIn, access, effects, Issued, Stored, Idle, Work
<1>2. ASSUME NEW u \in Users, NEW role \in {"admin", "other"}, NEW active \in BOOLEAN,
             SaveUser(th, u, role, active)
      PROVE  TypeOK'
  <2>1. users' \in [Users -> UserRow]
    BY <1>2 DEF TypeOK, SaveUser, UserRow
  <2>2. work' \in [Threads -> Work] /\ \A t \in Threads : work'[t].key # Nobody => work'[t] = work[t]
    BY <1>2 DEF TypeOK, SaveUser, Administers, Idle, Work
  <2> QED
    BY <1>2, <2>1, <2>2 DEF TypeOK, SaveUser, Administers, effects, Issued, Stored
<1>3. ASSUME NEW i \in Integrations, NEW state \in {"enabled", "disabled"},
             SaveIntegration(th, i, state)
      PROVE  TypeOK'
  <2>1. /\ integrations' \in [Integrations -> {"absent", "enabled", "disabled"}]
        /\ \A j \in Integrations : integrations[j] # "absent" => integrations'[j] # "absent"
    BY <1>3 DEF TypeOK, SaveIntegration
  <2>2. work' \in [Threads -> Work] /\ \A t \in Threads : work'[t].key # Nobody => work'[t] = work[t]
    BY <1>3 DEF TypeOK, SaveIntegration, Administers, Idle, Work
  <2> QED
    BY <1>3, <2>1, <2>2 DEF TypeOK, SaveIntegration, Administers, effects, Issued, Stored
<1>4. ASSUME NEW x \in KeyIds, NEW i \in Integrations, NEW scopes \in Grants,
             IssueKey(th, x, i, scopes)
      PROVE  TypeOK'
  <2> DEFINE k == [integration |-> i, creator |-> work[th].user, scopes |-> scopes, over |-> FALSE]
  <2>1. k \in KeyRow /\ k.integration = i /\ k.creator \in Users
    <3>1. work[th].user \in Users
      BY <1>4 DEF TypeOK, IssueKey, Administers, Work
    <3> QED
      BY <3>1, ExternalAssumption DEF KeyRow
  <2>2. k # NoKey
    BY <2>1, IssuedRow
  <2>3. /\ keys' = [keys EXCEPT ![x] = k]
        /\ integrations[i] = "enabled"
        /\ integrations' = integrations
    BY <1>4 DEF IssueKey, Issuable
  <2>4. keys' \in [KeyIds -> KeyRow] /\ keys'[x] = k /\ \A y \in KeyIds \ {x} : keys'[y] = keys[y]
    BY <2>1, <2>3 DEF TypeOK
  <2>5. Issued' = Issued \cup {x}
    BY <2>2, <2>4 DEF Issued
  <2>6. work' \in [Threads -> Work] /\ \A t \in Threads : work'[t].key # Nobody => work'[t] = work[t]
    BY <1>4 DEF TypeOK, IssueKey, Administers, Idle, Work
  <2>7. \A y \in Issued' : /\ keys'[y].integration \in Integrations
                           /\ integrations'[keys'[y].integration] # "absent"
                           /\ keys'[y].creator \in Users
    BY <2>1, <2>3, <2>4, <2>5 DEF TypeOK, Issued
  <2>8. \A t \in Threads : work'[t].key # Nobody => work'[t].key \in Issued'
    BY <2>5, <2>6 DEF TypeOK
  <2> QED
    BY <1>4, <2>4, <2>6, <2>7, <2>8 DEF TypeOK, IssueKey, Administers, effects, Stored
<1>5. ASSUME NEW x \in KeyIds, Revoke(th, x)
      PROVE  TypeOK'
  <2>1. /\ keys' \in [KeyIds -> KeyRow]
        /\ Issued' = Issued
        /\ \A y \in Issued : /\ keys'[y].integration = keys[y].integration
                             /\ keys'[y].creator = keys[y].creator
    <3> DEFINE k == [integration |-> keys[x].integration, creator |-> keys[x].creator,
                     scopes |-> keys[x].scopes, over |-> TRUE]
    <3>1. k \in KeyRow /\ k.integration \in Integrations
      BY <1>5 DEF TypeOK, Revoke, KeyRow
    <3>2. k # NoKey
      BY <3>1, IssuedRow
    <3>3. keys' = [keys EXCEPT ![x] = k] /\ x \in Issued
      BY <1>5 DEF Revoke, Over
    <3> QED
      BY <3>1, <3>2, <3>3 DEF TypeOK, Issued
  <2>2. work' \in [Threads -> Work] /\ \A t \in Threads : work'[t].key # Nobody => work'[t] = work[t]
    BY <1>5 DEF TypeOK, Revoke, Administers, Idle, Work
  <2>3. UNCHANGED <<users, integrations, served, rows, registry, answered>>
    BY <1>5 DEF Revoke, Administers, effects
  <2> QED
    BY <2>1, <2>2, <2>3 DEF TypeOK, Stored
<1> QED
  BY <1>1, <1>2, <1>3, <1>4, <1>5 DEF Administration

\* What a new request does to the tables, for every use below.
LEMMA WriteEffects ==
  ASSUME TypeOK, NEW th \in Threads, NEW idem \in Idems, NEW content \in Contents,
         NEW n \in RowIds, NEW told \in BOOLEAN, Write(th, idem, content, n, told)
  PROVE  \E x \in Issued, i \in Integrations :
           /\ i = keys[x].integration
           /\ LiveFor(x, content.scope)
           /\ Registered(i, idem) = {}
           /\ Perform(i, content, n)
           /\ Request(i, idem, content, n) \in RequestRow
           /\ registry' = registry \cup {Request(i, idem, content, n)}
           /\ answered' \subseteq answered \cup {Request(i, idem, content, n)}
           /\ rows'[n] = Effect(i, content)
           /\ \A m \in RowIds \ {n} : rows'[m] = rows[m]
           /\ \A m \in Stored : rows'[m] = rows[m]
           /\ Stored' = Stored \cup {n}
           /\ rows' \in [RowIds -> EffectRow]
<1> DEFINE x == work[th].key
           i == keys[x].integration
           q == Request(i, idem, content, n)
<1>1. x \in Issued
  BY DEF Write, TypeOK
<1>2. i \in Integrations
  BY <1>1 DEF TypeOK
<1>3. /\ LiveFor(x, content.scope)
      /\ Registered(i, idem) = {}
      /\ Perform(i, content, n)
      /\ registry' = registry \cup {q}
      /\ answered' \subseteq answered \cup {q}
  BY DEF Write, StillLive, Register
<1>4. q \in RequestRow
  BY <1>2 DEF Request, RequestRow
<1>5. /\ rows'[n] = Effect(i, content)
      /\ \A m \in RowIds \ {n} : rows'[m] = rows[m]
      /\ \A m \in Stored : rows'[m] = rows[m]
      /\ Stored' = Stored \cup {n}
      /\ rows' \in [RowIds -> EffectRow]
  <2>1. Effect(i, content) \in EffectRow /\ Effect(i, content) # NoRow
    BY <1>2, EffectIsRow
  <2>2. CASE n \in Known(i, content) /\ Same(n, i, content) /\ UNCHANGED rows
    BY <2>2 DEF TypeOK, Known, Same, Stored
  <2>3. CASE n \in RowIds \ Stored /\ rows' = [rows EXCEPT ![n] = Effect(i, content)]
    BY <2>1, <2>3 DEF TypeOK, Stored
  <2> QED
    BY <1>3, <2>2, <2>3 DEF Perform
<1> QED
  BY <1>1, <1>2, <1>3, <1>4, <1>5

\* A repetition tells what the registry holds.
LEMMA ReplayEffects ==
  ASSUME TypeOK, NEW th \in Threads, NEW idem \in Idems, NEW content \in Contents,
         Replay(th, idem, content)
  PROVE  answered' \subseteq registry /\ UNCHANGED <<access, rows, registry>>
<1>1. PICK q \in Registered(keys[work[th].key].integration, idem) :
        /\ q.content = content
        /\ answered' = answered \cup
             {Request(keys[work[th].key].integration, idem, content, q.row)}
  BY DEF Replay
<1>2. q = Request(keys[work[th].key].integration, idem, content, q.row)
  BY <1>1 DEF Registered, Request, TypeOK, RequestRow
<1> QED
  BY <1>1, <1>2 DEF Replay, Registered, TypeOK

\* An edit changes the meaning of one customer or draft.
LEMMA EditEffects ==
  ASSUME TypeOK, NEW n \in RowIds, EditRow(n)
  PROVE  /\ UNCHANGED <<access, registry, answered, work>>
         /\ rows' \in [RowIds -> EffectRow]
         /\ Stored' = Stored
         /\ \A m \in Stored : /\ rows'[m].integration = rows[m].integration
                              /\ rows'[m].scope = rows[m].scope
                              /\ rows'[m].external = rows[m].external
         /\ \A m \in RowIds : m \notin Stored \/ rows[m].external # Nobody => rows'[m] = rows[m]
<1>1. PICK content \in Contents :
        /\ content.scope = rows[n].scope
        /\ content.external = Nobody
        /\ rows' = [rows EXCEPT ![n].meaning = content.meaning]
  BY DEF EditRow
<1>2. n \in Stored /\ rows[n].external = Nobody
  BY DEF EditRow
<1>3. PICK i \in Integrations, c \in Contents : rows[n] = Effect(i, c)
  BY <1>2 DEF TypeOK, Stored, EffectRow
<1>4. [rows[n] EXCEPT !.meaning = content.meaning] = Effect(i, content)
  <2>1. rows[n] = [integration |-> Nobody, scope |-> content.scope, external |-> Nobody,
                   meaning |-> c.meaning]
    BY <1>1, <1>2, <1>3 DEF Effect
  <2>2. Effect(i, content) = [integration |-> Nobody, scope |-> content.scope,
                              external |-> Nobody, meaning |-> content.meaning]
    BY <1>1 DEF Effect
  <2> QED
    BY <2>1, <2>2
<1>5. Effect(i, content) \in EffectRow /\ Effect(i, content) # NoRow
  BY EffectIsRow
<1>6. /\ rows'[n] = Effect(i, content)
      /\ \A m \in RowIds \ {n} : rows'[m] = rows[m]
      /\ rows' \in [RowIds -> EffectRow]
  BY <1>1, <1>4, <1>5 DEF TypeOK
<1>7. Stored' = Stored
  BY <1>2, <1>5, <1>6 DEF Stored
<1>8. /\ rows'[n].integration = rows[n].integration
      /\ rows'[n].scope = rows[n].scope
      /\ rows'[n].external = rows[n].external
  BY <1>1, <1>2, <1>3, <1>6 DEF Effect
<1> QED
  BY <1>2, <1>6, <1>7, <1>8 DEF EditRow, Stored

LEMMA ServiceTypes ==
  ASSUME TypeOK, NEW th \in Threads, Service(th)
  PROVE  TypeOK'
<1>1. ASSUME NEW x \in KeyIds, NEW scope \in Scopes, Arrive(th, x, scope)
      PROVE  TypeOK'
  BY <1>1 DEF TypeOK, Arrive, LiveFor, access, effects, Issued, Stored, Idle, Work
<1>2. ASSUME NEW idem \in Idems, NEW content \in Contents, NEW n \in RowIds,
             NEW told \in BOOLEAN, Write(th, idem, content, n, told)
      PROVE  TypeOK'
  <2>1. PICK x \in Issued, i \in Integrations :
          /\ Request(i, idem, content, n) \in RequestRow
          /\ registry' = registry \cup {Request(i, idem, content, n)}
          /\ answered' \subseteq answered \cup {Request(i, idem, content, n)}
          /\ Stored' = Stored \cup {n}
          /\ rows' \in [RowIds -> EffectRow]
    BY <1>2, WriteEffects
  <2>2. \A q \in registry' : q.row \in Stored'
    BY <2>1 DEF TypeOK, Request
  <2>3. work' \in [Threads -> Work] /\ \A t \in Threads : work'[t].key # Nobody => work'[t] = work[t]
    BY <1>2 DEF TypeOK, Write, Idle, Work
  <2>4. UNCHANGED <<users, integrations, keys, served>>
    BY <1>2 DEF Write, access
  <2> QED
    BY <2>1, <2>2, <2>3, <2>4 DEF TypeOK, Issued
<1>3. ASSUME NEW idem \in Idems, NEW content \in Contents, Replay(th, idem, content)
      PROVE  TypeOK'
  <2>1. answered' \subseteq registry /\ UNCHANGED <<access, rows, registry>>
    BY <1>3, ReplayEffects
  <2>2. work' \in [Threads -> Work] /\ \A t \in Threads : work'[t].key # Nobody => work'[t] = work[t]
    BY <1>3 DEF TypeOK, Replay, Idle, Work
  <2> QED
    BY <2>1, <2>2 DEF TypeOK, access, Issued, Stored
<1>4. CASE End(th)
  BY <1>4 DEF TypeOK, End, access, effects, Issued, Stored, Idle, Work
<1> QED
  BY <1>1, <1>2, <1>3, <1>4 DEF Service

LEMMA Types == Spec => []TypeOK
<1>1. Init => TypeOK
  <2> SUFFICES ASSUME Init PROVE TypeOK
    OBVIOUS
  <2>1. users \in [Users -> UserRow]
    BY DEF Init, UserRow, NoUser
  <2>2. keys \in [KeyIds -> KeyRow] /\ Issued = {}
    BY DEF Init, KeyRow, NoKey, Issued
  <2> QED
    BY <2>1, <2>2 DEF Init, TypeOK, EffectRow, Idle, Work
<1>2. ASSUME TypeOK, [Next]_vars
      PROVE  TypeOK'
  <2>1. ASSUME NEW th \in Threads, Administration(th) \/ Service(th)
        PROVE  TypeOK'
    BY <1>2, <2>1, AdministrationTypes, ServiceTypes
  <2>2. ASSUME NEW x \in KeyIds, Expire(x)
        PROVE  TypeOK'
    <3> DEFINE k == [integration |-> keys[x].integration, creator |-> keys[x].creator,
                     scopes |-> keys[x].scopes, over |-> TRUE]
    <3>1. k \in KeyRow /\ k.integration \in Integrations
      BY <1>2, <2>2 DEF TypeOK, Expire, KeyRow
    <3>2. k # NoKey
      BY <3>1, IssuedRow
    <3>3. keys' = [keys EXCEPT ![x] = k] /\ x \in Issued
      BY <2>2 DEF Expire, Over
    <3>4. /\ keys' \in [KeyIds -> KeyRow]
          /\ Issued' = Issued
          /\ \A y \in Issued : /\ keys'[y].integration = keys[y].integration
                               /\ keys'[y].creator = keys[y].creator
      BY <1>2, <3>1, <3>2, <3>3 DEF TypeOK, Issued
    <3>5. UNCHANGED <<users, integrations, served, rows, registry, answered, work>>
      BY <2>2 DEF Expire, effects
    <3> QED
      BY <1>2, <3>4, <3>5 DEF TypeOK, Stored
  <2>3. ASSUME NEW flag \in BOOLEAN, SetServed(flag)
        PROVE  TypeOK'
    BY <1>2, <2>3 DEF TypeOK, SetServed, effects, Issued, Stored
  <2>4. CASE UNCHANGED vars
    BY <1>2, <2>4 DEF TypeOK, vars, access, effects, Issued, Stored
  <2>5. ASSUME NEW n \in RowIds, EditRow(n)
        PROVE  TypeOK'
    <3>1. /\ UNCHANGED <<access, registry, answered, work>>
          /\ rows' \in [RowIds -> EffectRow]
          /\ Stored' = Stored
      BY <1>2, <2>5, EditEffects
    <3> QED
      BY <1>2, <3>1 DEF TypeOK, access, Issued
  <2> QED
    BY <1>2, <2>1, <2>2, <2>3, <2>4, <2>5 DEF Next
<1> QED
  BY <1>1, <1>2, PTL DEF Spec

\* Every table of the interface holds rows of its own shape, keys belong to integrations and
\* creators that exist, and executed requests to rows that exist.
THEOREM ExternalTypeCorrect == Spec => []TypeOK
BY Types

(***************************************************************************)
(* Users.                                                                  *)
(***************************************************************************)

\* Administrators who change each other at the same time, and with an authority they no
\* longer have, never leave the company without an active one.
THEOREM AnAdministratorRemains == Spec => []AnAdminRemains
<1>1. Init => AnAdminRemains
  BY DEF Init, AnAdminRemains, Admins, AdminsAmong
<1>2. ASSUME TypeOK, AnAdminRemains, [Next]_vars
      PROVE  AnAdminRemains'
  <2>1. ASSUME NEW th \in Threads, NEW u \in Users, NEW role \in {"admin", "other"},
               NEW active \in BOOLEAN, SaveUser(th, u, role, active)
        PROVE  AnAdminRemains'
    <3>1. users' = [users EXCEPT ![u] = [role |-> role, active |-> active]]
      BY <2>1 DEF SaveUser
    <3>2. \A v \in Users \ {u} : users'[v] = users[v]
      BY <1>2, <3>1 DEF TypeOK
    <3>3. CASE role = "admin" /\ active
      <4>1. users'[u].role = "admin" /\ users'[u].active
        BY <1>2, <3>1, <3>3 DEF TypeOK
      <4> QED
        BY <4>1 DEF AnAdminRemains, Admins, AdminsAmong
    <3>4. CASE ~(role = "admin" /\ active) /\ u \in Admins
      <4>1. PICK v \in Users \ {u} : v \in Admins
        BY <2>1, <3>4 DEF SaveUser, Replaceable
      <4>2. v \in Admins'
        BY <3>2, <4>1 DEF Admins, AdminsAmong
      <4> QED
        BY <4>2 DEF AnAdminRemains
    <3>5. CASE u \notin Admins
      <4>1. PICK v \in Admins : v # u
        BY <1>2, <3>5 DEF AnAdminRemains
      <4>2. v \in Admins'
        BY <3>2, <4>1 DEF Admins, AdminsAmong
      <4> QED
        BY <4>2 DEF AnAdminRemains
    <3> QED
      BY <3>3, <3>4, <3>5
  <2>2. CASE UNCHANGED users
    BY <1>2, <2>2 DEF AnAdminRemains, Admins, AdminsAmong
  <2> QED
    BY <1>2, <2>1, <2>2 DEF Next, vars, access, Administration, Service, SignIn, SaveIntegration,
       IssueKey, Revoke, Arrive, Write, Replay, End, EditRow, Expire, SetServed
<1> QED
  BY <1>1, <1>2, Types, PTL DEF Spec

(***************************************************************************)
(* Requests.                                                               *)
(***************************************************************************)

\* Only a new request creates, and users edit only customers and drafts.
LEMMA OnlyWritesCreate ==
  ASSUME TypeOK, [Next]_vars
  PROVE  \/ \E th \in Threads, idem \in Idems, content \in Contents, n \in RowIds,
                told \in BOOLEAN : Write(th, idem, content, n, told)
         \/ \E n \in RowIds : EditRow(n)
         \/ UNCHANGED <<rows, registry>>
BY ReplayEffects DEF Next, vars, access, effects, Administration, Service, SignIn, SaveUser,
   SaveIntegration, IssueKey, Revoke, Administers, Arrive, Replay, End, Expire, SetServed

\* Whatever becomes of a key, its creator, its integration or the subscription between the
\* authentication of a request and its turn, what it writes is covered when it is written.
THEOREM EveryWriteIsAuthorised == Spec => WritesAreAuthorised
<1> DEFINE Covered ==
      \A n \in RowIds :
        rows'[n] # rows[n] /\ (n \in Stored => rows[n].external # Nobody) =>
        \E x \in KeyIds :
          /\ LiveFor(x, rows'[n].scope)
          /\ rows'[n].integration \in {Nobody, keys[x].integration}
<1>1. ASSUME TypeOK, [Next]_vars
      PROVE  Covered
  <2>1. ASSUME NEW th \in Threads, NEW idem \in Idems, NEW content \in Contents, NEW n \in RowIds,
               NEW told \in BOOLEAN, Write(th, idem, content, n, told)
        PROVE  Covered
    <3>1. PICK x \in Issued, i \in Integrations :
            /\ i = keys[x].integration
            /\ LiveFor(x, content.scope)
            /\ rows'[n] = Effect(i, content)
            /\ \A m \in RowIds \ {n} : rows'[m] = rows[m]
      BY <1>1, <2>1, WriteEffects
    <3>2. rows'[n].scope = content.scope /\ rows'[n].integration \in {Nobody, i}
      BY <3>1 DEF Effect
    <3> QED
      BY <3>1, <3>2 DEF Issued
  <2>2. CASE UNCHANGED <<rows, registry>>
    BY <2>2
  <2>3. ASSUME NEW n \in RowIds, EditRow(n)
        PROVE  Covered
    BY <1>1, <2>3, EditEffects
  <2> QED
    BY <1>1, <2>1, <2>2, <2>3, OnlyWritesCreate
<1>2. ASSUME TypeOK, [Next]_vars
      PROVE  [Covered]_vars
  BY <1>1, <1>2
<1> QED
  BY <1>2, Types, PTL DEF Spec, WritesAreAuthorised

\* The inductive invariant: requests have one effect, and the row of each stands for it.
RegistryIsTrue == \A q \in registry : StandsFor(q.row, q)

LEMMA RequestStep ==
  ASSUME TypeOK, TypeOK', RegistryIsTrue, OneEffectPerRequest, [Next]_vars
  PROVE  RegistryIsTrue' /\ OneEffectPerRequest'
<1>1. ASSUME NEW th \in Threads, NEW idem \in Idems, NEW content \in Contents, NEW n \in RowIds,
             NEW told \in BOOLEAN, Write(th, idem, content, n, told)
      PROVE  RegistryIsTrue' /\ OneEffectPerRequest'
  <2>1. PICK x \in Issued, i \in Integrations :
          /\ Registered(i, idem) = {}
          /\ Perform(i, content, n)
          /\ Request(i, idem, content, n) \in RequestRow
          /\ registry' = registry \cup {Request(i, idem, content, n)}
          /\ rows'[n] = Effect(i, content)
          /\ \A m \in Stored : rows'[m] = rows[m]
          /\ Stored' = Stored \cup {n}
    BY <1>1, WriteEffects
  <2> DEFINE q == Request(i, idem, content, n)
  <2>2. /\ q.integration = i
        /\ q.idem = idem
        /\ q.content = content
        /\ q.row = n
    BY DEF Request
  <2>3. \A r \in registry : r.row \in Stored
    BY DEF TypeOK
  <2> HIDE DEF q
  <2>4. registry' = registry \cup {q}
    BY <2>1 DEF q
  <2>5. RegistryIsTrue'
    <3>1. StandsFor(n, q)'
      BY <2>1, <2>2 DEF StandsFor, Effect
    <3>2. \A r \in registry : StandsFor(r.row, r)'
      BY <2>1, <2>3 DEF RegistryIsTrue, StandsFor, Effect
    <3> QED
      BY <2>2, <2>4, <3>1, <3>2 DEF RegistryIsTrue
  <2>6. \A r, s \in registry' : r.integration = s.integration /\ r.idem = s.idem => r = s
    <3>1. \A r \in registry : ~(r.integration = i /\ r.idem = idem)
      BY <2>1 DEF Registered
    <3> QED
      BY <2>2, <2>4, <3>1 DEF OneEffectPerRequest
  <2>7. \A m \in Stored' : \E r \in registry' : r.row = m
    BY <2>1, <2>2, <2>4 DEF OneEffectPerRequest
  <2>8. ASSUME NEW r \in registry, r.row = n
        PROVE  content.external # Nobody /\ r.content.external # Nobody
    <3>1. n \in Known(i, content)
      BY <2>1, <2>3, <2>8 DEF Perform
    <3>2. rows[n].external = content.external /\ content.external # Nobody
      BY <3>1 DEF Known
    <3>3. rows[n].external = r.content.external
      BY <2>8 DEF RegistryIsTrue, StandsFor
    <3> QED
      BY <3>2, <3>3
  <2>9. \A r, s \in registry' : r.row = s.row /\ r.content.external = Nobody => r = s
    BY <2>2, <2>4, <2>8 DEF OneEffectPerRequest
  <2>10. \A l, m \in Stored' :
           /\ rows'[l].external # Nobody
           /\ rows'[l].integration = rows'[m].integration
           /\ rows'[l].external = rows'[m].external
           => l = m
    <3>1. CASE n \in Stored
      <4>1. \A m \in Stored' : m \in Stored /\ rows'[m] = rows[m]
        BY <2>1, <3>1
      <4> QED
        BY <4>1 DEF OneEffectPerRequest
    <3>2. CASE n \notin Stored
      <4>1. Known(i, content) = {}
        BY <2>1, <3>2 DEF Perform, Known
      <4>2. /\ rows'[n].external = content.external
            /\ content.external # Nobody => rows'[n].integration = i
        BY <2>1 DEF Effect
      <4>3. \A m \in Stored :
              ~(/\ rows'[n].external # Nobody
                /\ rows'[n].integration = rows'[m].integration
                /\ rows'[n].external = rows'[m].external)
        BY <2>1, <4>1, <4>2 DEF Known
      <4>4. \A l, m \in Stored :
              /\ rows'[l].external # Nobody
              /\ rows'[l].integration = rows'[m].integration
              /\ rows'[l].external = rows'[m].external
              => l = m
        BY <2>1 DEF OneEffectPerRequest
      <4> QED
        BY <2>1, <4>3, <4>4
    <3> QED
      BY <3>1, <3>2
  <2> QED
    BY <2>5, <2>6, <2>7, <2>9, <2>10 DEF OneEffectPerRequest
<1>2. CASE UNCHANGED <<rows, registry>>
  BY <1>2 DEF RegistryIsTrue, StandsFor, OneEffectPerRequest, Stored, Effect
<1>3. ASSUME NEW n \in RowIds, EditRow(n)
      PROVE  RegistryIsTrue' /\ OneEffectPerRequest'
  <2>1. /\ registry' = registry
        /\ Stored' = Stored
        /\ \A m \in Stored : /\ rows'[m].integration = rows[m].integration
                             /\ rows'[m].scope = rows[m].scope
                             /\ rows'[m].external = rows[m].external
        /\ \A m \in Stored : rows[m].external # Nobody => rows'[m] = rows[m]
    BY <1>3, EditEffects DEF Stored
  <2>2. RegistryIsTrue'
    BY <2>1 DEF RegistryIsTrue, StandsFor, Effect
  <2> QED
    BY <2>1, <2>2 DEF OneEffectPerRequest
<1> QED
  BY <1>1, <1>2, <1>3, OnlyWritesCreate

LEMMA RequestsHold == Spec => [](TypeOK /\ RegistryIsTrue /\ OneEffectPerRequest)
<1>1. Init => RegistryIsTrue /\ OneEffectPerRequest
  BY DEF Init, RegistryIsTrue, OneEffectPerRequest, Stored
<1> QED
  BY <1>1, Types, RequestStep, PTL DEF Spec

\* Repetitions, rotated keys and lost answers never make a request have two effects, nor one
\* identifier two transactions, for any number of integrations that share no registry.
THEOREM RequestsHaveOneEffect == Spec => []OneEffectPerRequest
BY RequestsHold, PTL

\* Two answers to one request name the same row: the transaction that was sent, or a customer
\* or a draft that is still there, whatever users have made of it.
THEOREM AnswersCanBeTrusted == Spec => []AnswersNameTheirRow
<1>1. TypeOK /\ RegistryIsTrue /\ OneEffectPerRequest => AnswersNameTheirRow
  BY DEF TypeOK, RegistryIsTrue, OneEffectPerRequest, AnswersNameTheirRow
<1> QED
  BY <1>1, RequestsHold, PTL
=============================================================================
