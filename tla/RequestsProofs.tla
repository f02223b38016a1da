--------------------------- MODULE RequestsProofs ---------------------------
(***************************************************************************)
(* What holds of overlapping, repeated and cut requests for any number of  *)
(* tabs, threads, invoices, operations and troubles.                       *)
(***************************************************************************)
EXTENDS Requests, SumLemmas

(***************************************************************************)
(* The server: requests, the lock and what a transaction knows.            *)
(***************************************************************************)
IsRequest(r) == r.tab \in Tabs /\ r.what \in Wishes

WorkOK ==
  /\ DOMAIN work = Threads
  /\ \A r \in inflight : IsRequest(r)
  /\ \A t \in Threads :
       \/ work[t] = Idle
       \/ work[t].pc \in {"lock", "read", "commit"} /\ IsRequest(work[t].req)
       \/ work[t].pc = "reply" /\ IsRequest(work[t].req) /\ work[t].answer \in {"told", "refused"}

\* Whoever reads or writes holds the lock, and writes what the present rows call for.
LockOK ==
  /\ \A t \in Threads : work[t].pc \in {"read", "commit"} => holder = t
  /\ \A t \in Threads : work[t].pc = "commit" =>
       work[t].seen = books /\ Decided(books, work[t].req) = "write"

BooksOK ==
  /\ books.next \in Nat \ {0}
  /\ DOMAIN books.numbers = Invoices
  /\ \A m \in books.memory : m.what \in Wishes
  /\ \A p \in books.payments : p.tab \in Tabs
  /\ OneEffectPerKey

ServerInv == WorkOK /\ LockOK /\ BooksOK

LEMMA ServerInit == Init => ServerInv
<1> SUFFICES ASSUME Init PROVE ServerInv
  OBVIOUS
<1>1. WorkOK
  BY DEF Init, WorkOK
<1>2. LockOK
  BY DEF Init, LockOK, Idle
<1>3. BooksOK
  BY DEF Init, Blank, BooksOK, OneEffectPerKey
<1> QED BY <1>1, <1>2, <1>3 DEF ServerInv

\* Requests come and go without touching the server.
LEMMA BrowserKeepsServer ==
  ASSUME ServerInv, UNCHANGED server, \A r \in inflight' : IsRequest(r)
  PROVE  ServerInv'
BY DEF ServerInv, server, WorkOK, LockOK, BooksOK, OneEffectPerKey

LEMMA SendKeepsServer ==
  ASSUME ServerInv, NEW tab \in Tabs, NEW what \in Wishes, NEW intent, Send(tab, what, intent)
  PROVE  ServerInv'
<1> DEFINE r == [tab |-> tab, call |-> made[tab] + 1, key |-> OperationKey(tab, what),
                 what |-> what, intent |-> intent]
<1>1. UNCHANGED server /\ inflight' = inflight \cup {r}
  BY DEF Send
<1>2. IsRequest(r)
  BY DEF IsRequest
<1> HIDE DEF r
<1> QED BY <1>1, <1>2, BrowserKeepsServer DEF ServerInv, WorkOK

\* A thread goes on without touching the rows and without taking the lock from another.
LEMMA WorkKeepsServer ==
  ASSUME ServerInv, NEW t \in Threads, NEW w,
         \/ w = Idle
         \/ w.pc = "lock" /\ IsRequest(w.req)
         \/ w.pc = "reply" /\ IsRequest(w.req) /\ w.answer \in {"told", "refused"},
         work' = [work EXCEPT ![t] = w], books' = books, inflight' \subseteq inflight,
         holder' = holder \/ (holder = t /\ holder' = Nobody)
  PROVE  ServerInv'
<1>1. /\ DOMAIN work' = Threads
      /\ work'[t] = w
      /\ \A u \in Threads \ {t} : work'[u] = work[u]
  BY DEF ServerInv, WorkOK
<1>2. WorkOK'
  BY <1>1 DEF ServerInv, WorkOK
<1>3. w.pc \notin {"read", "commit"}
  BY DEF Idle
<1>4. LockOK'
  BY <1>1, <1>3 DEF ServerInv, LockOK
<1>5. BooksOK'
  BY DEF ServerInv, BooksOK, OneEffectPerKey
<1> QED BY <1>2, <1>4, <1>5 DEF ServerInv

LEMMA LockKeepsServer ==
  ASSUME ServerInv, NEW t \in Threads, Lock(t)
  PROVE  ServerInv'
<1>1. /\ DOMAIN work' = Threads
      /\ work'[t] = [pc |-> "read", req |-> work[t].req]
      /\ \A u \in Threads \ {t} : work'[u] = work[u]
      /\ work[t].pc = "lock"
      /\ holder = Nobody /\ holder' = t /\ books' = books /\ inflight' = inflight
  BY DEF ServerInv, WorkOK, Lock, Grantable
<1>2. WorkOK'
  BY <1>1 DEF ServerInv, WorkOK, Idle
<1>3. \A u \in Threads : work[u].pc \notin {"read", "commit"}
  BY <1>1, RequestsAssumption DEF ServerInv, LockOK
<1>4. LockOK'
  BY <1>1, <1>3 DEF LockOK
<1>5. BooksOK'
  BY <1>1 DEF ServerInv, BooksOK, OneEffectPerKey
<1> QED BY <1>2, <1>4, <1>5 DEF ServerInv

LEMMA ReadKeepsServer ==
  ASSUME ServerInv, NEW t \in Threads, Read(t)
  PROVE  ServerInv'
<1> DEFINE answer == Decided(books, work[t].req)
<1>1. work[t].pc = "read" /\ IsRequest(work[t].req) /\ holder = t
  BY DEF ServerInv, WorkOK, LockOK, Read, Idle
<1>2. CASE answer = "write"
  <2>1. /\ DOMAIN work' = Threads
        /\ work'[t] = [pc |-> "commit", req |-> work[t].req, seen |-> books]
        /\ \A u \in Threads \ {t} : work'[u] = work[u]
        /\ holder' = holder /\ books' = books /\ inflight' = inflight
    BY <1>2 DEF ServerInv, WorkOK, Read
  <2>2. WorkOK'
    BY <1>1, <2>1 DEF ServerInv, WorkOK
  <2>3. LockOK'
    BY <1>1, <1>2, <2>1 DEF ServerInv, LockOK
  <2>4. BooksOK'
    BY <2>1 DEF ServerInv, BooksOK, OneEffectPerKey
  <2> QED BY <2>2, <2>3, <2>4 DEF ServerInv
<1>3. CASE answer # "write"
  <2> DEFINE w == [pc |-> "reply", req |-> work[t].req, answer |-> answer]
  <2>1. /\ work' = [work EXCEPT ![t] = w] /\ books' = books /\ inflight' = inflight
        /\ holder' = Nobody
    BY <1>1, <1>3 DEF Read, Freed
  <2>2. w.pc = "reply" /\ IsRequest(w.req) /\ w.answer \in {"told", "refused"}
    BY <1>1, <1>3 DEF Decided
  <2> HIDE DEF w, answer
  <2> QED BY <1>1, <2>1, <2>2, WorkKeepsServer
<1> QED BY <1>2, <1>3

\* A service that the database lets through writes one effect for a key that had none.
LEMMA WritingKeepsKeys ==
  ASSUME BooksOK, NEW r, IsRequest(r), books' = Written(books, books, r),
         \A m \in books.memory : m.key # r.key
  PROVE  BooksOK'
<1>1. r.what.action \in {"validate", "payment"} /\ r.what.invoice \in Invoices
  BY DEF IsRequest, Wishes
<1> DEFINE record == [key |-> r.key, what |-> r.what]
<1>2. books'.memory = books.memory \cup {record}
  BY DEF Written, Rows, Remembered
<1>3. record.key = r.key /\ record.what = r.what
  OBVIOUS
<1>4. CASE r.what.action = "validate"
  <2>1. /\ books'.numbers = [books.numbers EXCEPT ![r.what.invoice] = books.next]
        /\ books'.next = books.next + 1
        /\ books'.payments = books.payments
    BY <1>4 DEF Written, Rows, Numbered, Taken
  <2>2. /\ DOMAIN books'.numbers = Invoices
        /\ books'.numbers[r.what.invoice] > 0
        /\ \A i \in Invoices : books.numbers[i] > 0 => books'.numbers[i] > 0
    BY <1>1, <2>1 DEF BooksOK
  <2> HIDE DEF record
  <2>3. \A m \in books.memory : m.what \in Wishes /\ m.what.invoice \in Invoices
    BY DEF BooksOK, Wishes
  <2>4. OneEffectPerKey'
    BY <1>2, <1>3, <1>4, <2>1, <2>2, <2>3 DEF BooksOK, OneEffectPerKey
  <2>5. \A m \in books'.memory : m.what \in Wishes
    BY <1>2, <1>3, <2>3 DEF IsRequest
  <2> QED BY <2>1, <2>2, <2>4, <2>5 DEF BooksOK
<1>5. CASE r.what.action = "payment"
  <2> DEFINE p == [id |-> Cardinality(books.payments) + 1, key |-> r.key, tab |-> r.tab,
                   intent |-> r.intent, what |-> r.what]
  <2>1. /\ books'.numbers = books.numbers
        /\ books'.next = books.next
        /\ books'.payments = books.payments \cup {p}
    BY <1>5 DEF Written, Rows, Numbered, Taken
  <2>2. p.key = r.key /\ p.what = r.what
    OBVIOUS
  <2>3. \A q \in books.payments : q.key # r.key
    BY DEF BooksOK, OneEffectPerKey
  <2> HIDE DEF record, p
  <2>4. \A m \in books'.memory : m.what \in Wishes
    BY <1>2, <1>3 DEF BooksOK, IsRequest
  <2>5. OneEffectPerKey'
    <3>1. \A q1, q2 \in books'.payments : q1.key = q2.key => q1 = q2
      BY <2>1, <2>2, <2>3 DEF BooksOK, OneEffectPerKey
    <3>2. \A m, n \in books'.memory : m.key = n.key => m = n
      BY <1>2, <1>3 DEF BooksOK, OneEffectPerKey
    <3>3. \A q \in books'.payments : [key |-> q.key, what |-> q.what] \in books'.memory
      <4>1. [key |-> p.key, what |-> p.what] = record
        BY <2>2 DEF record
      <4> QED BY <1>2, <2>1, <4>1 DEF BooksOK, OneEffectPerKey
    <3>4. \A m \in books'.memory :
            IF m.what.action = "payment"
              THEN \E q \in books'.payments : q.key = m.key /\ q.what = m.what
              ELSE books'.numbers[m.what.invoice] > 0
      BY <1>2, <1>3, <1>5, <2>1, <2>2 DEF BooksOK, OneEffectPerKey
    <3> QED BY <3>1, <3>2, <3>3, <3>4 DEF OneEffectPerKey
  <2>6. \A q \in books'.payments : q.tab \in Tabs
    BY <2>1 DEF BooksOK, IsRequest, p
  <2> QED BY <2>1, <2>4, <2>5, <2>6 DEF BooksOK
<1> QED BY <1>1, <1>4, <1>5

LEMMA CommitKeepsServer ==
  ASSUME ServerInv, NEW t \in Threads, Commit(t)
  PROVE  /\ ServerInv'
         /\ work[t].seen = books
         /\ \A m \in books.memory : m.key # work[t].req.key
<1> DEFINE r == work[t].req
<1>1. /\ work[t].pc = "commit" /\ IsRequest(r) /\ holder = t
      /\ work[t].seen = books /\ Decided(books, r) = "write"
  BY DEF ServerInv, WorkOK, LockOK, Commit, Idle
<1>2. \A m \in books.memory : m.key # r.key
  BY <1>1 DEF Decided
<1>3. BooksOK'
  <2>1. CASE Passes(books, work[t].seen, r)
    <3>1. books' = Written(books, books, r)
      BY <1>1, <2>1 DEF Commit
    <3> HIDE DEF r
    <3> QED BY <1>1, <1>2, <3>1, WritingKeepsKeys DEF ServerInv
  <2>2. CASE ~Passes(books, work[t].seen, r)
    <3>1. books' = books
      BY <2>2 DEF Commit
    <3> QED BY <3>1 DEF ServerInv, BooksOK, OneEffectPerKey
  <2> QED BY <2>1, <2>2
<1>4. /\ DOMAIN work' = Threads
      /\ work'[t].pc = "reply" /\ work'[t].req = r /\ work'[t].answer \in {"told", "refused"}
      /\ \A u \in Threads \ {t} : work'[u] = work[u]
      /\ inflight' = inflight /\ holder' = Nobody
  BY <1>1 DEF ServerInv, WorkOK, Commit, Freed
<1>5. WorkOK'
  BY <1>1, <1>4 DEF ServerInv, WorkOK
<1>6. \A u \in Threads \ {t} : work[u].pc \notin {"read", "commit"}
  BY <1>1 DEF ServerInv, LockOK
<1>7. LockOK'
  BY <1>4, <1>6 DEF LockOK
<1> QED BY <1>1, <1>2, <1>3, <1>5, <1>7 DEF ServerInv

(***************************************************************************)
(* The browser: whatever exists of an operation of a user, a request on    *)
(* its way or being served or a payment, left a trace of who wanted it.    *)
(***************************************************************************)
TraceOf(r) == [tab |-> r.tab, intent |-> r.intent, key |-> r.key]
Served == {t \in Threads : work[t] # Idle}
Traces ==
  {TraceOf(r) : r \in inflight} \cup {TraceOf(work[t].req) : t \in Served}
    \cup {TraceOf(p) : p \in books.payments}

States == {"none", "asking", "unknown", "told", "refused", "left"}
GoalRow == [intent : Nat, what : Wishes \cup {Nothing}, state : States]

TabOK(tab) ==
  /\ made[tab] \in Nat
  /\ DOMAIN stored[tab] = Scopes
  /\ goal[tab] \in GoalRow
  /\ goal[tab].what \in Wishes \/ (goal[tab].state = "none" /\ waiting[tab] = {} /\ page[tab] = 0)
  /\ \A r \in waiting[tab] : r.tab = tab
  /\ \A x \in Traces : x.tab = tab => x.intent \in Nat /\ x.intent <= goal[tab].intent

\* A page that nobody left shows the only call of its tab, and while its user does not
\* know the outcome the key of his operation is the stored one.
Keyed(tab) ==
  LET kept == stored[tab][Scope(goal[tab].what)] IN
  /\ kept.what = goal[tab].what
  /\ \A x \in Traces : x.tab = tab /\ x.intent = goal[tab].intent => x.key = kept.key
Patient(tab) ==
  /\ \A r \in waiting[tab] : r.call = page[tab]
  /\ \A r, s \in waiting[tab] : r = s
  /\ page[tab] = 0 => waiting[tab] = {}
  /\ goal[tab].state = "unknown" \/ page[tab] # 0 => Keyed(tab)
  /\ \A x, y \in Traces : x.tab = tab /\ y.tab = tab /\ x.intent = y.intent => x.key = y.key

TabsOK ==
  /\ DOMAIN page = Tabs /\ DOMAIN stored = Tabs /\ DOMAIN made = Tabs
  /\ DOMAIN goal = Tabs /\ DOMAIN left = Tabs /\ DOMAIN waiting = Tabs
  /\ \A tab \in Tabs : TabOK(tab) /\ (~left[tab] => Patient(tab))

Inv == ServerInv /\ TabsOK

LEMMA InitInv == Init => Inv
<1> SUFFICES ASSUME Init PROVE Inv
  OBVIOUS
<1>1. Traces = {}
  BY DEF Init, Blank, Traces, Served
<1>2. ASSUME NEW tab \in Tabs PROVE TabOK(tab) /\ Patient(tab)
  <2>1. goal[tab] = [intent |-> 0, what |-> Nothing, state |-> "none"] /\ waiting[tab] = {}
        /\ made[tab] = 0 /\ page[tab] = 0 /\ stored[tab] = [scope \in Scopes |-> Unused]
    BY DEF Init
  <2> QED BY <1>1, <2>1 DEF TabOK, Patient, GoalRow, States
<1>3. TabsOK
  BY <1>2 DEF Init, TabsOK
<1> QED BY <1>3, ServerInit DEF Inv

\* The server only turns a trace into another of the same operation, or drops it.
LEMMA ServedTraces ==
  ASSUME inflight' \subseteq inflight, books'.payments = books.payments,
         \A t \in Threads : work'[t] = Idle \/ work'[t].req \in inflight
                            \/ (work[t] # Idle /\ work'[t].req = work[t].req)
  PROVE  Traces' \subseteq Traces
<1>1. ASSUME NEW t \in Threads, work'[t] # Idle PROVE TraceOf(work'[t].req) \in Traces
  BY <1>1 DEF Traces, Served
<1>2. ASSUME NEW p \in books'.payments PROVE TraceOf(p) \in Traces
  BY <1>2 DEF Traces
<1>3. ASSUME NEW r \in inflight' PROVE TraceOf(r) \in Traces
  BY <1>3 DEF Traces
<1>4. Traces' = {TraceOf(r) : r \in inflight'} \cup {TraceOf(work'[t].req) : t \in Served'}
                  \cup {TraceOf(p) : p \in books'.payments}
  BY DEF Traces, TraceOf
<1>5. \A t \in Served' : t \in Threads /\ work'[t] # Idle
  BY DEF Served, Idle
<1> QED BY <1>1, <1>2, <1>3, <1>4, <1>5

\* A tab that nothing happens to.
LEMMA QuietTab ==
  ASSUME NEW tab \in Tabs, TabOK(tab), ~left[tab] => Patient(tab), 
         \A x \in Traces' : x.tab = tab => x \in Traces,
         goal'[tab] = goal[tab], made'[tab] = made[tab], stored'[tab] = stored[tab],
         waiting'[tab] = waiting[tab], page'[tab] = page[tab], left'[tab] = left[tab]
  PROVE  TabOK(tab)' /\ (~left'[tab] => Patient(tab)')
<1>1. TabOK(tab)'
  BY DEF TabOK
<1>2. ASSUME ~left'[tab] PROVE Patient(tab)'
  <2>1. Patient(tab)
    BY <1>2
  <2>2. Keyed(tab) => Keyed(tab)'
    BY DEF Keyed
  <2> QED BY <2>1, <2>2 DEF Patient
<1> QED BY <1>1, <1>2

LEMMA SendKeepsTabs ==
  ASSUME Inv, NEW tab \in Tabs, NEW what \in Wishes, NEW intent \in Nat,
         Send(tab, what, intent),
         \/ intent = goal[tab].intent + 1
         \/ intent = goal[tab].intent /\ what = goal[tab].what /\ goal[tab].state = "unknown"
  PROVE  TabsOK'
<1> DEFINE call == made[tab] + 1
           key == OperationKey(tab, what)
           r == [tab |-> tab, call |-> call, key |-> key, what |-> what, intent |-> intent]
           x == [tab |-> tab, intent |-> intent, key |-> key]
<1>1. /\ page[tab] = 0
      /\ page' = [page EXCEPT ![tab] = call]
      /\ made' = [made EXCEPT ![tab] = call]
      /\ waiting' = [waiting EXCEPT ![tab] = @ \cup {r}]
      /\ goal' = [goal EXCEPT ![tab] = [intent |-> intent, what |-> what, state |-> "asking"]]
      /\ stored' = [stored EXCEPT ![tab][Scope(what)] = [key |-> key, what |-> what]]
      /\ left' = left
  BY DEF Send
<1>2. Traces' \subseteq Traces \cup {x}
  <2>1. inflight' = inflight \cup {r} /\ work' = work /\ books' = books
    BY DEF Send, server
  <2>2. TraceOf(r) = x
    BY DEF TraceOf
  <2> HIDE DEF r, x
  <2> QED BY <2>1, <2>2 DEF Traces, Served
<1>3. TabOK(tab) /\ (~left[tab] => Patient(tab)) /\ made[tab] \in Nat
  BY DEF Inv, TabsOK, TabOK
<1>4. Scope(what) \in Scopes
  BY DEF Scope, Scopes, Wishes
<1>5. /\ page'[tab] = call /\ made'[tab] = call /\ waiting'[tab] = waiting[tab] \cup {r}
      /\ goal'[tab] = [intent |-> intent, what |-> what, state |-> "asking"]
      /\ stored'[tab] = [stored[tab] EXCEPT ![Scope(what)] = [key |-> key, what |-> what]]
      /\ left'[tab] = left[tab]
  BY <1>1 DEF Inv, TabsOK
<1>6. /\ DOMAIN stored'[tab] = Scopes
      /\ stored'[tab][Scope(what)] = [key |-> key, what |-> what]
  BY <1>3, <1>4, <1>5 DEF TabOK
<1>7. call \in Nat /\ call # 0
  BY <1>3
<1>8. goal[tab].intent \in Nat
  BY <1>3 DEF TabOK, GoalRow
<1>9. TabOK(tab)'
  <2>1. goal'[tab] \in GoalRow
    BY <1>5 DEF GoalRow, States
  <2>2. \A s \in waiting'[tab] : s.tab = tab
    BY <1>3, <1>5 DEF TabOK
  <2>3. \A y \in Traces : y.tab = tab => y.intent \in Nat /\ y.intent <= goal[tab].intent
    BY <1>3 DEF TabOK
  <2>4. \A y \in Traces' : y.tab = tab => y.intent \in Nat /\ y.intent <= goal'[tab].intent
    BY <1>2, <1>5, <1>8, <2>3
  <2> QED BY <1>5, <1>6, <1>7, <2>1, <2>2, <2>4 DEF TabOK
<1>10. ASSUME ~left'[tab] PROVE Patient(tab)'
  <2>1. Patient(tab) /\ waiting[tab] = {}
    BY <1>1, <1>3, <1>5, <1>10 DEF Patient
  <2>2. \A y \in Traces : y.tab = tab /\ y.intent = intent => y.key = key
    <3>1. CASE intent = goal[tab].intent + 1
      BY <1>3, <1>8, <3>1 DEF TabOK
    <3>2. CASE intent = goal[tab].intent /\ what = goal[tab].what /\ goal[tab].state = "unknown"
      <4>1. Keyed(tab)
        BY <2>1, <3>2 DEF Patient
      <4>2. key = stored[tab][Scope(what)].key
        BY <3>2, <4>1 DEF Keyed, OperationKey
      <4> QED BY <3>2, <4>1, <4>2 DEF Keyed
    <3> QED BY <3>1, <3>2
  <2>3. \A s \in waiting'[tab] : s = r
    BY <1>5, <2>1
  <2>4. Keyed(tab)'
    <3> HIDE DEF x, key
    <3>1. goal'[tab].what = what /\ goal'[tab].intent = intent
      BY <1>5
    <3>2. /\ stored'[tab][Scope(goal'[tab].what)].what = what
          /\ stored'[tab][Scope(goal'[tab].what)].key = key
      BY <1>6, <3>1
    <3>3. \A y \in Traces' : y.tab = tab /\ y.intent = intent => y.key = key
      BY <1>2, <2>2 DEF x
    <3> QED BY <3>1, <3>2, <3>3 DEF Keyed
  <2>5. \A y, z \in Traces' : y.tab = tab /\ z.tab = tab /\ y.intent = z.intent => y.key = z.key
    BY <1>2, <2>1, <2>2 DEF Patient
  <2>6. r.call = page'[tab] /\ page'[tab] # 0
    BY <1>5, <1>7
  <2> HIDE DEF r, call, key, x
  <2> QED BY <2>3, <2>4, <2>5, <2>6 DEF Patient
<1>11. ASSUME NEW other \in Tabs \ {tab} PROVE TabOK(other)' /\ (~left'[other] => Patient(other)')
  <2>1. /\ goal'[other] = goal[other] /\ made'[other] = made[other]
        /\ stored'[other] = stored[other] /\ waiting'[other] = waiting[other]
        /\ page'[other] = page[other] /\ left'[other] = left[other]
    BY <1>1 DEF Inv, TabsOK
  <2>2. \A y \in Traces' : y.tab = other => y \in Traces
    BY <1>2
  <2>3. TabOK(other) /\ (~left[other] => Patient(other))
    BY DEF Inv, TabsOK
  <2> QED BY <2>1, <2>2, <2>3, QuietTab
<1>12. /\ DOMAIN page' = Tabs /\ DOMAIN stored' = Tabs /\ DOMAIN made' = Tabs
       /\ DOMAIN goal' = Tabs /\ DOMAIN left' = Tabs /\ DOMAIN waiting' = Tabs
  BY <1>1 DEF Inv, TabsOK
<1> QED BY <1>9, <1>10, <1>11, <1>12 DEF TabsOK

\* A call that ends, with whatever answer: the visible page no longer waits.
LEMMA EndingKeepsTabs ==
  ASSUME Inv, NEW tab \in Tabs, NEW r \in waiting[tab],
         NEW state \in States \ {"none"}, EndCall(r, state),
         UNCHANGED <<made, left>>, Traces' \subseteq Traces,
         \/ stored' = stored
         \/ state = "told" /\ stored' = [stored EXCEPT ![tab][Scope(r.what)] = Unused]
  PROVE  TabsOK'
<1>1. TabOK(tab) /\ (~left[tab] => Patient(tab)) /\ r.tab = tab
  BY DEF Inv, TabsOK, TabOK
<1>2. goal[tab] \in GoalRow
  BY <1>1 DEF TabOK
<1>3. /\ waiting' = [waiting EXCEPT ![tab] = @ \ {r}]
      /\ \/ /\ page[tab] = r.call
            /\ page' = [page EXCEPT ![tab] = 0]
            /\ goal' = [goal EXCEPT ![tab].state = state]
         \/ page[tab] # r.call /\ UNCHANGED <<page, goal>>
  BY <1>1 DEF EndCall
<1>4. /\ waiting'[tab] = waiting[tab] \ {r}
      /\ made'[tab] = made[tab] /\ left'[tab] = left[tab]
      /\ goal'[tab] \in GoalRow
      /\ goal'[tab].intent = goal[tab].intent /\ goal'[tab].what = goal[tab].what
      /\ page[tab] = r.call => page'[tab] = 0 /\ goal'[tab].state = state
      /\ page[tab] # r.call => goal'[tab] = goal[tab]
      /\ stored' # stored => state = "told"
      /\ DOMAIN stored'[tab] = Scopes
  BY <1>1, <1>2, <1>3 DEF Inv, TabsOK, TabOK, GoalRow
<1>5. goal'[tab].what \in Wishes
  BY <1>1, <1>4 DEF TabOK
<1>6. TabOK(tab)'
  <2>1. \A s \in waiting'[tab] : s.tab = tab
    BY <1>1, <1>4 DEF TabOK
  <2>2. \A x \in Traces' : x.tab = tab => x.intent \in Nat /\ x.intent <= goal'[tab].intent
    BY <1>1, <1>4 DEF TabOK
  <2> QED BY <1>1, <1>4, <1>5, <2>1, <2>2 DEF TabOK
<1>7. ASSUME ~left'[tab] PROVE Patient(tab)'
  <2>1. Patient(tab) /\ page[tab] = r.call
    BY <1>1, <1>4, <1>7 DEF Patient
  <2>2. waiting'[tab] = {} /\ goal'[tab].state = state
    BY <1>4, <2>1 DEF Patient
  <2>3. ASSUME state = "unknown" PROVE Keyed(tab)'
    <3>1. stored' = stored
      BY <1>4, <2>3
    <3>2. Keyed(tab)
      BY <1>3, <2>1 DEF Patient
    <3> QED BY <1>4, <3>1, <3>2 DEF Keyed
  <2>4. page'[tab] = 0
    BY <1>4, <2>1
  <2> QED BY <2>1, <2>2, <2>3, <2>4 DEF Patient
<1>8. ASSUME NEW other \in Tabs \ {tab} PROVE TabOK(other)' /\ (~left'[other] => Patient(other)')
  <2>1. /\ goal'[other] = goal[other] /\ made'[other] = made[other]
        /\ stored'[other] = stored[other] /\ waiting'[other] = waiting[other]
        /\ page'[other] = page[other] /\ left'[other] = left[other]
    BY <1>3 DEF Inv, TabsOK
  <2>2. TabOK(other) /\ (~left[other] => Patient(other))
    BY DEF Inv, TabsOK
  <2> QED BY <2>1, <2>2, QuietTab
<1>9. /\ DOMAIN page' = Tabs /\ DOMAIN stored' = Tabs /\ DOMAIN made' = Tabs
      /\ DOMAIN goal' = Tabs /\ DOMAIN left' = Tabs /\ DOMAIN waiting' = Tabs
  BY <1>3 DEF Inv, TabsOK
<1> QED BY <1>6, <1>7, <1>8, <1>9 DEF TabsOK

\* Whoever repeats a request repeats something he had asked for.
LEMMA Wanted ==
  ASSUME TabsOK, NEW tab \in Tabs, Retry(tab)
  PROVE  goal[tab].what \in Wishes
BY DEF TabsOK, TabOK, Retry

LEMMA ServerStep == Inv /\ [Next]_vars => ServerInv'
<1> SUFFICES ASSUME Inv, [Next]_vars PROVE ServerInv'
  OBVIOUS
<1>. ServerInv /\ TabsOK
  BY DEF Inv
<1>1. ASSUME NEW tab \in Tabs, NEW what \in Wishes, Ask(tab, what)
      PROVE  ServerInv'
  BY <1>1, SendKeepsServer DEF Ask
<1>2. ASSUME NEW tab \in Tabs, Retry(tab)
      PROVE  ServerInv'
  BY <1>2, Wanted, SendKeepsServer DEF Retry
<1>3. ASSUME NEW tab \in Tabs, Leave(tab) \/ \E r \in waiting[tab] : NetworkError(tab, r)
      PROVE  ServerInv'
  BY <1>3, BrowserKeepsServer DEF Leave, NetworkError, ServerInv, WorkOK
<1>4. ASSUME NEW t \in Threads, Lock(t)
      PROVE  ServerInv'
  BY <1>4, LockKeepsServer
<1>5. ASSUME NEW t \in Threads, Read(t)
      PROVE  ServerInv'
  BY <1>5, ReadKeepsServer
<1>6. ASSUME NEW t \in Threads, Commit(t)
      PROVE  ServerInv'
  BY <1>6, CommitKeepsServer
<1>7. ASSUME NEW t \in Threads, Reply(t)
      PROVE  ServerInv'
  BY <1>7, WorkKeepsServer DEF Reply
<1>8. ASSUME NEW t \in Threads, Crash(t)
      PROVE  ServerInv'
  BY <1>8, WorkKeepsServer DEF Crash, CutShort
<1>9. ASSUME NEW t \in Threads, NEW r \in inflight, Accept(t, r)
      PROVE  ServerInv'
  <2> DEFINE w == [pc |-> "lock", req |-> r]
  <2>1. w.pc = "lock" /\ IsRequest(w.req)
    BY DEF ServerInv, WorkOK
  <2>2. work' = [work EXCEPT ![t] = w] /\ UNCHANGED <<books, holder>> /\ inflight' \subseteq inflight
    BY <1>9 DEF Accept
  <2> HIDE DEF w
  <2> QED BY <2>1, <2>2, WorkKeepsServer
<1>10. CASE SetPeriod
  <2>1. /\ books'.numbers = books.numbers /\ books'.next = books.next
        /\ books'.payments = books.payments /\ books'.memory = books.memory
        /\ holder = Nobody /\ UNCHANGED <<holder, work, inflight>>
    BY <1>10 DEF SetPeriod
  <2>2. BooksOK'
    BY <2>1 DEF ServerInv, BooksOK, OneEffectPerKey
  <2>3. LockOK'
    BY <2>1, RequestsAssumption DEF ServerInv, LockOK
  <2> QED BY <2>1, <2>2, <2>3 DEF ServerInv, WorkOK
<1>11. CASE UNCHANGED vars
  BY <1>11, BrowserKeepsServer DEF vars, server, ServerInv, WorkOK
<1> QED
  BY <1>1, <1>2, <1>3, <1>4, <1>5, <1>6, <1>7, <1>8, <1>9, <1>10, <1>11 DEF Next, Serve

\* The steps that leave every tab alone.
LEMMA ServingKeepsTabs ==
  ASSUME Inv, UNCHANGED <<waiting, browser>>, Traces' \subseteq Traces
  PROVE  TabsOK'
<1>1. ASSUME NEW tab \in Tabs PROVE TabOK(tab)' /\ (~left'[tab] => Patient(tab)')
  <2>1. TabOK(tab) /\ (~left[tab] => Patient(tab))
    BY DEF Inv, TabsOK
  <2> QED BY <2>1, QuietTab DEF browser
<1> QED BY <1>1 DEF Inv, TabsOK, browser

\* The request a thread serves is one of its operation, and so is the payment it writes.
LEMMA CommitTraces ==
  ASSUME ServerInv, NEW t \in Threads, Commit(t)
  PROVE  Traces' \subseteq Traces
<1> DEFINE r == work[t].req
           passes == Passes(books, work[t].seen, r)
<1>1. t \in Served
  BY DEF Served, Commit, Idle
<1>2. /\ work'[t].req = r /\ \A u \in Threads \ {t} : work'[u] = work[u]
      /\ inflight' = inflight
      /\ books' = IF passes THEN Written(books, work[t].seen, r) ELSE books
  BY DEF ServerInv, WorkOK, Commit
<1>3. ASSUME NEW p \in books'.payments PROVE TraceOf(p) \in Traces
  <2>1. CASE p \in books.payments
    BY <2>1 DEF Traces
  <2>2. CASE p \notin books.payments
    <3>1. p.tab = r.tab /\ p.intent = r.intent /\ p.key = r.key
      BY <1>2, <2>2 DEF Written, Rows, Taken
    <3>2. TraceOf(p) = TraceOf(r)
      BY <3>1 DEF TraceOf
    <3> QED BY <1>1, <3>2 DEF Traces
  <2> QED BY <2>1, <2>2
<1>4. ASSUME NEW u \in Served' PROVE TraceOf(work'[u].req) \in Traces
  <2>1. CASE u = t
    BY <1>1, <1>2, <2>1 DEF Traces
  <2>2. CASE u # t
    BY <1>2, <2>2 DEF Traces, Served
  <2> QED BY <2>1, <2>2
<1>5. Traces' = {TraceOf(q) : q \in inflight} \cup {TraceOf(work'[u].req) : u \in Served'}
                  \cup {TraceOf(p) : p \in books'.payments}
  BY <1>2 DEF Traces, TraceOf
<1>6. {TraceOf(q) : q \in inflight} \subseteq Traces
  BY DEF Traces
<1> QED BY <1>3, <1>4, <1>5, <1>6

LEMMA ReplyKeepsTabs ==
  ASSUME Inv, NEW t \in Threads, Reply(t), Traces' \subseteq Traces
  PROVE  TabsOK'
<1>1. work[t].pc = "reply" /\ work[t].answer \in {"told", "refused"} /\ work[t].req.tab \in Tabs
  BY DEF Inv, ServerInv, WorkOK, Reply, Idle, IsRequest
<1> DEFINE r == work[t].req
<1>2. CASE r \in waiting[r.tab]
  <2> DEFINE tab == r.tab
             state == work[t].answer
  <2>1. state \in States \ {"none"} /\ tab \in Tabs /\ r \in waiting[tab]
    BY <1>1, <1>2 DEF States
  <2>2. EndCall(r, state) /\ UNCHANGED <<made, left>>
    BY <1>2 DEF Reply
  <2>3. \/ stored' = stored
        \/ state = "told" /\ stored' = [stored EXCEPT ![tab][Scope(r.what)] = Unused]
    BY <1>2 DEF Reply
  <2> HIDE DEF r, tab, state
  <2> QED BY <2>1, <2>2, <2>3, EndingKeepsTabs
<1>3. CASE r \notin waiting[r.tab]
  BY <1>3, ServingKeepsTabs DEF Reply, browser
<1> QED BY <1>2, <1>3

LEMMA LeaveKeepsTabs ==
  ASSUME Inv, NEW tab \in Tabs, Leave(tab)
  PROVE  TabsOK'
<1>1. Traces' = Traces
  BY DEF Leave, server, Traces, Served
<1>2. TabOK(tab)
  BY DEF Inv, TabsOK
<1>3. /\ made' = made /\ stored' = stored /\ waiting' = waiting
      /\ left' = [left EXCEPT ![tab] = TRUE]
      /\ page[tab] # 0 /\ page' = [page EXCEPT ![tab] = 0]
      /\ goal' = [goal EXCEPT ![tab].state = "left"]
  BY DEF Leave
<1>4. /\ left'[tab] /\ goal'[tab] \in GoalRow
      /\ goal'[tab].intent = goal[tab].intent /\ goal'[tab].what = goal[tab].what
  BY <1>2, <1>3 DEF Inv, TabsOK, TabOK, GoalRow, States
<1>5. TabOK(tab)'
  BY <1>1, <1>2, <1>3, <1>4 DEF TabOK
<1>6. ASSUME NEW other \in Tabs \ {tab} PROVE TabOK(other)' /\ (~left'[other] => Patient(other)')
  <2>1. /\ goal'[other] = goal[other] /\ made'[other] = made[other]
        /\ stored'[other] = stored[other] /\ waiting'[other] = waiting[other]
        /\ page'[other] = page[other] /\ left'[other] = left[other]
    BY <1>3 DEF Inv, TabsOK
  <2>2. TabOK(other) /\ (~left[other] => Patient(other))
    BY DEF Inv, TabsOK
  <2> QED BY <1>1, <2>1, <2>2, QuietTab
<1> QED BY <1>3, <1>4, <1>5, <1>6 DEF Inv, TabsOK

LEMMA TabsStep == Inv /\ [Next]_vars => TabsOK'
<1> SUFFICES ASSUME Inv, [Next]_vars PROVE TabsOK'
  OBVIOUS
<1>. ServerInv /\ TabsOK
  BY DEF Inv
<1>1. ASSUME NEW tab \in Tabs, NEW what \in Wishes, Ask(tab, what)
      PROVE  TabsOK'
  <2>1. goal[tab].intent + 1 \in Nat
    BY DEF TabsOK, TabOK, GoalRow
  <2> QED BY <1>1, <2>1, SendKeepsTabs DEF Ask
<1>2. ASSUME NEW tab \in Tabs, Retry(tab)
      PROVE  TabsOK'
  <2>1. goal[tab].intent \in Nat
    BY DEF TabsOK, TabOK, GoalRow
  <2> QED BY <1>2, <2>1, Wanted, SendKeepsTabs DEF Retry
<1>3. ASSUME NEW tab \in Tabs, Leave(tab)
      PROVE  TabsOK'
  BY <1>3, LeaveKeepsTabs
<1>4. ASSUME NEW tab \in Tabs, NEW r \in waiting[tab], NetworkError(tab, r)
      PROVE  TabsOK'
  <2>1. EndCall(r, "unknown") /\ UNCHANGED <<server, inflight, stored, made, left>>
    BY <1>4 DEF NetworkError
  <2>2. Traces' \subseteq Traces
    BY <2>1 DEF server, Traces, Served
  <2>3. "unknown" \in States \ {"none"}
    BY DEF States
  <2> QED BY <2>1, <2>2, <2>3, EndingKeepsTabs
<1>5. ASSUME NEW t \in Threads, Lock(t) \/ Read(t) \/ Crash(t)
      PROVE  TabsOK'
  <2>1. \A u \in Threads : work'[u] = Idle \/ work'[u] = work[u]
                              \/ (work[u] # Idle /\ work'[u].req = work[u].req)
    BY <1>5 DEF ServerInv, WorkOK, Lock, Read, Crash, Idle
  <2>2. inflight' = inflight /\ books' = books /\ UNCHANGED <<waiting, browser>>
    BY <1>5 DEF Lock, Read, Crash, CutShort
  <2>3. Traces' \subseteq Traces
    BY <2>1, <2>2, ServedTraces
  <2> QED BY <2>2, <2>3, ServingKeepsTabs
<1>6. ASSUME NEW t \in Threads, Commit(t)
      PROVE  TabsOK'
  BY <1>6, CommitTraces, ServingKeepsTabs DEF Commit
<1>7. ASSUME NEW t \in Threads, Reply(t)
      PROVE  TabsOK'
  <2>1. \A u \in Threads : work'[u] = Idle \/ work'[u] = work[u]
    BY <1>7 DEF ServerInv, WorkOK, Reply
  <2>2. inflight' = inflight /\ books' = books
    BY <1>7 DEF Reply
  <2>3. Traces' \subseteq Traces
    BY <2>1, <2>2, ServedTraces
  <2> QED BY <1>7, <2>3, ReplyKeepsTabs
<1>8. ASSUME NEW t \in Threads, NEW r \in inflight, Accept(t, r)
      PROVE  TabsOK'
  <2>1. \A u \in Threads : work'[u] = work[u] \/ work'[u].req = r
    BY <1>8 DEF ServerInv, WorkOK, Accept
  <2>2. inflight' \subseteq inflight /\ books' = books /\ UNCHANGED <<waiting, browser>>
    BY <1>8 DEF Accept
  <2>3. Traces' \subseteq Traces
    BY <2>1, <2>2, ServedTraces
  <2> QED BY <2>2, <2>3, ServingKeepsTabs
<1>9. CASE SetPeriod
  <2>1. Traces' \subseteq Traces
    BY <1>9 DEF SetPeriod, Traces, Served
  <2> QED BY <1>9, <2>1, ServingKeepsTabs DEF SetPeriod
<1>10. CASE UNCHANGED vars
  <2>1. Traces' \subseteq Traces
    BY <1>10 DEF vars, Traces, Served
  <2> QED BY <1>10, <2>1, ServingKeepsTabs DEF vars, browser
<1> QED
  BY <1>1, <1>2, <1>3, <1>4, <1>5, <1>6, <1>7, <1>8, <1>9, <1>10 DEF Next, Serve

LEMMA Invariance == Spec => []Inv
<1>1. Inv /\ [Next]_vars => Inv'
  BY ServerStep, TabsStep DEF Inv
<1> QED BY InitInv, <1>1, PTL DEF Spec

(***************************************************************************)
(* The results.                                                            *)
(***************************************************************************)

\* However many requests of one key overlap, are repeated or are cut short by the death of
\* a thread, the key has one effect, and the record of the key and its effect come
\* together (_retry and _remember inside the transaction of the service).
THEOREM KeysWorkOnce == Spec => []OneEffectPerKey
<1>1. Inv => OneEffectPerKey
  BY DEF Inv, ServerInv, BooksOK
<1> QED BY Invariance, <1>1, PTL

\* The lock of the company keeps what a transaction has read true until it commits, with
\* any number of threads.
THEOREM ReadingsAreTrue == Spec => []ReadingsStayTrue
<1>1. Inv => ReadingsStayTrue
  BY DEF Inv, ServerInv, LockOK, ReadingsStayTrue
<1> QED BY Invariance, <1>1, PTL

\* Whoever stays on the page until it answers pays once, however many answers are lost:
\* all his requests have the stored key (operationKey), and a key has one payment.
THEOREM PatiencePays == Spec => []PatientUsersPayOnce
<1>1. Inv => PatientUsersPayOnce
  <2> SUFFICES ASSUME Inv, NEW p \in books.payments, NEW q \in books.payments,
                      p.tab = q.tab, p.intent = q.intent, ~left[p.tab]
               PROVE  p = q
    BY DEF PatientUsersPayOnce
  <2>1. p.tab \in Tabs
    BY DEF Inv, ServerInv, BooksOK
  <2>2. TraceOf(p) \in Traces /\ TraceOf(q) \in Traces
    BY DEF Traces
  <2>3. p.key = q.key
    BY <2>1, <2>2 DEF Inv, TabsOK, Patient, TraceOf
  <2> QED BY <2>3 DEF Inv, ServerInv, BooksOK, OneEffectPerKey
<1> QED BY Invariance, <1>1, PTL

\* No answer is made without the rows to show for it: "done" with the record of the key,
\* a refusal without it.
THEOREM TrueAnswers == Spec => AnswersAreTrue
<1> DEFINE Truth(t) ==
      work[t].pc # "reply" /\ work'[t].pc = "reply" =>
        LET r == work[t].req IN
        work'[t].answer = "told" <=> [key |-> r.key, what |-> r.what] \in books'.memory
<1>1. ASSUME Inv, [Next]_vars, NEW t \in Threads, work[t].pc # "reply", work'[t].pc = "reply"
      PROVE  Read(t) \/ Commit(t)
  <2>1. DOMAIN work = Threads
    BY <1>1 DEF Inv, ServerInv, WorkOK
  <2>2. ASSUME NEW u \in Threads, NEW w, work' = [work EXCEPT ![u] = w], w.pc # "reply"
        PROVE  FALSE
    BY <1>1, <2>1, <2>2
  <2>3. work' # work
    BY <1>1
  <2>4. ASSUME NEW u \in Threads, Lock(u) \/ Crash(u) \/ Reply(u) \/ \E r \in inflight : Accept(u, r)
        PROVE  FALSE
    BY <2>2, <2>4 DEF Lock, Crash, Reply, Accept, Idle
  <2>5. ASSUME NEW u \in Threads, Read(u) \/ Commit(u)
        PROVE  u = t
    BY <1>1, <2>1, <2>5 DEF Read, Commit
  <2>6. ASSUME NEW tab \in Tabs,
               \/ \E what \in Wishes : Ask(tab, what)
               \/ Retry(tab) \/ Leave(tab) \/ \E r \in waiting[tab] : NetworkError(tab, r)
        PROVE  FALSE
    BY <2>3, <2>6 DEF Ask, Retry, Send, Leave, NetworkError, server
  <2>7. ~SetPeriod /\ ~UNCHANGED vars
    BY <2>3 DEF SetPeriod, vars
  <2> QED BY <1>1, <2>4, <2>5, <2>6, <2>7 DEF Next, Serve
<1>2. ASSUME Inv, NEW t \in Threads, Read(t), work'[t].pc = "reply"
      PROVE  Truth(t)
  <2> DEFINE answer == Decided(books, work[t].req)
  <2>1. books' = books /\ DOMAIN work = Threads
    BY <1>2 DEF Read, Inv, ServerInv, WorkOK
  <2>2. work'[t].answer = answer /\ answer # "write"
    BY <1>2, <2>1 DEF Read
  <2>3. answer = "told" <=> [key |-> work[t].req.key, what |-> work[t].req.what] \in books.memory
    BY DEF Decided
  <2> HIDE DEF answer
  <2> QED BY <2>1, <2>2, <2>3
<1>3. ASSUME Inv, NEW t \in Threads, Commit(t)
      PROVE  Truth(t)
  <2> DEFINE r == work[t].req
             record == [key |-> r.key, what |-> r.what]
  <2>1. work[t].seen = books /\ \A m \in books.memory : m.key # r.key
    BY <1>3, CommitKeepsServer DEF Inv
  <2>2. record \notin books.memory
    BY <2>1
  <2>3. DOMAIN work = Threads
    BY <1>3 DEF Inv, ServerInv, WorkOK
  <2>4. CASE Passes(books, work[t].seen, r)
    <3>1. work'[t].answer = "told" /\ books' = Written(books, work[t].seen, r)
      BY <1>3, <2>3, <2>4 DEF Commit
    <3>2. record \in books'.memory
      BY <3>1 DEF Written, Rows, Remembered
    <3> QED BY <3>1, <3>2
  <2>5. CASE ~Passes(books, work[t].seen, r)
    <3>1. work'[t].answer = "refused" /\ books' = books
      BY <1>3, <2>3, <2>5 DEF Commit
    <3> QED BY <2>2, <3>1
  <2> QED BY <2>4, <2>5
<1>4. Inv /\ [Next]_vars => \A t \in Threads : Truth(t)
  BY <1>1, <1>2, <1>3
<1>5. Inv /\ [Next]_vars => [\A t \in Threads : Truth(t)]_vars
  BY <1>4
<1> QED BY Invariance, <1>5, PTL DEF Spec, AnswersAreTrue

-----------------------------------------------------------------------------
(***************************************************************************)
(* The promise to the receivers: seen from outside, only a commit that the *)
(* database lets through changes the numbers and the payments, and it is   *)
(* one step of the sequential ledger.                                      *)
(***************************************************************************)

\* A payment is of an invoice with a number, and there are finitely many.
RowsOK ==
  /\ books.numbers \in [Invoices -> Nat]
  /\ IsFiniteSet(books.payments)
  /\ \A p \in books.payments :
       /\ p.what.invoice \in Invoices /\ p.what.amount \in Nat
       /\ books.numbers[p.what.invoice] > 0

\* The rows that Paid adds up, and their amounts.
PaymentRows(rows, i) == {p \in rows : p.what.invoice = i}
AmountsIn(rows) == [p \in rows |-> p.what.amount]

LEMMA PaidByRows ==
  ASSUME NEW b, NEW i
  PROVE  Paid(b, i) = SumFunctionOnSet(AmountsIn(PaymentRows(b.payments, i)), PaymentRows(b.payments, i))
BY DEF Paid, PaymentRows, AmountsIn, SumFunction

LEMMA PaidOnlyWhenIssued ==
  ASSUME RowsOK, NEW i \in Invoices
  PROVE  /\ Paid(books, i) \in Nat
         /\ books.numbers[i] = 0 => Paid(books, i) = 0
<1> DEFINE rows == PaymentRows(books.payments, i)
<1>1. IsFiniteSet(rows)
  BY FS_Subset DEF RowsOK, PaymentRows
<1>2. \A p \in rows : AmountsIn(rows)[p] \in Nat
  BY DEF RowsOK, PaymentRows, AmountsIn
<1>3. Paid(books, i) = SumFunctionOnSet(AmountsIn(rows), rows)
  BY PaidByRows
<1>4. books.numbers[i] = 0 => rows = {}
  BY DEF RowsOK, PaymentRows
<1> HIDE DEF rows
<1>5. SumFunctionOnSet(AmountsIn(rows), rows) \in Nat
  BY <1>1, <1>2, SumNat
<1> QED BY <1>3, <1>4, <1>5, SumEmpty

\* One more payment.
LEMMA PaidGrows ==
  ASSUME RowsOK, NEW p, p \notin books.payments,
         p.what.invoice \in Invoices, p.what.amount \in Nat,
         books'.payments = books.payments \cup {p}
  PROVE  /\ Paid(books', p.what.invoice) = Paid(books, p.what.invoice) + p.what.amount
         /\ \A i \in Invoices \ {p.what.invoice} : Paid(books', i) = Paid(books, i)
<1>1. ASSUME NEW i \in Invoices \ {p.what.invoice}
      PROVE  Paid(books', i) = Paid(books, i)
  <2>1. PaymentRows(books'.payments, i) = PaymentRows(books.payments, i)
    BY DEF PaymentRows
  <2> QED BY <2>1, PaidByRows
<1>2. Paid(books', p.what.invoice) = Paid(books, p.what.invoice) + p.what.amount
  <2> DEFINE i == p.what.invoice
             rows == PaymentRows(books.payments, i)
             before == AmountsIn(rows)
             after == AmountsIn(rows \cup {p})
  <2>1. PaymentRows(books'.payments, i) = rows \cup {p}
    BY DEF PaymentRows
  <2>2. IsFiniteSet(rows) /\ p \notin rows
    BY FS_Subset DEF RowsOK, PaymentRows
  <2>3. \A q \in rows \cup {p} : after[q] \in Int
    BY DEF RowsOK, PaymentRows, AmountsIn
  <2>4. \A q \in rows : after[q] = before[q]
    BY DEF AmountsIn
  <2>5. after[p] = p.what.amount
    BY DEF AmountsIn
  <2>6. /\ Paid(books, i) = SumFunctionOnSet(before, rows)
        /\ Paid(books', i) = SumFunctionOnSet(after, rows \cup {p})
    BY <2>1, PaidByRows
  <2> HIDE DEF i, rows, before, after
  <2>7. SumFunctionOnSet(after, rows \cup {p}) = SumFunctionOnSet(after, rows) + after[p]
    BY <2>2, <2>3, SumAdd
  <2>8. SumFunctionOnSet(after, rows) = SumFunctionOnSet(before, rows)
    BY <2>2, <2>4, SumSame
  <2> QED BY <2>5, <2>6, <2>7, <2>8 DEF i
<1> QED BY <1>1, <1>2

\* What a receiver sees of the rows.
Shown == [i \in Invoices |-> IF books.numbers[i] > 0 THEN Bill(i) ELSE Unissued]
NextShown == [year \in {0} |-> books.next]

LEMMA IssuingKeepsPromise ==
  ASSUME ServerInv, RowsOK, NEW r, IsRequest(r), r.what.action = "validate",
         Passes(books, books, r), books' = Written(books, books, r)
  PROVE  RowsOK' /\ Promise!Next
<1> DEFINE i == r.what.invoice
<1>1. /\ i \in Invoices
      /\ books'.numbers = [books.numbers EXCEPT ![i] = books.next]
      /\ books'.next = books.next + 1
      /\ books'.payments = books.payments
      /\ books.numbers[i] = 0
  BY DEF IsRequest, Wishes, Written, Rows, Numbered, Taken, Passes
<1>2. books.next \in Nat \ {0} /\ books.numbers \in [Invoices -> Nat] /\ Total(i) > 0
  BY <1>1, RequestsAssumption DEF ServerInv, BooksOK, RowsOK
<1> HIDE DEF i
<1>3. books'.numbers \in [Invoices -> Nat] /\ books'.numbers[i] = books.next
      /\ \A j \in Invoices \ {i} : books'.numbers[j] = books.numbers[j]
  BY <1>1, <1>2
<1>4. RowsOK'
  BY <1>1, <1>2, <1>3 DEF RowsOK
<1>5. \A j \in Invoices : Paid(books', j) = Paid(books, j)
  BY <1>1, PaidByRows
<1>6. Shown[i] = Unissued /\ Paid(books', i) = 0
  BY <1>1, <1>5, PaidOnlyWhenIssued DEF Shown
<1>7. Shown'[i] = [number |-> books.next, year |-> 0, total |-> Total(i), paid |-> 0]
  BY <1>1, <1>2, <1>3, <1>6 DEF Shown, Bill
<1>8. ASSUME NEW j \in Invoices \ {i} PROVE Shown'[j] = Shown[j]
  BY <1>3, <1>5 DEF Shown, Bill
<1>9. NextShown' = [NextShown EXCEPT ![0] = @ + 1] /\ NextShown[0] = books.next
  BY <1>1 DEF NextShown
<1>10. Promise!Issue(i, 0)
  BY <1>2, <1>6, <1>7, <1>8, <1>9
     DEF Promise!Issue, Promise!Same, Promise!Unissued, Unissued, Shown, NextShown
<1> QED BY <1>1, <1>4, <1>10 DEF Promise!Next

LEMMA PayingKeepsPromise ==
  ASSUME ServerInv, RowsOK, NEW r, IsRequest(r), r.what.action = "payment",
         Passes(books, books, r), books' = Written(books, books, r)
  PROVE  RowsOK' /\ Promise!Next
<1> DEFINE i == r.what.invoice
           p == [id |-> Cardinality(books.payments) + 1, key |-> r.key, tab |-> r.tab,
                 intent |-> r.intent, what |-> r.what]
<1>1. /\ i \in Invoices /\ r.what.amount \in Nat \ {0}
      /\ books'.numbers = books.numbers
      /\ books'.next = books.next
      /\ books'.payments = books.payments \cup {p}
      /\ books.numbers[i] > 0
      /\ Paid(books, i) + r.what.amount <= Total(i)
  BY RequestsAssumption DEF IsRequest, Wishes, Written, Rows, Numbered, Taken, Passes
<1>2. p \notin books.payments
  <2>1. \A q \in books.payments : q.key # r.key
    BY DEF ServerInv, BooksOK, OneEffectPerKey, Passes
  <2> QED BY <2>1
<1>3. p.what = r.what
  OBVIOUS
<1> HIDE DEF p
<1>4. /\ Paid(books', i) = Paid(books, i) + r.what.amount
      /\ \A j \in Invoices \ {i} : Paid(books', j) = Paid(books, j)
  BY <1>1, <1>2, <1>3, PaidGrows
<1>5. RowsOK'
  <2>1. IsFiniteSet(books'.payments)
    BY <1>1, FS_AddElement DEF RowsOK
  <2> QED BY <1>1, <1>3, <2>1 DEF RowsOK
<1>6. Paid(books, i) \in Nat
  BY <1>1, PaidOnlyWhenIssued
<1> HIDE DEF i
<1>7. Shown[i] = [number |-> books.numbers[i], year |-> 0, total |-> Total(i), paid |-> Paid(books, i)]
  BY <1>1 DEF Shown, Bill
<1>8. Shown'[i] = [number |-> books.numbers[i], year |-> 0, total |-> Total(i), paid |-> Paid(books', i)]
  BY <1>1 DEF Shown, Bill
<1>9. ASSUME NEW j \in Invoices \ {i} PROVE Shown'[j] = Shown[j]
  BY <1>1, <1>4 DEF Shown, Bill
<1>10. Shown'[i] = [Shown[i] EXCEPT !.paid = Shown'[i].paid]
  BY <1>7, <1>8
<1>11. Shown[i].number > 0 /\ Shown[i].paid < Shown'[i].paid /\ Shown'[i].paid <= Shown[i].total
  BY <1>1, <1>4, <1>6, <1>7, <1>8
<1>12. NextShown' = NextShown
  BY <1>1 DEF NextShown
<1>13. Promise!Pay(i)
  BY <1>9, <1>10, <1>11, <1>12 DEF Promise!Pay, Promise!Same, Shown, NextShown
<1> QED BY <1>1, <1>5, <1>13 DEF Promise!Next

\* Only a commit that the database lets through is seen from outside.
LEMMA WhoWrites ==
  ASSUME ServerInv, [Next]_vars
  PROVE  \/ /\ books'.numbers = books.numbers
            /\ books'.next = books.next
            /\ books'.payments = books.payments
         \/ \E t \in Threads : Commit(t) /\ Passes(books, work[t].seen, work[t].req)
<1>1. ASSUME NEW t \in Threads, Commit(t), ~Passes(books, work[t].seen, work[t].req)
      PROVE  books' = books
  BY <1>1 DEF Commit
<1>2. ASSUME NEW t \in Threads, Lock(t) \/ Read(t) \/ Reply(t) \/ Crash(t)
      PROVE  books' = books
  BY <1>2 DEF Lock, Read, Reply, Crash, CutShort
<1>3. ASSUME NEW t \in Threads, NEW r \in inflight, Accept(t, r)
      PROVE  books' = books
  BY <1>3 DEF Accept
<1>4. ASSUME NEW tab \in Tabs,
             \/ \E what \in Wishes : Ask(tab, what)
             \/ Retry(tab) \/ Leave(tab) \/ \E r \in waiting[tab] : NetworkError(tab, r)
      PROVE  books' = books
  BY <1>4 DEF Ask, Retry, Send, Leave, NetworkError, server
<1>5. CASE SetPeriod
  BY <1>5 DEF SetPeriod
<1>6. CASE UNCHANGED vars
  BY <1>6 DEF vars
<1> QED BY <1>1, <1>2, <1>3, <1>4, <1>5, <1>6 DEF Next, Serve

LEMMA PromiseStep ==
  ASSUME ServerInv, RowsOK, [Next]_vars
  PROVE  RowsOK' /\ [Promise!Next]_(Promise!vars)
<1>1. CASE /\ books'.numbers = books.numbers
           /\ books'.next = books.next
           /\ books'.payments = books.payments
  <2>1. RowsOK'
    BY <1>1 DEF RowsOK
  <2>2. \A i \in Invoices : Bill(i)' = Bill(i)
    BY <1>1, PaidByRows DEF Bill
  <2>3. Shown' = Shown /\ NextShown' = NextShown
    BY <1>1, <2>2 DEF Shown, NextShown
  <2> QED BY <2>1, <2>3 DEF Promise!vars, Shown, NextShown
<1>2. ASSUME NEW t \in Threads, Commit(t), Passes(books, work[t].seen, work[t].req)
      PROVE  RowsOK' /\ Promise!Next
  <2>1. work[t].seen = books /\ IsRequest(work[t].req)
    BY <1>2 DEF ServerInv, WorkOK, LockOK, Commit, Idle
  <2>2. PICK r : r = work[t].req
    OBVIOUS
  <2>3. Passes(books, books, r) /\ books' = Written(books, books, r) /\ IsRequest(r)
    BY <1>2, <2>1, <2>2 DEF Commit
  <2>4. r.what.action \in {"validate", "payment"}
    BY <2>3 DEF IsRequest, Wishes
  <2> QED BY <2>3, <2>4, IssuingKeepsPromise, PayingKeepsPromise
<1> QED BY <1>1, <1>2, WhoWrites

\* Overlapping, repeated and cut requests keep the promise of the sequential ledger to
\* whoever receives the invoices: one number each, in turn, and payments within the total.
THEOREM RequestsKeepPromise == Spec => KeepsPromise
<1>1. Init => RowsOK /\ Promise!Init
  <2> SUFFICES ASSUME Init PROVE RowsOK /\ Promise!Init
    OBVIOUS
  <2>1. RowsOK
    BY FS_EmptySet DEF Init, Blank, RowsOK
  <2>2. Shown = [i \in Invoices |-> Unissued] /\ NextShown = [year \in {0} |-> 1]
    BY DEF Init, Blank, Shown, NextShown
  <2> QED BY <2>1, <2>2 DEF Promise!Init, Promise!Unissued, Unissued, Shown, NextShown
<1>2. Inv => ServerInv
  BY DEF Inv
<1> QED BY <1>1, <1>2, Invariance, PromiseStep, PTL DEF Spec, KeepsPromise, Promise!Spec
=============================================================================
