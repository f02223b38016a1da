------------------------------ MODULE Requests ------------------------------
(***************************************************************************)
(* One company served to several browser tabs: what becomes of a           *)
(* validation or a payment between the click and the answer.               *)
(*                                                                         *)
(* A tab of the browser keeps an idempotency key per operation (api.ts     *)
(* operationKey, finishOperation) and repeats a request whose answer it    *)
(* lost (InvoiceView.vue).  A Waitress thread serves the request in one    *)
(* transaction that locks the row of the company, reads, and writes what   *)
(* it computed from its reading (erp/services.py); the constraints and     *)
(* triggers of PostgreSQL judge the writes.  Requests and answers are lost *)
(* and threads die at any point.                                           *)
(*                                                                         *)
(* Drafts, lines, rounding, periods with dates and entries are those of    *)
(* the module Ledger; here an invoice has a given total.                   *)
(***************************************************************************)
EXTENDS Integers, FiniteSetsExt, Functions

CONSTANTS
  Tabs,         \* the tabs of the users of the company
  Threads,      \* the threads of the server (8 in server.py)
  Invoices,
  Amounts,      \* the amounts a user may type
  Total(_),     \* the total of each invoice
  Nobody,       \* no thread
  MaxIntents,   \* bound: how many operations the users decide on, together
  MaxTroubles   \* bound: how many answers are lost, threads die, pages are left

ASSUME RequestsAssumption ==
  /\ Nobody \notin Threads
  /\ Amounts \subseteq Nat \ {0}
  /\ \A i \in Invoices : Total(i) \in Nat \ {0}
  /\ MaxIntents \in Nat
  /\ MaxTroubles \in Nat

\* What a user may ask, and the fingerprint of a request.
Wishes ==
  [action : {"validate"}, invoice : Invoices, amount : {0}]
    \cup [action : {"payment"}, invoice : Invoices, amount : Amounts]
Scopes == {"validate", "payment"} \X Invoices
Scope(what) == <<what.action, what.invoice>>

VARIABLES
  books,    \* the committed rows of the company
  holder,   \* the thread whose transaction holds the lock of the company
  inflight, \* the requests no thread has taken yet
  work,     \* what each thread is doing
  waiting,  \* the calls each tab has had no answer to
  page,     \* the call the visible page of each tab is busy with, 0 when none
  stored,   \* sessionStorage: the key and the payload of each scope
  made,     \* how many calls each tab has made
  goal,     \* what the user of each tab wants at the moment, and was told
  left,     \* the user of the tab has left a page that was busy
  troubles  \* the troubles still to come

server == <<books, holder, work>>
browser == <<page, stored, made, goal, left>>
vars == <<books, holder, inflight, work, waiting, page, stored, made, goal, left, troubles>>

Nothing == [action |-> "none", invoice |-> Nobody, amount |-> 0]
Unused == [key |-> <<>>, what |-> Nothing]
Idle == [pc |-> "idle"]

(***************************************************************************)
(* The rows.  numbers: the number of each invoice, 0 for a draft; next:    *)
(* the sequence; payments: rows with a primary key; memory: idempotency    *)
(* records; open: the period of the documents is open.                     *)
(***************************************************************************)
Blank ==
  [numbers |-> [i \in Invoices |-> 0], next |-> 1, payments |-> {}, memory |-> {}, open |-> TRUE]

Paid(b, i) ==
  SumFunction([row \in {r \in b.payments : r.what.invoice = i} |-> row.what.amount])

\* The service may carry the request out, on the rows b it reads.
Allowed(b, what) ==
  /\ b.open
  /\ what.action = "validate" => b.numbers[what.invoice] = 0
  /\ what.action = "payment" =>
       b.numbers[what.invoice] > 0 /\ Paid(b, what.invoice) + what.amount <= Total(what.invoice)

\* What the service decides: a key that is remembered is answered before anything else.
DecidedByRowsFirst(b, r) ==
  IF ~Allowed(b, r.what) THEN "refused"
  ELSE IF \E m \in b.memory : m = [key |-> r.key, what |-> r.what] THEN "told"
  ELSE IF \E m \in b.memory : m.key = r.key THEN "refused"
  ELSE "write"
Decided(b, r) ==
  IF \E m \in b.memory : m = [key |-> r.key, what |-> r.what] THEN "told"
  ELSE IF \E m \in b.memory : m.key = r.key THEN "refused"
  ELSE IF ~Allowed(b, r.what) THEN "refused"
  ELSE "write"

\* The rows b after the statements of a service that had read the rows seen.
Numbered(b, seen, what) ==
  IF what.action = "validate" THEN [b.numbers EXCEPT ![what.invoice] = seen.next] ELSE b.numbers
Taken(b, r) ==
  IF r.what.action = "validate" THEN b.payments
  ELSE b.payments \cup {[id |-> Cardinality(b.payments) + 1, key |-> r.key, tab |-> r.tab,
                         intent |-> r.intent, what |-> r.what]}
Remembered(b, r) == b.memory \cup {[key |-> r.key, what |-> r.what]}

Rows(b, seen, r, memory) ==
  [numbers |-> Numbered(b, seen, r.what),
   next |-> IF r.what.action = "validate" THEN seen.next + 1 ELSE b.next,
   payments |-> Taken(b, r), memory |-> memory, open |-> b.open]
WrittenForgetting(b, seen, r) ==
  Rows(b, seen, r, IF r.what.action = "validate" THEN Remembered(b, r) ELSE b.memory)
Written(b, seen, r) == Rows(b, seen, r, Remembered(b, r))

\* The database lets these statements be committed over the rows b: the triggers of the
\* entry, of the invoice and of the payment, and the unique numbers and keys.
Passes(b, seen, r) ==
  LET what == r.what IN
  /\ b.open
  /\ \A m \in b.memory : m.key # r.key
  /\ what.action = "validate" =>
       b.numbers[what.invoice] = 0 /\ \A i \in Invoices : b.numbers[i] # seen.next
  /\ what.action = "payment" =>
       b.numbers[what.invoice] > 0 /\ Paid(b, what.invoice) + what.amount <= Total(what.invoice)

(***************************************************************************)
(* The browser.                                                            *)
(***************************************************************************)

\* operationKey: the stored key when the payload is the same, a new one otherwise.
FreshKey(tab, what) == <<tab, made[tab] + 1>>
OperationKey(tab, what) ==
  IF stored[tab][Scope(what)].what = what
    THEN stored[tab][Scope(what)].key
    ELSE FreshKey(tab, what)

\* The visible page, which is not busy, sends a request for the intent of the user.
Send(tab, what, intent) ==
  LET call == made[tab] + 1
      key == OperationKey(tab, what)
      r == [tab |-> tab, call |-> call, key |-> key, what |-> what, intent |-> intent]
  IN /\ page[tab] = 0
     /\ stored' = [stored EXCEPT ![tab][Scope(what)] = [key |-> key, what |-> what]]
     /\ inflight' = inflight \cup {r}
     /\ waiting' = [waiting EXCEPT ![tab] = @ \cup {r}]
     /\ page' = [page EXCEPT ![tab] = call]
     /\ made' = [made EXCEPT ![tab] = call]
     /\ goal' = [goal EXCEPT ![tab] = [intent |-> intent, what |-> what, state |-> "asking"]]
     /\ UNCHANGED <<server, left, troubles>>

\* The user decides on something new, whatever became of the last wish.  A page offers to
\* pay what it has seen validated; it may still show a draft that is validated by now.
Ask(tab, what) ==
  /\ SumFunction([each \in Tabs |-> goal[each].intent]) < MaxIntents
  /\ what.action = "payment" => books.numbers[what.invoice] > 0
  /\ Send(tab, what, goal[tab].intent + 1)

\* The page shows a network error, and the user sends the same form again.
Retry(tab) ==
  /\ goal[tab].state = "unknown"
  /\ Send(tab, goal[tab].what, goal[tab].intent)

\* The call ends; only the page that made it shows how.
EndCall(r, state) ==
  /\ waiting' = [waiting EXCEPT ![r.tab] = @ \ {r}]
  /\ IF page[r.tab] = r.call
       THEN /\ page' = [page EXCEPT ![r.tab] = 0]
            /\ goal' = [goal EXCEPT ![r.tab].state = state]
       ELSE UNCHANGED <<page, goal>>

LostUnheard(r) == r \notin inflight /\ r \notin UNION {waiting[tab] : tab \in Tabs}
Lost(r) == r \notin inflight /\ \A t \in Threads : work[t] # Idle => work[t].req # r

\* fetch fails: the answer will never come, or the connection broke while the request
\* was still on its way or being served.
NetworkError(tab, r) ==
  /\ r \in waiting[tab]
  /\ \/ Lost(r) /\ UNCHANGED troubles
     \/ ~Lost(r) /\ troubles > 0 /\ troubles' = troubles - 1
  /\ EndCall(r, "unknown")
  /\ UNCHANGED <<server, inflight, stored, made, left>>

\* The user leaves the busy page for another view: a new page of the same invoice is not
\* busy, its form is empty, and the answer to come will be shown to nobody.
Leave(tab) ==
  /\ page[tab] # 0
  /\ troubles > 0
  /\ page' = [page EXCEPT ![tab] = 0]
  /\ goal' = [goal EXCEPT ![tab].state = "left"]
  /\ left' = [left EXCEPT ![tab] = TRUE]
  /\ troubles' = troubles - 1
  /\ UNCHANGED <<server, inflight, waiting, stored, made>>

(***************************************************************************)
(* The server.                                                             *)
(***************************************************************************)
Accept(t, r) ==
  /\ work[t] = Idle
  /\ r \in inflight
  /\ inflight' = inflight \ {r}
  /\ work' = [work EXCEPT ![t] = [pc |-> "lock", req |-> r]]
  /\ UNCHANGED <<books, holder, waiting, browser, troubles>>

\* SELECT FOR UPDATE of the company, granted to one transaction at a time.
GrantableAnytime(t) == TRUE
GrantableAlone(t) == \A u \in Threads \ {t} : work[u] = Idle
Grantable(t) == holder = Nobody

Lock(t) ==
  /\ work[t].pc = "lock"
  /\ Grantable(t)
  /\ holder' = t
  /\ work' = [work EXCEPT ![t] = [pc |-> "read", req |-> @.req]]
  /\ UNCHANGED <<books, inflight, waiting, browser, troubles>>

\* The end of a transaction, by commit or by rollback, frees the lock.
Freed(t, answer) == IF holder = t THEN Nobody ELSE holder

\* The service reads and decides.  A decision not to write ends the transaction.
Read(t) ==
  /\ work[t].pc = "read"
  /\ LET answer == Decided(books, work[t].req) IN
       IF answer = "write"
         THEN /\ work' = [work EXCEPT ![t] = [pc |-> "commit", req |-> @.req, seen |-> books]]
              /\ UNCHANGED holder
         ELSE /\ work' = [work EXCEPT ![t] = [pc |-> "reply", req |-> @.req, answer |-> answer]]
              /\ holder' = Freed(t, answer)
  /\ UNCHANGED <<books, inflight, waiting, browser, troubles>>

\* The service writes what it computed, and the transaction ends as the database decides.
Commit(t) ==
  /\ work[t].pc = "commit"
  /\ LET r == work[t].req
         passes == Passes(books, work[t].seen, r)
         answer == IF passes THEN "told" ELSE "refused"
     IN /\ books' = IF passes THEN Written(books, work[t].seen, r) ELSE books
        /\ work' = [work EXCEPT ![t] = [pc |-> "reply", req |-> r, answer |-> answer]]
        /\ holder' = Freed(t, answer)
  /\ UNCHANGED <<inflight, waiting, browser, troubles>>

\* The answer reaches the tab, if it still waits: a success forgets the stored key of the
\* scope, whichever page is visible.
Reply(t) ==
  /\ work[t].pc = "reply"
  /\ LET r == work[t].req IN
       IF r \in waiting[r.tab]
         THEN /\ EndCall(r, work[t].answer)
              /\ stored' = IF work[t].answer = "told"
                             THEN [stored EXCEPT ![r.tab][Scope(r.what)] = Unused]
                             ELSE stored
         ELSE UNCHANGED <<waiting, page, goal, stored>>
  /\ work' = [work EXCEPT ![t] = Idle]
  /\ UNCHANGED <<books, holder, inflight, made, left, troubles>>

\* What a transaction that is cut short leaves: nothing, the sequence of numbers included.
CutShortButNumbered(t) ==
  IF work[t].pc = "commit" /\ work[t].req.what.action = "validate"
    THEN [books EXCEPT !.next = @ + 1]
    ELSE books
CutShort(t) == books

\* The process dies or loses its database connection: what it had not committed is
\* rolled back, and nobody is answered.  (The death of a process with several threads is
\* several such steps, and a request lost on its way one whose thread dies at once.)
Crash(t) ==
  /\ work[t] # Idle
  /\ troubles > 0
  /\ work' = [work EXCEPT ![t] = Idle]
  /\ books' = CutShort(t)
  /\ holder' = IF holder = t THEN Nobody ELSE holder
  /\ troubles' = troubles - 1
  /\ UNCHANGED <<inflight, waiting, browser>>

\* set_period, a transaction under the same lock, closes the period or opens it again.
SetPeriod ==
  /\ holder = Nobody
  /\ books' = [numbers |-> books.numbers, next |-> books.next, payments |-> books.payments,
               memory |-> books.memory, open |-> ~books.open]
  /\ UNCHANGED <<holder, inflight, work, waiting, browser, troubles>>

Init ==
  /\ books = Blank
  /\ holder = Nobody
  /\ inflight = {}
  /\ work = [t \in Threads |-> Idle]
  /\ waiting = [tab \in Tabs |-> {}]
  /\ page = [tab \in Tabs |-> 0]
  /\ stored = [tab \in Tabs |-> [scope \in Scopes |-> Unused]]
  /\ made = [tab \in Tabs |-> 0]
  /\ goal = [tab \in Tabs |-> [intent |-> 0, what |-> Nothing, state |-> "none"]]
  /\ left = [tab \in Tabs |-> FALSE]
  /\ troubles = MaxTroubles

Serve(t) == Lock(t) \/ Read(t) \/ Commit(t) \/ Reply(t)

Next ==
  \/ \E tab \in Tabs, what \in Wishes : Ask(tab, what)
  \/ \E tab \in Tabs : Retry(tab) \/ Leave(tab) \/ \E r \in waiting[tab] : NetworkError(tab, r)
  \/ \E t \in Threads : Serve(t) \/ Crash(t) \/ \E r \in inflight : Accept(t, r)
  \/ SetPeriod

Spec == Init /\ [][Next]_vars

\* A server that runs takes the requests of its queue and serves them; PostgreSQL grants
\* a row lock to the transactions that wait for it in turn; fetch notices a dead
\* connection; and a user who does not know repeats.  Nobody has to ask anything.
Fairness ==
  /\ \A t \in Threads :
       /\ WF_vars(Read(t) \/ Commit(t) \/ Reply(t))
       /\ SF_vars(Lock(t))
  /\ SF_vars(\E t \in Threads, r \in inflight : Accept(t, r))
  /\ \A tab \in Tabs :
       /\ WF_vars(Retry(tab))
       /\ WF_vars(\E r \in waiting[tab] : Lost(r) /\ NetworkError(tab, r))

FairSpec == Spec /\ Fairness

(***************************************************************************)
(* Properties.                                                             *)
(***************************************************************************)

\* A key has at most one effect, and it is what the record of the key says: the rows of
\* the payments and of the keys are written together or not at all, however requests of
\* one key overlap, are repeated or are cut short.
OneEffectPerKey ==
  /\ \A p, q \in books.payments : p.key = q.key => p = q
  /\ \A m, n \in books.memory : m.key = n.key => m = n
  /\ \A p \in books.payments : [key |-> p.key, what |-> p.what] \in books.memory
  /\ \A m \in books.memory :
       IF m.what.action = "payment"
         THEN \E p \in books.payments : p.key = m.key /\ p.what = m.what
         ELSE books.numbers[m.what.invoice] > 0

\* When the server makes its answer, the answer is true: "done" means that the request is
\* in the books, by this call or by an earlier one, and a refusal that it is not.  So a
\* repetition is never refused for what its first call did (the balance it used up, the
\* status it changed) nor for what came after (a closed period).
AnswersAreTrue ==
  [][\A t \in Threads :
       work[t].pc # "reply" /\ work'[t].pc = "reply" =>
         LET r == work[t].req IN
         work'[t].answer = "told" <=> [key |-> r.key, what |-> r.what] \in books'.memory]_vars

\* A user who stays on the page until it answers, and repeats the form it shows, pays once
\* what he decided to pay once, however many answers are lost.
PatientUsersPayOnce ==
  \A p, q \in books.payments :
    p.tab = q.tab /\ p.intent = q.intent /\ ~left[p.tab] => p = q

\* The same for every user, as the test of operationKey has it: a repetition of the same
\* content, from the page that showed the error, has the same key.
RepetitionsPayOnce ==
  \A p, q \in books.payments : p.tab = q.tab /\ p.intent = q.intent => p = q

\* The rows a transaction has read stay what they were until it commits, which is what the
\* lock of the company is for: the triggers never have to catch a service out.
ReadingsStayTrue ==
  \A t \in Threads : work[t].pc = "commit" => work[t].seen = books

\* Seen from outside, the concurrent server keeps the promise of the sequential ledger:
\* crashes and lost answers neither skip a number nor lose or repeat a payment.
Unissued == [number |-> 0, year |-> 0, total |-> 0, paid |-> 0]
Bill(i) ==
  [number |-> books.numbers[i], year |-> 0, total |-> Total(i), paid |-> Paid(books, i)]
Promise == INSTANCE InvoicePromise WITH
  Years <- {0},
  bill <- [i \in Invoices |-> IF books.numbers[i] > 0 THEN Bill(i) ELSE Unissued],
  next <- [year \in {0} |-> books.next]
KeepsPromise == Promise!Spec

\* Every thread comes back: no transaction waits for ever, whatever dies.
ThreadsComeBack == \A t \in Threads : []<>(work[t] = Idle)

\* A user who stays and repeats until there is an answer gets one, whatever is lost.
RepeatingSettles ==
  \A tab \in Tabs :
    goal[tab].state \in {"asking", "unknown"} ~> goal[tab].state \in {"told", "refused", "left"}
=============================================================================
