# A verification development for Azula

Azula is an invoicing and bookkeeping service: a Django application over
PostgreSQL (`src/backend`), served by Waitress, and a Vue application in the
browser (`src/frontend`). One installation holds the books of one company.
Subscriptions are sold through Stripe; banks and external sources feed
transactions in.

The modules here model what could go wrong with money, numbers, periods,
repeated requests, subscriptions, bank statements, the external interface, the
catalogue, the reports and the lists of the browser. TLC checks them on small
instances, and the TLA+ proof system proves every safety property of the passing
runs, refinements included, for every value of the constants. Paths below are relative to the root of the
repository.

## The system and its parts

| Part | State | Operations | What makes it hard | What makes it correct |
|---|---|---|---|---|
| Invoice arithmetic (`erp/services.py` `_calculate`) | none | rounding of lines, tax on the rounded net | ties, limits of a line and of the total | amounts stored, shown, posted and paid agree |
| Financial services (`erp/services.py`) | company, invoices, payments, entries, periods, number sequences, idempotency records (`erp/models.py`) | `save_draft`, `duplicate_invoice`, `validate_invoice`, `record_payment`, `configure_company`, `set_period` | stale drafts, numbering over years, periods moved, closed and reopened | gap-free numbers, sub-ledger = ledger, no overpayment, closed books stable, history only grows |
| Service of requests (`erp/api.py`, `server.py`, `frontend/src/api.ts`, `InvoiceView.vue`) | threads, the row lock of the company, keys in `sessionStorage`, busy pages | send, repeat, lock, read, commit, answer, crash | overlapping repetitions, lost answers, dead threads, pages left | one effect per key, true answers, no lost update, everybody comes back |
| Database guards (`erp/migrations/0002_financial_guards.py`, `connections/migrations/0002_connection_guards.py`) | none of their own | triggers judge each write and, deferred, each commit | writers other than the services | the same promises without trusting the services |
| Subscriptions (`billing/`) | `Subscription`, `CheckoutAttempt`, `WebhookEvent`; Stripe's sessions and subscriptions | checkout, recovery, webhooks, synchronisation, exemption by the operator | three transactions with remote calls inside, late and repeated webhooks, rows found before the lock | one live subscription, access only for what was paid, what was paid is honoured |
| Bank accounts and connections (`connections/`) | accounts, imported and external transactions, keys, idempotency | import preview and confirmation, reconciliation, external writes, revocation | files confirmed later than previewed, keys revoked meanwhile | a transaction is booked once, by a payment that exists |
| Login and its throttle (`erp/api.py`) | two counters per attempt, sessions | login, logout, change of password | time read before the locks | limits hold per address and per account |
| Users and roles (`erp/permissions.py`, `erp/api.py`) | users, roles | create, change, deactivate | two administrators at a time, authority read once per request | an administrator remains |
| Catalogue, partners and prices (`erp/partner_api.py`, `erp/serializers.py`) | customers, products, customer prices | save, archive, price | judged before the lock is taken, archived meanwhile | no update is lost, nothing archived is linked to again, codes are unique |
| Reports and exports (`erp/reporting.py`, `erp/partner_api.py`) | none | dashboard, statement, trial balance, CSV | several queries, only the dashboard under the lock | figures of one moment, or rows that stay true |
| Lists, session and navigation (`useList.ts`, `session.ts`, `router.ts`, `App.vue`) | what the last answer said | search, paging, login | answers out of order | the list shown is the list asked for |
| Views, print, translations | none | formatting | | not modelled: layout |
| Deployment, configuration, commands | read once | start, bootstrap, demonstration data | | not modelled: no behaviour over time |

How they interact: the browser calls `/api/...` over HTTP with an idempotency
key; a view of `erp/api.py` checks the role, calls one service of
`erp/services.py` and answers. Each service is one transaction that first locks
the row of the company (`_lock`, line 53), so services exclude each other; the
triggers judge the rows they write. A reconciliation in `connections/services.py`
calls `record_payment`. `billing/access.py` decides on every request whether the
company is served at all; `billing/services.py` calls Stripe from inside its
transactions, and Stripe calls back by webhooks.

`PROJECT.json` lists the hazards of this code at their lines, with the
properties that cover each, or the reason none does.

## The modules

| Module | Models | Composes |
|---|---|---|
| `Money` | `_calculate`: exact products rounded half up, per line | |
| `InvoicePromise` | what a receiver of invoices is promised (abstract) | |
| `Ledger` | `erp/services.py`, one action per service | extends `Money`, instantiates `InvoicePromise` |
| `Banking` | bank accounts, imports and reconciliation (`connections/services.py`, accounts of `connections/api.py`) | extends `Ledger` |
| `Reports` | dashboard, statement, detail, trial balance and export, query by query (`erp/reporting.py`, `partner_api.py`, `api.py`) | extends `Ledger` |
| `Requests` | browser keys, threads, lock, commit, crash, answer | instantiates `InvoicePromise` |
| `Guards` | the triggers of `erp/migrations/0002_financial_guards.py` under arbitrary writers | |
| `External` | external interface and its keys, users (`connections/services.py`, `auth.py`, `api.py`, `UserViewSet` of `erp/api.py`) | |
| `Subscription` | `billing/` and Stripe | |
| `Catalogue` | categories, products, customers and prices (`ReferenceViewSet` of `erp/api.py`, `partner_api.py`) | |
| `Desk` | a list that searches, turns pages and reloads (`frontend/src/useList.ts`) | extends `Catalogue` |
| `SumLemmas` | facts about the sums of the community modules, on which all amounts rest | |
| `LedgerProofs`, `RequestsProofs`, `GuardsProofs`, `ExternalProofs`, `SubscriptionProofs`, `DeskProofs` | the theorems | extend the module they are about; the first three extend `SumLemmas` too |
| `CompositionProofs` | the theorems about `Banking` and `Reports` | extends both of them and `LedgerProofs` |
| `MCLedger`, `MCBanking`, `MCReports`, `MCRequests`, `MCGuards`, `MCExternal`, `MCSubscription`, `MCDesk` | constants for TLC | extend the module of their name |

Operators named like `PayableOnce` or `GrantableAnytime` that stand just before
`Payable` or `Grantable` are deliberately wrong forms. Nothing uses them in the
model; put in the place of the right form they make the property break, which
shows that the property depends on that line of code.

### Money and Ledger

An amount is a whole number of ticks of the finest precision. A line is the
exact value of quantity × price × (1 − discount), in fractions of a tick, and a
tax rate: the 50 digits of the code's decimal context make that product exact,
so `quantize` is the only rounding. `RoundHalfUp` is `ROUND_HALF_UP` on the
non-negative numbers of this code.

`Ledger` has one variable per table. A slot not used holds the null row of its
table, so a primary key is an element of a constant set. Each service is one
action, since each is one transaction under the lock (`Requests` looks inside);
a `DomainError` rolls back and is no step; a repetition with the same key and
the same content returns what the first one did and is a stuttering step.
`SaveDraft` covers creation and change, and is possible only for an invoice
that is not validated; `ValidateInvoice` recalculates the draft under the
precision of the moment, takes the next number of the year, posts the entry and
writes the idempotency record, as the code does in one transaction.
`SetArchived` and `Connect` are the only effects of the catalogue and of the
connections the financial services read. Texts, due dates, the audit and the
rights of the caller are left out. An invoice keeps its number of lines and
their amounts; `LineLists` is the set of lists a user may type.

### Requests

The same validations and payments from the click to the answer. A tab keeps the
key and the content of its last operation per scope (`operationKey`), sends a
request, and shows a network error or an answer on the page that asked, if it is
still there. A thread takes a request (`Accept`), waits for the lock (`Lock`),
reads and decides (`Read`), writes what it computed **from its reading** under
the judgement of the triggers (`Commit`) and answers (`Reply`). `Crash` ends a
thread at any of these points, with what PostgreSQL does to an open
transaction. `SetPeriod` is another transaction under the same lock.

`Commit` takes the rows read and the rows present as two arguments, so the lock
is not built into the model: without it (`GrantableAnytime`) the readings go
stale and `ReadingsStayTrue` fails.

### Subscription

A checkout is `Recover` (or `BeginRecovery`/`EndRecovery` when the session found
is complete), `Reserve`, `Customer` and `Session`, one action per transaction;
`Session` creates the session at Stripe and may then lose the answer. Every
transaction that reads Stripe and writes afterwards is two actions, with the
lock held in between (`reading`), because the subscription may change between
the two. Stripe is external: sessions are completed or expire, subscriptions
change, and each change leaves a notification that is delivered in any order and
repeated until it is acknowledged.

A webhook is served in two steps more. `Deliver` finds the row of its customer
without a lock (`process_event`, line 335) and waits in `found` with the row it
has found; a webhook about no customer of the service is acknowledged there.
`BeginEvent` and `ExpireEvent` have the lock, and work on the row read again
(`Refreshed`, line 342); `RepeatDelivery` is the webhook that finds its
notification acknowledged meanwhile (`WebhookEvent`) and does nothing. One that
dies before it has the lock has done no more than one that dies just after
(`Abort`), so that death has no step of its own. Stripe's statuses `unpaid`,
`incomplete` and `paused` count for the code as `past_due`, and
`incomplete_expired` as `canceled`. Signatures, prices and test mode are left
out.

### Banking

The same company with bank accounts. A reconciliation is `RecordPayment` of
`Ledger` followed by the change of the bank row, in one action, because the code
calls `record_payment` inside its own transaction; the other services of the
ledger are those of `Ledger` with the keys users have (`UserKeys`). The key of
the payment of a row is `"bank:"` and a keyed hash of its primary key, hence a
function of the row: it is written as the row, `BankIds` being a subset of
`Keys`.

A file is a set of rows with distinct identifiers, as `parse_csv` leaves it, and
a row stands for all that `_same_bank_row` compares. `PreviewImport` gives a
digest; `ConfirmImport` accepts it if it is the digest of the same account and
file, checks the conflicts again under the lock and stores the rows missing
now. The code passes to the import a `company` read before the lock; what it
decides with it can only refuse more, so the model reads the row as it is.
Foreign transactions received from outside count for the company only as a
reason to keep its currency (`ReceiveExternal`).

The constraints and the triggers of `connections/migrations/0002` are not guards
of the actions. They are translated as `AccountAccepted`, `InsertAccepted`,
`PaymentAccepted` and `UpdateAccepted`, and `GuardsStaySilent` says that no
service writes what they would refuse: the properties hold of the services
themselves, and the user meets a message and not a failure of the database.

### External

Integrations write customers, drafts and transactions with keys administrators
give them. A thread authenticates a request (`SignIn`, `Arrive`) and acts later,
under the lock of the company, in one action. What it knows then differs: an
administrator acts with the user object read at authentication, so `SaveUser`,
`IssueKey` and the others do not look at the user again; a key is read again
(`StillLive`). A payload is chosen when the request acts, since nothing looks at
it before; a content carries its meaning after validation, which is stored, and
its spelling, which only the fingerprint sees.

`Write` is a new request: it finds the transaction of that identifier or creates
a row, and registers the request in the same transaction; its answer may be
lost. `Replay` answers what the registry holds. Refusals, readings and dead
threads are `End`: whatever only refuses a write (the currency, the form, the
ledger's rules for drafts) is not a guard, so the model allows more than the
code. A key is `over` when it is revoked or expired, which the code
distinguishes nowhere else. Transactions have no service that changes them;
customers and drafts are rows of the company like any other, and `EditRow` is
what its users make of them (the API deletes neither). So what an answer names
holds what was sent for ever if it is a transaction, and otherwise is there for
ever, of its kind (`StandsFor`). The constraints and the triggers on these tables are
not guards either. All roles other than administrator are one, since they have
the same authority here.

### Guards

The financial tables with nothing but their constraints and triggers. A
transaction is any sequence of statements on single rows: an invoice written or
deleted, a line, a payment, an entry, a line of an entry, the period. A row
trigger is the guard of its statement; a deferred trigger judges at `Commit`
every row in `queued`; `Rollback` goes back to `committed`. The services play no
part, so what holds here holds against the console and against other programs.

Every trigger that lets a financial row in locks the row of the company first,
so one transaction is open at a time. `UPDATE` and `DELETE` on payments and
entries are refused whatever they do and are no step. Net amount and tax are one
amount; dates, accounts and the foreign keys between companies are left out.

`Requests!Passes` applies the same triggers to the rows a validation or a
payment writes, and `Banking` translates those of the connections.

### Catalogue and Desk

A request is two steps, as in the views: `Ask` reads the row and judges the
fields without a lock; `Save` takes the lock, reads the row again (`Instance`),
judges again what the code judges again (`Accepted`) and writes the fields that
were sent (`Patched`). A request may send any fields of a row, `archived` among
them or alone, in a change as in a creation (`Inputs`); a new row needs the
fields without a default (`Complete`) and has the defaults of the models for the
others (`Defaults`). `KeyIsFree` stands for the fact that a row keeps its
table and primary key. Units and warehouses are handled as categories are; a row
keeps its code, its links and `archived`.

`Desk` puts a page among the users of the catalogue. `Reload` makes a call and
every earlier one obsolete, `Serve` lets the server read the rows,
`Answered` and `Failed` come in any order, and `IsCurrent` is the test of
`useList.ts:31`. The rows of an answer are dated by the number of saves, so that
the list can be compared with what its user was told. `DeskKeepsCatalogue`
shows that the page adds no behaviour to the rows.

### Reports

`Service` is any step of `Ledger`; the others are the queries of one reader in
the order the views make them, each on what is committed at its own moment. Only
the dashboard holds the lock of the company between its queries (`Locked`,
`reporting.py:61`), so the figures of a dashboard are of one moment. A statement
makes four readings (sums, count, rows, payments), a detail three and an export
two; what they may say is what `ReadingsOnlyLag` states. Overdue amounts depend
on due dates, which `Ledger` leaves out; a statement fits in one page.

## What the runs check

| Run | Question | Properties | Bounds |
|---|---|---|---|
| `ledger_money` | Do amounts agree everywhere? | `TypeOK`, `SubledgerAgrees`, `NoOverpayment`, `FrozenConfiguration`, `AuthoritativeAmounts`, `KeysWitnessEffects`, `KeepsPromise` | 2 invoices, 4 contents, 2 precisions, 2 currencies, 4 keys, 3 payments of 1 or 10 |
| `books_reports` | Do numbers and periods stay in order, and what may be read meanwhile? | `GapFreeNumbers`, `PeriodsTellTime`, `ClosedBooksStable`, `FiguresAddUp`, `ReadingsOnlyLag` | 2 invoices, 3 keys, 2 periods, 2 days in 2 years, 2 payments of 5, one pair of dates, an export of 1 row |
| `bank_statements` | Is a bank row stored once and paid once? | `ImportsAreStored`, `ReconciledOnce`, `OneCurrency`, `GuardsStaySilent`, `KeepsLedger` | 2 accounts, 2 bank rows, 3 files, 1 invoice of 2, 2 payments of 1, 2 user keys, 2 days, 2 currencies |
| `external_keys` | Do keys and authority hold, and repeated requests act once? | `AnAdminRemains`, `WritesAreAuthorised`, `OneEffectPerRequest`, `AnswersNameTheirRow` | 2 users, 1 integration, 2 keys, 2 threads, 2 idempotency keys, 5 contents (a customer before and after an edit), 2 rows |
| `requests_overlaps` | What do overlapping, repeated and cut requests do to the books, and does everybody come back? | `OneEffectPerKey`, `PatientUsersPayOnce`, `ReadingsStayTrue`, `AnswersAreTrue`, `KeepsPromise`, `ThreadsComeBack`, `RepeatingSettles` | 2 tabs, 2 threads, 1 invoice, 3 intents together, 1 trouble |
| `requests_leaving` | Does a repetition always pay once? | `RepetitionsPayOnce` (violated) | 1 tab, 3 intents, 2 troubles |
| `guards_anybody` | What do the triggers keep of the books, whoever writes? | `CommittedBooksSound`, `PublishedIsForever` | 1 invoice, 2 payments, 3 entries, amounts 1 and 2, transactions of 8 statements |
| `billing_checkout` | Can overlapping calls, lost answers and late or repeated webhooks get the row wrong? | `OneLiveSubscription`, `AnsweredMeansApplied`, `TrialsAreRemembered`, `NewestStays` | 2 calls, 2 keys, 2 attempts, 1 waiting webhook, 3 changes, clock 0..1 |
| `billing_access` | Is access what was paid, no more and no less? | `AccessIsBacked`, `PaidIsHonoured` | 1 call, 1 attempt, 2 plans, 1 waiting webhook, 3 changes, clock 0..2 |
| `billing_trial` | Is a trial offered once? | `TrialOnce` (violated) | 1 call, 2 attempts, 1 waiting webhook, 2 changes, clock 0..2 |
| `billing_switch` | Is it honoured when the plan changes early? | `PaidIsHonoured` (violated) | as `billing_access`, `EarlySwitch` |
| `desk_references` | Are updates lost, codes taken twice, archived rows linked, or old lists shown? | `ListIsCurrent`, `OneRowPerCode`, `PatchesOnlyPatch`, `LinksAreLive` | 1 category, 1 product, 1 customer, 2 prices, 2 codes, 2 users, 2 requests, 4 requests and calls, 2 pages, 2 texts |

Why these bounds are enough for the cases of interest:

- `MCLineLists` has amounts and a tax that fall on a tie, two lines whose
  rounded sum is not the rounding of the sum, a list worth nothing at the coarse
  precision, and one beyond `MaxAmount` though neither of its lines is. Two
  precisions and two invoices make drafts go stale next to validated ones, and
  three payments of 1 and 10 fill a balance exactly or miss it by one.
- Two invoices over two years are issued in one year or in two, in either
  order; two periods can overlap, touch, swap places while empty, and be closed
  in either order. One reader among these writers meets every service between
  any two of its queries; an export limit of one makes the second invoice exceed
  it. The theorems cover more invoices and years.
- Two threads and two tabs give every overlap of two calls of one key, of two
  keys on one invoice, and of a payment with a validation. The amounts 1 and 2
  on a total of 2 make a second payment sometimes fit and sometimes not, and
  three intents together leave one of them to compete with a repetition. Two
  troubles in one scenario are in `requests_leaving`; the theorems about
  `Requests` hold for any number.
- Two attempts are the least for two subscriptions; three changes let a
  subscription be renewed, fail and be paid, with three notifications in any
  order. A session of one unit, a trial of one and a period of two end in
  different orders within two units of time; two attempts follow each other
  within one. One webhook waits in `found` while others are delivered,
  acknowledged or repeated around the transaction that has the lock, and while
  the row it has found changes; more of them wait in line for the same lock.
  What a row grants is a matter of one subscription and its periods, so
  `billing_access` has one attempt and the longer clock; how one subscription
  follows another is a matter of calls and webhooks, so `billing_checkout` has
  two of each. The theorems have all of it together.
- Of the three files of `MCBanking` two overlap and the third contradicts both
  with a debit, so that each import can come before, between or after the
  preview and the confirmation of another. Two rows of amount 1 and a user with
  the same amount compete for an invoice of 2: payments of the user come before,
  between and after those of the bank, and one too many is refused. Two accounts
  may hold the same row; two currencies make a configuration race the opening
  of an account.
- Two users and two threads let both act with an authority one of them has just
  lost; two keys let one replace the other between an attempt and its
  repetition; a customer, one transaction in two spellings and a contradicting
  one meet in every order under two idempotency keys. One integration keeps the
  run short; that integrations share nothing is in the theorems, which hold for
  any number of them.
- Eight statements are enough to create a document with its lines, its entry
  and a payment with its own in one transaction, so that each check can be
  passed, missed or undone before the commit; two payments of one invoice reach
  its total or pass it.
- One category, product and customer and two prices are the least for a link, a
  price of an archived product and two prices of one pair; a company may begin
  with none of them, so that two users create the same row. Two requests overlap
  in every order, and with two further calls of the list two answers swap.

`MaxPayments`, `MaxEntries`, `MaxCopies`, `MaxStatements`, `MaxIntents`,
`MaxTroubles`, `MaxAttempts`, `MaxWaiting`, `MaxChanges`, `MaxNow`, `MaxAsks` and `MaxEvents`
are bounds of the models, not of the code. In all the runs deadlock is
checked; the models can always step, by a service that changes nothing more
than a draft, a period or an exemption, by a transaction that rolls back, or by
a user who types.

Symmetry is used for interchangeable keys, rows, threads, tabs and callers, and
only in runs without liveness properties. The properties `KeepsPromise`,
`AnswersAreTrue` and the other action properties quantify over all elements and
are invariant under the permutations.

### Fairness

`Requests`: weak fairness of the steps of a thread that holds what it needs
(Waitress threads run until they end); strong fairness of `Lock`, because
PostgreSQL queues the waiters of a row lock; strong fairness of taking some
request from the queue, because a free thread of Waitress takes the next one;
weak fairness of noticing a dead connection; and weak fairness of repeating,
which is what `RepeatingSettles` is about ("a user who repeats"). Nobody has
to ask, no trouble has to come or to stay away; troubles are finite by
`MaxTroubles`.

`Subscription`: an open transaction ends, one way or the other; a webhook that
waits for the lock has it in the end, since PostgreSQL queues the waiters; and
each notification is delivered again until one delivery finds Stripe and the
service answering: strong fairness of its delivery and of its success, for each
change of each subscription, since an attempt may abort any finite number of
times. That is Stripe's policy as `docs/abonnements.md` and
`billing/services.py` rely on it. No call to
checkout, no payment and no passing of time is fair.

## Disagreements found

1. **A repetition can pay twice** (`requests_leaving`). `finishOperation(scope)`
   (`frontend/src/api.ts:60`) forgets whatever key the scope holds. A payment is
   sent, the user leaves the busy page, comes back, and makes another payment of
   the same invoice whose answer is lost; the late success of the first one then
   forgets the key of the second, and repeating it records a second payment with
   a new key. Users who stay until the page answers are safe
   (`PatientUsersPayOnce`).
2. **A trial can be offered twice** (`billing_trial`). A trial that has begun and
   been cancelled before its first webhook is processed is read as `canceled`,
   and `trial_used` (`billing/services.py:311`) stays false, while
   `docs/abonnements.md:19` says that a trial that has begun is remembered. Once
   seen, it is (`TrialsAreRemembered`).
3. **A paid subscription may never open the access** (`billing_switch`).
   `synchronize` looks for the pending attempt by the plan the subscription has
   now (`billing/services.py:285`). If the portal changes the plan before the
   first synchronisation, every webhook is answered 503 for ever, while
   `docs/abonnements.md:12` promises the access. With the plan unchanged until
   then, `PaidIsHonoured` holds. The portal is offered to a company with a
   customer (line 237), whether or not its subscription was synchronised.

## What is proved

Every statement below holds for every value of the constants, under the named
assumptions of the module, which give constants their types and which TLC
evaluates in the runs.

| Module | Theorem | Statement |
|---|---|---|
| `LedgerProofs` | `TypeCorrect` | `Spec => []TypeOK` |
| | `NumbersAreGapFree` | `Spec => []GapFreeNumbers` |
| | `NeverOverpaid` | `Spec => []NoOverpayment` |
| | `ConfigurationIsFrozen` | `Spec => []FrozenConfiguration` |
| | `PeriodsAlwaysTellTime` | `Spec => []PeriodsTellTime` |
| | `ClosedBooksAreStable` | `Spec => ClosedBooksStable` |
| | `HistoryGrows` | `Spec => HistoryOnlyGrows` |
| | `KeysAreWitnesses` | `Spec => []KeysWitnessEffects` |
| | `LedgerKeepsPromise` | `Spec => KeepsPromise`, the refinement of `InvoicePromise` |
| | `RoundingIsNearest` | `RoundHalfUp` gives the only multiple of the quantum within half a quantum of the exact quotient, a tie going up |
| | `AmountsAreAuthoritative` | `Spec => []AuthoritativeAmounts` |
| | `PreviewsAreHonest` | `Spec => PreviewIsHonest` |
| | `BooksAgree` | `Spec => []SubledgerAgrees` |
| `CompositionProofs` | `BankTypeCorrect` | `BankSpec => []BankTypeOK` |
| | `BanksKeepLedger` | `BankSpec => KeepsLedger`: every behaviour with banks is one of the ledger's `Spec` |
| | `CurrencyIsOne` | `BankSpec => []OneCurrency` |
| | `RowsAreReconciledOnce` | `BankSpec => []ReconciledOnce` |
| | `ConfirmedImportsAreStored` | `BankSpec => []ImportsAreStored` |
| | `ServicesRespectGuards` | `BankSpec => GuardsStaySilent` |
| | `ReportsKeepLedger` | `ReportsSpec => Spec`, hence `NumbersWhileRead`, `PeriodsWhileRead` and `ClosedWhileRead` |
| | `DashboardShowsOneMoment` | `ReportsSpec => ShownAtOnce` |
| | `ReportsStayTrue` | `ReportsSpec => []RowsAreFinal`, the first part of `ReadingsOnlyLag` |
| | `FiguresAlwaysAddUp` | `ReportsSpec => []FiguresAddUp` |
| | `ReadingsAlwaysLag` | `ReportsSpec => []ReadingsOnlyLag` |
| `RequestsProofs` | `KeysWorkOnce` | `Spec => []OneEffectPerKey` |
| | `ReadingsAreTrue` | `Spec => []ReadingsStayTrue` |
| | `PatiencePays` | `Spec => []PatientUsersPayOnce` |
| | `TrueAnswers` | `Spec => AnswersAreTrue` |
| | `RequestsKeepPromise` | `Spec => KeepsPromise`, the refinement of `InvoicePromise` by the concurrent server |
| `GuardsProofs` | `GuardsTypeCorrect` | `Spec => []TypeOK` |
| | `CommittedBooksAreSound` | `Spec => []CommittedBooksSound` |
| | `WhatIsPublishedStays` | `Spec => PublishedIsForever` |
| `ExternalProofs` | `ExternalTypeCorrect` | `Spec => []TypeOK` |
| | `AnAdministratorRemains` | `Spec => []AnAdminRemains` |
| | `EveryWriteIsAuthorised` | `Spec => WritesAreAuthorised` |
| | `RequestsHaveOneEffect` | `Spec => []OneEffectPerRequest` |
| | `AnswersCanBeTrusted` | `Spec => []AnswersNameTheirRow` |
| `SubscriptionProofs` | `OneSubscription` | `Spec => []OneLiveSubscription` |
| | `AccessStaysBacked` | `Spec => []AccessIsBacked` |
| | `AnswersAreApplied` | `Spec => []AnsweredMeansApplied` |
| | `TrialsRemembered` | `Spec => TrialsAreRemembered` |
| | `NewestSubscriptionStays` | `Spec => NewestStays` |
| `DeskProofs` | `CatalogueTypeCorrect` | `CatalogueSpec => []CatalogueTypeOK` |
| | `NoUpdateIsLost` | `CatalogueSpec => PatchesOnlyPatch` |
| | `LinksStayLive` | `CatalogueSpec => LinksAreLive` |
| | `CodesAreUnique` | `CatalogueSpec => []OneRowPerCode` |
| | `DeskKeepsCatalogue` | `Spec => CatalogueSpec`: a page is one more user of the catalogue |
| | `ListsAreCurrent` | `Spec => []ListIsCurrent` |

The argument for the sums (`SumLemmas`). `SumFunction` adds up a function by
recursion on the subsets of its domain, and the induction theorems of the
library take a predicate as a parameter, which the provers cannot instantiate.
An induction is therefore written as a descent: the subsets for which a fact
fails, if there are any, have a minimal element (`Descent`, from the
well-foundedness of strict inclusion on finite sets), and that one does not
fail. `SumsExist` shows in this way that the recursive function exists,
`SumEquation` that a sum obeys its equation, and `SumTakeOut` that any term may
be taken out first. The rest follows: a sum grows by the term that is added
(`SumAdd`), is monotone (`SumMonotone`), may be made part by part (`SumByParts`,
`SumUnion`) and does not depend on the names of its terms (`SumRenamed`).
`PowersExist` does the same for the powers of ten of `Quantum`. So nothing is
assumed of sums in any module: they are the operators TLC evaluates.

The argument for the ledger:

- `TypeOK` is not inductive: nothing in it says that the row of a draft has a day
  of the calendar and a nonempty list, which `ValidateInvoice` relies on to
  write a number of some year. `TypeInv` adds `DraftsAreDocuments`.
- `ValidatedSteps` says that every step either issues one invoice or leaves the
  validated ones as they are; numbers, configuration, payments and history all
  follow from it, with one case for the issuing step.
- `NumbersOf(year)` grows by exactly the number the sequence held, and the
  sequence by one.
- An entry is filed under an open period that covers its date; dates of a period
  with entries cannot change; periods do not overlap. Hence a date has one
  period for ever, and nothing is added under a closed one.
- `NeverOverpaid`: a payment is written into a free slot, so it adds its amount
  to what its invoice has been paid and nothing to any other (`PaidGrows`), and
  `Payable` has compared that sum with the total. The assumptions
  (`MoneyAssumption`, `LedgerAssumption`) give constants their types.
- `BooksAgree`: `SubledgerAgrees` says what the lines of the entries of an
  invoice add up to, account by account. `EntriesKept` adds that there are
  finitely many entries, each with finitely many lines and as much debit as
  credit, of a validated invoice and a recorded payment. Hence the entry that is
  posted is new: its lines are disjoint from those before, and each account moves
  by the lines of the new entry (`MovedGrows`). `InvoiceMoves` and `PaymentMoves`
  say by how much; `NonZero` may leave lines out, which moves nothing.
- `AmountsAreAuthoritative`: `FrozenConfiguration` makes the precision of a
  validated invoice that of the company, so the quantum of a payment taken later
  is the one of its invoice. `RowsAuthoritative` and `PaidInQuanta` say it by the
  precision of the row, which never changes: a sum of multiples of a quantum is
  one (`SumMultiple`), and rounding gives multiples.
- `KeysAreWitnesses` compares counts that no single step changes by more than
  one: `Witnessed` says that the keys and the payments of one invoice, amount and
  day are finite sets of one size, and that validated invoices have exactly one
  key. It also says that no copy was made where there is no invoice yet, which is
  why a second key cannot make the same copy.
- For the refinement, an issuing step maps to `Issue`, a payment to `Pay`, and
  every other service to a stuttering step.

The argument for the banks:

- A reconciliation is a `RecordPayment` with a bank key, any other service of a
  user is one of the ledger, and the rest leaves the ledger alone or raises
  `connected`; so `BankStepIsLedgerStep`, and `TypeInv` of `LedgerProofs` is an
  invariant here too.
- The services of users neither use a bank key nor forget one, and payments
  never change; every earlier payment has a smaller primary key than the new
  one, so `OwnPayments` is exactly the new payment, which no row claimed before.
  This needs the invariant that a row claims only recorded payments.
- `OneCurrency` is not inductive: `CurrencyInv` adds that the company is
  `connected` as soon as an account or a preview exists, which is what freezes
  its currency.
- A confirmed file is split into the rows present and the rows placed. Without a
  conflict a row of the file with the identifier of a stored one is that stored
  one; `place` is injective and lands on free rows; `NoDuplicate` keeps two rows
  of a file apart. Stored rows never change but to be reconciled.
- `ServicesRespectGuards` puts these invariants together (`BanksInv`): an account
  is written in the currency of the company by `OneCurrency`, an imported row has
  an identifier of its own by `ImportsAreStored` after the step, and a reconciled
  row takes a payment that no other row can have, being new, while the others
  have recorded ones.
- `BankingAssumption` gives constants their types and says what `parse_csv`
  guarantees of a file: not empty, no identifier twice, no row of amount zero.

The argument for the external interface: only `SaveUser` touches users, and it
removes an administrator only when it names another one in the same state; only
`Write` creates rows and registers requests (`OnlyWritesCreate`), and `EditRow`
changes only the meaning of customers and drafts. `OneEffectPerRequest` is not
inductive: `RegistryIsTrue`, the row of each request stands for it, is what
tells a row found by `Known` from the row of a customer or a draft. The answers
received are part of the registry (`TypeOK`), so they inherit both.
`ExternalAssumption` gives constants their types.

The argument for the reports: a query changes nothing, so every step is one of
`Ledger` or a stutter. `OneMoment` says that the figures a dashboard has so far
are those of the present books; no service can break it, for none takes the lock.
`RowsAreFinal` is inductive with the shapes of the reports (`Shapes`): what a
report says of a validated invoice is what no service ever rewrites, whenever it
is read. For `FiguresAlwaysAddUp`, the payments grouped by invoice add up to all
payments, so that the balances are what was invoiced less what was received
(`SumByParts`, `SumDifference`); the debits and credits of a period are those of
its entries, each of which is balanced (`LinesBothWays`). `ReadingsOnlyLag` is
not inductive, for it speaks of reports already shown: `Lags` says at every query
that what has been read is no more than what is there now, which grows only
(`PaidOnlyGrows`), and that the payments listed are read after the rows they
belong to.

The argument for the requests:

- `LockOK`: who reads or writes holds the lock, and who is about to commit has
  read the present rows and decided on them. This is `ReadingsStayTrue`, made
  inductive by the holder.
- `BooksOK`: payments and records of keys come together, one for each key.
- `TabsOK` relates the browser to the server. `Traces` are the requests of a tab
  in flight, in a thread or paid. `Patient` says that those of one intent have one
  key, and `Keyed` that it is the key the tab still stores, as long as the user
  of a page nobody left does not know the outcome. Hence repetitions carry one
  key, and `BooksOK` gives one payment.
- For the refinement of `InvoicePromise`, `RowsOK` adds that payments are finitely
  many and of numbered invoices. Only a commit that the database lets through
  changes what is seen (`WhoWrites`); since it has read the present rows, it is
  `Issue` or `Pay`. The row of a payment is new because its key is, so `Paid`
  grows by its amount and nothing else moves.

The argument for the triggers: `Sound` takes the rows and the checks still to
come. `GuardsInv` says it of the rows of the open transaction with its queue, and
of the committed rows with an empty one. A commit passes from the first to the
second, since every check in the queue has passed; a rollback goes back. A
statement may only break what is queued by it. What the payments of an invoice add up to is the sum of a column of a constant
set (`ColumnSums`), which a statement changes by one cell.

The argument for the catalogue and the list: only `Save` writes rows
(`SaveFacts`), and it judges the row it reads under the lock; what `Ask` judged
long ago is never relied on, except that a row keeps its table and its key and
that a new one has the fields it needs (`CatalogueTypeOK`). `CallsAreDated` is what `ListIsCurrent` lacks to be
inductive: a call is older than the newest one or is the newest one, which asks
for what is wanted and, once served, has read no less than the last save its
user was told of, because being told starts a new call.

The argument for the subscription rests on `Inv`, each part of which the
properties alone do not give:

- `SessionsOK`: what is alive at Stripe, or may become so, is the attempt in
  progress or the subscription of the row. An attempt ends only when its session
  has; a session that exists at Stripe though its answer was lost keeps its
  attempt pending.
- `RowOK`: one attempt is in progress at most, and none while the row is alive;
  a final row stands for a dead subscription, because final states are final at
  Stripe.
- `ReadingOK`: what a transaction read may be stale, but then a notification it
  will not acknowledge is still to come (`Untold`). So writing it keeps
  `AnsweredMeansApplied`, and a stale reading grants no more than Stripe had
  granted.
- A trial begins only when a pending attempt offers one, which none does once
  the row has seen a trial.

`IInv` adds what the steps of a webhook need. `HeldOK` says that the row in hand
of an open transaction is the row itself, which is what the lock and `Refreshed`
are for; nothing is assumed of the rows in `found`. `CustomerOK` says that a
session exists only where the row has a customer, so that no notification is
dropped before the lock. `NewestOK` says that attempts are numbered in order and
that a pending one is the newest, which gives `NewestSubscriptionStays`.

## What is only model-checked

Liveness under fairness (`ThreadsComeBack`, `RepeatingSettles` and
`PaidIsHonoured`), which the prover does not cover, and the three disagreements
above, which are counterexamples. Every other property of the runs has a theorem.

`CatalogueTypeOK`, `BankTypeOK` and the `TypeOK` of `Guards` and `External` are
proved and are in no run. Nor are `PreviewIsHonest`, which one operation tells,
and `HistoryOnlyGrows`, since a validated invoice that is written again breaks
`KeepsPromise` and `SubledgerAgrees`.

## What is not modelled

- Login and its throttle: two counters per window and Django's sessions. The
  limits are rates, with no promise about the books, and nothing else reads them;
  `External` starts from a signed-in user.
- Session and router of the browser, which keep what the last answer said; the
  end of a page while its list is loading.
- The authority of users in the services of the ledger: a request of a user who
  is demoted meanwhile is still served, as the code has it. Only administrators
  and keys are followed (`External`).
- A failure between two writes of one transaction, which PostgreSQL undoes. It is
  a step in `Requests` and `Guards`; a reconciliation or a service of `Ledger` is
  one action, whose middle nobody sees. The expiry of a key within the
  transaction that has judged it is not told from one just after.
- Plans that differ between overlapping checkouts are in the theorems and not in
  `billing_checkout`, which has one plan.
- Exports other than that of invoices, overdue amounts and the counts of
  references, which read in one query; pages of a statement after the first.
- Duplication and drafts as requests with keys of their own: they follow the path
  of `Requests`, and their effects are in `Ledger`.
- Foreign keys between companies, since one company is followed everywhere; the
  triggers of the external tables.
- Layout, printing, translations, configuration and start-up, which have no
  behaviour over time; signatures of webhooks, hashing of passwords and keys, and
  formats of files; audit rows, which nothing reads back.

## What could be added

1. The steps that `RepeatingSettles` and `PaidIsHonoured` rest on, as action
   properties with theorems: what a repetition changes, what a delivery settles.
2. From `RoundingIsNearest`, a bound on how far the total of an invoice can be
   from the exact one: half a quantum for each line and for each tax.
3. The counters of a login, if their limits come to matter for more than rates.
