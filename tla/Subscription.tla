---------------------------- MODULE Subscription ----------------------------
(***************************************************************************)
(* The subscription of one company to the service: billing/services.py and *)
(* Stripe, which it talks to.                                              *)
(*                                                                         *)
(* A checkout is three transactions under the lock of the company, with a  *)
(* call to Stripe inside; the process may die, or Stripe not answer, at    *)
(* any of them.  Stripe notifies changes by webhooks it repeats until they *)
(* are acknowledged, in any order; each finds its row, waits for the lock, *)
(* and is answered by reading row and subscription anew.                   *)
(*                                                                         *)
(* An attempt, its session and its subscription at Stripe have the same    *)
(* identity: the idempotency key sent to Stripe names the attempt, and a   *)
(* session makes one subscription.  Test and live mode, prices, texts and  *)
(* the audit are left out.                                                 *)
(***************************************************************************)
EXTENDS Integers, FiniteSetsExt

CONSTANTS
  Callers,       \* the requests of administrators that are served at one time
  Keys,          \* Idempotency-Key values
  Plans,         \* the active plans of the operator
  TrialDays(_),  \* the length of the trial of each plan, 0 when none
  SessionTime,   \* how long a checkout session lives (one hour)
  PeriodTime,    \* how long a paid period lasts
  EarlySwitch,   \* the portal may change the plan before the first synchronisation
  MaxAttempts,   \* bound: how many attempts there are room for
  MaxWaiting,    \* bound: how many webhooks wait for the lock at one time
  MaxChanges,    \* bound: how often one subscription changes at Stripe
  MaxNow         \* bound: the clock

ASSUME SubscriptionAssumption ==
  /\ \A p \in Plans : TrialDays(p) \in Nat
  /\ SessionTime \in Nat \ {0}
  /\ PeriodTime \in Nat \ {0}
  /\ EarlySwitch \in BOOLEAN
  /\ MaxAttempts \in Nat
  /\ MaxWaiting \in Nat
  /\ MaxChanges \in Nat \ {0}
  /\ MaxNow \in Nat

Attempts == 1 .. MaxAttempts
None == 0

VARIABLES
  now,
  row,       \* the Subscription of the company
  attempts,  \* its CheckoutAttempts
  calls,     \* how far each call to checkout has come
  found,     \* the webhooks that wait for the lock, with the row as each has found it
  reading,   \* the transaction that has read a subscription from Stripe, if any
  sessions,  \* Stripe: the checkout session of each attempt
  remote,    \* Stripe: the subscription made by each session
  events     \* Stripe: the notifications not yet acknowledged

ours == <<row, attempts>>
stripe == <<sessions, remote>>
vars == <<now, row, attempts, calls, found, reading, sessions, remote, events>>

FinalStatuses == {"none", "canceled"}
NoAttempt == [status |-> "absent", plan |-> None, key |-> None, trial |-> 0, expires |-> 0,
              known |-> FALSE]
NoRemote == [status |-> "none", plan |-> None, paid |-> FALSE, periodEnd |-> 0, trialEnd |-> 0,
             changes |-> 0, granted |-> 0]
NoReading == [for |-> "nobody"]
Idle == [pc |-> "idle"]

\* A transaction may take the lock of the company.
Unlocked == reading = NoReading

(***************************************************************************)
(* Stripe, as billing/services.py and docs/abonnements.md rely on it.      *)
(***************************************************************************)
\* The subscription a becomes r, and Stripe tells.
Becomes(a, r) ==
  LET changed == [r EXCEPT !.changes = @ + 1,
                           !.granted = IF r.status = "trialing" THEN Max({@, r.trialEnd})
                                       ELSE IF r.status = "active" /\ r.paid THEN Max({@, r.periodEnd})
                                       ELSE @]
  IN /\ remote' = [remote EXCEPT ![a] = changed]
     /\ events' = events \cup {[kind |-> "changed", of |-> a, said |-> changed]}

Live(a) == remote[a].status \notin FinalStatuses
MayChange(a) == Live(a) /\ remote[a].changes < MaxChanges

\* The administrator follows the link, which only a committed attempt has, and pays.
CompleteSession(a) ==
  /\ attempts[a].known
  /\ sessions[a] = "open"
  /\ now < attempts[a].expires
  /\ sessions' = [sessions EXCEPT ![a] = "complete"]
  /\ LET trial == attempts[a].trial
         start == [NoRemote EXCEPT !.plan = attempts[a].plan]
     IN Becomes(a, IF trial > 0
          THEN [start EXCEPT !.status = "trialing", !.periodEnd = now + trial, !.trialEnd = now + trial]
          ELSE [start EXCEPT !.status = "active", !.paid = TRUE, !.periodEnd = now + PeriodTime])
  /\ UNCHANGED <<found, now, ours, calls, reading>>

ExpireSession(a) ==
  /\ sessions[a] = "open"
  /\ now >= attempts[a].expires
  /\ sessions' = [sessions EXCEPT ![a] = "expired"]
  /\ events' = events \cup {[kind |-> "expired", of |-> a]}
  /\ UNCHANGED <<found, now, ours, calls, reading, remote>>

\* A period ends and the next one begins, with an invoice that is not paid yet.
BeginPeriod(a) ==
  /\ remote[a].status \in {"trialing", "active"}
  /\ now >= remote[a].periodEnd
  /\ Becomes(a, [remote[a] EXCEPT !.status = "active", !.paid = FALSE,
                                  !.periodEnd = @ + PeriodTime])

\* The invoice of the period is paid, at once or after a failure, or fails.  The statuses
\* unpaid, incomplete and paused count for the code as past_due does, incomplete_expired
\* as canceled.
SettlePeriod(a) ==
  /\ remote[a].status \in {"active", "past_due"}
  /\ ~remote[a].paid
  /\ \/ Becomes(a, [remote[a] EXCEPT !.status = "active", !.paid = TRUE])
     \/ Becomes(a, [remote[a] EXCEPT !.status = "past_due"])

CancelRemotely(a) == Becomes(a, [remote[a] EXCEPT !.status = "canceled"])

SwitchPlan(a) ==
  /\ EarlySwitch \/ row.sub = a
  /\ \E p \in Plans \ {remote[a].plan} : Becomes(a, [remote[a] EXCEPT !.plan = p])

ChangeRemotely(a) ==
  /\ MayChange(a)
  /\ BeginPeriod(a) \/ SettlePeriod(a) \/ CancelRemotely(a) \/ SwitchPlan(a)
  /\ UNCHANGED <<found, now, ours, calls, reading, sessions>>

(***************************************************************************)
(* synchronize: the lock is taken and the subscription read; then the row  *)
(* is written, unless a check fails, and everything is rolled back.        *)
(***************************************************************************)
Pending == {a \in Attempts : attempts[a].status \in {"pending", "open"}}

\* retrieve_subscription: what Stripe says now, not what the event said.
ReadAsToldIn(a, event) == event.said
ReadFromStripe(a, event) == remote[a]

\* The subscription a, which is not that of the row, may take its place.
MaySucceedInTime(held, a, r) ==
  /\ held.sub # None => held.status \in FinalStatuses
  /\ \E p \in Pending : attempts[p].plan = r.plan /\ attempts[p].known /\ p = a
  /\ sessions[a] = "complete" /\ now < attempts[a].expires
MaySucceed(held, a, r) ==
  /\ held.sub # None => held.status \in FinalStatuses
  /\ \E p \in Pending : attempts[p].plan = r.plan /\ attempts[p].known /\ p = a
  /\ sessions[a] = "complete"

\* A trial is accepted when this synchronisation completes the attempt that offered it,
\* or when it is the one already known.
TrialAuthorized(held, a, r) ==
  IF held.trialUsed
    THEN held.trialEnd # 0 /\ r.trialEnd <= held.trialEnd
    ELSE held.sub # a /\ attempts[a].trial > 0

Acceptable(held, a, r) ==
  /\ held.sub # a => MaySucceed(held, a, r)
  /\ r.status = "trialing" => TrialAuthorized(held, a, r)

AccessOfActive(r) ==
  IF r.status = "trialing" THEN Min({r.trialEnd, r.periodEnd})
  ELSE IF r.status = "active" THEN r.periodEnd
  ELSE 0
AccessOf(r) ==
  IF r.status = "trialing" THEN Min({r.trialEnd, r.periodEnd})
  ELSE IF r.status = "active" /\ r.paid THEN r.periodEnd
  ELSE 0

SynchronizedRow(held, a, r) ==
  [held EXCEPT !.sub = a, !.status = r.status, !.plan = r.plan, !.periodEnd = r.periodEnd,
               !.trialEnd = r.trialEnd, !.access = AccessOf(r),
               !.trialUsed = @ \/ r.status = "trialing",
               !.exempt = @ /\ AccessOf(r) <= now]

Synchronize(held, a, r) ==
  /\ Acceptable(held, a, r)
  /\ row' = SynchronizedRow(held, a, r)
  /\ attempts' = IF held.sub = a THEN attempts ELSE [attempts EXCEPT ![a].status = "complete"]

\* process_event finds the row of the customer before it has the lock, and acknowledges at
\* once what is about no customer of the service.
Deliver(e) ==
  /\ IF row.customer
       THEN /\ Cardinality(found) < MaxWaiting
            /\ found' = found \cup {[event |-> e, row |-> row]}
            /\ UNCHANGED events
       ELSE /\ events' = events \ {e}
            /\ UNCHANGED found
  /\ UNCHANGED <<now, ours, calls, reading, stripe>>

\* It repeats what another has been acknowledged for meanwhile.  (A webhook that dies
\* before it has the lock has done no more than one that dies as soon as it has it.)
RepeatDelivery(w) ==
  /\ Unlocked
  /\ w.event \notin events
  /\ found' = found \ {w}
  /\ UNCHANGED <<now, ours, calls, reading, stripe, events>>

\* refresh_from_db: with the lock, the row is read again.
RefreshedNever(w) == w.row
Refreshed(w) == row

\* With the lock, for everything but an expired session.
BeginEvent(w) ==
  /\ Unlocked
  /\ w.event \in events /\ w.event.kind = "changed"
  /\ reading' = [for |-> "event", event |-> w.event, held |-> Refreshed(w), of |-> w.event.of,
                 said |-> ReadFromStripe(w.event.of, w.event)]
  /\ found' = found \ {w}
  /\ UNCHANGED <<now, ours, calls, stripe, events>>

EndEvent(e) ==
  /\ reading.for = "event" /\ reading.event = e
  /\ Synchronize(reading.held, reading.of, reading.said)
  /\ events' = events \ {e}
  /\ reading' = NoReading
  /\ UNCHANGED <<found, now, calls, stripe>>

\* For an expired session: the attempt ends if Stripe confirms it.
ExpireEvent(w) ==
  /\ Unlocked
  /\ w.event \in events /\ w.event.kind = "expired"
  /\ LET a == w.event.of IN
       attempts' = IF a \in Pending /\ attempts[a].known /\ sessions[a] = "expired"
                     THEN [attempts EXCEPT ![a].status = "expired"]
                     ELSE attempts
  /\ events' = events \ {w.event}
  /\ found' = found \ {w}
  /\ UNCHANGED <<now, row, calls, reading, stripe>>

\* A check of synchronize fails, Stripe does not answer or the process dies.
Abort ==
  /\ ~Unlocked
  /\ reading' = NoReading
  /\ calls' = IF reading.for = "call" THEN [calls EXCEPT ![reading.caller] = Idle] ELSE calls
  /\ UNCHANGED <<found, now, ours, stripe, events>>

(***************************************************************************)
(* checkout.                                                               *)
(***************************************************************************)
Going(c, p, k, pc) == calls' = [calls EXCEPT ![c] = [pc |-> pc, plan |-> p, key |-> k]]
Finish(c) == calls' = [calls EXCEPT ![c] = Idle]

\* recover_checkout closes the attempt in progress: its session has expired, or its time
\* is over and Stripe knows of no session.
Over(a) ==
  IF attempts[a].known
    THEN sessions[a] = "expired"
    ELSE now >= attempts[a].expires /\ sessions[a] \in {"none", "expired"}

\* The session that recover_checkout has in hand: stored, or found once its time is over.
Found(a) ==
  /\ attempts[a].known \/ (now >= attempts[a].expires /\ row.customer)
  /\ sessions[a] # "none"

\* A request comes, and recover_checkout asks about the attempt in progress first.
Recover(c, p, k) ==
  /\ Unlocked
  /\ calls[c] = Idle
  /\ Pending = {} \/ \E a \in Pending : ~(Found(a) /\ sessions[a] = "complete")
  /\ attempts' = [a \in Attempts |->
       IF a \notin Pending THEN attempts[a]
       ELSE IF Over(a) THEN [attempts[a] EXCEPT !.status = "expired", !.known = Found(a)]
       ELSE [attempts[a] EXCEPT !.known = Found(a) \/ @]]
  /\ Going(c, p, k, "reserve")
  /\ UNCHANGED <<found, now, row, reading, stripe, events>>

\* The session is complete: the call synchronizes before it goes on.
BeginRecovery(c, p, k) ==
  /\ Unlocked
  /\ calls[c] = Idle
  /\ \E a \in Pending :
       /\ Found(a) /\ sessions[a] = "complete"
       /\ reading' = [for |-> "call", caller |-> c, held |-> row, of |-> a, said |-> remote[a]]
  /\ Going(c, p, k, "recover")
  /\ UNCHANGED <<found, now, ours, stripe, events>>

EndRecovery ==
  /\ reading.for = "call"
  /\ Synchronize(reading.held, reading.of, reading.said)
  /\ calls' = [calls EXCEPT ![reading.caller].pc = "reserve"]
  /\ reading' = NoReading
  /\ UNCHANGED <<found, now, stripe, events>>

SubscribedInGoodStanding == row.sub # None /\ row.status \in {"active", "trialing"}
Subscribed == row.sub # None /\ row.status \notin FinalStatuses
OfKey(k) == {a \in Attempts : attempts[a].status # "absent" /\ attempts[a].key = k}
NextAttempt == Cardinality({a \in Attempts : attempts[a].status # "absent"}) + 1
TrialAlways(p) == TrialDays(p)
TrialOffered(p) == IF row.trialUsed THEN 0 ELSE TrialDays(p)

\* The first transaction reserves an attempt, finds the one of the key, or refuses.
Reserve(c) ==
  /\ Unlocked
  /\ calls[c].pc = "reserve"
  /\ LET p == calls[c].plan
         k == calls[c].key
     IN \/ /\ ~Subscribed /\ OfKey(k) = {} /\ Pending = {} /\ NextAttempt \in Attempts
           /\ attempts' = [attempts EXCEPT ![NextAttempt] =
                [status |-> "pending", plan |-> p, key |-> k, trial |-> TrialOffered(p),
                 expires |-> now + SessionTime, known |-> FALSE]]
           /\ calls' = [calls EXCEPT ![c] = [pc |-> "customer", attempt |-> NextAttempt]]
        \/ /\ ~Subscribed
           /\ \E a \in OfKey(k) \cap Pending :
                /\ attempts[a].plan = p
                /\ calls' = [calls EXCEPT ![c] = [pc |-> "customer", attempt |-> a]]
           /\ UNCHANGED attempts
        \/ /\ \/ Subscribed
              \/ \E a \in OfKey(k) : attempts[a].plan # p \/ a \notin Pending
              \/ OfKey(k) = {} /\ Pending # {}
           /\ Finish(c)
           /\ UNCHANGED attempts
  /\ UNCHANGED <<found, now, row, reading, stripe, events>>

\* The second one makes sure of a customer at Stripe, which repetitions do not double.
Customer(c) ==
  /\ Unlocked
  /\ calls[c].pc = "customer"
  /\ row' = [row EXCEPT !.customer = TRUE]
  /\ calls' = [calls EXCEPT ![c].pc = "session"]
  /\ UNCHANGED <<found, now, attempts, reading, stripe, events>>

\* The third one creates the session, or returns the link of the one created before.
MayOpen(a) == ~Subscribed /\ a \in Pending /\ now < attempts[a].expires

CreatedAtStripe(a) ==
  sessions' = [sessions EXCEPT ![a] = IF @ = "none" THEN "open" ELSE @]

Session(c) ==
  /\ Unlocked
  /\ calls[c].pc = "session"
  /\ LET a == calls[c].attempt IN
       IF MayOpen(a) /\ ~(attempts[a].known /\ attempts[a].status = "open")
         THEN /\ CreatedAtStripe(a)
              /\ \/ attempts' = [attempts EXCEPT ![a].status = "open", ![a].known = TRUE]
                 \/ UNCHANGED attempts  \* Stripe's answer is lost, or the process dies
         ELSE UNCHANGED <<attempts, sessions>>
  /\ Finish(c)
  /\ UNCHANGED <<found, now, row, reading, remote, events>>

\* The call fails before it changes anything.
FailCall(c) ==
  /\ calls[c] # Idle
  /\ reading.for = "call" => reading.caller # c
  /\ Finish(c)
  /\ UNCHANGED <<found, now, ours, reading, stripe, events>>

\* set_subscription_access, by the operator.
SetAccess(exempt) ==
  /\ Unlocked
  /\ row' = [row EXCEPT !.exempt = exempt]
  /\ UNCHANGED <<found, now, attempts, calls, reading, stripe, events>>

Tick ==
  /\ now < MaxNow
  /\ now' = now + 1
  /\ UNCHANGED <<found, ours, calls, reading, stripe, events>>

Init ==
  /\ now = 0
  /\ row \in [customer : {FALSE}, sub : {None}, status : {"none"}, plan : {None}, access : {0},
              periodEnd : {0}, trialEnd : {0}, trialUsed : {FALSE}, exempt : BOOLEAN]
  /\ attempts = [a \in Attempts |-> NoAttempt]
  /\ calls = [c \in Callers |-> Idle]
  /\ found = {}
  /\ reading = NoReading
  /\ sessions = [a \in Attempts |-> "none"]
  /\ remote = [a \in Attempts |-> NoRemote]
  /\ events = {}

Next ==
  \/ \E a \in Attempts : CompleteSession(a) \/ ExpireSession(a) \/ ChangeRemotely(a)
  \/ \E e \in events : Deliver(e) \/ EndEvent(e)
  \/ \E w \in found : RepeatDelivery(w) \/ BeginEvent(w) \/ ExpireEvent(w)
  \/ Abort \/ EndRecovery
  \/ \E c \in Callers :
       \/ \E p \in Plans, k \in Keys : Recover(c, p, k) \/ BeginRecovery(c, p, k)
       \/ Reserve(c) \/ Customer(c) \/ Session(c) \/ FailCall(c)
  \/ \E exempt \in BOOLEAN : SetAccess(exempt)
  \/ Tick

Spec == Init /\ [][Next]_vars

\* A transaction ends, a webhook that waits for the lock has it in the end, and Stripe
\* repeats each notification until one delivery of it finds Stripe answering.
Tells(e, a, n) == e.of = a /\ e.kind = "changed" /\ e.said.changes = n
Fairness ==
  /\ WF_vars(Abort \/ EndRecovery \/ \E e \in events : EndEvent(e))
  /\ SF_vars(\E w \in found : RepeatDelivery(w) \/ BeginEvent(w) \/ ExpireEvent(w))
  /\ \A a \in Attempts, n \in 1 .. MaxChanges :
       /\ SF_vars(\E e \in events : Tells(e, a, n) /\ Deliver(e))
       /\ SF_vars(\E e \in events : Tells(e, a, n) /\ EndEvent(e))

FairSpec == Spec /\ Fairness

(***************************************************************************)
(* Properties.                                                             *)
(***************************************************************************)

\* The company never has two subscriptions alive at Stripe, whatever answers are lost,
\* calls repeated and administrators in a hurry: the attempt in progress, then the row,
\* stand for the one there may be.
OneLiveSubscription == \A a, b \in Attempts : Live(a) /\ Live(b) => a = b

\* The access written in the row never lasts longer than what Stripe was paid for, or let
\* the company try: neither the notification of a renewal nor an old reading extends it.
AccessIsBacked == row.access > 0 => row.sub # None /\ row.access <= remote[row.sub].granted

\* When every notification about the subscription of the row has been acknowledged, the row
\* says what Stripe says, in whatever order they came and whatever changed meanwhile.
AnsweredMeansApplied ==
  row.sub # None /\ (\A e \in events : e.of = row.sub => e.kind # "changed") =>
    LET r == remote[row.sub] IN
    /\ row.status = r.status /\ row.plan = r.plan
    /\ row.periodEnd = r.periodEnd /\ row.trialEnd = r.trialEnd
    /\ row.access = AccessOf(r)

\* An old subscription never takes the place of a newer one: a webhook that found its row
\* before the company subscribed anew does not bring back what it had found.
NewestStays == [][row'.sub >= row.sub]_vars

\* No trial begins for a company that has been seen trying.
TrialsAreRemembered ==
  [][\A a \in Attempts :
       remote[a].status = "none" /\ remote'[a].status = "trialing" => ~row.trialUsed]_vars

\* No second trial ever begins for the company, as docs/abonnements.md has it.
TrialOnce == \A a, b \in Attempts : remote[a].trialEnd # 0 /\ remote[b].trialEnd # 0 => a = b

\* What was paid, or is on trial, opens the access, as docs/abonnements.md has it.
HasAccess == row.status \in {"active", "trialing"} /\ row.access > now
Entitled(a) ==
  /\ remote[a].status = "trialing" \/ (remote[a].status = "active" /\ remote[a].paid)
  /\ remote[a].periodEnd > now
PaidIsHonoured == \A a \in Attempts : Entitled(a) ~> (HasAccess \/ ~Entitled(a))
=============================================================================
