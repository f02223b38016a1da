------------------------- MODULE SubscriptionProofs -------------------------
(***************************************************************************)
(* One subscription, backed access and answered notifications, for any     *)
(* number of calls, attempts, webhooks, plans, changes and failures.       *)
(***************************************************************************)
EXTENDS Subscription, FiniteSetTheorems, TLAPS

(***************************************************************************)
(* The shape of the rows and of what is exchanged with Stripe.             *)
(***************************************************************************)
RowFields == {"customer", "sub", "status", "plan", "access", "periodEnd", "trialEnd",
              "trialUsed", "exempt"}
AttemptFields == {"status", "plan", "key", "trial", "expires", "known"}
RemoteRow ==
  [status : {"none", "trialing", "active", "past_due", "canceled"}, plan : Plans \cup {None},
   paid : BOOLEAN, periodEnd : Nat, trialEnd : Nat, changes : Nat, granted : Nat]

AttemptOK(a) ==
  /\ DOMAIN attempts[a] = AttemptFields
  /\ attempts[a].trial \in Nat
  /\ attempts[a].plan \in Plans \cup {None}
CallOK(c) ==
  /\ DOMAIN calls[c] \in {{"pc"}, {"pc", "plan", "key"}, {"pc", "attempt"}}
  /\ calls[c].pc \in {"recover", "reserve"} =>
       DOMAIN calls[c] = {"pc", "plan", "key"} /\ calls[c].plan \in Plans

Shape ==
  /\ now \in Nat
  /\ DOMAIN row = RowFields
  /\ row.sub \in Attempts \cup {None}
  /\ DOMAIN attempts = Attempts /\ \A a \in Attempts : AttemptOK(a)
  /\ DOMAIN calls = Callers /\ \A c \in Callers : CallOK(c)
  /\ DOMAIN sessions = Attempts
  /\ remote \in [Attempts -> RemoteRow]

(***************************************************************************)
(* What the rows of the company know of Stripe.                            *)
(***************************************************************************)
\* An attempt is over only when its session is, and what lives at Stripe is the attempt in
\* progress or the row.
SessionsOK ==
  \A a \in Attempts :
    /\ sessions[a] = "complete" <=> remote[a].status # "none"
    /\ sessions[a] = "open" => a \in Pending
    /\ Live(a) => a \in Pending \/ a = row.sub
    /\ AccessOf(remote[a]) <= remote[a].granted

EventsOK ==
  \A e \in events :
    /\ e.of \in Attempts
    /\ e.kind = "changed" =>
         remote[e.of].status # "none" /\ e.said.changes \in 0 .. remote[e.of].changes

RowOK ==
  /\ \A a, b \in Pending : a = b
  /\ Subscribed => Pending = {}
  /\ row.sub # None =>
       /\ remote[row.sub].status # "none"
       /\ row.status \in FinalStatuses => ~Live(row.sub)
       /\ row.access <= remote[row.sub].granted
  /\ row.access \in Nat
  /\ row.sub = None => row.access = 0
  /\ row.trialUsed => \A a \in Pending : attempts[a].trial = 0
  /\ AnsweredMeansApplied

\* A change of a that the transaction in progress has not read, and will not acknowledge.
Untold(a) ==
  \E e \in events : e.kind = "changed" /\ e.of = a /\ (reading.for = "event" => e # reading.event)

\* A reading may be stale; then a notification of what it missed is still to come.
ReadingOK ==
  reading # NoReading =>
    LET a == reading.of
        said == reading.said
    IN /\ a \in Attempts
       /\ said \in RemoteRow
       /\ said.status # "none" /\ remote[a].status # "none"
       /\ said.status \in FinalStatuses => ~Live(a)
       /\ row.sub = a /\ row.status \in FinalStatuses => said.status \in FinalStatuses
       /\ AccessOf(said) <= remote[a].granted
       /\ said = remote[a] \/ Untold(a)
       /\ \/ reading.for = "event" /\ reading.event \in events /\ reading.event.kind = "changed"
          \/ /\ reading.for = "call" /\ reading.caller \in Callers
             /\ calls[reading.caller].pc = "recover"

Inv == Shape /\ SessionsOK /\ EventsOK /\ RowOK /\ ReadingOK

\* The row in hand of the transaction that has read is the row itself.
HeldOK == reading # NoReading => reading.held = row

\* The customer is in the row before there is a session, so that no webhook misses it.
CustomerOK ==
  /\ \A a \in Attempts : sessions[a] # "none" => row.customer
  /\ \A c \in Callers : calls[c].pc = "session" => row.customer

\* Attempts are numbered as they come, and the one in progress is the newest.
Begun == {a \in Attempts : attempts[a].status # "absent"}
NewestOK ==
  /\ \E n \in Nat : Begun = 1 .. n
  /\ row.sub # None => row.sub \in Begun
  /\ \A a \in Pending : row.sub < a

IInv == Inv /\ HeldOK /\ CustomerOK /\ NewestOK

(***************************************************************************)
(* The larger and the smaller of two dates.                                *)
(***************************************************************************)
LEMMA MaxOfTwo ==
  ASSUME NEW x \in Nat, NEW y \in Nat
  PROVE  Max({x, y}) \in Nat /\ x <= Max({x, y}) /\ y <= Max({x, y})
<1>1. \E m \in {x, y} : \A n \in {x, y} : m >= n
  OBVIOUS
<1> QED BY <1>1 DEF Max

LEMMA MinOfTwo ==
  ASSUME NEW x \in Nat, NEW y \in Nat
  PROVE  Min({x, y}) \in Nat /\ Min({x, y}) <= x /\ Min({x, y}) <= y
<1>1. \E m \in {x, y} : \A n \in {x, y} : m <= n
  OBVIOUS
<1> QED BY <1>1 DEF Min

LEMMA AccessIsADate ==
  ASSUME NEW r \in RemoteRow
  PROVE  AccessOf(r) \in Nat
BY MinOfTwo DEF RemoteRow, AccessOf

LEMMA InitInv == Init => Inv
<1> SUFFICES ASSUME Init PROVE Inv
  OBVIOUS
<1>1. NoRemote \in RemoteRow /\ NoRemote.status = "none" /\ NoRemote.granted = 0
      /\ AccessOf(NoRemote) = 0
  BY DEF NoRemote, RemoteRow, AccessOf
<1>2. /\ row.sub = None /\ row.status = "none" /\ row.access = 0 /\ ~row.trialUsed
      /\ DOMAIN row = RowFields
  BY DEF Init, RowFields
<1>3. Pending = {}
  BY DEF Init, Pending, NoAttempt
<1>4. Shape
  BY <1>1, <1>2 DEF Init, Shape, AttemptOK, AttemptFields, NoAttempt, CallOK, Idle, None
<1>5. SessionsOK
  BY <1>1 DEF Init, SessionsOK, Live, FinalStatuses
<1>6. EventsOK /\ ReadingOK
  BY DEF Init, EventsOK, ReadingOK
<1>7. RowOK
  BY <1>2, <1>3 DEF RowOK, Subscribed, AnsweredMeansApplied
<1> QED BY <1>4, <1>5, <1>6, <1>7 DEF Inv

(***************************************************************************)
(* Stripe moves.                                                           *)
(***************************************************************************)

\* What the subscription a becomes at Stripe: another row, with a number of its own, that
\* grants no less than it gives access to.
Moved(a, r) ==
  /\ r \in RemoteRow /\ r.status # "none"
  /\ AccessOf(r) <= r.granted
  /\ remote[a].status # "none" => r.changes > remote[a].changes /\ remote[a].granted <= r.granted
  /\ remote' = [remote EXCEPT ![a] = r]
  /\ events' = events \cup {[kind |-> "changed", of |-> a, said |-> r]}

LEMMA BecomesMoves ==
  ASSUME NEW a \in Attempts, NEW r \in RemoteRow, Becomes(a, r), r.status # "none",
         remote[a].status # "none" => r.changes = remote[a].changes /\ r.granted = remote[a].granted
  PROVE  \E changed : Moved(a, changed) /\ changed.status = r.status
<1> DEFINE granted == IF r.status = "trialing" THEN Max({r.granted, r.trialEnd})
                      ELSE IF r.status = "active" /\ r.paid THEN Max({r.granted, r.periodEnd})
                      ELSE r.granted
           changed == [r EXCEPT !.changes = @ + 1, !.granted = granted]
<1>1. /\ r.changes \in Nat /\ r.granted \in Nat /\ r.trialEnd \in Nat /\ r.periodEnd \in Nat
  BY DEF RemoteRow
<1>2. granted \in Nat /\ r.granted <= granted
  BY <1>1, MaxOfTwo
<1>3. /\ remote' = [remote EXCEPT ![a] = changed]
      /\ events' = events \cup {[kind |-> "changed", of |-> a, said |-> changed]}
  BY DEF Becomes
<1>4. /\ r.status = "trialing" => r.trialEnd <= granted
      /\ r.status = "active" /\ r.paid => r.periodEnd <= granted
  BY <1>1, MaxOfTwo
<1> HIDE DEF granted
<1>5. /\ changed \in RemoteRow /\ changed.status = r.status /\ changed.paid = r.paid
      /\ changed.trialEnd = r.trialEnd /\ changed.periodEnd = r.periodEnd
      /\ changed.changes = r.changes + 1 /\ changed.granted = granted
  <2>1. r.changes + 1 \in Nat
    BY <1>1
  <2> QED BY <1>1, <1>2, <2>1 DEF RemoteRow
<1> HIDE DEF changed
<1>6. AccessOf(changed) <= changed.granted
  <2>1. CASE changed.status = "trialing"
    <3>1. AccessOf(changed) = Min({changed.trialEnd, changed.periodEnd})
      BY <2>1 DEF AccessOf
    <3>2. Min({changed.trialEnd, changed.periodEnd}) \in Nat
          /\ Min({changed.trialEnd, changed.periodEnd}) <= changed.trialEnd
      BY <1>1, <1>5, MinOfTwo
    <3> QED BY <1>1, <1>2, <1>4, <1>5, <2>1, <3>1, <3>2
  <2>2. CASE changed.status = "active" /\ changed.paid
    BY <1>4, <1>5, <2>2 DEF AccessOf
  <2>3. CASE changed.status # "trialing" /\ ~(changed.status = "active" /\ changed.paid)
    BY <1>2, <1>5, <2>3 DEF AccessOf
  <2> QED BY <2>1, <2>2, <2>3
<1>7. remote[a].status # "none" => changed.changes > remote[a].changes /\ remote[a].granted <= changed.granted
  BY <1>1, <1>2, <1>5
<1> QED BY <1>3, <1>5, <1>6, <1>7 DEF Moved

LEMMA ChangeMoves ==
  ASSUME Shape, NEW a \in Attempts, ChangeRemotely(a)
  PROVE  Live(a) /\ \E r : Moved(a, r)
<1>1. Live(a) /\ remote[a] \in RemoteRow /\ remote[a].status # "none"
  BY DEF ChangeRemotely, MayChange, Live, FinalStatuses, Shape
<1> DEFINE Same(r) == r \in RemoteRow /\ r.changes = remote[a].changes /\ r.granted = remote[a].granted
<1>2. \E r : Becomes(a, r) /\ Same(r) /\ r.status # "none"
  <2>1. CASE BeginPeriod(a)
    <3> DEFINE r == [remote[a] EXCEPT !.status = "active", !.paid = FALSE, !.periodEnd = @ + PeriodTime]
    <3>1. Becomes(a, r)
      BY <2>1 DEF BeginPeriod
    <3>2. remote[a].periodEnd + PeriodTime \in Nat
      BY <1>1, SubscriptionAssumption DEF RemoteRow
    <3>3. Same(r) /\ r.status # "none"
      BY <1>1, <3>2 DEF RemoteRow
    <3> QED BY <3>1, <3>3
  <2>2. CASE SettlePeriod(a)
    <3> DEFINE r == [remote[a] EXCEPT !.status = "active", !.paid = TRUE]
               s == [remote[a] EXCEPT !.status = "past_due"]
    <3>1. Becomes(a, r) \/ Becomes(a, s)
      BY <2>2 DEF SettlePeriod
    <3>2. Same(r) /\ r.status # "none" /\ Same(s) /\ s.status # "none"
      BY <1>1 DEF RemoteRow
    <3> QED BY <3>1, <3>2
  <2>3. CASE CancelRemotely(a)
    <3> DEFINE r == [remote[a] EXCEPT !.status = "canceled"]
    <3>1. Becomes(a, r) /\ Same(r) /\ r.status # "none"
      BY <1>1, <2>3 DEF CancelRemotely, RemoteRow
    <3> QED BY <3>1
  <2>4. CASE SwitchPlan(a)
    <3>1. PICK p \in Plans : Becomes(a, [remote[a] EXCEPT !.plan = p])
      BY <2>4 DEF SwitchPlan
    <3> DEFINE r == [remote[a] EXCEPT !.plan = p]
    <3>2. Becomes(a, r) /\ Same(r) /\ r.status # "none"
      BY <1>1, <3>1 DEF RemoteRow
    <3> QED BY <3>2
  <2> QED BY <2>1, <2>2, <2>3, <2>4 DEF ChangeRemotely
<1> QED BY <1>1, <1>2, BecomesMoves


LEMMA CompleteMoves ==
  ASSUME Shape, SessionsOK, NEW a \in Attempts, CompleteSession(a)
  PROVE  /\ sessions[a] = "open" /\ remote[a].status = "none"
         /\ sessions' = [sessions EXCEPT ![a] = "complete"]
         /\ \E r : Moved(a, r) /\ (r.status = "trialing" => attempts[a].trial > 0)
<1> DEFINE trial == attempts[a].trial
           start == [NoRemote EXCEPT !.plan = attempts[a].plan]
           try == [start EXCEPT !.status = "trialing", !.periodEnd = now + trial, !.trialEnd = now + trial]
           pay == [start EXCEPT !.status = "active", !.paid = TRUE, !.periodEnd = now + PeriodTime]
<1>1. sessions[a] = "open" /\ remote[a].status = "none"
  BY DEF CompleteSession, SessionsOK
<1>2. now + trial \in Nat /\ now + PeriodTime \in Nat /\ attempts[a].plan \in Plans \cup {None}
  BY SubscriptionAssumption DEF Shape, AttemptOK
<1>3. start \in RemoteRow
  BY <1>2 DEF NoRemote, RemoteRow
<1>4. /\ trial > 0 => Becomes(a, try)
      /\ ~(trial > 0) => Becomes(a, pay)
  BY DEF CompleteSession
<1> HIDE DEF start
<1>5. try \in RemoteRow /\ try.status = "trialing"
  BY <1>2, <1>3 DEF RemoteRow
<1>6. pay \in RemoteRow /\ pay.status = "active"
  BY <1>2, <1>3 DEF RemoteRow
<1> HIDE DEF trial, try, pay
<1>7. \E r : Moved(a, r) /\ (r.status = "trialing" => trial > 0)
  BY <1>1, <1>4, <1>5, <1>6, BecomesMoves
<1> QED BY <1>1, <1>7 DEF CompleteSession, trial

LEMMA MovesKeepInv ==
  ASSUME Inv, NEW a \in Attempts, NEW r, Moved(a, r), UNCHANGED <<now, ours, calls, reading>>,
         \/ Live(a) /\ sessions' = sessions
         \/ sessions[a] = "open" /\ sessions' = [sessions EXCEPT ![a] = "complete"]
  PROVE  Inv'
<1> DEFINE told == [kind |-> "changed", of |-> a, said |-> r]
<1>1. /\ events' = events \cup {told} /\ told.kind = "changed" /\ told.of = a /\ told.said = r
      /\ remote' = [remote EXCEPT ![a] = r] /\ r \in RemoteRow /\ r.status # "none"
  BY DEF Moved
<1> HIDE DEF told
<1>2. /\ remote' \in [Attempts -> RemoteRow] /\ remote'[a] = r
      /\ \A c \in Attempts \ {a} : remote'[c] = remote[c]
  BY <1>1 DEF Inv, Shape
<1>3. Pending' = Pending
  BY DEF Pending, ours
<1>4. Shape'
  <2>1. \A c \in Attempts : AttemptOK(c)'
    BY DEF Inv, Shape, AttemptOK, ours
  <2>2. \A c \in Callers : CallOK(c)'
    BY DEF Inv, Shape, CallOK
  <2> QED BY <1>2, <2>1, <2>2 DEF Inv, Shape, ours
<1>5. \/ Live(a) /\ remote[a].status # "none" /\ sessions' = sessions
      \/ /\ remote[a].status = "none" /\ ~Live(a) /\ a \in Pending
         /\ sessions'[a] = "complete"
         /\ \A c \in Attempts \ {a} : sessions'[c] = sessions[c]
  BY DEF Inv, Shape, SessionsOK, Live, FinalStatuses
<1>6. SessionsOK'
  <2>1. AccessOf(r) <= r.granted
    BY DEF Moved
  <2>2. ASSUME NEW c \in Attempts \ {a}
        PROVE  /\ sessions'[c] = "complete" <=> remote'[c].status # "none"
               /\ sessions'[c] = "open" => c \in Pending
               /\ Live(c)' => c \in Pending \/ c = row.sub
               /\ AccessOf(remote'[c]) <= remote'[c].granted
    BY <1>2, <1>5, <2>2 DEF Inv, SessionsOK, Live
  <2>3. /\ sessions'[a] = "complete" <=> remote'[a].status # "none"
        /\ sessions'[a] = "open" => a \in Pending
        /\ a \in Pending \/ a = row.sub
        /\ AccessOf(remote'[a]) <= remote'[a].granted
    BY <1>1, <1>2, <1>5, <2>1 DEF Inv, SessionsOK
  <2>4. \A c \in Attempts : AccessOf(remote[c])' = AccessOf(remote'[c])
    BY DEF AccessOf
  <2> QED BY <1>3, <2>2, <2>3, <2>4 DEF SessionsOK, ours
<1>7. EventsOK'
  <2>1. r.changes \in Nat
    BY <1>1 DEF RemoteRow
  <2>2. ASSUME NEW e \in events, e.kind = "changed"
        PROVE  remote'[e.of].status # "none" /\ e.said.changes \in 0 .. remote'[e.of].changes
    <3>1. /\ e.of \in Attempts /\ remote[e.of].status # "none" /\ remote[e.of].changes \in Nat
          /\ e.said.changes \in 0 .. remote[e.of].changes
      BY <2>2 DEF Inv, EventsOK, Shape, RemoteRow
    <3>2. e.of = a => r.changes > remote[a].changes
      BY <3>1 DEF Moved
    <3> QED BY <1>1, <1>2, <2>1, <3>1, <3>2
  <2> QED BY <1>1, <1>2, <2>1, <2>2 DEF Inv, EventsOK
<1>8. RowOK'
  <2>1. ASSUME row.sub # None
        PROVE  /\ remote'[row.sub].status # "none"
               /\ row.status \in FinalStatuses => ~Live(row.sub)'
               /\ row.access <= remote'[row.sub].granted
    <3>1. /\ row.sub \in Attempts /\ remote[row.sub].status # "none"
          /\ row.status \in FinalStatuses => ~Live(row.sub)
          /\ row.access \in Nat /\ row.access <= remote[row.sub].granted
      BY <2>1 DEF Inv, RowOK, Shape
    <3>2. CASE row.sub = a
      <4>1. remote[a].granted <= r.granted /\ remote[a].granted \in Nat /\ r.granted \in Nat
        BY <1>1, <3>1, <3>2 DEF Moved, RemoteRow, Inv, Shape
      <4> QED BY <1>1, <1>2, <1>5, <3>1, <3>2, <4>1
    <3>3. CASE row.sub # a
      BY <1>2, <3>1, <3>3 DEF Live, ours
    <3> QED BY <3>2, <3>3
  <2>2. AnsweredMeansApplied'
    <3>1. CASE row.sub = a
      BY <1>1, <3>1 DEF AnsweredMeansApplied, ours
    <3>2. CASE row.sub # a
      <4>1. row.sub # None => remote'[row.sub] = remote[row.sub]
        BY <1>2, <3>2 DEF Inv, Shape
      <4>2. row' = row /\ events \subseteq events'
        BY <1>1 DEF ours
      <4> QED BY <4>1, <4>2 DEF Inv, RowOK, AnsweredMeansApplied, AccessOf
    <3> QED BY <3>1, <3>2
  <2>3. row' = row /\ attempts' = attempts /\ (Subscribed' <=> Subscribed)
    BY DEF ours, Subscribed
  <2> QED BY <1>3, <2>1, <2>2, <2>3 DEF Inv, RowOK
<1>9. ASSUME reading # NoReading PROVE ReadingOK'
  <2> DEFINE of == reading.of
             said == reading.said
  <2>1. /\ of \in Attempts /\ said \in RemoteRow /\ said.status # "none"
        /\ remote[of].status # "none"
        /\ said.status \in FinalStatuses => ~Live(of)
        /\ row.sub = of /\ row.status \in FinalStatuses => said.status \in FinalStatuses
        /\ AccessOf(said) <= remote[of].granted
        /\ said = remote[of] \/ Untold(of)
        /\ \/ reading.for = "event" /\ reading.event \in events /\ reading.event.kind = "changed"
           \/ /\ reading.for = "call" /\ reading.caller \in Callers
              /\ calls[reading.caller].pc = "recover"
    BY <1>9 DEF Inv, ReadingOK
  <2>2. CASE of = a
    <3>1. /\ r.changes > remote[a].changes /\ remote[a].granted <= r.granted
          /\ remote[a].changes \in Nat /\ remote[a].granted \in Nat
          /\ r.changes \in Nat /\ r.granted \in Nat
      BY <1>1, <2>1, <2>2 DEF Moved, RemoteRow, Inv, Shape
    <3>2. reading.for = "event" => told # reading.event
      <4> SUFFICES ASSUME reading.for = "event", told = reading.event PROVE FALSE
        OBVIOUS
      <4>1. told \in events
        BY <2>1
      <4>2. r.changes \in 0 .. remote[a].changes
        BY <1>1, <4>1 DEF Inv, EventsOK
      <4> QED BY <3>1, <4>2
    <3>3. Untold(a)'
      BY <1>1, <3>2 DEF Untold
    <3>4. AccessOf(said) <= r.granted
      BY <2>1, <2>2, <3>1, AccessIsADate
    <3>5. said.status \notin FinalStatuses
      BY <1>5, <2>1, <2>2
    <3> QED BY <1>1, <1>2, <2>1, <2>2, <3>3, <3>4, <3>5 DEF ReadingOK, ours, AccessOf
  <2>3. CASE of # a
    <3>1. remote'[of] = remote[of]
      BY <1>2, <2>1, <2>3
    <3>2. Untold(of) => Untold(of)'
      BY <1>1 DEF Untold
    <3>3. Live(of)' <=> Live(of)
      BY <3>1 DEF Live
    <3> QED BY <1>1, <2>1, <3>1, <3>2, <3>3 DEF ReadingOK, ours, AccessOf
  <2> QED BY <2>2, <2>3
<1>10. ReadingOK'
  <2>1. reading' = reading
    OBVIOUS
  <2>2. CASE reading = NoReading
    BY <2>1, <2>2 DEF ReadingOK
  <2> QED BY <1>9, <2>2
<1> QED BY <1>4, <1>6, <1>7, <1>8, <1>10 DEF Inv


(***************************************************************************)
(* The company moves without learning anything of its subscription.        *)
(***************************************************************************)

\* What a step must respect that changes attempts, sessions and calls only: what may still
\* come alive, or is alive, has the attempt in progress or the row to stand for it.
Tidy ==
  /\ Shape'
  /\ \A e \in events' : e.of \in Attempts
  /\ \A e : e.kind = "changed" => (e \in events' <=> e \in events)
  /\ \A a, b \in Pending' : a = b
  /\ Subscribed => Pending' = {}
  /\ row.trialUsed => \A a \in Pending' : attempts'[a].trial = 0
  /\ \A a \in Attempts :
       /\ sessions'[a] = "complete" <=> sessions[a] = "complete"
       /\ sessions'[a] = "open" => a \in Pending'
       /\ Live(a) => a \in Pending' \/ a = row.sub

SameRow ==
  /\ row'.sub = row.sub /\ row'.status = row.status /\ row'.plan = row.plan
  /\ row'.access = row.access /\ row'.periodEnd = row.periodEnd /\ row'.trialEnd = row.trialEnd
  /\ row'.trialUsed <=> row.trialUsed

SameReading ==
  \/ reading' = NoReading
  \/ /\ reading' = reading
     /\ reading.for = "call" => calls'[reading.caller].pc = calls[reading.caller].pc

LEMMA TidyKeepsInv ==
  ASSUME Inv, Tidy, SameRow, SameReading, UNCHANGED remote
  PROVE  Inv'
<1>1. \A a : (Live(a)' <=> Live(a)) /\ AccessOf(remote[a])' = AccessOf(remote[a])
  BY DEF Live, AccessOf
<1>2. SessionsOK'
  BY <1>1 DEF Inv, SessionsOK, Tidy, SameRow
<1>3. EventsOK'
  BY DEF Inv, EventsOK, Tidy
<1>4. AnsweredMeansApplied'
  BY <1>1 DEF Inv, RowOK, AnsweredMeansApplied, Tidy, SameRow, AccessOf
<1>5. Subscribed' <=> Subscribed
  BY DEF Subscribed, SameRow
<1>6. (Live(row.sub))' <=> Live(row.sub)
  BY DEF Live, SameRow
<1>7. RowOK'
  BY <1>4, <1>5, <1>6 DEF Inv, RowOK, Tidy, SameRow
<1>8. CASE reading' = NoReading
  BY <1>2, <1>3, <1>7, <1>8 DEF Inv, Tidy, ReadingOK
<1>9. CASE reading' = reading /\ (reading.for = "call" => calls'[reading.caller].pc = calls[reading.caller].pc)
  <2>1. ASSUME reading # NoReading PROVE ReadingOK'
    <3> DEFINE of == reading.of
               said == reading.said
    <3>1. /\ of \in Attempts /\ said \in RemoteRow /\ said.status # "none"
          /\ remote[of].status # "none"
          /\ said.status \in FinalStatuses => ~Live(of)
          /\ row.sub = of /\ row.status \in FinalStatuses => said.status \in FinalStatuses
          /\ AccessOf(said) <= remote[of].granted
          /\ said = remote[of] \/ Untold(of)
          /\ \/ reading.for = "event" /\ reading.event \in events /\ reading.event.kind = "changed"
             \/ /\ reading.for = "call" /\ reading.caller \in Callers
                /\ calls[reading.caller].pc = "recover"
      BY <2>1 DEF Inv, ReadingOK
    <3>2. Untold(of) => Untold(of)'
      BY <1>9 DEF Untold, Tidy
    <3>3. reading.for = "event" /\ reading.event \in events /\ reading.event.kind = "changed"
            => reading.event \in events'
      BY DEF Tidy
    <3> QED BY <1>1, <1>9, <3>1, <3>2, <3>3 DEF ReadingOK, SameRow, AccessOf, Live
  <2>2. ASSUME reading = NoReading PROVE ReadingOK'
    BY <1>9, <2>2 DEF ReadingOK
  <2>3. ReadingOK'
    BY <2>1, <2>2
  <2> QED BY <1>2, <1>3, <1>7, <2>3 DEF Inv, Tidy
<1> QED BY <1>8, <1>9 DEF SameReading


LEMMA SameAttempts ==
  ASSUME Shape, attempts' = attempts
  PROVE  Pending' = Pending /\ \A a \in Attempts : AttemptOK(a)'
BY DEF Shape, Pending, AttemptOK

LEMMA SameCalls ==
  ASSUME Shape, calls' = calls
  PROVE  DOMAIN calls' = Callers /\ \A c \in Callers : CallOK(c)'
BY DEF Shape, CallOK

\* A call that goes on: its next step, or its end.
LEMMA CallGoesOn ==
  ASSUME Shape, NEW c \in Callers, NEW call,
         \/ call = Idle
         \/ \E a : call = [pc |-> "customer", attempt |-> a]
         \/ DOMAIN call \in {{"pc"}, {"pc", "plan", "key"}, {"pc", "attempt"}} /\ call.pc = "session"
         \/ \E p \in Plans : \E k, pc : call = [pc |-> pc, plan |-> p, key |-> k],
         calls' = [calls EXCEPT ![c] = call]
  PROVE  /\ DOMAIN calls' = Callers /\ \A d \in Callers : CallOK(d)'
         /\ calls'[c] = call /\ \A d \in Callers \ {c} : calls'[d] = calls[d]
<1>1. DOMAIN calls' = Callers /\ calls'[c] = call /\ \A d \in Callers \ {c} : calls'[d] = calls[d]
  BY DEF Shape
<1>2. CallOK(c)'
  BY <1>1 DEF CallOK, Idle
<1>3. \A d \in Callers \ {c} : CallOK(d)'
  BY <1>1 DEF CallOK, Shape
<1> QED BY <1>1, <1>2, <1>3

\* The steps that leave attempts, sessions and notifications as they are.
LEMMA QuietIsTidy ==
  ASSUME Inv, Shape', UNCHANGED <<attempts, sessions, events>>
  PROVE  Tidy
<1>1. Pending' = Pending
  BY SameAttempts DEF Inv
<1> QED BY <1>1 DEF Inv, Tidy, EventsOK, RowOK, SessionsOK

\* Attempts end only with their sessions; the others keep their trials.
LEMMA EndingIsTidy ==
  ASSUME Inv, Shape', UNCHANGED <<row, sessions, remote>>, Pending' \subseteq Pending,
         \A a \in Pending \ Pending' : sessions[a] \notin {"open", "complete"},
         \A a \in Pending' : attempts'[a].trial = attempts[a].trial,
         events' \subseteq events, \A e \in events \ events' : e.kind # "changed"
  PROVE  Tidy
<1>1. \A a \in Attempts : Live(a) => sessions[a] = "complete"
  BY DEF Inv, SessionsOK, Live, FinalStatuses
<1> QED BY <1>1 DEF Inv, Tidy, EventsOK, RowOK, SessionsOK

LEMMA QuietKeepsInv ==
  ASSUME Inv, CustomerOK,
         \/ Abort
         \/ \E c \in Callers : FailCall(c)
         \/ Tick
         \/ \E c \in Callers : Customer(c)
         \/ \E exempt \in BOOLEAN : SetAccess(exempt)
         \/ \E e \in events : Deliver(e)
         \/ \E w \in found : RepeatDelivery(w)
  PROVE  Inv'
<1>1. Shape /\ ReadingOK /\ RowOK
  BY DEF Inv
<1>2. CASE Abort
  <2>1. UNCHANGED <<now, row, attempts, sessions, remote, events>> /\ reading' = NoReading
    BY <1>2 DEF Abort, ours, stripe
  <2>2. DOMAIN calls' = Callers /\ \A d \in Callers : CallOK(d)'
    <3>1. CASE reading.for = "call"
      <4>1. reading.caller \in Callers /\ calls' = [calls EXCEPT ![reading.caller] = Idle]
        BY <1>1, <1>2, <3>1 DEF Abort, ReadingOK, Unlocked, NoReading
      <4> QED BY <1>1, <4>1, CallGoesOn
    <3>2. CASE reading.for # "call"
      <4>1. calls' = calls
        BY <1>2, <3>2 DEF Abort
      <4> QED BY <1>1, <4>1, SameCalls
    <3> QED BY <3>1, <3>2
  <2>3. Shape'
    BY <1>1, <2>1, <2>2, SameAttempts DEF Shape
  <2> QED BY <2>1, <2>3, QuietIsTidy, TidyKeepsInv DEF SameRow, SameReading
<1>3. ASSUME NEW c \in Callers, FailCall(c) PROVE Inv'
  <2>1. /\ UNCHANGED <<now, row, attempts, sessions, remote, events, reading>>
        /\ calls' = [calls EXCEPT ![c] = Idle] /\ (reading.for = "call" => reading.caller # c)
    BY <1>3 DEF FailCall, Finish, ours, stripe
  <2>2. DOMAIN calls' = Callers /\ (\A d \in Callers : CallOK(d)')
        /\ \A d \in Callers \ {c} : calls'[d] = calls[d]
    BY <1>1, <2>1, CallGoesOn
  <2>3. Shape'
    BY <1>1, <2>1, <2>2, SameAttempts DEF Shape
  <2>4. SameReading
    BY <1>1, <2>1, <2>2 DEF SameReading, ReadingOK, NoReading
  <2> QED BY <2>1, <2>3, <2>4, QuietIsTidy, TidyKeepsInv DEF SameRow
<1>4. CASE Tick
  <2>1. UNCHANGED <<row, attempts, sessions, remote, events, reading, calls>> /\ now' = now + 1
    BY <1>4 DEF Tick, ours, stripe
  <2>2. Shape'
    BY <1>1, <2>1, SameAttempts, SameCalls DEF Shape
  <2> QED BY <2>1, <2>2, QuietIsTidy, TidyKeepsInv DEF SameRow, SameReading
<1>5. ASSUME NEW c \in Callers, Customer(c) PROVE Inv'
  <2>1. /\ UNCHANGED <<now, attempts, sessions, remote, events, reading>> /\ reading = NoReading
        /\ row' = [row EXCEPT !.customer = TRUE] /\ calls' = [calls EXCEPT ![c].pc = "session"]
    BY <1>5 DEF Customer, stripe, Unlocked
  <2>2. /\ DOMAIN row' = RowFields /\ SameRow
    BY <1>1, <2>1 DEF Shape, RowFields, SameRow
  <2>3. DOMAIN calls' = Callers /\ \A d \in Callers : CallOK(d)'
    <3> DEFINE call == [calls[c] EXCEPT !.pc = "session"]
    <3>1. calls' = [calls EXCEPT ![c] = call]
      BY <2>1
    <3>2. DOMAIN calls[c] \in {{"pc"}, {"pc", "plan", "key"}, {"pc", "attempt"}}
      BY <1>1 DEF Shape, CallOK
    <3>3. DOMAIN call = DOMAIN calls[c] /\ call.pc = "session"
      BY <3>2
    <3> HIDE DEF call
    <3> QED BY <1>1, <3>1, <3>2, <3>3, CallGoesOn
  <2>4. Shape'
    BY <1>1, <2>1, <2>2, <2>3, SameAttempts DEF Shape, SameRow
  <2> QED BY <2>1, <2>2, <2>4, QuietIsTidy, TidyKeepsInv DEF SameReading
<1>6. ASSUME NEW exempt \in BOOLEAN, SetAccess(exempt) PROVE Inv'
  <2>1. /\ UNCHANGED <<now, attempts, sessions, remote, events, reading, calls>>
        /\ row' = [row EXCEPT !.exempt = exempt]
    BY <1>6 DEF SetAccess, stripe
  <2>2. DOMAIN row' = RowFields /\ SameRow
    BY <1>1, <2>1 DEF Shape, RowFields, SameRow
  <2>3. Shape'
    BY <1>1, <2>1, <2>2, SameAttempts, SameCalls DEF Shape, SameRow
  <2> QED BY <2>1, <2>2, <2>3, QuietIsTidy, TidyKeepsInv DEF SameReading
<1>7. ASSUME NEW e \in events, Deliver(e) PROVE Inv'
  <2>1. /\ UNCHANGED <<now, row, attempts, sessions, remote, reading, calls>>
        /\ events' = events \/ (~row.customer /\ events' = events \ {e})
    BY <1>7 DEF Deliver, ours, stripe
  <2>2. Shape' /\ Pending' = Pending
    BY <1>1, <2>1, SameAttempts, SameCalls DEF Shape
  <2>3. ~row.customer => e.kind # "changed"
    BY DEF CustomerOK, Inv, EventsOK, SessionsOK
  <2>4. Tidy
    BY <2>1, <2>2, <2>3, EndingIsTidy
  <2> QED BY <2>1, <2>4, TidyKeepsInv DEF SameRow, SameReading
<1>8. ASSUME NEW w \in found, RepeatDelivery(w) PROVE Inv'
  <2>1. UNCHANGED <<now, row, attempts, sessions, remote, reading, calls, events>>
    BY <1>8 DEF RepeatDelivery, ours, stripe
  <2>2. Shape'
    BY <1>1, <2>1, SameAttempts, SameCalls DEF Shape
  <2> QED BY <2>1, <2>2, QuietIsTidy, TidyKeepsInv DEF SameRow, SameReading
<1> QED BY <1>2, <1>3, <1>4, <1>5, <1>6, <1>7, <1>8


LEMMA ExpireSessionKeepsInv ==
  ASSUME Inv, NEW a \in Attempts, ExpireSession(a)
  PROVE  Inv'
<1> DEFINE told == [kind |-> "expired", of |-> a]
<1>1. /\ UNCHANGED <<now, row, attempts, calls, reading, remote>>
      /\ sessions[a] = "open" /\ sessions' = [sessions EXCEPT ![a] = "expired"]
      /\ events' = events \cup {told} /\ told.kind = "expired" /\ told.of = a
  BY DEF ExpireSession, ours
<1> HIDE DEF told
<1>2. Shape'
  BY <1>1, SameAttempts, SameCalls DEF Inv, Shape
<1>3. Pending' = Pending
  BY <1>1, SameAttempts DEF Inv
<1>4. DOMAIN sessions = Attempts
  BY DEF Inv, Shape
<1>5. Tidy
  BY <1>1, <1>2, <1>3, <1>4 DEF Inv, Tidy, EventsOK, RowOK, SessionsOK
<1> QED BY <1>1, <1>5, TidyKeepsInv DEF SameRow, SameReading

LEMMA ExpireEventKeepsInv ==
  ASSUME Inv, NEW w, ExpireEvent(w)
  PROVE  Inv'
<1> DEFINE e == w.event
           a == e.of
<1>1. /\ UNCHANGED <<now, row, calls, reading, sessions, remote>>
      /\ e \in events /\ e.kind = "expired" /\ events' = events \ {e} /\ a \in Attempts
      /\ \/ attempts' = attempts
         \/ /\ a \in Pending /\ sessions[a] = "expired"
            /\ attempts' = [attempts EXCEPT ![a].status = "expired"]
  BY DEF ExpireEvent, stripe, Inv, EventsOK
<1> HIDE DEF e, a
<1>2. CASE attempts' = attempts
  <2>1. Shape' /\ Pending' = Pending
    BY <1>1, <1>2, SameAttempts, SameCalls DEF Inv, Shape
  <2>2. Tidy
    BY <1>1, <1>2, <2>1, EndingIsTidy
  <2> QED BY <1>1, <2>2, TidyKeepsInv DEF SameRow, SameReading
<1>3. CASE /\ a \in Pending /\ sessions[a] = "expired"
           /\ attempts' = [attempts EXCEPT ![a].status = "expired"]
  <2>1. /\ DOMAIN attempts' = Attempts
        /\ \A c \in Attempts \ {a} : attempts'[c] = attempts[c]
        /\ attempts'[a] = [attempts[a] EXCEPT !.status = "expired"]
    BY <1>1, <1>3 DEF Inv, Shape
  <2>2. AttemptOK(a)' /\ attempts'[a].status = "expired"
    BY <1>1, <2>1 DEF Inv, Shape, AttemptOK, AttemptFields
  <2>3. \A c \in Attempts \ {a} : AttemptOK(c)'
    BY <2>1 DEF Inv, Shape, AttemptOK
  <2>4. Pending' = Pending \ {a}
    BY <1>1, <2>1, <2>2 DEF Pending
  <2>5. Shape'
    BY <1>1, <2>1, <2>2, <2>3, SameCalls DEF Inv, Shape
  <2>6. \A c \in Pending' : attempts'[c].trial = attempts[c].trial
    BY <2>1, <2>4 DEF Pending
  <2>7. Tidy
    BY <1>1, <1>3, <2>4, <2>5, <2>6, EndingIsTidy
  <2> QED BY <1>1, <2>7, TidyKeepsInv DEF SameRow, SameReading
<1> QED BY <1>1, <1>2, <1>3

LEMMA RecoverKeepsInv ==
  ASSUME Inv, NEW c \in Callers, NEW p \in Plans, NEW k, Recover(c, p, k)
  PROVE  Inv'
<1> DEFINE Kept(a) ==
      IF a \notin Pending THEN attempts[a]
      ELSE IF Over(a) THEN [attempts[a] EXCEPT !.status = "expired", !.known = Found(a)]
      ELSE [attempts[a] EXCEPT !.known = Found(a) \/ @]
<1>1. /\ UNCHANGED <<now, row, reading, sessions, remote, events>> /\ reading = NoReading
      /\ calls' = [calls EXCEPT ![c] = [pc |-> "reserve", plan |-> p, key |-> k]]
      /\ attempts' = [a \in Attempts |-> Kept(a)]
  BY DEF Recover, Going, stripe, Unlocked
<1>2. ASSUME NEW a \in Attempts
      PROVE  /\ attempts'[a] = Kept(a)
             /\ AttemptOK(a)'
             /\ attempts'[a].trial = attempts[a].trial
             /\ \/ attempts'[a].status = attempts[a].status
                \/ attempts'[a].status = "expired" /\ a \in Pending /\ Over(a)
  <2>1. DOMAIN attempts[a] = AttemptFields /\ AttemptOK(a)
    BY DEF Inv, Shape, AttemptOK
  <2>2. attempts'[a] = Kept(a)
    BY <1>1
  <2>3. /\ DOMAIN Kept(a) = AttemptFields /\ Kept(a).trial = attempts[a].trial
        /\ Kept(a).plan = attempts[a].plan
        /\ \/ Kept(a).status = attempts[a].status
           \/ Kept(a).status = "expired" /\ a \in Pending /\ Over(a)
    <3>1. CASE a \notin Pending
      BY <2>1, <3>1
    <3>2. CASE a \in Pending /\ Over(a)
      <4> DEFINE after == [attempts[a] EXCEPT !.status = "expired", !.known = Found(a)]
      <4>1. Kept(a) = after
        BY <3>2
      <4>2. DOMAIN after = AttemptFields /\ after.trial = attempts[a].trial
            /\ after.plan = attempts[a].plan /\ after.status = "expired"
        BY <2>1 DEF AttemptFields
      <4> QED BY <3>2, <4>1, <4>2
    <3>3. CASE a \in Pending /\ ~Over(a)
      <4> DEFINE after == [attempts[a] EXCEPT !.known = Found(a) \/ @]
      <4>1. Kept(a) = after
        BY <3>3
      <4>2. DOMAIN after = AttemptFields /\ after.trial = attempts[a].trial
            /\ after.plan = attempts[a].plan /\ after.status = attempts[a].status
        BY <2>1 DEF AttemptFields
      <4> QED BY <4>1, <4>2
    <3> QED BY <3>1, <3>2, <3>3
  <2> HIDE DEF Kept
  <2> QED BY <2>1, <2>2, <2>3 DEF AttemptOK
<1> HIDE DEF Kept
<1>3. DOMAIN attempts' = Attempts
  BY <1>1
<1>4. Shape'
  BY <1>1, <1>2, <1>3, CallGoesOn DEF Inv, Shape
<1>5. /\ Pending' \subseteq Pending
      /\ \A a \in Pending \ Pending' : Over(a)
      /\ \A a \in Pending' : attempts'[a].trial = attempts[a].trial
  BY <1>2 DEF Pending
<1>6. \A a \in Pending : Over(a) => sessions[a] \notin {"open", "complete"}
  BY DEF Over
<1>7. Tidy
  BY <1>1, <1>4, <1>5, <1>6, EndingIsTidy
<1> QED BY <1>1, <1>7, TidyKeepsInv DEF SameRow, SameReading


LEMMA ReserveKeepsInv ==
  ASSUME Inv, NEW c \in Callers, Reserve(c)
  PROVE  Inv'
<1> DEFINE p == calls[c].plan
           new == NextAttempt
           made == [status |-> "pending", plan |-> p, key |-> calls[c].key, trial |-> TrialOffered(p),
                    expires |-> now + SessionTime, known |-> FALSE]
<1>1. /\ UNCHANGED <<now, row, reading, sessions, remote, events>> /\ reading = NoReading
      /\ calls[c].pc = "reserve"
  BY DEF Reserve, stripe, Unlocked
<1>2. \/ /\ attempts' = attempts
         /\ calls' = [calls EXCEPT ![c] = Idle] \/
            \E a : calls' = [calls EXCEPT ![c] = [pc |-> "customer", attempt |-> a]]
      \/ /\ ~Subscribed /\ Pending = {} /\ new \in Attempts
         /\ attempts' = [attempts EXCEPT ![new] = made]
         /\ calls' = [calls EXCEPT ![c] = [pc |-> "customer", attempt |-> new]]
  BY DEF Reserve, Finish
<1>3. DOMAIN calls' = Callers /\ \A d \in Callers : CallOK(d)'
  BY <1>2, CallGoesOn DEF Inv
<1>4. CASE attempts' = attempts
  <2>1. Shape' /\ Pending' = Pending
    BY <1>1, <1>3, <1>4, SameAttempts DEF Inv, Shape
  <2>2. Tidy
    BY <1>1, <1>4, <2>1, EndingIsTidy
  <2> QED BY <1>1, <2>2, TidyKeepsInv DEF SameRow, SameReading
<1>5. CASE /\ ~Subscribed /\ Pending = {} /\ new \in Attempts
           /\ attempts' = [attempts EXCEPT ![new] = made]
  <2>1. p \in Plans
    BY <1>1 DEF Inv, Shape, CallOK
  <2>2. made.trial \in Nat /\ (row.trialUsed => made.trial = 0)
    BY <2>1, SubscriptionAssumption DEF TrialOffered
  <2>3. DOMAIN made = AttemptFields /\ made.status = "pending" /\ made.plan \in Plans
    BY <2>1 DEF AttemptFields
  <2> HIDE DEF made, new
  <2>4. /\ DOMAIN attempts' = Attempts /\ attempts'[new] = made
        /\ \A a \in Attempts \ {new} : attempts'[a] = attempts[a]
    BY <1>5 DEF Inv, Shape
  <2>5. \A a \in Attempts : AttemptOK(a)'
    BY <2>2, <2>3, <2>4 DEF Inv, Shape, AttemptOK
  <2>6. Shape'
    BY <1>1, <1>3, <2>4, <2>5 DEF Inv, Shape
  <2>7. Pending' = {new}
    BY <1>5, <2>3, <2>4 DEF Pending
  <2>8. \A a \in Attempts : sessions[a] # "open" /\ (Live(a) => a = row.sub)
    BY <1>5 DEF Inv, SessionsOK
  <2>9. Tidy
    BY <1>1, <1>5, <2>2, <2>4, <2>6, <2>7, <2>8 DEF Inv, Tidy, EventsOK
  <2> QED BY <1>1, <2>9, TidyKeepsInv DEF SameRow, SameReading
<1> QED BY <1>2, <1>4, <1>5

LEMMA SessionKeepsInv ==
  ASSUME Inv, NEW c \in Callers, Session(c)
  PROVE  Inv'
<1>0. PICK a : a = calls[c].attempt
  OBVIOUS
<1>1. /\ UNCHANGED <<now, row, reading, remote, events>> /\ reading = NoReading
      /\ calls' = [calls EXCEPT ![c] = Idle]
  BY DEF Session, Finish, Unlocked
<1>2. \/ UNCHANGED <<attempts, sessions>>
      \/ /\ a \in Pending
         /\ sessions' = [sessions EXCEPT ![a] = IF @ = "none" THEN "open" ELSE @]
         /\ \/ attempts' = [attempts EXCEPT ![a].status = "open", ![a].known = TRUE]
            \/ attempts' = attempts
  BY <1>0 DEF Session, MayOpen, CreatedAtStripe
<1>3. DOMAIN calls' = Callers /\ \A d \in Callers : CallOK(d)'
  BY <1>1, CallGoesOn DEF Inv
<1>4. CASE UNCHANGED <<attempts, sessions>>
  <2>1. Shape' /\ Pending' = Pending
    BY <1>1, <1>3, <1>4, SameAttempts DEF Inv, Shape
  <2>2. Tidy
    BY <1>1, <1>4, <2>1, EndingIsTidy
  <2> QED BY <1>1, <2>2, TidyKeepsInv DEF SameRow, SameReading
<1>5. CASE /\ a \in Pending
           /\ sessions' = [sessions EXCEPT ![a] = IF @ = "none" THEN "open" ELSE @]
           /\ \/ attempts' = [attempts EXCEPT ![a].status = "open", ![a].known = TRUE]
              \/ attempts' = attempts
  <2>1. a \in Attempts /\ DOMAIN attempts[a] = AttemptFields
    BY <1>5 DEF Pending, Inv, Shape, AttemptOK
  <2>2. /\ DOMAIN attempts' = Attempts /\ AttemptOK(a)' /\ attempts'[a].status \in {"pending", "open"}
        /\ attempts'[a].trial = attempts[a].trial
        /\ \A b \in Attempts \ {a} : attempts'[b] = attempts[b]
    <3>1. CASE attempts' = attempts
      BY <1>5, <2>1, <3>1 DEF Inv, Shape, AttemptOK, Pending
    <3>2. CASE attempts' = [attempts EXCEPT ![a].status = "open", ![a].known = TRUE]
      <4>1. /\ DOMAIN attempts' = Attempts /\ DOMAIN attempts'[a] = AttemptFields
            /\ attempts'[a].status = "open" /\ attempts'[a].trial = attempts[a].trial
            /\ attempts'[a].plan = attempts[a].plan
            /\ \A b \in Attempts \ {a} : attempts'[b] = attempts[b]
        BY <2>1, <3>2 DEF Inv, Shape, AttemptFields
      <4> QED BY <2>1, <4>1 DEF Inv, Shape, AttemptOK
    <3> QED BY <1>5, <3>1, <3>2
  <2>3. \A b \in Attempts \ {a} : AttemptOK(b)'
    BY <2>2 DEF Inv, Shape, AttemptOK
  <2>4. Pending' = Pending
    BY <1>5, <2>1, <2>2 DEF Pending
  <2>5. /\ DOMAIN sessions' = Attempts
        /\ sessions'[a] = IF sessions[a] = "none" THEN "open" ELSE sessions[a]
        /\ \A b \in Attempts \ {a} : sessions'[b] = sessions[b]
    BY <1>5, <2>1 DEF Inv, Shape
  <2>6. Shape'
    BY <1>1, <1>3, <2>1, <2>2, <2>3, <2>5 DEF Inv, Shape
  <2>7. \A b \in Pending' : attempts'[b].trial = attempts[b].trial
    BY <2>2, <2>4 DEF Pending
  <2>8. \A b \in Attempts :
          /\ sessions'[b] = "complete" <=> sessions[b] = "complete"
          /\ sessions'[b] = "open" => b \in Pending
          /\ Live(b) => b \in Pending \/ b = row.sub
    BY <1>5, <2>1, <2>5 DEF Inv, SessionsOK
  <2>9. Tidy
    BY <1>1, <2>4, <2>6, <2>7, <2>8 DEF Inv, Tidy, EventsOK, RowOK
  <2> QED BY <1>1, <2>9, TidyKeepsInv DEF SameRow, SameReading
<1> QED BY <1>2, <1>4, <1>5

(***************************************************************************)
(* The company reads its subscription, and writes what it read.            *)
(***************************************************************************)

\* What is read now is what is true now, and a final row stands for a dead subscription.
LEMMA ReadingBegins ==
  ASSUME Inv, NEW a \in Attempts, remote[a].status # "none",
         UNCHANGED <<row, attempts, sessions, remote, events>>, Shape',
         reading'.of = a, reading'.said = remote[a],
         \/ reading'.for = "event" /\ reading'.event \in events /\ reading'.event.kind = "changed"
         \/ /\ reading'.for = "call" /\ reading'.caller \in Callers
            /\ calls'[reading'.caller].pc = "recover"
  PROVE  Inv'
<1>1. Tidy
  BY QuietIsTidy
<1>2. /\ remote[a] \in RemoteRow
      /\ remote[a].status \in FinalStatuses => ~Live(a)
      /\ row.sub = a /\ row.status \in FinalStatuses => remote[a].status \in FinalStatuses
      /\ AccessOf(remote[a]) <= remote[a].granted
  <2>1. a # None
    BY DEF Attempts, None
  <2> QED BY <2>1 DEF Inv, Shape, RowOK, SessionsOK, Live
<1>3. ReadingOK'
  BY <1>2 DEF ReadingOK, Live, AccessOf
<1>4. /\ SessionsOK' /\ EventsOK' /\ RowOK'
  <2>1. /\ Pending' = Pending /\ (Subscribed' <=> Subscribed)
    BY SameAttempts DEF Inv, Subscribed
  <2>2. \A b : (Live(b)' <=> Live(b)) /\ AccessOf(remote[b])' = AccessOf(remote[b])
    BY DEF Live, AccessOf
  <2>3. (Live(row.sub))' <=> Live(row.sub)
    BY DEF Live
  <2>4. AnsweredMeansApplied'
    BY <2>2 DEF Inv, RowOK, AnsweredMeansApplied, AccessOf
  <2> QED BY <2>1, <2>2, <2>3, <2>4 DEF Inv, SessionsOK, EventsOK, RowOK
<1> QED BY <1>3, <1>4 DEF Inv

LEMMA BeginKeepsInv ==
  ASSUME Inv,
         \/ \E w \in found : BeginEvent(w)
         \/ \E c \in Callers, p \in Plans, k \in Keys : BeginRecovery(c, p, k)
  PROVE  Inv'
<1>1. ASSUME NEW w \in found, BeginEvent(w) PROVE Inv'
  <2> DEFINE e == w.event
  <2>1. /\ UNCHANGED <<now, row, attempts, calls, sessions, remote, events>>
        /\ e \in events /\ reading'.of = e.of /\ reading'.said = remote[e.of]
        /\ reading'.for = "event" /\ reading'.event = e /\ e.kind = "changed"
    BY <1>1 DEF BeginEvent, ReadFromStripe, ours, stripe
  <2> HIDE DEF e
  <2>2. e.of \in Attempts /\ remote[e.of].status # "none"
    BY <2>1 DEF Inv, EventsOK
  <2>3. Shape'
    BY <2>1, SameAttempts, SameCalls DEF Inv, Shape
  <2> QED BY <2>1, <2>2, <2>3, ReadingBegins
<1>2. ASSUME NEW c \in Callers, NEW p \in Plans, NEW k, BeginRecovery(c, p, k) PROVE Inv'
  <2>1. PICK a \in Pending :
          /\ sessions[a] = "complete"
          /\ reading' = [for |-> "call", caller |-> c, held |-> row, of |-> a, said |-> remote[a]]
    BY <1>2 DEF BeginRecovery
  <2>2. /\ UNCHANGED <<now, row, attempts, sessions, remote, events>>
        /\ calls' = [calls EXCEPT ![c] = [pc |-> "recover", plan |-> p, key |-> k]]
    BY <1>2 DEF BeginRecovery, Going, ours, stripe
  <2>3. /\ DOMAIN calls' = Callers /\ \A d \in Callers : CallOK(d)'
        /\ calls'[c].pc = "recover"
    BY <2>2, CallGoesOn DEF Inv
  <2>4. a \in Attempts /\ remote[a].status # "none"
    BY <2>1 DEF Pending, Inv, SessionsOK
  <2>5. Shape'
    BY <2>2, <2>3, SameAttempts DEF Inv, Shape
  <2>6. reading'.of = a /\ reading'.said = remote[a] /\ reading'.for = "call" /\ reading'.caller = c
    BY <2>1
  <2> QED BY <2>2, <2>3, <2>4, <2>5, <2>6, ReadingBegins
<1> QED BY <1>1, <1>2

\* The row follows a reading, which may be stale: what it missed is still to be told.
LEMMA SynchronizeKeepsInv ==
  ASSUME Inv, reading # NoReading, Synchronize(row, reading.of, reading.said), reading' = NoReading,
         UNCHANGED <<now, sessions, remote>>, DOMAIN calls' = Callers, \A c \in Callers : CallOK(c)',
         events' \subseteq events,
         \A e \in events \ events' : reading.for = "event" /\ e = reading.event
  PROVE  Inv'
<1>0. PICK a, said : a = reading.of /\ said = reading.said
  OBVIOUS
<1>1. /\ a \in Attempts /\ said \in RemoteRow /\ said.status # "none" /\ remote[a].status # "none"
      /\ said.status \in FinalStatuses => ~Live(a)
      /\ row.sub = a /\ row.status \in FinalStatuses => said.status \in FinalStatuses
      /\ AccessOf(said) <= remote[a].granted
      /\ said = remote[a] \/ Untold(a)
  BY <1>0 DEF Inv, ReadingOK
<1>2. /\ Acceptable(row, a, said) /\ row' = SynchronizedRow(row, a, said)
      /\ attempts' = IF row.sub = a THEN attempts ELSE [attempts EXCEPT ![a].status = "complete"]
  BY <1>0 DEF Synchronize
<1>3. /\ DOMAIN row' = RowFields
      /\ row'.sub = a /\ row'.status = said.status /\ row'.plan = said.plan
      /\ row'.periodEnd = said.periodEnd /\ row'.trialEnd = said.trialEnd
      /\ row'.access = AccessOf(said)
      /\ row'.trialUsed <=> row.trialUsed \/ said.status = "trialing"
  <2>1. DOMAIN row = RowFields
    BY DEF Inv, Shape
  <2> QED BY <1>2, <2>1 DEF SynchronizedRow, RowFields
<1>4. /\ DOMAIN attempts' = Attempts /\ \A b \in Attempts : AttemptOK(b)'
      /\ Pending' = Pending \ (IF row.sub = a THEN {} ELSE {a})
      /\ \A b \in Attempts : attempts'[b].trial = attempts[b].trial
  <2>1. CASE row.sub = a
    BY <1>2, <2>1, SameAttempts DEF Inv, Shape
  <2>2. CASE row.sub # a
    <3>1. /\ DOMAIN attempts' = Attempts
          /\ \A b \in Attempts \ {a} : attempts'[b] = attempts[b]
          /\ attempts'[a] = [attempts[a] EXCEPT !.status = "complete"]
      BY <1>1, <1>2, <2>2 DEF Inv, Shape
    <3>2. AttemptOK(a)' /\ attempts'[a].status = "complete" /\ attempts'[a].trial = attempts[a].trial
      BY <1>1, <3>1 DEF Inv, Shape, AttemptOK, AttemptFields
    <3>3. \A b \in Attempts \ {a} : AttemptOK(b)'
      BY <3>1 DEF Inv, Shape, AttemptOK
    <3> QED BY <1>1, <2>2, <3>1, <3>2, <3>3 DEF Pending
  <2> QED BY <2>1, <2>2
<1>5. row.sub # a => a \in Pending /\ Pending = {a} /\ (row.sub # None => row.status \in FinalStatuses)
  BY <1>2 DEF Acceptable, MaySucceed, Inv, RowOK
<1>6. Shape'
  BY <1>1, <1>3, <1>4 DEF Inv, Shape
<1>7. SessionsOK'
  <2>1. \A b : (Live(b)' <=> Live(b)) /\ AccessOf(remote[b])' = AccessOf(remote[b])
    BY DEF Live, AccessOf
  <2>2. sessions[a] # "open"
    BY <1>1 DEF Inv, SessionsOK
  <2>3. \A b \in Attempts : Live(b) => b \in Pending' \/ b = a
    <3>1. CASE row.sub = a
      BY <1>4, <3>1 DEF Inv, SessionsOK
    <3>2. CASE row.sub # a
      <4>1. row.sub \in Attempts => ~Live(row.sub)
        BY <1>5, <3>2 DEF Inv, RowOK, Attempts, None
      <4> QED BY <1>5, <3>2, <4>1 DEF Inv, SessionsOK
    <3> QED BY <3>1, <3>2
  <2> QED BY <1>3, <1>4, <2>1, <2>2, <2>3 DEF Inv, SessionsOK
<1>8. EventsOK'
  BY DEF Inv, EventsOK
<1>9. RowOK'
  <2>1. AnsweredMeansApplied'
    <3>1. Untold(a) => \E e \in events' : e.of = a /\ e.kind = "changed"
      BY DEF Untold
    <3> QED BY <1>1, <1>3, <3>1 DEF AnsweredMeansApplied, AccessOf
  <2>2. Subscribed' => Pending' = {}
    <3>1. CASE row.sub # a
      BY <1>4, <1>5, <3>1
    <3>2. CASE row.sub = a
      <4>1. Subscribed' => Subscribed
        BY <1>1, <1>3, <3>2 DEF Subscribed, Attempts, None
      <4> QED BY <1>4, <3>2, <4>1 DEF Inv, RowOK
    <3> QED BY <3>1, <3>2
  <2>3. row'.trialUsed => \A b \in Pending' : attempts'[b].trial = 0
    <3>1. CASE row.sub # a
      BY <1>4, <1>5, <3>1
    <3>2. CASE row.sub = a
      <4>1. CASE row.trialUsed
        BY <1>4, <3>2, <4>1 DEF Inv, RowOK, Pending
      <4>2. CASE ~row.trialUsed
        BY <1>2, <1>3, <3>2, <4>2 DEF Acceptable, TrialAuthorized
      <4> QED BY <4>1, <4>2
    <3> QED BY <3>1, <3>2
  <2>4. row'.status \in FinalStatuses => ~(Live(row.sub))'
    BY <1>1, <1>3 DEF Live
  <2>5. \A b, c \in Pending' : b = c
    BY <1>4 DEF Inv, RowOK
  <2>6. row'.access \in Nat /\ a # None
    BY <1>1, <1>3, AccessIsADate DEF Attempts, None
  <2> QED BY <1>1, <1>3, <2>1, <2>2, <2>3, <2>4, <2>5, <2>6 DEF RowOK
<1>10. ReadingOK'
  BY DEF ReadingOK
<1> QED BY <1>6, <1>7, <1>8, <1>9, <1>10 DEF Inv

LEMMA EndKeepsInv ==
  ASSUME Inv, HeldOK, EndRecovery \/ \E e \in events : EndEvent(e)
  PROVE  Inv'
<1>1. ASSUME NEW e \in events, EndEvent(e) PROVE Inv'
  <2>1. /\ reading.for = "event" /\ reading.event = e /\ reading # NoReading
        /\ Synchronize(row, reading.of, reading.said) /\ reading' = NoReading
        /\ events' = events \ {e} /\ UNCHANGED <<now, calls, sessions, remote>>
    BY <1>1 DEF EndEvent, HeldOK, NoReading, stripe
  <2>2. DOMAIN calls' = Callers /\ \A c \in Callers : CallOK(c)'
    BY <2>1, SameCalls DEF Inv
  <2> QED BY <2>1, <2>2, SynchronizeKeepsInv
<1>2. CASE EndRecovery
  <2>1. /\ reading.for = "call" /\ reading # NoReading
        /\ Synchronize(row, reading.of, reading.said) /\ reading' = NoReading
        /\ events' = events /\ UNCHANGED <<now, sessions, remote>>
        /\ calls' = [calls EXCEPT ![reading.caller].pc = "reserve"]
    BY <1>2 DEF EndRecovery, HeldOK, NoReading, stripe
  <2>2. PICK c \in Callers : c = reading.caller /\ calls[c].pc = "recover"
    BY <2>1 DEF Inv, ReadingOK
  <2>3. DOMAIN calls[c] = {"pc", "plan", "key"} /\ calls[c].plan \in Plans
    BY <2>2 DEF Inv, Shape, CallOK
  <2>4. /\ DOMAIN calls' = Callers /\ calls'[c] = [calls[c] EXCEPT !.pc = "reserve"]
        /\ \A d \in Callers \ {c} : calls'[d] = calls[d]
    BY <2>1, <2>2 DEF Inv, Shape
  <2>5. DOMAIN calls'[c] = {"pc", "plan", "key"} /\ calls'[c].plan \in Plans
    BY <2>3, <2>4
  <2>6. \A d \in Callers : CallOK(d)'
    BY <2>4, <2>5 DEF Inv, Shape, CallOK
  <2> QED BY <2>1, <2>4, <2>6, SynchronizeKeepsInv
<1> QED BY <1>1, <1>2

(***************************************************************************)
(* The theorems.                                                           *)
(***************************************************************************)
LEMMA StepKeepsInv ==
  ASSUME IInv, [Next]_vars
  PROVE  Inv'
<1>0. Inv /\ HeldOK /\ CustomerOK
  BY DEF IInv
<1>1. ASSUME NEW a \in Attempts, CompleteSession(a) PROVE Inv'
  <2>1. /\ sessions[a] = "open" /\ sessions' = [sessions EXCEPT ![a] = "complete"]
        /\ \E r : Moved(a, r)
    BY <1>1, CompleteMoves DEF IInv, Inv
  <2>2. UNCHANGED <<now, ours, calls, reading>>
    BY <1>1 DEF CompleteSession
  <2> QED BY <1>0, <2>1, <2>2, MovesKeepInv
<1>2. ASSUME NEW a \in Attempts, ChangeRemotely(a) PROVE Inv'
  <2>1. Live(a) /\ \E r : Moved(a, r)
    BY <1>2, ChangeMoves DEF IInv, Inv
  <2>2. UNCHANGED <<now, ours, calls, reading>> /\ sessions' = sessions
    BY <1>2 DEF ChangeRemotely
  <2> QED BY <1>0, <2>1, <2>2, MovesKeepInv
<1>3. CASE UNCHANGED vars
  <2>1. /\ UNCHANGED <<now, row, attempts, calls, reading, sessions, remote, events>>
    BY <1>3 DEF vars
  <2>2. Shape'
    BY <2>1, SameAttempts, SameCalls DEF IInv, Inv, Shape
  <2>3. Tidy
    BY <1>0, <2>1, <2>2, QuietIsTidy
  <2> QED BY <1>0, <2>1, <2>3, TidyKeepsInv DEF SameRow, SameReading
<1> QED BY <1>0, <1>1, <1>2, <1>3, ExpireSessionKeepsInv, ExpireEventKeepsInv, BeginKeepsInv, EndKeepsInv,
           QuietKeepsInv, RecoverKeepsInv, ReserveKeepsInv, SessionKeepsInv DEF Next

\* A transaction reads the row with the lock, and the row changes only with the lock.
LEMMA HeldStays ==
  ASSUME HeldOK, [Next]_vars
  PROVE  HeldOK'
<1>1. ASSUME NEW w \in found, BeginEvent(w) PROVE HeldOK'
  BY <1>1 DEF BeginEvent, Refreshed, HeldOK, ours
<1>2. ASSUME NEW c \in Callers, NEW p \in Plans, NEW k \in Keys, BeginRecovery(c, p, k) PROVE HeldOK'
  BY <1>2 DEF BeginRecovery, HeldOK, ours
<1>3. CASE reading' = NoReading
  BY <1>3 DEF HeldOK
<1>4. CASE UNCHANGED <<row, reading>>
  BY <1>4 DEF HeldOK
<1>5. \/ reading' = NoReading
      \/ UNCHANGED <<row, reading>>
      \/ \E w \in found : BeginEvent(w)
      \/ \E c \in Callers, p \in Plans, k \in Keys : BeginRecovery(c, p, k)
  BY DEF Next, vars, ours, stripe, CompleteSession, ExpireSession, ChangeRemotely, Deliver, EndEvent,
         RepeatDelivery, ExpireEvent, Abort, EndRecovery, Recover, Reserve, Customer, Session,
         FailCall, SetAccess, Tick, Unlocked
<1> QED BY <1>1, <1>2, <1>3, <1>4, <1>5

\* What a step does to the customer, and to the attempts and the subscription of the row.
LEMMA RowMoves ==
  ASSUME Inv, HeldOK, [Next]_vars
  PROVE  /\ row.customer => row'.customer
         /\ \/ row'.sub = row.sub
            \/ row'.sub \in Pending \ Pending'
<1>1. /\ DOMAIN row = RowFields
      /\ DOMAIN attempts = Attempts /\ \A a \in Attempts : DOMAIN attempts[a] = AttemptFields
  BY DEF Inv, Shape, AttemptOK
<1>2. ASSUME Synchronize(reading.held, reading.of, reading.said), reading.held = row
      PROVE  row'.customer = row.customer /\ (row'.sub = row.sub \/ row'.sub \in Pending \ Pending')
  <2>1. row' = SynchronizedRow(row, reading.of, reading.said) /\ Acceptable(row, reading.of, reading.said)
    BY <1>2 DEF Synchronize
  <2>2. row'.customer = row.customer /\ row'.sub = reading.of
    BY <1>1, <2>1 DEF SynchronizedRow, RowFields
  <2>3. CASE row.sub # reading.of
    <3>1. reading.of \in Pending /\ attempts' = [attempts EXCEPT ![reading.of].status = "complete"]
      BY <1>2, <2>1, <2>3 DEF Synchronize, Acceptable, MaySucceed
    <3>2. reading.of \notin Pending'
      BY <1>1, <3>1 DEF Pending, AttemptFields
    <3> QED BY <2>2, <3>1, <3>2
  <2> QED BY <2>2, <2>3
<1>3. ASSUME NEW e \in events, EndEvent(e) PROVE Synchronize(reading.held, reading.of, reading.said) /\ reading.held = row
  BY <1>3 DEF EndEvent, HeldOK, NoReading
<1>4. CASE EndRecovery
  <2>1. Synchronize(reading.held, reading.of, reading.said) /\ reading.held = row
    BY <1>4 DEF EndRecovery, HeldOK, NoReading
  <2> QED BY <1>2, <2>1
<1>5. ASSUME NEW c \in Callers, Customer(c) PROVE row'.customer /\ row'.sub = row.sub
  BY <1>1, <1>5 DEF Customer, RowFields
<1>6. ASSUME NEW exempt \in BOOLEAN, SetAccess(exempt) PROVE row'.customer = row.customer /\ row'.sub = row.sub
  BY <1>1, <1>6 DEF SetAccess, RowFields
<1>7. \/ row' = row
      \/ EndRecovery
      \/ \E e \in events : EndEvent(e)
      \/ \E c \in Callers : Customer(c)
      \/ \E exempt \in BOOLEAN : SetAccess(exempt)
  BY DEF Next, vars, ours, stripe, CompleteSession, ExpireSession, ChangeRemotely, Deliver, BeginEvent,
         RepeatDelivery, ExpireEvent, Abort, BeginRecovery, Recover, Reserve, Session, FailCall, Tick
<1> QED BY <1>2, <1>3, <1>4, <1>5, <1>6, <1>7

\* A session is created by a call that has made sure of the customer.
LEMMA CustomerStays ==
  ASSUME Inv, HeldOK, CustomerOK, [Next]_vars
  PROVE  CustomerOK'
<1>1. row.customer => row'.customer
  BY RowMoves
<1>2. ASSUME NEW c \in Callers, Customer(c) PROVE CustomerOK'
  <2>1. row'.customer
    BY <1>2 DEF Customer, Inv, Shape, RowFields
  <2> QED BY <2>1 DEF CustomerOK
<1>3. ASSUME NEW c \in Callers, Session(c) PROVE CustomerOK'
  <2>1. calls[c].pc = "session"
    BY <1>3 DEF Session
  <2>2. row'.customer
    BY <1>1, <2>1 DEF CustomerOK
  <2> QED BY <2>2 DEF CustomerOK
<1>4. ASSUME \A a \in Attempts : sessions'[a] # "none" => sessions[a] # "none",
             \A c \in Callers : calls'[c].pc = "session" => calls[c].pc = "session"
      PROVE  CustomerOK'
  BY <1>1, <1>4 DEF CustomerOK
<1>5. ASSUME NEW c \in Callers, NEW pc, pc # "session",
             \/ calls' = [calls EXCEPT ![c].pc = pc]
             \/ \E call : calls' = [calls EXCEPT ![c] = call] /\ call.pc = pc
      PROVE  \A d \in Callers : calls'[d].pc = "session" => calls[d].pc = "session"
  <2>1. DOMAIN calls = Callers /\ "pc" \in DOMAIN calls[c]
    BY DEF Inv, Shape, CallOK
  <2> QED BY <1>5, <2>1
<1>6. ASSUME UNCHANGED sessions, NEW c \in Callers, NEW pc, pc # "session",
             \/ calls' = [calls EXCEPT ![c].pc = pc]
             \/ \E call : calls' = [calls EXCEPT ![c] = call] /\ call.pc = pc
      PROVE  CustomerOK'
  BY <1>4, <1>5, <1>6
<1>7. CASE UNCHANGED <<sessions, calls>>
  BY <1>4, <1>7
<1>8. ASSUME NEW a \in Attempts, CompleteSession(a) \/ ExpireSession(a) PROVE CustomerOK'
  <2>1. /\ calls' = calls /\ sessions[a] = "open"
        /\ \E now_ : sessions' = [sessions EXCEPT ![a] = now_]
    BY <1>8 DEF CompleteSession, ExpireSession
  <2>2. \A b \in Attempts : sessions'[b] # "none" => sessions[b] # "none"
    BY <2>1 DEF Inv, Shape
  <2> QED BY <1>4, <2>1, <2>2
<1>9. CASE Abort
  <2>1. sessions' = sessions
    BY <1>9 DEF Abort, stripe
  <2>2. CASE calls' = calls
    BY <1>7, <2>1, <2>2
  <2>3. CASE reading.for = "call" /\ calls' = [calls EXCEPT ![reading.caller] = Idle]
    <3>1. reading.caller \in Callers
      BY <1>9, <2>3 DEF Abort, Unlocked, NoReading, Inv, ReadingOK
    <3>2. Idle.pc = "idle"
      BY DEF Idle
    <3> QED BY <1>6, <2>1, <2>3, <3>1, <3>2
  <2> QED BY <1>9, <2>2, <2>3 DEF Abort
<1>10. CASE EndRecovery
  <2>1. reading.caller \in Callers
    BY <1>10 DEF EndRecovery, NoReading, Inv, ReadingOK
  <2>2. sessions' = sessions /\ calls' = [calls EXCEPT ![reading.caller].pc = "reserve"]
    BY <1>10 DEF EndRecovery, stripe
  <2> QED BY <1>6, <2>1, <2>2
<1>11. ASSUME NEW c \in Callers, NEW p \in Plans, NEW k \in Keys, Recover(c, p, k) \/ BeginRecovery(c, p, k)
       PROVE  CustomerOK'
  <2>1. sessions' = sessions /\ \E pc \in {"reserve", "recover"} : Going(c, p, k, pc)
    BY <1>11 DEF Recover, BeginRecovery, stripe
  <2>2. PICK pc \in {"reserve", "recover"} : calls' = [calls EXCEPT ![c] = [pc |-> pc, plan |-> p, key |-> k]]
    BY <2>1 DEF Going
  <2> DEFINE call == [pc |-> pc, plan |-> p, key |-> k]
  <2>3. call.pc = pc /\ pc # "session"
    OBVIOUS
  <2> HIDE DEF call
  <2>4. calls' = [calls EXCEPT ![c] = call]
    BY <2>2 DEF call
  <2> QED BY <1>6, <2>1, <2>3, <2>4
<1>12. ASSUME NEW c \in Callers, Reserve(c) \/ FailCall(c) PROVE CustomerOK'
  <2>1. sessions' = sessions
    BY <1>12 DEF Reserve, FailCall, stripe
  <2>2. \/ calls' = [calls EXCEPT ![c] = Idle]
        \/ \E a : calls' = [calls EXCEPT ![c] = [pc |-> "customer", attempt |-> a]]
    <3>1. CASE FailCall(c)
      BY <3>1 DEF FailCall, Finish
    <3>2. CASE Reserve(c)
      BY <3>2 DEF Reserve, Finish
    <3> QED BY <1>12, <3>1, <3>2
  <2>3. \E pc \in {"idle", "customer"} : \E call : calls' = [calls EXCEPT ![c] = call] /\ call.pc = pc
    <3>1. CASE calls' = [calls EXCEPT ![c] = Idle]
      <4>1. Idle.pc = "idle"
        BY DEF Idle
      <4> QED BY <3>1, <4>1
    <3>2. ASSUME NEW a, calls' = [calls EXCEPT ![c] = [pc |-> "customer", attempt |-> a]]
          PROVE  \E call : calls' = [calls EXCEPT ![c] = call] /\ call.pc = "customer"
      <4> DEFINE call == [pc |-> "customer", attempt |-> a]
      <4>1. call.pc = "customer"
        OBVIOUS
      <4>2. calls' = [calls EXCEPT ![c] = call]
        BY <3>2
      <4> HIDE DEF call
      <4> QED BY <4>1, <4>2
    <3> QED BY <2>2, <3>1, <3>2
  <2> QED BY <1>6, <2>1, <2>3
<1>13. \/ UNCHANGED <<sessions, calls>>
       \/ \E a \in Attempts : CompleteSession(a) \/ ExpireSession(a)
       \/ Abort \/ EndRecovery
       \/ \E c \in Callers : \/ \E p \in Plans, k \in Keys : Recover(c, p, k) \/ BeginRecovery(c, p, k)
                             \/ Reserve(c) \/ Customer(c) \/ Session(c) \/ FailCall(c)
  BY DEF Next, vars, ours, stripe, ChangeRemotely, Deliver, BeginEvent, EndEvent, RepeatDelivery,
         ExpireEvent, SetAccess, Tick
<1> QED BY <1>2, <1>3, <1>7, <1>8, <1>9, <1>10, <1>11, <1>12, <1>13

\* Attempts end, and one begins when none is in progress.
LEMMA AttemptsMove ==
  ASSUME Inv, HeldOK, [Next]_vars
  PROVE  \/ Begun' = Begun /\ Pending' \subseteq Pending
         \/ /\ NextAttempt \in Attempts
            /\ Begun' = Begun \cup {NextAttempt} /\ Pending' = {NextAttempt} /\ row' = row
<1>1. DOMAIN attempts = Attempts /\ \A a \in Attempts : DOMAIN attempts[a] = AttemptFields
  BY DEF Inv, Shape, AttemptOK
<1>2. CASE attempts' = attempts
  BY <1>2 DEF Begun, Pending
<1>3. ASSUME NEW a \in Pending, NEW status \in {"complete", "expired", "open"},
             attempts' = [attempts EXCEPT ![a].status = status]
      PROVE  Begun' = Begun /\ Pending' \subseteq Pending
  <2>1. a \in Attempts /\ attempts[a].status # "absent"
    BY DEF Pending
  <2>2. attempts'[a].status = status /\ \A b \in Attempts \ {a} : attempts'[b] = attempts[b]
    BY <1>1, <1>3, <2>1 DEF AttemptFields
  <2> QED BY <2>1, <2>2 DEF Begun, Pending
<1>4. ASSUME Synchronize(row, reading.of, reading.said)
      PROVE  Begun' = Begun /\ Pending' \subseteq Pending
  <2>1. CASE row.sub = reading.of
    BY <1>2, <1>4, <2>1 DEF Synchronize, Begun, Pending
  <2>2. CASE row.sub # reading.of
    <3>1. reading.of \in Pending /\ attempts' = [attempts EXCEPT ![reading.of].status = "complete"]
      BY <1>4, <2>2 DEF Synchronize, Acceptable, MaySucceed
    <3> QED BY <1>3, <3>1
  <2> QED BY <2>1, <2>2
<1>5. ASSUME NEW e \in events, EndEvent(e) PROVE Synchronize(row, reading.of, reading.said)
  BY <1>5 DEF EndEvent, HeldOK, NoReading
<1>6. ASSUME EndRecovery PROVE Synchronize(row, reading.of, reading.said)
  BY <1>6 DEF EndRecovery, HeldOK, NoReading
<1>7. ASSUME NEW w \in found, ExpireEvent(w) PROVE Begun' = Begun /\ Pending' \subseteq Pending
  <2>1. CASE attempts' = attempts
    BY <2>1 DEF Begun, Pending
  <2>2. CASE w.event.of \in Pending /\ attempts' = [attempts EXCEPT ![w.event.of].status = "expired"]
    BY <1>3, <2>2
  <2> QED BY <1>7, <2>1, <2>2 DEF ExpireEvent
<1>8. ASSUME NEW c \in Callers, NEW p \in Plans, NEW k \in Keys, Recover(c, p, k)
      PROVE  Begun' = Begun /\ Pending' \subseteq Pending
  <2>1. ASSUME NEW a \in Attempts
        PROVE  /\ a \notin Pending => attempts'[a] = attempts[a]
               /\ a \in Pending => attempts'[a].status \in {attempts[a].status, "expired"}
    BY <1>1, <1>8, <2>1 DEF Recover, AttemptFields
  <2> QED BY <2>1 DEF Begun, Pending
<1>9. ASSUME NEW c \in Callers, Session(c) PROVE Begun' = Begun /\ Pending' \subseteq Pending
  <2> DEFINE a == calls[c].attempt
  <2>1. CASE attempts' = attempts
    BY <2>1 DEF Begun, Pending
  <2>2. CASE a \in Pending /\ attempts' = [attempts EXCEPT ![a].status = "open", ![a].known = TRUE]
    <3>1. a \in Attempts /\ attempts[a].status # "absent"
      BY <2>2 DEF Pending
    <3>2. attempts'[a].status = "open" /\ \A b \in Attempts \ {a} : attempts'[b] = attempts[b]
      BY <1>1, <2>2, <3>1 DEF AttemptFields
    <3> QED BY <2>2, <3>1, <3>2 DEF Begun, Pending
  <2> QED BY <1>9, <2>1, <2>2 DEF Session, MayOpen
<1>10. ASSUME NEW c \in Callers, Reserve(c), attempts' # attempts
       PROVE  /\ NextAttempt \in Attempts
              /\ Begun' = Begun \cup {NextAttempt} /\ Pending' = {NextAttempt} /\ row' = row
  <2> DEFINE new == NextAttempt
  <2>1. /\ Pending = {} /\ new \in Attempts /\ row' = row
        /\ \E made : made.status = "pending" /\ attempts' = [attempts EXCEPT ![new] = made]
    BY <1>10 DEF Reserve
  <2> HIDE DEF new
  <2>2. attempts'[new].status = "pending" /\ \A a \in Attempts \ {new} : attempts'[a] = attempts[a]
    BY <1>1, <2>1
  <2>3. Begun' = Begun \cup {new} /\ Pending' = {new}
    BY <2>1, <2>2 DEF Begun, Pending
  <2> QED BY <2>1, <2>3 DEF new
<1>11. \/ attempts' = attempts
       \/ EndRecovery \/ \E e \in events : EndEvent(e)
       \/ \E w \in found : ExpireEvent(w)
       \/ \E c \in Callers : \/ \E p \in Plans, k \in Keys : Recover(c, p, k)
                             \/ Reserve(c) \/ Session(c)
  BY DEF Next, vars, ours, stripe, CompleteSession, ExpireSession, ChangeRemotely, Deliver, BeginEvent,
         RepeatDelivery, Abort, BeginRecovery, Customer, FailCall, SetAccess, Tick
<1> QED BY <1>2, <1>4, <1>5, <1>6, <1>7, <1>8, <1>9, <1>10, <1>11

\* The number of the next attempt is one more than the last one.
LEMMA NextIsNew ==
  ASSUME NEW n \in Nat, Begun = 1 .. n
  PROVE  NextAttempt = n + 1
<1>1. Cardinality(1 .. n) = n
  BY FS_Interval
<1> QED BY <1>1 DEF Begun, NextAttempt

LEMMA NewestOKStays ==
  ASSUME Inv, HeldOK, NewestOK, [Next]_vars
  PROVE  NewestOK'
<1>1. PICK n \in Nat : Begun = 1 .. n
  BY DEF NewestOK
<1>2. row'.sub = row.sub \/ row'.sub \in Pending \ Pending'
  BY RowMoves
<1>3. Pending \subseteq Begun /\ Begun \subseteq Attempts
  BY DEF Pending, Begun
<1>4. CASE Begun' = Begun /\ Pending' \subseteq Pending
  <2>1. \A a \in Pending' : row'.sub < a
    <3>1. CASE row'.sub = row.sub
      BY <1>4, <3>1 DEF NewestOK
    <3>2. CASE row'.sub \in Pending \ Pending'
      BY <1>4, <3>2 DEF Inv, RowOK
    <3> QED BY <1>2, <3>1, <3>2
  <2> QED BY <1>1, <1>2, <1>3, <1>4, <2>1 DEF NewestOK
<1>5. CASE /\ Begun' = Begun \cup {NextAttempt} /\ Pending' = {NextAttempt} /\ row' = row
  <2>1. NextAttempt = n + 1
    BY <1>1, NextIsNew
  <2>2. Begun' = 1 .. (n + 1)
    BY <1>1, <1>5, <2>1
  <2>3. row.sub # None => row.sub \in 1 .. n
    BY <1>1 DEF NewestOK
  <2>4. row.sub < n + 1
    BY <2>3 DEF None
  <2>5. n + 1 \in Nat
    OBVIOUS
  <2> QED BY <1>5, <2>1, <2>2, <2>3, <2>4, <2>5 DEF NewestOK
<1> QED BY <1>4, <1>5, AttemptsMove

LEMMA Invariance == Spec => []IInv
<1>1. Init => IInv
  <2> SUFFICES ASSUME Init PROVE HeldOK /\ CustomerOK /\ NewestOK
    BY InitInv DEF IInv
  <2>1. HeldOK /\ CustomerOK
    BY DEF Init, HeldOK, CustomerOK, Idle
  <2>2. Begun = {} /\ Pending = {} /\ row.sub = None
    BY DEF Init, Begun, Pending, NoAttempt
  <2>3. Begun = 1 .. 0
    BY <2>2
  <2> QED BY <2>1, <2>2, <2>3 DEF NewestOK
<1>2. IInv /\ [Next]_vars => IInv'
  BY StepKeepsInv, HeldStays, CustomerStays, NewestOKStays DEF IInv
<1> QED BY <1>1, <1>2, PTL DEF Spec

LEMMA OneLives == Inv => OneLiveSubscription
<1> SUFFICES ASSUME Inv, NEW a \in Attempts, NEW b \in Attempts, Live(a), Live(b) PROVE a = b
  BY DEF OneLiveSubscription
<1>1. /\ a \in Pending \/ a = row.sub
      /\ b \in Pending \/ b = row.sub
  BY DEF Inv, SessionsOK
<1>2. CASE a = row.sub \/ b = row.sub
  <2>1. Subscribed
    BY <1>2 DEF Inv, RowOK, Subscribed, Attempts, None
  <2> QED BY <1>1, <2>1 DEF Inv, RowOK
<1>3. CASE a \in Pending /\ b \in Pending
  BY <1>3 DEF Inv, RowOK
<1> QED BY <1>1, <1>2, <1>3

\* Whatever answers are lost, calls repeated and requests in a hurry, the company never has
\* two subscriptions alive at Stripe (billing/services.py, checkout and synchronize).
THEOREM OneSubscription == Spec => []OneLiveSubscription
<1>1. IInv => OneLiveSubscription
  BY OneLives DEF IInv
<1> QED BY Invariance, <1>1, PTL

\* The access in the row is never longer than what Stripe was paid for, or let the company
\* try (billing/services.py, synchronize).
THEOREM AccessStaysBacked == Spec => []AccessIsBacked
<1>1. IInv => AccessIsBacked
  BY DEF IInv, Inv, RowOK, AccessIsBacked
<1> QED BY Invariance, <1>1, PTL

\* Once its notifications are acknowledged, the row says of its subscription what Stripe
\* says, in whatever order they came (billing/services.py, process_event).
THEOREM AnswersAreApplied == Spec => []AnsweredMeansApplied
<1>1. IInv => AnsweredMeansApplied
  BY DEF IInv, Inv, RowOK
<1> QED BY Invariance, <1>1, PTL

LEMMA TrialsBeginAtCheckout ==
  ASSUME Inv, [Next]_vars, NEW a \in Attempts, remote[a].status = "none", remote'[a].status = "trialing"
  PROVE  ~row.trialUsed
<1>1. CASE CompleteSession(a)
  <2>1. sessions[a] = "open"
    BY <1>1, CompleteMoves DEF Inv
  <2>2. PICK r : Moved(a, r) /\ (r.status = "trialing" => attempts[a].trial > 0)
    BY <1>1, CompleteMoves DEF Inv
  <2>3. remote'[a] = r
    BY <2>2 DEF Moved, Inv, Shape
  <2>4. a \in Pending /\ attempts[a].trial > 0
    BY <2>1, <2>2, <2>3 DEF Inv, SessionsOK
  <2> QED BY <2>4 DEF Inv, RowOK
<1>2. ASSUME NEW b \in Attempts, CompleteSession(b) \/ ChangeRemotely(b), ~CompleteSession(a)
      PROVE  FALSE
  <2>1. PICK r : Moved(b, r)
    BY <1>2, CompleteMoves, ChangeMoves DEF Inv
  <2>2. b # a
    <3>1. ~Live(a)
      BY DEF Live, FinalStatuses
    <3> QED BY <1>2, <3>1, ChangeMoves DEF Inv
  <2>3. remote'[a] = remote[a]
    BY <2>1, <2>2 DEF Moved, Inv, Shape
  <2> QED BY <2>3
<1>3. CASE remote' = remote
  BY <1>3
<1>4. remote' = remote \/ \E b \in Attempts : CompleteSession(b) \/ ChangeRemotely(b)
  BY DEF Next, vars, stripe, ExpireSession, Deliver, RepeatDelivery, BeginEvent, EndEvent, ExpireEvent, Abort, EndRecovery,
         Recover, BeginRecovery, Reserve, Customer, Session, FailCall, SetAccess, Tick
<1> QED BY <1>1, <1>2, <1>3, <1>4

\* No trial begins for a company that the service has seen trying (billing/services.py:
\* checkout offers none, and synchronize refuses one it did not offer).
THEOREM TrialsRemembered == Spec => TrialsAreRemembered
<1>1. IInv /\ [Next]_vars =>
        [\A a \in Attempts :
           remote[a].status = "none" /\ remote'[a].status = "trialing" => ~row.trialUsed]_vars
  BY TrialsBeginAtCheckout DEF IInv
<1> QED BY Invariance, <1>1, PTL DEF Spec, TrialsAreRemembered

\* The subscription of the row gives its place to a newer one only, however old what a
\* webhook had found (billing/services.py, process_event and synchronize).
THEOREM NewestSubscriptionStays == Spec => NewestStays
<1>1. ASSUME IInv, [Next]_vars PROVE row'.sub >= row.sub
  <2>1. row.sub \in Int
    BY <1>1 DEF IInv, Inv, Shape, Attempts, None
  <2>2. CASE row'.sub = row.sub
    BY <2>1, <2>2
  <2>3. CASE row'.sub \in Pending \ Pending'
    <3>1. row'.sub \in Int /\ row.sub < row'.sub
      BY <1>1, <2>3 DEF IInv, NewestOK, Pending, Attempts
    <3> QED BY <2>1, <3>1
  <2> QED BY <1>1, <2>2, <2>3, RowMoves DEF IInv
<1>2. IInv /\ [Next]_vars => [row'.sub >= row.sub]_vars
  BY <1>1
<1> QED BY Invariance, <1>2, PTL DEF Spec, NewestStays
=============================================================================
