---------------------------- MODULE LedgerProofs ----------------------------
(***************************************************************************)
(* What Ledger guarantees for every value of its constants.                *)
(***************************************************************************)
EXTENDS Ledger, SumLemmas

\* A day of the calendar falls in a year that has a sequence.
LEMMA YearOfDay ==
  ASSUME NEW day \in Days
  PROVE  YearOf(day) \in Years
BY LedgerAssumption DEF YearOf, Years, Days

\* A draft that save_draft accepts to write is a row of the invoice table.
LEMMA DraftedType ==
  ASSUME TypeOK, NEW i \in Invoices, NEW refs \in SUBSET References,
         NEW lines \in LineLists, NEW day \in Days, Draftable(i, refs, lines)
  PROVE  Drafted(refs, lines, day) \in InvoiceRow
BY DEF TypeOK, Draftable, Drafted, Calculable, InvoiceRow, NoInvoice

\* A row that validate_invoice accepts to write is a row of the invoice table.
LEMMA IssuedType ==
  ASSUME TypeOK, NEW i \in Invoices, invoices[i].issue \in Days,
         invoices[i].lines \in LineLists, Draftable(i, invoices[i].refs, invoices[i].lines)
  PROVE  Issued(i) \in InvoiceRow
<1> DEFINE row == Drafted(invoices[i].refs, invoices[i].lines, invoices[i].issue)
<1>1. invoices[i].refs \in SUBSET References
  BY DEF TypeOK, InvoiceRow
<1>2. row \in InvoiceRow
  BY <1>1, DraftedType
<1>3. row.issue \in Days
  BY DEF Drafted
<1>4. nextNumber[YearOf(row.issue)] \in Nat
  BY <1>3, YearOfDay DEF TypeOK
<1>5. company.precision \in Precisions /\ company.currency \in Currencies
  BY DEF TypeOK
<1>6. Numbered(row) \in InvoiceRow
  <2> HIDE DEF row
  <2> QED BY <1>2, <1>4, <1>5 DEF Numbered, InvoiceRow
<1> QED BY <1>6 DEF Issued

\* Every line of an entry names one account and one side.
LEMMA PaymentPostingType ==
  ASSUME NEW amount \in Nat
  PROVE  PaymentPosting(amount) \in SUBSET EntryLine
BY DEF PaymentPosting, NonZero, Debit, Credit, EntryLine, Accounts

LEMMA InvoicePostingType ==
  ASSUME NEW i \in Invoices, Issued(i).net \in Nat, Issued(i).tax \in Nat
  PROVE  InvoicePosting(i) \in SUBSET EntryLine
BY DEF InvoicePosting, NonZero, Debit, Credit, EntryLine, Accounts

\* _entry adds one row to the entry table.
LEMMA PostType ==
  ASSUME TypeOK, NEW kind \in {"invoice", "payment"}, NEW i \in Invoices,
         NEW p \in PaymentIds \cup {0}, NEW day \in Days, NEW lines \in SUBSET EntryLine,
         Post(kind, i, p, day, lines)
  PROVE  (entries \subseteq EntryRow)'
BY DEF TypeOK, Post, OpenOn, EntryRow

\* _remember writes one row of the idempotency table.
LEMMA RememberType ==
  ASSUME TypeOK, NEW k \in Keys, NEW action \in {"duplicate", "validate", "payment"},
         NEW on \in Invoices, NEW amount \in PaymentAmounts \cup {0},
         NEW day \in Days \cup {0}, NEW result \in Invoices,
         Remember(k, action, on, amount, day, result)
  PROVE  (remembered \in [Keys -> Memory])'
BY DEF TypeOK, Remember, Memory

\* A draft has the lines and the date of a document.
DraftsAreDocuments ==
  \A i \in Invoices : invoices[i].status # "absent" =>
    /\ invoices[i].lines \in LineLists
    /\ invoices[i].issue \in Days

TypeInv == TypeOK /\ DraftsAreDocuments

LEMMA TypeInit == Init => TypeInv
<1> SUFFICES ASSUME Init PROVE TypeInv
  OBVIOUS
<1>1. NoInvoice \in InvoiceRow
  BY MoneyAssumption DEF NoInvoice, InvoiceRow, Amounts
<1>2. NoPayment \in PaymentRow /\ NoMemory \in Memory
  BY DEF NoPayment, PaymentRow, NoMemory, Memory
<1>3. NoPeriod \in PeriodRow
  BY LedgerAssumption DEF NoPeriod, PeriodRow, Days
<1>4. TypeOK
  <2>1. connected \in BOOLEAN
    BY Zenon DEF Init
  <2> QED BY <2>1, <1>1, <1>2, <1>3 DEF Init, TypeOK
<1>5. DraftsAreDocuments
  BY DEF Init, DraftsAreDocuments, NoInvoice
<1> QED BY <1>4, <1>5 DEF TypeInv

LEMMA TypeStep == TypeInv /\ [Next]_vars => TypeInv'
<1> SUFFICES ASSUME TypeInv, [Next]_vars PROVE TypeInv'
  OBVIOUS
<1> USE DEF TypeInv
<1>1. ASSUME NEW i \in Invoices, NEW refs \in SUBSET References, NEW lines \in LineLists,
             NEW day \in Days, SaveDraft(i, refs, lines, day)
      PROVE  TypeInv'
  <2>1. Drafted(refs, lines, day) \in InvoiceRow
    BY <1>1, DraftedType DEF SaveDraft
  <2>2. (invoices \in [Invoices -> InvoiceRow])'
    BY <1>1, <2>1 DEF SaveDraft, TypeOK
  <2>3. DraftsAreDocuments'
    BY <1>1 DEF SaveDraft, TypeOK, DraftsAreDocuments, Drafted
  <2> QED BY <1>1, <2>2, <2>3 DEF SaveDraft, TypeOK
<1>2. ASSUME NEW i \in Invoices, NEW copy \in Invoices, NEW k \in Keys, NEW day \in Days,
             DuplicateInvoice(i, copy, k, day)
      PROVE  TypeInv'
  <2>1. invoices[i].lines \in LineLists /\ invoices[i].refs \in SUBSET References
    BY <1>2 DEF DuplicateInvoice, DraftsAreDocuments, TypeOK, InvoiceRow
  <2>2. Drafted(invoices[i].refs, invoices[i].lines, day) \in InvoiceRow
    <3>1. Draftable(copy, invoices[i].refs, invoices[i].lines)
      BY <1>2 DEF DuplicateInvoice
    <3> QED BY <2>1, <3>1, DraftedType
  <2>3. (invoices \in [Invoices -> InvoiceRow])'
    BY <1>2, <2>2 DEF DuplicateInvoice, TypeOK
  <2>4. DraftsAreDocuments'
    BY <1>2, <2>1 DEF DuplicateInvoice, TypeOK, DraftsAreDocuments, Drafted
  <2>5. (remembered \in [Keys -> Memory])'
    BY <1>2, RememberType DEF DuplicateInvoice
  <2> QED BY <1>2, <2>3, <2>4, <2>5 DEF DuplicateInvoice, TypeOK
<1>3. ASSUME NEW i \in Invoices, NEW k \in Keys, ValidateInvoice(i, k)
      PROVE  TypeInv'
  <2>1. invoices[i].lines \in LineLists /\ invoices[i].issue \in Days
    BY <1>3 DEF ValidateInvoice, DraftsAreDocuments
  <2>2. Issued(i) \in InvoiceRow
    BY <1>3, <2>1, IssuedType DEF ValidateInvoice
  <2>3. (invoices \in [Invoices -> InvoiceRow])'
    BY <1>3, <2>2 DEF ValidateInvoice, TypeOK
  <2>4. DraftsAreDocuments'
    BY <1>3, <2>1 DEF ValidateInvoice, TypeOK, DraftsAreDocuments, Issued, Numbered, Drafted
  <2>5. (entries \subseteq EntryRow)'
    <3>1. Issued(i).net \in Nat /\ Issued(i).tax \in Nat
      BY <2>2, MoneyAssumption DEF InvoiceRow, Amounts
    <3>2. InvoicePosting(i) \in SUBSET EntryLine
      BY <3>1, InvoicePostingType
    <3> QED BY <1>3, <2>1, <3>2, PostType DEF ValidateInvoice
  <2>6. (remembered \in [Keys -> Memory])'
    BY <1>3, RememberType DEF ValidateInvoice
  <2>7. (nextNumber \in [Years -> Nat \ {0}])'
    BY <1>3, <2>1, YearOfDay DEF ValidateInvoice, Advance, TypeOK
  <2> QED BY <1>3, <2>3, <2>4, <2>5, <2>6, <2>7 DEF ValidateInvoice, TypeOK
<1>4. ASSUME NEW i \in Invoices, NEW k \in Keys, NEW p \in PaymentIds,
             NEW amount \in PaymentAmounts, NEW day \in Days,
             RecordPayment(i, k, p, amount, day)
      PROVE  TypeInv'
  <2>1. (payments \in [PaymentIds -> PaymentRow])'
    BY <1>4 DEF RecordPayment, TypeOK, PaymentRow
  <2>2. (entries \subseteq EntryRow)'
    <3>1. PaymentPosting(amount) \in SUBSET EntryLine
      BY PaymentPostingType, LedgerAssumption
    <3> QED BY <1>4, <3>1, PostType DEF RecordPayment
  <2>3. (remembered \in [Keys -> Memory])'
    BY <1>4, RememberType DEF RecordPayment
  <2> QED BY <1>4, <2>1, <2>2, <2>3 DEF RecordPayment, TypeOK, DraftsAreDocuments
<1>5. ASSUME NEW currency \in Currencies, NEW precision \in Precisions,
             ConfigureCompany(currency, precision)
      PROVE  TypeInv'
  BY <1>5 DEF ConfigureCompany, TypeOK, DraftsAreDocuments
<1>6. ASSUME NEW q \in PeriodIds, NEW start \in Days, NEW end \in Days, NEW closed \in BOOLEAN,
             SetPeriod(q, start, end, closed)
      PROVE  TypeInv'
  BY <1>6 DEF SetPeriod, TypeOK, PeriodRow, DraftsAreDocuments
<1>7. ASSUME NEW ref \in References, NEW flag \in BOOLEAN, SetArchived(ref, flag)
      PROVE  TypeInv'
  BY <1>7 DEF SetArchived, TypeOK, DraftsAreDocuments
<1>8. CASE Connect
  BY <1>8 DEF Connect, TypeOK, DraftsAreDocuments
<1>9. CASE UNCHANGED vars
  BY <1>9 DEF vars, TypeOK, DraftsAreDocuments
<1> QED BY <1>1, <1>2, <1>3, <1>4, <1>5, <1>6, <1>7, <1>8, <1>9 DEF Next

LEMMA TypeInvariant == Spec => []TypeInv
BY TypeInit, TypeStep, PTL DEF Spec

\* Type correctness: whatever the services do, every table keeps rows of its own shape.
THEOREM TypeCorrect == Spec => []TypeOK
<1>1. TypeInv => TypeOK
  BY DEF TypeInv
<1> QED BY <1>1, TypeInvariant, PTL

-----------------------------------------------------------------------------
(***************************************************************************)
(* Periods.                                                                *)
(***************************************************************************)

LEMMA PeriodsInit == Init => PeriodsTellTime
BY LedgerAssumption DEF Init, PeriodsTellTime, Overlap, NoPeriod, Days

\* A posting leaves the periods alone and is filed under one that covers its date.
LEMMA PostKeepsPeriods ==
  ASSUME PeriodsTellTime, NEW kind, NEW i, NEW p, NEW day, NEW lines,
         Post(kind, i, p, day, lines), UNCHANGED periods
  PROVE  PeriodsTellTime'
BY DEF PeriodsTellTime, Post, OpenOn, Covers

LEMMA PeriodsStep == TypeInv /\ PeriodsTellTime /\ [Next]_vars => PeriodsTellTime'
<1> SUFFICES ASSUME TypeInv, PeriodsTellTime, [Next]_vars PROVE PeriodsTellTime'
  OBVIOUS
<1>1. ASSUME NEW i \in Invoices, NEW refs \in SUBSET References, NEW lines \in LineLists,
             NEW day \in Days, SaveDraft(i, refs, lines, day)
      PROVE  PeriodsTellTime'
  BY <1>1 DEF SaveDraft, PeriodsTellTime
<1>2. ASSUME NEW i \in Invoices, NEW copy \in Invoices, NEW k \in Keys, NEW day \in Days,
             DuplicateInvoice(i, copy, k, day)
      PROVE  PeriodsTellTime'
  BY <1>2 DEF DuplicateInvoice, PeriodsTellTime
<1>3. ASSUME NEW i \in Invoices, NEW k \in Keys, ValidateInvoice(i, k)
      PROVE  PeriodsTellTime'
  BY <1>3, PostKeepsPeriods DEF ValidateInvoice
<1>4. ASSUME NEW i \in Invoices, NEW k \in Keys, NEW p \in PaymentIds,
             NEW amount \in PaymentAmounts, NEW day \in Days,
             RecordPayment(i, k, p, amount, day)
      PROVE  PeriodsTellTime'
  BY <1>4, PostKeepsPeriods DEF RecordPayment
<1>5. ASSUME NEW currency \in Currencies, NEW precision \in Precisions,
             ConfigureCompany(currency, precision)
      PROVE  PeriodsTellTime'
  BY <1>5 DEF ConfigureCompany, PeriodsTellTime
<1>6. ASSUME NEW q \in PeriodIds, NEW start \in Days, NEW end \in Days, NEW closed \in BOOLEAN,
             SetPeriod(q, start, end, closed)
      PROVE  PeriodsTellTime'
  <2>1. \A r \in PeriodIds \ {q} : periods'[r] = periods[r]
    BY <1>6 DEF SetPeriod, TypeInv, TypeOK
  <2>2. periods'[q] = [start |-> start, end |-> end, closed |-> closed]
    BY <1>6 DEF SetPeriod, TypeInv, TypeOK
  <2>3. \A r, s \in PeriodIds : r # s => ~Overlap(periods'[r], periods'[s])
    BY <1>6, <2>1, <2>2 DEF SetPeriod, Datable, Overlap, PeriodsTellTime
  <2>4. ASSUME NEW e \in entries
        PROVE  Covers(periods'[e.period], e.date)
    <3>1. Covers(periods[e.period], e.date) /\ e.period \in PeriodIds
      BY DEF PeriodsTellTime, TypeInv, TypeOK, EntryRow
    <3>2. CASE e.period = q
      BY <1>6, <2>2, <3>1, <3>2 DEF SetPeriod, Datable, HasEntries, Covers
    <3>3. CASE e.period # q
      BY <2>1, <3>1, <3>3
    <3> QED BY <3>2, <3>3
  <2> QED BY <1>6, <2>3, <2>4 DEF SetPeriod, PeriodsTellTime
<1>7. ASSUME NEW ref \in References, NEW flag \in BOOLEAN, SetArchived(ref, flag)
      PROVE  PeriodsTellTime'
  BY <1>7 DEF SetArchived, PeriodsTellTime
<1>8. CASE Connect
  BY <1>8 DEF Connect, PeriodsTellTime
<1>9. CASE UNCHANGED vars
  BY <1>9 DEF vars, PeriodsTellTime
<1> QED BY <1>1, <1>2, <1>3, <1>4, <1>5, <1>6, <1>7, <1>8, <1>9 DEF Next

\* However periods are created, moved while empty, closed and opened again, a day belongs
\* to at most one of them and every entry to the period that covers its date.
THEOREM PeriodsAlwaysTellTime == Spec => []PeriodsTellTime
BY PeriodsInit, PeriodsStep, TypeInvariant, PTL DEF Spec

\* A closed period is sealed against every service.
THEOREM ClosedBooksAreStable == Spec => ClosedBooksStable
<1> DEFINE Sealed == \A q \in PeriodIds : periods[q].closed =>
                       \A e \in (entries' \ entries) \cup (entries \ entries') :
                         ~Covers(periods[q], e.date)
<1>1. ASSUME TypeInv, PeriodsTellTime, [Next]_vars
      PROVE  [Sealed]_vars
  <2>1. ASSUME NEW kind, NEW i, NEW p, NEW day \in Days, NEW lines, Post(kind, i, p, day, lines)
        PROVE  Sealed
    <3>1. PICK r \in OpenOn(day) :
            entries' = entries \cup {[kind |-> kind, invoice |-> i, payment |-> p,
                                      date |-> day, period |-> r, lines |-> lines]}
      BY <2>1 DEF Post
    <3>2. \A q \in PeriodIds : periods[q].closed => ~Covers(periods[q], day)
      <4> SUFFICES ASSUME NEW q \in PeriodIds, periods[q].closed, Covers(periods[q], day)
                   PROVE  FALSE
        OBVIOUS
      <4>1. r \in PeriodIds /\ r # q /\ Covers(periods[r], day)
        BY DEF OpenOn
      <4>2. periods[q].start \in Int /\ periods[q].end \in Int
            /\ periods[r].start \in Int /\ periods[r].end \in Int /\ day \in Int
        BY <1>1, <4>1, LedgerAssumption DEF TypeInv, TypeOK, PeriodRow, Days
      <4>3. Overlap(periods[q], periods[r])
        BY <4>1, <4>2 DEF Covers, Overlap
      <4> QED BY <1>1, <4>1, <4>3 DEF PeriodsTellTime
    <3> QED BY <3>1, <3>2
  <2>2. ASSUME UNCHANGED entries
        PROVE  Sealed
    BY <2>2
  <2>3. ASSUME NEW i \in Invoices, NEW k \in Keys, ValidateInvoice(i, k)
        PROVE  Sealed
    <3>1. invoices[i].issue \in Days
      BY <1>1, <2>3 DEF ValidateInvoice, TypeInv, DraftsAreDocuments
    <3> HIDE DEF Sealed
    <3> QED BY <2>1, <2>3, <3>1 DEF ValidateInvoice
  <2>4. ASSUME NEW i \in Invoices, NEW k \in Keys, NEW p \in PaymentIds,
               NEW amount \in PaymentAmounts, NEW day \in Days,
               RecordPayment(i, k, p, amount, day)
        PROVE  Sealed
    <3> HIDE DEF Sealed
    <3> QED BY <2>1, <2>4 DEF RecordPayment
  <2> HIDE DEF Sealed
  <2> QED BY <1>1, <2>2, <2>3, <2>4
          DEF Next, vars, SaveDraft, DuplicateInvoice, ConfigureCompany, SetPeriod,
              SetArchived, Connect
<1> QED BY <1>1, TypeInvariant, PeriodsAlwaysTellTime, PTL DEF Spec, ClosedBooksStable

-----------------------------------------------------------------------------
(***************************************************************************)
(* Validated invoices, numbers and payments.                               *)
(***************************************************************************)

\* Only validate_invoice changes which invoices are validated, and no service changes one.
LEMMA WritingDrafts ==
  ASSUME TypeInv, NEW i \in Invoices, NEW refs, NEW lines, NEW day,
         i \notin Validated, invoices' = [invoices EXCEPT ![i] = Drafted(refs, lines, day)]
  PROVE  /\ Validated' = Validated
         /\ \A j \in Validated : invoices'[j] = invoices[j]
         /\ \A j \in Invoices \ {i} : invoices'[j] = invoices[j]
BY DEF TypeInv, TypeOK, Validated, Drafted

LEMMA Issuing ==
  ASSUME TypeInv, NEW i \in Invoices, NEW k \in Keys, ValidateInvoice(i, k)
  PROVE  /\ i \notin Validated
         /\ Validated' = Validated \cup {i}
         /\ \A j \in Invoices \ {i} : invoices'[j] = invoices[j]
         /\ invoices'[i] = Issued(i)
         /\ Issued(i).issue = invoices[i].issue
         /\ Issued(i).issue \in Days
BY DEF TypeInv, TypeOK, DraftsAreDocuments, Validated, ValidateInvoice, Issued, Numbered, Drafted

\* Every step either issues one invoice or leaves the validated ones as they are.
LEMMA ValidatedSteps ==
  ASSUME TypeInv, [Next]_vars
  PROVE  \/ \E i \in Invoices, k \in Keys : ValidateInvoice(i, k)
         \/ /\ Validated' = Validated
            /\ \A j \in Validated : invoices'[j] = invoices[j]
            /\ nextNumber' = nextNumber
<1>1. ASSUME NEW i \in Invoices, NEW refs \in SUBSET References, NEW lines \in LineLists,
             NEW day \in Days, SaveDraft(i, refs, lines, day)
      PROVE  /\ Validated' = Validated
             /\ \A j \in Validated : invoices'[j] = invoices[j]
             /\ nextNumber' = nextNumber
  <2>1. i \notin Validated
    BY <1>1 DEF SaveDraft, Draftable, Validated
  <2> QED BY <1>1, <2>1, WritingDrafts DEF SaveDraft
<1>2. ASSUME NEW i \in Invoices, NEW copy \in Invoices, NEW k \in Keys, NEW day \in Days,
             DuplicateInvoice(i, copy, k, day)
      PROVE  /\ Validated' = Validated
             /\ \A j \in Validated : invoices'[j] = invoices[j]
             /\ nextNumber' = nextNumber
  <2>1. copy \notin Validated
    BY <1>2 DEF DuplicateInvoice, Validated
  <2> QED BY <1>2, <2>1, WritingDrafts DEF DuplicateInvoice
<1>3. ASSUME UNCHANGED <<invoices, nextNumber>>
      PROVE  /\ Validated' = Validated
             /\ \A j \in Validated : invoices'[j] = invoices[j]
             /\ nextNumber' = nextNumber
  BY <1>3 DEF Validated
<1> QED
  BY <1>1, <1>2, <1>3
     DEF Next, vars, RecordPayment, ConfigureCompany, SetPeriod, SetArchived, Connect

LEMMA NumbersInit == Init => GapFreeNumbers
BY DEF Init, GapFreeNumbers, NumbersOf, Validated, NoInvoice

LEMMA NumbersStep == TypeInv /\ GapFreeNumbers /\ [Next]_vars => GapFreeNumbers'
<1> SUFFICES ASSUME TypeInv, GapFreeNumbers, [Next]_vars PROVE GapFreeNumbers'
  OBVIOUS
<1>1. ASSUME NEW i \in Invoices, NEW k \in Keys, ValidateInvoice(i, k)
      PROVE  GapFreeNumbers'
  <2> DEFINE year == YearOf(invoices[i].issue)
  <2>1. /\ i \notin Validated
        /\ Validated' = Validated \cup {i}
        /\ \A j \in Validated : invoices'[j] = invoices[j]
        /\ invoices'[i].issue = invoices[i].issue
        /\ year \in Years
    BY <1>1, Issuing, YearOfDay DEF Validated
  <2>2. invoices'[i].number = nextNumber[year]
    <3> DEFINE row == Drafted(invoices[i].refs, invoices[i].lines, invoices[i].issue)
    <3>1. row.issue = invoices[i].issue
      BY DEF Drafted
    <3>2. Numbered(row).number = nextNumber[YearOf(row.issue)]
      BY DEF Numbered
    <3>3. invoices'[i] = Numbered(row)
      BY <1>1, Issuing DEF Issued
    <3> HIDE DEF row
    <3> QED BY <3>1, <3>2, <3>3
  <2>3. /\ nextNumber'[year] = nextNumber[year] + 1
        /\ \A y \in Years \ {year} : nextNumber'[y] = nextNumber[y]
        /\ nextNumber[year] \in Nat \ {0}
    BY <1>1, <2>1 DEF ValidateInvoice, Advance, TypeInv, TypeOK
  <2> HIDE DEF year
  <2>4. ASSUME NEW y \in Years
        PROVE  NumbersOf(y)' = 1 .. nextNumber'[y] - 1
    <3>1. CASE y = year
      <4>1. NumbersOf(y)' = NumbersOf(y) \cup {nextNumber[year]}
        BY <2>1, <2>2, <3>1 DEF NumbersOf, year
      <4>2. NumbersOf(y) = 1 .. nextNumber[year] - 1
        BY <3>1 DEF GapFreeNumbers
      <4> QED BY <2>3, <3>1, <4>1, <4>2
    <3>2. CASE y # year
      <4>1. NumbersOf(y)' = NumbersOf(y)
        BY <2>1, <3>2 DEF NumbersOf, year
      <4> QED BY <2>3, <3>2, <4>1 DEF GapFreeNumbers
    <3> QED BY <3>1, <3>2
  <2>5. ASSUME NEW j \in Validated, YearOf(invoices[j].issue) = year
        PROVE  invoices[j].number # nextNumber[year]
    <3>1. invoices[j].number \in NumbersOf(year)
      BY <2>5 DEF NumbersOf
    <3>2. invoices[j].number \in 1 .. nextNumber[year] - 1
      BY <2>1, <3>1 DEF GapFreeNumbers
    <3> QED BY <2>3, <3>2
  <2>6. \A a, b \in Validated' :
          /\ YearOf(invoices'[a].issue) = YearOf(invoices'[b].issue)
          /\ invoices'[a].number = invoices'[b].number
          => a = b
    BY <2>1, <2>2, <2>5 DEF GapFreeNumbers, year
  <2> QED BY <2>4, <2>6 DEF GapFreeNumbers
<1>2. ASSUME Validated' = Validated, \A j \in Validated : invoices'[j] = invoices[j],
             nextNumber' = nextNumber
      PROVE  GapFreeNumbers'
  <2>1. \A y \in Years : NumbersOf(y)' = NumbersOf(y)
    BY <1>2 DEF NumbersOf
  <2> QED BY <1>2, <2>1 DEF GapFreeNumbers
<1> QED BY <1>1, <1>2, ValidatedSteps

\* The numbers of a year have no gap and no repetition, for any number of invoices, years
\* and services, in any order.
THEOREM NumbersAreGapFree == Spec => []GapFreeNumbers
BY NumbersInit, NumbersStep, TypeInvariant, PTL DEF Spec

LEMMA ConfigurationInit == Init => FrozenConfiguration
BY DEF Init, FrozenConfiguration, Validated, NoInvoice

LEMMA ConfigurationStep == TypeInv /\ FrozenConfiguration /\ [Next]_vars => FrozenConfiguration'
<1> SUFFICES ASSUME TypeInv, FrozenConfiguration, [Next]_vars PROVE FrozenConfiguration'
  OBVIOUS
<1>1. ASSUME NEW i \in Invoices, NEW k \in Keys, ValidateInvoice(i, k)
      PROVE  FrozenConfiguration'
  <2>1. company' = company
    BY <1>1 DEF ValidateInvoice
  <2>2. /\ Issued(i).precision = company.precision
        /\ Issued(i).currency = company.currency
    BY DEF Issued, Numbered
  <2>3. /\ Validated' = Validated \cup {i}
        /\ invoices'[i] = Issued(i)
        /\ \A j \in Validated : invoices'[j] = invoices[j]
    BY <1>1, Issuing DEF Validated
  <2> QED BY <2>1, <2>2, <2>3 DEF FrozenConfiguration
<1>2. ASSUME Validated' = Validated, \A j \in Validated : invoices'[j] = invoices[j]
      PROVE  FrozenConfiguration'
  <2>1. company' = company \/ Validated = {}
    BY DEF Next, vars, SaveDraft, DuplicateInvoice, ValidateInvoice, RecordPayment,
           ConfigureCompany, Configurable, SetPeriod, SetArchived, Connect
  <2> QED BY <1>2, <2>1 DEF FrozenConfiguration
<1> QED BY <1>1, <1>2, ValidatedSteps

\* Documents in two currencies or two precisions never coexist among the validated ones.
THEOREM ConfigurationIsFrozen == Spec => []FrozenConfiguration
BY ConfigurationInit, ConfigurationStep, TypeInvariant, PTL DEF Spec

-----------------------------------------------------------------------------
LEMMA FinitePaymentIds == IsFiniteSet(PaymentIds)
BY LedgerAssumption, FS_Interval DEF PaymentIds

\* The column of the amounts of one invoice, which Invoice.paid adds up.
LEMMA AmountsOfType ==
  ASSUME TypeOK, NEW i \in Invoices
  PROVE  AmountsOf(i) \in [PaymentIds -> Nat]
<1>1. \A p \in PaymentIds : payments[p].amount \in PaymentAmounts \cup {0}
  BY DEF TypeOK, PaymentRow
<1>2. PaymentAmounts \cup {0} \subseteq Nat
  BY LedgerAssumption
<1>3. \A p \in PaymentIds : payments[p].amount \in Nat
  BY <1>1, <1>2
<1> QED BY <1>3 DEF AmountsOf

LEMMA PaidType ==
  ASSUME TypeOK, NEW i \in Invoices
  PROVE  Paid(i) \in Nat
BY AmountsOfType, FinitePaymentIds, SumOfColumn DEF Paid

LEMMA TotalType ==
  ASSUME TypeOK, NEW i \in Invoices
  PROVE  Total(i) \in Nat
BY MoneyAssumption DEF TypeOK, InvoiceRow, Amounts, Total

\* An invoice without a payment has paid nothing.
LEMMA NothingPaid ==
  ASSUME NEW i \in Invoices, \A p \in Recorded : payments[p].invoice # i
  PROVE  Paid(i) = 0
<1>1. \A p \in PaymentIds : payments[p].invoice # i
  BY LedgerAssumption DEF Recorded, NoPayment
<1>2. AmountsOf(i) = [p \in PaymentIds |-> 0]
  BY <1>1 DEF AmountsOf
<1> QED BY <1>2, FinitePaymentIds, SumOfColumn DEF Paid

\* A new payment adds its amount to what its invoice has paid, and to no other.
LEMMA PaidGrows ==
  ASSUME TypeOK, NEW i \in Invoices, NEW k \in Keys, NEW p \in PaymentIds,
         NEW amount \in PaymentAmounts, NEW day \in Days,
         RecordPayment(i, k, p, amount, day)
  PROVE  /\ Paid(i)' = Paid(i) + amount
         /\ \A j \in Invoices \ {i} : Paid(j)' = Paid(j)
         /\ Recorded' = Recorded \cup {p}
         /\ payments'[p].invoice = i
         /\ \A r \in Recorded : payments'[r] = payments[r]
<1>1. p \notin Recorded
  BY DEF RecordPayment, PaymentIds
<1>2. payments[p] = NoPayment
  BY <1>1 DEF Recorded
<1>3. payments' = [payments EXCEPT ![p] = [invoice |-> i, amount |-> amount, date |-> day]]
  BY DEF RecordPayment
<1>4. AmountsOf(i)' = [AmountsOf(i) EXCEPT ![p] = amount]
  BY <1>3 DEF AmountsOf, TypeOK
<1>5. AmountsOf(i)[p] = 0
  BY <1>2, LedgerAssumption DEF AmountsOf, NoPayment
<1>6. Paid(i)' = Paid(i) + amount
  <2>1. amount \in Nat
    BY LedgerAssumption
  <2>2. SumFunction(AmountsOf(i)) \in Nat
    BY AmountsOfType, FinitePaymentIds, SumOfColumn
  <2>3. SumFunction([AmountsOf(i) EXCEPT ![p] = amount]) = SumFunction(AmountsOf(i)) - 0 + amount
    BY <1>5, <2>1, AmountsOfType, FinitePaymentIds, SumOfColumn
  <2> QED BY <1>4, <2>1, <2>2, <2>3 DEF Paid
<1>7. ASSUME NEW j \in Invoices \ {i}
      PROVE  Paid(j)' = Paid(j)
  <2>1. AmountsOf(j)' = AmountsOf(j)
    BY <1>2, <1>3, <1>7, LedgerAssumption DEF AmountsOf, TypeOK, NoPayment
  <2> QED BY <2>1 DEF Paid
<1>8. /\ Recorded' = Recorded \cup {p}
      /\ payments'[p].invoice = i
      /\ \A r \in Recorded : payments'[r] = payments[r]
  <2>1. [invoice |-> i, amount |-> amount, date |-> day] # NoPayment
    BY LedgerAssumption DEF NoPayment
  <2> QED BY <1>1, <1>3, <2>1 DEF Recorded, TypeOK
<1> QED BY <1>6, <1>7, <1>8

LEMMA PaymentsInit == Init => NoOverpayment
<1> SUFFICES ASSUME Init PROVE NoOverpayment
  OBVIOUS
<1>1. Recorded = {}
  BY DEF Init, Recorded
<1>2. \A i \in Invoices : Paid(i) = 0
  BY <1>1, NothingPaid
<1>3. \A i \in Invoices : Total(i) = 0
  BY DEF Init, Total, NoInvoice
<1> QED BY <1>1, <1>2, <1>3 DEF NoOverpayment

LEMMA PaymentsStep == TypeInv /\ NoOverpayment /\ [Next]_vars => NoOverpayment'
<1> SUFFICES ASSUME TypeInv, NoOverpayment, [Next]_vars PROVE NoOverpayment'
  OBVIOUS
<1>1. TypeOK /\ TypeOK'
  BY TypeStep DEF TypeInv
<1>2. ASSUME NEW i \in Invoices, NEW k \in Keys, NEW p \in PaymentIds,
             NEW amount \in PaymentAmounts, NEW day \in Days,
             RecordPayment(i, k, p, amount, day)
      PROVE  NoOverpayment'
  <2>1. invoices' = invoices /\ Validated' = Validated /\ i \in Validated
    BY <1>2 DEF RecordPayment, Validated
  <2>2. \A j \in Invoices : Total(j)' = Total(j)
    BY <2>1 DEF Total
  <2>3. amount <= Total(i) - Paid(i)
    BY <1>2 DEF RecordPayment, Payable, Balance
  <2>4. amount \in Nat /\ Total(i) \in Nat /\ Paid(i) \in Nat
    BY <1>1, PaidType, TotalType, LedgerAssumption
  <2>5. Paid(i) + amount <= Total(i)
    BY <2>3, <2>4
  <2> QED BY <1>1, <1>2, <2>1, <2>2, <2>5, PaidGrows DEF NoOverpayment
<1>3. ASSUME UNCHANGED payments, Validated \subseteq Validated',
             \A j \in Validated : invoices'[j] = invoices[j]
      PROVE  NoOverpayment'
  <2>1. \A j \in Invoices : Paid(j)' = Paid(j)
    BY <1>3 DEF Paid, AmountsOf
  <2>2. Recorded' = Recorded
    BY <1>3 DEF Recorded
  <2>3. ASSUME NEW j \in Validated
        PROVE  Paid(j)' <= Total(j)'
    <3>1. Total(j)' = Total(j)
      BY <1>3 DEF Total
    <3> QED BY <2>1, <3>1 DEF NoOverpayment, Validated
  <2>4. ASSUME NEW j \in Invoices \ Validated
        PROVE  Paid(j)' <= Total(j)'
    <3>1. Paid(j) = 0
      BY NothingPaid DEF NoOverpayment
    <3>2. Total(j)' \in Nat
      BY <1>1, MoneyAssumption DEF TypeOK, InvoiceRow, Amounts, Total
    <3> QED BY <2>1, <3>1, <3>2
  <2> QED BY <1>3, <2>2, <2>3, <2>4 DEF NoOverpayment
<1>4. ASSUME NEW i \in Invoices, NEW k \in Keys, ValidateInvoice(i, k)
      PROVE  NoOverpayment'
  BY <1>3, <1>4, Issuing DEF ValidateInvoice, Validated
<1>5. CASE Validated' = Validated /\ \A j \in Validated : invoices'[j] = invoices[j]
  <2>1. \/ UNCHANGED payments
        \/ \E i \in Invoices, k \in Keys, p \in PaymentIds, amount \in PaymentAmounts,
              day \in Days : RecordPayment(i, k, p, amount, day)
    BY DEF Next, vars, SaveDraft, DuplicateInvoice, ValidateInvoice, ConfigureCompany,
           SetPeriod, SetArchived, Connect
  <2> QED BY <1>2, <1>3, <1>5, <2>1
<1> QED BY <1>4, <1>5, ValidatedSteps

\* No sequence of services, in any order, takes more for an invoice than its total.
THEOREM NeverOverpaid == Spec => []NoOverpayment
BY PaymentsInit, PaymentsStep, TypeInvariant, PTL DEF Spec

-----------------------------------------------------------------------------
(***************************************************************************)
(* Keys and their effects correspond.  The sets are counted only at the    *)
(* end: until then, each step adds at most one key and one payment.        *)
(***************************************************************************)
PaidUnder(i, amount, day) ==
  {k \in RememberedAs("payment", i) : remembered[k].amount = amount /\ remembered[k].date = day}
PaidWith(i, amount, day) ==
  {p \in Recorded : payments[p] = [invoice |-> i, amount |-> amount, date |-> day]}

PaymentsWitnessed ==
  \A i \in Invoices, amount \in PaymentAmounts, day \in Days :
    /\ IsFiniteSet(PaidUnder(i, amount, day)) /\ IsFiniteSet(PaidWith(i, amount, day))
    /\ Cardinality(PaidUnder(i, amount, day)) = Cardinality(PaidWith(i, amount, day))
ValidationsWitnessed ==
  \A i \in Invoices :
    IF i \in Validated THEN \E k : RememberedAs("validate", i) = {k}
                       ELSE RememberedAs("validate", i) = {}
\* A copy is made from an invoice that exists, where there was none.
DuplicatesWitnessed ==
  \A i \in Invoices :
    /\ \A k \in RememberedAs("duplicate", i) : remembered[k].on # i
    /\ IF invoices[i].status = "absent" THEN RememberedAs("duplicate", i) = {}
       ELSE \E k : RememberedAs("duplicate", i) \subseteq {k}

Witnessed == PaymentsWitnessed /\ ValidationsWitnessed /\ DuplicatesWitnessed

KeyedActions == {"duplicate", "validate", "payment"}

\* A fresh key is remembered for one effect, and the other keys as before.
LEMMA RememberedGrows ==
  ASSUME TypeOK, NEW k \in Keys, NEW action \in KeyedActions, NEW on, NEW amount, NEW day, NEW result,
         Fresh(k), Remember(k, action, on, amount, day, result)
  PROVE  /\ \A h \in Keys \ {k} : remembered'[h] = remembered[h]
         /\ remembered'[k] = [action |-> action, on |-> on, amount |-> amount, date |-> day,
                              invoice |-> result]
         /\ \A act \in KeyedActions : \A j :
              /\ k \notin RememberedAs(act, j)
              /\ (RememberedAs(act, j))' = IF act = action /\ j = result
                                             THEN RememberedAs(act, j) \cup {k}
                                             ELSE RememberedAs(act, j)
<1>1. /\ \A h \in Keys \ {k} : remembered'[h] = remembered[h]
      /\ remembered'[k] = [action |-> action, on |-> on, amount |-> amount, date |-> day,
                           invoice |-> result]
  BY DEF TypeOK, Remember
<1>2. remembered[k].action \notin KeyedActions
  BY DEF Fresh, NoMemory, KeyedActions
<1> QED BY <1>1, <1>2 DEF RememberedAs

\* Before the first request no key remembers anything and nothing has been made.
LEMMA WitnessInit == Init => Witnessed
<1> SUFFICES ASSUME Init PROVE Witnessed
  OBVIOUS
<1>1. \A act \in KeyedActions : \A i : RememberedAs(act, i) = {}
  BY DEF Init, RememberedAs, NoMemory, KeyedActions
<1>2. Recorded = {} /\ Validated = {} /\ \A i \in Invoices : invoices[i].status = "absent"
  BY DEF Init, Recorded, Validated, NoInvoice
<1>3. PaymentsWitnessed
  <2>1. ASSUME NEW i, NEW amount, NEW day
        PROVE  PaidUnder(i, amount, day) = {} /\ PaidWith(i, amount, day) = {}
    BY <1>1, <1>2 DEF PaidUnder, PaidWith, KeyedActions
  <2> QED BY <2>1, FS_EmptySet DEF PaymentsWitnessed
<1> QED BY <1>1, <1>2, <1>3 DEF Witnessed, ValidationsWitnessed, DuplicatesWitnessed, KeyedActions

\* Each service adds its key and its effect together, or neither.
LEMMA WitnessStep == TypeInv /\ Witnessed /\ [Next]_vars => Witnessed'
<1> SUFFICES ASSUME TypeInv, Witnessed, [Next]_vars PROVE Witnessed'
  OBVIOUS
<1>1. TypeOK
  BY DEF TypeInv
<1>2. ASSUME NEW i \in Invoices, NEW k \in Keys, NEW p \in PaymentIds,
             NEW amount \in PaymentAmounts, NEW day \in Days,
             RecordPayment(i, k, p, amount, day)
      PROVE  Witnessed'
  <2>1. /\ invoices' = invoices /\ Fresh(k) /\ Remember(k, "payment", i, amount, day, i)
        /\ payments' = [payments EXCEPT ![p] = [invoice |-> i, amount |-> amount, date |-> day]]
    BY <1>2 DEF RecordPayment
  <2>2. /\ \A h \in Keys \ {k} : remembered'[h] = remembered[h]
        /\ remembered'[k] = [action |-> "payment", on |-> i, amount |-> amount, date |-> day,
                             invoice |-> i]
        /\ \A act \in KeyedActions : \A j :
             /\ k \notin RememberedAs(act, j)
             /\ (RememberedAs(act, j))' = IF act = "payment" /\ j = i
                                            THEN RememberedAs(act, j) \cup {k}
                                            ELSE RememberedAs(act, j)
    BY <1>1, <2>1, RememberedGrows DEF KeyedActions
  <2>3. p \notin Recorded /\ Recorded' = Recorded \cup {p}
        /\ \A r \in Recorded : payments'[r] = payments[r]
    <3>1. p \notin Recorded
      BY <1>2 DEF RecordPayment, PaymentIds
    <3> QED BY <1>1, <1>2, <3>1, PaidGrows
  <2>4. payments'[p] = [invoice |-> i, amount |-> amount, date |-> day]
    BY <1>1, <2>1 DEF TypeOK
  <2>5. PaymentsWitnessed'
    <3>1. ASSUME NEW j \in Invoices, NEW a \in PaymentAmounts, NEW d \in Days
          PROVE  /\ IsFiniteSet((PaidUnder(j, a, d))') /\ IsFiniteSet((PaidWith(j, a, d))')
                 /\ Cardinality((PaidUnder(j, a, d))') = Cardinality((PaidWith(j, a, d))')
      <4>1. /\ IsFiniteSet(PaidUnder(j, a, d)) /\ IsFiniteSet(PaidWith(j, a, d))
            /\ Cardinality(PaidUnder(j, a, d)) = Cardinality(PaidWith(j, a, d))
            /\ k \notin PaidUnder(j, a, d) /\ p \notin PaidWith(j, a, d)
        BY <2>2, <2>3 DEF Witnessed, PaymentsWitnessed, PaidUnder, PaidWith, KeyedActions
      <4>2. CASE j = i /\ a = amount /\ d = day
        <5>1. (PaidUnder(j, a, d))' = PaidUnder(j, a, d) \cup {k}
          BY <2>2, <4>2 DEF PaidUnder, KeyedActions, RememberedAs
        <5>2. (PaidWith(j, a, d))' = PaidWith(j, a, d) \cup {p}
          BY <2>3, <2>4, <4>2 DEF PaidWith
        <5>3. IsFiniteSet((PaidUnder(j, a, d))')
              /\ Cardinality((PaidUnder(j, a, d))') = Cardinality(PaidUnder(j, a, d)) + 1
          BY <4>1, <5>1, FS_AddElement
        <5>4. IsFiniteSet((PaidWith(j, a, d))')
              /\ Cardinality((PaidWith(j, a, d))') = Cardinality(PaidWith(j, a, d)) + 1
          BY <4>1, <5>2, FS_AddElement
        <5> QED BY <4>1, <5>3, <5>4
      <4>3. CASE ~(j = i /\ a = amount /\ d = day)
        <5>1. (PaidUnder(j, a, d))' = PaidUnder(j, a, d)
          BY <2>2, <4>3 DEF PaidUnder, KeyedActions, RememberedAs
        <5>2. (PaidWith(j, a, d))' = PaidWith(j, a, d)
          BY <2>3, <2>4, <4>3 DEF PaidWith
        <5> QED BY <4>1, <5>1, <5>2
      <4> QED BY <4>2, <4>3
    <3> QED BY <3>1 DEF PaymentsWitnessed
  <2>6. ValidationsWitnessed'
    BY <2>1, <2>2 DEF Witnessed, ValidationsWitnessed, Validated, KeyedActions
  <2>7. DuplicatesWitnessed'
    BY <2>1, <2>2 DEF Witnessed, DuplicatesWitnessed, KeyedActions, RememberedAs
  <2> QED BY <2>5, <2>6, <2>7 DEF Witnessed
<1>3. ASSUME UNCHANGED payments,
             \A j \in Invoices : (RememberedAs("payment", j))' = RememberedAs("payment", j),
             \A h \in Keys : remembered[h].action = "payment" => remembered'[h] = remembered[h]
      PROVE  PaymentsWitnessed'
  <2>1. \A j \in Invoices : \A a, d : (PaidUnder(j, a, d))' = PaidUnder(j, a, d)
    BY <1>3 DEF PaidUnder, RememberedAs
  <2>2. \A j, a, d : (PaidWith(j, a, d))' = PaidWith(j, a, d)
    BY <1>3 DEF PaidWith, Recorded
  <2> QED BY <2>1, <2>2 DEF Witnessed, PaymentsWitnessed
<1>4. ASSUME NEW i \in Invoices, NEW k \in Keys, ValidateInvoice(i, k)
      PROVE  Witnessed'
  <2>1. /\ Fresh(k) /\ Remember(k, "validate", i, 0, 0, i) /\ payments' = payments
        /\ invoices[i].status = "draft"
    BY <1>4 DEF ValidateInvoice
  <2>2. /\ \A h \in Keys \ {k} : remembered'[h] = remembered[h]
        /\ \A act \in KeyedActions : \A j :
             /\ k \notin RememberedAs(act, j)
             /\ (RememberedAs(act, j))' = IF act = "validate" /\ j = i
                                            THEN RememberedAs(act, j) \cup {k}
                                            ELSE RememberedAs(act, j)
    BY <1>1, <2>1, RememberedGrows DEF KeyedActions
  <2>3. /\ i \notin Validated
        /\ Validated' = Validated \cup {i}
        /\ \A j \in Invoices \ {i} : invoices'[j] = invoices[j]
        /\ invoices'[i].status = "validated"
    <3>1. Issued(i).status = "validated"
      BY DEF Issued, Numbered
    <3> QED BY <1>1, <1>4, <3>1, Issuing
  <2>4. PaymentsWitnessed'
    <3>1. remembered[k].action # "payment"
      BY <2>1 DEF Fresh, NoMemory
    <3> QED BY <1>3, <2>1, <2>2, <3>1 DEF KeyedActions
  <2>5. ValidationsWitnessed'
    BY <2>2, <2>3 DEF Witnessed, ValidationsWitnessed, KeyedActions
  <2>6. DuplicatesWitnessed'
    <3>1. ASSUME NEW j \in Invoices
          PROVE  /\ (RememberedAs("duplicate", j))' = RememberedAs("duplicate", j)
                 /\ \A h \in RememberedAs("duplicate", j) : remembered'[h].on = remembered[h].on
                 /\ invoices'[j].status = "absent" => invoices[j].status = "absent"
      <4>1. \A h \in RememberedAs("duplicate", j) : h \in Keys \ {k}
        BY <2>2 DEF RememberedAs, KeyedActions
      <4>2. (RememberedAs("duplicate", j))' = RememberedAs("duplicate", j)
        BY <2>2 DEF KeyedActions
      <4>3. \A h \in RememberedAs("duplicate", j) : remembered'[h].on = remembered[h].on
        BY <2>2, <4>1
      <4>4. CASE j = i
        <5>1. invoices'[i].status = "validated"
          BY <2>3
        <5>2. invoices'[j].status # "absent"
          BY <4>4, <5>1
        <5> QED BY <4>2, <4>3, <5>2
      <4>5. CASE j # i
        <5>1. invoices'[j] = invoices[j]
          BY <2>3, <4>5
        <5> QED BY <4>2, <4>3, <5>1
      <4> QED BY <4>4, <4>5
    <3> QED BY <3>1 DEF Witnessed, DuplicatesWitnessed
  <2> QED BY <2>4, <2>5, <2>6 DEF Witnessed
<1>5. ASSUME NEW i \in Invoices, NEW copy \in Invoices, NEW k \in Keys, NEW day \in Days,
             DuplicateInvoice(i, copy, k, day)
      PROVE  Witnessed'
  <2>1. /\ Fresh(k) /\ Remember(k, "duplicate", i, 0, day, copy) /\ payments' = payments
        /\ invoices[i].status # "absent" /\ invoices[copy].status = "absent"
    BY <1>5 DEF DuplicateInvoice
  <2>2. /\ \A h \in Keys \ {k} : remembered'[h] = remembered[h]
        /\ remembered'[k] = [action |-> "duplicate", on |-> i, amount |-> 0, date |-> day,
                             invoice |-> copy]
        /\ \A act \in KeyedActions : \A j :
             /\ k \notin RememberedAs(act, j)
             /\ (RememberedAs(act, j))' = IF act = "duplicate" /\ j = copy
                                            THEN RememberedAs(act, j) \cup {k}
                                            ELSE RememberedAs(act, j)
    BY <1>1, <2>1, RememberedGrows DEF KeyedActions
  <2>3. /\ Validated' = Validated
        /\ \A j \in Invoices \ {copy} : invoices'[j] = invoices[j]
        /\ invoices'[copy].status = "draft"
    <3>1. copy \notin Validated
      BY <2>1 DEF Validated
    <3>2. invoices' = [invoices EXCEPT ![copy] = Drafted(invoices[i].refs, invoices[i].lines, day)]
      BY <1>5 DEF DuplicateInvoice
    <3> QED BY <1>1, <3>1, <3>2, WritingDrafts DEF TypeOK, Drafted
  <2>4. PaymentsWitnessed'
    <3>1. remembered[k].action # "payment"
      BY <2>1 DEF Fresh, NoMemory
    <3> QED BY <1>3, <2>1, <2>2, <3>1 DEF KeyedActions
  <2>5. ValidationsWitnessed'
    BY <2>2, <2>3 DEF Witnessed, ValidationsWitnessed, KeyedActions
  <2>6. DuplicatesWitnessed'
    BY <2>1, <2>2, <2>3 DEF Witnessed, DuplicatesWitnessed, KeyedActions, RememberedAs
  <2> QED BY <2>4, <2>5, <2>6 DEF Witnessed
<1>6. ASSUME UNCHANGED <<payments, remembered>>, Validated' = Validated,
             \A j \in Invoices : invoices[j].status # "absent" => invoices'[j].status # "absent"
      PROVE  Witnessed'
  <2>1. \A act, j : (RememberedAs(act, j))' = RememberedAs(act, j)
    BY <1>6 DEF RememberedAs
  <2>2. PaymentsWitnessed'
    BY <1>3, <1>6, <2>1
  <2> QED BY <1>6, <2>1, <2>2 DEF Witnessed, ValidationsWitnessed, DuplicatesWitnessed
<1>7. ASSUME NEW i \in Invoices, NEW refs \in SUBSET References, NEW lines \in LineLists,
             NEW day \in Days, SaveDraft(i, refs, lines, day)
      PROVE  Witnessed'
  <2>1. /\ i \notin Validated /\ invoices' = [invoices EXCEPT ![i] = Drafted(refs, lines, day)]
        /\ UNCHANGED <<payments, remembered>>
    BY <1>7 DEF SaveDraft, Draftable, Validated
  <2>2. invoices'[i].status = "draft"
    BY <1>1, <2>1 DEF TypeOK, Drafted
  <2> QED BY <1>6, <2>1, <2>2, WritingDrafts
<1> QED
  BY <1>2, <1>4, <1>5, <1>6, <1>7
     DEF Next, vars, ConfigureCompany, SetPeriod, SetArchived, Connect, Validated

\* Every payment, validation and copy was made for one key, which remembers it, and no key
\* has made two (_retry and _remember, in the transaction of the service).
THEOREM KeysAreWitnesses == Spec => []KeysWitnessEffects
<1>1. Witnessed => KeysWitnessEffects
  <2> SUFFICES ASSUME Witnessed PROVE KeysWitnessEffects
    OBVIOUS
  <2>1. \A x : IsFiniteSet({x}) /\ Cardinality({x}) = 1
    <3>1. \A x : {} \cup {x} = {x}
      OBVIOUS
    <3> QED BY <3>1, FS_EmptySet, FS_AddElement
  <2>2. \A x, S : S \subseteq {x} => Cardinality(S) \in {0, 1}
    <3>1. \A x, S : S \subseteq {x} => S = {} \/ S = {x}
      OBVIOUS
    <3> QED BY <2>1, <3>1, FS_EmptySet
  <2>3. \A i \in Invoices :
          Cardinality(RememberedAs("validate", i)) = IF i \in Validated THEN 1 ELSE 0
    BY <2>1, FS_EmptySet DEF Witnessed, ValidationsWitnessed
  <2>4. ASSUME NEW i \in Invoices PROVE Cardinality(RememberedAs("duplicate", i)) <= 1
    <3>1. \E k : RememberedAs("duplicate", i) \subseteq {k}
      BY DEF Witnessed, DuplicatesWitnessed
    <3>2. Cardinality(RememberedAs("duplicate", i)) \in {0, 1}
      BY <2>2, <3>1
    <3> QED BY <3>2
  <2> QED BY <2>3, <2>4 DEF Witnessed, PaymentsWitnessed, DuplicatesWitnessed, KeysWitnessEffects,
                            PaidUnder, PaidWith
<1> QED BY <1>1, WitnessInit, WitnessStep, TypeInvariant, PTL DEF Spec

-----------------------------------------------------------------------------
(***************************************************************************)
(* What is published stays, and the promise to the receivers is kept.      *)
(***************************************************************************)

\* A validated invoice, a payment, an entry and a used key are there for ever.
THEOREM HistoryGrows == Spec => HistoryOnlyGrows
<1> DEFINE Grows ==
      /\ \A i \in Validated : invoices'[i] = invoices[i]
      /\ \A p \in Recorded : payments'[p] = payments[p]
      /\ entries \subseteq entries'
      /\ \A k \in Keys : Fresh(k) \/ remembered'[k] = remembered[k]
<1>1. ASSUME TypeInv, [Next]_vars
      PROVE  [Grows]_vars
  <2>1. \A i \in Validated : invoices'[i] = invoices[i]
    <3>1. CASE \E i \in Invoices, k \in Keys : ValidateInvoice(i, k)
      BY <1>1, <3>1, Issuing DEF Validated
    <3> QED BY <1>1, <3>1, ValidatedSteps
  <2>2. \A p \in Recorded : payments'[p] = payments[p]
    <3>1. ASSUME NEW i \in Invoices, NEW k \in Keys, NEW p \in PaymentIds,
                 NEW amount \in PaymentAmounts, NEW day \in Days,
                 RecordPayment(i, k, p, amount, day)
          PROVE  \A r \in Recorded : payments'[r] = payments[r]
      BY <1>1, <3>1, PaidGrows DEF TypeInv
    <3>2. CASE UNCHANGED payments
      BY <3>2
    <3> QED
      BY <1>1, <3>1, <3>2 DEF Next, vars, SaveDraft, DuplicateInvoice, ValidateInvoice,
         ConfigureCompany, SetPeriod, SetArchived, Connect
  <2>3. entries \subseteq entries'
    BY <1>1 DEF Next, vars, SaveDraft, DuplicateInvoice, ValidateInvoice, RecordPayment, Post,
       ConfigureCompany, SetPeriod, SetArchived, Connect
  <2>4. \A k \in Keys : Fresh(k) \/ remembered'[k] = remembered[k]
    <3>1. ASSUME NEW k \in Keys, NEW action, NEW on, NEW amount, NEW day, NEW result,
                 Fresh(k), Remember(k, action, on, amount, day, result)
          PROVE  \A l \in Keys : Fresh(l) \/ remembered'[l] = remembered[l]
      BY <1>1, <3>1 DEF Remember, TypeInv, TypeOK
    <3>2. CASE UNCHANGED remembered
      BY <3>2
    <3> QED
      BY <1>1, <3>1, <3>2 DEF Next, vars, SaveDraft, DuplicateInvoice, ValidateInvoice,
         RecordPayment, ConfigureCompany, SetPeriod, SetArchived, Connect
  <2> QED BY <2>1, <2>2, <2>3, <2>4
<1> QED BY <1>1, TypeInvariant, PTL DEF Spec, HistoryOnlyGrows

\* What a receiver sees of an invoice that a step does not issue or pay stays the same.
Seen == [i \in Invoices |-> IF i \in Validated THEN Bill(i) ELSE Unissued]

LEMMA SeenInit == Init => Promise!Init
<1> SUFFICES ASSUME Init PROVE Promise!Init
  OBVIOUS
<1>1. Validated = {}
  BY DEF Init, Validated, NoInvoice
<1>2. nextNumber = [year \in Years |-> 1]
  BY DEF Init
<1> QED BY <1>1, <1>2 DEF Promise!Init, Promise!Unissued, Unissued

LEMMA IssueStep ==
  ASSUME TypeInv, NoOverpayment, NEW i \in Invoices, NEW k \in Keys, ValidateInvoice(i, k),
         NEW year \in Years, year = YearOf(invoices[i].issue)
  PROVE  Promise!Issue(i, year)
<1>1. Seen[i] = Unissued
  BY Issuing DEF Seen
<1>2. Paid(i) = 0
  BY Issuing, NothingPaid DEF NoOverpayment
<1>3. \A j \in Invoices : Paid(j)' = Paid(j)
  BY DEF ValidateInvoice, Paid, AmountsOf
<1>4. i \in Validated'
  BY Issuing
<1>5. invoices'[i].number = nextNumber[YearOf(invoices[i].issue)]
  <2> DEFINE row == Drafted(invoices[i].refs, invoices[i].lines, invoices[i].issue)
  <2>1. row.issue = invoices[i].issue
    BY DEF Drafted
  <2>2. Numbered(row).number = nextNumber[YearOf(row.issue)]
    BY DEF Numbered
  <2>3. invoices'[i] = Numbered(row)
    BY Issuing DEF Issued
  <2> HIDE DEF row
  <2> QED BY <2>1, <2>2, <2>3
<1>6. invoices'[i].issue = invoices[i].issue
  BY Issuing
<1>7. Total(i)' > 0
  BY Issuing DEF ValidateInvoice, Total
<1>8. Seen'[i] = [number |-> nextNumber[year], year |-> year, total |-> Total(i)', paid |-> 0]
  <2>1. YearOf(invoices[i].issue)' = YearOf(invoices[i].issue)
    BY <1>6 DEF YearOf
  <2> QED BY <1>2, <1>3, <1>4, <1>5, <2>1 DEF Seen, Bill
<1>9. \A j \in Invoices \ {i} : Seen'[j] = Seen[j]
  <2>1. ASSUME NEW j \in Invoices \ {i}
        PROVE  Seen'[j] = Seen[j]
    <3>1. invoices'[j] = invoices[j]
      BY Issuing
    <3>2. Bill(j)' = Bill(j)
      BY <1>3, <3>1 DEF Bill, Total, YearOf
    <3>3. (j \in Validated') <=> (j \in Validated)
      BY Issuing
    <3> QED BY <3>2, <3>3 DEF Seen
  <2> QED BY <2>1
<1>10. nextNumber' = [nextNumber EXCEPT ![year] = @ + 1]
  BY DEF ValidateInvoice, Advance
<1> QED BY <1>1, <1>7, <1>8, <1>9, <1>10
        DEF Promise!Issue, Promise!Unissued, Promise!Same, Unissued, Seen

LEMMA PayStep ==
  ASSUME TypeInv, TypeInv', GapFreeNumbers, NoOverpayment', NEW i \in Invoices, NEW k \in Keys,
         NEW p \in PaymentIds, NEW amount \in PaymentAmounts, NEW day \in Days,
         RecordPayment(i, k, p, amount, day)
  PROVE  Promise!Pay(i)
<1>1. /\ invoices' = invoices /\ nextNumber' = nextNumber
      /\ i \in Validated /\ Validated' = Validated
  BY DEF RecordPayment, Validated
<1>2. /\ Paid(i)' = Paid(i) + amount
      /\ \A j \in Invoices \ {i} : Paid(j)' = Paid(j)
  BY PaidGrows DEF TypeInv
<1>3. Paid(i) \in Nat /\ amount \in Nat \ {0}
  BY PaidType, LedgerAssumption DEF TypeInv
<1>4. \A j \in Invoices : Total(j)' = Total(j) /\ YearOf(invoices[j].issue)' = YearOf(invoices[j].issue)
  BY <1>1 DEF Total, YearOf
<1>5. Paid(i)' <= Total(i)
  BY <1>4 DEF NoOverpayment
<1>6. invoices[i].number > 0
  <2>1. YearOf(invoices[i].issue) \in Years
    BY <1>1, YearOfDay DEF TypeInv, DraftsAreDocuments, Validated
  <2>2. invoices[i].number \in NumbersOf(YearOf(invoices[i].issue))
    BY <1>1 DEF NumbersOf
  <2>3. invoices[i].number \in 1 .. nextNumber[YearOf(invoices[i].issue)] - 1
    BY <2>1, <2>2 DEF GapFreeNumbers
  <2> QED BY <2>3
<1>7. Seen[i] = [number |-> invoices[i].number, year |-> YearOf(invoices[i].issue),
                 total |-> Total(i), paid |-> Paid(i)]
  BY <1>1 DEF Seen, Bill
<1>8. Seen'[i] = [number |-> invoices[i].number, year |-> YearOf(invoices[i].issue),
                  total |-> Total(i), paid |-> Paid(i)']
  BY <1>1, <1>4 DEF Seen, Bill
<1>9. ASSUME NEW j \in Invoices \ {i}
      PROVE  Seen'[j] = Seen[j]
  <2>1. Bill(j)' = Bill(j)
    BY <1>1, <1>2, <1>4 DEF Bill
  <2> QED BY <1>1, <2>1 DEF Seen
<1>10. Seen'[i] = [Seen[i] EXCEPT !.paid = Seen'[i].paid]
  BY <1>7, <1>8
<1>11. Seen[i].number > 0 /\ Seen[i].paid < Seen'[i].paid /\ Seen'[i].paid <= Seen[i].total
  BY <1>2, <1>3, <1>5, <1>6, <1>7, <1>8
<1> QED BY <1>1, <1>9, <1>10, <1>11 DEF Promise!Pay, Promise!Same, Seen

\* A service that neither issues nor takes a payment shows nothing to a receiver.
LEMMA HiddenStep ==
  ASSUME UNCHANGED <<payments, nextNumber>>, Validated' = Validated,
         \A j \in Validated : invoices'[j] = invoices[j]
  PROVE  UNCHANGED <<Seen, nextNumber>>
<1>1. \A j \in Invoices : Paid(j)' = Paid(j)
  BY DEF Paid, AmountsOf
<1>2. ASSUME NEW j \in Validated
      PROVE  Bill(j)' = Bill(j)
  BY <1>1, <1>2 DEF Bill, Total, YearOf, Validated
<1>3. Seen' = Seen
  BY <1>2 DEF Seen
<1> QED BY <1>3

\* The services implement the promise: each issues one invoice with the next number of its
\* year, takes one payment within the total, or changes nothing a receiver sees.
THEOREM LedgerKeepsPromise == Spec => KeepsPromise
<1>1. ASSUME TypeInv, TypeInv', GapFreeNumbers, NoOverpayment, NoOverpayment', [Next]_vars
      PROVE  [Promise!Next]_(Promise!vars)
  <2>1. ASSUME NEW i \in Invoices, NEW k \in Keys, ValidateInvoice(i, k)
        PROVE  Promise!Next
    <3>1. YearOf(invoices[i].issue) \in Years
      BY <1>1, <2>1, Issuing, YearOfDay
    <3>2. PICK year \in Years : year = YearOf(invoices[i].issue)
      BY <3>1
    <3>3. Promise!Issue(i, year)
      BY <1>1, <2>1, <3>2, IssueStep
    <3> QED BY <3>3 DEF Promise!Next
  <2>2. ASSUME NEW i \in Invoices, NEW k \in Keys, NEW p \in PaymentIds,
               NEW amount \in PaymentAmounts, NEW day \in Days,
               RecordPayment(i, k, p, amount, day)
        PROVE  Promise!Next
    BY <1>1, <2>2, PayStep DEF Promise!Next
  <2>3. CASE /\ UNCHANGED <<payments, nextNumber>>
             /\ Validated' = Validated
             /\ \A j \in Validated : invoices'[j] = invoices[j]
    BY <2>3, HiddenStep DEF Promise!vars, Seen
  <2>4. \/ UNCHANGED payments
        \/ \E i \in Invoices, k \in Keys, p \in PaymentIds, amount \in PaymentAmounts,
              day \in Days : RecordPayment(i, k, p, amount, day)
    BY <1>1 DEF Next, vars, SaveDraft, DuplicateInvoice, ValidateInvoice, ConfigureCompany,
           SetPeriod, SetArchived, Connect
  <2> QED BY <1>1, <2>1, <2>2, <2>3, <2>4, ValidatedSteps
<1> QED
  BY <1>1, SeenInit, TypeInvariant, NumbersAreGapFree, NeverOverpaid, PTL
     DEF Spec, KeepsPromise, Promise!Spec

-----------------------------------------------------------------------------
(***************************************************************************)
(* Amounts: what a validated invoice carries is what its lines give, and   *)
(* everything in the books can be written at its precision.                *)
(***************************************************************************)

\* The powers of ten up to n are those of the recursive definition.
PowersUpTo(n, f) == f = [m \in 0 .. n |-> IF m = 0 THEN 1 ELSE 10 * f[m - 1]]

LEMMA PowersExist ==
  ASSUME NEW n \in Nat
  PROVE  \E f : PowersUpTo(n, f)
<1> DEFINE Fails == {m \in 0 .. n : ~ \E f : PowersUpTo(m, f)}
<1> SUFFICES ASSUME Fails # {} PROVE FALSE
  OBVIOUS
<1>1. PICK m \in Fails : \A k \in Fails : m <= k
  <2>1. Fails \in SUBSET (0 .. n)
    OBVIOUS
  <2> HIDE DEF Fails
  <2> QED BY <2>1, LeastNumber
<1>2. CASE m = 0
  <2> DEFINE one == [k \in 0 .. 0 |-> 1]
  <2>1. PowersUpTo(0, one)
    BY DEF PowersUpTo
  <2> QED BY <1>1, <1>2, <2>1
<1>3. CASE m # 0
  <2>1. m - 1 \in 0 .. n /\ m - 1 \notin Fails
    BY <1>1, <1>3
  <2>2. PICK f : PowersUpTo(m - 1, f)
    BY <2>1
  <2> DEFINE g == [k \in 0 .. m |-> IF k = m THEN 10 * f[m - 1] ELSE f[k]]
             Value(h, k) == IF k = 0 THEN 1 ELSE 10 * h[k - 1]
  <2>3. f = [k \in 0 .. (m - 1) |-> Value(f, k)]
    BY <2>2 DEF PowersUpTo
  <2>4. \A k \in 0 .. (m - 1) : f[k] = Value(f, k)
    <3> HIDE DEF Value
    <3> QED BY <2>3
  <2>5. \A k \in 0 .. m : g[k] = Value(g, k)
    <3>1. ASSUME NEW k \in 0 .. m, k # m PROVE g[k] = Value(g, k)
      <4>1. k \in 0 .. (m - 1) /\ (k # 0 => k - 1 \in 0 .. m /\ k - 1 # m)
        BY <3>1
      <4>2. g[k] = f[k] /\ (k # 0 => g[k - 1] = f[k - 1])
        BY <3>1, <4>1
      <4> QED BY <2>4, <4>1, <4>2
    <3>2. g[m] = Value(g, m)
      <4>1. m \in 0 .. m /\ m - 1 \in 0 .. m /\ m - 1 # m
        BY <1>3
      <4>2. g[m] = 10 * f[m - 1] /\ g[m - 1] = f[m - 1]
        BY <4>1
      <4> HIDE DEF g
      <4> QED BY <1>3, <4>2
    <3> QED BY <3>1, <3>2
  <2>6. g = [k \in 0 .. m |-> Value(g, k)]
    <3>1. g = [k \in 0 .. m |-> g[k]]
      OBVIOUS
    <3> HIDE DEF g, Value
    <3> QED BY <2>5, <3>1
  <2>7. PowersUpTo(m, g)
    BY <2>6 DEF PowersUpTo
  <2> HIDE DEF g
  <2> QED BY <1>1, <2>7
<1> QED BY <1>2, <1>3

\* A quantum is a positive number of ticks.
LEMMA QuantumType ==
  ASSUME NEW p \in Precisions
  PROVE  Quantum(p) \in Nat \ {0}
<1> DEFINE Value(k) == IF k = 0 THEN 1 ELSE 10 * TenTo[k - 1]
<1>1. MaxPrecision \in Nat /\ Precisions = 0 .. MaxPrecision
  BY MoneyAssumption DEF Precisions
<1>2. PowersUpTo(MaxPrecision, TenTo)
  <2>1. \E f : PowersUpTo(MaxPrecision, f)
    BY <1>1, PowersExist
  <2>2. TenTo = CHOOSE f : PowersUpTo(MaxPrecision, f)
    BY DEF TenTo, PowersUpTo, Precisions
  <2> QED BY <2>1, <2>2
<1>3. \A k \in 0 .. MaxPrecision : TenTo[k] = Value(k)
  <2>1. TenTo = [k \in 0 .. MaxPrecision |-> Value(k)]
    BY <1>2 DEF PowersUpTo
  <2> HIDE DEF Value
  <2> QED BY <2>1
<1> DEFINE Fails == {k \in 0 .. MaxPrecision : TenTo[k] \notin Nat \ {0}}
<1>4. ASSUME Fails # {} PROVE FALSE
  <2>1. PICK k \in Fails : \A j \in Fails : k <= j
    <3>1. Fails \in SUBSET (0 .. MaxPrecision)
      OBVIOUS
    <3> HIDE DEF Fails
    <3> QED BY <1>1, <1>4, <3>1, LeastNumber
  <2>2. k # 0
    BY <1>3
  <2>3. k - 1 \in 0 .. MaxPrecision /\ k - 1 \notin Fails
    BY <1>1, <2>1, <2>2
  <2>4. TenTo[k - 1] \in Nat \ {0}
    BY <2>3
  <2>5. TenTo[k] = 10 * TenTo[k - 1]
    BY <1>3, <2>2
  <2> QED BY <2>4, <2>5
<1>5. MaxPrecision - p \in 0 .. MaxPrecision
  BY <1>1
<1> QED BY <1>4, <1>5 DEF Quantum

\* Rounding gives a multiple of the quantum.
LEMMA Rounded ==
  ASSUME NEW num \in Int, NEW den \in Nat \ {0}, NEW q \in Nat \ {0}
  PROVE  RoundHalfUp(num, den, q) \in Int /\ RoundHalfUp(num, den, q) % q = 0
<1>1. 2 * den * q \in Nat \ {0} /\ 2 * num + den * q \in Int
  BY Z3
<1>2. (2 * num + den * q) \div (2 * den * q) \in Int
  BY <1>1, Z3
<1> DEFINE k == (2 * num + den * q) \div (2 * den * q)
<1>3. k \in Int /\ RoundHalfUp(num, den, q) = q * k
  BY <1>2 DEF RoundHalfUp
<1> HIDE DEF k
<1>4. q * k \in Int /\ (q * k) % q = 0
  BY <1>3, ProductIsMultiple
<1> QED BY <1>3, <1>4

\* A multiple of the quantum within half a quantum of the quotient, above it for a tie.
NearestUp(r, num, den, q) ==
  /\ r \in Int /\ r % q = 0
  /\ 2 * (r * den - num) <= den * q
  /\ 2 * (num - r * den) < den * q

\* RoundHalfUp is ROUND_HALF_UP: of the multiples of the quantum it is the only one within
\* half a quantum of the exact quotient, a tie going up (the two calls of quantize in
\* _calculate).
THEOREM RoundingIsNearest ==
  ASSUME NEW num \in Int, NEW den \in Nat \ {0}, NEW q \in Nat \ {0}
  PROVE  \A r : NearestUp(r, num, den, q) <=> r = RoundHalfUp(num, den, q)
<1> DEFINE d == 2 * (den * q)
           n == 2 * num + den * q
           k == n \div d
           exact == RoundHalfUp(num, den, q)
<1>1. den * q \in Nat \ {0}
  BY Z3
<1>2. d \in Nat \ {0} /\ n \in Int
  BY <1>1
<1>3. exact = q * k
  <2>1. 2 * den * q = 2 * (den * q)
    BY Z3
  <2> QED BY <2>1 DEF RoundHalfUp
<1>4. k \in Int /\ d * k <= n /\ n < d * k + d
  <2> HIDE DEF d, n
  <2> QED BY <1>2, Z3
<1> HIDE DEF k, exact
<1>5. d * k = 2 * (exact * den)
  <2>1. (2 * (den * q)) * k = 2 * ((q * k) * den)
    BY <1>4, Z3
  <2> QED BY <1>3, <2>1
<1>6. exact \in Int /\ exact * den \in Int
  <2>1. q * k \in Int
    BY <1>4
  <2> QED BY <1>3, <2>1
<1>7. NearestUp(exact, num, den, q)
  <2>1. exact % q = 0
    BY <1>3, <1>4, ProductIsMultiple
  <2>2. 2 * (exact * den) <= 2 * num + den * q /\ 2 * num + den * q < 2 * (exact * den) + 2 * (den * q)
    BY <1>4, <1>5
  <2> HIDE DEF d, n
  <2>3. 2 * (exact * den - num) <= den * q /\ 2 * (num - exact * den) < den * q
    BY <1>1, <1>6, <2>2
  <2> QED BY <1>6, <2>1, <2>3 DEF NearestUp
<1>8. ASSUME NEW r, NearestUp(r, num, den, q) PROVE r = exact
  <2>1. PICK m \in Int : r = q * m
    BY <1>8, MultipleIsProduct DEF NearestUp
  <2>2. r * den \in Int /\ m * (den * q) = r * den /\ k * (den * q) = exact * den
    <3>1. m * (den * q) = (q * m) * den /\ k * (den * q) = (q * k) * den
      BY <1>4, <2>1, Z3
    <3>2. (q * m) * den \in Int
      BY <2>1
    <3> QED BY <1>3, <2>1, <3>1, <3>2
  <2>3. /\ 2 * (r * den - num) <= den * q /\ 2 * (num - r * den) < den * q
        /\ 2 * (exact * den - num) <= den * q /\ 2 * (num - exact * den) < den * q
    BY <1>7, <1>8 DEF NearestUp
  <2>4. r * den - exact * den < den * q /\ exact * den - r * den < den * q
    BY <1>1, <1>6, <2>2, <2>3
  <2>5. PICK w \in Nat \ {0} : w = den * q
    BY <1>1
  <2>6. m * w - k * w < w /\ k * w - m * w < w
    BY <2>2, <2>4, <2>5
  <2>7. ASSUME NEW a \in Int, NEW b \in Int, a * w - b * w < w PROVE a <= b
    <3> SUFFICES ASSUME a >= b + 1 PROVE FALSE
      BY <2>7
    <3>1. a * w >= (b + 1) * w /\ (b + 1) * w = b * w + w
      BY Z3
    <3>2. a * w \in Int /\ b * w \in Int
      OBVIOUS
    <3> QED BY <2>7, <3>1, <3>2
  <2>8. m <= k /\ k <= m
    BY <1>4, <2>6, <2>7
  <2>9. m = k
    BY <1>4, <2>8
  <2> QED BY <1>3, <2>1, <2>9
<1> QED BY <1>7, <1>8 DEF exact

LEMMA LineAmounts ==
  ASSUME NEW line \in Line, NEW p \in Precisions
  PROVE  /\ LineNet(line, p) \in Int /\ LineNet(line, p) % Quantum(p) = 0
         /\ LineTax(line, p) \in Int /\ LineTax(line, p) % Quantum(p) = 0
<1>1. Quantum(p) \in Nat \ {0}
  BY QuantumType
<1>2. line.exact \in Int /\ line.rate \in Int /\ Grain \in Nat \ {0} /\ 100 \in Nat \ {0}
  BY MoneyAssumption DEF Line
<1>3. LineNet(line, p) \in Int /\ LineNet(line, p) % Quantum(p) = 0
  BY <1>1, <1>2, Rounded DEF LineNet
<1>4. LineNet(line, p) * line.rate \in Int
  BY <1>2, <1>3
<1> QED BY <1>1, <1>2, <1>3, <1>4, Rounded DEF LineTax

\* The sums _calculate makes of the lines of a document.
LEMMA DocumentAmounts ==
  ASSUME NEW lines \in Seq(Line), NEW p \in Precisions
  PROVE  /\ Net(lines, p) \in Int /\ Net(lines, p) % Quantum(p) = 0
         /\ Tax(lines, p) \in Int /\ Tax(lines, p) % Quantum(p) = 0
<1> DEFINE nets == [n \in DOMAIN lines |-> LineNet(lines[n], p)]
           taxes == [n \in DOMAIN lines |-> LineTax(lines[n], p)]
<1>1. Len(lines) \in Nat /\ DOMAIN lines = 1 .. Len(lines)
  OBVIOUS
<1>2. IsFiniteSet(DOMAIN lines)
  BY <1>1, FS_Interval
<1>3. \A n \in DOMAIN lines : lines[n] \in Line
  OBVIOUS
<1>4. /\ DOMAIN nets = DOMAIN lines /\ DOMAIN taxes = DOMAIN lines
      /\ \A n \in DOMAIN lines :
           /\ nets[n] \in Int /\ nets[n] % Quantum(p) = 0
           /\ taxes[n] \in Int /\ taxes[n] % Quantum(p) = 0
  BY <1>3, LineAmounts
<1>5. Quantum(p) \in Nat \ {0}
  BY QuantumType
<1>6. Net(lines, p) = SumFunctionOnSet(nets, DOMAIN nets)
      /\ Tax(lines, p) = SumFunctionOnSet(taxes, DOMAIN taxes)
  BY DEF Net, Tax, SumFunction
<1> HIDE DEF nets, taxes
<1> QED BY <1>2, <1>4, <1>5, <1>6, SumInt, SumMultiple

\* The row of an invoice that is issued, in terms of its draft.
LEMMA IssuedRow ==
  ASSUME NEW i \in Invoices
  PROVE  /\ Issued(i).lines = invoices[i].lines
         /\ Issued(i).net = Net(invoices[i].lines, company.precision)
         /\ Issued(i).tax = Tax(invoices[i].lines, company.precision)
         /\ Issued(i).precision = company.precision
BY DEF Issued, Numbered, Drafted

\* What AuthoritativeAmounts says of the rows, by rows that do not change any more.
RowsAuthoritative ==
  \A i \in Validated :
    /\ invoices[i].precision \in Precisions
    /\ invoices[i].net = Net(invoices[i].lines, invoices[i].precision)
    /\ invoices[i].tax = Tax(invoices[i].lines, invoices[i].precision)
PaidInQuanta == \A i \in Validated : Paid(i) % Quantum(invoices[i].precision) = 0

LEMMA RowsInit == Init => RowsAuthoritative /\ PaidInQuanta
BY DEF Init, RowsAuthoritative, PaidInQuanta, Validated, NoInvoice

LEMMA RowsStep == TypeInv /\ RowsAuthoritative /\ [Next]_vars => RowsAuthoritative'
<1> SUFFICES ASSUME TypeInv, RowsAuthoritative, [Next]_vars PROVE RowsAuthoritative'
  OBVIOUS
<1>1. ASSUME NEW i \in Invoices, NEW k \in Keys, ValidateInvoice(i, k)
      PROVE  RowsAuthoritative'
  <2>1. company.precision \in Precisions
    BY DEF TypeInv, TypeOK
  <2>2. /\ invoices'[i].precision \in Precisions
        /\ invoices'[i].net = Net(invoices'[i].lines, invoices'[i].precision)
        /\ invoices'[i].tax = Tax(invoices'[i].lines, invoices'[i].precision)
    BY <1>1, <2>1, Issuing, IssuedRow
  <2>3. ASSUME NEW j \in Validated
        PROVE  invoices'[j] = invoices[j]
    BY <1>1, Issuing DEF Validated
  <2>4. Validated' = Validated \cup {i}
    BY <1>1, Issuing
  <2> QED BY <2>2, <2>3, <2>4 DEF RowsAuthoritative
<1>2. CASE Validated' = Validated /\ \A j \in Validated : invoices'[j] = invoices[j]
  BY <1>2 DEF RowsAuthoritative
<1> QED BY <1>1, <1>2, ValidatedSteps

LEMMA QuantaStep ==
  TypeInv /\ RowsAuthoritative /\ NoOverpayment /\ PaidInQuanta /\ [Next]_vars => PaidInQuanta'
<1> SUFFICES ASSUME TypeInv, RowsAuthoritative, NoOverpayment, PaidInQuanta, [Next]_vars
             PROVE  PaidInQuanta'
  OBVIOUS
<1>1. ASSUME NEW i \in Invoices, NEW k \in Keys, NEW p \in PaymentIds,
             NEW amount \in PaymentAmounts, NEW day \in Days,
             RecordPayment(i, k, p, amount, day)
      PROVE  PaidInQuanta'
  <2>1. invoices' = invoices /\ Validated' = Validated /\ i \in Validated
    BY <1>1 DEF RecordPayment, Validated
  <2>2. amount % Quantum(invoices[i].precision) = 0 /\ amount \in Int
    BY <1>1, LedgerAssumption DEF RecordPayment, Payable
  <2>3. Paid(i) \in Int /\ Paid(i) % Quantum(invoices[i].precision) = 0
    BY <2>1, PaidType DEF TypeInv, PaidInQuanta
  <2>4. Quantum(invoices[i].precision) \in Nat \ {0}
    BY <2>1, QuantumType DEF RowsAuthoritative
  <2>5. (Paid(i) + amount) % Quantum(invoices[i].precision) = 0
    BY <2>2, <2>3, <2>4, MultiplesAdd
  <2>6. /\ Paid(i)' = Paid(i) + amount
        /\ \A j \in Invoices \ {i} : Paid(j)' = Paid(j)
    BY <1>1, PaidGrows DEF TypeInv
  <2>7. \A j \in Validated : Paid(j)' % Quantum(invoices[j].precision) = 0
    BY <2>5, <2>6 DEF PaidInQuanta, Validated
  <2> QED BY <2>1, <2>7 DEF PaidInQuanta, Quantum
<1>2. ASSUME NEW i \in Invoices, NEW k \in Keys, ValidateInvoice(i, k)
      PROVE  PaidInQuanta'
  <2>1. \A j \in Invoices : Paid(j)' = Paid(j)
    BY <1>2 DEF ValidateInvoice, Paid, AmountsOf
  <2>2. Paid(i) = 0
    BY <1>2, Issuing, NothingPaid DEF NoOverpayment
  <2>3. invoices'[i].precision \in Precisions
    BY <1>2, Issuing, IssuedRow DEF TypeInv, TypeOK
  <2>4. Paid(i) % Quantum(invoices'[i].precision) = 0
    <3>1. Quantum(invoices'[i].precision) \in Nat \ {0}
      BY <2>3, QuantumType
    <3>2. Quantum(invoices'[i].precision) * 0 = 0
      BY <3>1
    <3> QED BY <2>2, <3>1, <3>2, ProductIsMultiple
  <2>5. \A j \in Validated : invoices'[j] = invoices[j]
    BY <1>2, Issuing DEF Validated
  <2>6. \A j \in Validated' : Paid(j) % Quantum(invoices'[j].precision) = 0
    BY <1>2, <2>4, <2>5, Issuing DEF PaidInQuanta
  <2>7. \A j \in Validated' : j \in Invoices
    BY DEF Validated
  <2> QED BY <2>1, <2>6, <2>7 DEF PaidInQuanta, Quantum
<1>3. CASE UNCHANGED payments /\ Validated' = Validated
           /\ \A j \in Validated : invoices'[j] = invoices[j]
  <2>1. \A j \in Validated : Paid(j)' = Paid(j)
    BY <1>3 DEF Paid, AmountsOf
  <2>2. \A j \in Validated : Paid(j) % Quantum(invoices'[j].precision) = 0
    BY <1>3 DEF PaidInQuanta
  <2> QED BY <1>3, <2>1, <2>2 DEF PaidInQuanta, Quantum
<1>4. \/ UNCHANGED payments
      \/ \E i \in Invoices, k \in Keys, p \in PaymentIds, amount \in PaymentAmounts,
            day \in Days : RecordPayment(i, k, p, amount, day)
  BY DEF Next, vars, SaveDraft, DuplicateInvoice, ValidateInvoice, ConfigureCompany,
         SetPeriod, SetArchived, Connect
<1> QED BY <1>1, <1>2, <1>3, <1>4, ValidatedSteps

\* Whatever the configuration a draft was saved under, a validated invoice carries the sums
\* of its rounded lines at its frozen precision; and every total, and what every payment
\* leaves of it, can be written at that precision.
THEOREM AmountsAreAuthoritative == Spec => []AuthoritativeAmounts
<1>1. ASSUME TypeInv, RowsAuthoritative, PaidInQuanta
      PROVE  AuthoritativeAmounts
  <2> SUFFICES ASSUME NEW i \in Validated
               PROVE  /\ invoices[i].net = Net(invoices[i].lines, invoices[i].precision)
                      /\ invoices[i].tax = Tax(invoices[i].lines, invoices[i].precision)
                      /\ Total(i) % Quantum(invoices[i].precision) = 0
                      /\ Balance(i) % Quantum(invoices[i].precision) = 0
    BY DEF AuthoritativeAmounts
  <2> DEFINE q == Quantum(invoices[i].precision)
  <2>1. i \in Invoices /\ invoices[i].lines \in Seq(Line)
    BY <1>1, LedgerAssumption DEF TypeInv, DraftsAreDocuments, Validated
  <2>2. /\ invoices[i].precision \in Precisions
        /\ invoices[i].net = Net(invoices[i].lines, invoices[i].precision)
        /\ invoices[i].tax = Tax(invoices[i].lines, invoices[i].precision)
    BY <1>1 DEF RowsAuthoritative
  <2>3. q \in Nat \ {0}
    BY <2>2, QuantumType
  <2>4. /\ invoices[i].net \in Int /\ invoices[i].net % q = 0
        /\ invoices[i].tax \in Int /\ invoices[i].tax % q = 0
    BY <2>1, <2>2, DocumentAmounts
  <2>5. Paid(i) \in Int /\ Paid(i) % q = 0
    BY <1>1, <2>1, PaidType DEF TypeInv, PaidInQuanta
  <2> HIDE DEF q
  <2>6. Total(i) \in Int /\ Total(i) % q = 0
    BY <2>3, <2>4, MultiplesAdd DEF Total
  <2>7. Balance(i) % q = 0
    BY <2>3, <2>5, <2>6, MultiplesAdd DEF Balance
  <2> QED BY <2>2, <2>6, <2>7 DEF q
<1>2. Spec => []RowsAuthoritative
  BY RowsInit, RowsStep, TypeInvariant, PTL DEF Spec
<1>3. Spec => []PaidInQuanta
  BY <1>2, RowsInit, QuantaStep, TypeInvariant, NeverOverpaid, PTL DEF Spec
<1> QED BY <1>1, <1>2, <1>3, TypeInvariant, PTL

\* What a preview shows of a draft is what validating it at that moment writes.
THEOREM PreviewsAreHonest == Spec => PreviewIsHonest
<1> DEFINE Honest == \A i \in Validated' \ Validated :
                       <<invoices'[i].net, invoices'[i].tax>> = Preview(i)
<1>1. ASSUME TypeInv, [Next]_vars
      PROVE  Honest
  <2>1. ASSUME NEW i \in Invoices, NEW k \in Keys, ValidateInvoice(i, k)
        PROVE  Honest
    <3>1. invoices[i].status # "validated"
      BY <2>1 DEF ValidateInvoice
    <3>2. Preview(i) = <<Issued(i).net, Issued(i).tax>>
      BY <3>1, IssuedRow DEF Preview
    <3> QED BY <1>1, <2>1, <3>2, Issuing
  <2>2. CASE Validated' = Validated
    BY <2>2
  <2> HIDE DEF Honest
  <2> QED BY <1>1, <2>1, <2>2, ValidatedSteps
<1>2. TypeInv /\ [Next]_vars => [Honest]_vars
  BY <1>1
<1> QED BY <1>2, TypeInvariant, PTL DEF Spec, PreviewIsHonest

-----------------------------------------------------------------------------
(***************************************************************************)
(* The books agree with the documents.                                     *)
(***************************************************************************)

\* What entries, and what the lines of one of them, move on an account.
Signed(some) == [posted \in some |-> posted[2].debit - posted[2].credit]
Moved(account, some) == SumFunction(Signed(LinesOn(account, some)))
LinesOf(account, lines) == {line \in lines : line.account = account}
MovedBy(account, lines) ==
  SumFunction([line \in LinesOf(account, lines) |-> line.debit - line.credit])

\* The entries are finitely many, with finitely many lines, and of documents that exist.
EntryKept(e) ==
  /\ IsFiniteSet(e.lines) /\ e.lines \subseteq EntryLine /\ Debits(e.lines) = Credits(e.lines)
  /\ e.invoice \in Validated /\ e.payment \in Recorded \cup {0}
EntriesKept == IsFiniteSet(entries) /\ \A e \in entries : EntryKept(e)

LEMMA LinesOnFinite ==
  ASSUME NEW account, NEW some, IsFiniteSet(some), \A e \in some : IsFiniteSet(e.lines)
  PROVE  IsFiniteSet(LinesOn(account, some))
<1> DEFINE Pairs(e) == {e} \X LinesOf(account, e.lines)
<1>1. IsFiniteSet({Pairs(e) : e \in some})
  <2> DEFINE pairs == [e \in some |-> Pairs(e)]
             all == {Pairs(e) : e \in some}
  <2> HIDE DEF Pairs
  <2>1. pairs \in Surjection(some, all)
    BY DEF Surjection
  <2> HIDE DEF pairs, all
  <2>2. IsFiniteSet(all)
    BY <2>1, FS_Surjection
  <2> QED BY <2>2 DEF all
<1>2. ASSUME NEW e \in some PROVE IsFiniteSet(Pairs(e))
  <2>1. IsFiniteSet(LinesOf(account, e.lines))
    BY FS_Subset DEF LinesOf
  <2>2. IsFiniteSet({e})
    BY FS_Singleton
  <2> QED BY <2>1, <2>2, FS_Product
<1>3. LinesOn(account, some) = UNION {Pairs(e) : e \in some}
  BY DEF LinesOn, LinesOf
<1> HIDE DEF Pairs
<1> QED BY <1>1, <1>2, <1>3, FS_UNION

\* An entry that is added moves what its lines move.
LEMMA MovedGrows ==
  ASSUME NEW account, NEW some, IsFiniteSet(some), NEW e, e \notin some,
         \A d \in some \cup {e} : IsFiniteSet(d.lines) /\ d.lines \subseteq EntryLine
  PROVE  Moved(account, some \cup {e}) = Moved(account, some) + MovedBy(account, e.lines)
<1> DEFINE old == LinesOn(account, some)
           own == LinesOf(account, e.lines)
           new == {e} \X own
           all == LinesOn(account, some \cup {e})
           f == Signed(all)
           g == [line \in own |-> line.debit - line.credit]
           name == [posted \in new |-> posted[2]]
<1>1. all = old \cup new /\ old \cap new = {}
  <2>1. all = old \cup new
    BY DEF LinesOn, LinesOf
  <2>2. old \cap new = {}
    BY DEF LinesOn
  <2> QED BY <2>1, <2>2
<1>2. IsFiniteSet(old)
  BY LinesOnFinite
<1>3. IsFiniteSet(own) /\ IsFiniteSet(new)
  <2>1. IsFiniteSet(own)
    BY FS_Subset DEF LinesOf
  <2>2. IsFiniteSet({e})
    BY FS_Singleton
  <2> HIDE DEF own
  <2> QED BY <2>1, <2>2, FS_Product
<1>4. \A posted \in all : posted[2].debit \in Nat /\ posted[2].credit \in Nat
  BY DEF LinesOn, EntryLine
<1>5. \A posted \in all : f[posted] = posted[2].debit - posted[2].credit /\ f[posted] \in Int
  BY <1>4 DEF Signed
<1>6. SumFunctionOnSet(f, old \cup new) = SumFunctionOnSet(f, old) + SumFunctionOnSet(f, new)
  <2> HIDE DEF f, all, old, new
  <2> QED BY <1>1, <1>2, <1>3, <1>5, SumUnion
<1>7. SumFunctionOnSet(f, old) = Moved(account, some)
  <2>1. \A posted \in old : f[posted] = Signed(old)[posted]
    BY <1>1 DEF Signed
  <2>2. Moved(account, some) = SumFunctionOnSet(Signed(old), old)
    BY DEF Moved, SumFunction, Signed
  <2> HIDE DEF f, old
  <2> QED BY <1>2, <2>1, <2>2, SumSame
<1>8. SumFunctionOnSet(f, new) = SumFunctionOnSet(g, own)
  <2>1. \A posted \in new : name[posted] \in own /\ f[posted] = g[name[posted]]
    BY <1>1, <1>5
  <2>2. ASSUME NEW line \in own
        PROVE  \E posted \in new : {other \in new : name[other] = line} = {posted}
    <3>1. <<e, line>> \in new /\ {other \in new : name[other] = line} = {<<e, line>>}
      <4> HIDE DEF own
      <4> QED OBVIOUS
    <3> QED BY <3>1
  <2>3. \A posted \in new : f[posted] \in Int
    BY <1>1, <1>5
  <2> HIDE DEF f, g, name, new, own
  <2> QED BY <1>3, <2>1, <2>2, <2>3, SumRenamed
<1>9. MovedBy(account, e.lines) = SumFunctionOnSet(g, own)
  BY DEF MovedBy, SumFunction
<1>10. Moved(account, some \cup {e}) = SumFunctionOnSet(f, all)
  BY DEF Moved, SumFunction, Signed
<1> HIDE DEF f, g, all, old, new, own
<1> QED BY <1>1, <1>6, <1>7, <1>8, <1>9, <1>10

LEMMA MovedNothing ==
  ASSUME NEW account
  PROVE  Moved(account, {}) = 0
<1>1. LinesOn(account, {}) = {}
  BY DEF LinesOn
<1>2. Moved(account, {}) = SumFunctionOnSet(Signed({}), {})
  BY <1>1 DEF Moved, SumFunction, Signed
<1> QED BY <1>2, SumEmpty

\* What the lines of a posting that is one line, or none, on an account move.
LEMMA MovedByOne ==
  ASSUME NEW account, NEW lines, NEW debit \in Nat, NEW credit \in Nat,
         LET line == [account |-> account, debit |-> debit, credit |-> credit]
         IN  LinesOf(account, lines) = IF debit = 0 /\ credit = 0 THEN {} ELSE {line}
  PROVE  MovedBy(account, lines) = debit - credit
<1> DEFINE line == [account |-> account, debit |-> debit, credit |-> credit]
           g == [l \in LinesOf(account, lines) |-> l.debit - l.credit]
<1>1. MovedBy(account, lines) = SumFunctionOnSet(g, LinesOf(account, lines))
  BY DEF MovedBy, SumFunction
<1>2. CASE debit = 0 /\ credit = 0
  <2>1. LinesOf(account, lines) = {}
    BY <1>2
  <2> HIDE DEF g
  <2> QED BY <1>1, <1>2, <2>1, SumEmpty
<1>3. CASE ~(debit = 0 /\ credit = 0)
  <2>1. LinesOf(account, lines) = {line}
    BY <1>3
  <2>2. g[line] = debit - credit
    BY <2>1
  <2>3. g[line] \in Int
    BY <2>2
  <2> HIDE DEF g, line
  <2>4. SumFunctionOnSet(g, {line}) = g[line]
    BY <2>3, SumOne
  <2> QED BY <1>1, <2>1, <2>2, <2>4
<1> QED BY <1>2, <1>3

LEMMA PaymentMoves ==
  ASSUME NEW amount \in Nat \ {0}
  PROVE  /\ MovedBy("bank", PaymentPosting(amount)) = amount
         /\ MovedBy("receivable", PaymentPosting(amount)) = -amount
         /\ MovedBy("revenue", PaymentPosting(amount)) = 0
         /\ MovedBy("tax", PaymentPosting(amount)) = 0
<1> DEFINE lines == PaymentPosting(amount)
<1>1. lines = {Debit("bank", amount), Credit("receivable", amount)}
  BY DEF PaymentPosting, NonZero, Debit, Credit
<1>2. /\ LinesOf("bank", lines) = {Debit("bank", amount)}
      /\ LinesOf("receivable", lines) = {Credit("receivable", amount)}
      /\ LinesOf("revenue", lines) = {} /\ LinesOf("tax", lines) = {}
  BY <1>1 DEF LinesOf, Debit, Credit
<1> HIDE DEF lines
<1>3. MovedBy("bank", lines) = amount - 0
  BY <1>2, MovedByOne DEF Debit
<1>4. MovedBy("receivable", lines) = 0 - amount
  BY <1>2, MovedByOne DEF Credit
<1>5. MovedBy("revenue", lines) = 0 - 0 /\ MovedBy("tax", lines) = 0 - 0
  BY <1>2, MovedByOne
<1> QED BY <1>3, <1>4, <1>5 DEF lines

LEMMA InvoiceMoves ==
  ASSUME NEW i \in Invoices, Issued(i).net \in Nat, Issued(i).tax \in Nat
  PROVE  /\ MovedBy("receivable", InvoicePosting(i)) = Issued(i).net + Issued(i).tax
         /\ MovedBy("bank", InvoicePosting(i)) = 0
         /\ MovedBy("revenue", InvoicePosting(i)) = -Issued(i).net
         /\ MovedBy("tax", InvoicePosting(i)) = -Issued(i).tax
<1> DEFINE net == Issued(i).net
           tax == Issued(i).tax
           lines == InvoicePosting(i)
<1>1. lines = NonZero({Debit("receivable", net + tax), Credit("revenue", net), Credit("tax", tax)})
  BY DEF InvoicePosting
<1>2. net \in Nat /\ tax \in Nat /\ net + tax \in Nat
  OBVIOUS
<1> HIDE DEF net, tax, lines
<1>3. /\ LinesOf("receivable", lines) = IF net + tax = 0 THEN {} ELSE {Debit("receivable", net + tax)}
      /\ LinesOf("revenue", lines) = IF net = 0 THEN {} ELSE {Credit("revenue", net)}
      /\ LinesOf("tax", lines) = IF tax = 0 THEN {} ELSE {Credit("tax", tax)}
      /\ LinesOf("bank", lines) = {}
  BY <1>1, <1>2 DEF LinesOf, NonZero, Debit, Credit
<1>4. MovedBy("receivable", lines) = (net + tax) - 0
  BY <1>2, <1>3, MovedByOne DEF Debit
<1>5. MovedBy("revenue", lines) = 0 - net
  BY <1>2, <1>3, MovedByOne DEF Credit
<1>6. MovedBy("tax", lines) = 0 - tax
  BY <1>2, <1>3, MovedByOne DEF Credit
<1>7. MovedBy("bank", lines) = 0 - 0
  BY <1>3, MovedByOne
<1> QED BY <1>2, <1>4, <1>5, <1>6, <1>7 DEF net, tax, lines

\* _entry moves the accounts of one document by what its lines move.
LEMMA PostMoves ==
  ASSUME EntriesKept, NEW kind, NEW i, NEW p, NEW day, NEW lines, Post(kind, i, p, day, lines),
         IsFiniteSet(lines), lines \subseteq EntryLine,
         \A e \in entries : e.invoice = i => e.payment # p
  PROVE  /\ \A account : AccountBalance(account, i)' = AccountBalance(account, i) + MovedBy(account, lines)
         /\ \A account, j : j # i => AccountBalance(account, j)' = AccountBalance(account, j)
         /\ i \in Validated' /\ p \in (Recorded \cup {0})'
              /\ Validated \subseteq Validated' /\ Recorded \subseteq Recorded' => EntriesKept'
         /\ \A e \in entries' : e \in entries \/ e.invoice = i
<1> DEFINE Filed(some, j) == {e \in some : e.invoice = j}
<1>1. PICK e : /\ entries' = entries \cup {e}
               /\ e.invoice = i /\ e.payment = p /\ e.lines = lines
  <2>1. PICK q : entries' = entries \cup {[kind |-> kind, invoice |-> i, payment |-> p,
                                           date |-> day, period |-> q, lines |-> lines]}
    BY DEF Post
  <2> DEFINE new == [kind |-> kind, invoice |-> i, payment |-> p, date |-> day, period |-> q,
                     lines |-> lines]
  <2>2. entries' = entries \cup {new} /\ new.invoice = i /\ new.payment = p /\ new.lines = lines
    BY <2>1
  <2> HIDE DEF new
  <2> QED BY <2>2
<1>2. e \notin entries
  BY <1>1
<1>3. IsFiniteSet(entries) /\ \A d \in entries : IsFiniteSet(d.lines) /\ d.lines \subseteq EntryLine
  BY DEF EntriesKept, EntryKept
<1>4. \A account, j : /\ AccountBalance(account, j) = Moved(account, Filed(entries, j))
                      /\ AccountBalance(account, j)' = Moved(account, Filed(entries', j))
  BY DEF AccountBalance, Moved, Signed
<1>5. ASSUME NEW account
      PROVE  AccountBalance(account, i)' = AccountBalance(account, i) + MovedBy(account, lines)
  <2>1. Filed(entries', i) = Filed(entries, i) \cup {e} /\ e \notin Filed(entries, i)
    BY <1>1, <1>2
  <2>2. IsFiniteSet(Filed(entries, i))
    BY <1>3, FS_Subset
  <2>3. \A d \in Filed(entries, i) \cup {e} : IsFiniteSet(d.lines) /\ d.lines \subseteq EntryLine
    BY <1>1, <1>3
  <2> HIDE DEF Filed
  <2>4. Moved(account, Filed(entries, i) \cup {e})
          = Moved(account, Filed(entries, i)) + MovedBy(account, e.lines)
    BY <2>1, <2>2, <2>3, MovedGrows
  <2> QED BY <1>1, <1>4, <2>1, <2>4
<1>6. ASSUME NEW account, NEW j, j # i
      PROVE  AccountBalance(account, j)' = AccountBalance(account, j)
  <2>1. Filed(entries', j) = Filed(entries, j)
    BY <1>1, <1>6
  <2> HIDE DEF Filed
  <2> QED BY <1>4, <2>1
<1>7. ASSUME i \in Validated', p \in (Recorded \cup {0})',
             Validated \subseteq Validated', Recorded \subseteq Recorded'
      PROVE  EntriesKept'
  <2>1. IsFiniteSet(entries')
    BY <1>1, <1>3, FS_AddElement
  <2>2. ASSUME NEW d \in entries PROVE EntryKept(d)'
    BY <1>7 DEF EntriesKept, EntryKept
  <2>3. Debits(lines) = Credits(lines)
    BY DEF Post
  <2>4. EntryKept(e)'
    BY <1>1, <1>7, <2>3 DEF EntryKept
  <2> QED BY <1>1, <2>1, <2>2, <2>4 DEF EntriesKept
<1> QED BY <1>1, <1>5, <1>6, <1>7

LEMMA EntriesSteps ==
  ASSUME [Next]_vars
  PROVE  \/ \E i \in Invoices, k \in Keys : ValidateInvoice(i, k)
         \/ \E i \in Invoices, k \in Keys, p \in PaymentIds, amount \in PaymentAmounts,
               day \in Days : RecordPayment(i, k, p, amount, day)
         \/ UNCHANGED <<entries, payments>>
BY DEF Next, vars, SaveDraft, DuplicateInvoice, ConfigureCompany, SetPeriod, SetArchived, Connect

LEMMA PostingsFinite ==
  /\ \A amount : IsFiniteSet(PaymentPosting(amount))
  /\ \A i \in Invoices : IsFiniteSet(InvoicePosting(i))
<1>1. ASSUME NEW a, NEW b PROVE IsFiniteSet(NonZero({a, b}))
  <2>1. IsFiniteSet({a} \cup {b})
    BY FS_Singleton, FS_Union
  <2>2. {a, b} = {a} \cup {b} /\ NonZero({a, b}) \in SUBSET {a, b}
    BY DEF NonZero
  <2> QED BY <2>1, <2>2, FS_Subset
<1>2. ASSUME NEW a, NEW b, NEW c PROVE IsFiniteSet(NonZero({a, b, c}))
  <2>1. IsFiniteSet({a} \cup {b})
    BY FS_Singleton, FS_Union
  <2>2. IsFiniteSet(({a} \cup {b}) \cup {c})
    BY <2>1, FS_Singleton, FS_Union
  <2>3. {a, b, c} = ({a} \cup {b}) \cup {c} /\ NonZero({a, b, c}) \in SUBSET {a, b, c}
    BY DEF NonZero
  <2> QED BY <2>2, <2>3, FS_Subset
<1> QED BY <1>1, <1>2 DEF PaymentPosting, InvoicePosting

LEMMA BooksInit == Init => EntriesKept /\ SubledgerAgrees
<1> SUFFICES ASSUME Init PROVE EntriesKept /\ SubledgerAgrees
  OBVIOUS
<1>1. entries = {} /\ Validated = {}
  BY DEF Init, Validated, NoInvoice
<1> QED BY <1>1, FS_EmptySet DEF EntriesKept, SubledgerAgrees

LEMMA BooksStep ==
  /\ TypeInv /\ NoOverpayment /\ EntriesKept /\ SubledgerAgrees /\ [Next]_vars
  => EntriesKept' /\ SubledgerAgrees'
<1> SUFFICES ASSUME TypeInv, NoOverpayment, EntriesKept, SubledgerAgrees, [Next]_vars
             PROVE  EntriesKept' /\ SubledgerAgrees'
  OBVIOUS
<1> USE DEF TypeInv
<1> DEFINE Agrees(i) == /\ AccountBalance("receivable", i) = Balance(i)
                        /\ AccountBalance("bank", i) = Paid(i)
                        /\ AccountBalance("revenue", i) = -invoices[i].net
                        /\ AccountBalance("tax", i) = -invoices[i].tax
<1>0. \A i \in Validated : Agrees(i)
  BY DEF SubledgerAgrees, Validated
<1>1. ASSUME NEW i \in Invoices, NEW k \in Keys, ValidateInvoice(i, k)
      PROVE  EntriesKept' /\ SubledgerAgrees'
  <2>1. /\ i \notin Validated /\ Validated' = Validated \cup {i}
        /\ \A j \in Invoices \ {i} : invoices'[j] = invoices[j]
        /\ invoices'[i] = Issued(i)
    BY <1>1, Issuing
  <2>2. Post("invoice", i, 0, invoices[i].issue, InvoicePosting(i)) /\ UNCHANGED payments
    BY <1>1 DEF ValidateInvoice
  <2>3. Issued(i).net \in Nat /\ Issued(i).tax \in Nat
    BY <1>1, MoneyAssumption
       DEF ValidateInvoice, Draftable, Calculable, Issued, Numbered, Drafted, Amounts
  <2>4. \A e \in entries : e.invoice # i
    BY <2>1 DEF EntriesKept, EntryKept
  <2>5. IsFiniteSet(InvoicePosting(i)) /\ InvoicePosting(i) \subseteq EntryLine
    BY <2>3, PostingsFinite, InvoicePostingType
  <2>6. Recorded' = Recorded /\ \A j : Paid(j)' = Paid(j)
    BY <2>2 DEF Recorded, Paid, AmountsOf
  <2>7. /\ \A account : AccountBalance(account, i)'
                          = AccountBalance(account, i) + MovedBy(account, InvoicePosting(i))
        /\ \A account, j : j # i => AccountBalance(account, j)' = AccountBalance(account, j)
        /\ EntriesKept'
        /\ \A e \in entries' : e \in entries \/ e.invoice = i
    BY <2>1, <2>2, <2>4, <2>5, <2>6, PostMoves
  <2>8. \A account : AccountBalance(account, i) = 0
    <3>1. {e \in entries : e.invoice = i} = {}
      BY <2>4
    <3>2. \A account : AccountBalance(account, i) = Moved(account, {})
      BY <3>1 DEF AccountBalance, Moved, Signed
    <3> QED BY <3>2, MovedNothing
  <2>9. Paid(i)' = 0
    BY <2>1, <2>6, NothingPaid DEF NoOverpayment
  <2>10. Agrees(i)'
    <3>1. Balance(i)' = Issued(i).net + Issued(i).tax
      BY <2>1, <2>3, <2>9 DEF Balance, Total
    <3>2. /\ AccountBalance("receivable", i)' = Issued(i).net + Issued(i).tax
          /\ AccountBalance("bank", i)' = 0
          /\ AccountBalance("revenue", i)' = -Issued(i).net
          /\ AccountBalance("tax", i)' = -Issued(i).tax
      BY <2>3, <2>7, <2>8, InvoiceMoves
    <3> QED BY <2>1, <2>9, <3>1, <3>2
  <2>11. ASSUME NEW j \in Validated PROVE Agrees(j)'
    <3>1. j \in Invoices /\ j # i
      BY <2>1 DEF Validated
    <3>2. invoices'[j] = invoices[j] /\ Balance(j)' = Balance(j) /\ Paid(j)' = Paid(j)
      BY <2>1, <2>6, <3>1 DEF Balance, Total
    <3> QED BY <1>0, <2>7, <3>1, <3>2
  <2>12. ASSUME NEW j \in Invoices, j \notin Validated', NEW e \in entries'
         PROVE  e.invoice # j
    <3>1. CASE e \in entries
      BY <2>1, <2>12, <3>1 DEF EntriesKept, EntryKept
    <3> QED BY <2>1, <2>7, <2>12, <3>1
  <2> HIDE DEF Agrees
  <2>13. \A j \in Validated' : Agrees(j)'
    BY <2>1, <2>10, <2>11
  <2> QED BY <2>7, <2>12, <2>13 DEF SubledgerAgrees, Agrees
<1>2. ASSUME NEW i \in Invoices, NEW k \in Keys, NEW p \in PaymentIds,
             NEW amount \in PaymentAmounts, NEW day \in Days,
             RecordPayment(i, k, p, amount, day)
      PROVE  EntriesKept' /\ SubledgerAgrees'
  <2>1. i \in Validated /\ Validated' = Validated /\ UNCHANGED invoices
    BY <1>2 DEF RecordPayment, Validated
  <2>2. Post("payment", i, p, day, PaymentPosting(amount))
    BY <1>2 DEF RecordPayment
  <2>3. amount \in Nat \ {0}
    BY LedgerAssumption
  <2>4. \A e \in entries : e.payment # p
    <3>1. p \notin Recorded /\ p # 0
      BY <1>2, LedgerAssumption DEF RecordPayment, PaymentIds
    <3> QED BY <3>1 DEF EntriesKept, EntryKept
  <2>5. IsFiniteSet(PaymentPosting(amount)) /\ PaymentPosting(amount) \subseteq EntryLine
    BY <2>3, PostingsFinite, PaymentPostingType
  <2>6. /\ Paid(i)' = Paid(i) + amount /\ Recorded' = Recorded \cup {p}
        /\ \A j \in Invoices \ {i} : Paid(j)' = Paid(j)
    BY <1>2, PaidGrows
  <2>7. /\ \A account : AccountBalance(account, i)'
                          = AccountBalance(account, i) + MovedBy(account, PaymentPosting(amount))
        /\ \A account, j : j # i => AccountBalance(account, j)' = AccountBalance(account, j)
        /\ EntriesKept'
        /\ \A e \in entries' : e \in entries \/ e.invoice = i
    BY <2>1, <2>2, <2>4, <2>5, <2>6, PostMoves
  <2>8. Agrees(i)'
    <3>1. /\ Paid(i) \in Nat /\ Total(i) \in Nat /\ Total(i)' = Total(i)
          /\ invoices[i].net \in Int /\ invoices[i].tax \in Int
      BY <2>1, PaidType, TotalType, MoneyAssumption DEF Total, TypeOK, InvoiceRow, Amounts
    <3>2. Balance(i)' = Balance(i) - amount /\ Balance(i) \in Int
      BY <2>3, <2>6, <3>1 DEF Balance
    <3>3. /\ AccountBalance("receivable", i)' = Balance(i) - amount
          /\ AccountBalance("bank", i)' = Paid(i) + amount
          /\ AccountBalance("revenue", i)' = -invoices[i].net
          /\ AccountBalance("tax", i)' = -invoices[i].tax
      BY <1>0, <2>1, <2>3, <2>7, <3>1, <3>2, PaymentMoves
    <3> QED BY <2>1, <2>6, <3>2, <3>3
  <2>9. ASSUME NEW j \in Validated, j # i PROVE Agrees(j)'
    <3>1. j \in Invoices
      BY DEF Validated
    <3>2. Balance(j)' = Balance(j) /\ Paid(j)' = Paid(j)
      BY <2>1, <2>6, <2>9, <3>1 DEF Balance, Total
    <3> QED BY <1>0, <2>1, <2>7, <2>9, <3>2
  <2>10. ASSUME NEW j \in Invoices, j \notin Validated', NEW e \in entries'
         PROVE  e.invoice # j
    <3>1. CASE e \in entries
      BY <2>1, <2>10, <3>1 DEF EntriesKept, EntryKept
    <3> QED BY <2>1, <2>7, <2>10, <3>1
  <2> HIDE DEF Agrees
  <2>11. \A j \in Validated' : Agrees(j)'
    BY <2>1, <2>8, <2>9
  <2> QED BY <2>7, <2>10, <2>11 DEF SubledgerAgrees, Agrees
<1>3. CASE /\ UNCHANGED <<entries, payments>>
           /\ Validated' = Validated /\ \A j \in Validated : invoices'[j] = invoices[j]
  <2>1. EntriesKept'
    BY <1>3 DEF EntriesKept, EntryKept, Recorded
  <2>2. \A j \in Validated : Agrees(j)'
    <3>1. ASSUME NEW j \in Validated
          PROVE  Paid(j)' = Paid(j) /\ Balance(j)' = Balance(j)
      BY <1>3 DEF Paid, AmountsOf, Balance, Total
    <3>2. \A account, j : AccountBalance(account, j)' = AccountBalance(account, j)
      BY <1>3 DEF AccountBalance
    <3> QED BY <1>0, <1>3, <3>1, <3>2
  <2> HIDE DEF Agrees
  <2>3. \A j \in Validated' : Agrees(j)'
    BY <1>3, <2>2
  <2> QED BY <1>3, <2>1, <2>3 DEF SubledgerAgrees, Agrees
<1> QED BY <1>1, <1>2, <1>3, EntriesSteps, ValidatedSteps

LEMMA BooksInvariant == Spec => [](EntriesKept /\ SubledgerAgrees)
BY BooksInit, BooksStep, TypeInvariant, NeverOverpaid, PTL DEF Spec

\* For every document and every order of the services, the receivable, the bank, the
\* revenue and the tax over all the entries of an invoice are what its row and its
\* payments say, and what is not issued has no entry.
THEOREM BooksAgree == Spec => []SubledgerAgrees
BY BooksInvariant, PTL
=============================================================================
