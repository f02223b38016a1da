----------------------------- MODULE GuardsProofs -----------------------------
(***************************************************************************)
(* The triggers keep the committed books sound for any number of           *)
(* documents, payments, entries and amounts, and for transactions of any   *)
(* length.                                                                 *)
(***************************************************************************)
EXTENDS Guards, SumLemmas

(***************************************************************************)
(* What holds of the rows inside a transaction, when the checks of q are   *)
(* still to come.  It is said of the rows of the open transaction, with    *)
(* its queue, and of the committed rows, with none: a rollback leads from  *)
(* one to the other.                                                       *)
(***************************************************************************)
Column(pay, i) == [p \in PaymentIds |-> IF pay[p].invoice = i THEN pay[p].amount ELSE 0]

\* What SUM makes of the column of amounts of the payment table.
LEMMA ColumnSums ==
  /\ SumFunction([p \in PaymentIds |-> 0]) = 0
  /\ \A column \in [PaymentIds -> Amounts \cup {0}] :
       /\ SumFunction(column) \in Nat
       /\ \A p \in PaymentIds, a \in Amounts :
            SumFunction([column EXCEPT ![p] = a]) = SumFunction(column) - column[p] + a
<1>1. IsFiniteSet(PaymentIds)
  BY GuardsAssumption, FS_Interval DEF PaymentIds
<1>2. Amounts \cup {0} \subseteq Nat
  BY GuardsAssumption
<1>3. \A column \in [PaymentIds -> Amounts \cup {0}] : column \in [PaymentIds -> Nat]
  BY <1>2
<1> QED BY <1>1, <1>2, <1>3, SumOfColumn

Typed(inv, lin, pay, ent) ==
  /\ inv \in [Invoices -> InvoiceRow \cup {NoInvoice}]
  /\ lin \in [Invoices -> Lines]
  /\ pay \in [PaymentIds -> PaymentRow \cup {NoPayment}]
  /\ ent \in [EntryIds -> EntryRow \cup {NoEntry}]

DocumentsComplete(inv, lin, ent, q) ==
  \A i \in Invoices : inv[i].status = "validated" =>
    \/ <<"invoice", i>> \in q
    \/ /\ CountOf(lin[i]) > 0
       /\ SumOf(lin[i]) = inv[i].total
       /\ \E e \in EntryIds : ent[e].kind = "invoice" /\ ent[e].invoice = i

PaymentsFit(inv, pay) ==
  /\ \A i \in Invoices : inv[i].status = "validated" => SumFunction(Column(pay, i)) <= inv[i].total
  /\ \A p \in PaymentIds : pay[p] # NoPayment =>
       pay[p].invoice \in Invoices /\ inv[pay[p].invoice].status = "validated"

PaymentsPosted(pay, ent, q) ==
  \A p \in PaymentIds : pay[p] # NoPayment =>
    \/ <<"payment", p>> \in q
    \/ \E e \in EntryIds : ent[e].kind = "payment" /\ ent[e].payment = p

EntriesDistinct(ent) ==
  \A e, f \in EntryIds :
    /\ ent[e].kind = "invoice" /\ ent[f].kind = "invoice" /\ ent[e].invoice = ent[f].invoice => e = f
    /\ ent[e].kind = "payment" /\ ent[f].kind = "payment" /\ ent[e].payment = ent[f].payment => e = f

EntriesRefer(inv, pay, ent) ==
  \A e \in EntryIds : ent[e] # NoEntry =>
    /\ ent[e].kind \in {"invoice", "payment"}
    /\ ent[e].invoice \in Invoices
    /\ inv[ent[e].invoice].status = "validated"
    /\ ent[e].kind = "payment" =>
         /\ ent[e].payment \in PaymentIds
         /\ pay[ent[e].payment] # NoPayment
         /\ pay[ent[e].payment].invoice = ent[e].invoice

EntriesBalanced(inv, pay, ent, q) ==
  \A e \in EntryIds : ent[e] # NoEntry =>
    \/ <<"entry", e>> \in q
    \/ /\ CountOf(ent[e].debit) + CountOf(ent[e].credit) >= 2
       /\ ent[e].kind = "invoice" =>
            SumOf(ent[e].debit) = inv[ent[e].invoice].total
              /\ SumOf(ent[e].credit) = inv[ent[e].invoice].total
       /\ ent[e].kind = "payment" =>
            SumOf(ent[e].debit) = pay[ent[e].payment].amount
              /\ SumOf(ent[e].credit) = pay[ent[e].payment].amount

Sound(inv, lin, pay, ent, q) ==
  /\ Typed(inv, lin, pay, ent)
  /\ DocumentsComplete(inv, lin, ent, q)
  /\ PaymentsFit(inv, pay)
  /\ PaymentsPosted(pay, ent, q)
  /\ EntriesDistinct(ent)
  /\ EntriesRefer(inv, pay, ent)
  /\ EntriesBalanced(inv, pay, ent, q)

\* The open transaction has changed nothing that was published.
Published ==
  /\ \A i \in Invoices : committed[1][i].status = "validated" =>
       invoices[i] = committed[1][i] /\ lines[i] = committed[2][i]
  /\ \A p \in PaymentIds : committed[3][p] # NoPayment => payments[p] = committed[3][p]
  /\ \A e \in EntryIds : committed[4][e] # NoEntry => entries[e] = committed[4][e] /\ e \notin created
  /\ \A e \in created : entries[e] # NoEntry

Bounded ==
  /\ closed \in BOOLEAN
  /\ committed[5] \in BOOLEAN
  /\ created \subseteq EntryIds
  /\ queued \subseteq {"entry", "invoice", "payment"} \X (Invoices \cup PaymentIds \cup EntryIds)
  /\ statements \in Nat
  /\ statements = 0 => created = {} /\ queued = {}

GuardsInv ==
  /\ Sound(invoices, lines, payments, entries, queued)
  /\ Sound(committed[1], committed[2], committed[3], committed[4], {})
  /\ Published
  /\ Bounded

\* What one statement has to keep.
Kept == Sound(invoices, lines, payments, entries, queued) /\ Published /\ Bounded

\* The statements of one transaction leave the committed rows alone.
LEMMA StatementKeeps ==
  ASSUME GuardsInv, Kept', committed' = committed
  PROVE  GuardsInv'
BY DEF GuardsInv, Kept

(***************************************************************************)
(* Statements.                                                             *)
(***************************************************************************)
LEMMA WriteInvoiceKeeps ==
  ASSUME GuardsInv, NEW i \in Invoices, NEW row \in InvoiceRow \cup {NoInvoice},
         InvoiceGuard(i), invoices' = [invoices EXCEPT ![i] = row],
         row = NoInvoice \/ <<"invoice", i>> \in queued', queued \subseteq queued',
         Bounded', UNCHANGED <<lines, payments, entries, created, committed>>
  PROVE  Kept'
<1>1. invoices[i].status # "validated"
  BY DEF InvoiceGuard, Validated
<1>2. /\ invoices' \in [Invoices -> InvoiceRow \cup {NoInvoice}]
      /\ invoices'[i] = row
      /\ \A j \in Invoices \ {i} : invoices'[j] = invoices[j]
  BY DEF GuardsInv, Sound, Typed
<1>3. Typed(invoices, lines, payments, entries)'
  BY <1>2 DEF GuardsInv, Sound, Typed
<1>4. DocumentsComplete(invoices, lines, entries, queued)'
  <2>1. row = NoInvoice => row.status # "validated"
    BY DEF NoInvoice
  <2> QED BY <1>2, <2>1 DEF GuardsInv, Sound, DocumentsComplete
<1>5. \A p \in PaymentIds : payments[p] # NoPayment => payments[p].invoice # i
  BY <1>1 DEF GuardsInv, Sound, PaymentsFit
<1>6. PaymentsFit(invoices, payments)'
  <2>1. row \in InvoiceRow => row.total \in Nat
    BY GuardsAssumption DEF InvoiceRow
  <2>2. Column(payments, i) = [p \in PaymentIds |-> 0]
    <3>1. NoPayment.invoice # i
      BY GuardsAssumption DEF NoPayment
    <3> QED BY <1>5, <3>1 DEF Column
  <2>3. row.status = "validated" => SumFunction(Column(payments, i)) <= row.total
    BY <2>1, <2>2, ColumnSums DEF NoInvoice
  <2>4. /\ \A j \in Invoices \ {i} : invoices'[j].status = "validated" =>
             SumFunction(Column(payments, j)) <= invoices'[j].total
        /\ \A p \in PaymentIds : payments[p] # NoPayment =>
             payments[p].invoice \in Invoices /\ invoices'[payments[p].invoice].status = "validated"
    BY <1>2, <1>5 DEF GuardsInv, Sound, PaymentsFit
  <2>5. payments' = payments
    OBVIOUS
  <2> QED BY <1>2, <2>3, <2>4, <2>5 DEF PaymentsFit
<1>7. PaymentsPosted(payments, entries, queued)'
  BY DEF GuardsInv, Sound, PaymentsPosted
<1>8. EntriesDistinct(entries)'
  BY DEF GuardsInv, Sound, EntriesDistinct
<1>9. \A e \in EntryIds : entries[e] # NoEntry => entries[e].invoice # i
  BY <1>1 DEF GuardsInv, Sound, EntriesRefer
<1>10. EntriesRefer(invoices, payments, entries)'
  BY <1>2, <1>9 DEF GuardsInv, Sound, EntriesRefer
<1>11. EntriesBalanced(invoices, payments, entries, queued)'
  <2>1. \A e \in EntryIds : entries[e] # NoEntry => entries[e].invoice \in Invoices \ {i}
    BY <1>9 DEF GuardsInv, Sound, EntriesRefer
  <2> QED BY <1>2, <2>1 DEF GuardsInv, Sound, EntriesBalanced
<1>12. Published'
  BY <1>1, <1>2 DEF GuardsInv, Published
<1> QED BY <1>3, <1>4, <1>6, <1>7, <1>8, <1>10, <1>11, <1>12 DEF Kept, Sound

LEMMA LinesKeep ==
  ASSUME GuardsInv, NEW i \in Invoices, invoices[i].status # "validated",
         lines' \in [Invoices -> Lines], \A j \in Invoices \ {i} : lines'[j] = lines[j],
         Bounded', UNCHANGED <<invoices, payments, entries, created, committed, queued>>
  PROVE  Kept'
<1>1. Typed(invoices, lines, payments, entries)'
  BY DEF GuardsInv, Sound, Typed
<1>2. DocumentsComplete(invoices, lines, entries, queued)'
  BY DEF GuardsInv, Sound, DocumentsComplete
<1>3. Published'
  BY DEF GuardsInv, Published
<1>4. /\ PaymentsFit(invoices, payments)'
      /\ PaymentsPosted(payments, entries, queued)'
      /\ EntriesDistinct(entries)'
      /\ EntriesRefer(invoices, payments, entries)'
      /\ EntriesBalanced(invoices, payments, entries, queued)'
  BY DEF GuardsInv, Sound
<1> QED BY <1>1, <1>2, <1>3, <1>4 DEF Kept, Sound

LEMMA InsertPaymentKeeps ==
  ASSUME GuardsInv, NEW p \in PaymentIds, NEW i \in Invoices, NEW a \in Amounts,
         InsertPayment(p, i, a), Bounded'
  PROVE  Kept'
<1> DEFINE row == [invoice |-> i, amount |-> a]
<1>1. payments[p] = NoPayment
  BY DEF InsertPayment, Recorded, PaymentIds
<1>2. row \in PaymentRow /\ row # NoPayment /\ row.invoice = i /\ row.amount = a
  BY GuardsAssumption DEF PaymentRow, NoPayment
<1>3. /\ payments' = [payments EXCEPT ![p] = row]
      /\ queued' = queued \cup {<<"payment", p>>}
      /\ invoices[i].status = "validated"
      /\ a + SumFunction(Column(payments, i)) <= invoices[i].total
  BY DEF InsertPayment, Validated, Paid, AmountsOf, Column
<1>4. UNCHANGED <<invoices, lines, entries, created, committed>>
  BY DEF InsertPayment
<1> HIDE DEF row
<1>5. /\ payments' \in [PaymentIds -> PaymentRow \cup {NoPayment}]
      /\ payments'[p] = row
      /\ \A r \in PaymentIds \ {p} : payments'[r] = payments[r]
  BY <1>2, <1>3 DEF GuardsInv, Sound, Typed
<1>6. Typed(invoices, lines, payments, entries)'
  BY <1>4, <1>5 DEF GuardsInv, Sound, Typed
<1>7. DocumentsComplete(invoices, lines, entries, queued)'
  BY <1>3, <1>4 DEF GuardsInv, Sound, DocumentsComplete
<1>8. PaymentsFit(invoices, payments)'
  <2>1. NoPayment.invoice \notin Invoices
    BY GuardsAssumption DEF NoPayment
  <2>2. \A j \in Invoices : Column(payments, j) \in [PaymentIds -> Amounts \cup {0}]
    BY <2>1 DEF Column, GuardsInv, Sound, Typed, PaymentRow, NoPayment
  <2>3. Column(payments', i) = [Column(payments, i) EXCEPT ![p] = a]
    BY <1>2, <1>5 DEF Column
  <2>4. Column(payments, i)[p] = 0
    BY <1>1, <2>1 DEF Column
  <2>5. SumFunction(Column(payments', i)) <= invoices[i].total
    <3>1. SumFunction([Column(payments, i) EXCEPT ![p] = a])
            = SumFunction(Column(payments, i)) - Column(payments, i)[p] + a
      BY <2>2, ColumnSums
    <3>2. SumFunction(Column(payments, i)) \in Nat /\ a \in Nat
      BY <2>2, ColumnSums, GuardsAssumption
    <3> QED BY <1>3, <2>3, <2>4, <3>1, <3>2
  <2>6. ASSUME NEW j \in Invoices \ {i}
        PROVE  Column(payments', j) = Column(payments, j)
    BY <1>1, <1>2, <1>5, <2>1 DEF Column
  <2> QED BY <1>2, <1>3, <1>4, <1>5, <2>5, <2>6 DEF GuardsInv, Sound, PaymentsFit
<1>9. PaymentsPosted(payments, entries, queued)'
  BY <1>3, <1>4, <1>5 DEF GuardsInv, Sound, PaymentsPosted
<1>10. EntriesDistinct(entries)'
  BY <1>4 DEF GuardsInv, Sound
<1>11. EntriesRefer(invoices, payments, entries)'
  BY <1>1, <1>4, <1>5 DEF GuardsInv, Sound, EntriesRefer
<1>12. EntriesBalanced(invoices, payments, entries, queued)'
  BY <1>1, <1>3, <1>4, <1>5 DEF GuardsInv, Sound, EntriesBalanced, EntriesRefer
<1>13. Published'
  BY <1>1, <1>4, <1>5 DEF GuardsInv, Published
<1> QED BY <1>6, <1>7, <1>8, <1>9, <1>10, <1>11, <1>12, <1>13 DEF Kept, Sound

LEMMA InsertEntryKeeps ==
  ASSUME GuardsInv, NEW e \in EntryIds, NEW kind \in {"invoice", "payment"}, NEW i \in Invoices,
         NEW p \in PaymentIds \cup {0}, InsertEntry(e, kind, i, p), Bounded'
  PROVE  Kept'
<1> DEFINE row == [kind |-> kind, invoice |-> i, payment |-> p,
                   debit |-> NoLines, credit |-> NoLines]
<1>1. entries[e] = NoEntry
  BY DEF InsertEntry, Posted, EntryIds
<1>2. NoLines \in Lines
  BY GuardsAssumption DEF NoLines, Lines
<1>3. /\ row \in EntryRow /\ row # NoEntry
      /\ row.kind = kind /\ row.invoice = i /\ row.payment = p
  BY <1>2 DEF EntryRow, NoEntry
<1>4. /\ entries' = [entries EXCEPT ![e] = row]
      /\ queued' = queued \cup {<<"entry", e>>}
      /\ created' = created \cup {e}
      /\ invoices[i].status = "validated"
  BY DEF InsertEntry, EntryGuard, Validated
<1>5. /\ kind = "invoice" => InvoiceEntries(i) = {}
      /\ kind = "payment" => /\ p \in PaymentIds
                             /\ payments[p] # NoPayment
                             /\ payments[p].invoice = i
                             /\ PaymentEntries(p) = {}
  BY DEF InsertEntry, EntryGuard, Recorded
<1>6. UNCHANGED <<invoices, lines, payments, committed>>
  BY DEF InsertEntry
<1> HIDE DEF row
<1>7. /\ entries' \in [EntryIds -> EntryRow \cup {NoEntry}]
      /\ entries'[e] = row
      /\ \A f \in EntryIds \ {e} : entries'[f] = entries[f]
  BY <1>3, <1>4 DEF GuardsInv, Sound, Typed
<1>8. Typed(invoices, lines, payments, entries)'
  BY <1>6, <1>7 DEF GuardsInv, Sound, Typed
<1>9. DocumentsComplete(invoices, lines, entries, queued)'
  <2>1. NoEntry.kind # "invoice"
    BY DEF NoEntry
  <2>2. \A f \in EntryIds : entries[f].kind = "invoice" => entries'[f] = entries[f]
    BY <1>1, <1>7, <2>1
  <2> QED BY <1>4, <1>6, <2>2 DEF GuardsInv, Sound, DocumentsComplete
<1>10. PaymentsFit(invoices, payments)'
  BY <1>6 DEF GuardsInv, Sound
<1>11. PaymentsPosted(payments, entries, queued)'
  <2>1. NoEntry.kind # "payment"
    BY DEF NoEntry
  <2>2. \A f \in EntryIds : entries[f].kind = "payment" => entries'[f] = entries[f]
    BY <1>1, <1>7, <2>1
  <2> QED BY <1>4, <1>6, <2>2 DEF GuardsInv, Sound, PaymentsPosted
<1>12. EntriesDistinct(entries)'
  <2>1. NoEntry.kind = "absent"
    BY DEF NoEntry
  <2>2. \A f \in EntryIds \ {e} :
          /\ entries[f].kind = "invoice" /\ kind = "invoice" => entries[f].invoice # i
          /\ entries[f].kind = "payment" /\ kind = "payment" => entries[f].payment # p
    BY <1>5, <2>1 DEF InvoiceEntries, PaymentEntries, Posted
  <2> QED BY <1>3, <1>7, <2>2 DEF GuardsInv, Sound, EntriesDistinct
<1>13. EntriesRefer(invoices, payments, entries)'
  BY <1>3, <1>4, <1>5, <1>6, <1>7 DEF GuardsInv, Sound, EntriesRefer
<1>14. EntriesBalanced(invoices, payments, entries, queued)'
  BY <1>4, <1>6, <1>7 DEF GuardsInv, Sound, EntriesBalanced
<1>15. Published'
  BY <1>1, <1>3, <1>4, <1>6, <1>7 DEF GuardsInv, Published
<1> QED BY <1>8, <1>9, <1>10, <1>11, <1>12, <1>13, <1>14, <1>15 DEF Kept, Sound

\* One line more of an amount.
LEMMA CopyType ==
  ASSUME NEW some \in Lines, NEW a \in Amounts, some[a] < MaxCopies
  PROVE  [some EXCEPT ![a] = some[a] + 1] \in Lines
BY GuardsAssumption DEF Lines

LEMMA InsertEntryLineKeeps ==
  ASSUME GuardsInv, NEW e \in EntryIds, NEW side \in {"debit", "credit"}, NEW a \in Amounts,
         InsertEntryLine(e, side, a), Bounded'
  PROVE  Kept'
<1>1. entries[e] \in EntryRow /\ e \in created
  BY DEF InsertEntryLine, GuardsInv, Sound, Typed, Published
<1>2. /\ entries' = [entries EXCEPT ![e] = entries'[e]]
      /\ entries'[e] = [entries[e] EXCEPT ![side] = [entries[e][side] EXCEPT ![a] = entries[e][side][a] + 1]]
      /\ queued' = queued \cup {<<"entry", e>>}
  BY DEF InsertEntryLine, GuardsInv, Sound, Typed
<1>3. UNCHANGED <<invoices, lines, payments, created, committed>>
  BY DEF InsertEntryLine
<1>4. /\ entries'[e] \in EntryRow
      /\ entries'[e].kind = entries[e].kind
      /\ entries'[e].invoice = entries[e].invoice
      /\ entries'[e].payment = entries[e].payment
  <2>1. entries[e][side] \in Lines
    BY <1>1 DEF EntryRow
  <2>2. [entries[e][side] EXCEPT ![a] = entries[e][side][a] + 1] \in Lines
    BY <2>1, CopyType DEF InsertEntryLine
  <2> QED BY <1>1, <1>2, <2>2 DEF EntryRow
<1>5. entries'[e] # NoEntry
  BY <1>4 DEF EntryRow, NoEntry
<1>6. /\ entries' \in [EntryIds -> EntryRow \cup {NoEntry}]
      /\ \A f \in EntryIds \ {e} : entries'[f] = entries[f]
  BY <1>2, <1>4 DEF GuardsInv, Sound, Typed
<1>7. \A f \in EntryIds : /\ entries'[f].kind = entries[f].kind
                          /\ entries'[f].invoice = entries[f].invoice
                          /\ entries'[f].payment = entries[f].payment
                          /\ entries'[f] # NoEntry => entries[f] # NoEntry
  BY <1>1, <1>4, <1>6 DEF EntryRow, NoEntry
<1>8. Typed(invoices, lines, payments, entries)'
  BY <1>3, <1>6 DEF GuardsInv, Sound, Typed
<1>9. DocumentsComplete(invoices, lines, entries, queued)'
  BY <1>2, <1>3, <1>7 DEF GuardsInv, Sound, DocumentsComplete
<1>10. PaymentsFit(invoices, payments)'
  BY <1>3 DEF GuardsInv, Sound
<1>11. PaymentsPosted(payments, entries, queued)'
  BY <1>2, <1>3, <1>7 DEF GuardsInv, Sound, PaymentsPosted
<1>12. EntriesDistinct(entries)'
  BY <1>7 DEF GuardsInv, Sound, EntriesDistinct
<1>13. EntriesRefer(invoices, payments, entries)'
  BY <1>3, <1>7 DEF GuardsInv, Sound, EntriesRefer
<1>14. EntriesBalanced(invoices, payments, entries, queued)'
  BY <1>2, <1>3, <1>6 DEF GuardsInv, Sound, EntriesBalanced
<1>15. Published'
  BY <1>1, <1>3, <1>5, <1>6 DEF GuardsInv, Published, Bounded
<1> QED BY <1>8, <1>9, <1>10, <1>11, <1>12, <1>13, <1>14, <1>15 DEF Kept, Sound

(***************************************************************************)
(* The end of a transaction.                                               *)
(***************************************************************************)

\* A queue whose checks all pass can be forgotten.
LEMMA ChecksPass ==
  ASSUME GuardsInv, Committable
  PROVE  Sound(invoices, lines, payments, entries, {})
<1>1. ASSUME NEW i \in Invoices, <<"invoice", i>> \in queued
      PROVE  CheckDocument(i)
  <2>1. Passes(<<"invoice", i>>)
    BY <1>1 DEF Committable
  <2> QED BY <2>1 DEF Passes
<1>2. ASSUME NEW p \in PaymentIds, <<"payment", p>> \in queued
      PROVE  CheckPayment(p)
  <2>1. Passes(<<"payment", p>>)
    BY <1>2 DEF Committable
  <2> QED BY <2>1 DEF Passes
<1>3. ASSUME NEW e \in EntryIds, <<"entry", e>> \in queued
      PROVE  CheckEntry(e)
  <2>1. Passes(<<"entry", e>>)
    BY <1>3 DEF Committable
  <2> QED BY <2>1 DEF Passes
<1>4. DocumentsComplete(invoices, lines, entries, {})
  BY <1>1 DEF GuardsInv, Sound, DocumentsComplete, CheckDocument, Validated, InvoiceEntries, Posted
<1>5. PaymentsPosted(payments, entries, {})
  BY <1>2 DEF GuardsInv, Sound, PaymentsPosted, CheckPayment, PaymentEntries, Posted
<1>6. EntriesBalanced(invoices, payments, entries, {})
  BY <1>3 DEF GuardsInv, Sound, EntriesBalanced, EntriesRefer, CheckEntry, Expected
<1> QED BY <1>4, <1>5, <1>6 DEF GuardsInv, Sound

LEMMA CommitKeeps ==
  ASSUME GuardsInv, Commit
  PROVE  GuardsInv'
<1>1. Sound(invoices, lines, payments, entries, {})
  BY ChecksPass DEF Commit
<1>2. /\ UNCHANGED <<invoices, lines, payments, entries, closed>>
      /\ committed' = <<invoices, lines, payments, entries, closed>>
      /\ created' = {} /\ queued' = {} /\ statements' = 0
  BY DEF Commit, rows, Ended
<1>3. /\ committed'[1] = invoices /\ committed'[2] = lines /\ committed'[3] = payments
      /\ committed'[4] = entries /\ committed'[5] = closed
  BY <1>2
<1>4. Sound(invoices, lines, payments, entries, queued)'
  BY <1>1, <1>2
<1>5. Sound(committed[1], committed[2], committed[3], committed[4], {})'
  BY <1>1, <1>3
<1>6. Published'
  BY <1>2, <1>3 DEF Published
<1>7. Bounded'
  BY <1>2, <1>3 DEF GuardsInv, Bounded
<1> QED BY <1>4, <1>5, <1>6, <1>7 DEF GuardsInv

LEMMA RollbackKeeps ==
  ASSUME GuardsInv, Rollback
  PROVE  GuardsInv'
<1>1. /\ invoices' = committed[1] /\ lines' = committed[2] /\ payments' = committed[3]
      /\ entries' = committed[4] /\ closed' = committed[5] /\ committed' = committed
      /\ created' = {} /\ queued' = {} /\ statements' = 0
  BY DEF Rollback, Ended
<1>2. Sound(invoices, lines, payments, entries, queued)'
  BY <1>1 DEF GuardsInv
<1>3. Sound(committed[1], committed[2], committed[3], committed[4], {})'
  BY <1>1 DEF GuardsInv
<1>4. Published'
  BY <1>1 DEF Published
<1>5. Bounded'
  BY <1>1 DEF GuardsInv, Bounded
<1> QED BY <1>2, <1>3, <1>4, <1>5 DEF GuardsInv

LEMMA GuardsInit == Init => GuardsInv
<1> SUFFICES ASSUME Init PROVE GuardsInv
  OBVIOUS
<1>1. NoLines \in Lines
  BY GuardsAssumption DEF NoLines, Lines
<1>2. /\ NoInvoice.status # "validated"
      /\ NoEntry.kind = "absent"
  BY DEF NoInvoice, NoEntry
<1>3. Sound(invoices, lines, payments, entries, {})
  BY <1>1, <1>2 DEF Init, Sound, Typed, DocumentsComplete, PaymentsFit, PaymentsPosted,
                    EntriesDistinct, EntriesRefer, EntriesBalanced
<1>4. /\ committed[1] = invoices /\ committed[2] = lines /\ committed[3] = payments
      /\ committed[4] = entries /\ committed[5] = closed
  BY DEF Init, rows
<1>5. Published
  BY <1>4 DEF Init, Published
<1>6. Bounded
  BY <1>4 DEF Init, Bounded
<1>7. queued = {}
  BY DEF Init
<1> QED BY <1>3, <1>4, <1>5, <1>6, <1>7 DEF GuardsInv

LEMMA GuardsStep == GuardsInv /\ [Next]_guards => GuardsInv'
<1> SUFFICES ASSUME GuardsInv, [Next]_guards PROVE GuardsInv'
  OBVIOUS
<1>1. ASSUME NEW i \in Invoices, NEW row \in InvoiceRow, WriteInvoice(i, row)
      PROVE  GuardsInv'
  <2>1. Bounded'
    BY <1>1 DEF WriteInvoice, Statement, GuardsInv, Bounded
  <2>2. Kept'
    BY <1>1, <2>1, WriteInvoiceKeeps DEF WriteInvoice
  <2> QED BY <1>1, <2>2, StatementKeeps DEF WriteInvoice
<1>2. ASSUME NEW i \in Invoices, DeleteInvoice(i)
      PROVE  GuardsInv'
  <2>1. Bounded'
    BY <1>2 DEF DeleteInvoice, Statement, GuardsInv, Bounded
  <2>2. Kept'
    BY <1>2, <2>1, WriteInvoiceKeeps DEF DeleteInvoice
  <2> QED BY <1>2, <2>2, StatementKeeps DEF DeleteInvoice
<1>3. ASSUME NEW i \in Invoices, NEW a \in Amounts, InsertLine(i, a)
      PROVE  GuardsInv'
  <2>1. Bounded'
    BY <1>3 DEF InsertLine, Statement, GuardsInv, Bounded
  <2>2. lines' \in [Invoices -> Lines] /\ \A j \in Invoices \ {i} : lines'[j] = lines[j]
    <3>1. lines[i] \in Lines /\ lines[i][a] < MaxCopies
      BY <1>3 DEF InsertLine, GuardsInv, Sound, Typed
    <3>2. [lines[i] EXCEPT ![a] = lines[i][a] + 1] \in Lines
      BY <3>1, CopyType
    <3> QED BY <1>3, <3>2 DEF InsertLine, GuardsInv, Sound, Typed
  <2>3. Kept'
    BY <1>3, <2>1, <2>2, LinesKeep DEF InsertLine
  <2> QED BY <1>3, <2>3, StatementKeeps DEF InsertLine
<1>4. ASSUME NEW i \in Invoices, NEW a \in Amounts, DeleteLine(i, a)
      PROVE  GuardsInv'
  <2>1. Bounded'
    BY <1>4 DEF DeleteLine, Statement, GuardsInv, Bounded
  <2>2. lines' \in [Invoices -> Lines] /\ \A j \in Invoices \ {i} : lines'[j] = lines[j]
    <3>1. lines[i] \in Lines /\ lines[i][a] > 0
      BY <1>4 DEF DeleteLine, GuardsInv, Sound, Typed
    <3>2. [lines[i] EXCEPT ![a] = lines[i][a] - 1] \in Lines
      BY <3>1, GuardsAssumption DEF Lines
    <3> QED BY <1>4, <3>2 DEF DeleteLine, GuardsInv, Sound, Typed
  <2>3. invoices[i].status # "validated"
    BY <1>4 DEF DeleteLine, LineGuard, Validated
  <2>4. Kept'
    BY <1>4, <2>1, <2>2, <2>3, LinesKeep DEF DeleteLine
  <2> QED BY <1>4, <2>4, StatementKeeps DEF DeleteLine
<1>5. ASSUME NEW i \in Invoices, NEW p \in PaymentIds, NEW a \in Amounts, InsertPayment(p, i, a)
      PROVE  GuardsInv'
  <2>1. Bounded'
    BY <1>5 DEF InsertPayment, Statement, GuardsInv, Bounded
  <2>2. Kept'
    BY <1>5, <2>1, InsertPaymentKeeps
  <2> QED BY <1>5, <2>2, StatementKeeps DEF InsertPayment
<1>6. ASSUME NEW i \in Invoices, NEW e \in EntryIds, NEW kind \in {"invoice", "payment"},
             NEW p \in PaymentIds \cup {0}, InsertEntry(e, kind, i, p)
      PROVE  GuardsInv'
  <2>1. Bounded'
    BY <1>6 DEF InsertEntry, Statement, GuardsInv, Bounded
  <2>2. Kept'
    BY <1>6, <2>1, InsertEntryKeeps
  <2> QED BY <1>6, <2>2, StatementKeeps DEF InsertEntry
<1>7. ASSUME NEW e \in EntryIds, NEW side \in {"debit", "credit"}, NEW a \in Amounts,
             InsertEntryLine(e, side, a)
      PROVE  GuardsInv'
  <2>1. Bounded'
    BY <1>7 DEF InsertEntryLine, Statement, GuardsInv, Bounded
  <2>2. Kept'
    BY <1>7, <2>1, InsertEntryLineKeeps
  <2> QED BY <1>7, <2>2, StatementKeeps DEF InsertEntryLine
<1>8. CASE UpdatePeriod
  <2>1. Bounded'
    BY <1>8 DEF UpdatePeriod, Statement, GuardsInv, Bounded
  <2>2. Kept'
    BY <1>8, <2>1 DEF UpdatePeriod, Kept, GuardsInv, Published
  <2> QED BY <1>8, <2>2, StatementKeeps DEF UpdatePeriod
<1>9. CASE Commit
  BY <1>9, CommitKeeps
<1>10. CASE Rollback
  BY <1>10, RollbackKeeps
<1>11. CASE UNCHANGED guards
  BY <1>11 DEF guards, rows, GuardsInv, Published, Bounded
<1> QED
  BY <1>1, <1>2, <1>3, <1>4, <1>5, <1>6, <1>7, <1>8, <1>9, <1>10, <1>11 DEF Next

LEMMA GuardsInvariant == Spec => []GuardsInv
BY GuardsInit, GuardsStep, PTL DEF Spec

(***************************************************************************)
(* The properties.                                                         *)
(***************************************************************************)

\* Every table holds rows of its own shape, whatever statements are run.
THEOREM GuardsTypeCorrect == Spec => []TypeOK
<1>1. GuardsInv => TypeOK
  BY DEF GuardsInv, Sound, Typed, Bounded, TypeOK
<1> QED BY <1>1, GuardsInvariant, PTL

\* The committed books are sound: complete documents and entries that balance, one entry for
\* each document and each payment, and no invoice paid beyond its total, whoever writes.
THEOREM CommittedBooksAreSound == Spec => []CommittedBooksSound
<1>1. GuardsInv => CommittedBooksSound
  <2> SUFFICES ASSUME GuardsInv, statements = 0 PROVE BooksAreSound
    BY DEF CommittedBooksSound
  <2>1. queued = {}
    BY DEF GuardsInv, Bounded
  <2>2. NoEntry.kind = "absent"
    BY DEF NoEntry
  <2>3. ASSUME NEW i \in Validated
        PROVE  /\ CountOf(lines[i]) > 0
               /\ SumOf(lines[i]) = invoices[i].total
               /\ \E e \in EntryIds : InvoiceEntries(i) = {e}
               /\ Paid(i) <= invoices[i].total
    <3>1. i \in Invoices /\ invoices[i].status = "validated"
      BY DEF Validated
    <3>2. Paid(i) <= invoices[i].total
      BY <3>1 DEF GuardsInv, Sound, PaymentsFit, Paid, AmountsOf, Column
    <3>3. PICK e \in EntryIds : entries[e].kind = "invoice" /\ entries[e].invoice = i
      BY <2>1, <3>1 DEF GuardsInv, Sound, DocumentsComplete
    <3>4. InvoiceEntries(i) = {e}
      BY <2>2, <3>3 DEF InvoiceEntries, Posted, GuardsInv, Sound, EntriesDistinct
    <3> QED BY <2>1, <3>1, <3>2, <3>4 DEF GuardsInv, Sound, DocumentsComplete
  <2>4. ASSUME NEW p \in Recorded
        PROVE  /\ payments[p].invoice \in Validated
               /\ \E e \in EntryIds : /\ PaymentEntries(p) = {e}
                                      /\ entries[e].invoice = payments[p].invoice
    <3>1. p \in PaymentIds /\ payments[p] # NoPayment
      BY DEF Recorded
    <3>2. payments[p].invoice \in Validated
      BY <3>1 DEF GuardsInv, Sound, PaymentsFit, Validated
    <3>3. PICK e \in EntryIds : entries[e].kind = "payment" /\ entries[e].payment = p
      BY <2>1, <3>1 DEF GuardsInv, Sound, PaymentsPosted
    <3>4. PaymentEntries(p) = {e}
      BY <2>2, <3>3 DEF PaymentEntries, Posted, GuardsInv, Sound, EntriesDistinct
    <3>5. entries[e].invoice = payments[p].invoice
      BY <2>2, <3>3 DEF GuardsInv, Sound, EntriesRefer
    <3> QED BY <3>2, <3>4, <3>5
  <2>5. ASSUME NEW e \in Posted
        PROVE  CheckEntry(e)
    BY <2>1 DEF Posted, CheckEntry, Expected, GuardsInv, Sound, EntriesRefer, EntriesBalanced
  <2> QED BY <2>3, <2>4, <2>5 DEF BooksAreSound
<1> QED BY <1>1, GuardsInvariant, PTL

\* What was published stays what it is, in whatever transaction others try to change it.
THEOREM WhatIsPublishedStays == Spec => PublishedIsForever
<1>1. GuardsInv' /\ GuardsInv /\ [Next]_guards =>
        (statements' = 0 =>
           LET was == [invoices |-> committed[1], lines |-> committed[2],
                       payments |-> committed[3], entries |-> committed[4]]
           IN /\ \A i \in Invoices : was.invoices[i].status = "validated" =>
                   invoices'[i] = was.invoices[i] /\ lines'[i] = was.lines[i]
              /\ \A p \in PaymentIds : was.payments[p] # NoPayment =>
                   payments'[p] = was.payments[p]
              /\ \A e \in EntryIds : was.entries[e] # NoEntry =>
                   entries'[e] = was.entries[e])
  <2> SUFFICES ASSUME GuardsInv, [Next]_guards, statements' = 0
               PROVE  /\ \A i \in Invoices : committed[1][i].status = "validated" =>
                           invoices'[i] = committed[1][i] /\ lines'[i] = committed[2][i]
                      /\ \A p \in PaymentIds : committed[3][p] # NoPayment =>
                           payments'[p] = committed[3][p]
                      /\ \A e \in EntryIds : committed[4][e] # NoEntry =>
                           entries'[e] = committed[4][e]
    OBVIOUS
  <2>1. CASE UNCHANGED guards
    BY <2>1 DEF guards, rows, GuardsInv, Published
  <2>2. CASE Commit
    BY <2>2 DEF Commit, rows, GuardsInv, Published
  <2>3. CASE Rollback
    BY <2>3 DEF Rollback
  <2>4. Commit \/ Rollback \/ UNCHANGED guards
    <3>1. statements \in Nat
      BY DEF GuardsInv, Bounded
    <3>2. ~Statement
      BY <3>1 DEF Statement
    <3> QED
      BY <3>2 DEF Next, WriteInvoice, DeleteInvoice, InsertLine, DeleteLine, InsertPayment,
                  InsertEntry, InsertEntryLine, UpdatePeriod
  <2> QED BY <2>1, <2>2, <2>3, <2>4
<1> QED BY <1>1, GuardsInvariant, PTL DEF Spec, PublishedIsForever
=============================================================================
