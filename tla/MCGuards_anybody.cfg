\* Long transactions of anybody, over one invoice.
SPECIFICATION Spec
CONSTANTS
  Invoices = {i1}
  MaxPayments = 2
  MaxEntries = 3
  MaxCopies = 2
  Amounts = {1, 2}
  MaxStatements = 8
  Nobody = Nobody
INVARIANTS
  CommittedBooksSound
PROPERTIES
  PublishedIsForever
