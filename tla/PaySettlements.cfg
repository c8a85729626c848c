SPECIFICATION Spec
CONSTANTS
  i1 = i1
  i2 = i2
  n1 = n1
  n2 = n2
  clerk = clerk
  Invoices <- MCInvoices
  Gross <- MCGross
  Bought <- MCBought
  Posted <- FirstPosted
  Batches = {p1}
  Selections <- MCSelections
  ApprovalFrom = 2
  Notes <- MCNotes
  NoteOf <- MCNoteOf
  NoteGross <- MCNoteGross
  NoteLines <- MCNoteLines
  Override <- MCOverride
  Stocked = 2
  Sessions = {clerk, s1}
  Duties <- EveryDuty
  Free = free
INVARIANTS
  SettledWithinGross
  BatchesHold
\* the requests may all have ended
CHECK_DEADLOCK FALSE
