----------------------------- MODULE MCPayables -----------------------------
(* Small instances of Payables for TLC: two invoices of 2, batches of one or  *)
(* of both, a note of a return and one for more than the invoice is for.      *)
(* The clerk posts and executes; the other sessions work on the batches.      *)
EXTENDS Payables

CONSTANTS i1, i2, n1, n2, clerk

MCInvoices == {i1, i2}
MCGross == [i \in Invoices |-> 2]
MCBought == [i \in Invoices |-> 2]
FirstPosted == {i1}
MCSelections == {{i1}, {i1, i2}}

MCNotes == {n1, n2}
MCNoteOf == [n \in Notes |-> i1]
MCNoteGross == [n \in Notes |-> IF n = n1 THEN 1 ELSE 3]
MCNoteLines == [n \in Notes |-> IF n = n1 THEN <<1>> ELSE <<>>]
MCOverride == Notes \ {n1}

AllBatchDuties == {"create", "remove", "submit", "decide", "execute"}
EveryDuty ==
  [s \in Sessions |-> IF s = clerk THEN {"post", "note", "execute"} ELSE AllBatchDuties]
=============================================================================
