----------------------------- MODULE AtomicStock -----------------------------
(* What the stock transactions of app/stock/transactions.py promise their     *)
(* callers: a document moves stock as a whole or not at all, it never takes   *)
(* from a bin more than the bin holds, and the inventory account moves by the *)
(* value the stock ledger moves by.  StockLedger is shown to implement it.    *)
EXTENDS StockMovements

CONSTANTS Documents, Origin

VARIABLES
  stock,      \* on_hand: quantity per bin and narrowing
  worth,      \* the summed value of the stock ledger
  inventory   \* the balance of the GL inventory account

vars == <<stock, worth, inventory>>

Init ==
  /\ stock = Origin
  /\ worth = 0
  /\ inventory = 0

(* The stock after the first n lines of a document.                           *)
After(doc) ==
  LET upTo[n \in 0..Len(doc)] == IF n = 0 THEN stock ELSE Moved(upTo[n-1], doc[n])
  IN  upTo

DocumentValue(doc) ==
  LET upTo[n \in 0..Len(doc)] == IF n = 0 THEN 0 ELSE upTo[n-1] + LineValue(doc[n])
  IN  upTo[Len(doc)]

Apply(doc) ==
  /\ \A n \in 1..Len(doc) : WellFormed(doc[n]) /\ Covered(After(doc)[n-1], doc[n])
  /\ stock' = After(doc)[Len(doc)]
  /\ worth' = worth + DocumentValue(doc)
  /\ inventory' = inventory + DocumentValue(doc)

Next == \E doc \in Documents : Apply(doc)

Spec == Init /\ [][Next]_vars
=============================================================================
