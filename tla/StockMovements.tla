--------------------------- MODULE StockMovements ---------------------------
(* The arithmetic of the stock ledger (app/stock/entries.py): what one        *)
(* movement does to every quantity on_hand can be asked for.                  *)
(*                                                                            *)
(* The ledger's rows are abstracted to the answers of on_hand: one quantity   *)
(* per bin and per narrowing.  A narrowing is Untagged (on_hand with no       *)
(* variant and no batch: every row of the bin counts) or one tag (a variant   *)
(* or a batch: only the rows carrying it count).  One item is modelled: rows, *)
(* queries and lock keys of different items never meet.                       *)
EXTENDS Integers, Sequences

CONSTANTS
  Bins,          \* the leaf locations stock sits in
  Tags,          \* the variants (or batches) a movement may name
  Untagged,      \* "no variant, no batch named"
  StandardCost   \* the item's standard cost: what value_issue charges per unit

ASSUME TagsAssumption == Untagged \notin Tags
ASSUME CostAssumption == StandardCost \in Nat \ {0}

Narrowings == Tags \cup {Untagged}

Receive  == "receive"
Issue    == "issue"
Transfer == "transfer"

(* One line of a document: the call receive, issue or transfer makes for it.  *)
(* A receipt uses only "to", an issue only "from"; value is the stated value  *)
(* of a receipt and is ignored by the other two.                              *)
Lines == [kind : {Receive, Issue, Transfer}, from : Bins, to : Bins,
          tag : Narrowings, qty : Nat \ {0}, value : Nat]

Arrives(line) == line.kind \in {Receive, Transfer}
Leaves(line)  == line.kind \in {Issue, Transfer}

(* A row with this tag is summed by on_hand for this narrowing.               *)
Counts(tag, q) == q = tag \/ q = Untagged

(* The signed quantity the rows of one line add to on_hand(b, q).             *)
Delta(line, b, q) ==
  IF Counts(line.tag, q)
  THEN (IF Arrives(line) /\ b = line.to THEN line.qty ELSE 0)
       - (IF Leaves(line) /\ b = line.from THEN line.qty ELSE 0)
  ELSE 0

NoMovement == [b \in Bins |-> [q \in Narrowings |-> 0]]

(* The rows of one line are appended.                                         *)
Moved(held, line) ==
  [b \in Bins |-> [q \in Narrowings |-> held[b][q] + Delta(line, b, q)]]

(* Two sets of rows read together.                                            *)
Together(held, more) ==
  [b \in Bins |-> [q \in Narrowings |-> held[b][q] + more[b][q]]]

(* The value a line adds to the stock ledger, both halves of a transfer       *)
(* together: value_issue prices what leaves at the standard cost.             *)
LineValue(line) ==
  CASE line.kind = Receive  -> line.value
    [] line.kind = Issue    -> -(line.qty * StandardCost)
    [] line.kind = Transfer -> 0

(* What the functions refuse whatever the ledger holds: a transfer within one *)
(* bin, and a receipt without value (its journal lines would be zero).        *)
WellFormed(line) ==
  /\ line.kind = Transfer => line.from # line.to
  /\ line.kind = Receive => line.value > 0

(* The check of issue and transfer: the bin holds the quantity.               *)
Covered(held, line) == Leaves(line) => held[line.from][line.tag] >= line.qty
=============================================================================
