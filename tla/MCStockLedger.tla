---------------------------- MODULE MCStockLedger ----------------------------
(* Small instances of StockLedger for TLC.                                    *)
EXTENDS StockLedger

CONSTANTS b1, b2, lot1, lot2

R(b, t, n) == [kind |-> Receive, from |-> b, to |-> b, tag |-> t, qty |-> n, value |-> 3 * n]
I(b, t, n) == [kind |-> Issue, from |-> b, to |-> b, tag |-> t, qty |-> n, value |-> 0]
T(a, b, t, n) == [kind |-> Transfer, from |-> a, to |-> b, tag |-> t, qty |-> n, value |-> 0]

MCBins == {b1, b2}
MCKeyOrder == [k \in Keys |-> (IF k[1] = b1 THEN 0 ELSE 1) + (IF k[2] = lot1 THEN 0 ELSE 2)]

Opening(n, m) ==
  [b \in Bins |-> [q \in Narrowings |->
     IF q = Untagged /\ Tags # {} THEN n + m ELSE IF q = lot2 THEN m ELSE n]]
MCOriginTagged == Opening(2, 1)
MCOriginPlain == Opening(2, 0)

(* A batch-tracked item: every movement names its batch.  Transfers in both   *)
(* directions, documents that lock two buckets in opposite orders.            *)
MCTags == {lot1, lot2}
MCDocumentsTagged ==
  { <<R(b1, lot1, 1)>>, <<I(b1, lot1, 2)>>, <<T(b1, b2, lot1, 1)>>, <<T(b2, b1, lot1, 2)>>,
    <<I(b1, lot1, 1), I(b1, lot2, 1)>>, <<I(b1, lot2, 1), I(b1, lot1, 1)>>,
    <<T(b2, b1, lot1, 2), I(b1, lot1, 2)>>, <<T(b1, b1, lot2, 1)>> }

(* An item with variants, some of whose movements do not name theirs.         *)
OneTag == {lot1}
MixedCarried == {lot1, Untagged}
MCDocumentsMixed ==
  { <<I(b1, lot1, 1)>>, <<I(b1, Untagged, 2)>>, <<R(b1, lot1, 1)>> }
=============================================================================
