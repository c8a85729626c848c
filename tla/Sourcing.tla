------------------------------- MODULE Sourcing -------------------------------
(* From a need to an order (app/procurement/requisitions.py, rfq.py, portal.py, *)
(* suppliers.py, and the award of orders.py): a requisition is approved, asked  *)
(* of suppliers, answered by them and awarded; what was awarded is amended.     *)
(*                                                                              *)
(* A requisition has one line.  An award and an answer read when they begin and *)
(* write when they commit.  When an answer came, and taxes, are left out.       *)
EXTENDS Integers, FiniteSets, FiniteSetsExt

CONSTANTS
  Requisitions, \* requisition rows: 1 is raised first, n revises n - 1
  Rfqs,         \* rfq rows
  Orders,       \* purchase order rows
  Suppliers,    \* parties with the supplier role
  Contacts,     \* contacts of a supplier that are recorded as primary
  MaxQuantity,  \* the most that is asked for (a bound, not code)
  Serial,       \* whether awards, and answers and retirements, are one at a time
  Repeated      \* whether a requisition is asked about more than once

Free == "free"
None == 0
Quantities == 1..MaxQuantity

RowAssumption ==
  /\ IsFiniteSet(Requisitions) /\ Requisitions = 1..Cardinality(Requisitions)
  /\ Rfqs \subseteq Nat \ {0} /\ Orders \subseteq Nat \ {0}
  /\ Serial \in BOOLEAN /\ Repeated \in BOOLEAN /\ MaxQuantity \in Nat

VARIABLES
  requisitions, \* requisitions[n]: status and quantity
  rfqs,         \* rfqs[n]: the requisition asked about, the invited, open or not
  responses,    \* responses[n][p]: rows of the answer of p to rfq n
  orders,       \* orders[n]: rfq, quantity, status, the order it revises, override
  suppliers,    \* suppliers[p]: whether the profile is live, and its primary contacts
  awarding,     \* awards that began and did not commit
  answering     \* answers that began and did not commit: rfq and supplier

vars == <<requisitions, rfqs, responses, orders, suppliers, awarding, answering>>

RequisitionRows == [status : {Free, "draft", "pending", "approved", "rejected", "returned"},
                    quantity : 0..MaxQuantity]
RfqRows == [of : Requisitions \cup {None}, invited : SUBSET Suppliers, open : BOOLEAN]
OrderRows == [rfq : Rfqs \cup {None}, supplier : Suppliers \cup {None}, quantity : 0..MaxQuantity,
              status : {Free, "draft", "released", "refused"}, revises : Orders \cup {None},
              override : BOOLEAN]
SupplierRows == [live : BOOLEAN, primary : SUBSET Contacts]
Awards == [rfq : Rfqs, supplier : Suppliers, quantity : Quantities, override : BOOLEAN]

NoOrder == [rfq |-> None, supplier |-> None, quantity |-> 0, status |-> Free,
            revises |-> None, override |-> FALSE]

Init ==
  /\ requisitions = [n \in Requisitions |-> [status |-> Free, quantity |-> 0]]
  /\ rfqs = [n \in Rfqs |-> [of |-> None, invited |-> {}, open |-> FALSE]]
  /\ responses = [n \in Rfqs |-> [p \in Suppliers |-> 0]]
  /\ orders = [n \in Orders |-> NoOrder]
  /\ suppliers = [p \in Suppliers |-> [live |-> TRUE, primary |-> {}]]
  /\ awarding = {}
  /\ answering = {}

Total(S, f(_)) == MapThenSumSet(f, S)

(* -------------------------------- requisitions ----------------------------- *)

SetStatus(n, status) ==
  /\ requisitions' = [requisitions EXCEPT ![n].status = status]
  /\ UNCHANGED <<rfqs, responses, orders, suppliers, awarding, answering>>

(* create_requisition with its line, or revise, which copies the lines of one  *)
(* that is no longer a draft, once; a draft may then be changed.               *)
Raise(n, quantity) ==
  /\ requisitions[n].status = Free
  /\ n > 1 => requisitions[n - 1].status \notin {Free, "draft"}
  /\ requisitions' = [requisitions EXCEPT ![n] = [status |-> "draft", quantity |-> quantity]]
  /\ UNCHANGED <<rfqs, responses, orders, suppliers, awarding, answering>>

(* submit: without a level that applies it is approved at once.                *)
Submit(n, routed) ==
  /\ requisitions[n].status = "draft"
  /\ SetStatus(n, IF routed THEN "pending" ELSE "approved")

(* record_decision: the one that ends the chain (module Approval).             *)
Decide(n, outcome) ==
  /\ requisitions[n].status = "pending"
  /\ SetStatus(n, outcome)

(* require_sourceable                                                          *)
Sourceable(n) == requisitions[n].status = "approved"

(* ------------------------------ asked and answered ------------------------- *)

(* issue_rfq copies the line of an approved requisition.                       *)
IssueRfq(n, r, invited) ==
  /\ rfqs[n].of = None
  /\ Sourceable(r)
  /\ ~Repeated => \A m \in Rfqs : rfqs[m].of # r
  /\ \A p \in invited : suppliers[p].live
  /\ rfqs' = [rfqs EXCEPT ![n] = [of |-> r, invited |-> invited, open |-> TRUE]]
  /\ UNCHANGED <<requisitions, responses, orders, suppliers, awarding, answering>>

CloseRfq(n) ==
  /\ rfqs[n].open
  /\ rfqs' = [rfqs EXCEPT ![n].open = FALSE]
  /\ UNCHANGED <<requisitions, responses, orders, suppliers, awarding, answering>>

(* record_response, by a buyer or by the supplier itself through the portal:   *)
(* of an invited supplier that did not answer yet.                             *)
BeginResponse(n, p) ==
  /\ rfqs[n].open
  /\ p \in rfqs[n].invited /\ suppliers[p].live
  /\ responses[n][p] = 0
  /\ \E by \in {"buyer", "portal"} :
       /\ <<n, p, by>> \notin answering
       /\ answering' = answering \cup {<<n, p, by>>}
  /\ UNCHANGED <<requisitions, rfqs, responses, orders, suppliers, awarding>>

(* Mutant of CommitResponse: only what was read decides.                       *)
MutNoIndex(n, p, by) ==
  /\ <<n, p, by>> \in answering
  /\ responses' = [responses EXCEPT ![n][p] = @ + 1]
  /\ answering' = answering \ {<<n, p, by>>}
  /\ UNCHANGED <<requisitions, rfqs, orders, suppliers, awarding>>

(* The unique index of rfq and supplier decides between two.                   *)
CommitResponse(n, p, by) ==
  /\ <<n, p, by>> \in answering
  /\ responses[n][p] = 0
  /\ responses' = [responses EXCEPT ![n][p] = 1]
  /\ answering' = answering \ {<<n, p, by>>}
  /\ UNCHANGED <<requisitions, rfqs, orders, suppliers, awarding>>

AbortResponse(n, p, by) ==
  /\ <<n, p, by>> \in answering
  /\ answering' = answering \ {<<n, p, by>>}
  /\ UNCHANGED <<requisitions, rfqs, responses, orders, suppliers, awarding>>

(* ----------------------------------- awards -------------------------------- *)

Asked(n) == requisitions[rfqs[n].of].quantity

(* Mutant of AwardedQuantity: what was released is looked at.                  *)
MutReleased(n) == Total({o \in Orders : orders[o].rfq = n /\ orders[o].status = "released"},
                        LAMBDA o : orders[o].quantity)

(* awarded_quantity: the lines of every order of the rfq, whatever became of it. *)
AwardedQuantity(n) == Total({o \in Orders : orders[o].rfq = n}, LAMBDA o : orders[o].quantity)

(* Mutant of WithinAsked: the award alone is compared.                         *)
MutAwardAlone(n, quantity) == quantity <= Asked(n)

(* remaining_awardable                                                         *)
WithinAsked(n, quantity) == AwardedQuantity(n) + quantity <= Asked(n)

(* award: to who answered, within what was asked or with a reason.             *)
BeginAward(n, p, quantity, override) ==
  /\ rfqs[n].of # None /\ Sourceable(rfqs[n].of)
  /\ suppliers[p].live /\ responses[n][p] > 0
  /\ override = ~WithinAsked(n, quantity)
     \* a reason that is not needed tells nothing apart
  /\ Serial => awarding = {}
  /\ awarding' = awarding \cup {[rfq |-> n, supplier |-> p, quantity |-> quantity,
                                 override |-> override]}
  /\ UNCHANGED <<requisitions, rfqs, responses, orders, suppliers, answering>>

NewOrders == {o \in Orders : orders[o].status = Free}

CommitAward(a) ==
  /\ a \in awarding /\ NewOrders # {}
  /\ orders' = [orders EXCEPT ![Min(NewOrders)] =
       [NoOrder EXCEPT !.rfq = a.rfq, !.supplier = a.supplier, !.quantity = a.quantity,
                       !.status = "draft", !.override = a.override]]
  /\ awarding' = awarding \ {a}
  /\ UNCHANGED <<requisitions, rfqs, responses, suppliers, answering>>

AbortAward(a) ==
  /\ a \in awarding
  /\ awarding' = awarding \ {a}
  /\ UNCHANGED <<requisitions, rfqs, responses, orders, suppliers, answering>>

(* submit_order and decide_order (module PurchaseReceipts).                    *)
EndApproval(o, status) ==
  /\ orders[o].status = "draft"
  /\ orders' = [orders EXCEPT ![o].status = status]
  /\ UNCHANGED <<requisitions, rfqs, responses, suppliers, awarding, answering>>

(* amend: a new draft of the same lines, once, at a quantity that is stated.   *)
Amend(o, quantity) ==
  /\ orders[o].status \notin {Free, "draft"} /\ NewOrders # {}
  /\ \A other \in Orders : orders[other].revises # o
  /\ orders' = [orders EXCEPT ![Min(NewOrders)] =
       [orders[o] EXCEPT !.quantity = quantity, !.status = "draft", !.revises = o,
                         !.override = FALSE]]
  /\ UNCHANGED <<requisitions, rfqs, responses, suppliers, awarding, answering>>

(* --------------------------------- suppliers ------------------------------- *)

(* add_contact and add_bank_account: a new primary demotes the one before it.  *)
AddPrimary(p, c) ==
  /\ suppliers[p].live /\ c \notin suppliers[p].primary
  /\ suppliers' = [suppliers EXCEPT ![p].primary = {c}]
  /\ UNCHANGED <<requisitions, rfqs, responses, orders, awarding, answering>>

(* Mutant of NamedBy: the orders are looked at.                                *)
MutOrdersOnly(p) == {o \in Orders : orders[o].supplier = p}

(* documents_naming: what points at the supplier.                              *)
NamedBy(p) == {o \in Orders : orders[o].supplier = p} \cup {n \in Rfqs : p \in rfqs[n].invited}

RetireSupplier(p) ==
  /\ suppliers[p].live /\ NamedBy(p) = {}
  /\ suppliers' = [suppliers EXCEPT ![p].live = FALSE]
  /\ UNCHANGED <<requisitions, rfqs, responses, orders, awarding, answering>>

Next ==
  \/ \E n \in Requisitions :
       \/ \E quantity \in Quantities : Raise(n, quantity)
       \/ \E routed \in BOOLEAN : Submit(n, routed)
       \/ \E outcome \in {"approved", "rejected", "returned"} : Decide(n, outcome)
  \/ \E n \in Rfqs :
       \/ \E r \in Requisitions, invited \in SUBSET Suppliers \ {{}} : IssueRfq(n, r, invited)
       \/ CloseRfq(n)
       \/ \E p \in Suppliers :
            \/ BeginResponse(n, p)
            \/ \E by \in {"buyer", "portal"} : CommitResponse(n, p, by) \/ AbortResponse(n, p, by)
            \/ \E quantity \in Quantities, override \in BOOLEAN :
                 BeginAward(n, p, quantity, override)
  \/ \E a \in awarding : CommitAward(a) \/ AbortAward(a)
  \/ \E o \in Orders :
       \/ \E status \in {"released", "refused"} : EndApproval(o, status)
       \/ \E quantity \in Quantities : Amend(o, quantity)
  \/ \E p \in Suppliers : RetireSupplier(p) \/ \E c \in Contacts : AddPrimary(p, c)

Spec == Init /\ [][Next]_vars

(* -------------------------------- properties ------------------------------- *)

(* The requisition, rfq, answer, order and supplier rows.                      *)
TypeOK ==
  /\ requisitions \in [Requisitions -> RequisitionRows]
  /\ rfqs \in [Rfqs -> RfqRows]
  /\ responses \in [Rfqs -> [Suppliers -> Nat]]
  /\ orders \in [Orders -> OrderRows]
  /\ suppliers \in [Suppliers -> SupplierRows]
  /\ awarding \subseteq Awards

(* "One response per invited supplier" (rfq.py), when the buyer records it and *)
(* the supplier sends it at the same time.                                     *)
OneAnswer == \A n \in Rfqs, p \in Suppliers : responses[n][p] <= 1

(* "The requisitioned quantity is the ceiling" (orders.py): what was awarded   *)
(* of a requisition is within it, or an order states why not.                  *)
CeilingHolds == \A r \in Requisitions :
  LET awarded == {o \in Orders : orders[o].rfq # None /\ orders[o].revises = None
                                 /\ rfqs[orders[o].rfq].of = r}
  IN Total(awarded, LAMBDA o : orders[o].quantity) > requisitions[r].quantity
       => \E o \in awarded : orders[o].override

(* "The row has to stay for the orders and invoices filed under it"            *)
(* (suppliers.py): who is invited or has an order is not retired.              *)
NamedSuppliersStand ==
  /\ \A n \in Rfqs : \A p \in rfqs[n].invited : suppliers[p].live
  /\ \A o \in Orders : orders[o].supplier # None => suppliers[orders[o].supplier].live

(* "The rest of a line is genuinely available to award to somebody else, or    *)
(* later" (orders.py): what no standing order takes needs no override.  An     *)
(* amended order and its revision are both counted, and so is a refused one.   *)
RestIsAwardable == \A n \in Rfqs : rfqs[n].of # None =>
  LET standing == {o \in Orders : /\ orders[o].rfq = n /\ orders[o].status # "refused"
                                  /\ \A later \in Orders : orders[later].revises # o}
  IN AwardedQuantity(n) <= Total(standing, LAMBDA o : orders[o].quantity)
=============================================================================
