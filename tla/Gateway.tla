------------------------------- MODULE Gateway --------------------------------
(* Money in (app/ar/gateway.py over app/integrations.py and app/ar/invoices): *)
(* a payment gateway reports events, again until one is answered; an event is *)
(* filed once under its key, a payment once under its reference, and the      *)
(* payment settles the customer invoice it names or is parked for a person to *)
(* match.                                                                     *)
(*                                                                            *)
(* One request is one transaction.  Sessions read what is committed, wait for *)
(* each other at a unique index and at the locked row of an invoice.  An      *)
(* event whose key is on record is answered and changes nothing, so Receive   *)
(* takes the others.                                                          *)
EXTENDS Integers, FiniteSets, FiniteSetsExt

CONSTANTS
  Invoices, Gross,       \* customer invoices and what each is owed at first
  Payments, Amount, Bill,  \* payments, their amounts, the invoices they name
  Events, About,         \* events and the payment each describes
  FailedEvents,          \* the events that report a failure
  UnknownPayers,         \* the events that name a customer nobody knows
  Misdirected,           \* payments whose currency or payer is not the invoice's
  Hooks,                 \* the sessions that serve the webhook
  Matchers               \* the sessions in which a person matches a payment

None == "none"
GrossAssumption == Gross \in [Invoices -> Nat]
PaymentAssumption ==
  IsFiniteSet(Payments) /\ Amount \in [Payments -> Nat \ {0}] /\ Bill \in [Payments -> Invoices]
EventAssumption ==
  /\ None \notin Events /\ About \in [Events -> Payments]
  /\ FailedEvents \cup UnknownPayers \subseteq Events
SessionAssumption == Hooks \cap Matchers = {}

VARIABLES
  owed,      \* owed[i]: whether invoice i is posted
  inbox,     \* the InboundEvent rows
  status,    \* status[p]: the GatewayPayment row of p, or absent
  firstKey,  \* firstKey[p]: its event_key
  settled,   \* settled[p]: the settlement rows of p against its invoice
  tx         \* tx[s]: the open request of s

vars == <<owed, inbox, status, firstKey, settled, tx>>

Requesters == Hooks \cup Matchers
Idle == [at |-> "idle", event |-> None, payment |-> None, was |-> None, now |-> None]

Init ==
  /\ owed = [i \in Invoices |-> FALSE]
  /\ inbox = {}
  /\ status = [p \in Payments |-> "absent"]
  /\ firstKey = [p \in Payments |-> None]
  /\ settled = [p \in Payments |-> 0]
  /\ tx = [s \in Requesters |-> Idle]

Placed == {"settled", "partial"}

(* settled_amount and open_amount, from the committed settlements.            *)
SettledAmount(i) ==
  MapThenSumSet(LAMBDA p : settled[p] * Amount[p], {p \in Payments : Bill[p] = i})
OpenAmount(i) == Gross[i] - SettledAmount(i)

Goes(s, at) == tx' = [tx EXCEPT ![s].at = at]
Rows == <<owed, inbox, status, firstKey, settled>>

(* post_invoice makes an invoice owed.                                        *)
Post(i) ==
  /\ ~owed[i]
  /\ owed' = [owed EXCEPT ![i] = TRUE]
  /\ UNCHANGED <<inbox, status, firstKey, settled, tx>>

(* receive_inbound: the key is not on record.                                 *)
Receive(s, e) ==
  /\ s \in Hooks
  /\ tx[s] = Idle
  /\ e \notin inbox
  /\ tx' = [tx EXCEPT ![s] = [at |-> "event", event |-> e, payment |-> About[e],
                              was |-> None, now |-> None]]
  /\ UNCHANGED Rows

Filing(s) == tx[s].event # None /\ tx[s].at \notin {"event", "refused"}
Inserted(s) == Filing(s) /\ tx[s].at \notin {"lookup", "insert"} /\ tx[s].was = "absent"

(* The event is inserted: the index waits for a session that files the same   *)
(* key, and refuses it once that one has committed.                           *)
FileEvent(s) ==
  /\ tx[s].at = "event"
  /\ \A other \in Requesters : Filing(other) => tx[other].event # tx[s].event
  /\ IF tx[s].event \in inbox THEN Goes(s, "refused") ELSE Goes(s, "lookup")
  /\ UNCHANGED Rows

(* Mutant of LookUp: a second event posts the payment again.                  *)
MutPostAgain(s) ==
  LET p == tx[s].payment IN
  /\ tx[s].at = "lookup"
  /\ IF status[p] = "absent"
     THEN Goes(s, "insert")
     ELSE tx' = [tx EXCEPT ![s].at = "check", ![s].was = "parked", ![s].now = "parked"]
  /\ UNCHANGED Rows

(* _record: a payment that is known is answered from its row.                 *)
LookUp(s) ==
  LET p == tx[s].payment IN
  /\ tx[s].at = "lookup"
  /\ IF status[p] = "absent"
     THEN Goes(s, "insert")
     ELSE tx' = [tx EXCEPT ![s].at = "commit", ![s].was = status[p], ![s].now = status[p]]
  /\ UNCHANGED Rows

(* A payer nobody knows parks the payment; a failure is recorded; only the    *)
(* rest is looked at further (_attribute, _place).                            *)
Outcome(e) ==
  CASE e \in UnknownPayers -> [at |-> "commit", now |-> "parked"]
    [] e \in FailedEvents \ UnknownPayers -> [at |-> "commit", now |-> "failed"]
    [] OTHER -> [at |-> "check", now |-> "parked"]

(* Mutant of InsertPayment: a new payment starts in a state of its own.       *)
MutReceived(s) ==
  LET p == tx[s].payment IN
  /\ tx[s].at = "insert"
  /\ \A other \in Requesters : Inserted(other) => tx[other].payment # p
  /\ IF status[p] # "absent"
     THEN Goes(s, "refused")
     ELSE tx' = [tx EXCEPT ![s].was = "absent", ![s].at = "check", ![s].now = "received"]
  /\ UNCHANGED Rows

(* The payment is inserted, under the unique index on its reference.          *)
InsertPayment(s) ==
  LET p == tx[s].payment IN
  /\ tx[s].at = "insert"
  /\ \A other \in Requesters : Inserted(other) => tx[other].payment # p
  /\ IF status[p] # "absent"
     THEN Goes(s, "refused")
     ELSE tx' = [tx EXCEPT ![s].was = "absent", ![s].at = Outcome(tx[s].event).at,
                           ![s].now = Outcome(tx[s].event).now]
  /\ UNCHANGED Rows

(* match: a person takes up a payment, unless it is placed.                   *)
StartMatch(s, p) ==
  /\ s \in Matchers
  /\ tx[s] = Idle
  /\ status[p] \in {"parked", "failed"}
  /\ tx' = [tx EXCEPT ![s] = [at |-> "check", event |-> None, payment |-> p,
                              was |-> status[p], now |-> "parked"]]
  /\ UNCHANGED Rows

(* _checked: the invoice is owed, to this payer, and the amount is open.      *)
Placeable(p) == owed[Bill[p]] /\ p \notin Misdirected /\ Amount[p] <= OpenAmount(Bill[p])

(* Mutant of Check: what cannot be placed is refused instead of parked.       *)
MutRefuse(s) ==
  /\ tx[s].at = "check"
  /\ Goes(s, IF Placeable(tx[s].payment) THEN "settle" ELSE "refused")
  /\ UNCHANGED Rows
Check(s) ==
  /\ tx[s].at = "check"
  /\ Goes(s, IF Placeable(tx[s].payment) THEN "settle" ELSE "commit")
  /\ UNCHANGED Rows

Locked(i) == \E s \in Requesters : tx[s].now \in Placed /\ tx[s].was \notin Placed
                                   /\ tx[s].at = "commit" /\ Bill[tx[s].payment] = i

(* Mutants of Settle: the row is not locked, what is open not looked up again; *)
(* no index refuses a second settlement; a part payment is taken for a full    *)
(* one.                                                                       *)
MutUnlocked(s) ==
  LET p == tx[s].payment
      i == Bill[p]
  IN
  /\ tx[s].at = "settle"
  /\ tx' = [tx EXCEPT ![s].at = "commit",
                      ![s].now = IF Amount[p] = OpenAmount(i) THEN "settled" ELSE "partial"]
  /\ UNCHANGED Rows

MutNoIndex(s) ==
  LET p == tx[s].payment
      i == Bill[p]
  IN
  /\ tx[s].at = "settle"
  /\ ~Locked(i)
  /\ IF Amount[p] > OpenAmount(i)
     THEN Goes(s, "refused")
     ELSE tx' = [tx EXCEPT ![s].at = "commit",
                           ![s].now = IF Amount[p] = OpenAmount(i) THEN "settled" ELSE "partial"]
  /\ UNCHANGED Rows

MutSettledAlways(s) ==
  /\ tx[s].at = "settle"
  /\ ~Locked(Bill[tx[s].payment])
  /\ IF Amount[tx[s].payment] > OpenAmount(Bill[tx[s].payment]) \/ settled[tx[s].payment] > 0
     THEN Goes(s, "refused")
     ELSE tx' = [tx EXCEPT ![s].at = "commit", ![s].now = "settled"]
  /\ UNCHANGED Rows

(* settle: with the row of the invoice locked until the commit, more than is  *)
(* open is refused, and by uq_customer_settlement_once_per_source a second    *)
(* settlement of one payment; the request ends with it.                       *)
Settle(s) ==
  LET p == tx[s].payment
      i == Bill[p]
  IN
  /\ tx[s].at = "settle"
  /\ ~Locked(i)
  /\ IF Amount[p] > OpenAmount(i) \/ settled[p] > 0
     THEN Goes(s, "refused")
     ELSE tx' = [tx EXCEPT ![s].at = "commit",
                           ![s].now = IF Amount[p] = OpenAmount(i) THEN "settled" ELSE "partial"]
  /\ UNCHANGED Rows

Settles(s) == tx[s].now \in Placed /\ tx[s].was \notin Placed

(* Mutant of Commit: the webhook forgets the payment of a failed placement.   *)
MutCommitEvent(s) ==
  LET p == tx[s].payment IN
  /\ tx[s].at = "commit"
  /\ inbox' = IF tx[s].event = None THEN inbox ELSE inbox \cup {tx[s].event}
  /\ status' = IF Settles(s) THEN [status EXCEPT ![p] = tx[s].now] ELSE status
  /\ firstKey' = IF Settles(s) /\ tx[s].was = "absent"
                 THEN [firstKey EXCEPT ![p] = tx[s].event] ELSE firstKey
  /\ settled' = IF Settles(s) THEN [settled EXCEPT ![p] = @ + 1] ELSE settled
  /\ tx' = [tx EXCEPT ![s] = Idle]
  /\ UNCHANGED owed

(* The commit writes what the request changed: an attribute that was set to   *)
(* the value it had is not written.                                           *)
Commit(s) ==
  LET p == tx[s].payment IN
  /\ tx[s].at = "commit"
  /\ inbox' = IF tx[s].event = None THEN inbox ELSE inbox \cup {tx[s].event}
  /\ status' = IF tx[s].now # tx[s].was THEN [status EXCEPT ![p] = tx[s].now] ELSE status
  /\ firstKey' = IF tx[s].was = "absent" THEN [firstKey EXCEPT ![p] = tx[s].event] ELSE firstKey
  /\ settled' = IF Settles(s) THEN [settled EXCEPT ![p] = @ + 1] ELSE settled
  /\ tx' = [tx EXCEPT ![s] = Idle]
  /\ UNCHANGED owed

(* The error reaches the caller; nothing of the request remains.              *)
Answer(s) ==
  /\ tx[s].at = "refused"
  /\ tx' = [tx EXCEPT ![s] = Idle]
  /\ UNCHANGED Rows

(* The request dies before its commit.                                        *)
Fail(s) ==
  /\ tx[s] # Idle
  /\ tx' = [tx EXCEPT ![s] = Idle]
  /\ UNCHANGED Rows

Step(s) ==
  \/ FileEvent(s)
  \/ LookUp(s)
  \/ InsertPayment(s)
  \/ Check(s)
  \/ Settle(s)
  \/ Commit(s)
  \/ Answer(s)

Work ==
  \/ \E i \in Invoices : Post(i)
  \/ \E s \in Requesters :
       \/ \E e \in Events : Receive(s, e)
       \/ \E p \in Payments : StartMatch(s, p)
       \/ Step(s)

Next == Work \/ \E s \in Requesters : Fail(s)

Spec == Init /\ [][Next]_vars

(* The gateway reports an event until it is answered, requests end, and from  *)
(* some point on none dies.                                                   *)
FairSpec ==
  /\ Spec
  /\ \A s \in Requesters : WF_vars(Step(s))
  /\ \A e \in Events : WF_vars(\E s \in Hooks : Receive(s, e))
  /\ <>[][Work]_vars

(* -------------------------------- properties ------------------------------ *)

States == {"absent", "settled", "partial", "parked", "failed"}
Points == {"idle", "event", "lookup", "insert", "check", "settle", "commit", "refused"}

TypeOK ==
  /\ owed \in [Invoices -> BOOLEAN]
  /\ inbox \subseteq Events
  /\ status \in [Payments -> States]
  /\ firstKey \in [Payments -> Events \cup {None}]
  /\ settled \in [Payments -> Nat]
  /\ tx \in [Requesters -> [at : Points, event : Events \cup {None}, payment : Payments \cup {None},
                          was : States \cup {None}, now : States \cup {None}]]

(* "Two settlement writers must not both observe the same open amount and     *)
(* append settlements over it": an invoice is never over-settled.             *)
NeverOverSettled == \A i \in Invoices : OpenAmount(i) >= 0

(* "Stops one payment being settled twice", whatever the gateway repeats and  *)
(* however many people match it at once.                                      *)
SettledOnce == \A p \in Payments : settled[p] <= 1

(* What the report of the payments says is what happened to the money: placed *)
(* is settled, settled leaves nothing open on the invoice, and what settled is *)
(* told as placed.  Only a payment first reported as failed can be overtaken:  *)
(* a person who could not place it, and found it failed, writes "parked" over  *)
(* what another person has placed meanwhile (no row is locked by match).      *)
Overtaken(p) == firstKey[p] \in FailedEvents /\ status[p] = "parked"

StatusTellsTheMoney ==
  \A p \in Payments :
    /\ status[p] \in Placed => settled[p] > 0
    /\ settled[p] > 0 => \/ status[p] \in Placed
                         \/ Overtaken(p) /\ \E m, n \in Matchers : m # n
    /\ status[p] = "settled" => OpenAmount(Bill[p]) = 0

(* "A parked payment is not lost": a payment the gateway has reported, and    *)
(* was answered for, is on the books in some state.                           *)
AnsweredIsKnown == \A e \in inbox : status[About[e]] # "absent"

(* A gateway that repeats an event until it is answered is answered, however  *)
(* its requests collide.                                                      *)
EveryEventAnswered == \A e \in Events : <>(e \in inbox)
=============================================================================
