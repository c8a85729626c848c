------------------------------- MODULE Pipeline -------------------------------
(* The board of deals (app/sales/pipeline.py) and the customers they are of    *)
(* (app/sales/customers.py): cards move between stages, every move leaves a    *)
(* row on the trail, a won card becomes one quotation, and who is named by a   *)
(* card is not retired.                                                        *)
(*                                                                             *)
(* A request reads when it begins and writes when it commits, and writes the   *)
(* columns whose value differs from the one it read.  A customer has one       *)
(* contact here, and names, values and currencies are left out.                *)
EXTENDS Integers, Sequences, FiniteSets

CONSTANTS
  Cards,     \* opportunity rows
  Customers, \* customer rows
  Stages,    \* stages of the board, by position
  Meaning,   \* Meaning[p]: what the stage at p is marked as: "open", "won" or "lost"
  Sessions,  \* concurrent requests
  Serial,    \* whether moves are one at a time, and so are new cards and retirements
  MaxMoves   \* moves of a card (a bound, not code)

Nowhere == 0
Nobody == "nobody"

BoardAssumption ==
  /\ Stages \subseteq Nat \ {0} /\ Meaning \in [Stages -> {"open", "won", "lost"}]
  /\ Serial \in BOOLEAN /\ MaxMoves \in Nat

VARIABLES
  stages,     \* the stages that are configured
  customers,  \* customers[c]: absent, live or retired
  contacts,   \* contacts[c]: how many primary contacts c has
  cards,      \* cards[o]: customer, stage, and whether a reason and a close are recorded
  trail,      \* trail[o]: the moves of o, in the order they were committed
  quotations, \* quotations[o]: the quotations that name o
  tx          \* tx[s]: the open request of s, and what it read

vars == <<stages, customers, contacts, cards, trail, quotations, tx>>

StageRows == Stages
CardRows == [customer : Customers \cup {Nobody}, stage : Stages \cup {Nowhere},
             reason : BOOLEAN, closed : BOOLEAN]
MoveRows == [from : Stages \cup {Nowhere}, to : Stages]
Absent == [customer |-> Nobody, stage |-> Nowhere, reason |-> FALSE, closed |-> FALSE]
Idle == [op |-> "none", card |-> Nobody, customer |-> Nobody, to |-> Nowhere, read |-> Absent]
Requests == [op : {"none", "move", "create", "retire", "convert"}, card : Cards \cup {Nobody},
             customer : Customers \cup {Nobody}, to : Stages \cup {Nowhere}, read : CardRows]

Init ==
  /\ stages = {}
  /\ customers = [c \in Customers |-> "absent"]
  /\ contacts = [c \in Customers |-> 0]
  /\ cards = [o \in Cards |-> Absent]
  /\ trail = [o \in Cards |-> <<>>]
  /\ quotations = [o \in Cards |-> 0]
  /\ tx = [s \in Sessions |-> Idle]

(* --------------------------------- the board ------------------------------- *)

DefineStage(p) ==
  /\ p \notin stages
  /\ stages' = stages \cup {p}
  /\ UNCHANGED <<customers, contacts, cards, trail, quotations, tx>>

(* remove_stage: one that no card stands in and no move names, which the       *)
(* foreign keys hold to at the commit.                                         *)
RemoveStage(p) ==
  /\ p \in stages
  /\ \A o \in Cards : \A i \in DOMAIN trail[o] : p \notin {trail[o][i].from, trail[o][i].to}
  /\ stages' = stages \ {p}
  /\ UNCHANGED <<customers, contacts, cards, trail, quotations, tx>>

First == CHOOSE p \in stages : \A q \in stages : p <= q

(* --------------------------------- customers ------------------------------- *)

CreateCustomer(c) ==
  /\ customers[c] = "absent"
  /\ customers' = [customers EXCEPT ![c] = "live"]
  /\ UNCHANGED <<stages, contacts, cards, trail, quotations, tx>>

(* add_contact as primary, with _demote of the one before it.                  *)
AddPrimary(c) ==
  /\ customers[c] = "live" /\ contacts[c] = 0
  /\ contacts' = [contacts EXCEPT ![c] = 1]
  /\ UNCHANGED <<stages, customers, cards, trail, quotations, tx>>

(* --------------------------------- requests -------------------------------- *)

Starts(s, request) ==
  /\ tx[s] = Idle
  /\ Serial => \A other \in Sessions :
       \/ tx[other] = Idle
       \/ tx[other].op = "convert" /\ request.op \in {"convert", "create", "retire"}
       \/ request.op = "convert" /\ tx[other].op \in {"create", "retire"}
  /\ tx' = [tx EXCEPT ![s] = request]
  /\ UNCHANGED <<stages, customers, contacts, cards, trail, quotations>>

(* What a request writes, it writes with the end of its transaction.           *)
Ends(s, op) ==
  /\ tx[s].op = op
  /\ tx' = [tx EXCEPT ![s] = Idle]

Abort(s) ==
  /\ tx[s] # Idle
  /\ tx' = [tx EXCEPT ![s] = Idle]
  /\ UNCHANGED <<stages, customers, contacts, cards, trail, quotations>>

(* create_opportunity: in the stage that is named, or else in the first.       *)
BeginCreate(s, o, c, p) ==
  /\ cards[o] = Absent /\ customers[c] = "live" /\ p \in stages
  /\ Meaning[p] = "lost" => p = First
  /\ Starts(s, [Idle EXCEPT !.op = "create", !.card = o, !.customer = c, !.to = p])

CommitCreate(s) ==
  LET o == tx[s].card IN
  /\ Ends(s, "create")
  /\ cards[o] = Absent /\ tx[s].to \in stages
  /\ cards' = [cards EXCEPT ![o] = [Absent EXCEPT !.customer = tx[s].customer, !.stage = tx[s].to]]
  /\ trail' = [trail EXCEPT ![o] = <<[from |-> Nowhere, to |-> tx[s].to]>>]
  /\ UNCHANGED <<stages, customers, contacts, quotations>>

(* move_opportunity, and lose_opportunity into the first lost stage.           *)
BeginMove(s, o, p) ==
  /\ cards[o] # Absent /\ p \in stages /\ Len(trail[o]) < MaxMoves
  /\ Starts(s, [Idle EXCEPT !.op = "move", !.card = o, !.to = p, !.read = cards[o]])

(* Mutant of MoveRow: the stage is assigned before the row is written.         *)
MutStageFirst(read, p) == [from |-> p, to |-> p]
MoveRow(read, p) == [from |-> read.stage, to |-> p]

(* Mutant of Moved: a card that is opened again keeps its reason.              *)
MutKeepReason(read, p) ==
  [read EXCEPT !.stage = p, !.reason = @ \/ Meaning[p] = "lost", !.closed = Meaning[p] # "open"]

(* What the stage says of the card.                                            *)
Moved(read, p) ==
  [read EXCEPT !.stage = p, !.reason = Meaning[p] = "lost", !.closed = Meaning[p] # "open"]

(* The flush writes the columns that changed.                                  *)
Written(row, read, new) == [column \in DOMAIN row |->
  IF new[column] # read[column] THEN new[column] ELSE row[column]]

CommitMove(s) ==
  LET o == tx[s].card  p == tx[s].to IN
  /\ Ends(s, "move")
  /\ p \in stages
  /\ cards' = [cards EXCEPT ![o] = Written(@, tx[s].read, Moved(tx[s].read, p))]
  /\ trail' = [trail EXCEPT ![o] = Append(@, MoveRow(tx[s].read, p))]
  /\ UNCHANGED <<stages, customers, contacts, quotations>>

(* convert_to_quotation: of a won card, once.                                  *)
BeginConvert(s, o) ==
  /\ cards[o] # Absent /\ Meaning[cards[o].stage] = "won" /\ quotations[o] = 0
  /\ customers[cards[o].customer] = "live"
  /\ Starts(s, [Idle EXCEPT !.op = "convert", !.card = o])

(* Mutant of OneWin: what was read decides.                                    *)
MutNoIndex(o) == TRUE

(* The unique index of quotations and opportunities.                           *)
OneWin(o) == quotations[o] = 0

CommitConvert(s) ==
  /\ Ends(s, "convert")
  /\ OneWin(tx[s].card)
  /\ quotations' = [quotations EXCEPT ![tx[s].card] = @ + 1]
  /\ UNCHANGED <<stages, customers, contacts, cards, trail>>

(* Mutant of NamedBy: the documents are looked at, and the board is not.       *)
MutDocumentsOnly(c) == {o \in Cards : cards[o].customer = c /\ quotations[o] > 0}

(* documents_naming: whatever points at the customer.                          *)
NamedBy(c) == {o \in Cards : cards[o].customer = c}

BeginRetire(s, c) ==
  /\ customers[c] = "live" /\ NamedBy(c) = {}
  /\ Starts(s, [Idle EXCEPT !.op = "retire", !.customer = c])

(* retire_customer                                                             *)
CommitRetire(s) ==
  /\ Ends(s, "retire")
  /\ customers' = [customers EXCEPT ![tx[s].customer] = "retired"]
  /\ UNCHANGED <<stages, contacts, cards, trail, quotations>>

Next ==
  \/ \E p \in Stages : DefineStage(p) \/ RemoveStage(p)
  \/ \E c \in Customers : CreateCustomer(c) \/ AddPrimary(c)
  \/ \E s \in Sessions :
       \/ \E o \in Cards, c \in Customers, p \in Stages : BeginCreate(s, o, c, p)
       \/ \E o \in Cards, p \in Stages : BeginMove(s, o, p)
       \/ \E o \in Cards : BeginConvert(s, o)
       \/ \E c \in Customers : BeginRetire(s, c)
       \/ CommitCreate(s) \/ CommitMove(s) \/ CommitConvert(s) \/ CommitRetire(s) \/ Abort(s)

Spec == Init /\ [][Next]_vars

(* -------------------------------- properties ------------------------------- *)

(* The stage, customer, contact, card and move rows.                           *)
TypeOK ==
  /\ stages \subseteq StageRows
  /\ customers \in [Customers -> {"absent", "live", "retired"}]
  /\ contacts \in [Customers -> 0..1]
  /\ cards \in [Cards -> CardRows]
  /\ \A o \in Cards : \A i \in DOMAIN trail[o] : trail[o][i] \in MoveRows
  /\ quotations \in [Cards -> Nat]
  /\ tx \in [Sessions -> Requests]

(* "Every move writes an opportunity_move row" (pipeline.py): the trail of a   *)
(* card is unbroken from its first stage to the one it stands in, and its      *)
(* close and its reason are those of that stage.                               *)
TrailTellsTheCard == \A o \in Cards : cards[o] # Absent =>
  /\ cards[o].stage = trail[o][Len(trail[o])].to
  /\ \A i \in 1..(Len(trail[o]) - 1) : trail[o][i].to = trail[o][i + 1].from
  /\ Len(trail[o]) > 1 =>
       /\ cards[o].reason = (Meaning[cards[o].stage] = "lost")
       /\ cards[o].closed = (Meaning[cards[o].stage] # "open")

(* "One win, one quotation" (quotations.py), however many requests convert it  *)
(* and wherever the card is moved to after.                                    *)
OneQuotationPerWin == \A o \in Cards : quotations[o] <= 1

(* A customer that a card or a quotation names is not retired (customers.py    *)
(* retire_customer).                                                           *)
NamedCustomersStand == \A o \in Cards : cards[o] # Absent => customers[cards[o].customer] = "live"
=============================================================================
