-------------------------------- MODULE Coupons --------------------------------
(* Prices and what is taken off them (app/sales/pricing.py, campaigns.py): the  *)
(* first of the rules that match decides the price of a line, and coupons are   *)
(* redeemed on a document.                                                      *)
(*                                                                              *)
(* A redemption counts what it read when it began and is written when it        *)
(* commits.  Rules and coupons are defined once and are never changed.          *)
EXTENDS Integers, FiniteSets, FiniteSetsExt

CONSTANTS
  Rules,       \* Rules[n]: priority, item, tier, campaign, floor, ceiling and cut of rule n
  Offers,      \* Offers[c]: allowance, limit or Null, first and last day, and cut of coupon c
  Documents,   \* the documents that coupons are redeemed on, and lines are priced of
  Asked,       \* what lines ask the price of: item, tier, campaign and quantity
  BasePrice,   \* the base price of a line and of a document
  Sessions,    \* concurrent requests
  Serial,      \* whether redemptions are one at a time
  LastDay      \* the last day (a bound, not code)

Null == -1
Nobody == "none"
Numbers == DOMAIN Rules
Codes == DOMAIN Offers

OfferAssumption ==
  /\ Numbers \subseteq Nat /\ IsFiniteSet(Numbers)
  /\ IsFiniteSet(Codes) /\ IsFiniteSet(Documents)
  /\ \A c \in Codes : /\ Offers[c].allowance \in Nat \ {0} /\ Offers[c].cut \in Nat
                      /\ Offers[c].limit \in {Null} \cup (Nat \ {0})
  /\ \A n \in Numbers : /\ Rules[n].priority \in Int
                        /\ Rules[n].floor \in Nat \ {0} /\ Rules[n].cut \in Nat
  /\ LastDay \in Nat /\ BasePrice \in Nat /\ Serial \in BOOLEAN

VARIABLES
  today,
  rules,     \* the rules that are defined
  coupons,   \* the coupons that are defined
  lines,     \* lines[d]: the priced line of d: what it asked, the rule, and those defined then
  redeemed,  \* redeemed[d][c]: the redemption rows of coupon c on document d
  tx         \* tx[s]: the redemption that s is about to commit

vars == <<today, rules, coupons, lines, redeemed, tx>>

Idle == [coupon |-> Null, document |-> Nobody]
RuleRows == Numbers
CouponRows == Codes
RedemptionRows == [coupon : Codes \cup {Null}, document : Documents \cup {Nobody}]
NoAsk == [item |-> Null, tier |-> Null, campaign |-> Null, quantity |-> 0]
NoLine == [asked |-> NoAsk, rule |-> Null, known |-> {}]

Init ==
  /\ today = 0
  /\ rules = {}
  /\ coupons = {}
  /\ lines = [d \in Documents |-> NoLine]
  /\ redeemed = [d \in Documents |-> [c \in Codes |-> 0]]
  /\ tx = [s \in Sessions |-> Idle]

NextDay ==
  /\ today < LastDay
  /\ today' = today + 1
  /\ UNCHANGED <<rules, coupons, lines, redeemed, tx>>

(* ---------------------------------- prices --------------------------------- *)

DefineRule(n) ==
  /\ n \notin rules
  /\ rules' = rules \cup {n}
  /\ UNCHANGED <<today, coupons, lines, redeemed, tx>>

(* _matches: a dimension that is left open matches whatever is asked.          *)
Matches(n, asked) ==
  /\ \A dimension \in {"item", "tier", "campaign"} :
       Rules[n][dimension] \in {Null, asked[dimension]}
  /\ Rules[n].floor <= asked.quantity
  /\ Rules[n].ceiling # Null => asked.quantity <= Rules[n].ceiling

Scoped(n, dimension) == IF Rules[n][dimension] = Null THEN 1 ELSE 0

(* Mutant of OrderKey: the wider band of two comes first.                      *)
MutWiderBand(n) == <<Rules[n].priority, Scoped(n, "item"), Scoped(n, "tier"),
                     Scoped(n, "campaign"), Rules[n].floor, n>>

(* _order_key; a rule's number stands for its code.                            *)
OrderKey(n) == <<Rules[n].priority, Scoped(n, "item"), Scoped(n, "tier"),
                 Scoped(n, "campaign"), -Rules[n].floor, n>>

Before(key, other) == \E i \in DOMAIN key :
  key[i] < other[i] /\ \A j \in 1..(i - 1) : key[j] = other[j]

(* price_for: a cut is not more than the price.                                *)
Affordable(cut) == cut <= BasePrice

(* resolve_price and price_quote_line, with the rule it records.               *)
PriceLine(d, asked) ==
  LET matched == {n \in rules : Matches(n, asked)}
      winner == CHOOSE n \in matched : \A m \in matched \ {n} : Before(OrderKey(n), OrderKey(m))
  IN /\ lines[d] = NoLine
     /\ matched # {} => Affordable(Rules[winner].cut)
     /\ lines' = [lines EXCEPT ![d] = [asked |-> asked, known |-> rules,
                                       rule |-> IF matched = {} THEN Null ELSE winner]]
     /\ UNCHANGED <<today, rules, coupons, redeemed, tx>>

(* --------------------------------- coupons --------------------------------- *)

DefineCoupon(c) ==
  /\ c \notin coupons
  /\ coupons' = coupons \cup {c}
  /\ UNCHANGED <<today, rules, lines, redeemed, tx>>

InWindow(c) == Offers[c].first <= today /\ today <= Offers[c].last

(* Mutant of Used: the redemptions on this document are counted.               *)
MutOnDocument(c, d) == redeemed[d][c]

(* redemption_count: a document has at most one row of a coupon.               *)
Used(c, d) == Cardinality({other \in Documents : redeemed[other][c] > 0})

Standing(d) == {c \in Codes : redeemed[d][c] > 0}

(* Mutant of Stacks: the new coupon's own allowance decides.                   *)
MutOwnAllowance(c, d) == Cardinality(Standing(d)) + 1 <= Offers[c].allowance

(* The strictest allowance of the coupons on the document.                     *)
Stacks(c, d) == \A other \in Standing(d) \cup {c} :
  Cardinality(Standing(d)) + 1 <= Offers[other].allowance

(* redeem_coupon                                                               *)
BeginRedeem(s, c, d) ==
  /\ tx[s] = Idle /\ c \in coupons
  /\ Serial => \A other \in Sessions : tx[other] = Idle
  /\ InWindow(c)
  /\ Offers[c].limit # Null => Used(c, d) < Offers[c].limit
  /\ redeemed[d][c] = 0 /\ Stacks(c, d) /\ Affordable(Offers[c].cut)
  /\ tx' = [tx EXCEPT ![s] = [coupon |-> c, document |-> d]]
  /\ UNCHANGED <<today, rules, coupons, lines, redeemed>>

(* The unique index of a coupon and a document decides between two.            *)
CommitRedeem(s) ==
  LET c == tx[s].coupon  d == tx[s].document IN
  /\ tx[s] # Idle
  /\ redeemed[d][c] = 0
  /\ redeemed' = [redeemed EXCEPT ![d][c] = 1]
  /\ tx' = [tx EXCEPT ![s] = Idle]
  /\ UNCHANGED <<today, rules, coupons, lines>>

AbortRedeem(s) ==
  /\ tx[s] # Idle
  /\ tx' = [tx EXCEPT ![s] = Idle]
  /\ UNCHANGED <<today, rules, coupons, lines, redeemed>>

Next ==
  \/ NextDay
  \/ \E n \in Numbers : DefineRule(n)
  \/ \E d \in Documents, asked \in Asked : PriceLine(d, asked)
  \/ \E c \in Codes : DefineCoupon(c)
  \/ \E s \in Sessions :
       \/ \E c \in Codes, d \in Documents : BeginRedeem(s, c, d)
       \/ CommitRedeem(s) \/ AbortRedeem(s)

Spec == Init /\ [][Next]_vars

(* -------------------------------- properties ------------------------------- *)

(* The rule, coupon, line and redemption rows.                                 *)
TypeOK ==
  /\ today \in 0..LastDay
  /\ rules \subseteq RuleRows /\ coupons \subseteq CouponRows
  /\ lines \in [Documents -> [asked : Asked \cup {NoAsk}, rule : Numbers \cup {Null},
                              known : SUBSET Numbers]]
  /\ redeemed \in [Documents -> [Codes -> 0..1]]
  /\ tx \in [Sessions -> RedemptionRows]

(* The documented order of two rules (pricing.py): the operator's priority,    *)
(* then the more specific, then the tighter band, then the code.               *)
Beats(n, m) ==
  LET specific(a, b) == \E dimension \in {"item", "tier", "campaign"} :
        Scoped(a, dimension) < Scoped(b, dimension)
  IN \/ Rules[n].priority < Rules[m].priority
     \/ /\ Rules[n].priority = Rules[m].priority
        /\ \/ specific(n, m)
           \/ /\ ~specific(m, n)
              /\ \/ Rules[n].floor > Rules[m].floor
                 \/ Rules[n].floor = Rules[m].floor /\ n < m

(* "A line read a year later still says which rule won" (pricing.py): whatever *)
(* was defined since, no rule a line could have had beats the one it names.    *)
LinesNameTheWinner == \A d \in Documents : lines[d] # NoLine =>
  LET matched == {n \in lines[d].known : Matches(n, lines[d].asked)}
  IN IF lines[d].rule = Null THEN matched = {}
     ELSE lines[d].rule \in matched /\ \A n \in matched \ {lines[d].rule} : Beats(lines[d].rule, n)

(* A coupon is redeemed as many times as it allows (campaigns.py), over all    *)
(* the documents it is stacked on.                                             *)
WithinLimit == \A c \in Codes :
  Offers[c].limit # Null =>
    Cardinality({d \in Documents : redeemed[d][c] > 0}) <= Offers[c].limit

(* "The strictest allowance among the coupons" (campaigns.py) holds for every  *)
(* coupon on a document, in whichever order they were redeemed.                *)
StrictestAllowance == \A d \in Documents : \A c \in Standing(d) :
  Cardinality(Standing(d)) <= Offers[c].allowance

(* "A reduction, not a refund" (campaigns.py): all the coupons of a document   *)
(* together take no more than its price.                                       *)
DocumentsCostSomething == \A d \in Documents :
  MapThenSumSet(LAMBDA c : redeemed[d][c] * Offers[c].cut, Codes) <= BasePrice
=============================================================================
