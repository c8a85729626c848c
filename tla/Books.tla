--------------------------------- MODULE Books --------------------------------
(* The chart of accounts, the accounts that the sub-modules post to and the    *)
(* statements that are read from the entries (app/ledger/accounts.py,          *)
(* mapping.py, statements.py, gl.py).                                          *)
(*                                                                             *)
(* An entry has a line that debits and a line that credits, in the base        *)
(* currency; the ledger keeps the sum of what was posted on one day from one   *)
(* account to another.                                                         *)
EXTENDS MasterTree

CONSTANTS
  Keys,        \* mapping keys that begin with "cash"
  LastDay,     \* the last posting day (a bound, not code)
  MaxEntries   \* entries in all (a bound, not code)

Days == 1..LastDay
Classes == {"asset", "liability", "equity", "income", "expense"}

BooksAssumption ==
  /\ LastDay \in Nat \ {0} /\ MaxEntries \in Nat
  /\ \A n \in Nodes : KindOf[n] \in Classes
  /\ Under = {<<c, c>> : c \in Classes} /\ Tops = Classes

VARIABLES
  mapping,  \* mapping[k]: the account that key k names
  ledger    \* ledger[d][debit][credit]: what was posted on day d

bookVars == <<mapping, ledger>>
vars == <<state, parent, tx, mapping, ledger>>

Rows == [Days -> [Nodes -> [Nodes -> 0..MaxEntries]]]

Init ==
  /\ TreeInit
  /\ mapping = [k \in Keys |-> NoParent]
  /\ ledger = [d \in Days |-> [n \in Nodes |-> [m \in Nodes |-> 0]]]

CreateAccount(s, n, p) == BeginCreate(s, n, p) /\ UNCHANGED bookVars
Reparent(s, n, p) == BeginMove(s, n, p) /\ UNCHANGED bookVars

(* An account is retired whatever its balance.                                 *)
RetireAccount(s, n) == BeginRetire(s, n) /\ UNCHANGED bookVars

TreeRules(s) == Check(s) /\ UNCHANGED bookVars
End(s) == (Commit(s) \/ Abort(s)) /\ UNCHANGED bookVars

SetMapping(k, n) ==
  /\ n \in Live
  /\ mapping' = [mapping EXCEPT ![k] = n]
  /\ UNCHANGED <<state, parent, tx, ledger>>

Cells == Days \X Nodes \X Nodes
Total(cells) == MapThenSumSet(LAMBDA c : ledger[c[1]][c[2]][c[3]], cells)

(* post_journal_entry, to accounts that are live (module GeneralLedger).       *)
Post(d, debit, credit) ==
  /\ {debit, credit} \subseteq Live /\ debit # credit
  /\ Total(Cells) < MaxEntries
  /\ ledger' = [ledger EXCEPT ![d][debit][credit] = @ + 1]
  /\ UNCHANGED <<state, parent, tx, mapping>>

Next ==
  \/ \E s \in Sessions, n \in Nodes :
       \/ RetireAccount(s, n)
       \/ \E p \in Nodes \cup {NoParent} : CreateAccount(s, n, p) \/ Reparent(s, n, p)
  \/ \E s \in Sessions : TreeRules(s) \/ End(s)
  \/ \E k \in Keys, n \in Nodes : SetMapping(k, n)
  \/ \E d \in Days, debit, credit \in Nodes : Post(d, debit, credit)

Spec == Init /\ [][Next]_vars

(* -------------------------------- statements ------------------------------- *)

(* account_balance: debits less credits of an account over some days.          *)
Movement(n, first, last) ==
  LET days == {d \in Days : d >= first /\ d <= last}
  IN Total(days \X {n} \X Nodes) - Total(days \X Nodes \X {n})

Abs(x) == IF x < 0 THEN -x ELSE x

(* The accounts of a class that still have a name: the live ones.              *)
Named(class) == {n \in Live : KindOf[n] = class}
Sum(f(_), accounts) == MapThenSumSet(f, accounts)

(* profit_and_loss: the net profit of a period.                                *)
NetProfit(first, last) ==
  -Sum(LAMBDA n : Movement(n, first, last), Named("income") \cup Named("expense"))

(* Mutant of Earnings: what was posted after the day counts too.              *)
MutWholeLedger(day) ==
  Sum(LAMBDA n : Abs(Movement(n, 1, LastDay)), Named("income"))
  - Sum(LAMBDA n : Movement(n, 1, LastDay), Named("expense"))

(* balance_sheet's current earnings: the size of each income account's net.    *)
Earnings(day) ==
  Sum(LAMBDA n : Abs(Movement(n, 1, day)), Named("income"))
  - Sum(LAMBDA n : Movement(n, 1, day), Named("expense"))

(* balance_sheet: assets less liabilities, equity and earnings.                *)
Balanced(day) ==
  Sum(LAMBDA n : Movement(n, 1, day),
      Named("asset") \cup Named("liability") \cup Named("equity")) = Earnings(day)

(* cash_accounts: the live account of every key that has one.                  *)
CashKeys == {k \in Keys : mapping[k] \in Live}
CashOf(first, last) == Sum(LAMBDA k : Movement(mapping[k], first, last), CashKeys)

(* Mutant of Opening: the opening balance takes in the first day.              *)
MutFirstDay(first) == CashOf(1, first)

Opening(first) == CashOf(1, first - 1)

(* cash_flow: the counterparts of what touched a cash account.                 *)
NetChange(first, last) ==
  LET cash == {mapping[k] : k \in CashKeys}
      days == first..last
  IN Total(days \X cash \X (Nodes \ cash)) - Total(days \X (Nodes \ cash) \X cash)

(* -------------------------------- properties ------------------------------- *)

(* The chart, the mappings and the entries.                                    *)
TypeOK == TreeTypeOK /\ mapping \in [Keys -> Nodes \cup {NoParent}] /\ ledger \in Rows

(* "closing_per_ledger" (statements.py): while no two keys name one account,   *)
(* the opening cash and the counterparts of what moved it come to the cash     *)
(* accounts' own balance on the closing day, over every period.                *)
CashFlowFoots ==
  (\A j, k \in CashKeys : mapping[j] = mapping[k] => j = k) =>
    \A first \in Days : \A last \in first..LastDay :
      Opening(first) + NetChange(first, last) = CashOf(1, last)

(* The balance sheet foots on every day on which no income account is in debit *)
(* and no retired account has a balance, and its earnings are the profit of    *)
(* the days up to there.                                                       *)
OrdinaryDay(day) ==
  /\ \A n \in Nodes : KindOf[n] = "income" => Movement(n, 1, day) <= 0
  /\ \A n \in Nodes \ Live : Movement(n, 1, day) = 0
SheetFoots == \A day \in Days :
  OrdinaryDay(day) => Balanced(day) /\ Earnings(day) = NetProfit(1, day)

(* "What makes assets = liabilities + equity hold on any date" (statements.py, *)
(* balance_sheet): whatever has been posted, while every account is live.      *)
SheetFootsOnAnyDate == \A day \in Days :
  (\A n \in Nodes \ Live : Movement(n, 1, day) = 0) => Balanced(day)
=============================================================================
