------------------------------ MODULE MasterTree ------------------------------
(* A tree of soft-deleted masters, as the chart of accounts and the locations  *)
(* keep one (app/ledger/accounts.py, app/stock/locations.py): a helper reads   *)
(* the live rows when it begins; a deferred trigger looks again while the      *)
(* transaction commits, at what others have committed by then.                 *)
(*                                                                             *)
(* An inserted row and a row that is written are locked until their            *)
(* transaction ends.  What may stand under what is a constant of the tree.     *)
EXTENDS Integers, FiniteSets, FiniteSetsExt

CONSTANTS
  Nodes,     \* the rows: accounts or locations
  KindOf,    \* KindOf[n]: the class or the level of n
  Under,     \* the pairs <<kind, kind of the parent>> that may stand
  Tops,      \* the kinds that may stand without a parent
  Sessions,  \* concurrent requests
  Serial     \* whether requests are one at a time

NoParent == "none"

MasterTreeAssumption ==
  /\ IsFiniteSet(Nodes) /\ NoParent \notin Nodes /\ Serial \in BOOLEAN
  /\ Nodes \subseteq DOMAIN KindOf

VARIABLES
  state,   \* state[n]: absent, live or retired
  parent,  \* parent[n]: the row n stands under
  tx       \* tx[s]: the open request of s

treeVars == <<state, parent, tx>>

Idle == [op |-> "none", node |-> NoParent, parent |-> NoParent, checked |-> FALSE]
TreeRequests ==
  [op : {"none", "create", "move", "retire"}, node : Nodes \cup {NoParent},
   parent : Nodes \cup {NoParent}, checked : BOOLEAN]

TreeInit ==
  /\ state = [n \in Nodes |-> "absent"]
  /\ parent = [n \in Nodes |-> NoParent]
  /\ tx = [s \in Sessions |-> Idle]

Live == {n \in Nodes : state[n] = "live"}
Children(n) == {m \in Live : parent[m] = n}

(* The ancestors of n: what a walk along the parents meets.                    *)
Ancestors(n) ==
  LET above[k \in 0..Cardinality(Nodes)] ==
        IF k = 0 THEN {parent[n]}
        ELSE above[k - 1] \cup {parent[m] : m \in above[k - 1] \cap Nodes}
  IN above[Cardinality(Nodes)] \cap Nodes

(* The row is inserted or written by a transaction that is still open.         *)
Locked(n) == \E s \in Sessions :
  /\ tx[s].node = n
  /\ tx[s].op \in {"create", "move"} \/ tx[s].checked

MayStand(n, p) == IF p = NoParent THEN KindOf[n] \in Tops
                  ELSE p \in Live /\ <<KindOf[n], KindOf[p]>> \in Under

Begins(s, op, n, p) ==
  /\ tx[s] = Idle
  /\ Serial => \A other \in Sessions : tx[other] = Idle
  /\ tx' = [tx EXCEPT ![s] = [op |-> op, node |-> n, parent |-> p, checked |-> FALSE]]
  /\ UNCHANGED <<state, parent>>

BeginCreate(s, n, p) ==
  state[n] = "absent" /\ ~Locked(n) /\ MayStand(n, p) /\ Begins(s, "create", n, p)

BeginMove(s, n, p) ==
  n \in Live /\ ~Locked(n) /\ MayStand(n, p) /\ Begins(s, "move", n, p)

BeginRetire(s, n) ==
  n \in Live /\ Children(n) = {} /\ Begins(s, "retire", n, NoParent)

(* Mutant of Sound: the trigger does not walk up from the new parent.          *)
MutNoCycle(r) == r.op = "retire" => Children(r.node) = {}

(* What the trigger refuses of a row: a parent inside the row's own subtree,   *)
(* and a retired row with live children.                                       *)
Sound(r) ==
  /\ r.op = "move" => r.node \notin {r.parent} \cup
       (IF r.parent = NoParent THEN {} ELSE Ancestors(r.parent))
  /\ r.op = "retire" => Children(r.node) = {}

(* The deferred trigger, the first half of a commit.                           *)
Check(s) ==
  /\ tx[s] # Idle /\ ~tx[s].checked /\ Sound(tx[s])
  /\ \A other \in Sessions \ {s} :
       tx[other].node = tx[s].node => ~tx[other].checked /\ tx[other].op = "retire"
  /\ tx' = [tx EXCEPT ![s].checked = TRUE]
  /\ UNCHANGED <<state, parent>>

Commit(s) ==
  LET r == tx[s] IN
  /\ r.checked
  /\ state' = CASE r.op = "create" -> [state EXCEPT ![r.node] = "live"]
                [] r.op = "retire" -> [state EXCEPT ![r.node] = "retired"]
                [] r.op = "move" -> state
  /\ parent' = IF r.op = "retire" THEN parent
               ELSE [parent EXCEPT ![r.node] = r.parent]
  /\ tx' = [tx EXCEPT ![s] = Idle]

Abort(s) ==
  /\ tx[s] # Idle
  /\ tx' = [tx EXCEPT ![s] = Idle]
  /\ UNCHANGED <<state, parent>>

(* -------------------------------- properties ------------------------------- *)

(* The rows of the tree and the open requests.                                 *)
TreeTypeOK ==
  /\ state \in [Nodes -> {"absent", "live", "retired"}]
  /\ parent \in [Nodes -> Nodes \cup {NoParent}]
  /\ tx \in [Sessions -> TreeRequests]

(* "Otherwise the tree would grow orphans" (accounts.py): no row is inside its *)
(* own subtree, and what a live row stands under is live and may hold it, so   *)
(* that the tree read from the live rows shows every one of them.              *)
TreeIsWhole ==
  /\ \A n \in Nodes : n \notin Ancestors(n)
  /\ \A n \in Live : MayStand(n, parent[n])
=============================================================================
