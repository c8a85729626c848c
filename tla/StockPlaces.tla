------------------------------ MODULE StockPlaces -----------------------------
(* Where stock may stand and where each serial unit is (app/stock/locations.py,*)
(* serials.py, and the receipts, issues and transfers of a unit in             *)
(* transactions.py and entries.py).                                            *)
(*                                                                             *)
(* A movement reads the row of its unit, takes the advisory locks of its       *)
(* places and reads what the ledger holds there, then writes and commits.      *)
EXTENDS MasterTree

CONSTANTS
  Units,    \* serial units of one item
  Careful   \* whether what arrives is a unit that is not in stock

Levels == {"warehouse", "zone", "aisle", "bin"}
Bins == {n \in Nodes : KindOf[n] = "bin"}

StockPlacesAssumption ==
  /\ IsFiniteSet(Units) /\ Careful \in BOOLEAN
  /\ \A n \in Nodes : KindOf[n] \in Levels
  /\ Under = {<<"zone", "warehouse">>, <<"aisle", "zone">>, <<"bin", "aisle">>}
  /\ Tops = {"warehouse"}

VARIABLES
  units,   \* units[u]: the row of the unit: its status and its location
  ledger,  \* ledger[n][u]: the sum of the movements of u at bin n
  work     \* work[s]: the open movement of s and what it has read of its unit

placeVars == <<units, ledger, work>>
vars == <<state, parent, tx, units, ledger, work>>

NoUnit == "none"
UnitRows == [status : {"unknown", "in_stock", "issued"}, at : Nodes \cup {NoParent}]
Unknown == [status |-> "unknown", at |-> NoParent]
NoWork == [op |-> "none", unit |-> NoUnit, from |-> NoParent, to |-> NoParent,
           seen |-> Unknown, holds |-> FALSE]
WorkRows == [op : {"none", "receive", "issue", "transfer"}, unit : Units \cup {NoUnit},
             from : Bins \cup {NoParent}, to : Bins \cup {NoParent}, seen : UnitRows,
             holds : BOOLEAN]

Init ==
  /\ TreeInit
  /\ units = [u \in Units |-> Unknown]
  /\ ledger = [n \in Bins |-> [u \in Units |-> 0]]
  /\ work = [s \in Sessions |-> NoWork]

(* on_hand of a location, over every unit.                                     *)
OnHand(n) == IF n \in Bins THEN MapThenSumSet(LAMBDA u : ledger[n][u], Units) ELSE 0

(* ------------------------------- the locations ----------------------------- *)

AtRest == \A s \in Sessions : work[s] = NoWork

CreateLocation(s, n, p) ==
  (Serial => AtRest) /\ BeginCreate(s, n, p) /\ UNCHANGED placeVars
MoveLocation(s, n, p) ==
  (Serial => AtRest) /\ BeginMove(s, n, p) /\ UNCHANGED placeVars

(* Mutant of RetireLocation: what the location holds is not asked about.       *)
MutIgnoreStock(s, n) ==
  (Serial => AtRest) /\ BeginRetire(s, n) /\ UNCHANGED placeVars

RetireLocation(s, n) ==
  (Serial => AtRest) /\ OnHand(n) = 0 /\ BeginRetire(s, n) /\ UNCHANGED placeVars

TreeRules(s) == Check(s) /\ UNCHANGED placeVars
End(s) == (Commit(s) \/ Abort(s)) /\ UNCHANGED placeVars

(* ------------------------------- the movements ----------------------------- *)

Reads(s, op, u, from, to) ==
  /\ work[s] = NoWork
  /\ Serial => \A other \in Sessions : tx[other] = Idle
  /\ work' = [work EXCEPT ![s] = [op |-> op, unit |-> u, from |-> from, to |-> to,
                                  seen |-> units[u], holds |-> FALSE]]
  /\ UNCHANGED <<state, parent, tx, units, ledger>>

(* arriving_serial: the row of that code, or a new one.                        *)
ReadReceive(s, u, to) ==
  /\ to \in Live
  /\ Careful => /\ units[u].status # "in_stock"
                /\ \A other \in Sessions : work[other].unit # u
  /\ Reads(s, "receive", u, NoParent, to)

ReadIssue(s, u, from) ==
  units[u].status # "unknown" /\ from \in Live /\ Reads(s, "issue", u, from, NoParent)

ReadTransfer(s, u, from, to) ==
  /\ units[u].status # "unknown" /\ {from, to} \subseteq Live /\ from # to
  /\ Reads(s, "transfer", u, from, to)

Places(w) == {w.from, w.to} \ {NoParent}

(* Mutant of Free: a movement takes no lock.                                   *)
MutNoLock(s) == TRUE

(* pg_advisory_xact_lock of every place of the movement.                       *)
Free(s) == \A other \in Sessions \ {s} :
  work[other].holds /\ work[other].unit = work[s].unit =>
    Places(work[other]) \cap Places(work[s]) = {}

(* _held_quantity: the unit was read as standing there, and the ledger agrees. *)
Held(w) ==
  /\ w.seen.status = "in_stock" /\ w.seen.at = w.from
  /\ ledger[w.from][w.unit] >= 1

Take(s) ==
  /\ work[s] # NoWork /\ ~work[s].holds /\ Free(s)
  /\ work[s].op # "receive" => Held(work[s])
  /\ work' = [work EXCEPT ![s].holds = TRUE]
  /\ UNCHANGED <<state, parent, tx, units, ledger>>

(* place_serial, after the last of the movements.                              *)
Placed(w) == IF w.op = "issue" THEN [status |-> "issued", at |-> NoParent]
             ELSE [status |-> "in_stock", at |-> w.to]

(* record_movement, and the commit; a code that somebody else has added in the *)
(* meantime is refused by the unique index.                                    *)
Write(s) ==
  LET w == work[s] IN
  /\ w.holds
  /\ w.seen.status = "unknown" => units[w.unit].status = "unknown"
  /\ ledger' = [n \in Bins |-> [ledger[n] EXCEPT ![w.unit] =
       @ + (IF n = w.to THEN 1 ELSE 0) - (IF n = w.from THEN 1 ELSE 0)]]
  /\ units' = [units EXCEPT ![w.unit] = Placed(w)]
  /\ work' = [work EXCEPT ![s] = NoWork]
  /\ UNCHANGED <<state, parent, tx>>

GiveUp(s) ==
  /\ work[s] # NoWork
  /\ work' = [work EXCEPT ![s] = NoWork]
  /\ UNCHANGED <<state, parent, tx, units, ledger>>

Next ==
  \/ \E s \in Sessions, n \in Nodes :
       \/ RetireLocation(s, n)
       \/ \E p \in Nodes \cup {NoParent} : CreateLocation(s, n, p) \/ MoveLocation(s, n, p)
  \/ \E s \in Sessions, u \in Units, n \in Bins :
       \/ ReadReceive(s, u, n) \/ ReadIssue(s, u, n)
       \/ \E m \in Bins : ReadTransfer(s, u, n, m)
  \/ \E s \in Sessions : TreeRules(s) \/ End(s) \/ Take(s) \/ Write(s) \/ GiveUp(s)

Spec == Init /\ [][Next]_vars

(* -------------------------------- properties ------------------------------- *)

(* The locations, the rows of the units and the sums of the ledger.            *)
TypeOK ==
  /\ TreeTypeOK
  /\ units \in [Units -> UnitRows] /\ work \in [Sessions -> WorkRows]
  /\ DOMAIN ledger = Bins /\ \A n \in Bins : ledger[n] \in [Units -> Int]

(* "One row per unit, and the unit is in one place" (serials.py): the ledger   *)
(* holds one of the unit where its row says it stands, and none elsewhere.     *)
UnitIsInOnePlace == \A n \in Bins, u \in Units :
  ledger[n][u] = IF units[u] = [status |-> "in_stock", at |-> n] THEN 1 ELSE 0

(* "A location holding stock cannot be removed" (locations.py), nor one above  *)
(* it: what the ledger holds stands in a live bin of a whole tree.             *)
StockStaysOnTheMap ==
  /\ TreeIsWhole
  /\ \A n \in Bins : OnHand(n) # 0 => n \in Live
=============================================================================
