------------------------------- MODULE StaffTree ------------------------------
(* Who is employed, on what terms and under whom (app/hr/employees.py, org.py, *)
(* movements.py).  Contracts and placements are dated rows that are appended   *)
(* and never changed; what is in force on a day is read from them.             *)
(*                                                                             *)
(* Departments, cost centres and locations are carried like the manager and    *)
(* are left out, and so are the assets somebody holds.  One request at a time. *)
EXTENDS Integers, FiniteSets, FiniteSetsExt

CONSTANTS
  Staff,      \* parties that may be employed
  Followed,   \* those whose terms, joining and exit a run records (a bound, not code)
  LastDay,    \* days of a run (a bound, not code)
  Salaries,   \* what a contract may pay
  InOrder     \* whether placements are recorded in the order of their dates

Days == 1..LastDay
Nobody == "nobody"
Absent == "absent"
NoTerms == -1

StaffAssumption ==
  /\ IsFiniteSet(Staff) /\ Followed \subseteq Staff
  /\ Nobody \notin Staff /\ Absent \notin Staff
BoundAssumption == LastDay \in Nat \ {0} /\ Salaries \subseteq Nat /\ InOrder \in BOOLEAN

VARIABLES
  hired,      \* hired[e]: the hire date of the employee row, 0 without one
  contracts,  \* contracts[e][d]: the terms recorded from day d
  placements, \* placements[e][d]: the manager recorded from day d, Nobody for a root
  joined,     \* employees with a joining movement
  exits       \* exits[e]: the date of the exit movement, 0 without one

vars == <<hired, contracts, placements, joined, exits>>

ContractRows == [Days -> Salaries \cup {NoTerms}]
PlacementRows == [Days -> Staff \cup {Nobody, Absent}]

Init ==
  /\ hired = [e \in Staff |-> 0]
  /\ contracts = [e \in Staff |-> [d \in Days |-> NoTerms]]
  /\ placements = [e \in Staff |-> [d \in Days |-> Absent]]
  /\ joined = {}
  /\ exits = [e \in Staff |-> 0]

(* The day of the row whose half-open window contains a day, 0 before the first. *)
Start(history, none, day) == Max({0} \cup {d \in 1..day : history[d] # none})

Latest(history, none) == Start(history, none, LastDay)

(* contract_in_force, placement_in_force                                       *)
TermsOn(e, day) ==
  LET d == Start(contracts[e], NoTerms, day) IN IF d = 0 THEN NoTerms ELSE contracts[e][d]

ManagerOn(e, day) ==
  LET d == Start(placements[e], Absent, day) IN IF d = 0 THEN Absent ELSE placements[e][d]

(* active_on: the day somebody leaves is a day they are not employed.          *)
ActiveOn(e, day) == hired[e] \in 1..day /\ (exits[e] # 0 => day < exits[e])

(* --------------------------------- employment ------------------------------ *)

(* create_employee: one profile of a party.                                    *)
CreateEmployee(e, day) ==
  /\ hired[e] = 0
  /\ hired' = [hired EXCEPT ![e] = day]
  /\ UNCHANGED <<contracts, placements, joined, exits>>

(* Mutant of Follows: a row may start on any day of the employment.            *)
MutAnyDay(e, history, none, day) == hired[e] \in 1..day /\ history[day] = none

(* A row starts in the employment and later than the last one of its kind.     *)
Follows(e, history, none, day) == hired[e] \in 1..day /\ Latest(history, none) < day

(* record_contract; the salary is somebody's to read and write.                *)
RecordContract(e, day, salary) ==
  /\ e \in Followed
  /\ Follows(e, contracts[e], NoTerms, day)
  /\ contracts' = [contracts EXCEPT ![e][day] = salary]
  /\ UNCHANGED <<hired, placements, joined, exits>>

(* ------------------------------- the structure ----------------------------- *)

(* Mutant of Above: the manager alone is looked at.                            *)
MutOneStep(e, day) == {ManagerOn(e, day)} \cap Staff

(* _above: everybody over an employee on a day, as the walk finds them.        *)
Above(e, day) ==
  LET over[n \in 0..Cardinality(Staff)] ==
        IF n = 0 THEN {e}
        ELSE over[n - 1] \cup ({ManagerOn(m, day) : m \in over[n - 1]} \cap Staff)
  IN over[Cardinality(Staff)] \ {e}

(* Mutant of OtherRoot: only the roots of that very day are looked for.        *)
MutSameDay(e, day) == \E other \in Staff \ {e} : placements[other][day] = Nobody

(* _root_on: somebody else tops the tree on the day.                           *)
OtherRoot(e, day) == \E other \in Staff \ {e} : ManagerOn(other, day) = Nobody

(* place_employee checks the structure of the day the placement starts.        *)
MayPlace(e, day, manager) ==
  /\ Follows(e, placements[e], Absent, day)
  /\ IF manager = Nobody
     THEN ~OtherRoot(e, day)
     ELSE manager # e /\ hired[manager] # 0 /\ e \notin Above(manager, day)
  /\ InOrder => \A other \in Staff : Latest(placements[other], Absent) <= day

PlaceEmployee(e, day, manager) ==
  /\ MayPlace(e, day, manager)
  /\ placements' = [placements EXCEPT ![e][day] = manager]
  /\ UNCHANGED <<hired, contracts, joined, exits>>

(* ---------------------------------- movements ------------------------------ *)

(* record_movement: in the employment, and before the exit of who has left.    *)
MayMove(e, day) == hired[e] \in 1..day /\ (exits[e] # 0 => day < exits[e])

Joining(e) ==
  /\ e \in Followed /\ hired[e] # 0 /\ MayMove(e, hired[e]) /\ e \notin joined
  /\ joined' = joined \cup {e}
  /\ UNCHANGED <<hired, contracts, placements, exits>>

(* _transfer keeps the manager of the day before where none is stated, which   *)
(* the root has not and who was never placed cannot.                           *)
Transfer(e, day, stated) ==
  /\ MayMove(e, day)
  /\ PlaceEmployee(e, day, IF stated = Absent THEN ManagerOn(e, day - 1) ELSE stated)

TransferAny(e, day) ==
  \/ \E manager \in Staff : Transfer(e, day, manager)
  \/ ManagerOn(e, day - 1) # Absent /\ Transfer(e, day, Absent)

(* _revise_terms: a promotion revises terms.                                   *)
Promote(e, day, salary) ==
  /\ MayMove(e, day)
  /\ Latest(contracts[e], NoTerms) # 0
  /\ RecordContract(e, day, salary)

(* An exit, once; it may be dated before what is recorded already.             *)
Exit(e, day) ==
  /\ e \in Followed /\ hired[e] \in 1..day /\ exits[e] = 0
  /\ exits' = [exits EXCEPT ![e] = day]
  /\ UNCHANGED <<hired, contracts, placements, joined>>

Next == \E e \in Staff :
  \/ Joining(e)
  \/ \E day \in Days :
       \/ CreateEmployee(e, day) \/ Exit(e, day)
       \/ \E manager \in Staff \cup {Nobody} : PlaceEmployee(e, day, manager)
       \/ TransferAny(e, day)
       \/ \E salary \in Salaries : RecordContract(e, day, salary) \/ Promote(e, day, salary)

Spec == Init /\ [][Next]_vars

(* -------------------------------- properties ------------------------------- *)

(* The employee, contract, placement and movement rows.                        *)
TypeOK ==
  /\ hired \in [Staff -> Days \cup {0}]
  /\ contracts \in [Staff -> ContractRows]
  /\ placements \in [Staff -> PlacementRows]
  /\ joined \subseteq Staff
  /\ exits \in [Staff -> Days \cup {0}]

(* "It is a tree" on every day (org.py): nobody is above themselves, however   *)
(* long the way, and at most one employee tops it.                             *)
TreeEachDay == \A day \in Days :
  /\ \A e \in Staff :
       LET up[n \in 0..Cardinality(Staff)] ==
             IF n = 0 THEN e
             ELSE IF up[n - 1] \in Staff THEN ManagerOn(up[n - 1], day) ELSE up[n - 1]
       IN up[Cardinality(Staff)] \notin Staff
  /\ Cardinality({e \in Staff : ManagerOn(e, day) = Nobody}) <= 1

(* "A raise agreed in October cannot restate September" (employees.py): what   *)
(* is in force on a day before the last recorded start stays so, for terms and *)
(* for the structure.                                                          *)
HistoryStands ==
  [][\A e \in Staff, day \in Days :
       /\ day < Latest(contracts[e], NoTerms) => TermsOn(e, day)' = TermsOn(e, day)
       /\ day < Latest(placements[e], Absent) => ManagerOn(e, day)' = ManagerOn(e, day)]_vars

(* org_chart: "one root, everybody's place in it, and who is not in it".  The  *)
(* entries are walked down from the root; the unplaced have no placement.  An  *)
(* employee whose managers end at somebody unplaced is in neither list.        *)
ChartNamesEveryone ==
  \A day \in Days, e \in Staff :
    hired[e] # 0 /\ ManagerOn(e, day) # Absent
      => \E top \in Above(e, day) \cup {e} : ManagerOn(top, day) = Nobody
=============================================================================
