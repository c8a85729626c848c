-------------------------------- MODULE PayRuns --------------------------------
(* The payroll of one employee (app/payroll/engine.py, loans.py, posting.py): *)
(* a run of a period is opened, computed from attendance and leave, approved, *)
(* corrected by a new revision and posted; loans are recovered from it.       *)
(*                                                                            *)
(* One day stands for the days of a period.  Opening, correcting and computing *)
(* a run and settling a loan read when they begin and write when they commit; *)
(* the other operations are one step.                                         *)
EXTENDS Integers, FiniteSets, FiniteSetsExt

CONSTANTS
  LastPeriod,   \* periods 1..LastPeriod, each ending on its last day (a bound, not code)
  LastRevision, \* revisions of a period's run (a bound, not code)
  Salary,       \* what the period's day pays
  Deduction,    \* statutory deduction, per cent of the gross pay
  Percent,      \* what the policy lets loans take of the remaining pay
  Loans,        \* Loans[l]: principal and instalment of loan l, in order of start
  Facts,        \* what attendance and leave may say of a day
  MaxEvents,    \* changes of those facts (a bound, not code)
  Lockable,     \* the periods whose month is ever locked (a bound, not code)
  Sessions,     \* database sessions
  Serial        \* whether loans are recovered and settled by one request at a time

Periods == 1..LastPeriod
Revisions == 1..LastRevision
Ids == DOMAIN Loans
None == "none"

PayAssumption ==
  /\ LastPeriod \in Nat /\ LastRevision \in Nat \ {0} /\ Salary \in Nat /\ Deduction \in 0..100
  /\ Percent \in 0..100 /\ MaxEvents \in Nat
  /\ IsFiniteSet(Ids) /\ Ids = 1..Cardinality(Ids)
  /\ \A l \in Ids : Loans[l].principal \in Nat \ {0} /\ Loans[l].instalment \in Nat \ {0}
  /\ \A f \in Facts : f.leave \in {None, "paid", "unpaid"} /\ f.worked \in BOOLEAN
                      /\ f.holiday \in BOOLEAN /\ f.shift \in BOOLEAN
  /\ Serial \in BOOLEAN

VARIABLES
  facts,      \* facts[p]: what is on record of period p
  changes,    \* how often that changed
  runs,       \* runs[p][v]: revision v of the run of p, with its line
  recoveries, \* recoveries[l][p]: the recovery row of loan l in period p
  settled,    \* the loans that are settled
  locked,     \* the periods whose month is locked
  entries,    \* entries[p][v]: journal entries of the run less their reversals
  tx,         \* tx[s]: the revision an open request of s is about to insert
  pending     \* pending[s]: what an open request of s is about to recover

vars == <<facts, changes, runs, recoveries, settled, locked, entries, tx, pending>>
books == <<recoveries, settled, locked, entries>>

RunRows == [state : {None, "draft", "computed", "approved"}, superseded : 0..LastRevision,
            kind : {None, "worked", "absent", "paid_leave", "unpaid_leave", "holiday", "not_worked"},
            gross : Nat, loan : Nat, net : Int, incomplete : BOOLEAN, posted : BOOLEAN]
RecoveryRows == [amount : Int, deferred : Nat]
NoRun == [state |-> None, superseded |-> 0, kind |-> None, gross |-> 0, loan |-> 0, net |-> 0,
          incomplete |-> FALSE, posted |-> FALSE]
NoRecovery == [amount |-> -1, deferred |-> 0]
Idle == <<0, 0>>

(* A computed line and the recoveries of its period; a settlement has no run. *)
Works == [run : (0..LastPeriod) \X (0..LastRevision), period : 0..LastPeriod, line : RunRows,
          rows : [Ids -> RecoveryRows], closes : SUBSET Ids]
NoWork == [run |-> Idle, period |-> 0, line |-> NoRun, rows |-> [l \in Ids |-> NoRecovery],
           closes |-> {}]

Init ==
  /\ facts \in [Periods -> Facts] /\ changes = 0
  /\ runs = [p \in Periods |-> [v \in Revisions |-> NoRun]]
  /\ recoveries = [l \in Ids |-> [p \in Periods |-> NoRecovery]]
  /\ settled = {} /\ locked = {}
  /\ entries = [p \in Periods |-> [v \in Revisions |-> 0]]
  /\ tx = [s \in Sessions |-> Idle]
  /\ pending = [s \in Sessions |-> NoWork]

Total(S, f(_)) == MapThenSumSet(f, S)

(* ---------------------------------- runs ---------------------------------- *)

Existing(p) == {v \in Revisions : runs[p][v].state # None}
Current(p) == {v \in Existing(p) : runs[p][v].superseded = 0}

(* Mutant of Free: a period may have two runs of one revision.                *)
MutNoIndex(p, v) == TRUE
Free(p, v) == runs[p][v].state = None

BeginStart(s, p) ==
  /\ tx[s] = Idle /\ pending[s] = NoWork /\ Current(p) = {}
  /\ tx' = [tx EXCEPT ![s] = <<p, 1>>]
  /\ UNCHANGED <<facts, changes, runs, books, pending>>

(* A run that was superseded may be corrected again: the revision it would    *)
(* insert exists.                                                             *)
BeginCorrect(s, p, v) ==
  /\ tx[s] = Idle /\ pending[s] = NoWork
  /\ runs[p][v].state \in {"computed", "approved"} /\ v < LastRevision
  /\ tx' = [tx EXCEPT ![s] = <<p, v + 1>>]
  /\ UNCHANGED <<facts, changes, runs, books, pending>>

CommitRevision(s) ==
  LET p == tx[s][1] v == tx[s][2] IN
  /\ tx[s] # Idle /\ Free(p, v)
  /\ runs' = [runs EXCEPT ![p] =
       [u \in Revisions |-> CASE u = v -> [NoRun EXCEPT !.state = "draft"]
                              [] u = v - 1 -> [runs[p][u] EXCEPT !.superseded = v]
                              [] OTHER -> runs[p][u]]]
  /\ tx' = [tx EXCEPT ![s] = Idle]
  /\ UNCHANGED <<facts, changes, books, pending>>

AbortRevision(s) ==
  /\ tx[s] # Idle /\ ~Free(tx[s][1], tx[s][2])
  /\ tx' = [tx EXCEPT ![s] = Idle]
  /\ UNCHANGED <<facts, changes, runs, books, pending>>

(* _day_input: leave comes before a holiday, a holiday before the roster.     *)
Kind(f) ==
  CASE f.leave # None -> IF f.leave = "paid" THEN "paid_leave" ELSE "unpaid_leave"
    [] f.leave = None /\ f.holiday -> "holiday"
    [] f.leave = None /\ ~f.holiday /\ ~f.shift -> "not_worked"
    [] OTHER -> IF f.worked THEN "worked" ELSE "absent"

(* Leave pays the day or what was worked of it, whichever is more.            *)
Pays(f) ==
  \/ Kind(f) \in {"paid_leave", "holiday", "worked"}
  \/ (Kind(f) = "unpaid_leave" /\ f.worked /\ f.shift)
Incomplete(f) == Kind(f) = "not_worked"

(* ---------------------------------- loans --------------------------------- *)

Recovered(l) == Total({p \in Periods : recoveries[l][p] # NoRecovery},
                      LAMBDA p : recoveries[l][p].amount)
(* Mutant of Outstanding: what other periods recovered is not counted.        *)
MutPrincipal(l) == Loans[l].principal
Outstanding(l) == Loans[l].principal - Recovered(l)
Capped(available) == (available * Percent) \div 100

(* recover_for_period: the row of each loan that is not settled, in order.    *)
(* taken[l] is what the loans up to l take together.                          *)
Open == {l \in Ids : l \notin settled}
Due(l) == Min({Loans[l].instalment, Outstanding(l)})
Share(l, p, available, before) ==
  IF recoveries[l][p] # NoRecovery THEN recoveries[l][p].amount
  ELSE IF Outstanding(l) <= 0 THEN 0
  ELSE Min({Due(l), Max({0, Capped(available) - before})})
Taken(p, available) ==
  LET taken[l \in 0..Cardinality(Ids)] ==
        IF l = 0 THEN 0
        ELSE taken[l - 1] + IF l \in Open THEN Share(l, p, available, taken[l - 1]) ELSE 0
  IN taken

(* The row recover_for_period adds for a loan, if it adds one.                *)
RecoveryOf(l, p, available) ==
  IF l \notin Open \/ recoveries[l][p] # NoRecovery \/ Outstanding(l) <= 0 THEN NoRecovery
  ELSE LET amount == Share(l, p, available, Taken(p, available)[l - 1]) IN
       [amount |-> amount, deferred |-> Due(l) - amount]

MayWork(s) ==
  /\ tx[s] = Idle /\ pending[s] = NoWork
  /\ Serial => \A t \in Sessions : pending[t] = NoWork

Computed(p, v) ==
  LET gross == IF Pays(facts[p]) THEN Salary ELSE 0
      deduction == (gross * Deduction) \div 100
      available == gross - deduction
      loan == Taken(p, available)[Cardinality(Ids)]
      rows == [l \in Ids |-> RecoveryOf(l, p, available)] IN
  [run |-> <<p, v>>, period |-> p,
   line |-> [runs[p][v] EXCEPT
               !.state = "computed", !.kind = Kind(facts[p]), !.gross = gross, !.loan = loan,
               !.net = available - loan, !.incomplete = Incomplete(facts[p])],
   rows |-> rows,
   closes |-> {l \in Ids : rows[l] # NoRecovery /\ rows[l].amount >= Outstanding(l)}]

(* compute_run asks the lock and what each loan owes, and takes no lock.      *)
BeginCompute(s, p, v) ==
  /\ MayWork(s)
  /\ runs[p][v].state = "draft"
  /\ Open # {} => p \notin locked
  /\ pending' = [pending EXCEPT ![s] = Computed(p, v)]
  /\ UNCHANGED <<facts, changes, runs, books, tx>>

(* settle_loan takes what it finds outstanding, in the month it is settled in. *)
BeginSettle(s, l, p) ==
  /\ MayWork(s)
  /\ l \notin settled /\ Outstanding(l) > 0
  /\ pending' = [pending EXCEPT ![s] =
       [run |-> Idle, period |-> p, line |-> NoRun,
        rows |-> [NoWork.rows EXCEPT ![l] = [amount |-> Outstanding(l), deferred |-> 0]],
        closes |-> {l}]]
  /\ UNCHANGED <<facts, changes, runs, books, tx>>

(* The recoveries are inserted and the loans they close stamped.  The index   *)
(* holds one row per loan and period.                                         *)
Recover(s) ==
  LET w == pending[s] IN
  /\ \A l \in Ids : w.rows[l] # NoRecovery => recoveries[l][w.period] = NoRecovery
  /\ recoveries' = [l \in Ids |-> IF w.rows[l] = NoRecovery THEN recoveries[l]
                                 ELSE [recoveries[l] EXCEPT ![w.period] = w.rows[l]]]
  /\ settled' = settled \cup w.closes
  /\ pending' = [pending EXCEPT ![s] = NoWork]
  /\ UNCHANGED <<facts, changes, locked, entries, tx>>

(* A run has one line of the employee: a run that was computed meanwhile      *)
(* refuses a second.                                                          *)
CommitCompute(s) ==
  LET p == pending[s].run[1] v == pending[s].run[2] IN
  /\ pending[s].run # Idle
  /\ runs[p][v].state = "draft"
  /\ runs' = [runs EXCEPT ![p][v] = pending[s].line]
  /\ Recover(s)

CommitSettle(s) ==
  /\ pending[s] # NoWork /\ pending[s].run = Idle
  /\ Recover(s)
  /\ UNCHANGED runs

(* The request fails, and leaves nothing.                                     *)
AbortWork(s) ==
  /\ pending[s] # NoWork
  /\ pending' = [pending EXCEPT ![s] = NoWork]
  /\ UNCHANGED <<facts, changes, runs, books, tx>>

Approve(p, v) ==
  /\ runs[p][v].state = "computed" /\ ~runs[p][v].incomplete
  /\ runs' = [runs EXCEPT ![p][v].state = "approved"]
  /\ UNCHANGED <<facts, changes, books, tx, pending>>

(* --------------------------------- posting -------------------------------- *)

(* The entry of the run this one supersedes is reversed, if it has one.       *)
Post(p, v) ==
  /\ runs[p][v].state = "approved" /\ ~runs[p][v].posted /\ p \notin locked
  /\ runs[p][v].gross > 0
  /\ entries' = [entries EXCEPT ![p] =
       [u \in Revisions |-> CASE u = v -> 1
                              [] u = v - 1 /\ runs[p][u].posted -> entries[p][u] - 1
                              [] OTHER -> entries[p][u]]]
  /\ runs' = [runs EXCEPT ![p][v].posted = TRUE]
  /\ UNCHANGED <<facts, changes, recoveries, settled, locked, tx, pending>>

(* -------------------------------- the rest -------------------------------- *)

Change(p, f) ==
  /\ changes < MaxEvents /\ f # facts[p]
  /\ facts' = [facts EXCEPT ![p] = f]
  /\ changes' = changes + 1
  /\ UNCHANGED <<runs, books, tx, pending>>

LockPeriod(p) ==
  /\ p \in Lockable \ locked
  /\ locked' = locked \cup {p}
  /\ UNCHANGED <<facts, changes, runs, recoveries, settled, entries, tx, pending>>

ReopenPeriod(p) ==
  /\ p \in locked
  /\ locked' = locked \ {p}
  /\ UNCHANGED <<facts, changes, runs, recoveries, settled, entries, tx, pending>>

Next ==
  \/ \E s \in Sessions, p \in Periods : BeginStart(s, p)
  \/ \E s \in Sessions, p \in Periods, v \in Revisions : BeginCorrect(s, p, v)
  \/ \E s \in Sessions : CommitRevision(s) \/ AbortRevision(s)
  \/ \E s \in Sessions, p \in Periods, v \in Revisions : BeginCompute(s, p, v)
  \/ \E s \in Sessions, l \in Ids, p \in Periods : BeginSettle(s, l, p)
  \/ \E s \in Sessions : CommitCompute(s) \/ CommitSettle(s) \/ AbortWork(s)
  \/ \E p \in Periods, v \in Revisions : Approve(p, v) \/ Post(p, v)
  \/ \E p \in Periods, f \in Facts : Change(p, f)
  \/ \E p \in Periods : LockPeriod(p) \/ ReopenPeriod(p)

Spec == Init /\ [][Next]_vars

(* ------------------------------- properties ------------------------------- *)

(* The run, line, loan and recovery rows (engine.py, loans.py).               *)
TypeOK ==
  /\ facts \in [Periods -> Facts] /\ changes \in Nat
  /\ runs \in [Periods -> [Revisions -> RunRows]]
  /\ recoveries \in [Ids -> [Periods -> RecoveryRows]]
  /\ settled \subseteq Ids /\ locked \subseteq Periods
  /\ entries \in [Periods -> [Revisions -> Int]]
  /\ \A s \in Sessions : tx[s] \in (0..LastPeriod) \X (0..LastRevision)
  /\ pending \in [Sessions -> Works]

(* Whatever is computed, recomputed, deferred and settled in whatever period  *)
(* first, a loan gives back its principal and no more, and it is settled when *)
(* it has (loans.py: "Never more than is owed").  It needs Serial: two runs,  *)
(* or a run and a settlement, both find the same amount outstanding.          *)
LoanIsRecoveredOnce ==
  \A l \in Ids :
    /\ Recovered(l) <= Loans[l].principal
    /\ l \in settled <=> Recovered(l) = Loans[l].principal

(* A period has one run that stands, and every other one was superseded by    *)
(* the revision after it, however many sessions open or correct it at once    *)
(* (engine.py: a correction "appends a revision that supersedes it").         *)
OneRunStands ==
  \A p \in Periods :
    /\ Existing(p) = {} \/ Existing(p) = 1..Cardinality(Existing(p))
    /\ \A v \in Existing(p) : runs[p][v].superseded = IF v + 1 \in Existing(p) THEN v + 1 ELSE 0
    /\ \A v \in Existing(p) : v + 1 \in Existing(p) => runs[p][v].state # "draft"

(* loans.py: "recomputing a run - even as a new revision - finds the recovery *)
(* already there".  Refuted: a recovery that settled its loan is not found,   *)
(* and the revision pays out what the first one withheld.                     *)
RecoveredIsDeducted ==
  \A p \in Periods : \A v \in Current(p), u \in Existing(p) :
    (runs[p][v].state = "approved" /\ runs[p][u].loan > 0) => runs[p][v].loan = runs[p][u].loan

(* posting.py: "when a correction supersedes a posted run - reverse the old   *)
(* entry and post the new one".  Refuted: a correction that is itself         *)
(* corrected before it posts reverses nothing, and a superseded run may post. *)
OnePayrollInTheBooks ==
  \A p \in Periods : Total(Revisions, LAMBDA v : entries[p][v]) <= 1
================================================================================
