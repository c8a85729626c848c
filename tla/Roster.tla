-------------------------------- MODULE Roster --------------------------------
(* Who works which shift on which day and what the day was (app/hr/shifts.py,  *)
(* overtime.py, holidays.py): a dated roster, overrides of single days, the    *)
(* holiday calendar, dated overtime rules and the classification of a day.     *)
(*                                                                             *)
(* A history is kept by the day each row takes effect on.  Rostering, the      *)
(* retirement of a shift and a change of the calendar read when they begin and *)
(* write when they commit.  Lateness and regions are left out.                 *)
EXTENDS Integers, FiniteSets, FiniteSetsExt

CONSTANTS
  Staff,     \* employees
  Shifts,    \* shift rows
  Scheduled, \* Scheduled[h]: the minutes of shift h, less its break
  Worked,    \* Worked[d]: the minutes somebody was clocked in on day d
  LastDay,   \* the last day (a bound, not code)
  Limits,    \* the thresholds that overtime rules state
  Ruled,     \* the bands that get a rule (a bound, not code)
  Excepted,  \* the days that are overridden (a bound, not code)
  Sessions,  \* concurrent requests
  Serial     \* whether requests are one at a time, and no month is closed while
             \* its calendar is changed

Days == 1..LastDay
NoShift == "none"
Off == "off"
NoRule == -1
Bands == {"working", "rest", "holiday"}

RosterAssumption ==
  /\ LastDay \in Nat \ {0} /\ Limits \subseteq Nat /\ Serial \in BOOLEAN
  /\ Scheduled \in [Shifts -> Nat] /\ Worked \in [Days -> Nat]
  /\ Ruled \subseteq Bands /\ Excepted \subseteq Days
  /\ NoShift \notin Shifts /\ Off \notin Shifts

VARIABLES
  shifts,    \* shifts[h]: absent, live or retired
  roster,    \* roster[e][d]: the shift of the roster entry that starts on d
  overrides, \* overrides[e][d]: the shift somebody put on d, Off, or no override
  holidays,  \* the days that are holidays
  closed,    \* the days whose month is closed
  exits,     \* exits[e]: the day e left, or 0
  rules,     \* rules[band][d]: the threshold of the rule that takes effect on d
  tx         \* tx[s]: the open request of s

vars == <<shifts, roster, overrides, holidays, closed, exits, rules, tx>>

ShiftRows == {"absent", "live", "retired"}
EntryRows == [Days -> Shifts \cup {NoShift}]
OverrideRows == [Days -> Shifts \cup {NoShift, Off}]
RuleRows == [Days -> Limits \cup {NoRule}]
Idle == [op |-> "none", who |-> NoShift, shift |-> NoShift, day |-> 0]
Requests == [op : {"none", "roster", "retire", "state", "remove"}, who : Staff \cup {NoShift},
             shift : Shifts \cup {NoShift}, day : Days \cup {0}]

Init ==
  /\ shifts = [h \in Shifts |-> "absent"]
  /\ roster = [e \in Staff |-> [d \in Days |-> NoShift]]
  /\ overrides = [e \in Staff |-> [d \in Days |-> NoShift]]
  /\ holidays = {} /\ closed = {}
  /\ exits = [e \in Staff |-> 0]
  /\ rules = [b \in Bands |-> [d \in Days |-> NoRule]]
  /\ tx = [s \in Sessions |-> Idle]

Latest(history, none) == Max({0} \cup {d \in Days : history[d] # none})
InForce(history, none, d) ==
  LET start == Max({0} \cup {x \in 1..d : history[x] # none})
  IN IF start = 0 THEN none ELSE history[start]

Employed(e, d) == exits[e] = 0 \/ d < exits[e]

(* ----------------------------- shifts and roster --------------------------- *)

DefineShift(h) ==
  /\ shifts[h] = "absent"
  /\ shifts' = [shifts EXCEPT ![h] = "live"]
  /\ UNCHANGED <<roster, overrides, holidays, closed, exits, rules, tx>>

Starts(s, request) ==
  /\ tx[s] = Idle
  /\ Serial => \A other \in Sessions : tx[other] = Idle
  /\ tx' = [tx EXCEPT ![s] = request]
  /\ UNCHANGED <<shifts, roster, overrides, holidays, closed, exits, rules>>

(* Mutant of Supersedes: an entry may start on any day that has none.          *)
MutAnyDay(e, d) == roster[e][d] = NoShift

(* latest_entry: a new entry starts after the one before it.                   *)
Supersedes(e, d) == d > Latest(roster[e], NoShift)

BeginRoster(s, e, h, d) ==
  /\ shifts[h] = "live" /\ Employed(e, d) /\ Supersedes(e, d)
  /\ Starts(s, [op |-> "roster", who |-> e, shift |-> h, day |-> d])

(* roster_employee; two entries of one start are refused by the unique index.  *)
CommitRoster(s) ==
  LET e == tx[s].who  d == tx[s].day IN
  /\ tx[s].op = "roster" /\ roster[e][d] = NoShift
  /\ roster' = [roster EXCEPT ![e][d] = tx[s].shift]
  /\ tx' = [tx EXCEPT ![s] = Idle]
  /\ UNCHANGED <<shifts, overrides, holidays, closed, exits, rules>>

Rostered(h) == {e \in Staff : \E d \in Days : roster[e][d] = h}

BeginRetire(s, h) ==
  /\ shifts[h] = "live" /\ Rostered(h) = {}
  /\ Starts(s, [Idle EXCEPT !.op = "retire", !.shift = h])

(* retire_shift                                                                *)
CommitRetire(s) ==
  /\ tx[s].op = "retire"
  /\ shifts' = [shifts EXCEPT ![tx[s].shift] = "retired"]
  /\ tx' = [tx EXCEPT ![s] = Idle]
  /\ UNCHANGED <<roster, overrides, holidays, closed, exits, rules>>

Abort(s) ==
  /\ tx[s] # Idle
  /\ tx' = [tx EXCEPT ![s] = Idle]
  /\ UNCHANGED <<shifts, roster, overrides, holidays, closed, exits, rules>>

(* override_day: one day, worked by another shift or by none.                  *)
OverrideDay(e, d, h) ==
  /\ Employed(e, d) /\ (h # Off => shifts[h] = "live")
  /\ overrides' = [overrides EXCEPT ![e][d] = h]
  /\ UNCHANGED <<shifts, roster, holidays, closed, exits, rules, tx>>

(* record_movement, as an exit (module StaffTree).                             *)
Leave(e, d) ==
  /\ exits[e] = 0
  /\ exits' = [exits EXCEPT ![e] = d]
  /\ UNCHANGED <<shifts, roster, overrides, holidays, closed, rules, tx>>

(* ------------------------- the calendar and the rules ---------------------- *)

OnDay(op, d) == [Idle EXCEPT !.op = op, !.day = d]
Changes(d) == {OnDay("state", d), OnDay("remove", d)}

(* state_holiday, and seed_calendar for the days that are not stated yet.      *)
BeginStateHoliday(s, d) ==
  /\ d \notin holidays \cup closed
  /\ Starts(s, OnDay("state", d))

(* The unique index of the calendar refuses a day that was stated meanwhile.   *)
CommitStateHoliday(s) ==
  /\ tx[s].op = "state" /\ tx[s].day \notin holidays
  /\ holidays' = holidays \cup {tx[s].day}
  /\ tx' = [tx EXCEPT ![s] = Idle]
  /\ UNCHANGED <<shifts, roster, overrides, closed, exits, rules>>

(* Mutant of BeginRemoveHoliday: a closed month is not asked about.            *)
MutRemoveAny(s, d) ==
  /\ d \in holidays
  /\ Starts(s, OnDay("remove", d))

BeginRemoveHoliday(s, d) ==
  /\ d \in holidays \ closed
  /\ Starts(s, OnDay("remove", d))

(* remove_holiday; a day that another request has removed stays removed.       *)
CommitRemoveHoliday(s) ==
  /\ tx[s].op = "remove"
  /\ holidays' = holidays \ {tx[s].day}
  /\ tx' = [tx EXCEPT ![s] = Idle]
  /\ UNCHANGED <<shifts, roster, overrides, closed, exits, rules>>

(* lock_period (module GeneralLedger), which asks about no calendar.           *)
LockPeriod(d) ==
  /\ d \notin closed
  /\ Serial => \A s \in Sessions : tx[s] \notin Changes(d)
  /\ closed' = closed \cup {d}
  /\ UNCHANGED <<shifts, roster, overrides, holidays, exits, rules, tx>>

(* state_rule: a rule takes effect after the one before it.                    *)
StateRule(band, d, limit) ==
  /\ d > Latest(rules[band], NoRule)
  /\ rules' = [rules EXCEPT ![band][d] = limit]
  /\ UNCHANGED <<shifts, roster, overrides, holidays, closed, exits, tx>>

Next ==
  \/ \E h \in Shifts : DefineShift(h)
  \/ \E e \in Staff, d \in Days :
       \/ Leave(e, d)
       \/ \E h \in Shifts \cup {Off} : d \in Excepted /\ OverrideDay(e, d, h)
  \/ \E d \in Days :
       \/ LockPeriod(d)
       \/ \E band \in Ruled, limit \in Limits : StateRule(band, d, limit)
  \/ \E s \in Sessions :
       \/ \E e \in Staff, h \in Shifts, d \in Days : BeginRoster(s, e, h, d)
       \/ \E h \in Shifts : BeginRetire(s, h)
       \/ \E d \in Days : BeginStateHoliday(s, d) \/ BeginRemoveHoliday(s, d)
       \/ CommitRoster(s) \/ CommitRetire(s)
       \/ CommitStateHoliday(s) \/ CommitRemoveHoliday(s) \/ Abort(s)

Spec == Init /\ [][Next]_vars

(* ---------------------------- what a day resolves to ----------------------- *)

(* resolved_shift: an override, or the roster on a day that is worked.         *)
ResolvedShift(e, d) ==
  CASE overrides[e][d] = Off -> NoShift
    [] overrides[e][d] \in Shifts -> overrides[e][d]
    [] overrides[e][d] = NoShift ->
         IF d \in holidays THEN NoShift ELSE InForce(roster[e], NoShift, d)

(* day_type_of                                                                 *)
Band(e, d) ==
  IF d \in holidays THEN "holiday"
  ELSE IF ResolvedShift(e, d) = NoShift THEN "rest" ELSE "working"

(* classify_day: minutes at the band's rate, or minutes no rule prices.        *)
ClassifyDay(e, d) ==
  LET band == Band(e, d)
      rule == InForce(rules[band], NoRule, d)
      scheduled == IF band = "working" THEN Scheduled[ResolvedShift(e, d)] ELSE 0
      over == Max({0, Worked[d] - scheduled - (IF rule = NoRule THEN 0 ELSE rule)})
  IN [band |-> band, overtime |-> IF rule = NoRule THEN 0 ELSE over,
      unclassified |-> IF rule = NoRule THEN over ELSE 0]

(* -------------------------------- properties ------------------------------- *)

(* The shift, roster, override and rule rows.                                  *)
TypeOK ==
  /\ shifts \in [Shifts -> ShiftRows]
  /\ roster \in [Staff -> EntryRows]
  /\ overrides \in [Staff -> OverrideRows]
  /\ holidays \subseteq Days /\ closed \subseteq Days
  /\ exits \in [Staff -> Days \cup {0}]
  /\ rules \in [Bands -> RuleRows]
  /\ tx \in [Sessions -> Requests]

(* "A new entry supersedes the one before it" (shifts.py): a roster entry      *)
(* rules every day from its start, changes none before it, and a retired shift *)
(* is on nobody's roster.                                                      *)
EntriesTakeEffect == [][
  /\ \A e \in Staff : roster'[e] # roster[e] =>
       \E d \in Days, h \in Shifts : \A x \in Days :
         InForce(roster[e], NoShift, x)' = IF x >= d THEN h ELSE InForce(roster[e], NoShift, x)
  /\ \A h \in Shifts : Rostered(h)' # {} => shifts'[h] = "live"]_vars

(* The pay of a closed month is not re-priced by the calendar (holidays.py     *)
(* _refuse_closed_period): while nobody's roster, override or rule changes,    *)
(* what a day of a closed month was classified as stands, as long as no month  *)
(* is closed between the read of its lock and the commit of a holiday.         *)
ClosedDaysStand == [][
  UNCHANGED <<roster, overrides, rules>> =>
    \A e \in Staff, d \in closed : ClassifyDay(e, d)' = ClassifyDay(e, d)]_vars

(* "A roster change cannot alter what somebody was rostered for last Tuesday"  *)
(* (shifts.py), once the month of that day is closed too: an entry or a rule   *)
(* may start in the past.                                                      *)
PastDaysStand == [][
  UNCHANGED <<holidays, overrides>> =>
    \A e \in Staff, d \in closed : ClassifyDay(e, d)' = ClassifyDay(e, d)]_vars

(* "Nobody is rostered outside their employment" (shifts.py): an exit leaves   *)
(* the roster entry before it in force.                                        *)
RosteredWhileEmployed == \A e \in Staff, d \in Days :
  ResolvedShift(e, d) # NoShift => Employed(e, d)
=============================================================================
