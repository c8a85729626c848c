------------------------------- MODULE LeaveDesk -------------------------------
(* Leave of one employee and one leave type (app/hr/leave.py,                 *)
(* leave_requests.py, holidays.py): entries accrue, lapse and are carried     *)
(* over a year's end; an application is decided through the approval engine,  *)
(* or at once where no level applies, deducted when approved and given back   *)
(* when cancelled.                                                            *)
(*                                                                            *)
(* A period is named by its last day.  Each operation reads when it begins    *)
(* and writes when it commits.                                                *)
EXTENDS Integers, FiniteSets, FiniteSetsExt, Bags

CONSTANTS
  LastDay,   \* the calendar: days 1..LastDay (a bound, not code)
  MonthEnds, \* the days a monthly period ends on
  YearEnd,   \* the last day of the first year
  Accrual,   \* days a period accrues
  Cap,       \* what is carried over at most
  Expiries,  \* the days a carried entry may expire on
  Movable,   \* the days that may become holidays (a bound, not code)
  Requests,  \* applications
  Sessions,  \* database sessions
  Serial     \* whether applications are decided and cancelled one at a time

Days == 1..LastDay
Periods == MonthEnds \cup {YearEnd + 1}
Never == LastDay + 1
None == "none"
NoRequest == 0

CalendarAssumption ==
  /\ LastDay \in Nat /\ MonthEnds \subseteq Days /\ YearEnd \in MonthEnds /\ YearEnd < LastDay
  /\ Expiries \cup Movable \subseteq Days /\ Accrual \in Nat /\ Cap \in Nat /\ Serial \in BOOLEAN
  /\ NoRequest \notin Requests

VARIABLES
  today,
  holidays, \* the days the company does not work
  closed,   \* the days of locked accounting periods
  exit,     \* the first day after the employment
  entries,  \* the leave entries, a bag
  requests, \* the applications with the state of their approval request
  tx        \* tx[s]: the open operation of s

vars == <<today, holidays, closed, exit, entries, requests, tx>>

EntryRows == [kind : {"accrual", "carry_forward", "adjustment", "leave_taken"}, days : Int,
              on : Days, period : Days \cup {0}, expires : 1..Never,
              request : Requests \cup {NoRequest}]
RequestRows == [state : {None, "pending", "approved", "rejected", "cancelled"},
                engine : {None, "pending", "approved", "rejected"},
                from : Days, days : Nat, entry : BOOLEAN, override : BOOLEAN]
Operations == {None, "accrue", "carry", "request", "decide", "cancel"}

NoApplication == [state |-> None, engine |-> None, from |-> 1, days |-> 0, entry |-> FALSE,
                  override |-> FALSE]
Idle == [op |-> None, add |-> EmptyBag, request |-> NoRequest, row |-> NoApplication]

Init ==
  /\ today = 1
  /\ holidays = {} /\ closed = {} /\ exit = Never
  /\ entries = EmptyBag
  /\ requests = [r \in Requests |-> NoApplication]
  /\ tx = [s \in Sessions |-> Idle]

Active(d) == d < exit

(* --------------------------------- balance -------------------------------- *)

(* The entries that count on a day, and their sum.                            *)
Counted(bag, d) == {e \in BagToSet(bag) : e.on <= d /\ e.expires >= d}
Balance(d) == MapThenSumSet(LAMBDA e : e.days * entries[e], Counted(entries, d))

Entry(kind, days, on, period, expires, r) ==
  SetToBag({[kind |-> kind, days |-> days, on |-> on, period |-> period, expires |-> expires,
             request |-> r]})

(* Mutant of Recorded: the index does not cover the period.                   *)
MutNoIndex(kind, period) == FALSE
Recorded(kind, period) == \E e \in BagToSet(entries) : e.kind = kind /\ e.period = period

(* One operation: one session, one transaction.                               *)
Starts(s, operation) ==
  /\ tx[s] = Idle
  /\ Serial /\ operation.request # NoRequest =>
       \A t \in Sessions : tx[t].request # operation.request
  /\ tx' = [tx EXCEPT ![s] = operation]
  /\ UNCHANGED <<today, holidays, closed, exit, entries, requests>>

(* The unique index on kind and period refuses an entry made meanwhile.       *)
Commits(s, op) ==
  /\ tx[s].op = op
  /\ \A e \in BagToSet(tx[s].add) : e.period # 0 => ~Recorded(e.kind, e.period)
  /\ entries' = entries (+) tx[s].add
  /\ tx' = [tx EXCEPT ![s] = Idle]
  /\ UNCHANGED <<today, holidays, closed, exit>>

Abort(s) ==
  /\ \E e \in BagToSet(tx[s].add) : e.period # 0 /\ Recorded(e.kind, e.period)
  /\ tx' = [tx EXCEPT ![s] = Idle]
  /\ UNCHANGED <<today, holidays, closed, exit, entries, requests>>

(* --------------------------------- accrual -------------------------------- *)

(* accrue_period skips what it finds accrued and who is not employed.         *)
BeginAccrue(s, m) ==
  /\ Active(m) /\ ~Recorded("accrual", m)
  /\ Starts(s, [Idle EXCEPT !.op = "accrue",
                     !.add = Entry("accrual", Accrual, m, m, Never, NoRequest)])
CommitAccrue(s) == Commits(s, "accrue") /\ UNCHANGED requests

(* What is left of the year lapses, and the part under the cap is carried.    *)
BeginCarry(s, expires) ==
  LET remaining == Balance(YearEnd) carried == Min({remaining, Cap}) IN
  /\ Active(YearEnd) /\ ~Recorded("adjustment", YearEnd)
  /\ remaining > 0 /\ expires > YearEnd
  /\ carried > 0 => Active(YearEnd + 1)
  /\ Starts(s, [Idle EXCEPT !.op = "carry", !.add =
       Entry("adjustment", -remaining, YearEnd, YearEnd, Never, NoRequest) (+)
       IF carried > 0
       THEN Entry("carry_forward", carried, YearEnd + 1, YearEnd + 1, expires, NoRequest)
       ELSE EmptyBag])
CommitCarry(s) == Commits(s, "carry") /\ UNCHANGED requests

(* ------------------------------ applications ------------------------------ *)

WorkingDays(from, to) == Cardinality((from..to) \ holidays)

(* An application that reaches no level of the chain waits for nobody: the    *)
(* chain is configuration, read when the application is made.                 *)
BeginRequest(s, r, from, to, override, waits) ==
  LET days == WorkingDays(from, to) over == days > Balance(from) IN
  /\ requests[r] = NoApplication /\ \A t \in Sessions : tx[t].request # r
  /\ from <= to /\ Active(from) /\ Active(to) /\ days > 0
  /\ over => override
  /\ ~waits => Active(today)
  /\ Starts(s, [op |-> "request", request |-> r,
       add |-> IF waits THEN EmptyBag ELSE Entry("leave_taken", -days, today, 0, Never, r),
       row |-> [state |-> IF waits THEN "pending" ELSE "approved",
                engine |-> IF waits THEN "pending" ELSE None,
                from |-> from, days |-> days, entry |-> ~waits, override |-> over]])

CommitRequest(s) ==
  /\ Commits(s, "request")
  /\ requests' = [requests EXCEPT ![tx[s].request] = tx[s].row]

(* The deduction is posted on the day of the decision, if none is.            *)
Deduction(r) ==
  IF requests[r].entry THEN EmptyBag
  ELSE Entry("leave_taken", -requests[r].days, today, 0, Never, r)

(* decide_request asks the engine, which knows nothing of a cancellation.     *)
BeginDecide(s, r, action) ==
  /\ requests[r].engine = "pending"
  /\ action = "approved" /\ ~requests[r].entry => Active(today)
  /\ Starts(s, [op |-> "decide", request |-> r,
       add |-> IF action = "approved" THEN Deduction(r) ELSE EmptyBag,
       row |-> [requests[r] EXCEPT !.engine = action, !.state = action,
                                   !.entry = @ \/ action = "approved"]])

CommitDecide(s) ==
  /\ Commits(s, "decide")
  /\ requests' = [requests EXCEPT ![tx[s].request] = tx[s].row]

(* Mutant of Refund: whatever is cancelled gives its days back.               *)
MutAlways(r) == Entry("adjustment", requests[r].days, today, 0, Never, r)
Refund(r) ==
  IF requests[r].state = "approved"
  THEN Entry("adjustment", requests[r].days, today, 0, Never, r) ELSE EmptyBag

BeginCancel(s, r) ==
  /\ requests[r].state \in {"pending", "approved"}
  /\ requests[r].state = "approved" => Active(today)
  /\ Starts(s, [op |-> "cancel", request |-> r, add |-> Refund(r),
                row |-> [requests[r] EXCEPT !.state = "cancelled"]])

CommitCancel(s) ==
  /\ Commits(s, "cancel")
  /\ requests' = [requests EXCEPT ![tx[s].request] = tx[s].row]

(* -------------------------------- calendar -------------------------------- *)

Tick ==
  /\ today < LastDay
  /\ today' = today + 1
  /\ UNCHANGED <<holidays, closed, exit, entries, requests, tx>>

StateHoliday(d) ==
  /\ d \notin closed /\ d \notin holidays
  /\ holidays' = holidays \cup {d}
  /\ UNCHANGED <<today, closed, exit, entries, requests, tx>>

RemoveHoliday(d) ==
  /\ d \in holidays /\ d \notin closed
  /\ holidays' = holidays \ {d}
  /\ UNCHANGED <<today, closed, exit, entries, requests, tx>>

(* lock_period closes the month of a day.                                     *)
LockPeriod(m) ==
  /\ ~({d \in Days : d <= m} \subseteq closed)
  /\ closed' = closed \cup {d \in Days : d <= m}
  /\ UNCHANGED <<today, holidays, exit, entries, requests, tx>>

Leave ==
  /\ exit = Never
  /\ exit' = today
  /\ UNCHANGED <<today, holidays, closed, entries, requests, tx>>

Next ==
  \/ \E s \in Sessions, m \in MonthEnds : BeginAccrue(s, m)
  \/ \E s \in Sessions, d \in Expiries : BeginCarry(s, d)
  \/ \E s \in Sessions, r \in Requests, action \in {"approved", "rejected"} :
       BeginDecide(s, r, action)
  \/ \E s \in Sessions, r \in Requests : BeginCancel(s, r)
  \/ \E s \in Sessions :
       \/ CommitAccrue(s) \/ CommitCarry(s) \/ CommitRequest(s) \/ CommitDecide(s)
       \/ CommitCancel(s) \/ Abort(s)
  \/ \E s \in Sessions, r \in Requests, from, to \in Days, override, waits \in BOOLEAN :
       BeginRequest(s, r, from, to, override, waits)
  \/ \E d \in Movable : StateHoliday(d) \/ RemoveHoliday(d)
  \/ \E m \in MonthEnds : LockPeriod(m)
  \/ Tick \/ Leave

Spec == Init /\ [][Next]_vars

(* ------------------------------- properties ------------------------------- *)

(* The leave rows: leave.py, leave_requests.py, holidays.py.                  *)
TypeOK ==
  /\ today \in Days /\ holidays \subseteq Days /\ closed \subseteq Days /\ exit \in 1..Never
  /\ BagToSet(entries) \subseteq EntryRows /\ IsABag(entries)
  /\ requests \in [Requests -> RequestRows]
  /\ \A s \in Sessions : tx[s].op \in Operations /\ tx[s].row \in RequestRows

(* Two runs of one accrual or year end, whenever they overlap, add it once:   *)
(* one entry of a kind per period, and no more carried over than lapsed       *)
(* (leave.py: "one employee, one type and one period is one accrual").        *)
OncePerPeriod ==
  /\ \A e \in BagToSet(entries) : e.period # 0 =>
       /\ entries[e] = 1
       /\ \A f \in BagToSet(entries) \ {e} : <<f.kind, f.period>> # <<e.kind, e.period>>
  /\ \A e \in BagToSet(entries) : e.kind = "carry_forward" =>
       \E f \in BagToSet(entries) : f.period = YearEnd /\ f.kind = "adjustment" /\ e.days <= -f.days

(* What an application has taken and given back, over any sequence of         *)
(* decisions and cancellations, is its days while it stands approved and      *)
(* nothing otherwise (leave_requests.py: "A cancelled application restores    *)
(* what it took and nothing else").                                           *)
RestoresWhatItTook ==
  \A r \in Requests :
    MapThenSumSet(LAMBDA e : e.days * entries[e],
                  {e \in BagToSet(entries) : e.request = r})
      = IF requests[r].state = "approved" THEN -requests[r].days ELSE 0

(* leave_requests.py: "a second decision on a finished request is refused".   *)
(* Refuted: the approval request of a cancelled application still waits, and  *)
(* a decision on it approves the application again.                           *)
CancelledIsFinished ==
  [][\A r \in Requests : requests[r].state = "cancelled" => requests'[r].state = "cancelled"]_vars

(* leave_requests.py: "An application over the balance is refused unless      *)
(* somebody takes it on the record".  Refuted: an application is compared     *)
(* with what was decided, and two that wait are each affordable.              *)
OverdraftIsOwned ==
  \A r \in Requests :
    requests[r].state = "approved" /\ Balance(today) < 0 => \E q \in Requests : requests[q].override
================================================================================
