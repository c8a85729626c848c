------------------------------- MODULE MCOffice -------------------------------
(* The desks of the office: leave, payroll, the history of the staff, clocks,   *)
(* rosters, the journal, and the chart of accounts with its statements.  They  *)
(* share no rows, so one of them works in a behaviour while the others stand   *)
(* still: what is reached of a desk is what it reaches alone.                  *)
EXTENDS Integers, Sequences, FiniteSets, TLC

CONSTANTS
  Handlers,  \* requests of leave, payroll, the clock and the journal that may meet
  Clerks,    \* those that keep rosters and accounts
  LastDay,   \* the days of the staff, roster, journal and account desks (a bound, not code)
  (* leave and payroll: see LeaveDesk, PayRuns *)
  LastLeaveDay, MonthEnds, YearEnd, Accrual, Cap, Expiries, Movable, Applications,
  LastPeriod, LastRevision, Salary, Withheld, Percent, Loans, Facts, OnRecord, MaxEvents, Lockable,
  (* the staff and the clock: see StaffTree, ClockFeed *)
  People, Followed, Salaries,
  ClockUsers, Clocked, Readings, ByHand, Windows, LastAt, Break,
  (* rosters: see Roster *)
  Staffed, Shifts, Scheduled, WorkedMinutes, Limits, Ruled, Excepted,
  (* the journal and the accounts: see GeneralLedger, Books *)
  Keys, SumsBooked, Rates, MaxEntries, Charted, KindOf, BankKeys, MaxPosted,
  a1, a2, i1, x1, h1, h2  \* accounts and shifts of the small instance

Classes == {"asset", "liability", "equity", "income", "expense"}

VARIABLES
  desk,  \* the desk that is at work
  leaveToday, leaveHolidays, leaveClosed, leaveExit, leaveEntries, leaveRequests, leaveTx,
  payFacts, payChanges, payRuns, payRecoveries, paySettled, payLocked, payEntries, payTx,
  payPending,
  staffHired, staffContracts, staffPlacements, staffJoined, staffExits,
  clockNow, clockMapped, clockExits, clockPunches, clockParked, clockPulls, clockTx,
  rosterShifts, rosterRoster, rosterOverrides, rosterHolidays, rosterClosed, rosterExits,
  rosterRules, rosterTx,
  journalToday, journalPeriods, journalRates, journalJournal, journalKeys, journalWork,
  bookState, bookParent, bookTx, bookMapping, bookLedger

leaveVars == <<leaveToday, leaveHolidays, leaveClosed, leaveExit, leaveEntries,
               leaveRequests, leaveTx>>
payVars == <<payFacts, payChanges, payRuns, payRecoveries, paySettled, payLocked,
             payEntries, payTx, payPending>>
staffVars == <<staffHired, staffContracts, staffPlacements, staffJoined, staffExits>>
clockVars == <<clockNow, clockMapped, clockExits, clockPunches, clockParked, clockPulls,
               clockTx>>
rosterVars == <<rosterShifts, rosterRoster, rosterOverrides, rosterHolidays, rosterClosed,
                rosterExits, rosterRules, rosterTx>>
journalVars == <<journalToday, journalPeriods, journalRates, journalJournal, journalKeys,
                 journalWork>>
bookVars == <<bookState, bookParent, bookTx, bookMapping, bookLedger>>
officeVars == <<desk, leaveVars, payVars, staffVars, clockVars, rosterVars, journalVars, bookVars>>

Leave == INSTANCE LeaveDesk WITH
  LastDay <- LastLeaveDay, Requests <- Applications, Sessions <- Handlers, Serial <- TRUE,
  today <- leaveToday, holidays <- leaveHolidays, closed <- leaveClosed, exit <- leaveExit,
  entries <- leaveEntries, requests <- leaveRequests, tx <- leaveTx
Pay == INSTANCE PayRuns WITH
  Sessions <- Handlers, Deduction <- Withheld, Serial <- TRUE,
  facts <- payFacts, changes <- payChanges, runs <- payRuns, recoveries <- payRecoveries,
  settled <- paySettled, locked <- payLocked, entries <- payEntries, tx <- payTx, pending <- payPending
Org == INSTANCE StaffTree WITH
  Staff <- People, InOrder <- TRUE,
  hired <- staffHired, contracts <- staffContracts, placements <- staffPlacements,
  joined <- staffJoined, exits <- staffExits
Clock == INSTANCE ClockFeed WITH
  Users <- ClockUsers, Staff <- Clocked, Sessions <- Handlers, Serial <- TRUE,
  now <- clockNow, mapped <- clockMapped, exits <- clockExits, punches <- clockPunches,
  parked <- clockParked, pulls <- clockPulls, tx <- clockTx
Rosters == INSTANCE Roster WITH
  Staff <- Staffed, Worked <- WorkedMinutes, Sessions <- Clerks, Serial <- TRUE,
  shifts <- rosterShifts, roster <- rosterRoster, overrides <- rosterOverrides,
  holidays <- rosterHolidays, closed <- rosterClosed, exits <- rosterExits,
  rules <- rosterRules, tx <- rosterTx
Journal == INSTANCE GeneralLedger WITH
  Sessions <- Handlers, Amounts <- SumsBooked,
  Serial <- TRUE, Mixed <- FALSE, Sources <- {TRUE},
  today <- journalToday, periods <- journalPeriods, rates <- journalRates,
  journal <- journalJournal, keys <- journalKeys, work <- journalWork
Accounts == INSTANCE Books WITH
  Nodes <- Charted, Under <- {<<c, c>> : c \in Classes}, Tops <- Classes,
  Sessions <- Clerks, Serial <- TRUE, Keys <- BankKeys, MaxEntries <- MaxPosted,
  state <- bookState, parent <- bookParent, tx <- bookTx, mapping <- bookMapping,
  ledger <- bookLedger

ASSUME OfficeParameters ==
  /\ Leave!CalendarAssumption
  /\ Pay!PayAssumption
  /\ Org!StaffAssumption
  /\ Org!BoundAssumption
  /\ Clock!ReadingAssumption
  /\ Clock!WindowAssumption
  /\ Rosters!RosterAssumption
  /\ Journal!LedgerAssumption
  /\ Accounts!MasterTreeAssumption
  /\ Accounts!BooksAssumption

Desks == {"leave", "payroll", "staff", "clock", "roster", "journal", "accounts"}

(* Each desk starts from its own initial states; what another one could start *)
(* from is fixed while it is not at work.                                      *)
OfficeInit ==
  /\ desk \in Desks
  /\ Leave!Init
  /\ Pay!Init
  /\ Org!Init
  /\ Clock!Init
  /\ Rosters!Init
  /\ Journal!Init
  /\ Accounts!Init
  /\ payFacts \in OnRecord

LeaveWork ==
  /\ desk = "leave" /\ Leave!Next
  /\ UNCHANGED <<desk, payVars, staffVars, clockVars, rosterVars, journalVars, bookVars>>
PayWork ==
  /\ desk = "payroll" /\ Pay!Next
  /\ UNCHANGED <<desk, leaveVars, staffVars, clockVars, rosterVars, journalVars, bookVars>>
StaffWork ==
  /\ desk = "staff" /\ Org!Next
  /\ UNCHANGED <<desk, leaveVars, payVars, clockVars, rosterVars, journalVars, bookVars>>
ClockWork ==
  /\ desk = "clock" /\ Clock!Next
  /\ UNCHANGED <<desk, leaveVars, payVars, staffVars, rosterVars, journalVars, bookVars>>
RostersWork ==
  /\ desk = "roster" /\ Rosters!Next
  /\ UNCHANGED <<desk, leaveVars, payVars, staffVars, clockVars, journalVars, bookVars>>
JournalWork ==
  /\ desk = "journal" /\ Journal!Next
  /\ UNCHANGED <<desk, leaveVars, payVars, staffVars, clockVars, rosterVars, bookVars>>
AccountsWork ==
  /\ desk = "accounts" /\ Accounts!Next
  /\ UNCHANGED <<desk, leaveVars, payVars, staffVars, clockVars, rosterVars, journalVars>>

OfficeNext ==
  \/ LeaveWork
  \/ PayWork
  \/ StaffWork
  \/ ClockWork
  \/ RostersWork
  \/ JournalWork
  \/ AccountsWork

OfficeSpec == OfficeInit /\ [][OfficeNext]_officeVars

(* -------------------------------- properties ------------------------------ *)

(* Every row of every desk keeps its type. *)
RowsTyped ==
  /\ desk \in Desks
  /\ desk = "leave" => Leave!TypeOK
  /\ desk = "payroll" => Pay!TypeOK
  /\ desk = "staff" => Org!TypeOK
  /\ desk = "clock" => Clock!TypeOK
  /\ desk = "roster" => Rosters!TypeOK
  /\ desk = "journal" => Journal!TypeOK
  /\ desk = "accounts" => Accounts!TypeOK

(* Leave accrues and is carried over once per period (leave.py), and an        *)
(* application that is cancelled gives back what it took (leave_requests.py).  *)
LeaveHolds == desk = "leave" => Leave!OncePerPeriod /\ Leave!RestoresWhatItTook

(* A loan is recovered once and no further than its principal while one       *)
(* request at a time recovers or settles (loans.py), and one revision of a    *)
(* period's payroll run stands (engine.py).                                   *)
PayrollHolds == desk = "payroll" => Pay!LoanIsRecoveredOnce /\ Pay!OneRunStands

(* On every day the employees form one tree (org.py).                          *)
TreeEachDay == desk = "staff" => Org!TreeEachDay

(* A reading of the clock is counted once, and none of a recorded pull is     *)
(* lost (biometric.py); the hours of a day are matched in and out             *)
(* (attendance.py).                                                           *)
HoursHold ==
  desk = "clock" =>
    Clock!CountedOnce /\ Clock!NothingLost /\ Clock!HoursAreMatched /\ Clock!ParkedIsTakenUp

(* What was recorded for a day that passed, or for a closed month, is not     *)
(* rewritten: terms and placements (employees.py, org.py), roster entries and *)
(* overtime rules (shifts.py), the journal (periods.py), the last two where   *)
(* no month is closed around a posting or a change of its calendar; and a     *)
(* revaluation leaves a balance carried at the rate its memo names            *)
(* (fx_gain_loss.py).                                                         *)
RecordsStand ==
  /\ Org!HistoryStands
  /\ Rosters!EntriesTakeEffect /\ Rosters!ClosedDaysStand
  /\ Journal!ClosedMonthStands /\ Journal!CarriedAtTheRate

(* A key posts one entry, however many requests use it (posting.py).  The      *)
(* chart is a tree (accounts.py), the cash flow statement ends in the cash     *)
(* there is, and the balance sheet balances at the end of what was posted      *)
(* (statements.py).                                                            *)
BooksHold ==
  /\ desk = "journal" => Journal!PostedOnce
  /\ desk = "accounts" => /\ Accounts!TreeIsWhole
                          /\ Accounts!CashFlowFoots
                          /\ Accounts!SheetFoots

(* "That is what makes assets = liabilities + equity hold on any date"         *)
(* (statements.py): also where an income account carries a debit balance.      *)
SheetFootsOnAnyDate == desk = "accounts" => Accounts!SheetFootsOnAnyDate

(* ------------------------- the small instance of TLC ----------------------- *)

OneLoan == <<[principal |-> 3, instalment |-> 2]>>
Day == [leave |-> "none", worked |-> TRUE, holiday |-> FALSE, shift |-> TRUE]
AsUsual == {<<Day, Day>>}
TwoFacts == {Day, [Day EXCEPT !.shift = FALSE]}

(* One user comes and goes; another is parked until somebody maps it, and is   *)
(* read once with a direction nobody knows.                                    *)
Read(user, at, way) == [user |-> user, at |-> at, way |-> way]
FourReadings == {Read("u1", 1, "in"), Read("u1", 2, "out"), Read("u2", 2, "out"),
                 Read("u2", 3, "odd")}
InAndOut == {[who |-> "e1", at |-> 2, way |-> "in"], [who |-> "e1", at |-> 3, way |-> "out"]}
ThreeWindows == {<<1, 2>>, <<2, 2>>, <<2, 3>>}

TwoMinutes == h1 :> 2 @@ h2 :> 2
ThreeWorked == <<3, 3>>
FourClasses == a1 :> "asset" @@ a2 :> "asset" @@ i1 :> "income" @@ x1 :> "expense"

Symmetry == Permutations(Handlers) \cup Permutations(Keys)
=============================================================================
