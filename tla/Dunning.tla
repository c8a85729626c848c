------------------------------- MODULE Dunning -------------------------------
(* Reminders of overdue invoices (app/ar/dunning.py): a run reminds each open *)
(* invoice at the level its days past due have reached, once per level and    *)
(* run key.  The message leaves before the reminder is written: send_outbound *)
(* commits its delivery, run_dunning commits the reminder.                    *)
EXTENDS Integers, Sequences, FiniteSets, FiniteSetsExt

CONSTANTS
  Count,      \* the number of invoices
  Due,        \* Due[i]: the day invoice i is due
  Spans,      \* the levels: <<from, to>> days past due, to = Null for no end
  Runners,    \* sessions that may run the job
  LastDay,    \* days of a run of the model (a bound, not code)
  MaxCrashes  \* crashes happen only before so many runs ended early (a bound)

Null == -1
Invoices == 1..Count  \* in the order of open_invoices: oldest due first
Days == 1..LastDay
Levels == DOMAIN Spans

(* checked_levels: the spans partition the days from the first one on, and    *)
(* only the last has no end.                                                  *)
CheckedLevels(spans) ==
  /\ spans # <<>>
  /\ \A n \in DOMAIN spans :
       /\ spans[n][1] >= 0
       /\ IF n = Len(spans) THEN spans[n][2] = Null
          ELSE /\ spans[n][2] >= spans[n][1]
               /\ spans[n+1][1] = spans[n][2] + 1

LevelAssumption == Spans \in Seq(Int \X Int) /\ CheckedLevels(Spans)
DueAssumption ==
  /\ Count \in Nat /\ LastDay \in Nat \ {0} /\ MaxCrashes \in Nat /\ IsFiniteSet(Runners)
  /\ Due \in [Invoices -> Int]
  /\ \A i, j \in Invoices : i < j => Due[i] <= Due[j]

VARIABLES
  today,
  open,       \* the invoices with something left to pay
  reachable,  \* whether the customer's primary contact has an address
  reminders,  \* the DunningReminder rows
  sent,       \* sent[i][d]: messages about i that left in the run of day d
  job,        \* job[r]: the run of r
  died        \* the runs that ended early

vars == <<today, open, reachable, reminders, sent, job, died>>

ReminderRows == [invoice : Invoices, level : Levels, key : Days, delivered : BOOLEAN]

(* key: the date the run began, which is its run key; reminded: what it found *)
(* written under that key; at: the invoice looked at; level: of the message   *)
(* that left; let: the invoices it left alone, and why.                       *)
NoJob == [phase |-> "idle", key |-> 1, at |-> 0, reminded |-> {}, level |-> 0,
          delivered |-> FALSE, settled |-> {}]

Init ==
  /\ today = 1
  /\ open = Invoices
  /\ reachable \in BOOLEAN
  /\ reminders = {}
  /\ sent = [i \in Invoices |-> [d \in Days |-> 0]]
  /\ job = [r \in Runners |-> NoJob]
  /\ died = 0

Start(r) ==
  /\ job[r].phase \in {"idle", "done"}
  /\ job' = [job EXCEPT ![r] =
       [NoJob EXCEPT !.phase = "next", !.key = today, !.at = 1,
                     !.reminded = {<<m.invoice, m.level>> : m \in {n \in reminders : n.key = today}}]]
  /\ UNCHANGED <<today, open, reachable, reminders, sent, died>>

DaysLate(r) == job[r].key - Due[job[r].at]

(* Mutant of LevelFor: every level whose days have come, the first one first. *)
MutFirstLevel(days) ==
  LET fit == {n \in Levels : Spans[n][1] <= days} IN IF fit = {} THEN 0 ELSE Min(fit)

(* level_for: the level whose span holds the days, or none yet.               *)
LevelFor(days) ==
  LET fit == {n \in Levels : /\ Spans[n][1] <= days
                             /\ Spans[n][2] = Null \/ days <= Spans[n][2]}
  IN  IF fit = {} THEN 0 ELSE Min(fit)

(* The invoice is overdue, has reached a level, and was not reminded at it    *)
(* under this key.                                                            *)
Remindable(r) ==
  /\ job[r].at \in open
  /\ DaysLate(r) >= 0
  /\ LevelFor(DaysLate(r)) # 0
  /\ <<job[r].at, LevelFor(DaysLate(r))>> \notin job[r].reminded

AtInvoice(r) == job[r].phase = "next" /\ job[r].at \in Invoices

(* Left alone: settled, not due, already reminded.                            *)
Pass(r) ==
  /\ AtInvoice(r)
  /\ ~Remindable(r)
  /\ job' = [job EXCEPT ![r].at = @ + 1,
                        ![r].settled = IF job[r].at \in open THEN @ ELSE @ \cup {job[r].at}]
  /\ UNCHANGED <<today, open, reachable, reminders, sent, died>>

(* send_outbound: the message leaves or fails; without an address nothing is  *)
(* sent.                                                                      *)
Send(r, delivered) ==
  LET i == job[r].at IN
  /\ AtInvoice(r)
  /\ Remindable(r)
  /\ delivered => reachable
  /\ sent' = [sent EXCEPT ![i][job[r].key] = IF delivered THEN @ + 1 ELSE @]
  /\ job' = [job EXCEPT ![r].phase = "record", ![r].level = LevelFor(DaysLate(r)),
                        ![r].delivered = delivered]
  /\ UNCHANGED <<today, open, reachable, reminders, died>>

Row(r) == [invoice |-> job[r].at, level |-> job[r].level, key |-> job[r].key,
           delivered |-> job[r].delivered]
Taken(r) == \E m \in reminders : /\ m.invoice = job[r].at /\ m.level = job[r].level
                                 /\ m.key = job[r].key

(* Mutant of Record: only a message that left is worth a row.                 *)
MutRecordDelivered(r) ==
  /\ job[r].phase = "record"
  /\ ~Taken(r)
  /\ reminders' = IF job[r].delivered THEN reminders \cup {Row(r)} ELSE reminders
  /\ job' = [job EXCEPT ![r].phase = "next", ![r].at = @ + 1]
  /\ UNCHANGED <<today, open, reachable, sent, died>>

(* The reminder, delivered or not, is committed.                              *)
Record(r) ==
  /\ job[r].phase = "record"
  /\ ~Taken(r)
  /\ reminders' = reminders \cup {Row(r)}
  /\ job' = [job EXCEPT ![r].phase = "next", ![r].at = @ + 1]
  /\ UNCHANGED <<today, open, reachable, sent, died>>

(* Another run wrote it first: the unique index ends this run with an error.  *)
Collide(r) ==
  /\ job[r].phase = "record"
  /\ Taken(r)
  /\ died' = died + 1
  /\ job' = [job EXCEPT ![r] = NoJob]
  /\ UNCHANGED <<today, open, reachable, reminders, sent>>

Finish(r) ==
  /\ job[r].phase = "next" /\ job[r].at \notin Invoices
  /\ job' = [job EXCEPT ![r].phase = "done"]
  /\ UNCHANGED <<today, open, reachable, reminders, sent, died>>

Crash(r) ==
  /\ died < MaxCrashes
  /\ job[r].phase \in {"next", "record"}
  /\ died' = died + 1
  /\ job' = [job EXCEPT ![r] = NoJob]
  /\ UNCHANGED <<today, open, reachable, reminders, sent>>

Pay(i) ==
  /\ i \in open
  /\ open' = open \ {i}
  /\ UNCHANGED <<today, reachable, reminders, sent, job, died>>

Tomorrow ==
  /\ today < LastDay
  /\ today' = today + 1
  /\ UNCHANGED <<open, reachable, reminders, sent, job, died>>

Next ==
  \/ \E r \in Runners :
       \/ Start(r) \/ Pass(r) \/ Record(r) \/ Collide(r) \/ Finish(r) \/ Crash(r)
       \/ \E delivered \in BOOLEAN : Send(r, delivered)
  \/ \E i \in Invoices : Pay(i)
  \/ Tomorrow

Spec == Init /\ [][Next]_vars

(* -------------------------------- properties ------------------------------ *)

TypeOK ==
  /\ today \in Days
  /\ open \subseteq Invoices
  /\ reminders \subseteq ReminderRows
  /\ sent \in [Invoices -> [Days -> Nat]]
  /\ died \in Nat

(* "Re-running the job duplicates nothing": under one key an invoice has one  *)
(* reminder, at the level its days have reached, and no more messages left    *)
(* than that, and one for each run that died or ran into another.             *)
RemindedOnce ==
  \A i \in Invoices, d \in Days :
    LET of == {m \in reminders : m.invoice = i /\ m.key = d} IN
    /\ \A m, n \in of : m = n
    /\ \A m \in of : /\ Spans[m.level][1] <= d - Due[i]
                     /\ Spans[m.level][2] = Null \/ d - Due[i] <= Spans[m.level][2]
    /\ sent[i][d] <= died + (IF \E m \in of : m.delivered THEN 1 ELSE 0)
                     + Cardinality({r \in Runners : job[r].phase = "record" /\ job[r].at = i})

(* A run that ends has reminded every invoice past its first level, unless it *)
(* had been paid: "a reminder that never goes out is worse than one that goes *)
(* twice".                                                                    *)
NobodyForgotten ==
  \A r \in Runners : job[r].phase = "done" =>
    \A i \in Invoices \ job[r].settled :
      job[r].key - Due[i] >= Spans[1][1] =>
        \E m \in reminders : m.invoice = i /\ m.key = job[r].key
=============================================================================
