--------------------------- MODULE RecurringBilling ---------------------------
(* Standing agreements and the invoices they raise (app/ar/recurring.py): one *)
(* run of generate_due goes through the templates in the order of their       *)
(* codes, finds the periods of each that were reached and not billed, and     *)
(* commits the invoice of a period together with the row that says so.        *)
EXTENDS Integers, FiniteSets, FiniteSetsExt

CONSTANTS
  Count,      \* the number of templates
  LastPeriod, \* periods a run of the model can reach (a bound, not code)
  Ends,       \* Ends[t]: the last period of t
  Runners,    \* sessions that may run the job
  MaxCrashes  \* runs that die (a bound, not code)

Templates == 1..Count  \* in the order of their codes

TemplateAssumption ==
  /\ LastPeriod \in Nat \ {0} /\ MaxCrashes \in Nat /\ Count \in Nat
  /\ Ends \in [Templates -> 1..LastPeriod]

VARIABLES
  today,     \* the latest period that has begun
  paused,    \* paused[t]
  invoices,  \* invoices[t][p]: invoices raised for period p of t
  runs,      \* the RecurringInvoiceRun rows: pairs of a template and a period
  job,       \* job[r]: the run of r
  crashes

vars == <<today, paused, invoices, runs, job, crashes>>

Periods == 1..LastPeriod
Pairs == Templates \X Periods

TemplateRows == [paused : BOOLEAN, ends : Periods]
RunRows == SUBSET Pairs

(* at: the template being billed; due: its periods left; inserted: the period *)
(* whose invoice is flushed and not committed; failures: what is reported.    *)
NoJob == [phase |-> "idle", asOf |-> 0, at |-> 0, due |-> {}, inserted |-> 0,
          failures |-> {}, skipped |-> {}]

Init ==
  /\ today = 1
  /\ paused \in [Templates -> BOOLEAN]
  /\ invoices = [t \in Templates |-> [p \in Periods |-> 0]]
  /\ runs = {}
  /\ job = [r \in Runners |-> NoJob]
  /\ crashes = 0

(* pause_template pauses, or resumes.                                         *)
Pause(t, stop) ==
  /\ paused[t] # stop
  /\ paused' = [paused EXCEPT ![t] = stop]
  /\ UNCHANGED <<today, invoices, runs, job, crashes>>

Start(r) ==
  /\ job[r].phase \in {"idle", "done"}
  /\ job' = [job EXCEPT ![r] = [NoJob EXCEPT !.phase = "template", !.asOf = today]]
  /\ UNCHANGED <<today, paused, invoices, runs, crashes>>

(* periods_due: reached, within the agreement, and without a run row.         *)
PeriodsDue(t, asOf) == {p \in 1..asOf : p <= Ends[t] /\ <<t, p>> \notin runs}

(* The next template: a paused one is skipped.                                *)
TakeTemplate(r) ==
  LET t == job[r].at + 1 IN
  /\ job[r].phase = "template"
  /\ job' = [job EXCEPT ![r] =
       IF t \notin Templates THEN [@ EXCEPT !.phase = "done"]
       ELSE IF paused[t] THEN [@ EXCEPT !.at = t, !.skipped = job[r].skipped \cup {t}]
       ELSE [@ EXCEPT !.phase = "period", !.at = t, !.due = PeriodsDue(t, job[r].asOf)]]
  /\ UNCHANGED <<today, paused, invoices, runs, crashes>>

NextPeriod(r) == Min(job[r].due)

(* create_invoice and post_invoice flush the invoice of the earliest period.  *)
(* Its number names the period: a committed one is refused, and one another   *)
(* session has flushed is waited for.                                         *)
Insert(r) ==
  /\ job[r].phase = "period" /\ job[r].due # {} /\ job[r].inserted = 0
  /\ invoices[job[r].at][NextPeriod(r)] = 0
  /\ \A o \in Runners : ~(job[o].at = job[r].at /\ job[o].inserted = NextPeriod(r))
  /\ job' = [job EXCEPT ![r].inserted = NextPeriod(r)]
  /\ UNCHANGED <<today, paused, invoices, runs, crashes>>

(* Mutant of Commit: the row that says so is left for later.                  *)
MutInvoiceAlone(r) ==
  LET t == job[r].at
      p == job[r].inserted IN
  /\ p # 0
  /\ invoices' = [invoices EXCEPT ![t][p] = @ + 1]
  /\ runs' = runs
  /\ job' = [job EXCEPT ![r].inserted = 0, ![r].due = @ \ {p}]
  /\ UNCHANGED <<today, paused, crashes>>

(* The invoice and its run row are one commit.                                *)
Commit(r) ==
  LET t == job[r].at
      p == job[r].inserted IN
  /\ p # 0
  /\ invoices' = [invoices EXCEPT ![t][p] = @ + 1]
  /\ runs' = runs \cup {<<t, p>>}
  /\ job' = [job EXCEPT ![r].inserted = 0, ![r].due = @ \ {p}]
  /\ UNCHANGED <<today, paused, crashes>>

(* Mutant of Refuse: the run goes on to the next template.                    *)
MutGiveUpTemplate(r) ==
  /\ job[r].phase = "period" /\ job[r].due # {}
  /\ job' = [job EXCEPT ![r].inserted = 0, ![r].due = {},
                        ![r].failures = @ \cup {<<job[r].at, NextPeriod(r)>>}]
  /\ UNCHANGED <<today, paused, invoices, runs, crashes>>

(* Whatever refuses the invoice, or its number being taken, is reported; the  *)
(* other periods are still billed.                                            *)
Refuse(r) ==
  /\ job[r].phase = "period" /\ job[r].due # {}
  /\ job' = [job EXCEPT ![r].inserted = 0, ![r].due = @ \ {NextPeriod(r)},
                        ![r].failures = @ \cup {<<job[r].at, NextPeriod(r)>>}]
  /\ UNCHANGED <<today, paused, invoices, runs, crashes>>

Leave(r) ==
  /\ job[r].phase = "period" /\ job[r].due = {}
  /\ job' = [job EXCEPT ![r].phase = "template"]
  /\ UNCHANGED <<today, paused, invoices, runs, crashes>>

Crash(r) ==
  /\ crashes < MaxCrashes
  /\ job[r].phase \in {"template", "period"}
  /\ crashes' = crashes + 1
  /\ job' = [job EXCEPT ![r] = NoJob]
  /\ UNCHANGED <<today, paused, invoices, runs>>

Tomorrow ==
  /\ today < LastPeriod
  /\ today' = today + 1
  /\ UNCHANGED <<paused, invoices, runs, job, crashes>>

Next ==
  \/ \E t \in Templates, stop \in BOOLEAN : Pause(t, stop)
  \/ \E r \in Runners : \/ Start(r) \/ TakeTemplate(r) \/ Insert(r) \/ Commit(r)
                        \/ Refuse(r) \/ Leave(r) \/ Crash(r)
  \/ Tomorrow

Spec == Init /\ [][Next]_vars

(* -------------------------------- properties ------------------------------ *)

TypeOK ==
  /\ today \in Periods
  /\ \A t \in Templates : [paused |-> paused[t], ends |-> Ends[t]] \in TemplateRows
  /\ invoices \in [Templates -> [Periods -> Nat]]
  /\ runs \in RunRows
  /\ crashes \in 0..MaxCrashes

(* "A crash cannot leave an invoice nobody recorded", and two runs at once    *)
(* bill a period once: what is billed is what the run rows say.               *)
BilledOnce ==
  \A t \in Templates, p \in Periods :
    invoices[t][p] = IF <<t, p>> \in runs THEN 1 ELSE 0

(* "What a job silently skipped is money nobody billed": when a run is over,  *)
(* every period it had to bill has been billed, or is reported.               *)
NothingSkipped ==
  \A r \in Runners : job[r].phase = "done" =>
    \A t \in Templates \ job[r].skipped, p \in 1..job[r].asOf :
      p <= Ends[t] => <<t, p>> \in runs \cup job[r].failures
=============================================================================
