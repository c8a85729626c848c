----------------------------- MODULE SalesProofs ------------------------------
(* The desks of the sales side keep their promises, for any number of quotations, *)
(* customers, periods, overdue invoices, sales, cards, rules, offers and sessions *)
(* (app/sales, app/ar, app/pos): an invariant per desk, in the sections below, is *)
(* kept by every step of the desk, and the last section puts them together.      *)
EXTENDS MCSales, SumTheorems

(* ------------------------------ the least of a set ------------------------- *)

(* A set whose members have a natural number has one with the least.           *)
LEMMA LeastExists ==
  ASSUME NEW S, S # {}, NEW f, f \in [S -> Nat]
  PROVE  \E x \in S : \A y \in S : f[x] <= f[y]
<1> DEFINE T == {f[x] : x \in S}
<1>1. T \subseteq Nat /\ T # {}
  OBVIOUS
<1> DEFINE R == {ss \in Nat \X Nat : ss[1] < ss[2]}
<1>2. IsWellFoundedOn(R, Nat)
  BY ONLY NatLessThanWellFounded DEF OpToRel
<1> HIDE DEF T, R
<1>3. PICK n \in T : \A m \in T : ~(<<m, n>> \in R)
  BY ONLY <1>1, <1>2, WFMin
<1>4. \A m \in T : ~(m < n)
  BY <1>1, <1>3 DEF R
<1>5. PICK x \in S : f[x] = n
  BY <1>3 DEF T
<1>6. ASSUME NEW y \in S PROVE f[x] <= f[y]
  BY <1>1, <1>4, <1>5, f[y] \in T DEF T
<1> QED
  BY <1>6

LEMMA LeastIsMember ==
  ASSUME NEW S \in SUBSET Nat, S # {}
  PROVE  (CHOOSE n \in S : \A m \in S : n <= m) \in S
<1> DEFINE f == [n \in S |-> n]
<1>1. PICK n \in S : \A m \in S : f[n] <= f[m]
  BY LeastExists
<1> QED
  BY <1>1

LEMMA MinIsMember ==
  ASSUME NEW S \in SUBSET Nat, S # {}
  PROVE  Billing!Min(S) \in S /\ Reminders!Min(S) \in S
BY LeastIsMember DEF Billing!Min, Reminders!Min

(* ------------------------------ recurring invoices ------------------------- *)

BillJobs == [phase : {"idle", "template", "period", "done"}, asOf : 0..LastPeriod,
             at : 0..Agreements, due : SUBSET Billing!Periods, inserted : 0..LastPeriod,
             failures : SUBSET Billing!Pairs, skipped : SUBSET Billing!Templates]

BillTypes ==
  /\ billToday \in Billing!Periods
  /\ billPaused \in [Billing!Templates -> BOOLEAN]
  /\ billInvoices \in [Billing!Templates -> [Billing!Periods -> Nat]]
  /\ billRuns \subseteq Billing!Pairs
  /\ billJob \in [Sessions -> BillJobs]
  /\ billCrashes \in 0..MaxCrashes

(* A run has flushed the invoice of a period it still has to bill, and that no *)
(* row tells of.                                                               *)
HoldsItsPeriod(j, rows) ==
  j.inserted # 0 => /\ j.phase = "period" /\ j.inserted \in j.due
                    /\ <<j.at, j.inserted>> \notin rows

(* Of the templates it came to and did not skip, every period that had been    *)
(* reached is billed, reported, or still on its list.                          *)
LeavesNothingOut(j, rows) ==
  \A t \in Billing!Templates \ j.skipped, p \in 1..j.asOf :
    t <= j.at /\ p <= EndPeriods[t] =>
      \/ <<t, p>> \in rows \cup j.failures
      \/ j.phase = "period" /\ t = j.at /\ p \in j.due

RunFits(j, rows) ==
  /\ HoldsItsPeriod(j, rows)
  /\ j.phase = "period" => j.at \in Billing!Templates
  /\ j.phase = "done" => j.at = Agreements
  /\ LeavesNothingOut(j, rows)

RunsFit == \A r \in Sessions : RunFits(billJob[r], billRuns)

(* Two runs have flushed different invoices.                                   *)
OneInserts ==
  \A r, o \in Sessions :
    /\ billJob[r].inserted # 0 /\ billJob[r].inserted = billJob[o].inserted
    /\ billJob[r].at = billJob[o].at
    => r = o

BillInv == BillTypes /\ RunsFit /\ OneInserts /\ Billing!BilledOnce

LEMMA BillConstants ==
  /\ LastPeriod \in Nat \ {0} /\ Agreements \in Nat /\ MaxCrashes \in Nat
  /\ EndPeriods \in [Billing!Templates -> 1..LastPeriod]
BY Parameters DEF Billing!TemplateAssumption

LEMMA BillStart == Billing!Init => BillInv
<1> SUFFICES ASSUME Billing!Init PROVE BillInv
  OBVIOUS
<1> USE BillConstants DEF Billing!Init
<1>1. Billing!NoJob \in BillJobs
  BY DEF Billing!NoJob, BillJobs
<1>2. BillTypes
  BY <1>1 DEF BillTypes, Billing!Periods
<1>3. RunsFit /\ OneInserts
  BY DEF RunsFit, RunFits, HoldsItsPeriod, LeavesNothingOut, OneInserts, Billing!NoJob
<1>4. Billing!BilledOnce
  BY DEF Billing!BilledOnce
<1> QED
  BY <1>2, <1>3, <1>4 DEF BillInv

(* What becomes of the jobs when r goes on to j.                               *)
GoesOnTo(r, j) ==
  /\ j \in BillJobs
  /\ billJob' \in [Sessions -> BillJobs] /\ billJob'[r] = j
  /\ \A o \in Sessions \ {r} : billJob'[o] = billJob[o]

(* A job that goes on and writes nothing keeps what the others rest on.        *)
LEMMA JobGoesOn ==
  ASSUME BillInv, NEW r \in Sessions, NEW j, GoesOnTo(r, j), RunFits(j, billRuns),
         \A o \in Sessions \ {r} : j.inserted # 0 =>
           ~(j.at = billJob[o].at /\ j.inserted = billJob[o].inserted),
         UNCHANGED <<billPaused, billInvoices, billRuns>>,
         billToday' \in Billing!Periods, billCrashes' \in 0..MaxCrashes
  PROVE  BillInv'
<1> USE DEF BillInv, GoesOnTo
<1>1. BillTypes'
  BY DEF BillTypes
<1>2. RunsFit'
  <2>1. ASSUME NEW o \in Sessions PROVE RunFits(billJob'[o], billRuns)
    BY DEF RunsFit
  <2> QED
    BY <2>1 DEF RunsFit
<1>3. OneInserts'
  BY DEF OneInserts
<1>4. Billing!BilledOnce'
  BY DEF Billing!BilledOnce
<1> QED
  BY <1>1, <1>2, <1>3, <1>4

(* The jobs stand still, and no row is written.                                *)
LEMMA BillStill ==
  ASSUME BillInv, UNCHANGED <<billInvoices, billRuns, billJob>>,
         billPaused' \in [Billing!Templates -> BOOLEAN],
         billToday' \in Billing!Periods, billCrashes' \in 0..MaxCrashes
  PROVE  BillInv'
BY DEF BillInv, BillTypes, RunsFit, OneInserts, Billing!BilledOnce

LEMMA BillPauses ==
  ASSUME BillInv, NEW t \in Billing!Templates, NEW stop \in BOOLEAN, Billing!Pause(t, stop)
  PROVE  BillInv'
<1>1. billPaused' \in [Billing!Templates -> BOOLEAN]
  BY DEF BillInv, BillTypes, Billing!Pause
<1> QED
  BY <1>1, BillStill DEF BillInv, BillTypes, Billing!Pause

LEMMA BillTomorrow == ASSUME BillInv, Billing!Tomorrow PROVE BillInv'
<1>1. billToday' \in Billing!Periods
  BY BillConstants DEF BillInv, BillTypes, Billing!Tomorrow, Billing!Periods
<1> QED
  BY <1>1, BillStill DEF BillInv, BillTypes, Billing!Tomorrow

LEMMA BillStarts == ASSUME BillInv, NEW r \in Sessions, Billing!Start(r) PROVE BillInv'
<1> DEFINE j == [Billing!NoJob EXCEPT !.phase = "template", !.asOf = billToday]
<1>1. /\ billJob' = [billJob EXCEPT ![r] = j]
      /\ UNCHANGED <<billToday, billPaused, billInvoices, billRuns, billCrashes>>
  BY DEF Billing!Start
<1>2. /\ j.phase = "template" /\ j.at = 0 /\ j.due = {} /\ j.inserted = 0
      /\ j.failures = {} /\ j.skipped = {}
  BY DEF Billing!NoJob
<1>3. j \in BillJobs
  <2>1. Billing!NoJob \in BillJobs /\ billToday \in 0..LastPeriod
    BY BillConstants DEF BillInv, BillTypes, BillJobs, Billing!Periods, Billing!NoJob
  <2> QED
    BY <2>1 DEF BillJobs
<1> HIDE DEF j
<1>4. GoesOnTo(r, j)
  BY <1>1, <1>3 DEF BillInv, BillTypes, GoesOnTo
<1>5. RunFits(j, billRuns)
  BY <1>2 DEF RunFits, HoldsItsPeriod, LeavesNothingOut, Billing!Templates
<1> QED
  BY <1>1, <1>2, <1>4, <1>5, JobGoesOn DEF BillInv, BillTypes

LEMMA BillCrashes == ASSUME BillInv, NEW r \in Sessions, Billing!Crash(r) PROVE BillInv'
<1>1. /\ billJob' = [billJob EXCEPT ![r] = Billing!NoJob]
      /\ UNCHANGED <<billToday, billPaused, billInvoices, billRuns>>
      /\ billCrashes' \in 0..MaxCrashes
  BY BillConstants DEF Billing!Crash, BillInv, BillTypes
<1>2. Billing!NoJob \in BillJobs /\ RunFits(Billing!NoJob, billRuns) /\ Billing!NoJob.inserted = 0
  BY BillConstants
     DEF Billing!NoJob, BillJobs, RunFits, HoldsItsPeriod, LeavesNothingOut, Billing!Templates
<1>3. GoesOnTo(r, Billing!NoJob)
  BY <1>1, <1>2 DEF BillInv, BillTypes, GoesOnTo
<1> QED
  BY <1>1, <1>2, <1>3, JobGoesOn DEF BillInv, BillTypes

LEMMA BillLeaves == ASSUME BillInv, NEW r \in Sessions, Billing!Leave(r) PROVE BillInv'
<1> DEFINE i == billJob[r]  j == billJob'[r]
<1>1. /\ i \in BillJobs /\ i.phase = "period" /\ i.due = {} /\ RunFits(i, billRuns)
      /\ billJob' = [billJob EXCEPT ![r].phase = "template"]
      /\ UNCHANGED <<billToday, billPaused, billInvoices, billRuns, billCrashes>>
  BY DEF Billing!Leave, BillInv, BillTypes, RunsFit
<1>2. GoesOnTo(r, j)
  BY <1>1 DEF BillInv, BillTypes, BillJobs, GoesOnTo
<1>3. /\ j.phase = "template" /\ j.asOf = i.asOf /\ j.at = i.at /\ j.due = i.due
      /\ j.inserted = i.inserted /\ j.failures = i.failures /\ j.skipped = i.skipped
  BY <1>1 DEF BillInv, BillTypes, BillJobs
<1>4. i.inserted = 0
  BY <1>1 DEF RunFits, HoldsItsPeriod
<1> HIDE DEF i, j
<1>5. RunFits(j, billRuns)
  BY <1>1, <1>3, <1>4 DEF RunFits, HoldsItsPeriod, LeavesNothingOut
<1> QED
  BY <1>1, <1>2, <1>3, <1>4, <1>5, JobGoesOn DEF BillInv, BillTypes

LEMMA BillTakesTemplate == ASSUME BillInv, NEW r \in Sessions, Billing!TakeTemplate(r) PROVE BillInv'
<1> DEFINE i == billJob[r]  t == billJob[r].at + 1  D == Billing!PeriodsDue(t, i.asOf)
           done == [billJob[r] EXCEPT !.phase = "done"]
           skip == [billJob[r] EXCEPT !.at = t, !.skipped = billJob[r].skipped \cup {t}]
           take == [billJob[r] EXCEPT !.phase = "period", !.at = t, !.due = D]
<1>0. i \in BillJobs /\ RunFits(i, billRuns)
  BY DEF BillInv, BillTypes, RunsFit
<1>1. /\ i.phase = "template"
      /\ billJob' = [billJob EXCEPT ![r] = IF t \notin Billing!Templates THEN done
                                           ELSE IF billPaused[t] THEN skip ELSE take]
      /\ UNCHANGED <<billToday, billPaused, billInvoices, billRuns, billCrashes>>
  BY DEF Billing!TakeTemplate
<1>2. i.inserted = 0
  BY <1>0, <1>1 DEF RunFits, HoldsItsPeriod
<1>3. /\ i.at \in 0..Agreements /\ i.asOf \in 0..LastPeriod /\ t = i.at + 1
      /\ \A u \in Billing!Templates \ i.skipped, p \in 1..i.asOf :
            u <= i.at /\ p <= EndPeriods[u] => <<u, p>> \in billRuns \cup i.failures
  BY <1>0, <1>1 DEF RunFits, LeavesNothingOut, BillJobs
<1>4. D = {p \in 1..i.asOf : p <= EndPeriods[t] /\ <<t, p>> \notin billRuns}
  BY DEF Billing!PeriodsDue
<1>5. /\ done = [i EXCEPT !.phase = "done"]
      /\ skip = [i EXCEPT !.at = t, !.skipped = i.skipped \cup {t}]
      /\ take = [i EXCEPT !.phase = "period", !.at = t, !.due = D]
  OBVIOUS
<1> HIDE DEF i, t, D, done, skip, take
<1>6. ASSUME NEW j \in BillJobs, billJob' = [billJob EXCEPT ![r] = j], j.inserted = 0,
             RunFits(j, billRuns)
      PROVE  BillInv'
  <2>1. GoesOnTo(r, j)
    BY <1>6 DEF BillInv, BillTypes, GoesOnTo
  <2> QED
    BY <1>1, <1>6, <2>1, JobGoesOn DEF BillInv, BillTypes
<1>7. CASE t \notin Billing!Templates
  <2>1. /\ done \in BillJobs /\ done.phase = "done" /\ done.asOf = i.asOf /\ done.at = i.at
        /\ done.inserted = 0 /\ done.failures = i.failures /\ done.skipped = i.skipped
    BY <1>0, <1>1, <1>2, <1>5 DEF BillJobs
  <2>2. i.at = Agreements
    BY <1>3, <1>7, BillConstants DEF Billing!Templates
  <2>3. RunFits(done, billRuns)
    BY <1>3, <2>1, <2>2 DEF RunFits, HoldsItsPeriod, LeavesNothingOut
  <2> QED
    BY <1>1, <1>6, <1>7, <2>1, <2>3
<1>8. CASE t \in Billing!Templates /\ billPaused[t]
  <2>1. t \in 0..Agreements
    BY <1>8, BillConstants DEF Billing!Templates
  <2>2. /\ skip \in BillJobs /\ skip.phase = "template" /\ skip.asOf = i.asOf /\ skip.at = t
        /\ skip.inserted = 0 /\ skip.failures = i.failures /\ skip.skipped = i.skipped \cup {t}
    BY <1>0, <1>1, <1>2, <1>5, <1>8, <2>1 DEF BillJobs
  <2>3. RunFits(skip, billRuns)
    BY <1>3, <2>2, BillConstants DEF RunFits, HoldsItsPeriod, LeavesNothingOut, Billing!Templates
  <2> QED
    BY <1>1, <1>6, <1>8, <2>2, <2>3
<1>9. CASE t \in Billing!Templates /\ ~billPaused[t]
  <2>1. t \in 0..Agreements /\ D \subseteq Billing!Periods
    BY <1>3, <1>4, <1>9, BillConstants DEF Billing!Templates, Billing!Periods
  <2>2. /\ take \in BillJobs /\ take.phase = "period" /\ take.asOf = i.asOf /\ take.at = t
        /\ take.due = D /\ take.inserted = 0 /\ take.failures = i.failures
        /\ take.skipped = i.skipped
    BY <1>0, <1>1, <1>2, <1>5, <2>1 DEF BillJobs
  <2>3. LeavesNothingOut(take, billRuns)
    BY <1>3, <1>4, <2>2, BillConstants, SMTT(30) DEF LeavesNothingOut, Billing!Templates
  <2>4. RunFits(take, billRuns)
    BY <1>9, <2>2, <2>3 DEF RunFits, HoldsItsPeriod
  <2> QED
    BY <1>1, <1>6, <1>9, <2>2, <2>4
<1> QED
  BY <1>7, <1>8, <1>9

LEMMA NextPeriodIsDue ==
  ASSUME BillInv, NEW r \in Sessions, billJob[r].due # {}
  PROVE  Billing!NextPeriod(r) \in billJob[r].due /\ Billing!NextPeriod(r) \in Billing!Periods
<1>1. billJob[r].due \in SUBSET Nat /\ billJob[r].due \subseteq Billing!Periods
  BY DEF BillInv, BillTypes, BillJobs, Billing!Periods
<1> QED
  BY <1>1, MinIsMember DEF Billing!NextPeriod

LEMMA BillInserts == ASSUME BillInv, NEW r \in Sessions, Billing!Insert(r) PROVE BillInv'
<1> DEFINE i == billJob[r]  j == billJob'[r]  p == Billing!NextPeriod(r)
<1>1. /\ i \in BillJobs /\ i.phase = "period" /\ i.inserted = 0 /\ RunFits(i, billRuns)
      /\ p \in i.due /\ p \in Billing!Periods /\ billInvoices[i.at][p] = 0
      /\ \A o \in Sessions : ~(billJob[o].at = i.at /\ billJob[o].inserted = p)
      /\ billJob' = [billJob EXCEPT ![r].inserted = p]
      /\ UNCHANGED <<billToday, billPaused, billInvoices, billRuns, billCrashes>>
  BY NextPeriodIsDue DEF Billing!Insert, BillInv, BillTypes, RunsFit
<1>2. <<i.at, p>> \notin billRuns
  BY <1>1 DEF BillInv, Billing!BilledOnce, RunFits
<1>3. p \in 0..LastPeriod
  BY <1>1, BillConstants DEF Billing!Periods
<1> HIDE DEF p
<1>4. GoesOnTo(r, j)
  BY <1>1, <1>3 DEF BillInv, BillTypes, BillJobs, GoesOnTo
<1>5. /\ j.phase = "period" /\ j.asOf = i.asOf /\ j.at = i.at /\ j.due = i.due
      /\ j.inserted = p /\ j.failures = i.failures /\ j.skipped = i.skipped
  BY <1>1 DEF BillInv, BillTypes, BillJobs
<1> HIDE DEF i, j
<1>6. RunFits(j, billRuns)
  BY <1>1, <1>2, <1>5 DEF RunFits, HoldsItsPeriod, LeavesNothingOut
<1> QED
  BY <1>1, <1>4, <1>5, <1>6, JobGoesOn DEF BillInv, BillTypes

LEMMA BillRefuses == ASSUME BillInv, NEW r \in Sessions, Billing!Refuse(r) PROVE BillInv'
<1> DEFINE i == billJob[r]  j == billJob'[r]  p == Billing!NextPeriod(r)
<1>1. /\ i \in BillJobs /\ i.phase = "period" /\ RunFits(i, billRuns)
      /\ p \in i.due /\ p \in Billing!Periods
      /\ billJob' = [billJob EXCEPT ![r].inserted = 0, ![r].due = @ \ {p},
                                    ![r].failures = @ \cup {<<billJob[r].at, p>>}]
      /\ UNCHANGED <<billToday, billPaused, billInvoices, billRuns, billCrashes>>
  BY NextPeriodIsDue DEF Billing!Refuse, BillInv, BillTypes, RunsFit
<1>2. 0 \in 0..LastPeriod /\ <<i.at, p>> \in Billing!Pairs
  BY <1>1, BillConstants DEF RunFits, Billing!Pairs
<1> HIDE DEF p
<1>3. GoesOnTo(r, j)
  BY <1>1, <1>2 DEF BillInv, BillTypes, BillJobs, GoesOnTo
<1>4. /\ j.phase = "period" /\ j.asOf = i.asOf /\ j.at = i.at /\ j.due = i.due \ {p}
      /\ j.inserted = 0 /\ j.failures = i.failures \cup {<<i.at, p>>} /\ j.skipped = i.skipped
  BY <1>1 DEF BillInv, BillTypes, BillJobs
<1> HIDE DEF i, j
<1>5. RunFits(j, billRuns)
  BY <1>1, <1>4 DEF RunFits, HoldsItsPeriod, LeavesNothingOut
<1> QED
  BY <1>1, <1>3, <1>4, <1>5, JobGoesOn DEF BillInv, BillTypes

LEMMA BillCommits == ASSUME BillInv, NEW r \in Sessions, Billing!Commit(r) PROVE BillInv'
<1> DEFINE i == billJob[r]  j == billJob'[r]  t == billJob[r].at  p == billJob[r].inserted
<1>1. /\ i \in BillJobs /\ RunFits(i, billRuns) /\ p # 0
      /\ billInvoices' = [billInvoices EXCEPT ![t][p] = @ + 1]
      /\ billRuns' = billRuns \cup {<<t, p>>}
      /\ billJob' = [billJob EXCEPT ![r].inserted = 0, ![r].due = @ \ {p}]
      /\ UNCHANGED <<billToday, billPaused, billCrashes>>
  BY DEF Billing!Commit, BillInv, BillTypes, RunsFit
<1>2. /\ i.phase = "period" /\ t \in Billing!Templates /\ p \in Billing!Periods
      /\ <<t, p>> \notin billRuns
  BY <1>1 DEF RunFits, HoldsItsPeriod, BillJobs
<1>3. i.at = t /\ i.inserted = p /\ 0 \in 0..LastPeriod
  BY BillConstants
<1> HIDE DEF p
<1>4. GoesOnTo(r, j)
  BY <1>1, <1>3 DEF BillInv, BillTypes, BillJobs, GoesOnTo
<1>5. /\ j.phase = "period" /\ j.asOf = i.asOf /\ j.at = t /\ j.due = i.due \ {p}
      /\ j.inserted = 0 /\ j.failures = i.failures /\ j.skipped = i.skipped
  BY <1>1, <1>2 DEF BillInv, BillTypes, BillJobs
<1> HIDE DEF j, t
<1>6. BillTypes'
  BY <1>1, <1>2, <1>4 DEF BillInv, BillTypes, GoesOnTo, Billing!Pairs
<1>7. RunFits(j, billRuns')
  BY <1>1, <1>2, <1>3, <1>5 DEF RunFits, HoldsItsPeriod, LeavesNothingOut
<1>8. ASSUME NEW o \in Sessions \ {r} PROVE RunFits(billJob[o], billRuns')
  <2>1. RunFits(billJob[o], billRuns) /\ billJob[o] \in BillJobs
    BY DEF BillInv, RunsFit, BillTypes
  <2>2. ~(billJob[o].inserted = p /\ billJob[o].at = t)
    BY <1>1, <1>3 DEF BillInv, OneInserts
  <2> QED
    BY <1>1, <2>1, <2>2 DEF RunFits, HoldsItsPeriod, LeavesNothingOut
<1>9. RunsFit'
  BY <1>4, <1>7, <1>8 DEF RunsFit, GoesOnTo
<1>10. OneInserts'
  BY <1>4, <1>5 DEF BillInv, OneInserts, GoesOnTo
<1>11. Billing!BilledOnce'
  <2> SUFFICES ASSUME NEW u \in Billing!Templates, NEW q \in Billing!Periods
               PROVE  billInvoices'[u][q] = IF <<u, q>> \in billRuns' THEN 1 ELSE 0
    BY DEF Billing!BilledOnce
  <2>1. billInvoices[u][q] = IF <<u, q>> \in billRuns THEN 1 ELSE 0
    BY DEF BillInv, Billing!BilledOnce
  <2>2. CASE u = t /\ q = p
    BY <1>1, <1>2, <2>1, <2>2 DEF BillInv, BillTypes
  <2>3. CASE ~(u = t /\ q = p)
    BY <1>1, <1>2, <2>1, <2>3 DEF BillInv, BillTypes
  <2> QED
    BY <2>2, <2>3
<1> QED
  BY <1>6, <1>9, <1>10, <1>11 DEF BillInv

LEMMA BillingStep == BillInv /\ [Billing!Next]_(Billing!vars) => BillInv'
<1> SUFFICES ASSUME BillInv, [Billing!Next]_(Billing!vars) PROVE BillInv'
  OBVIOUS
<1>1. CASE UNCHANGED Billing!vars
  BY <1>1, BillStill DEF Billing!vars, BillInv, BillTypes
<1>2. CASE Billing!Next
  BY <1>2, BillPauses, BillTomorrow, BillStarts, BillCrashes, BillLeaves, BillTakesTemplate,
     BillInserts, BillRefuses, BillCommits DEF Billing!Next
<1> QED
  BY <1>1, <1>2

(* What a run that is over left out it has reported.                           *)
LEMMA BillInvSkipsNothing == BillInv => Billing!NothingSkipped
<1> SUFFICES ASSUME BillInv, NEW r \in Sessions, billJob[r].phase = "done",
                    NEW t \in Billing!Templates \ billJob[r].skipped, NEW p \in 1..billJob[r].asOf,
                    p <= EndPeriods[t]
             PROVE  <<t, p>> \in billRuns \cup billJob[r].failures
  BY DEF Billing!NothingSkipped
<1>1. RunFits(billJob[r], billRuns) /\ t <= Agreements
  BY BillConstants DEF BillInv, RunsFit, Billing!Templates
<1> QED
  BY <1>1 DEF RunFits, LeavesNothingOut

(* --------------------------------- reminders ------------------------------- *)

LEMMA RemindConstants ==
  /\ Overdue \in Nat /\ LastDay \in Nat \ {0} /\ MaxCrashes \in Nat /\ IsFiniteSet(Sessions)
  /\ Due \in [Reminders!Invoices -> Int]
BY Parameters DEF Reminders!DueAssumption, Reminders!IsFiniteSet, IsFiniteSet

LEMMA LevelConstants ==
  /\ Len(Spans) \in Nat \ {0} /\ Reminders!Levels = 1..Len(Spans)
  /\ \A n \in Reminders!Levels :
       /\ Spans[n][1] >= 0 /\ Spans[n][1] \in Int /\ Spans[n][2] \in Int
       /\ n = Len(Spans) => Spans[n][2] = -1
       /\ n # Len(Spans) => Spans[n+1][1] = Spans[n][2] + 1
<1>1. Spans \in Seq(Int \X Int) /\ Reminders!CheckedLevels(Spans)
  BY Parameters DEF Reminders!LevelAssumption
<1>2. Len(Spans) \in Nat \ {0} /\ Reminders!Levels = 1..Len(Spans)
  BY <1>1 DEF Reminders!CheckedLevels, Reminders!Levels
<1>3. ASSUME NEW n \in Reminders!Levels
      PROVE  /\ Spans[n][1] >= 0 /\ Spans[n][1] \in Int /\ Spans[n][2] \in Int
             /\ n = Len(Spans) => Spans[n][2] = -1
             /\ n # Len(Spans) => Spans[n+1][1] = Spans[n][2] + 1
  <2>1. Spans[n] \in Int \X Int
    BY <1>1, <1>2
  <2>2. /\ Spans[n][1] >= 0
        /\ IF n = Len(Spans) THEN Spans[n][2] = -1
           ELSE Spans[n][2] >= Spans[n][1] /\ Spans[n+1][1] = Spans[n][2] + 1
    BY <1>1 DEF Reminders!CheckedLevels, Reminders!Null, Reminders!Levels
  <2> QED
    BY <2>1, <2>2
<1> QED
  BY <1>2, <1>3

(* The level of n holds the days.                                              *)
Holds(n, days) == Spans[n][1] <= days /\ (Spans[n][2] = -1 \/ days <= Spans[n][2])

(* level_for names a level that holds the days, or none.                       *)
LEMMA LevelHolds ==
  ASSUME NEW days \in Int
  PROVE  /\ Reminders!LevelFor(days) \in Reminders!Levels \cup {0}
         /\ Reminders!LevelFor(days) # 0 => Holds(Reminders!LevelFor(days), days)
         /\ Reminders!LevelFor(days) = 0 => \A n \in Reminders!Levels : ~Holds(n, days)
<1> DEFINE fit == {n \in Reminders!Levels : Holds(n, days)}
<1>1. Reminders!LevelFor(days) = IF fit = {} THEN 0 ELSE Reminders!Min(fit)
  BY DEF Reminders!LevelFor, Holds, Reminders!Null
<1>2. Reminders!Levels \subseteq Nat /\ 0 \notin Reminders!Levels
  BY LevelConstants
<1>3. fit # {} => Reminders!Min(fit) \in fit
  BY <1>2, MinIsMember
<1> QED
  BY <1>1, <1>2, <1>3

(* The levels leave no gap: from the first day of the first one on, some level *)
(* holds the days.                                                             *)
LEMMA NoGap ==
  ASSUME NEW days \in Int, Spans[1][1] <= days
  PROVE  Reminders!LevelFor(days) # 0
<1> DEFINE begun == {n \in Reminders!Levels : Spans[n][1] <= days}
           f == [n \in begun |-> Len(Spans) - n]
<1>1. f \in [begun -> Nat] /\ 1 \in begun
  BY LevelConstants
<1>2. PICK n \in begun : \A m \in begun : f[n] <= f[m]
  BY <1>1, LeastExists
<1>3. n \in Reminders!Levels /\ Spans[n][1] <= days
  OBVIOUS
<1>4. n # Len(Spans) => days <= Spans[n][2]
  <2> SUFFICES ASSUME n # Len(Spans), days > Spans[n][2] PROVE FALSE
    BY <1>3, LevelConstants
  <2>1. n + 1 \in Reminders!Levels
    BY <1>3, LevelConstants
  <2>2. Spans[n+1][1] <= days
    BY <1>3, LevelConstants
  <2>3. f[n] <= f[n+1] /\ n + 1 \in begun
    BY <1>2, <2>1, <2>2
  <2> QED
    BY <1>3, <2>3, LevelConstants
<1>5. Holds(n, days)
  BY <1>3, <1>4, LevelConstants DEF Holds
<1> QED
  BY <1>3, <1>5, LevelHolds

RemindJobs == [phase : {"idle", "next", "record", "done"}, key : Reminders!Days,
               at : 0..Overdue + 1, reminded : SUBSET (Reminders!Invoices \X Reminders!Levels),
               level : Reminders!Levels \cup {0}, delivered : BOOLEAN,
               settled : SUBSET Reminders!Invoices]

RemindTypes ==
  /\ remindToday \in Reminders!Days
  /\ remindOpen \subseteq Reminders!Invoices
  /\ remindReminders \subseteq Reminders!ReminderRows
  /\ remindSent \in [Reminders!Invoices -> [Reminders!Days -> Nat]]
  /\ remindJob \in [Sessions -> RemindJobs]
  /\ remindDied \in Nat

(* The level a reminder of i written under the key d has.                      *)
LevelOn(i, d) == Reminders!LevelFor(d - Due[i])

(* A reminder is at the level its days had reached, which makes it the only    *)
(* one of its invoice and key.                                                 *)
LevelsAreRight ==
  \A m \in remindReminders : m.level = LevelOn(m.invoice, m.key) /\ m.level # 0
OneReminder ==
  \A m, n \in remindReminders : m.invoice = n.invoice /\ m.key = n.key => m = n

(* What a job found written under its key is still written; its message is of  *)
(* an overdue invoice, at the level reached; and every invoice it came past    *)
(* was settled, not due, or has its reminder.                                  *)
FindsWritten(j, rows) ==
  \A i \in Reminders!Invoices, l \in Reminders!Levels :
    <<i, l>> \in j.reminded => \E m \in rows : m.invoice = i /\ m.key = j.key
SendsAtLevel(j) ==
  j.phase = "record" => /\ j.at \in Reminders!Invoices /\ j.level # 0
                        /\ j.level = LevelOn(j.at, j.key)
ForgetsNobody(j, rows) ==
  j.phase # "idle" =>
    \A i \in Reminders!Invoices \ j.settled :
      i < j.at /\ Spans[1][1] <= j.key - Due[i] =>
        \E m \in rows : m.invoice = i /\ m.key = j.key
JobFits(j, rows) ==
  /\ FindsWritten(j, rows)
  /\ SendsAtLevel(j)
  /\ ForgetsNobody(j, rows)
  /\ j.phase # "idle" => j.at # 0
  /\ j.phase = "done" => j.at = Overdue + 1

JobsFit == \A r \in Sessions : JobFits(remindJob[r], remindReminders)

(* The messages about i of day d that left are those of the runs that died,    *)
(* of the reminder, and of the runs that are about to write it.                *)
Recording(i, d) ==
  {r \in Sessions : /\ remindJob[r].phase = "record" /\ remindJob[r].at = i
                    /\ remindJob[r].key = d /\ remindJob[r].delivered}
Delivered(i, d) ==
  IF \E m \in remindReminders : m.invoice = i /\ m.key = d /\ m.delivered THEN 1 ELSE 0
SentIsKnown ==
  \A i \in Reminders!Invoices, d \in Reminders!Days :
    remindSent[i][d] <= remindDied + Delivered(i, d) + Cardinality(Recording(i, d))

RemindInv ==
  RemindTypes /\ LevelsAreRight /\ OneReminder /\ JobsFit /\ SentIsKnown

(* Two sets that differ in one member at most.                                 *)
LEMMA OneMoves ==
  ASSUME NEW A, NEW B, NEW r, IsFiniteSet(A), IsFiniteSet(B), A \ {r} = B \ {r}
  PROVE  /\ Cardinality(A) \in Nat /\ Cardinality(B) \in Nat
         /\ Cardinality(A) <= Cardinality(B) + 1
         /\ r \notin A \/ r \in B => Cardinality(A) <= Cardinality(B)
         /\ r \notin A /\ r \in B => Cardinality(B) = Cardinality(A) + 1
<1> DEFINE C == A \ {r}
<1>1. /\ IsFiniteSet(C) /\ Cardinality(C) \in Nat
      /\ Cardinality(A) = IF r \in A THEN Cardinality(C) + 1 ELSE Cardinality(C)
  <2>1. /\ IsFiniteSet(A \ {r}) /\ Cardinality(A) \in Nat
        /\ Cardinality(A \ {r}) = IF r \in A THEN Cardinality(A) - 1 ELSE Cardinality(A)
    BY FS_RemoveElement, FS_CardinalityType
  <2>2. Cardinality(A \ {r}) \in Nat
    BY <2>1, FS_CardinalityType
  <2> QED
    BY <2>1, <2>2
<1>2. Cardinality(B) \in Nat /\ Cardinality(B) = IF r \in B THEN Cardinality(C) + 1 ELSE Cardinality(C)
  <2>1. Cardinality(B) \in Nat
    BY FS_CardinalityType
  <2>2. Cardinality(B \ {r}) = IF r \in B THEN Cardinality(B) - 1 ELSE Cardinality(B)
    BY FS_RemoveElement
  <2>3. Cardinality(B \ {r}) = Cardinality(C)
    BY Zenon
  <2> HIDE DEF C
  <2> QED
    BY <1>1, <2>1, <2>2, <2>3
<1> HIDE DEF C
<1> QED
  BY <1>1, <1>2

(* What becomes of the jobs when r goes on to j.                               *)
TurnsTo(r, j) ==
  /\ j \in RemindJobs
  /\ remindJob' \in [Sessions -> RemindJobs] /\ remindJob'[r] = j
  /\ \A o \in Sessions \ {r} : remindJob'[o] = remindJob[o]

LEMMA RecordingMoves ==
  ASSUME NEW r \in Sessions, NEW j, TurnsTo(r, j), NEW i, NEW d
  PROVE  /\ Cardinality(Recording(i, d)) \in Nat /\ Cardinality(Recording(i, d)') \in Nat
         /\ Cardinality(Recording(i, d)) <= Cardinality(Recording(i, d)') + 1
         /\ r \notin Recording(i, d) \/ r \in Recording(i, d)' =>
               Cardinality(Recording(i, d)) <= Cardinality(Recording(i, d)')
         /\ r \notin Recording(i, d) /\ r \in Recording(i, d)' =>
               Cardinality(Recording(i, d)') = Cardinality(Recording(i, d)) + 1
<1>1. PICK A, B : A = Recording(i, d) /\ B = Recording(i, d)'
  OBVIOUS
<1>2. A \ {r} = B \ {r} /\ A \subseteq Sessions /\ B \subseteq Sessions
  BY <1>1 DEF TurnsTo, Recording
<1>3. IsFiniteSet(A) /\ IsFiniteSet(B)
  BY <1>2, RemindConstants, FS_Subset
<1> QED
  BY <1>1, <1>2, <1>3, OneMoves

(* A job goes on, and writes and sends nothing.                                *)
LEMMA JobTurns ==
  ASSUME RemindInv, NEW r \in Sessions, NEW j, TurnsTo(r, j), JobFits(j, remindReminders),
         UNCHANGED <<remindToday, remindOpen, remindReminders, remindSent>>,
         \/ remindDied' = remindDied /\ remindJob[r].phase # "record"
         \/ remindDied' = remindDied + 1
  PROVE  RemindInv'
<1> USE DEF RemindInv
<1>1. RemindTypes'
  BY DEF RemindTypes, TurnsTo
<1>2. LevelsAreRight' /\ OneReminder'
  BY DEF LevelsAreRight, OneReminder, LevelOn
<1>3. JobsFit'
  BY DEF JobsFit, TurnsTo
<1>4. SentIsKnown'
  <2> SUFFICES ASSUME NEW i \in Reminders!Invoices, NEW d \in Reminders!Days
               PROVE  remindSent'[i][d] <=
                        remindDied' + Delivered(i, d)' + Cardinality(Recording(i, d)')
    BY DEF SentIsKnown, Recording
  <2>1. remindSent[i][d] <= remindDied + Delivered(i, d) + Cardinality(Recording(i, d))
    BY DEF SentIsKnown
  <2>2. Delivered(i, d)' = Delivered(i, d) /\ Delivered(i, d) \in Nat
    BY DEF Delivered
  <2>3. remindSent[i][d] \in Nat /\ remindDied \in Nat
    BY DEF RemindTypes
  <2>4. /\ Cardinality(Recording(i, d)) \in Nat /\ Cardinality(Recording(i, d)') \in Nat
        /\ Cardinality(Recording(i, d)) <= Cardinality(Recording(i, d)') + 1
        /\ r \notin Recording(i, d) =>
               Cardinality(Recording(i, d)) <= Cardinality(Recording(i, d)')
    BY RecordingMoves
  <2>5. remindJob[r].phase # "record" => r \notin Recording(i, d)
    BY DEF Recording
  <2>6. PICK a, b : a = Cardinality(Recording(i, d)) /\ b = Cardinality(Recording(i, d)')
    OBVIOUS
  <2> QED
    BY <2>1, <2>2, <2>3, <2>4, <2>5, <2>6
<1> QED
  BY <1>1, <1>2, <1>3, <1>4

LEMMA RemindStart == Reminders!Init => RemindInv
<1> SUFFICES ASSUME Reminders!Init PROVE RemindInv
  OBVIOUS
<1> USE DEF Reminders!Init
<1>1. Reminders!NoJob \in RemindJobs
  BY RemindConstants DEF Reminders!NoJob, RemindJobs, Reminders!Days
<1>2. RemindTypes
  BY <1>1, RemindConstants DEF RemindTypes, Reminders!Days
<1>3. JobsFit
  BY DEF JobsFit, JobFits, FindsWritten, SendsAtLevel, ForgetsNobody, Reminders!NoJob
<1>4. ASSUME NEW i \in Reminders!Invoices, NEW d \in Reminders!Days
      PROVE  remindSent[i][d] <= remindDied + Delivered(i, d) + Cardinality(Recording(i, d))
  <2>1. Recording(i, d) = {}
    BY DEF Recording, Reminders!NoJob
  <2>2. Cardinality(Recording(i, d)) = 0
    BY <2>1, FS_EmptySet, Zenon
  <2> QED
    BY <2>2 DEF Delivered
<1>5. LevelsAreRight /\ OneReminder
  BY DEF LevelsAreRight, OneReminder
<1> QED
  BY <1>2, <1>3, <1>4, <1>5 DEF RemindInv, SentIsKnown

(* The jobs stand still, and nothing is written or sent.                       *)
LEMMA RemindStill ==
  ASSUME RemindInv, UNCHANGED <<remindReminders, remindSent, remindJob, remindDied>>,
         remindToday' \in Reminders!Days, remindOpen' \subseteq Reminders!Invoices
  PROVE  RemindInv'
<1>1. RemindTypes' /\ LevelsAreRight' /\ OneReminder' /\ JobsFit'
  BY DEF RemindInv, RemindTypes, LevelsAreRight, OneReminder, LevelOn, JobsFit
<1>2. SentIsKnown'
  BY DEF RemindInv, SentIsKnown, Recording, Delivered
<1> QED
  BY <1>1, <1>2 DEF RemindInv

LEMMA RemindTomorrow == ASSUME RemindInv, Reminders!Tomorrow PROVE RemindInv'
<1>1. remindToday' \in Reminders!Days
  BY RemindConstants DEF RemindInv, RemindTypes, Reminders!Tomorrow, Reminders!Days
<1> QED
  BY <1>1, RemindStill DEF RemindInv, RemindTypes, Reminders!Tomorrow

LEMMA RemindPays ==
  ASSUME RemindInv, NEW i \in Reminders!Invoices, Reminders!Pay(i)
  PROVE  RemindInv'
BY RemindStill DEF RemindInv, RemindTypes, Reminders!Pay

LEMMA RemindStarts == ASSUME RemindInv, NEW r \in Sessions, Reminders!Start(r) PROVE RemindInv'
<1> DEFINE found == {<<m.invoice, m.level>> :
                       m \in {n \in remindReminders : n.key = remindToday}}
           j == [Reminders!NoJob EXCEPT !.phase = "next", !.key = remindToday, !.at = 1,
                                        !.reminded = found]
<1>1. /\ remindJob' = [remindJob EXCEPT ![r] = j] /\ remindJob[r].phase \in {"idle", "done"}
      /\ UNCHANGED <<remindToday, remindOpen, remindReminders, remindSent, remindDied>>
  BY DEF Reminders!Start
<1>2. found \in SUBSET (Reminders!Invoices \X Reminders!Levels)
  BY DEF RemindInv, RemindTypes, Reminders!ReminderRows
<1>3. \A i, l : <<i, l>> \in found => \E m \in remindReminders : m.invoice = i /\ m.key = remindToday
  OBVIOUS
<1>4. 1 \in 0..Overdue + 1 /\ remindToday \in Reminders!Days
  BY RemindConstants DEF RemindInv, RemindTypes
<1> HIDE DEF found
<1>5. Reminders!NoJob \in RemindJobs
  BY RemindConstants DEF Reminders!NoJob, RemindJobs, Reminders!Days
<1>6. /\ j \in RemindJobs /\ j.phase = "next" /\ j.key = remindToday /\ j.at = 1
      /\ j.reminded = found
  BY <1>2, <1>4, <1>5 DEF RemindJobs
<1> HIDE DEF j
<1>7. TurnsTo(r, j)
  BY <1>1, <1>6 DEF RemindInv, RemindTypes, TurnsTo
<1>8. JobFits(j, remindReminders)
  BY <1>3, <1>6 DEF JobFits, FindsWritten, SendsAtLevel, ForgetsNobody, Reminders!Invoices
<1> QED
  BY <1>1, <1>7, <1>8, JobTurns

LEMMA RemindEnds ==
  ASSUME RemindInv, NEW r \in Sessions, Reminders!Crash(r) \/ Reminders!Collide(r)
  PROVE  RemindInv'
<1>1. /\ remindJob' = [remindJob EXCEPT ![r] = Reminders!NoJob] /\ remindDied' = remindDied + 1
      /\ UNCHANGED <<remindToday, remindOpen, remindReminders, remindSent>>
  BY DEF Reminders!Crash, Reminders!Collide
<1>2. Reminders!NoJob \in RemindJobs
  BY RemindConstants DEF Reminders!NoJob, RemindJobs, Reminders!Days
<1>3. JobFits(Reminders!NoJob, remindReminders)
  BY DEF JobFits, FindsWritten, SendsAtLevel, ForgetsNobody, Reminders!NoJob
<1>4. TurnsTo(r, Reminders!NoJob)
  BY <1>1, <1>2 DEF RemindInv, RemindTypes, TurnsTo
<1> QED
  BY <1>1, <1>3, <1>4, JobTurns

LEMMA RemindFinishes == ASSUME RemindInv, NEW r \in Sessions, Reminders!Finish(r) PROVE RemindInv'
<1> DEFINE i == remindJob[r]  j == remindJob'[r]
<1>1. /\ i \in RemindJobs /\ i.phase = "next" /\ i.at \notin Reminders!Invoices
      /\ JobFits(i, remindReminders)
      /\ remindJob' = [remindJob EXCEPT ![r].phase = "done"]
      /\ UNCHANGED <<remindToday, remindOpen, remindReminders, remindSent, remindDied>>
  BY DEF Reminders!Finish, RemindInv, RemindTypes, JobsFit
<1>2. TurnsTo(r, j)
  BY <1>1 DEF RemindInv, RemindTypes, RemindJobs, TurnsTo
<1>3. /\ j.phase = "done" /\ j.key = i.key /\ j.at = i.at /\ j.reminded = i.reminded
      /\ j.settled = i.settled
  BY <1>1 DEF RemindInv, RemindTypes, RemindJobs
<1>4. i.at = Overdue + 1
  BY <1>1, RemindConstants DEF JobFits, RemindJobs, Reminders!Invoices
<1> HIDE DEF i, j
<1>5. JobFits(j, remindReminders)
  BY <1>1, <1>3, <1>4 DEF JobFits, FindsWritten, SendsAtLevel, ForgetsNobody
<1> QED
  BY <1>1, <1>2, <1>5, JobTurns DEF i

LEMMA DaysOfJob ==
  ASSUME RemindInv, NEW r \in Sessions, remindJob[r].at \in Reminders!Invoices
  PROVE  /\ Reminders!DaysLate(r) = remindJob[r].key - Due[remindJob[r].at]
         /\ Reminders!DaysLate(r) \in Int
         /\ Reminders!LevelFor(Reminders!DaysLate(r)) = LevelOn(remindJob[r].at, remindJob[r].key)
<1>1. Reminders!DaysLate(r) = remindJob[r].key - Due[remindJob[r].at]
  BY DEF Reminders!DaysLate
<1>2. remindJob[r].key \in Int /\ Due[remindJob[r].at] \in Int
  BY RemindConstants DEF RemindInv, RemindTypes, RemindJobs, Reminders!Days
<1> QED
  BY <1>1, <1>2 DEF LevelOn

LEMMA RemindPasses == ASSUME RemindInv, NEW r \in Sessions, Reminders!Pass(r) PROVE RemindInv'
<1> DEFINE i == remindJob[r]  j == remindJob'[r]  n == remindJob[r].at
           left == IF n \in remindOpen THEN i.settled ELSE i.settled \cup {n}
<1>1. /\ i \in RemindJobs /\ i.phase = "next" /\ n \in Reminders!Invoices /\ i.at = n
      /\ JobFits(i, remindReminders) /\ ~Reminders!Remindable(r)
      /\ remindJob' = [remindJob EXCEPT ![r].at = @ + 1, ![r].settled = left]
      /\ UNCHANGED <<remindToday, remindOpen, remindReminders, remindSent, remindDied>>
  BY DEF Reminders!Pass, Reminders!AtInvoice, RemindInv, RemindTypes, JobsFit
<1>2. /\ i.settled \subseteq left
      /\ n \notin remindOpen => n \in left
      /\ left \subseteq Reminders!Invoices
  BY <1>1 DEF RemindJobs
<1>3. n + 1 \in 0..Overdue + 1 /\ n \in Nat
  BY <1>1, RemindConstants DEF Reminders!Invoices
<1> HIDE DEF left
<1>4. TurnsTo(r, j)
  BY <1>1, <1>2, <1>3 DEF RemindInv, RemindTypes, RemindJobs, TurnsTo
<1>5. /\ j.phase = "next" /\ j.key = i.key /\ j.at = n + 1 /\ j.reminded = i.reminded
      /\ j.settled = left
  BY <1>1 DEF RemindInv, RemindTypes, RemindJobs
<1>6. n \in left \/ ~(Spans[1][1] <= i.key - Due[n]) \/
        \E m \in remindReminders : m.invoice = n /\ m.key = i.key
  <2> SUFFICES ASSUME n \in remindOpen, Spans[1][1] <= i.key - Due[n]
               PROVE  \E m \in remindReminders : m.invoice = n /\ m.key = i.key
    BY <1>2
  <2>1. /\ Reminders!DaysLate(r) = i.key - Due[n] /\ Reminders!DaysLate(r) \in Int
        /\ Reminders!LevelFor(Reminders!DaysLate(r)) = LevelOn(n, i.key)
    BY <1>1, DaysOfJob
  <2>2. Reminders!DaysLate(r) >= 0 /\ LevelOn(n, i.key) # 0
    BY <2>1, NoGap, LevelConstants
  <2>3. <<n, LevelOn(n, i.key)>> \in i.reminded
    BY <1>1, <2>1, <2>2 DEF Reminders!Remindable
  <2>4. LevelOn(n, i.key) \in Reminders!Levels
    BY <2>1, <2>2, LevelHolds
  <2> QED
    BY <1>1, <2>3, <2>4 DEF JobFits, FindsWritten
<1> HIDE DEF i, j, n
<1>7. JobFits(j, remindReminders)
  <2>1. FindsWritten(j, remindReminders) /\ SendsAtLevel(j)
    BY <1>1, <1>5 DEF JobFits, FindsWritten, SendsAtLevel
  <2>2. ForgetsNobody(j, remindReminders)
    <3> SUFFICES ASSUME NEW k \in Reminders!Invoices \ left, k < n + 1,
                        Spans[1][1] <= i.key - Due[k]
                 PROVE  \E m \in remindReminders : m.invoice = k /\ m.key = i.key
      BY <1>5 DEF ForgetsNobody
    <3>1. CASE k = n
      BY <1>6, <3>1
    <3>2. CASE k # n
      <4>1. k < n /\ k \in Reminders!Invoices \ i.settled
        BY <1>2, <1>3, <3>2, RemindConstants DEF Reminders!Invoices
      <4> QED
        BY <1>1, <4>1 DEF JobFits, ForgetsNobody
    <3> QED
      BY <3>1, <3>2
  <2> QED
    BY <1>3, <1>5, <2>1, <2>2 DEF JobFits
<1> QED
  BY <1>1, <1>4, <1>7, JobTurns DEF i

LEMMA RemindSends ==
  ASSUME RemindInv, NEW r \in Sessions, NEW delivered \in BOOLEAN, Reminders!Send(r, delivered)
  PROVE  RemindInv'
<1> DEFINE i == remindJob[r]  j == remindJob'[r]  n == remindJob[r].at  d == remindJob[r].key
           level == Reminders!LevelFor(Reminders!DaysLate(r))
<1>1. /\ i \in RemindJobs /\ i.phase = "next" /\ n \in Reminders!Invoices
      /\ JobFits(i, remindReminders) /\ Reminders!Remindable(r)
      /\ remindSent' = [remindSent EXCEPT ![n][d] = IF delivered THEN @ + 1 ELSE @]
      /\ remindJob' = [remindJob EXCEPT ![r].phase = "record", ![r].level = level,
                                        ![r].delivered = delivered]
      /\ UNCHANGED <<remindToday, remindOpen, remindReminders, remindDied>>
  BY DEF Reminders!Send, Reminders!AtInvoice, RemindInv, RemindTypes, JobsFit
<1>2. level = LevelOn(n, d) /\ level # 0 /\ level \in Reminders!Levels /\ d \in Reminders!Days
  BY <1>1, DaysOfJob, LevelHolds DEF Reminders!Remindable, RemindJobs
<1> HIDE DEF level
<1>3. TurnsTo(r, j)
  BY <1>1, <1>2 DEF RemindInv, RemindTypes, RemindJobs, TurnsTo
<1>4. /\ j.phase = "record" /\ j.key = d /\ j.at = n /\ j.reminded = i.reminded
      /\ j.settled = i.settled /\ j.level = level /\ j.delivered = delivered /\ i.key = d /\ i.at = n
  BY <1>1 DEF RemindInv, RemindTypes, RemindJobs
<1> HIDE DEF i, j, n, d
<1>5. JobFits(j, remindReminders)
  BY <1>1, <1>2, <1>4 DEF JobFits, FindsWritten, SendsAtLevel, ForgetsNobody
<1>6. RemindTypes'
  BY <1>1, <1>2, <1>3 DEF RemindInv, RemindTypes, TurnsTo
<1>7. LevelsAreRight' /\ OneReminder' /\ JobsFit'
  BY <1>1, <1>3, <1>5 DEF RemindInv, LevelsAreRight, OneReminder, JobsFit, TurnsTo, LevelOn
<1>8. ASSUME NEW k \in Reminders!Invoices, NEW e \in Reminders!Days
      PROVE  remindSent'[k][e] <=
               remindDied' + Delivered(k, e)' + Cardinality(Recording(k, e)')
  <2>1. remindSent[k][e] <= remindDied + Delivered(k, e) + Cardinality(Recording(k, e))
    BY DEF RemindInv, SentIsKnown
  <2>2. Delivered(k, e)' = Delivered(k, e) /\ Delivered(k, e) \in Nat
    BY <1>1 DEF Delivered
  <2>3. remindSent[k][e] \in Nat /\ remindDied \in Nat /\ remindDied' = remindDied
    BY <1>1 DEF RemindInv, RemindTypes
  <2>4. r \notin Recording(k, e)
    BY <1>1 DEF Recording, i
  <2>5. k = n /\ e = d /\ delivered => r \in Recording(k, e)'
    BY <1>4 DEF Recording, j
  <2>6. /\ k = n /\ e = d /\ delivered => remindSent'[k][e] = remindSent[k][e] + 1
        /\ ~(k = n /\ e = d /\ delivered) => remindSent'[k][e] = remindSent[k][e]
        /\ remindSent'[k][e] \in Nat
    BY <1>1, <1>2, <2>3 DEF RemindInv, RemindTypes
  <2>7. PICK a, b : a = Cardinality(Recording(k, e)) /\ b = Cardinality(Recording(k, e)')
    OBVIOUS
  <2>8. /\ a \in Nat /\ b \in Nat /\ a <= b
        /\ k = n /\ e = d /\ delivered => b = a + 1
    BY <1>3, <2>4, <2>5, <2>7, RecordingMoves
  <2> QED
    BY <2>1, <2>2, <2>3, <2>6, <2>7, <2>8
<1>9. SentIsKnown'
  BY <1>8 DEF SentIsKnown, Recording
<1> QED
  BY <1>6, <1>7, <1>9 DEF RemindInv

(* A row more takes nothing from the other jobs.                               *)
LEMMA MoreRowsFit ==
  ASSUME NEW j, NEW few, NEW many, few \subseteq many, JobFits(j, few)
  PROVE  JobFits(j, many)
<1>1. FindsWritten(j, many)
  BY DEF JobFits, FindsWritten
<1>2. ForgetsNobody(j, many)
  BY DEF JobFits, ForgetsNobody
<1> QED
  BY <1>1, <1>2 DEF JobFits

LEMMA RemindRecords == ASSUME RemindInv, NEW r \in Sessions, Reminders!Record(r) PROVE RemindInv'
<1> DEFINE i == remindJob[r]  j == remindJob'[r]  n == remindJob[r].at  d == remindJob[r].key
           row == [invoice |-> n, level |-> i.level, key |-> d, delivered |-> i.delivered]
<1>1. /\ i \in RemindJobs /\ i.phase = "record" /\ JobFits(i, remindReminders)
      /\ ~(\E m \in remindReminders : m.invoice = n /\ m.level = i.level /\ m.key = d)
      /\ remindReminders' = remindReminders \cup {row}
      /\ remindJob' = [remindJob EXCEPT ![r].phase = "next", ![r].at = @ + 1]
      /\ UNCHANGED <<remindToday, remindOpen, remindSent, remindDied>>
  BY DEF Reminders!Record, Reminders!Row, Reminders!Taken, RemindInv, RemindTypes, JobsFit
<1>2. /\ n \in Reminders!Invoices /\ i.level = LevelOn(n, d) /\ i.level # 0
      /\ i.level \in Reminders!Levels /\ d \in Reminders!Days /\ i.delivered \in BOOLEAN
  BY <1>1 DEF JobFits, SendsAtLevel, RemindJobs
<1>3. n + 1 \in 0..Overdue + 1 /\ n \in Nat
  BY <1>2, RemindConstants DEF Reminders!Invoices
<1>4. /\ row \in Reminders!ReminderRows /\ row.invoice = n /\ row.level = LevelOn(n, d)
      /\ row.level # 0 /\ row.key = d /\ row.delivered = i.delivered
  BY <1>2 DEF Reminders!ReminderRows
<1> HIDE DEF row
<1>5. TurnsTo(r, j)
  BY <1>1, <1>3 DEF RemindInv, RemindTypes, RemindJobs, TurnsTo
<1>6. /\ j.phase = "next" /\ j.key = d /\ j.at = n + 1 /\ j.reminded = i.reminded
      /\ j.settled = i.settled /\ i.key = d /\ i.at = n
  BY <1>1 DEF RemindInv, RemindTypes, RemindJobs
<1> HIDE DEF i, j, n, d
<1>7. RemindTypes'
  BY <1>1, <1>4, <1>5 DEF RemindInv, RemindTypes, TurnsTo
<1>8. LevelsAreRight'
  BY <1>1, <1>4 DEF RemindInv, LevelsAreRight, LevelOn
<1>9. ASSUME NEW m \in remindReminders PROVE ~(m.invoice = n /\ m.key = d)
  BY <1>1, <1>2 DEF RemindInv, LevelsAreRight
<1>10. OneReminder'
  BY <1>1, <1>4, <1>9 DEF RemindInv, OneReminder
<1>11. ASSUME NEW o \in Sessions PROVE JobFits(remindJob'[o], remindReminders')
  <2>1. CASE o # r
    <3>1. remindJob'[o] = remindJob[o] /\ JobFits(remindJob[o], remindReminders)
      BY <1>5, <2>1 DEF RemindInv, JobsFit, TurnsTo
    <3>2. remindReminders \subseteq remindReminders'
      BY <1>1
    <3> QED
      BY <3>1, <3>2, MoreRowsFit
  <2>2. CASE o = r
    <3>1. FindsWritten(j, remindReminders') /\ SendsAtLevel(j)
      BY <1>1, <1>6 DEF JobFits, FindsWritten, SendsAtLevel
    <3>2. ForgetsNobody(j, remindReminders')
      <4> SUFFICES ASSUME NEW k \in Reminders!Invoices \ i.settled, k < n + 1,
                          Spans[1][1] <= d - Due[k]
                   PROVE  \E m \in remindReminders' : m.invoice = k /\ m.key = d
        BY <1>6 DEF ForgetsNobody
      <4>1. CASE k = n
        BY <1>1, <1>4, <4>1
      <4>2. CASE k # n
        <5>1. k < n
          BY <1>3, <4>2, RemindConstants DEF Reminders!Invoices
        <5> QED
          BY <1>1, <1>6, <5>1 DEF JobFits, ForgetsNobody
      <4> QED
        BY <4>1, <4>2
    <3> QED
      BY <1>3, <1>6, <2>2, <3>1, <3>2 DEF JobFits, j
  <2> QED
    BY <2>1, <2>2
<1>12. ASSUME NEW k \in Reminders!Invoices, NEW e \in Reminders!Days
       PROVE  remindSent'[k][e] <=
                remindDied' + Delivered(k, e)' + Cardinality(Recording(k, e)')
  <2>1. remindSent[k][e] <= remindDied + Delivered(k, e) + Cardinality(Recording(k, e))
    BY DEF RemindInv, SentIsKnown
  <2>2. /\ Delivered(k, e) \in Nat /\ Delivered(k, e)' \in Nat
        /\ Delivered(k, e) <= Delivered(k, e)'
        /\ k = n /\ e = d /\ i.delivered => Delivered(k, e)' = Delivered(k, e) + 1
    BY <1>1, <1>4, <1>9 DEF Delivered
  <2>3. /\ remindSent[k][e] \in Nat /\ remindDied \in Nat
        /\ remindDied' = remindDied /\ remindSent' = remindSent
    BY <1>1 DEF RemindInv, RemindTypes
  <2>4. ~(k = n /\ e = d /\ i.delivered) => r \notin Recording(k, e)
    BY <1>1 DEF Recording, i, n, d
  <2>5. PICK a, b : a = Cardinality(Recording(k, e)) /\ b = Cardinality(Recording(k, e)')
    OBVIOUS
  <2>6. /\ a \in Nat /\ b \in Nat /\ a <= b + 1
        /\ ~(k = n /\ e = d /\ i.delivered) => a <= b
    BY <1>5, <2>4, <2>5, RecordingMoves
  <2> QED
    BY <2>1, <2>2, <2>3, <2>5, <2>6
<1> QED
  BY <1>7, <1>8, <1>10, <1>11, <1>12 DEF RemindInv, JobsFit, SentIsKnown, Recording

LEMMA RemindersStep == RemindInv /\ [Reminders!Next]_(Reminders!vars) => RemindInv'
<1> SUFFICES ASSUME RemindInv, [Reminders!Next]_(Reminders!vars) PROVE RemindInv'
  OBVIOUS
<1>1. CASE UNCHANGED Reminders!vars
  BY <1>1, RemindStill DEF Reminders!vars, RemindInv, RemindTypes
<1>2. CASE Reminders!Next
  BY <1>2, RemindStarts, RemindPasses, RemindRecords, RemindEnds, RemindFinishes, RemindSends,
     RemindPays, RemindTomorrow DEF Reminders!Next
<1> QED
  BY <1>1, <1>2

LEMMA RemindInvRemindsOnce == RemindInv => Reminders!RemindedOnce
<1> SUFFICES ASSUME RemindInv, NEW i \in Reminders!Invoices, NEW d \in Reminders!Days
             PROVE  LET of == {m \in remindReminders : m.invoice = i /\ m.key = d}
                        at == {r \in Sessions : remindJob[r].phase = "record" /\ remindJob[r].at = i}
                    IN  /\ \A m, n \in of : m = n
                        /\ \A m \in of : /\ Spans[m.level][1] <= d - Due[i]
                                         /\ Spans[m.level][2] = -1 \/ d - Due[i] <= Spans[m.level][2]
                        /\ remindSent[i][d] <=
                             remindDied + (IF \E m \in of : m.delivered THEN 1 ELSE 0)
                             + Reminders!Cardinality(at)
  BY DEF Reminders!RemindedOnce, Reminders!Null
<1> DEFINE of == {m \in remindReminders : m.invoice = i /\ m.key = d}
           at == {r \in Sessions : remindJob[r].phase = "record" /\ remindJob[r].at = i}
<1>1. \A m, n \in of : m = n
  BY DEF RemindInv, OneReminder
<1>2. ASSUME NEW m \in of
      PROVE  /\ Spans[m.level][1] <= d - Due[i]
             /\ Spans[m.level][2] = -1 \/ d - Due[i] <= Spans[m.level][2]
  <2>1. d - Due[i] \in Int
    BY RemindConstants DEF Reminders!Days
  <2>2. m.level = Reminders!LevelFor(d - Due[i]) /\ m.level # 0
    BY DEF RemindInv, LevelsAreRight, LevelOn
  <2> QED
    BY <2>1, <2>2, LevelHolds DEF Holds
<1>3. Reminders!Cardinality(at) = Cardinality(at)
  BY DEF Reminders!Cardinality, Cardinality
<1>4. (IF \E m \in of : m.delivered THEN 1 ELSE 0) = Delivered(i, d)
  BY DEF Delivered
<1>5. PICK A, B : A = at /\ B = Recording(i, d)
  OBVIOUS
<1>6. /\ Cardinality(A) \in Nat /\ Cardinality(B) \in Nat
      /\ Cardinality(B) <= Cardinality(A)
  <2>1. A \subseteq Sessions /\ B \subseteq A
    BY <1>5 DEF Recording
  <2>2. IsFiniteSet(A)
    BY <2>1, RemindConstants, FS_Subset
  <2>3. IsFiniteSet(B) /\ Cardinality(B) <= Cardinality(A)
    BY <2>1, <2>2, FS_Subset
  <2> QED
    BY <2>2, <2>3, FS_CardinalityType
<1>7. remindSent[i][d] <= remindDied + Delivered(i, d) + Cardinality(B)
  BY <1>5 DEF RemindInv, SentIsKnown
<1>8. remindSent[i][d] \in Nat /\ remindDied \in Nat /\ Delivered(i, d) \in Nat
  BY DEF RemindInv, RemindTypes, Delivered
<1>9. remindSent[i][d] <= remindDied + Delivered(i, d) + Cardinality(A)
  BY <1>6, <1>7, <1>8
<1>10. Cardinality(A) = Reminders!Cardinality(at)
  BY <1>3, <1>5, Zenon
<1> HIDE DEF of, at
<1> QED
  BY <1>1, <1>2, <1>4, <1>9, <1>10 DEF of, at

LEMMA RemindInvForgetsNobody == RemindInv => Reminders!NobodyForgotten
<1> SUFFICES ASSUME RemindInv, NEW r \in Sessions, remindJob[r].phase = "done",
                    NEW i \in Reminders!Invoices \ remindJob[r].settled,
                    remindJob[r].key - Due[i] >= Spans[1][1]
             PROVE  \E m \in remindReminders : m.invoice = i /\ m.key = remindJob[r].key
  BY DEF Reminders!NobodyForgotten
<1>1. JobFits(remindJob[r], remindReminders) /\ remindJob[r] \in RemindJobs
  BY DEF RemindInv, JobsFit, RemindTypes
<1>2. i < remindJob[r].at /\ Spans[1][1] <= remindJob[r].key - Due[i]
  BY <1>1, RemindConstants, LevelConstants DEF JobFits, Reminders!Invoices, RemindJobs, Reminders!Days
<1> QED
  BY <1>1, <1>2 DEF JobFits, ForgetsNobody

(* ---------------------------- prices and coupons --------------------------- *)

LEMMA OfferConstants ==
  /\ Prices!Numbers \subseteq Nat /\ IsFiniteSet(Prices!Numbers)
  /\ IsFiniteSet(Prices!Codes) /\ IsFiniteSet(Documents)
  /\ \A c \in Prices!Codes : /\ Offers[c].allowance \in Nat \ {0}
                             /\ Offers[c].limit \in {Prices!Null} \cup (Nat \ {0})
  /\ \A n \in Prices!Numbers : Rules[n].priority \in Int /\ Rules[n].floor \in Nat \ {0}
  /\ LastOfferDay \in Nat
<1>1. \A S : Prices!IsFiniteSet(S) = IsFiniteSet(S)
  BY DEF Prices!IsFiniteSet, IsFiniteSet
<1> QED
  BY <1>1, Parameters DEF Prices!OfferAssumption

(* The order in which rules are tried, without its tuples.                     *)
Earlier(n, m) ==
  LET N(k) == <<Prices!Scoped(k, "item"), Prices!Scoped(k, "tier"), Prices!Scoped(k, "campaign")>>
  IN \/ Rules[n].priority < Rules[m].priority
     \/ /\ Rules[n].priority = Rules[m].priority
        /\ \/ N(n)[1] < N(m)[1]
           \/ /\ N(n)[1] = N(m)[1]
              /\ \/ N(n)[2] < N(m)[2]
                 \/ /\ N(n)[2] = N(m)[2]
                    /\ \/ N(n)[3] < N(m)[3]
                       \/ /\ N(n)[3] = N(m)[3]
                          /\ \/ Rules[n].floor > Rules[m].floor
                             \/ Rules[n].floor = Rules[m].floor /\ n < m

LEMMA KeysTellWhoIsEarlier ==
  ASSUME NEW n \in Prices!Numbers, NEW m \in Prices!Numbers
  PROVE  Prices!Before(Prices!OrderKey(n), Prices!OrderKey(m)) <=> Earlier(n, m)
<1> DEFINE a == Prices!OrderKey(n)
           b == Prices!OrderKey(m)
<1>1. /\ DOMAIN a = 1..6
      /\ a[1] = Rules[n].priority /\ b[1] = Rules[m].priority
      /\ a[2] = Prices!Scoped(n, "item") /\ b[2] = Prices!Scoped(m, "item")
      /\ a[3] = Prices!Scoped(n, "tier") /\ b[3] = Prices!Scoped(m, "tier")
      /\ a[4] = Prices!Scoped(n, "campaign") /\ b[4] = Prices!Scoped(m, "campaign")
      /\ a[5] = -Rules[n].floor /\ b[5] = -Rules[m].floor
      /\ a[6] = n /\ b[6] = m
  BY DEF Prices!OrderKey
<1>2. /\ \A d : Prices!Scoped(n, d) \in {0, 1} /\ Prices!Scoped(m, d) \in {0, 1}
      /\ n \in Int /\ m \in Int /\ Rules[n].priority \in Int /\ Rules[m].priority \in Int
      /\ Rules[n].floor \in Int /\ Rules[m].floor \in Int
  BY OfferConstants DEF Prices!Scoped
<1> HIDE DEF a, b
<1>3. Prices!Before(a, b) <=>
        \/ a[1] < b[1]
        \/ a[1] = b[1] /\ a[2] < b[2]
        \/ a[1] = b[1] /\ a[2] = b[2] /\ a[3] < b[3]
        \/ a[1] = b[1] /\ a[2] = b[2] /\ a[3] = b[3] /\ a[4] < b[4]
        \/ a[1] = b[1] /\ a[2] = b[2] /\ a[3] = b[3] /\ a[4] = b[4] /\ a[5] < b[5]
        \/ a[1] = b[1] /\ a[2] = b[2] /\ a[3] = b[3] /\ a[4] = b[4] /\ a[5] = b[5] /\ a[6] < b[6]
  <2> DEFINE At(i) == a[i] < b[i] /\ \A j \in 1..(i - 1) : a[j] = b[j]
  <2>1. Prices!Before(a, b) <=> At(1) \/ At(2) \/ At(3) \/ At(4) \/ At(5) \/ At(6)
    <3>1. \A i \in 1..6 : i = 1 \/ i = 2 \/ i = 3 \/ i = 4 \/ i = 5 \/ i = 6
      OBVIOUS
    <3> QED
      BY <1>1, <3>1 DEF Prices!Before
  <2>2. At(1) <=> a[1] < b[1]
    OBVIOUS
  <2>3. At(2) <=> a[1] = b[1] /\ a[2] < b[2]
    OBVIOUS
  <2>4. At(3) <=> a[1] = b[1] /\ a[2] = b[2] /\ a[3] < b[3]
    OBVIOUS
  <2>5. At(4) <=> a[1] = b[1] /\ a[2] = b[2] /\ a[3] = b[3] /\ a[4] < b[4]
    OBVIOUS
  <2>6. At(5) <=> a[1] = b[1] /\ a[2] = b[2] /\ a[3] = b[3] /\ a[4] = b[4] /\ a[5] < b[5]
    OBVIOUS
  <2>7. At(6) <=> /\ a[1] = b[1] /\ a[2] = b[2] /\ a[3] = b[3] /\ a[4] = b[4] /\ a[5] = b[5]
                  /\ a[6] < b[6]
    OBVIOUS
  <2> HIDE DEF At
  <2> QED
    BY <2>1, <2>2, <2>3, <2>4, <2>5, <2>6, <2>7
<1> QED
  BY <1>1, <1>2, <1>3 DEF Earlier, a, b

LEMMA EarlierIsAnOrder ==
  ASSUME NEW n \in Prices!Numbers, NEW m \in Prices!Numbers
  PROVE  /\ ~Earlier(n, n)
         /\ n # m => Earlier(n, m) \/ Earlier(m, n)
         /\ \A k \in Prices!Numbers : Earlier(n, m) /\ Earlier(m, k) => Earlier(n, k)
<1>1. \A k \in Prices!Numbers, d \in {"item", "tier", "campaign"} : Prices!Scoped(k, d) \in Int
  BY DEF Prices!Scoped
<1>2. \A k \in Prices!Numbers : k \in Int /\ Rules[k].priority \in Int /\ Rules[k].floor \in Int
  BY OfferConstants
<1> QED
  BY <1>1, <1>2 DEF Earlier

(* The rules that match have a first one.                                      *)
LEMMA AFirstRule ==
  ASSUME NEW S \in SUBSET Prices!Numbers, S # {}
  PROVE  \E n \in S : \A m \in S \ {n} : Prices!Before(Prices!OrderKey(n), Prices!OrderKey(m))
<1> DEFINE Ahead(n) == {m \in S : Earlier(m, n)}
           f == [n \in S |-> Cardinality(Ahead(n))]
<1>1. \A n \in S : IsFiniteSet(Ahead(n))
  BY OfferConstants, FS_Subset
<1>2. f \in [S -> Nat]
  BY <1>1, FS_CardinalityType
<1>3. PICK n \in S : \A m \in S : f[n] <= f[m]
  BY <1>2, LeastExists
<1>4. ASSUME NEW m \in S, Earlier(m, n) PROVE FALSE
  <2>1. Ahead(m) \subseteq Ahead(n) /\ m \in Ahead(n) /\ m \notin Ahead(m)
    BY <1>4, EarlierIsAnOrder
  <2> HIDE DEF Ahead
  <2>2. Cardinality(Ahead(m)) < Cardinality(Ahead(n))
    <3>1. Ahead(m) # Ahead(n)
      BY <2>1
    <3>2. Cardinality(Ahead(m)) <= Cardinality(Ahead(n))
      BY <1>1, <2>1, FS_Subset
    <3>3. Cardinality(Ahead(m)) # Cardinality(Ahead(n))
      BY <1>1, <2>1, <3>1, FS_Subset
    <3>4. PICK x, y \in Nat : x = Cardinality(Ahead(m)) /\ y = Cardinality(Ahead(n))
      BY <1>1, FS_CardinalityType
    <3> QED
      BY <3>2, <3>3, <3>4
  <2>3. f[n] = Cardinality(Ahead(n)) /\ f[m] = Cardinality(Ahead(m))
    OBVIOUS
  <2>4. f[n] <= f[m] /\ f[n] \in Nat /\ f[m] \in Nat
    BY <1>2, <1>3
  <2> QED
    BY <2>2, <2>3, <2>4
<1>5. \A m \in S \ {n} : Earlier(n, m)
  BY <1>4, EarlierIsAnOrder
<1> QED
  BY <1>5, KeysTellWhoIsEarlier

LEMMA EarlierBeats ==
  ASSUME NEW n \in Prices!Numbers, NEW m \in Prices!Numbers, Earlier(n, m)
  PROVE  Prices!Beats(n, m)
<1>1. \A k \in Prices!Numbers, d \in {"item", "tier", "campaign"} : Prices!Scoped(k, d) \in Int
  BY DEF Prices!Scoped
<1>2. \A k \in Prices!Numbers : k \in Int /\ Rules[k].priority \in Int /\ Rules[k].floor \in Int
  BY OfferConstants
<1> QED
  BY <1>1, <1>2 DEF Earlier, Prices!Beats

Redeemed(c, rows) == {d \in Documents : rows[d][c] > 0}
Carried(d, rows) == {c \in Prices!Codes : rows[d][c] > 0}

(* The redemption that is about to be written is still allowed.                *)
RedemptionFits(q, rows) ==
  q # Prices!Idle =>
    /\ q.coupon \in Prices!Codes /\ q.document \in Documents
    /\ rows[q.document][q.coupon] = 0
    /\ Offers[q.coupon].limit # Prices!Null =>
         Cardinality(Redeemed(q.coupon, rows)) < Offers[q.coupon].limit
    /\ \A other \in Carried(q.document, rows) \cup {q.coupon} :
         Cardinality(Carried(q.document, rows)) + 1 <= Offers[other].allowance

RedemptionsFit == \A s \in Clerks : RedemptionFits(priceTx[s], priceRedeemed)

OneRedeems ==
  \A s, t \in Clerks : s # t => priceTx[s] = Prices!Idle \/ priceTx[t] = Prices!Idle

WithinLimits(rows) ==
  \A c \in Prices!Codes : Offers[c].limit # Prices!Null =>
    Cardinality(Redeemed(c, rows)) <= Offers[c].limit
WithinAllowances(rows) ==
  \A d \in Documents : \A c \in Carried(d, rows) :
    Cardinality(Carried(d, rows)) <= Offers[c].allowance

PriceInv ==
  /\ Prices!TypeOK /\ RedemptionsFit /\ OneRedeems
  /\ WithinLimits(priceRedeemed) /\ WithinAllowances(priceRedeemed)
  /\ Prices!LinesNameTheWinner

LEMMA SameCardinality == \A S : Prices!Cardinality(S) = Cardinality(S)
BY DEF Prices!Cardinality, Cardinality

LEMMA PriceInvStaysWithin == PriceInv => Prices!WithinLimit /\ Prices!StrictestAllowance
BY SameCardinality DEF PriceInv, WithinLimits, WithinAllowances, Redeemed, Carried,
   Prices!WithinLimit, Prices!StrictestAllowance, Prices!Standing

LEMMA RedeemedAreFinite ==
  ASSUME NEW c, NEW d, NEW rows
  PROVE  /\ IsFiniteSet(Redeemed(c, rows)) /\ Cardinality(Redeemed(c, rows)) \in Nat
         /\ IsFiniteSet(Carried(d, rows)) /\ Cardinality(Carried(d, rows)) \in Nat
<1>1. Redeemed(c, rows) \subseteq Documents /\ Carried(d, rows) \subseteq Prices!Codes
  BY DEF Redeemed, Carried
<1> QED
  BY <1>1, OfferConstants, FS_Subset, FS_CardinalityType

LEMMA PriceStart == Prices!Init => PriceInv
<1> SUFFICES ASSUME Prices!Init PROVE PriceInv
  OBVIOUS
<1>0. /\ priceToday = 0 /\ priceRules = {} /\ priceCoupons = {}
      /\ priceLines = [d \in Documents |-> Prices!NoLine]
      /\ priceRedeemed = [d \in Documents |-> [c \in Prices!Codes |-> 0]]
      /\ priceTx = [s \in Clerks |-> Prices!Idle]
  BY DEF Prices!Init
<1>1. Prices!TypeOK
  <2>1. Prices!NoLine \in [asked : Asked \cup {Prices!NoAsk}, rule : Prices!Numbers \cup {Prices!Null},
                           known : SUBSET Prices!Numbers]
    BY DEF Prices!NoLine
  <2>2. Prices!Idle \in Prices!RedemptionRows
    BY DEF Prices!Idle, Prices!RedemptionRows
  <2> QED
    BY <1>0, <2>1, <2>2, OfferConstants DEF Prices!TypeOK
<1>2. RedemptionsFit /\ OneRedeems
  BY <1>0 DEF RedemptionsFit, RedemptionFits, OneRedeems
<1>3. /\ \A c \in Prices!Codes : Redeemed(c, priceRedeemed) = {}
      /\ \A d \in Documents : Carried(d, priceRedeemed) = {}
  BY <1>0 DEF Redeemed, Carried
<1>4. WithinLimits(priceRedeemed) /\ WithinAllowances(priceRedeemed)
  <2>1. Cardinality({}) = 0
    BY FS_EmptySet
  <2>2. \A c \in Prices!Codes : Cardinality(Redeemed(c, priceRedeemed)) = 0
    BY <1>3, <2>1
  <2> QED
    BY <1>3, <2>2, OfferConstants DEF WithinLimits, WithinAllowances
<1>5. Prices!LinesNameTheWinner
  BY <1>0 DEF Prices!LinesNameTheWinner
<1> QED
  BY <1>1, <1>2, <1>4, <1>5 DEF PriceInv

LEMMA PriceDays == ASSUME PriceInv, Prices!NextDay PROVE PriceInv'
<1>0. /\ priceToday < LastOfferDay /\ priceToday' = priceToday + 1
      /\ UNCHANGED <<priceRules, priceCoupons, priceLines, priceRedeemed, priceTx>>
  BY DEF Prices!NextDay
<1>1. Prices!TypeOK'
  BY <1>0, OfferConstants DEF PriceInv, Prices!TypeOK
<1> QED
  BY <1>0, <1>1 DEF PriceInv, RedemptionsFit, OneRedeems, Prices!LinesNameTheWinner

LEMMA PriceRulesGrow ==
  ASSUME PriceInv, NEW n \in Prices!Numbers, Prices!DefineRule(n) PROVE PriceInv'
<1>0. /\ priceRules' = priceRules \cup {n}
      /\ UNCHANGED <<priceToday, priceCoupons, priceLines, priceRedeemed, priceTx>>
  BY DEF Prices!DefineRule
<1>1. Prices!TypeOK'
  BY <1>0 DEF PriceInv, Prices!TypeOK, Prices!RuleRows
<1> QED
  BY <1>0, <1>1 DEF PriceInv, RedemptionsFit, OneRedeems, Prices!LinesNameTheWinner

LEMMA PriceCouponsGrow ==
  ASSUME PriceInv, NEW c \in Prices!Codes, Prices!DefineCoupon(c) PROVE PriceInv'
<1>0. /\ priceCoupons' = priceCoupons \cup {c}
      /\ UNCHANGED <<priceToday, priceRules, priceLines, priceRedeemed, priceTx>>
  BY DEF Prices!DefineCoupon
<1>1. Prices!TypeOK'
  BY <1>0 DEF PriceInv, Prices!TypeOK, Prices!CouponRows
<1> QED
  BY <1>0, <1>1 DEF PriceInv, RedemptionsFit, OneRedeems, Prices!LinesNameTheWinner

LEMMA PriceLinesAreWritten ==
  ASSUME PriceInv, NEW d \in Documents, NEW asked \in Asked, Prices!PriceLine(d, asked)
  PROVE  PriceInv'
<1> DEFINE S == {n \in priceRules : Prices!Matches(n, asked)}
           w == CHOOSE n \in S : \A m \in S \ {n} :
                  Prices!Before(Prices!OrderKey(n), Prices!OrderKey(m))
           row == [asked |-> asked, known |-> priceRules,
                   rule |-> IF S = {} THEN Prices!Null ELSE w]
<1>0. /\ priceLines' = [priceLines EXCEPT ![d] = row]
      /\ UNCHANGED <<priceToday, priceRules, priceCoupons, priceRedeemed, priceTx>>
  BY DEF Prices!PriceLine
<1>1. S \subseteq Prices!Numbers /\ priceRules \subseteq Prices!Numbers
  BY DEF PriceInv, Prices!TypeOK, Prices!RuleRows
<1>2. S # {} => w \in S /\ \A m \in S \ {w} : Prices!Beats(w, m)
  <2> SUFFICES ASSUME S # {} PROVE w \in S /\ \A m \in S \ {w} : Prices!Beats(w, m)
    OBVIOUS
  <2> HIDE DEF S
  <2>1. \E n \in S : \A m \in S \ {n} : Prices!Before(Prices!OrderKey(n), Prices!OrderKey(m))
    BY <1>1, AFirstRule
  <2>2. w \in S /\ \A m \in S \ {w} : Prices!Before(Prices!OrderKey(w), Prices!OrderKey(m))
    BY <2>1
  <2> HIDE DEF w
  <2> QED
    BY <1>1, <2>2, KeysTellWhoIsEarlier, EarlierBeats
<1>3. /\ row.asked = asked /\ row.known = priceRules
      /\ row.rule = IF S = {} THEN Prices!Null ELSE w
      /\ row \in [asked : Asked \cup {Prices!NoAsk}, rule : Prices!Numbers \cup {Prices!Null},
                  known : SUBSET Prices!Numbers]
  <2> HIDE DEF S, w
  <2> QED
    BY <1>1, <1>2
<1>4. \A n \in Prices!Numbers : n # Prices!Null
  BY OfferConstants DEF Prices!Null
<1>5. S = {n \in row.known : Prices!Matches(n, row.asked)}
  BY <1>3
<1> HIDE DEF S, w, row
<1>6. Prices!TypeOK'
  BY <1>0, <1>3 DEF PriceInv, Prices!TypeOK
<1>7. priceLines'[d] = row /\ \A o \in Documents \ {d} : priceLines'[o] = priceLines[o]
  BY <1>0 DEF PriceInv, Prices!TypeOK
<1>8. IF row.rule = Prices!Null THEN S = {}
      ELSE row.rule \in S /\ \A n \in S \ {row.rule} : Prices!Beats(row.rule, n)
  BY <1>1, <1>2, <1>3, <1>4
<1>9. Prices!LinesNameTheWinner'
  <2> SUFFICES ASSUME NEW o \in Documents, priceLines'[o] # Prices!NoLine
               PROVE  LET matched == {n \in priceLines'[o].known : Prices!Matches(n, priceLines'[o].asked)}
                      IN IF priceLines'[o].rule = Prices!Null THEN matched = {}
                         ELSE /\ priceLines'[o].rule \in matched
                              /\ \A n \in matched \ {priceLines'[o].rule} :
                                   Prices!Beats(priceLines'[o].rule, n)
    BY DEF Prices!LinesNameTheWinner
  <2>1. CASE o = d
    BY <1>5, <1>7, <1>8, <2>1
  <2>2. CASE o # d
    BY <1>7, <2>2 DEF PriceInv, Prices!LinesNameTheWinner
  <2> QED
    BY <2>1, <2>2
<1> QED
  BY <1>0, <1>6, <1>9 DEF PriceInv, RedemptionsFit, OneRedeems

LEMMA RedeemBegins ==
  ASSUME PriceInv, Serial = TRUE, NEW s \in Clerks, NEW c \in Prices!Codes, NEW d \in Documents,
         Prices!BeginRedeem(s, c, d)
  PROVE  PriceInv'
<1> DEFINE q == [coupon |-> c, document |-> d]
<1>0. /\ \A t \in Clerks : priceTx[t] = Prices!Idle
      /\ Offers[c].limit # Prices!Null => Cardinality(Redeemed(c, priceRedeemed)) < Offers[c].limit
      /\ priceRedeemed[d][c] = 0
      /\ \A other \in Carried(d, priceRedeemed) \cup {c} :
           Cardinality(Carried(d, priceRedeemed)) + 1 <= Offers[other].allowance
      /\ priceTx' = [priceTx EXCEPT ![s] = q]
      /\ UNCHANGED <<priceToday, priceRules, priceCoupons, priceLines, priceRedeemed>>
  BY SameCardinality DEF Prices!BeginRedeem, Prices!Used, Prices!Stacks, Prices!Standing,
     Redeemed, Carried
<1>1. /\ q.coupon = c /\ q.document = d /\ q \in Prices!RedemptionRows
  BY DEF Prices!RedemptionRows
<1> HIDE DEF q
<1>2. /\ priceTx'[s] = q /\ \A t \in Clerks \ {s} : priceTx'[t] = Prices!Idle
      /\ priceTx' \in [Clerks -> Prices!RedemptionRows]
  BY <1>0, <1>1 DEF PriceInv, Prices!TypeOK
<1>3. Prices!TypeOK'
  BY <1>0, <1>2 DEF PriceInv, Prices!TypeOK
<1>4. RedemptionFits(q, priceRedeemed)
  BY <1>0, <1>1 DEF RedemptionFits
<1>5. RedemptionsFit' /\ OneRedeems'
  BY <1>0, <1>2, <1>4 DEF RedemptionsFit, RedemptionFits, OneRedeems
<1>6. WithinLimits(priceRedeemed)' /\ WithinAllowances(priceRedeemed)'
  BY <1>0 DEF PriceInv
<1>7. Prices!LinesNameTheWinner'
  BY <1>0 DEF PriceInv, Prices!LinesNameTheWinner
<1> QED
  BY <1>3, <1>5, <1>6, <1>7 DEF PriceInv

(* The one redemption that was under way is over.                              *)
LEMMA RedeemEnds ==
  ASSUME PriceInv, NEW s \in Clerks, priceTx[s] # Prices!Idle,
         priceTx' = [priceTx EXCEPT ![s] = Prices!Idle]
  PROVE  priceTx' \in [Clerks -> Prices!RedemptionRows] /\ RedemptionsFit' /\ OneRedeems'
<1>1. Prices!Idle \in Prices!RedemptionRows
  BY DEF Prices!Idle, Prices!RedemptionRows
<1>2. /\ priceTx' \in [Clerks -> Prices!RedemptionRows]
      /\ \A t \in Clerks : priceTx'[t] = Prices!Idle
  BY <1>1 DEF PriceInv, Prices!TypeOK, OneRedeems
<1> QED
  BY <1>2 DEF RedemptionsFit, RedemptionFits, OneRedeems

LEMMA RedeemAborts == ASSUME PriceInv, NEW s \in Clerks, Prices!AbortRedeem(s) PROVE PriceInv'
<1>0. /\ priceTx[s] # Prices!Idle /\ priceTx' = [priceTx EXCEPT ![s] = Prices!Idle]
      /\ UNCHANGED <<priceToday, priceRules, priceCoupons, priceLines, priceRedeemed>>
  BY DEF Prices!AbortRedeem
<1>1. priceTx' \in [Clerks -> Prices!RedemptionRows] /\ RedemptionsFit' /\ OneRedeems'
  BY <1>0, RedeemEnds
<1>2. Prices!TypeOK'
  BY <1>0, <1>1 DEF PriceInv, Prices!TypeOK
<1> QED
  BY <1>0, <1>1, <1>2 DEF PriceInv, Prices!LinesNameTheWinner

LEMMA RedeemCommits == ASSUME PriceInv, NEW s \in Clerks, Prices!CommitRedeem(s) PROVE PriceInv'
<1> DEFINE c == priceTx[s].coupon
           d == priceTx[s].document
<1>0. /\ priceTx[s] # Prices!Idle /\ priceTx' = [priceTx EXCEPT ![s] = Prices!Idle]
      /\ priceRedeemed' = [priceRedeemed EXCEPT ![d][c] = 1]
      /\ UNCHANGED <<priceToday, priceRules, priceCoupons, priceLines>>
  BY DEF Prices!CommitRedeem
<1>1. priceTx' \in [Clerks -> Prices!RedemptionRows] /\ RedemptionsFit' /\ OneRedeems'
  BY <1>0, RedeemEnds
<1>2. RedemptionFits(priceTx[s], priceRedeemed)
  BY DEF PriceInv, RedemptionsFit
<1>3. c \in Prices!Codes /\ d \in Documents /\ priceRedeemed[d][c] = 0
  BY <1>0, <1>2 DEF RedemptionFits
<1>4. /\ Offers[c].limit # Prices!Null => Cardinality(Redeemed(c, priceRedeemed)) < Offers[c].limit
      /\ \A other \in Carried(d, priceRedeemed) \cup {c} :
           Cardinality(Carried(d, priceRedeemed)) + 1 <= Offers[other].allowance
  BY <1>0, <1>2 DEF RedemptionFits
<1> HIDE DEF c, d
<1>5. priceRedeemed \in [Documents -> [Prices!Codes -> 0..1]]
  BY DEF PriceInv, Prices!TypeOK
<1>6. /\ priceRedeemed' \in [Documents -> [Prices!Codes -> 0..1]]
      /\ priceRedeemed'[d][c] = 1
      /\ \A e \in Documents, b \in Prices!Codes :
           e # d \/ b # c => priceRedeemed'[e][b] = priceRedeemed[e][b]
  BY <1>0, <1>3, <1>5
<1>7. Prices!TypeOK'
  BY <1>0, <1>1, <1>6 DEF PriceInv, Prices!TypeOK
<1>8. WithinLimits(priceRedeemed)'
  <2> SUFFICES ASSUME NEW b \in Prices!Codes, Offers[b].limit # Prices!Null
               PROVE  Cardinality(Redeemed(b, priceRedeemed')) <= Offers[b].limit
    BY DEF WithinLimits
  <2>1. CASE b = c
    <3>1. Redeemed(c, priceRedeemed') = Redeemed(c, priceRedeemed) \cup {d}
      BY <1>3, <1>5, <1>6 DEF Redeemed
    <3>2. d \notin Redeemed(c, priceRedeemed)
      BY <1>3 DEF Redeemed
    <3>3. Cardinality(Redeemed(c, priceRedeemed')) = Cardinality(Redeemed(c, priceRedeemed)) + 1
      BY <3>1, <3>2, RedeemedAreFinite, FS_AddElement
    <3> QED
      BY <1>4, <2>1, <3>3, RedeemedAreFinite, OfferConstants
  <2>2. CASE b # c
    <3>1. Redeemed(b, priceRedeemed') = Redeemed(b, priceRedeemed)
      BY <1>6, <2>2 DEF Redeemed
    <3> QED
      BY <3>1 DEF PriceInv, WithinLimits
  <2> QED
    BY <2>1, <2>2
<1>9. WithinAllowances(priceRedeemed)'
  <2> SUFFICES ASSUME NEW e \in Documents, NEW b \in Carried(e, priceRedeemed')
               PROVE  Cardinality(Carried(e, priceRedeemed')) <= Offers[b].allowance
    BY DEF WithinAllowances
  <2>1. CASE e = d
    <3>1. Carried(d, priceRedeemed') = Carried(d, priceRedeemed) \cup {c}
      BY <1>3, <1>5, <1>6 DEF Carried
    <3>2. c \notin Carried(d, priceRedeemed)
      BY <1>3 DEF Carried
    <3>3. Cardinality(Carried(d, priceRedeemed')) = Cardinality(Carried(d, priceRedeemed)) + 1
      BY <3>1, <3>2, RedeemedAreFinite, FS_AddElement
    <3> QED
      BY <1>4, <2>1, <3>1, <3>3
  <2>2. CASE e # d
    <3>1. Carried(e, priceRedeemed') = Carried(e, priceRedeemed)
      BY <1>6, <2>2 DEF Carried
    <3> QED
      BY <3>1 DEF PriceInv, WithinAllowances
  <2> QED
    BY <2>1, <2>2
<1>10. Prices!LinesNameTheWinner'
  BY <1>0 DEF PriceInv, Prices!LinesNameTheWinner
<1> QED
  BY <1>1, <1>7, <1>8, <1>9, <1>10 DEF PriceInv

LEMMA PriceStep ==
  ASSUME PriceInv, Serial = TRUE, [Prices!Next]_(Prices!vars) PROVE PriceInv'
<1>1. CASE Prices!NextDay
  BY <1>1, PriceDays
<1>2. ASSUME NEW n \in Prices!Numbers, Prices!DefineRule(n) PROVE PriceInv'
  BY <1>2, PriceRulesGrow
<1>3. ASSUME NEW d \in Documents, NEW asked \in Asked, Prices!PriceLine(d, asked) PROVE PriceInv'
  BY <1>3, PriceLinesAreWritten
<1>4. ASSUME NEW c \in Prices!Codes, Prices!DefineCoupon(c) PROVE PriceInv'
  BY <1>4, PriceCouponsGrow
<1>5. ASSUME NEW s \in Clerks, NEW c \in Prices!Codes, NEW d \in Documents,
             Prices!BeginRedeem(s, c, d)
      PROVE  PriceInv'
  BY <1>5, RedeemBegins
<1>6. ASSUME NEW s \in Clerks, Prices!CommitRedeem(s) PROVE PriceInv'
  BY <1>6, RedeemCommits
<1>7. ASSUME NEW s \in Clerks, Prices!AbortRedeem(s) PROVE PriceInv'
  BY <1>7, RedeemAborts
<1>8. CASE UNCHANGED Prices!vars
  BY <1>8 DEF Prices!vars, PriceInv, Prices!TypeOK, RedemptionsFit, OneRedeems,
     Prices!LinesNameTheWinner
<1> QED
  BY <1>1, <1>2, <1>3, <1>4, <1>5, <1>6, <1>7, <1>8 DEF Prices!Next

(* --------------------------------- the till -------------------------------- *)

LEMMA TillConstants ==
  /\ Units \in Seq(Nat \ {0}) /\ Till!Sales = 1..Len(Units) /\ Len(Units) \in Nat
  /\ IsFiniteSet(Till!Sales) /\ 0 \notin Till!Sales
  /\ \A n \in Till!Sales : Units[n] \in Nat \ {0}
  /\ LastShift \in Nat /\ Floats \subseteq Nat /\ Moves \subseteq Int /\ MaxGiven \in Nat
  /\ Shelved \in Nat /\ LastDay \in Nat \ {0} /\ Policies \subseteq BOOLEAN
<1>1. /\ Units \in Seq(Nat \ {0}) /\ LastShift \in Nat /\ Floats \subseteq Nat
      /\ Moves \subseteq Int /\ MaxGiven \in Nat
      /\ Shelved \in Nat /\ LastDay \in Nat \ {0} /\ Policies \subseteq BOOLEAN
  BY Parameters DEF Till!SaleAssumption, Till!BoundAssumption
<1>2. /\ Till!Sales = 1..Len(Units) /\ Len(Units) \in Nat
      /\ \A n \in Till!Sales : Units[n] \in Nat \ {0}
  BY <1>1 DEF Till!Sales
<1>3. IsFiniteSet(1..Len(Units))
  <2>1. PICK a \in Int, b \in Int : a = 1 /\ b = Len(Units)
    BY <1>2
  <2> QED
    BY <2>1, FS_Interval
<1> QED
  BY <1>1, <1>2, <1>3

LEMMA TillSumSets ==
  /\ \A S : Till!Cardinality(S) = Cardinality(S)
  /\ \A S : Till!IsFiniteSet(S) <=> IsFiniteSet(S)
BY DEF Till!Cardinality, Cardinality, Till!IsFiniteSet, IsFiniteSet

(* What is counted is finite, and a sum is a number.                           *)
LEMMA CountedIsFinite ==
  ASSUME NEW D, IsFiniteSet(D), NEW f \in [D -> Int]
  PROVE  IsFiniteSet(Till!Counted(f))
<1> DEFINE Parts == {{x} \X (1..f[x]) : x \in D}
           part == [x \in D |-> {x} \X (1..f[x])]
<1>1. part \in Surjection(D, Parts)
  BY DEF Surjection
<1>2. IsFiniteSet(Parts)
  BY <1>1, FS_Surjection
<1>3. ASSUME NEW x \in D PROVE IsFiniteSet({x} \X (1..f[x]))
  <2>1. 1 \in Int /\ f[x] \in Int
    OBVIOUS
  <2>2. IsFiniteSet(1..f[x])
    BY ONLY <2>1, FS_Interval, Zenon
  <2>3. IsFiniteSet({x})
    BY FS_Singleton
  <2> QED
    BY <2>2, <2>3, FS_Product
<1>4. \A T \in Parts : IsFiniteSet(T)
  BY <1>3
<1> HIDE DEF Parts
<1>5. IsFiniteSet(UNION Parts)
  BY <1>2, <1>4, FS_UNION
<1> QED
  BY <1>5 DEF Parts, Till!Counted

LEMMA SumIsInt ==
  ASSUME NEW D, IsFiniteSet(D), NEW f \in [D -> Int]
  PROVE  Till!SumOf(f) \in Int
<1> DEFINE g == [x \in D |-> -f[x]]
<1>1. g \in [D -> Int] /\ DOMAIN f = D
  OBVIOUS
<1> HIDE DEF g
<1>2. IsFiniteSet(Till!Counted(f)) /\ IsFiniteSet(Till!Counted(g))
  BY <1>1, CountedIsFinite
<1>3. Cardinality(Till!Counted(f)) \in Nat /\ Cardinality(Till!Counted(g)) \in Nat
  BY <1>2, FS_CardinalityType
<1>4. Till!SumOf(f) = Cardinality(Till!Counted(f)) - Cardinality(Till!Counted(g))
  BY <1>1, TillSumSets DEF Till!SumOf, g
<1> QED
  BY <1>3, <1>4

(* Goods are the units of their sales.                                         *)
Pieces(S) == UNION {{n} \X (1..Units[n]) : n \in S}

LEMMA GoodsAreCounted ==
  ASSUME NEW S \in SUBSET Till!Sales
  PROVE  /\ Till!Goods(S) = Cardinality(Pieces(S)) /\ IsFiniteSet(Pieces(S))
         /\ Till!Goods(S) \in Nat
<1> DEFINE f == [n \in S |-> Units[n]]
           g == [n \in S |-> -f[n]]
<1>1. f \in [S -> Int] /\ DOMAIN f = S /\ \A n \in S : f[n] = Units[n]
  BY TillConstants
<1>2. Till!Counted(f) = Pieces(S)
  BY <1>1 DEF Till!Counted, Pieces
<1>3. DOMAIN g = S /\ \A n \in S : 1..g[n] = {}
  BY TillConstants
<1> HIDE DEF g
<1>4. Till!Counted(g) = {}
  BY <1>3 DEF Till!Counted
<1>5. IsFiniteSet(S)
  BY TillConstants, FS_Subset
<1>6. IsFiniteSet(Pieces(S))
  BY <1>1, <1>2, <1>5, CountedIsFinite
<1>7. Till!Goods(S) = Cardinality(Pieces(S)) - Cardinality({})
  BY <1>1, <1>2, <1>4, TillSumSets DEF Till!Goods, Till!SumOf, g
<1> QED
  BY <1>6, <1>7, FS_EmptySet, FS_CardinalityType

LEMMA NoGoods == Till!Goods({}) = 0
<1>1. Pieces({}) = {}
  BY DEF Pieces
<1> QED
  BY <1>1, GoodsAreCounted, FS_EmptySet

LEMMA GoodsOfBoth ==
  ASSUME NEW S \in SUBSET Till!Sales, NEW T \in SUBSET Till!Sales, S \cap T = {}
  PROVE  Till!Goods(S \cup T) = Till!Goods(S) + Till!Goods(T)
<1>1. Pieces(S \cup T) = Pieces(S) \cup Pieces(T)
  BY DEF Pieces
<1>2. Pieces(S) \cap Pieces(T) = {}
  BY DEF Pieces
<1>3. IsFiniteSet(Pieces(S)) /\ IsFiniteSet(Pieces(T))
  BY GoodsAreCounted
<1>4. Cardinality(Pieces(S) \cup Pieces(T)) =
        Cardinality(Pieces(S)) + Cardinality(Pieces(T)) - Cardinality(Pieces(S) \cap Pieces(T))
  BY ONLY <1>3, FS_Union, Zenon
<1>5. Cardinality({}) = 0
  BY FS_EmptySet
<1>6. S \cup T \in SUBSET Till!Sales
  OBVIOUS
<1>7. PICK a, b, c \in Nat : a = Till!Goods(S) /\ b = Till!Goods(T) /\ c = Till!Goods(S \cup T)
  BY <1>6, GoodsAreCounted
<1>8. c = a + b - 0
  BY <1>1, <1>2, <1>4, <1>5, <1>6, <1>7, GoodsAreCounted
<1> QED
  BY <1>7, <1>8

LEMMA GoodsOfOne == ASSUME NEW n \in Till!Sales PROVE Till!Goods({n}) = Units[n]
<1>1. Pieces({n}) = {n} \X (1..Units[n])
  BY DEF Pieces
<1>2. IsFiniteSet({n}) /\ Cardinality({n}) = 1
  BY FS_Singleton
<1>3. PICK a \in Int, b \in Int : a = 1 /\ b = Units[n] /\ b \in Nat \ {0}
  BY TillConstants
<1>4. IsFiniteSet(a..b) /\ Cardinality(a..b) = IF a > b THEN 0 ELSE b - a + 1
  BY ONLY a \in Int, b \in Int, FS_Interval, Zenon
<1>5. Cardinality(a..b) = b /\ 1 * b = b
  BY <1>3, <1>4
<1>6. Cardinality({n} \X (a..b)) = Cardinality({n}) * Cardinality(a..b)
  BY ONLY <1>2, <1>4, FS_Product, Zenon
<1> QED
  BY <1>1, <1>2, <1>3, <1>5, <1>6, GoodsAreCounted

LEMMA TillMin ==
  ASSUME NEW S \in SUBSET Nat, S # {}
  PROVE  Till!Min(S) \in S
BY LeastIsMember DEF Till!Min

TillAnswers == UNION {[S -> Till!Outcomes] : S \in SUBSET Till!Sales}
TillRequests == [op : {"none", "open", "close", "complete", "void", "refund", "sync"}, row : Till!Sales \cup {0},
                 shift : Till!Shifts \cup {Till!NoShift}, amount : Int,
                 outcomes : {<<>>} \cup TillAnswers]
TillReplies == [run : SUBSET Till!Sales, outcomes : {<<>>} \cup TillAnswers]

TillTypes ==
  /\ Till!TypeOK
  /\ IsFiniteSet(tillMovements)
  /\ tillTx \in [Sessions -> TillRequests]
  /\ tillReply \in TillReplies

(* A sale is paid no more than it is worth, and is on the books with its whole *)
(* basket when it was completed, and only then.                                *)
SaleFits(n, sale) ==
  /\ sale.units \in {0, Units[n]}
  /\ sale.cash + sale.card <= sale.units
  /\ sale.status \in {"absent", "open"} => ~sale.entry
  /\ sale.status = "completed" => sale.entry /\ sale.units = Units[n]
SalesFit == \A n \in Till!Sales : SaleFits(n, tillSales[n])

(* What the server answered for good is on the books.                          *)
Told(run, outcomes, sales) ==
  /\ run \subseteq Till!Sales /\ outcomes \in [run -> Till!Outcomes]
  /\ \A n \in run : outcomes[n] = "duplicate" => sales[n].entry
ReplyFits ==
  tillReply.run # {} =>
    /\ Told(tillReply.run, tillReply.outcomes, tillSales)
    /\ \A n \in tillReply.run : tillReply.outcomes[n] = "accepted" => tillSales[n].entry

Trading(k, shifts) == k # Till!NoShift => shifts[k].status = "open"

TillRequestFits(q, sales, shifts) ==
  /\ q.op = "complete" => /\ q.row \in Till!Sales /\ sales[q.row].status = "open"
                          /\ sales[q.row].units = Units[q.row] /\ q.amount = Units[q.row]
                          /\ Trading(q.shift, shifts)
  /\ q.op = "void" => q.row \in Till!Sales /\ sales[q.row].status = "open"
  /\ q.op = "refund" => /\ q.row \in Till!Sales /\ sales[q.row].status = "completed"
                        /\ q.amount = Units[q.row]
  /\ q.op \notin {"complete", "void", "refund"} => q.row = 0
  /\ q.op = "sync" => Told(DOMAIN q.outcomes, q.outcomes, sales) /\ Trading(q.shift, shifts)
  /\ q.op = "close" => q.shift \in Till!Shifts
  /\ q.op = "open" => q.amount \in Nat
TillRequestsFit == \A s \in Sessions : TillRequestFits(tillTx[s], tillSales, tillShifts)

(* Nobody sells while a shift is closed, and one session is at a sale.         *)
TillTurns ==
  \A s, t \in Sessions : s # t =>
    /\ tillTx[s].op = "close" => tillTx[t].op \notin Till!Closing
    /\ tillTx[s].row # 0 => tillTx[s].row # tillTx[t].row

OneIsOpen ==
  \A k, l \in Till!Shifts :
    tillShifts[k].status = "open" /\ tillShifts[l].status = "open" => k = l

TillInv ==
  /\ TillTypes /\ SalesFit /\ ReplyFits /\ TillRequestsFit /\ TillTurns /\ OneIsOpen
  /\ Till!SoldOnce /\ Till!NothingForgotten

LEMMA TillInvOneShift == TillInv => Till!OneShiftPerTill
<1> SUFFICES ASSUME TillInv PROVE Cardinality(Till!OpenShifts) <= 1
  BY TillSumSets DEF Till!OneShiftPerTill
<1>1. CASE Till!OpenShifts = {}
  BY <1>1, FS_EmptySet
<1>2. CASE Till!OpenShifts # {}
  <2>1. PICK k \in Till!OpenShifts : TRUE
    BY <1>2
  <2>2. Till!OpenShifts = {k}
    BY <2>1 DEF TillInv, OneIsOpen, Till!OpenShifts
  <2> QED
    BY <2>2, FS_Singleton
<1> QED
  BY <1>1, <1>2

LEMMA TillIdle ==
  /\ Till!Idle \in TillRequests /\ Till!Idle.op = "none" /\ Till!Idle.row = 0
  /\ \A sales, shifts : TillRequestFits(Till!Idle, sales, shifts)
  /\ Till!NoReply \in TillReplies /\ Till!NoReply.run = {}
  /\ \A n \in Till!Sales : Till!NoSale \in Till!SaleRows /\ SaleFits(n, Till!NoSale)
  /\ Till!NoSale.status = "absent" /\ ~Till!NoSale.entry
<1>1. Till!Idle \in TillRequests /\ Till!Idle.op = "none" /\ Till!Idle.row = 0
  BY DEF Till!Idle, TillRequests, Till!None
<1>2. Till!NoReply \in TillReplies /\ Till!NoReply.run = {}
  BY DEF Till!NoReply, TillReplies
<1>3. /\ Till!NoSale \in Till!SaleRows /\ Till!NoSale.units = 0 /\ Till!NoSale.cash = 0
      /\ Till!NoSale.card = 0 /\ Till!NoSale.status = "absent" /\ ~Till!NoSale.entry
  BY DEF Till!NoSale, Till!SaleRows
<1> QED
  BY <1>1, <1>2, <1>3 DEF TillRequestFits, SaleFits

LEMMA TillStart == Till!Init => TillInv
<1> SUFFICES ASSUME Till!Init PROVE TillInv
  OBVIOUS
<1>0. /\ tillToday = 1 /\ tillRequired \in Policies
      /\ tillShifts = [k \in Till!Shifts |->
                         [status |-> "absent", on |-> 0, float |-> 0, expected |-> 0]]
      /\ tillMovements = {} /\ tillSales = [n \in Till!Sales |-> Till!NoSale]
      /\ tillBin = Shelved /\ tillPosted = [n \in Till!Sales |-> 0] /\ tillQueue = {}
      /\ tillAnswers = [n \in Till!Sales |-> Till!None] /\ tillReply = Till!NoReply
      /\ tillTx = [s \in Sessions |-> Till!Idle]
  BY DEF Till!Init
<1>1. Till!TypeOK
  <2>1. tillShifts \in [Till!Shifts -> Till!ShiftRows]
    BY <1>0 DEF Till!ShiftRows
  <2>2. tillSales \in [Till!Sales -> Till!SaleRows]
    BY <1>0, TillIdle
  <2>3. 1 \in Till!Days
    BY TillConstants DEF Till!Days
  <2> QED
    BY <1>0, <2>1, <2>2, <2>3, TillConstants, TillIdle DEF Till!TypeOK
<1>2. TillTypes
  BY <1>0, <1>1, TillIdle, FS_EmptySet DEF TillTypes
<1>3. SalesFit /\ ReplyFits /\ TillRequestsFit /\ TillTurns
  BY <1>0, TillIdle DEF SalesFit, ReplyFits, TillRequestsFit, TillTurns
<1>4. OneIsOpen
  BY <1>0 DEF OneIsOpen
<1>5. Till!SoldOnce
  <2>1. Till!Stands = {}
    BY <1>0, TillIdle DEF Till!Stands
  <2> QED
    BY <1>0, <2>1, NoGoods, TillConstants DEF Till!SoldOnce
<1>6. Till!NothingForgotten
  BY <1>0 DEF Till!NothingForgotten, Till!None
<1> QED
  BY <1>2, <1>3, <1>4, <1>5, <1>6 DEF TillInv

(* The sales of a closed shift stay the same, each with its basket and its     *)
(* tenders: so does its report.                                                *)
SameSales(k) ==
  \A n \in Till!Sales :
    /\ (tillSales[n].shift = k /\ tillSales[n].entry) <=>
         (tillSales'[n].shift = k /\ tillSales'[n].entry)
    /\ tillSales[n].shift = k /\ tillSales[n].entry =>
         /\ tillSales'[n].units = tillSales[n].units
         /\ tillSales'[n].given = tillSales[n].given
         /\ tillSales'[n].card = tillSales[n].card

ReportsStand ==
  \A k \in Till!Shifts : tillShifts[k].status = "closed" => Till!Takings(k)' = Till!Takings(k)

LEMMA SameReport ==
  ASSUME NEW k \in Till!Shifts, SameSales(k)
  PROVE  Till!Takings(k)' = Till!Takings(k)
<1>1. Till!ShiftSales(k)' = Till!ShiftSales(k)
  BY DEF SameSales, Till!ShiftSales
<1>2. \A n \in Till!ShiftSales(k) : /\ tillSales'[n].units = tillSales[n].units
                                    /\ tillSales'[n].given = tillSales[n].given
                                    /\ tillSales'[n].card = tillSales[n].card
  BY DEF SameSales, Till!ShiftSales
<1>3. [n \in Till!ShiftSales(k) |-> tillSales'[n].units] =
        [n \in Till!ShiftSales(k) |-> tillSales[n].units]
  BY <1>2
<1>4. [n \in Till!ShiftSales(k) |-> tillSales'[n].given
                                   - (tillSales'[n].given + tillSales'[n].card - tillSales'[n].units)] =
        [n \in Till!ShiftSales(k) |-> tillSales[n].given
                                   - (tillSales[n].given + tillSales[n].card - tillSales[n].units)]
  BY <1>2
<1> QED
  BY <1>1, <1>3, <1>4 DEF Till!Takings, Till!DrawerState, Till!Gross, Till!Change

LEMMA SameRows ==
  ASSUME UNCHANGED tillSales
  PROVE  ReportsStand
BY SameReport DEF ReportsStand, SameSales

LEMMA TillBegins ==
  ASSUME TillInv, Serial = TRUE, NEW s \in Sessions, NEW q \in TillRequests, Till!Starts(s, q),
         TillRequestFits(q, tillSales, tillShifts)
  PROVE  TillInv' /\ ReportsStand
<1>0. /\ tillTx[s] = Till!Idle /\ tillTx' = [tillTx EXCEPT ![s] = q]
      /\ \A t \in Sessions : /\ tillTx[t].op = "close" => q.op \notin Till!Closing
                             /\ q.op = "close" => tillTx[t].op \notin Till!Closing
                             /\ q.row # 0 => tillTx[t].row # q.row
      /\ UNCHANGED <<tillToday, tillRequired, tillShifts, tillMovements, tillSales, tillBin,
                     tillPosted, tillQueue, tillAnswers, tillReply>>
  BY DEF Till!Starts, Till!None
<1>1. /\ tillTx' \in [Sessions -> TillRequests] /\ tillTx'[s] = q
      /\ \A t \in Sessions \ {s} : tillTx'[t] = tillTx[t]
  BY <1>0 DEF TillInv, TillTypes
<1>2. TillTypes'
  BY <1>0, <1>1 DEF TillInv, TillTypes, Till!TypeOK
<1>3. TillRequestsFit'
  <2>1. \A t \in Sessions : TillRequestFits(tillTx'[t], tillSales, tillShifts)
    BY <1>1 DEF TillInv, TillRequestsFit
  <2> QED
    BY <1>0, <2>1 DEF TillRequestsFit
<1>4. TillTurns'
  <2> SUFFICES ASSUME NEW t \in Sessions, NEW u \in Sessions, t # u
               PROVE  /\ tillTx'[t].op = "close" => tillTx'[u].op \notin Till!Closing
                      /\ tillTx'[t].row # 0 => tillTx'[t].row # tillTx'[u].row
    BY DEF TillTurns
  <2>3. CASE t = s
    BY <1>0, <1>1, <2>3
  <2>4. CASE u = s
    BY <1>0, <1>1, <2>4
  <2>5. CASE t # s /\ u # s
    BY <1>1, <2>5 DEF TillInv, TillTurns
  <2> QED
    BY <2>3, <2>4, <2>5
<1>5. SalesFit' /\ ReplyFits' /\ OneIsOpen'
  BY <1>0 DEF TillInv, SalesFit, ReplyFits, OneIsOpen
<1>6. Till!SoldOnce' /\ Till!NothingForgotten'
  BY <1>0 DEF TillInv, Till!SoldOnce, Till!Stands, Till!NothingForgotten
<1>7. ReportsStand
  BY <1>0, SameRows
<1> QED
  BY <1>2, <1>3, <1>4, <1>5, <1>6, <1>7 DEF TillInv

(* A request ends, and the others keep their ground.                           *)
LEMMA TillEnds ==
  ASSUME TillInv, NEW s \in Sessions, tillTx' = [tillTx EXCEPT ![s] = Till!Idle],
         \A t \in Sessions \ {s} : TillRequestFits(tillTx[t], tillSales', tillShifts')
  PROVE  tillTx' \in [Sessions -> TillRequests] /\ TillRequestsFit' /\ TillTurns'
<1>1. /\ tillTx' \in [Sessions -> TillRequests] /\ tillTx'[s] = Till!Idle
      /\ \A t \in Sessions \ {s} : tillTx'[t] = tillTx[t]
  BY TillIdle DEF TillInv, TillTypes
<1>2. TillRequestsFit'
  <2>1. \A t \in Sessions : TillRequestFits(tillTx'[t], tillSales', tillShifts')
    BY <1>1, TillIdle
  <2> QED
    BY <2>1 DEF TillRequestsFit
<1>3. TillTurns'
  BY <1>1, TillIdle DEF TillInv, TillTurns, Till!Closing
<1> QED
  BY <1>1, <1>2, <1>3

LEMMA TillAborts ==
  ASSUME TillInv, NEW s \in Sessions, Till!Abort(s) PROVE TillInv' /\ ReportsStand
<1>0. /\ tillTx' = [tillTx EXCEPT ![s] = Till!Idle]
      /\ UNCHANGED <<tillToday, tillRequired, tillShifts, tillMovements, tillSales, tillBin,
                     tillPosted, tillQueue, tillAnswers, tillReply>>
  BY DEF Till!Abort
<1>1. tillTx' \in [Sessions -> TillRequests] /\ TillRequestsFit' /\ TillTurns'
  <2>1. \A t \in Sessions \ {s} : TillRequestFits(tillTx[t], tillSales', tillShifts')
    BY <1>0 DEF TillInv, TillRequestsFit
  <2> QED
    BY <1>0, <2>1, TillEnds
<1>2. TillTypes'
  BY <1>0, <1>1 DEF TillInv, TillTypes, Till!TypeOK
<1>3. SalesFit' /\ ReplyFits' /\ OneIsOpen'
  BY <1>0 DEF TillInv, SalesFit, ReplyFits, OneIsOpen
<1>4. Till!SoldOnce' /\ Till!NothingForgotten'
  BY <1>0 DEF TillInv, Till!SoldOnce, Till!Stands, Till!NothingForgotten
<1> QED
  BY <1>0, <1>1, <1>2, <1>3, <1>4, SameRows DEF TillInv

(* ----------------------------------- shifts -------------------------------- *)

LEMMA CurrentShiftTrades ==
  ASSUME TillInv
  PROVE  /\ Till!CurrentShift \in Till!Shifts \cup {Till!NoShift}
         /\ Trading(Till!CurrentShift, tillShifts)
<1>1. Till!OpenShifts \in SUBSET Nat /\ Till!OpenShifts \subseteq Till!Shifts
  BY TillConstants DEF Till!OpenShifts, Till!Shifts
<1>2. Till!OpenShifts # {} => Till!Min(Till!OpenShifts) \in Till!OpenShifts
  BY <1>1, TillMin
<1> QED
  BY <1>1, <1>2 DEF Till!CurrentShift, Trading, Till!OpenShifts

LEMMA TillOpenBegins ==
  ASSUME TillInv, Serial = TRUE, NEW s \in Sessions, NEW money \in Floats, Till!BeginOpen(s, money)
  PROVE  TillInv' /\ ReportsStand
<1> DEFINE q == [Till!Idle EXCEPT !.op = "open", !.amount = money]
<1>0. money \in Nat
  BY TillConstants
<1>1. q \in TillRequests /\ q.op = "open" /\ q.row = 0 /\ q.amount = money
  <2>1. money \in Int
    BY <1>0
  <2> QED
    BY <2>1 DEF Till!Idle, TillRequests
<1>2. Till!Starts(s, q)
  BY DEF Till!BeginOpen
<1> HIDE DEF q
<1>3. TillRequestFits(q, tillSales, tillShifts)
  BY <1>0, <1>1 DEF TillRequestFits
<1> QED
  BY <1>1, <1>2, <1>3, TillBegins

LEMMA ExpectedIsInt ==
  ASSUME TillInv, NEW k \in Till!Shifts
  PROVE  Till!ExpectedCash(k) \in Int
<1>1. /\ tillSales \in [Till!Sales -> Till!SaleRows] /\ tillMovements \subseteq Till!MovementRows
      /\ tillShifts \in [Till!Shifts -> Till!ShiftRows] /\ IsFiniteSet(tillMovements)
  BY DEF TillInv, TillTypes, Till!TypeOK
<1> DEFINE S == Till!ShiftSales(k)
           M == {m \in tillMovements : m.shift = k}
           R == Till!RefundsOn(tillShifts[k].on)
           f == [n \in S |-> tillSales[n].given - Till!Change(n)]
           g == [m \in M |-> m.amount]
           h == [n \in R |-> tillSales[n].cash]
<1>2. IsFiniteSet(S) /\ IsFiniteSet(M) /\ IsFiniteSet(R)
  <2>1. S \subseteq Till!Sales /\ M \subseteq tillMovements /\ R \subseteq Till!Sales
    BY DEF Till!ShiftSales, Till!RefundsOn
  <2> QED
    BY <1>1, <2>1, TillConstants, FS_Subset
<1>3. f \in [S -> Int]
  BY <1>1 DEF Till!SaleRows, Till!Change, Till!Gross, Till!ShiftSales
<1>4. g \in [M -> Int]
  BY <1>1 DEF Till!MovementRows
<1>5. h \in [R -> Int]
  BY <1>1 DEF Till!SaleRows, Till!RefundsOn
<1>6. tillShifts[k].float \in Int
  BY <1>1 DEF Till!ShiftRows
<1>7. /\ Till!SumOf(f) \in Int /\ Till!SumOf(g) \in Int /\ Till!SumOf(h) \in Int
  <2> HIDE DEF S, M, R, f, g, h
  <2> QED
    BY <1>2, <1>3, <1>4, <1>5, SumIsInt
<1>8. Till!DrawerState(Till!ShiftSales(k), {m \in tillMovements : m.shift = k}) \in Int
  <2>1. Till!DrawerState(S, M) = Till!SumOf(f) + Till!SumOf(g)
    BY DEF Till!DrawerState
  <2>2. Till!SumOf(f) + Till!SumOf(g) \in Int
    <3> HIDE DEF f, g
    <3> QED
      BY <1>7
  <2> QED
    BY <2>1, <2>2
<1>9. Till!SumOf([n \in Till!RefundsOn(tillShifts[k].on) |-> tillSales[n].cash]) \in Int
  BY <1>7
<1> HIDE DEF S, M, R, f, g, h
<1> QED
  BY <1>6, <1>8, <1>9 DEF Till!ExpectedCash

LEMMA TillCloseBegins ==
  ASSUME TillInv, Serial = TRUE, NEW s \in Sessions, NEW k \in Till!Shifts, Till!BeginClose(s, k)
  PROVE  TillInv' /\ ReportsStand
<1> DEFINE q == [Till!Idle EXCEPT !.op = "close", !.shift = k, !.amount = Till!ExpectedCash(k)]
<1>1. q \in TillRequests /\ q.op = "close" /\ q.row = 0 /\ q.shift = k
  BY ExpectedIsInt DEF Till!Idle, TillRequests
<1>2. Till!Starts(s, q)
  BY DEF Till!BeginClose
<1> HIDE DEF q
<1>3. TillRequestFits(q, tillSales, tillShifts)
  BY <1>1 DEF TillRequestFits
<1> QED
  BY <1>1, <1>2, <1>3, TillBegins

(* The movements that are claimed keep their amounts.                          *)
LEMMA ClaimedAreMovements ==
  ASSUME TillInv, NEW k \in Till!Shifts
  PROVE  Till!Claimed(k) \subseteq Till!MovementRows /\ IsFiniteSet(Till!Claimed(k))
<1>1. tillMovements \subseteq Till!MovementRows /\ IsFiniteSet(tillMovements)
  BY DEF TillInv, TillTypes, Till!TypeOK
<1> DEFINE Claim(m) == IF m.shift = Till!NoShift /\ m.on = tillToday THEN [m EXCEPT !.shift = k] ELSE m
           f == [m \in tillMovements |-> Claim(m)]
<1>2. Till!Claimed(k) = {Claim(m) : m \in tillMovements}
  BY DEF Till!Claimed
<1>3. \A m \in tillMovements : Claim(m) \in Till!MovementRows
  BY <1>1 DEF Till!MovementRows
<1> HIDE DEF Claim
<1>4. f \in Surjection(tillMovements, {Claim(m) : m \in tillMovements})
  BY DEF Surjection
<1>5. IsFiniteSet({Claim(m) : m \in tillMovements})
  BY <1>1, <1>4, FS_Surjection
<1> QED
  BY <1>2, <1>3, <1>5

LEMMA TillOpenCommits ==
  ASSUME TillInv, NEW s \in Sessions, Till!CommitOpen(s)
  PROVE  TillInv' /\ ReportsStand
<1> DEFINE k == Till!Min(Till!Fresh)
           row == [status |-> "open", on |-> tillToday, float |-> tillTx[s].amount, expected |-> 0]
<1>0. /\ tillTx[s].op = "open" /\ tillTx' = [tillTx EXCEPT ![s] = Till!Idle]
      /\ Till!Fresh # {} /\ Till!OpenShifts = {}
      /\ tillShifts' = [tillShifts EXCEPT ![k] = row] /\ tillMovements' = Till!Claimed(k)
      /\ UNCHANGED <<tillToday, tillRequired, tillSales, tillBin, tillPosted, tillQueue,
                     tillAnswers, tillReply>>
  BY DEF Till!CommitOpen, Till!Ends
<1>1. k \in Till!Fresh
  <2>1. Till!Fresh \in SUBSET Nat
    BY TillConstants DEF Till!Fresh, Till!Shifts
  <2> QED
    BY <1>0, <2>1, TillMin
<1>2. k \in Till!Shifts /\ tillShifts[k].status = "absent"
  BY <1>1 DEF Till!Fresh
<1>3. tillTx[s].amount \in Nat
  BY <1>0 DEF TillInv, TillRequestsFit, TillRequestFits
<1>4. row \in Till!ShiftRows /\ row.status = "open"
  BY <1>3 DEF Till!ShiftRows, TillInv, TillTypes, Till!TypeOK
<1> HIDE DEF k, row
<1>5. /\ tillShifts' \in [Till!Shifts -> Till!ShiftRows] /\ tillShifts'[k] = row
      /\ \A l \in Till!Shifts \ {k} : tillShifts'[l] = tillShifts[l]
  BY <1>0, <1>2, <1>4 DEF TillInv, TillTypes, Till!TypeOK
<1>6. tillTx' \in [Sessions -> TillRequests] /\ TillRequestsFit' /\ TillTurns'
  <2>1. ASSUME NEW t \in Sessions
        PROVE  TillRequestFits(tillTx[t], tillSales', tillShifts')
    <3>1. TillRequestFits(tillTx[t], tillSales, tillShifts)
      BY DEF TillInv, TillRequestsFit
    <3>2. tillTx[t].shift \in Till!Shifts \cup {Till!NoShift}
      BY DEF TillInv, TillTypes, TillRequests
    <3>3. Trading(tillTx[t].shift, tillShifts) => Trading(tillTx[t].shift, tillShifts')
      BY <1>4, <1>5, <3>2 DEF Trading
    <3> QED
      BY <1>0, <3>1, <3>3 DEF TillRequestFits
  <2> QED
    BY <1>0, <2>1, TillEnds
<1>7. TillTypes'
  BY <1>0, <1>2, <1>5, <1>6, ClaimedAreMovements DEF TillInv, TillTypes, Till!TypeOK
<1>8. OneIsOpen'
  BY <1>0, <1>5 DEF OneIsOpen, Till!OpenShifts
<1>9. SalesFit' /\ ReplyFits'
  BY <1>0 DEF TillInv, SalesFit, ReplyFits
<1>10. Till!SoldOnce' /\ Till!NothingForgotten'
  BY <1>0 DEF TillInv, Till!SoldOnce, Till!Stands, Till!NothingForgotten
<1> QED
  BY <1>0, <1>6, <1>7, <1>8, <1>9, <1>10, SameRows DEF TillInv

LEMMA TillCloseCommits ==
  ASSUME TillInv, NEW s \in Sessions, Till!CommitClose(s)
  PROVE  TillInv' /\ ReportsStand
<1> DEFINE k == tillTx[s].shift
<1>0. /\ tillTx[s].op = "close" /\ tillTx' = [tillTx EXCEPT ![s] = Till!Idle]
      /\ tillShifts' = [tillShifts EXCEPT ![k].status = "closed", ![k].expected = tillTx[s].amount]
      /\ UNCHANGED <<tillToday, tillRequired, tillMovements, tillSales, tillBin, tillPosted,
                     tillQueue, tillAnswers, tillReply>>
  BY DEF Till!CommitClose, Till!Ends
<1>1. k \in Till!Shifts /\ tillTx[s].amount \in Int
  BY <1>0 DEF TillInv, TillRequestsFit, TillRequestFits, TillTypes, TillRequests
<1> HIDE DEF k
<1>2. /\ tillShifts' \in [Till!Shifts -> Till!ShiftRows] /\ tillShifts'[k].status = "closed"
      /\ \A l \in Till!Shifts \ {k} : tillShifts'[l] = tillShifts[l]
  BY <1>0, <1>1 DEF TillInv, TillTypes, Till!TypeOK, Till!ShiftRows
<1>3. tillTx' \in [Sessions -> TillRequests] /\ TillRequestsFit' /\ TillTurns'
  <2>1. ASSUME NEW t \in Sessions \ {s}
        PROVE  TillRequestFits(tillTx[t], tillSales', tillShifts')
    <3>1. TillRequestFits(tillTx[t], tillSales, tillShifts)
      BY DEF TillInv, TillRequestsFit
    <3>2. tillTx[t].op \notin {"close", "complete", "sync"}
      BY <1>0 DEF TillInv, TillTurns, Till!Closing
    <3> QED
      BY <1>0, <3>1, <3>2 DEF TillRequestFits
  <2> QED
    BY <1>0, <2>1, TillEnds
<1>4. TillTypes'
  BY <1>0, <1>2, <1>3 DEF TillInv, TillTypes, Till!TypeOK
<1>5. OneIsOpen'
  BY <1>2 DEF TillInv, OneIsOpen
<1>6. SalesFit' /\ ReplyFits'
  BY <1>0 DEF TillInv, SalesFit, ReplyFits
<1>7. Till!SoldOnce' /\ Till!NothingForgotten'
  BY <1>0 DEF TillInv, Till!SoldOnce, Till!Stands, Till!NothingForgotten
<1> QED
  BY <1>0, <1>3, <1>4, <1>5, <1>6, <1>7, SameRows DEF TillInv

(* ----------------------------------- sales --------------------------------- *)

(* A basket that is not on the books changes.                                  *)
LEMMA BasketChangesFor ==
  ASSUME TillInv, NEW n \in Till!Sales, ~tillSales[n].entry,
         tillTx' \in [Sessions -> TillRequests], TillRequestsFit', TillTurns',
         tillSales' \in [Till!Sales -> Till!SaleRows],
         SaleFits(n, tillSales'[n]), ~tillSales'[n].entry,
         \A m \in Till!Sales \ {n} : tillSales'[m] = tillSales[m],
         UNCHANGED <<tillToday, tillRequired, tillShifts, tillMovements, tillBin, tillPosted,
                     tillQueue, tillAnswers, tillReply>>
  PROVE  TillInv' /\ ReportsStand
<1>1. TillTypes'
  BY DEF TillInv, TillTypes, Till!TypeOK
<1>2. SalesFit'
  BY DEF TillInv, SalesFit
<1>3. \A m \in Till!Sales : tillSales[m].entry => tillSales'[m] = tillSales[m]
  OBVIOUS
<1>4. ReplyFits'
  BY <1>3 DEF TillInv, ReplyFits, Told
<1>6. OneIsOpen'
  BY DEF TillInv, OneIsOpen
<1>7. Till!SoldOnce' /\ Till!NothingForgotten'
  <2>1. tillSales[n].status # "completed" /\ tillSales'[n].status # "completed"
    BY DEF TillInv, SalesFit, SaleFits
  <2>2. Till!Stands' = Till!Stands
    BY <2>1 DEF Till!Stands
  <2>3. Till!SoldOnce'
    BY <2>2 DEF TillInv, Till!SoldOnce
  <2>4. Till!NothingForgotten'
    BY <1>3 DEF TillInv, Till!NothingForgotten
  <2> QED
    BY <2>3, <2>4
<1>8. ReportsStand
  BY SameReport DEF ReportsStand, SameSales
<1> QED
  BY <1>1, <1>2, <1>4, <1>6, <1>7, <1>8 DEF TillInv

(* It changes while nobody is at it.                                           *)
LEMMA BasketChanges ==
  ASSUME TillInv, NEW n \in Till!Sales, ~tillSales[n].entry, \A s \in Sessions : tillTx[s].row # n,
         tillSales' \in [Till!Sales -> Till!SaleRows],
         SaleFits(n, tillSales'[n]), ~tillSales'[n].entry,
         \A m \in Till!Sales \ {n} : tillSales'[m] = tillSales[m],
         UNCHANGED <<tillToday, tillRequired, tillShifts, tillMovements, tillBin, tillPosted,
                     tillQueue, tillAnswers, tillReply, tillTx>>
  PROVE  TillInv' /\ ReportsStand
<1>1. \A m \in Till!Sales : tillSales[m].entry => tillSales'[m] = tillSales[m]
  OBVIOUS
<1>2. TillRequestsFit'
  <2> SUFFICES ASSUME NEW s \in Sessions PROVE TillRequestFits(tillTx[s], tillSales', tillShifts)
    BY DEF TillRequestsFit
  <2>1. TillRequestFits(tillTx[s], tillSales, tillShifts) /\ tillTx[s].row # n
    BY DEF TillInv, TillRequestsFit
  <2>2. tillTx[s].row \in Till!Sales => tillSales'[tillTx[s].row] = tillSales[tillTx[s].row]
    BY <2>1
  <2>3. Told(DOMAIN tillTx[s].outcomes, tillTx[s].outcomes, tillSales) =>
          Told(DOMAIN tillTx[s].outcomes, tillTx[s].outcomes, tillSales')
    BY <1>1 DEF Told
  <2> QED
    BY <2>1, <2>2, <2>3 DEF TillRequestFits
<1>3. TillTurns' /\ tillTx' \in [Sessions -> TillRequests]
  BY DEF TillInv, TillTurns, TillTypes
<1> QED
  BY <1>2, <1>3, BasketChangesFor

LEMMA TillOpensSale ==
  ASSUME TillInv, NEW n \in Till!Sales, Till!OpenSale(n) PROVE TillInv' /\ ReportsStand
<1> DEFINE row == [Till!NoSale EXCEPT !.status = "open", !.on = tillToday, !.shift = Till!CurrentShift]
<1>0. /\ tillSales[n].status = "absent" /\ tillSales' = [tillSales EXCEPT ![n] = row]
      /\ UNCHANGED <<tillToday, tillRequired, tillShifts, tillMovements, tillBin, tillPosted,
                     tillQueue, tillAnswers, tillReply, tillTx>>
  BY DEF Till!OpenSale
<1>1. tillToday \in Till!Days /\ Till!CurrentShift \in Till!Shifts \cup {Till!NoShift}
  BY CurrentShiftTrades DEF TillInv, TillTypes, Till!TypeOK
<1>2. /\ row \in Till!SaleRows /\ row.status = "open" /\ ~row.entry /\ row.units = 0
      /\ row.cash = 0 /\ row.card = 0
  BY <1>1 DEF Till!NoSale, Till!SaleRows
<1>3. SaleFits(n, row)
  <2> HIDE DEF row
  <2> QED
    BY <1>2 DEF SaleFits
<1> HIDE DEF row
<1>4. ~tillSales[n].entry
  BY <1>0 DEF TillInv, SalesFit, SaleFits
<1>5. \A s \in Sessions : tillTx[s].row # n
  BY <1>0, TillConstants DEF TillInv, TillRequestsFit, TillRequestFits
<1>6. /\ tillSales' \in [Till!Sales -> Till!SaleRows] /\ tillSales'[n] = row
      /\ \A m \in Till!Sales \ {n} : tillSales'[m] = tillSales[m]
  BY <1>0, <1>2 DEF TillInv, TillTypes, Till!TypeOK
<1> QED
  BY <1>0, <1>2, <1>3, <1>4, <1>5, <1>6, BasketChanges

LEMMA BasketIsOpen ==
  ASSUME TillInv, Serial = TRUE, NEW n \in Till!Sales, Till!Basket(n)
  PROVE  /\ tillSales[n] \in Till!SaleRows /\ tillSales[n].status = "open" /\ ~tillSales[n].entry
         /\ SaleFits(n, tillSales[n]) /\ \A s \in Sessions : tillTx[s].row # n
         /\ Units[n] \in Nat \ {0} /\ tillSales \in [Till!Sales -> Till!SaleRows]
BY TillConstants DEF TillInv, SalesFit, SaleFits, TillTypes, Till!TypeOK, Till!Basket

LEMMA TillScans ==
  ASSUME TillInv, Serial = TRUE, NEW n \in Till!Sales, Till!Scan(n) PROVE TillInv' /\ ReportsStand
<1>0. /\ Till!Basket(n) /\ tillSales[n].units = 0
      /\ tillSales' = [tillSales EXCEPT ![n].units = Units[n]]
      /\ UNCHANGED <<tillToday, tillRequired, tillShifts, tillMovements, tillBin, tillPosted,
                     tillQueue, tillAnswers, tillReply, tillTx>>
  BY DEF Till!Scan
<1>1. /\ tillSales' \in [Till!Sales -> Till!SaleRows]
      /\ tillSales'[n].units = Units[n] /\ tillSales'[n].cash = tillSales[n].cash
      /\ tillSales'[n].card = tillSales[n].card /\ tillSales'[n].status = "open"
      /\ tillSales'[n].entry = tillSales[n].entry
      /\ \A m \in Till!Sales \ {n} : tillSales'[m] = tillSales[m]
  BY <1>0, BasketIsOpen DEF Till!SaleRows
<1>2. SaleFits(n, tillSales'[n])
  BY <1>0, <1>1, BasketIsOpen DEF SaleFits, Till!SaleRows
<1>3. ~tillSales'[n].entry
  BY <1>0, <1>1, BasketIsOpen
<1> QED
  BY <1>0, <1>1, <1>2, <1>3, BasketIsOpen, BasketChanges

LEMMA TillLesser ==
  ASSUME NEW a \in Int, NEW b \in Int
  PROVE  Till!Min({a, b}) \in {a, b} /\ Till!Min({a, b}) <= a /\ Till!Min({a, b}) <= b
<1>1. \E n \in {a, b} : \A m \in {a, b} : n <= m
  <2>1. CASE a <= b
    BY <2>1
  <2>2. CASE b <= a
    BY <2>2
  <2> QED
    BY <2>1, <2>2
<1> QED
  BY <1>1 DEF Till!Min

LEMMA TillTakesCash ==
  ASSUME TillInv, Serial = TRUE, NEW n \in Till!Sales, NEW amount \in 1..MaxGiven,
         Till!TenderCash(n, amount)
  PROVE  TillInv' /\ ReportsStand
<1> DEFINE part == Till!Min({amount, Till!Outstanding(n)})
<1>0. /\ Till!Basket(n)
      /\ tillSales' = [tillSales EXCEPT ![n].given = @ + amount, ![n].cash = @ + part]
      /\ UNCHANGED <<tillToday, tillRequired, tillShifts, tillMovements, tillBin, tillPosted,
                     tillQueue, tillAnswers, tillReply, tillTx>>
  BY DEF Till!TenderCash
<1>1. /\ Till!Outstanding(n) = tillSales[n].units - tillSales[n].cash - tillSales[n].card
      /\ tillSales[n].units \in Nat /\ tillSales[n].cash \in Nat /\ tillSales[n].card \in Nat
      /\ tillSales[n].given \in Nat /\ amount \in Nat
      /\ tillSales[n].cash + tillSales[n].card <= tillSales[n].units
  BY <1>0, BasketIsOpen, TillConstants DEF Till!Outstanding, Till!Gross, Till!SaleRows, SaleFits
<1>2. Till!Outstanding(n) \in Nat
  BY <1>1
<1>3. part \in Nat /\ part <= Till!Outstanding(n)
  <2>1. PICK a \in Int, b \in Int : a = amount /\ b = Till!Outstanding(n) /\ a \in Nat /\ b \in Nat
    BY <1>1, <1>2
  <2>2. Till!Min({a, b}) \in {a, b} /\ Till!Min({a, b}) <= b
    BY TillLesser
  <2>3. part = Till!Min({a, b})
    BY <2>1
  <2> HIDE DEF part
  <2> QED
    BY <2>1, <2>2, <2>3
<1> HIDE DEF part
<1>4. /\ tillSales' \in [Till!Sales -> Till!SaleRows]
      /\ tillSales'[n].units = tillSales[n].units /\ tillSales'[n].cash = tillSales[n].cash + part
      /\ tillSales'[n].card = tillSales[n].card /\ tillSales'[n].status = "open"
      /\ tillSales'[n].entry = tillSales[n].entry
      /\ \A m \in Till!Sales \ {n} : tillSales'[m] = tillSales[m]
  BY <1>0, <1>1, <1>3, BasketIsOpen DEF Till!SaleRows
<1>5. SaleFits(n, tillSales'[n])
  BY <1>0, <1>1, <1>3, <1>4, BasketIsOpen DEF SaleFits
<1>6. ~tillSales'[n].entry
  BY <1>0, <1>4, BasketIsOpen
<1> QED
  BY <1>0, <1>4, <1>5, <1>6, BasketIsOpen, BasketChanges

LEMMA TillTakesCard ==
  ASSUME TillInv, Serial = TRUE, NEW n \in Till!Sales, NEW amount \in 1..MaxGiven,
         Till!TenderCard(n, amount)
  PROVE  TillInv' /\ ReportsStand
<1>0. /\ Till!Basket(n) /\ amount \in 1..Till!Outstanding(n)
      /\ tillSales' = [tillSales EXCEPT ![n].card = @ + amount]
      /\ UNCHANGED <<tillToday, tillRequired, tillShifts, tillMovements, tillBin, tillPosted,
                     tillQueue, tillAnswers, tillReply, tillTx>>
  BY DEF Till!TenderCard
<1>1. /\ Till!Outstanding(n) = tillSales[n].units - tillSales[n].cash - tillSales[n].card
      /\ tillSales[n].units \in Nat /\ tillSales[n].cash \in Nat /\ tillSales[n].card \in Nat
      /\ amount \in Nat
      /\ tillSales[n].cash + tillSales[n].card <= tillSales[n].units
  BY <1>0, BasketIsOpen, TillConstants DEF Till!Outstanding, Till!Gross, Till!SaleRows, SaleFits
<1>2. amount <= Till!Outstanding(n)
  BY <1>0, <1>1
<1>4. /\ tillSales' \in [Till!Sales -> Till!SaleRows]
      /\ tillSales'[n].units = tillSales[n].units /\ tillSales'[n].cash = tillSales[n].cash
      /\ tillSales'[n].card = tillSales[n].card + amount /\ tillSales'[n].status = "open"
      /\ tillSales'[n].entry = tillSales[n].entry
      /\ \A m \in Till!Sales \ {n} : tillSales'[m] = tillSales[m]
  BY <1>0, <1>1, BasketIsOpen DEF Till!SaleRows
<1>5. SaleFits(n, tillSales'[n])
  BY <1>0, <1>1, <1>2, <1>4, BasketIsOpen DEF SaleFits
<1>6. ~tillSales'[n].entry
  BY <1>0, <1>4, BasketIsOpen
<1> QED
  BY <1>0, <1>4, <1>5, <1>6, BasketIsOpen, BasketChanges

LEMMA TillCompleteBegins ==
  ASSUME TillInv, Serial = TRUE, NEW s \in Sessions, NEW n \in Till!Sales, Till!BeginComplete(s, n)
  PROVE  TillInv' /\ ReportsStand
<1> DEFINE q == [Till!Idle EXCEPT !.op = "complete", !.row = n, !.shift = Till!CurrentShift,
                                  !.amount = tillSales[n].units]
<1>1. Till!CurrentShift \in Till!Shifts \cup {Till!NoShift} /\ Trading(Till!CurrentShift, tillShifts)
  BY CurrentShiftTrades
<1>2. Till!Starts(s, q) /\ Till!Basket(n) /\ tillSales[n].units > 0
  BY DEF Till!BeginComplete
<1>3. tillSales[n].status = "open" /\ tillSales[n].units = Units[n] /\ Units[n] \in Int
  BY <1>2, BasketIsOpen DEF SaleFits
<1>4. q.op = "complete" /\ q.row = n /\ q.shift = Till!CurrentShift /\ q.amount = Units[n]
  BY <1>3 DEF Till!Idle
<1>5. q \in TillRequests
  BY <1>1, <1>3, TillIdle DEF TillRequests
<1> HIDE DEF q
<1>6. TillRequestFits(q, tillSales, tillShifts)
  BY <1>1, <1>3, <1>4 DEF TillRequestFits
<1> QED
  BY <1>2, <1>5, <1>6, TillBegins

LEMMA TillVoidBegins ==
  ASSUME TillInv, Serial = TRUE, NEW s \in Sessions, NEW n \in Till!Sales,
         Till!BeginVoid(s, n) \/ Till!BeginRefund(s, n)
  PROVE  TillInv' /\ ReportsStand
<1>1. CASE Till!BeginVoid(s, n)
  <2> DEFINE q == [Till!Idle EXCEPT !.op = "void", !.row = n]
  <2>1. Till!Starts(s, q) /\ tillSales[n].status = "open"
    BY <1>1 DEF Till!BeginVoid
  <2>2. q \in TillRequests
    BY TillIdle DEF TillRequests
  <2>3. q.op = "void" /\ q.row = n
    BY DEF Till!Idle
  <2> HIDE DEF q
  <2>4. TillRequestFits(q, tillSales, tillShifts)
    BY <2>1, <2>3 DEF TillRequestFits
  <2> QED
    BY <2>1, <2>2, <2>4, TillBegins
<1>2. CASE Till!BeginRefund(s, n)
  <2> DEFINE q == [Till!Idle EXCEPT !.op = "refund", !.row = n, !.amount = tillSales[n].units]
  <2>1. Till!Starts(s, q) /\ tillSales[n].status = "completed"
    BY <1>2 DEF Till!BeginRefund
  <2>2. tillSales[n].units = Units[n] /\ Units[n] \in Int
    BY <2>1, TillConstants DEF TillInv, SalesFit, SaleFits
  <2>3. q \in TillRequests
    BY <2>2, TillIdle DEF TillRequests
  <2>4. q.op = "refund" /\ q.row = n /\ q.amount = Units[n]
    BY <2>2 DEF Till!Idle
  <2> HIDE DEF q
  <2>5. TillRequestFits(q, tillSales, tillShifts)
    BY <2>1, <2>4 DEF TillRequestFits
  <2> QED
    BY <2>1, <2>3, <2>5, TillBegins
<1> QED
  BY <1>1, <1>2

(* A sale of another session's request is none that is written here.           *)
LEMMA OthersKeepTheirRow ==
  ASSUME TillInv, NEW s \in Sessions, tillTx[s].row \in Till!Sales, NEW t \in Sessions \ {s},
         \A m \in Till!Sales \ {tillTx[s].row} : tillSales'[m] = tillSales[m],
         \A m \in Till!Sales : tillSales[m].entry => tillSales'[m].entry, UNCHANGED tillShifts
  PROVE  TillRequestFits(tillTx[t], tillSales', tillShifts')
<1>1. TillRequestFits(tillTx[t], tillSales, tillShifts)
  BY DEF TillInv, TillRequestsFit
<1>3. tillTx[t].row # tillTx[s].row
  BY TillConstants DEF TillInv, TillTurns
<1>4. Told(DOMAIN tillTx[t].outcomes, tillTx[t].outcomes, tillSales) =>
        Told(DOMAIN tillTx[t].outcomes, tillTx[t].outcomes, tillSales')
  BY DEF Told
<1>5. tillTx[t].row \in Till!Sales => tillSales'[tillTx[t].row] = tillSales[tillTx[t].row]
  BY <1>3
<1> QED
  BY <1>1, <1>4, <1>5 DEF TillRequestFits

LEMMA TillVoidCommits ==
  ASSUME TillInv, NEW s \in Sessions, Till!CommitVoid(s) PROVE TillInv' /\ ReportsStand
<1> DEFINE n == tillTx[s].row
<1>0. /\ tillTx[s].op = "void" /\ tillTx' = [tillTx EXCEPT ![s] = Till!Idle]
      /\ tillSales' = [tillSales EXCEPT ![n].status = "void"]
      /\ UNCHANGED <<tillToday, tillRequired, tillShifts, tillMovements, tillBin, tillPosted,
                     tillQueue, tillAnswers, tillReply>>
  BY DEF Till!CommitVoid, Till!Ends
<1>1. n \in Till!Sales /\ tillSales[n].status = "open"
  BY <1>0 DEF TillInv, TillRequestsFit, TillRequestFits
<1>2. /\ tillSales[n] \in Till!SaleRows /\ ~tillSales[n].entry /\ SaleFits(n, tillSales[n])
      /\ tillSales \in [Till!Sales -> Till!SaleRows]
  BY <1>1 DEF TillInv, SalesFit, SaleFits, TillTypes, Till!TypeOK
<1>3. /\ tillSales' \in [Till!Sales -> Till!SaleRows]
      /\ tillSales'[n].units = tillSales[n].units /\ tillSales'[n].cash = tillSales[n].cash
      /\ tillSales'[n].card = tillSales[n].card /\ tillSales'[n].status = "void"
      /\ tillSales'[n].entry = tillSales[n].entry
      /\ \A m \in Till!Sales \ {n} : tillSales'[m] = tillSales[m]
  BY <1>0, <1>1, <1>2 DEF Till!SaleRows
<1>4. SaleFits(n, tillSales'[n]) /\ ~tillSales'[n].entry
  BY <1>2, <1>3 DEF SaleFits
<1>5. \A m \in Till!Sales : tillSales[m].entry => tillSales'[m].entry
  BY <1>2, <1>3
<1>6. \A t \in Sessions \ {s} : TillRequestFits(tillTx[t], tillSales', tillShifts')
  BY <1>0, <1>1, <1>3, <1>5, OthersKeepTheirRow
<1>7. tillTx' \in [Sessions -> TillRequests] /\ TillRequestsFit' /\ TillTurns'
  BY <1>0, <1>6, TillEnds
<1> HIDE DEF n
<1> QED
  BY <1>0, <1>1, <1>2, <1>3, <1>4, <1>7, BasketChangesFor

LEMMA TillCompleteCommits ==
  ASSUME TillInv, NEW s \in Sessions, Till!CommitComplete(s)
  PROVE  TillInv' /\ ReportsStand
<1> DEFINE n == tillTx[s].row
           k == tillTx[s].shift
<1>0. /\ tillTx[s].op = "complete" /\ tillTx' = [tillTx EXCEPT ![s] = Till!Idle]
      /\ tillBin >= tillTx[s].amount /\ tillBin' = tillBin - tillTx[s].amount
      /\ tillPosted' = [tillPosted EXCEPT ![n] = @ + 1]
      /\ tillSales' = [tillSales EXCEPT ![n].status = "completed", ![n].entry = TRUE, ![n].shift = k]
      /\ UNCHANGED <<tillToday, tillRequired, tillShifts, tillMovements, tillQueue, tillAnswers,
                     tillReply>>
  BY DEF Till!CommitComplete, Till!Ends, Till!StampedShift
<1>1. /\ n \in Till!Sales /\ tillSales[n].status = "open" /\ tillSales[n].units = Units[n]
      /\ tillTx[s].amount = Units[n]
      /\ Trading(k, tillShifts) /\ k \in Till!Shifts \cup {Till!NoShift}
  BY <1>0 DEF TillInv, TillRequestsFit, TillRequestFits, TillTypes, TillRequests
<1>2. SaleFits(n, tillSales[n]) /\ ~tillSales[n].entry /\ Units[n] \in Nat
  BY <1>1, TillConstants DEF TillInv, SalesFit, SaleFits
<1>3. \A t \in Sessions \ {s} :
        (\A m \in Till!Sales \ {n} : tillSales'[m] = tillSales[m])
        /\ (\A m \in Till!Sales : tillSales[m].entry => tillSales'[m].entry)
          => TillRequestFits(tillTx[t], tillSales', tillShifts')
  BY <1>0, <1>1, OthersKeepTheirRow
<1> HIDE DEF n, k
<1>4. /\ tillSales' \in [Till!Sales -> Till!SaleRows]
      /\ tillSales'[n].units = tillSales[n].units /\ tillSales'[n].cash = tillSales[n].cash
      /\ tillSales'[n].card = tillSales[n].card /\ tillSales'[n].status = "completed"
      /\ tillSales'[n].entry /\ tillSales'[n].shift = k
      /\ \A m \in Till!Sales \ {n} : tillSales'[m] = tillSales[m]
  <2>1. tillSales \in [Till!Sales -> Till!SaleRows]
    BY DEF TillInv, TillTypes, Till!TypeOK
  <2>2. \A m \in Till!Sales \ {n} : tillSales'[m] = tillSales[m]
    BY <1>0, <2>1
  <2>3. tillSales' \in [Till!Sales -> Till!SaleRows]
    <3> DEFINE row == [tillSales[n] EXCEPT !.status = "completed", !.entry = TRUE, !.shift = k]
    <3>1. k \in Till!Shifts \cup {Till!NoShift} /\ tillSales[n] \in Till!SaleRows
      BY <1>1, <2>1
    <3>2. row \in Till!SaleRows
      BY <3>1 DEF Till!SaleRows
    <3>3. tillSales' = [tillSales EXCEPT ![n] = row]
      BY <1>0, <1>1, <2>1
    <3> HIDE DEF row
    <3> QED
      BY <2>1, <3>2, <3>3
  <2>4. /\ tillSales'[n].units = tillSales[n].units /\ tillSales'[n].cash = tillSales[n].cash
        /\ tillSales'[n].card = tillSales[n].card /\ tillSales'[n].status = "completed"
        /\ tillSales'[n].entry /\ tillSales'[n].shift = k
    BY <1>0, <1>1, <2>1 DEF Till!SaleRows
  <2> QED
    BY <2>2, <2>3, <2>4
<1>5. tillTx' \in [Sessions -> TillRequests] /\ TillRequestsFit' /\ TillTurns'
  BY <1>0, <1>2, <1>3, <1>4, TillEnds
<1>6. tillBin' \in Nat /\ tillPosted' \in [Till!Sales -> Int]
  BY <1>0, <1>1, <1>2 DEF TillInv, TillTypes, Till!TypeOK
<1>7. TillTypes'
  BY <1>0, <1>4, <1>5, <1>6 DEF TillInv, TillTypes, Till!TypeOK
<1>8. SalesFit'
  <2>1. SaleFits(n, tillSales'[n])
    BY <1>1, <1>2, <1>4 DEF SaleFits
  <2> QED
    BY <1>4, <2>1 DEF TillInv, SalesFit
<1>9. \A m \in Till!Sales : tillSales[m].entry => tillSales'[m] = tillSales[m]
  BY <1>2, <1>4
<1>10. ReplyFits'
  BY <1>0, <1>9 DEF TillInv, ReplyFits, Told
<1>11. OneIsOpen' /\ Till!NothingForgotten'
  BY <1>0, <1>9 DEF TillInv, OneIsOpen, Till!NothingForgotten
<1>12. Till!SoldOnce'
  <2>1. Till!Stands' = Till!Stands \cup {n} /\ n \notin Till!Stands /\ Till!Stands \subseteq Till!Sales
    BY <1>1, <1>4 DEF Till!Stands
  <2>2. Till!Goods(Till!Stands \cup {n}) = Till!Goods(Till!Stands) + Till!Goods({n})
    <3>1. {n} \in SUBSET Till!Sales /\ Till!Stands \in SUBSET Till!Sales /\ Till!Stands \cap {n} = {}
      BY <1>1, <2>1
    <3> QED
      BY ONLY <3>1, GoodsOfBoth
  <2>3. Till!Goods({n}) = Units[n]
    BY <1>1, GoodsOfOne
  <2>4. Till!Goods(Till!Stands) \in Nat
    BY <2>1, GoodsAreCounted
  <2>5. tillBin' = Shelved - Till!Goods(Till!Stands')
    BY <1>0, <1>1, <1>2, <2>1, <2>2, <2>3, <2>4, TillConstants DEF TillInv, Till!SoldOnce
  <2>6. \A m \in Till!Sales : tillPosted'[m] = IF m \in Till!Stands' THEN 1 ELSE 0
    BY <1>0, <1>1, <2>1 DEF TillInv, TillTypes, Till!TypeOK, Till!SoldOnce
  <2> QED
    BY <2>5, <2>6 DEF Till!SoldOnce
<1>13. ReportsStand
  <2> SUFFICES ASSUME NEW l \in Till!Shifts, tillShifts[l].status = "closed" PROVE SameSales(l)
    BY SameReport DEF ReportsStand
  <2>1. l # k
    BY <1>1, TillConstants DEF Trading, Till!Shifts, Till!NoShift
  <2> QED
    BY <1>2, <1>4, <2>1 DEF SameSales
<1> QED
  BY <1>5, <1>7, <1>8, <1>10, <1>11, <1>12, <1>13 DEF TillInv

LEMMA TillRefunds ==
  ASSUME TillInv, NEW s \in Sessions, Till!CommitRefund(s) PROVE TillInv' /\ ReportsStand
<1> DEFINE n == tillTx[s].row
<1>a. /\ tillTx[s].op = "refund" /\ tillTx' = [tillTx EXCEPT ![s] = Till!Idle]
      /\ tillSales' = [tillSales EXCEPT ![n].status = "void", ![n].reversed = tillToday]
      /\ tillBin' = tillBin + tillTx[s].amount /\ tillPosted' = [tillPosted EXCEPT ![n] = @ - 1]
      /\ UNCHANGED <<tillToday, tillRequired, tillShifts, tillMovements, tillQueue, tillAnswers,
                     tillReply>>
  BY DEF Till!CommitRefund, Till!Ends
<1>b. n \in Till!Sales /\ tillSales[n].status = "completed" /\ tillTx[s].amount = Units[n]
  BY <1>a DEF TillInv, TillRequestsFit, TillRequestFits
<1>0. /\ n \in Till!Sales /\ tillSales[n].status = "completed"
      /\ tillSales' = [tillSales EXCEPT ![n].status = "void", ![n].reversed = tillToday]
      /\ tillBin' = tillBin + Units[n] /\ tillPosted' = [tillPosted EXCEPT ![n] = @ - 1]
      /\ UNCHANGED <<tillToday, tillRequired, tillShifts, tillMovements, tillQueue, tillAnswers,
                     tillReply>>
  BY <1>a, <1>b
<1>1. SaleFits(n, tillSales[n]) /\ tillSales[n].units = Units[n] /\ Units[n] \in Nat
  BY <1>0, TillConstants DEF TillInv, SalesFit, SaleFits
<1>c. \A t \in Sessions \ {s} :
        (\A m \in Till!Sales \ {n} : tillSales'[m] = tillSales[m])
        /\ (\A m \in Till!Sales : tillSales[m].entry => tillSales'[m].entry)
          => TillRequestFits(tillTx[t], tillSales', tillShifts')
  BY <1>0, OthersKeepTheirRow
<1> HIDE DEF n
<1>2. /\ tillSales' \in [Till!Sales -> Till!SaleRows]
      /\ tillSales'[n].units = tillSales[n].units /\ tillSales'[n].cash = tillSales[n].cash
      /\ tillSales'[n].card = tillSales[n].card /\ tillSales'[n].given = tillSales[n].given
      /\ tillSales'[n].status = "void"
      /\ tillSales'[n].entry = tillSales[n].entry /\ tillSales'[n].shift = tillSales[n].shift
      /\ \A m \in Till!Sales \ {n} : tillSales'[m] = tillSales[m]
  <2>1. tillSales \in [Till!Sales -> Till!SaleRows] /\ tillToday \in Till!Days
    BY DEF TillInv, TillTypes, Till!TypeOK
  <2>2. \A m \in Till!Sales \ {n} : tillSales'[m] = tillSales[m]
    BY <1>0, <2>1
  <2>3. tillSales' \in [Till!Sales -> Till!SaleRows]
    <3> DEFINE row == [tillSales[n] EXCEPT !.status = "void", !.reversed = tillToday]
    <3>1. tillSales' = [tillSales EXCEPT ![n] = row]
      BY <1>0
    <3>2. tillSales[n] \in Till!SaleRows /\ tillToday \in Till!Days \cup {0}
      BY <1>0, <2>1
    <3>3. row \in Till!SaleRows
      BY <3>2 DEF Till!SaleRows
    <3> HIDE DEF row
    <3> QED
      BY <2>1, <3>1, <3>3
  <2>4. /\ tillSales'[n].units = tillSales[n].units /\ tillSales'[n].cash = tillSales[n].cash
        /\ tillSales'[n].card = tillSales[n].card /\ tillSales'[n].given = tillSales[n].given
        /\ tillSales'[n].status = "void"
        /\ tillSales'[n].entry = tillSales[n].entry /\ tillSales'[n].shift = tillSales[n].shift
    BY <1>0, <2>1 DEF Till!SaleRows
  <2> QED
    BY <2>2, <2>3, <2>4
<1>3. tillBin' \in Nat /\ tillPosted' \in [Till!Sales -> Int]
  BY <1>0, <1>1 DEF TillInv, TillTypes, Till!TypeOK
<1>5. SalesFit'
  <2>1. SaleFits(n, tillSales'[n])
    BY <1>1, <1>2 DEF SaleFits
  <2> QED
    BY <1>2, <2>1 DEF TillInv, SalesFit
<1>6. \A m \in Till!Sales : tillSales'[m].entry = tillSales[m].entry
  BY <1>2
<1>7. ReplyFits'
  BY <1>0, <1>6 DEF TillInv, ReplyFits, Told
<1>8. tillTx' \in [Sessions -> TillRequests] /\ TillRequestsFit' /\ TillTurns'
  BY <1>a, <1>c, <1>2, <1>6, TillEnds
<1>9. OneIsOpen' /\ Till!NothingForgotten'
  BY <1>0, <1>6 DEF TillInv, OneIsOpen, Till!NothingForgotten
<1>4. TillTypes'
  BY <1>0, <1>2, <1>3, <1>8 DEF TillInv, TillTypes, Till!TypeOK
<1>10. Till!SoldOnce'
  <2>1. /\ Till!Stands = Till!Stands' \cup {n} /\ n \notin Till!Stands'
        /\ Till!Stands' \subseteq Till!Sales
    BY <1>0, <1>2 DEF Till!Stands
  <2>2. PICK S : S = Till!Stands'
    OBVIOUS
  <2>3. Till!Goods(S \cup {n}) = Till!Goods(S) + Till!Goods({n})
    <3>1. {n} \in SUBSET Till!Sales /\ S \in SUBSET Till!Sales /\ S \cap {n} = {}
      BY <1>0, <2>1, <2>2
    <3> QED
      BY ONLY <3>1, GoodsOfBoth
  <2>4. Till!Goods({n}) = Units[n]
    BY <1>0, GoodsOfOne
  <2>5. Till!Goods(S) \in Nat
    BY <2>1, <2>2, GoodsAreCounted
  <2>6. tillBin' = Shelved - Till!Goods(S)
    BY <1>0, <1>1, <2>1, <2>2, <2>3, <2>4, <2>5, TillConstants DEF TillInv, Till!SoldOnce
  <2>7. \A m \in Till!Sales : tillPosted'[m] = IF m \in S THEN 1 ELSE 0
    BY <1>0, <2>1, <2>2 DEF TillInv, TillTypes, Till!TypeOK, Till!SoldOnce
  <2> QED
    BY <2>2, <2>6, <2>7 DEF Till!SoldOnce
<1>11. ReportsStand
  BY <1>2, SameReport DEF ReportsStand, SameSales
<1> QED
  BY <1>4, <1>5, <1>7, <1>8, <1>9, <1>10, <1>11 DEF TillInv

(* ----------------------------- without a network --------------------------- *)

LEMMA OutcomesAreTold ==
  ASSUME TillInv
  PROVE  Told(tillQueue, Till!OutcomesOf(tillQueue), tillSales)
<1>1. tillQueue \subseteq Till!Sales
  BY DEF TillInv, TillTypes, Till!TypeOK
<1>2. /\ Till!OutcomesOf(tillQueue) \in [tillQueue -> Till!Outcomes]
      /\ \A n \in tillQueue :
           Till!OutcomesOf(tillQueue)[n] = "duplicate" => tillSales[n].status = "completed"
  BY DEF Till!OutcomesOf, Till!Outcomes
<1>3. \A n \in tillQueue : tillSales[n].status = "completed" => tillSales[n].entry
  BY <1>1 DEF TillInv, SalesFit, SaleFits
<1> QED
  BY <1>1, <1>2, <1>3 DEF Told

LEMMA TillSyncBegins ==
  ASSUME TillInv, Serial = TRUE, NEW s \in Sessions, Till!BeginSync(s)
  PROVE  TillInv' /\ ReportsStand
<1> DEFINE o == Till!OutcomesOf(tillQueue)
           q == [Till!Idle EXCEPT !.op = "sync", !.shift = Till!CurrentShift, !.outcomes = o]
<1>1. Till!CurrentShift \in Till!Shifts \cup {Till!NoShift} /\ Trading(Till!CurrentShift, tillShifts)
  BY CurrentShiftTrades
<1>2. Till!Starts(s, q)
  BY DEF Till!BeginSync
<1>3. Told(tillQueue, o, tillSales)
  BY OutcomesAreTold
<1> HIDE DEF o
<1>4. DOMAIN o = tillQueue /\ o \in TillAnswers
  BY <1>3 DEF Told, TillAnswers
<1>5. q.op = "sync" /\ q.row = 0 /\ q.shift = Till!CurrentShift /\ q.outcomes = o
  BY DEF Till!Idle
<1>6. q \in TillRequests
  BY <1>1, <1>4, TillIdle DEF TillRequests
<1> HIDE DEF q
<1>7. TillRequestFits(q, tillSales, tillShifts)
  BY <1>1, <1>3, <1>4, <1>5 DEF TillRequestFits
<1> QED
  BY <1>2, <1>6, <1>7, TillBegins

(* What the terminal hears is on the books, if it is told so for good.         *)
LEMMA HearingForgetsNothing ==
  ASSUME TillInv, NEW run, NEW outcomes, Till!Hear(outcomes), Told(run, outcomes, tillSales'),
         \A n \in run : outcomes[n] = "accepted" => tillSales'[n].entry,
         \A n \in Till!Sales : tillSales[n].entry => tillSales'[n].entry
  PROVE  /\ tillAnswers' \in [Till!Sales -> Till!Outcomes \cup {Till!None, "failed"}]
         /\ tillQueue' \subseteq Till!Sales /\ Till!NothingForgotten'
<1>1. /\ tillAnswers' = [n \in Till!Sales |-> IF n \in run THEN outcomes[n] ELSE tillAnswers[n]]
      /\ tillQueue' \subseteq tillQueue
      /\ outcomes \in [run -> Till!Outcomes] /\ run \subseteq Till!Sales
  BY DEF Till!Hear, Told
<1>2. /\ tillAnswers \in [Till!Sales -> Till!Outcomes \cup {Till!None, "failed"}]
      /\ tillQueue \subseteq Till!Sales
  BY DEF TillInv, TillTypes, Till!TypeOK
<1>3. tillAnswers' \in [Till!Sales -> Till!Outcomes \cup {Till!None, "failed"}]
  BY <1>1, <1>2
<1>4. Till!NothingForgotten'
  <2> SUFFICES ASSUME NEW n \in Till!Sales, tillAnswers'[n] \in {"accepted", "duplicate"}
               PROVE  tillSales'[n].entry
    BY DEF Till!NothingForgotten
  <2>1. CASE n \in run
    BY <1>1, <2>1 DEF Told
  <2>2. CASE n \notin run
    BY <1>1, <2>2 DEF TillInv, Till!NothingForgotten
  <2> QED
    BY <2>1, <2>2
<1> QED
  BY <1>1, <1>2, <1>3, <1>4

LEMMA TillSyncCommits ==
  ASSUME TillInv, NEW s \in Sessions, NEW heard \in BOOLEAN, Till!CommitSync(s, heard)
  PROVE  TillInv' /\ ReportsStand
<1> DEFINE o == tillTx[s].outcomes
           k == tillTx[s].shift
           N == Till!New(s)
           Row(n) == [status |-> "completed", on |-> tillToday, shift |-> k, units |-> Units[n],
                      given |-> Units[n], cash |-> Units[n], card |-> 0, entry |-> TRUE,
                      reversed |-> 0]
           reply == [run |-> DOMAIN o, outcomes |-> o]
<1>0. /\ tillTx[s].op = "sync" /\ tillTx' = [tillTx EXCEPT ![s] = Till!Idle]
      /\ \A n \in N : tillSales[n].status = "absent"
      /\ Till!Goods(N) <= tillBin /\ tillBin' = tillBin - Till!Goods(N)
      /\ tillSales' = [n \in Till!Sales |-> IF n \in N THEN Row(n) ELSE tillSales[n]]
      /\ tillPosted' = [n \in Till!Sales |-> tillPosted[n] + IF n \in N THEN 1 ELSE 0]
      /\ tillReply' = reply
      /\ IF heard THEN Till!Hear(o) ELSE UNCHANGED <<tillQueue, tillAnswers>>
      /\ UNCHANGED <<tillToday, tillRequired, tillShifts, tillMovements>>
  BY DEF Till!CommitSync, Till!Ends
<1>1. Told(DOMAIN o, o, tillSales) /\ Trading(k, tillShifts)
  BY <1>0 DEF TillInv, TillRequestsFit, TillRequestFits
<1>2. /\ k \in Till!Shifts \cup {Till!NoShift} /\ tillToday \in Till!Days
      /\ tillSales \in [Till!Sales -> Till!SaleRows]
      /\ tillPosted \in [Till!Sales -> Int] /\ tillBin \in Nat
  BY DEF TillInv, TillTypes, TillRequests, Till!TypeOK
<1>3. N = {n \in DOMAIN o : o[n] = "accepted"}
  BY DEF Till!New
<1>4. /\ N \subseteq DOMAIN o /\ N \subseteq Till!Sales /\ DOMAIN o \subseteq Till!Sales
      /\ \A n \in DOMAIN o : o[n] = "accepted" => n \in N
  BY <1>1, <1>3 DEF Told
<1> HIDE DEF N, o, k
<1>5. \A n \in N : /\ Row(n) \in Till!SaleRows /\ Row(n).units = Units[n]
                     /\ Row(n).cash = Units[n] /\ Row(n).card = 0
                     /\ Row(n).status = "completed" /\ Row(n).entry /\ Row(n).shift = k
  <2> SUFFICES ASSUME NEW n \in N
               PROVE  /\ Row(n) \in Till!SaleRows /\ Row(n).units = Units[n]
                      /\ Row(n).cash = Units[n] /\ Row(n).card = 0
                      /\ Row(n).status = "completed" /\ Row(n).entry /\ Row(n).shift = k
    OBVIOUS
  <2>1. Units[n] \in Nat
    BY <1>4, TillConstants
  <2> QED
    BY <1>2, <2>1 DEF Till!SaleRows
<1>6. DOMAIN o \in SUBSET Till!Sales /\ o \in TillAnswers
  BY <1>1, <1>4 DEF Told, TillAnswers
<1>7. reply \in TillReplies /\ reply.run = DOMAIN o /\ reply.outcomes = o
  BY <1>6 DEF TillReplies
<1> HIDE DEF Row, reply
<1>8. /\ tillSales' \in [Till!Sales -> Till!SaleRows]
      /\ \A n \in N : tillSales'[n] = Row(n)
      /\ \A n \in Till!Sales \ N : tillSales'[n] = tillSales[n]
  BY <1>0, <1>2, <1>4, <1>5
<1>9. \A n \in N : ~tillSales[n].entry
  BY <1>0, <1>4 DEF TillInv, SalesFit, SaleFits
<1>10. \A n \in Till!Sales : tillSales[n].entry => tillSales'[n] = tillSales[n]
  BY <1>8, <1>9
<1>11. tillTx' \in [Sessions -> TillRequests] /\ TillRequestsFit' /\ TillTurns'
  <2>1. ASSUME NEW t \in Sessions \ {s}
        PROVE  TillRequestFits(tillTx[t], tillSales', tillShifts')
    <3>1. TillRequestFits(tillTx[t], tillSales, tillShifts)
      BY DEF TillInv, TillRequestsFit
    <3>2. tillTx[t].op \in {"complete", "void", "refund"} =>
            tillSales'[tillTx[t].row] = tillSales[tillTx[t].row]
      BY <1>0, <1>8, <3>1 DEF TillRequestFits
    <3>3. Told(DOMAIN tillTx[t].outcomes, tillTx[t].outcomes, tillSales) =>
            Told(DOMAIN tillTx[t].outcomes, tillTx[t].outcomes, tillSales')
      BY <1>10 DEF Told
    <3> QED
      BY <1>0, <3>1, <3>2, <3>3 DEF TillRequestFits
  <2> QED
    BY <1>0, <2>1, TillEnds
<1>12. /\ Told(DOMAIN o, o, tillSales')
       /\ \A n \in DOMAIN o : o[n] = "accepted" => tillSales'[n].entry
  BY <1>1, <1>4, <1>5, <1>8, <1>10 DEF Told
<1>13. /\ tillAnswers' \in [Till!Sales -> Till!Outcomes \cup {Till!None, "failed"}]
       /\ tillQueue' \subseteq Till!Sales /\ Till!NothingForgotten'
  <2>1. CASE heard
    <3>1. Till!Hear(o)
      BY <1>0, <2>1
    <3> QED
      BY <1>10, <1>12, <3>1, HearingForgetsNothing
  <2>2. CASE ~heard
    BY <1>0, <1>10, <2>2 DEF TillInv, TillTypes, Till!TypeOK, Till!NothingForgotten
  <2> QED
    BY <2>1, <2>2
<1>14. N \in SUBSET Till!Sales /\ Till!Goods(N) \in Nat
  BY <1>4, GoodsAreCounted
<1>15. TillTypes'
  <2>1. tillBin' \in Nat
    BY <1>0, <1>2, <1>14
  <2>2. tillPosted' \in [Till!Sales -> Int]
    BY <1>0, <1>2
  <2>3. tillReply'.run \subseteq Till!Sales
    BY <1>0, <1>4, <1>7
  <2>4. Till!TypeOK'
    BY <1>0, <1>8, <1>13, <2>1, <2>2, <2>3 DEF TillInv, TillTypes, Till!TypeOK
  <2> QED
    BY <1>0, <1>7, <1>11, <2>4 DEF TillInv, TillTypes
<1>16. SalesFit'
  <2> SUFFICES ASSUME NEW n \in Till!Sales PROVE SaleFits(n, tillSales'[n])
    BY DEF SalesFit
  <2>1. CASE n \in N
    BY <1>5, <1>8, <2>1, TillConstants DEF SaleFits
  <2>2. CASE n \notin N
    BY <1>8, <2>2 DEF TillInv, SalesFit
  <2> QED
    BY <2>1, <2>2
<1>17. ReplyFits'
  BY <1>0, <1>7, <1>12 DEF ReplyFits
<1>18. OneIsOpen'
  BY <1>0 DEF TillInv, OneIsOpen
<1>19. Till!SoldOnce'
  <2>1. Till!Stands' = Till!Stands \cup N /\ Till!Stands \cap N = {} /\ Till!Stands \subseteq Till!Sales
    BY <1>0, <1>4, <1>5, <1>8 DEF Till!Stands
  <2>2. Till!Goods(Till!Stands \cup N) = Till!Goods(Till!Stands) + Till!Goods(N)
    <3>1. Till!Stands \in SUBSET Till!Sales
      BY <2>1
    <3> QED
      BY ONLY <1>14, <2>1, <3>1, GoodsOfBoth
  <2>3. Till!Goods(Till!Stands) \in Nat
    BY <2>1, GoodsAreCounted
  <2>4. tillBin = Shelved - Till!Goods(Till!Stands)
    BY DEF TillInv, Till!SoldOnce
  <2>5. tillBin' = Shelved - Till!Goods(Till!Stands')
    BY <1>0, <1>2, <1>14, <2>1, <2>2, <2>3, <2>4, TillConstants
  <2>6. \A m \in Till!Sales : tillPosted[m] = IF m \in Till!Stands THEN 1 ELSE 0
    BY DEF TillInv, Till!SoldOnce
  <2>7. \A m \in Till!Sales : tillPosted'[m] = IF m \in Till!Stands' THEN 1 ELSE 0
    BY <1>0, <2>1, <2>6
  <2> QED
    BY <2>5, <2>7 DEF Till!SoldOnce
<1>20. ReportsStand
  <2> SUFFICES ASSUME NEW l \in Till!Shifts, tillShifts[l].status = "closed" PROVE SameSales(l)
    BY SameReport DEF ReportsStand
  <2>1. l # k
    BY <1>1, TillConstants DEF Trading, Till!Shifts, Till!NoShift
  <2> QED
    BY <1>5, <1>8, <1>9, <2>1 DEF SameSales
<1> QED
  BY <1>11, <1>13, <1>15, <1>16, <1>17, <1>18, <1>19, <1>20 DEF TillInv

(* Nothing is sold, nor is a request under way.                                *)
LEMMA TillQuiet ==
  ASSUME TillInv, Till!TypeOK', IsFiniteSet(tillMovements'), tillReply' \in TillReplies, ReplyFits',
         Till!NothingForgotten',
         UNCHANGED <<tillShifts, tillSales, tillBin, tillPosted, tillTx>>
  PROVE  TillInv' /\ ReportsStand
<1>1. TillTypes'
  BY DEF TillInv, TillTypes
<1>2. SalesFit' /\ TillRequestsFit' /\ TillTurns' /\ OneIsOpen'
  BY DEF TillInv, SalesFit, TillRequestsFit, TillTurns, OneIsOpen
<1>3. Till!SoldOnce'
  BY DEF TillInv, Till!SoldOnce, Till!Stands
<1> QED
  BY <1>1, <1>2, <1>3, SameRows DEF TillInv

LEMMA TillReplays == ASSUME TillInv, Till!Replay PROVE TillInv' /\ ReportsStand
<1>0. /\ tillQueue # {} /\ tillReply.run = tillQueue /\ Till!Hear(tillReply.outcomes)
      /\ tillReply' = Till!NoReply
      /\ UNCHANGED <<tillToday, tillRequired, tillShifts, tillMovements, tillSales, tillBin,
                     tillPosted, tillTx>>
  BY DEF Till!Replay
<1>1. /\ Told(tillReply.run, tillReply.outcomes, tillSales)
      /\ \A n \in tillReply.run : tillReply.outcomes[n] = "accepted" => tillSales[n].entry
  BY <1>0 DEF TillInv, ReplyFits
<1>2. /\ tillAnswers' \in [Till!Sales -> Till!Outcomes \cup {Till!None, "failed"}]
      /\ tillQueue' \subseteq Till!Sales /\ Till!NothingForgotten'
  <2>1. PICK run, outcomes : run = tillReply.run /\ outcomes = tillReply.outcomes
    OBVIOUS
  <2>2. Till!Hear(outcomes) /\ Told(run, outcomes, tillSales')
    BY <1>0, <1>1, <2>1
  <2> QED
    BY <1>0, <1>1, <2>1, <2>2, HearingForgetsNothing
<1>3. Till!TypeOK'
  BY <1>0, <1>2, TillIdle DEF TillInv, TillTypes, Till!TypeOK
<1>4. ReplyFits'
  BY <1>0, TillIdle DEF ReplyFits
<1> QED
  BY <1>0, <1>2, <1>3, <1>4, TillIdle, TillQuiet DEF TillInv, TillTypes

LEMMA TillRings ==
  ASSUME TillInv, NEW n \in Till!Sales, Till!RingOffline(n) PROVE TillInv' /\ ReportsStand
<1>0. /\ tillQueue' = tillQueue \cup {n}
      /\ UNCHANGED <<tillToday, tillRequired, tillShifts, tillMovements, tillSales, tillBin,
                     tillPosted, tillAnswers, tillReply, tillTx>>
  BY DEF Till!RingOffline
<1>1. Till!TypeOK' /\ IsFiniteSet(tillMovements') /\ tillReply' \in TillReplies
  BY <1>0 DEF TillInv, TillTypes, Till!TypeOK
<1>2. ReplyFits' /\ Till!NothingForgotten'
  BY <1>0 DEF TillInv, ReplyFits, Till!NothingForgotten
<1> QED
  BY <1>0, <1>1, <1>2, TillQuiet

LEMMA TillFails == ASSUME TillInv, Till!FailSync PROVE TillInv' /\ ReportsStand
<1>0. /\ tillAnswers' = [n \in Till!Sales |-> IF n \in tillQueue THEN "failed" ELSE tillAnswers[n]]
      /\ UNCHANGED <<tillToday, tillRequired, tillShifts, tillMovements, tillSales, tillBin,
                     tillPosted, tillQueue, tillReply, tillTx>>
  BY DEF Till!FailSync
<1>1. Till!TypeOK' /\ IsFiniteSet(tillMovements') /\ tillReply' \in TillReplies
  BY <1>0 DEF TillInv, TillTypes, Till!TypeOK
<1>2. ReplyFits' /\ Till!NothingForgotten'
  BY <1>0 DEF TillInv, ReplyFits, Till!NothingForgotten
<1> QED
  BY <1>0, <1>1, <1>2, TillQuiet

LEMMA TillMovesCash ==
  ASSUME TillInv, NEW amount \in Moves, Till!RecordMovement(amount)
  PROVE  TillInv' /\ ReportsStand
<1> DEFINE row == [amount |-> amount, shift |-> Till!CurrentShift, on |-> tillToday]
<1>0. /\ tillMovements' = {row}
      /\ UNCHANGED <<tillToday, tillRequired, tillShifts, tillSales, tillBin, tillPosted,
                     tillQueue, tillAnswers, tillReply, tillTx>>
  BY DEF Till!RecordMovement
<1>1. /\ amount \in Int /\ tillToday \in Till!Days
      /\ Till!CurrentShift \in Till!Shifts \cup {Till!NoShift}
  BY CurrentShiftTrades, TillConstants DEF TillInv, TillTypes, Till!TypeOK
<1>2. row \in Till!MovementRows
  BY <1>1 DEF Till!MovementRows
<1> HIDE DEF row
<1>3. IsFiniteSet(tillMovements')
  BY <1>0, FS_Singleton
<1>4. Till!TypeOK' /\ tillReply' \in TillReplies
  BY <1>0, <1>2 DEF TillInv, TillTypes, Till!TypeOK
<1>5. ReplyFits' /\ Till!NothingForgotten'
  BY <1>0 DEF TillInv, ReplyFits, Till!NothingForgotten
<1> QED
  BY <1>0, <1>3, <1>4, <1>5, TillQuiet

LEMMA TillDays == ASSUME TillInv, Till!Tomorrow PROVE TillInv' /\ ReportsStand
<1>0. /\ tillToday < LastDay /\ tillToday' = tillToday + 1
      /\ UNCHANGED <<tillRequired, tillShifts, tillMovements, tillSales, tillBin, tillPosted,
                     tillQueue, tillAnswers, tillReply, tillTx>>
  BY DEF Till!Tomorrow
<1>1. tillToday' \in Till!Days
  BY <1>0, TillConstants DEF TillInv, TillTypes, Till!TypeOK, Till!Days
<1>2. Till!TypeOK' /\ IsFiniteSet(tillMovements') /\ tillReply' \in TillReplies
  BY <1>0, <1>1 DEF TillInv, TillTypes, Till!TypeOK
<1>3. ReplyFits' /\ Till!NothingForgotten'
  BY <1>0 DEF TillInv, ReplyFits, Till!NothingForgotten
<1> QED
  BY <1>0, <1>2, <1>3, TillQuiet

LEMMA TillStep ==
  ASSUME TillInv, Serial = TRUE, [Till!Next]_(Till!vars) PROVE TillInv' /\ ReportsStand
<1>1. ASSUME NEW s \in Sessions, Till!Request(s) PROVE TillInv' /\ ReportsStand
  <2>1. ASSUME NEW float \in Floats, Till!BeginOpen(s, float) PROVE TillInv' /\ ReportsStand
    BY <2>1, TillOpenBegins
  <2>2. CASE Till!CommitOpen(s)
    BY <2>2, TillOpenCommits
  <2>3. ASSUME NEW k \in Till!Shifts, Till!BeginClose(s, k) PROVE TillInv' /\ ReportsStand
    BY <2>3, TillCloseBegins
  <2>4. CASE Till!CommitClose(s)
    BY <2>4, TillCloseCommits
  <2>5. ASSUME NEW n \in Till!Sales, Till!BeginComplete(s, n) PROVE TillInv' /\ ReportsStand
    BY <2>5, TillCompleteBegins
  <2>6. CASE Till!CommitComplete(s)
    BY <2>6, TillCompleteCommits
  <2>7. CASE Till!BeginSync(s)
    BY <2>7, TillSyncBegins
  <2>8. ASSUME NEW heard \in BOOLEAN, Till!CommitSync(s, heard) PROVE TillInv' /\ ReportsStand
    BY <2>8, TillSyncCommits
  <2>9. CASE Till!Abort(s)
    BY <2>9, TillAborts
  <2>10. ASSUME NEW n \in Till!Sales, Till!BeginVoid(s, n) \/ Till!BeginRefund(s, n)
         PROVE  TillInv' /\ ReportsStand
    BY <2>10, TillVoidBegins
  <2>11. CASE Till!CommitVoid(s)
    BY <2>11, TillVoidCommits
  <2>12. CASE Till!CommitRefund(s)
    BY <2>12, TillRefunds
  <2> QED
    BY <1>1, <2>1, <2>2, <2>3, <2>4, <2>5, <2>6, <2>7, <2>8, <2>9, <2>10, <2>11, <2>12
       DEF Till!Request
<1>2. ASSUME NEW n \in Till!Sales, Till!OpenSale(n) PROVE TillInv' /\ ReportsStand
  BY <1>2, TillOpensSale
<1>3. ASSUME NEW n \in Till!Sales, Till!Scan(n) PROVE TillInv' /\ ReportsStand
  BY <1>3, TillScans
<1>4. ASSUME NEW n \in Till!Sales, NEW amount \in 1..MaxGiven, Till!TenderCash(n, amount)
      PROVE  TillInv' /\ ReportsStand
  BY <1>4, TillTakesCash
<1>5. ASSUME NEW n \in Till!Sales, NEW amount \in 1..MaxGiven, Till!TenderCard(n, amount)
      PROVE  TillInv' /\ ReportsStand
  BY <1>5, TillTakesCard
<1>8. ASSUME NEW n \in Till!Sales, Till!RingOffline(n) PROVE TillInv' /\ ReportsStand
  BY <1>8, TillRings
<1>9. ASSUME NEW amount \in Moves, Till!RecordMovement(amount) PROVE TillInv' /\ ReportsStand
  BY <1>9, TillMovesCash
<1>10. CASE Till!FailSync
  BY <1>10, TillFails
<1>11. CASE Till!Replay
  BY <1>11, TillReplays
<1>12. CASE Till!Tomorrow
  BY <1>12, TillDays
<1>13. CASE UNCHANGED Till!vars
  <2>1. UNCHANGED <<tillToday, tillRequired, tillShifts, tillMovements, tillSales, tillBin,
                    tillPosted, tillQueue, tillAnswers, tillReply, tillTx>>
    BY <1>13 DEF Till!vars
  <2>2. Till!TypeOK' /\ IsFiniteSet(tillMovements') /\ tillReply' \in TillReplies
    BY <2>1 DEF TillInv, TillTypes, Till!TypeOK
  <2>3. ReplyFits' /\ Till!NothingForgotten'
    BY <2>1 DEF TillInv, ReplyFits, Till!NothingForgotten
  <2> QED
    BY <2>1, <2>2, <2>3, TillQuiet
<1> QED
  BY <1>1, <1>2, <1>3, <1>4, <1>5, <1>8, <1>9, <1>10, <1>11, <1>12, <1>13
     DEF Till!Next

(* ------------------------------- sums of amounts --------------------------- *)

LEMMA OrderConstants ==
  /\ IsFiniteSet(Quotes) /\ IsFiniteSet(Bills) /\ Quantity \in [Quotes -> Nat \ {0}]
  /\ UnitPrices \subseteq Nat /\ Nets \subseteq Nat \ {0} /\ Payments \subseteq Nat \ {0}
  /\ Stated \subseteq Nat /\ StartModes \subseteq Orders!Modes /\ Orders!None \notin Quotes
  /\ Tax \in Nat /\ Stocked \in Nat /\ LastDay \in Nat \ {0} /\ Limit \in Nat \cup {Orders!Null}
<1>1. \A S : Orders!IsFiniteSet(S) <=> IsFiniteSet(S)
  BY DEF Orders!IsFiniteSet, IsFiniteSet
<1> QED
  BY <1>1, Parameters
     DEF Orders!QuantityAssumption, Orders!AmountAssumption, Orders!SerialAssumption, Orders!Modes

LEMMA OrderSumSets ==
  /\ \A S : Orders!Cardinality(S) = Cardinality(S)
  /\ \A f : Orders!Counted(f) = Till!Counted(f)
  /\ \A f : Orders!Total(f) = Cardinality(Till!Counted(f))
<1>1. \A S : Orders!Cardinality(S) = Cardinality(S)
  BY DEF Orders!Cardinality, Cardinality
<1>2. \A f : Orders!Counted(f) = Till!Counted(f)
  BY DEF Orders!Counted, Till!Counted
<1> QED
  BY <1>1, <1>2 DEF Orders!Total

LEMMA CountedMembers ==
  ASSUME NEW D, NEW f \in [D -> Nat], NEW u
  PROVE  u \in Till!Counted(f) <=> \E x \in D : \E k \in 1..f[x] : u = <<x, k>>
BY DEF Till!Counted

LEMMA TotalIsNat ==
  ASSUME NEW D, IsFiniteSet(D), NEW f \in [D -> Nat]
  PROVE  Orders!Total(f) \in Nat /\ IsFiniteSet(Till!Counted(f))
<1>1. f \in [D -> Int]
  OBVIOUS
<1>2. IsFiniteSet(Till!Counted(f))
  BY <1>1, CountedIsFinite
<1> QED
  BY <1>2, OrderSumSets, FS_CardinalityType

(* Amounts that are not greater have a sum that is not greater.                *)
LEMMA TotalIsMonotone ==
  ASSUME NEW D, IsFiniteSet(D), NEW f \in [D -> Nat], NEW g \in [D -> Nat],
         \A x \in D : f[x] <= g[x]
  PROVE  Orders!Total(f) <= Orders!Total(g)
<1>1. \A x \in D : 1..f[x] \subseteq 1..g[x]
  OBVIOUS
<1>2. Till!Counted(f) \subseteq Till!Counted(g)
  BY <1>1, CountedMembers
<1> QED
  BY <1>2, TotalIsNat, OrderSumSets, FS_Subset

(* Apart from x, two sums are the same.                                        *)
LEMMA TotalWithOneMore ==
  ASSUME NEW D, IsFiniteSet(D), NEW E, IsFiniteSet(E), NEW f \in [D -> Nat], NEW g \in [E -> Nat],
         NEW x, E = D \cup {x}, NEW a \in Nat, NEW b \in Nat, g[x] = a + b,
         IF x \in D THEN f[x] = a ELSE a = 0,
         \A y \in D : y # x => g[y] = f[y]
  PROVE  Orders!Total(g) = Orders!Total(f) + b
<1> DEFINE more == {x} \X (a + 1 .. a + b)
<1>1. IsFiniteSet(a + 1 .. a + b) /\ Cardinality(a + 1 .. a + b) = b
  <2>1. PICK c \in Int, d \in Int : c = a + 1 /\ d = a + b
    OBVIOUS
  <2>2. IsFiniteSet(c..d) /\ Cardinality(c..d) = IF c > d THEN 0 ELSE d - c + 1
    BY ONLY c \in Int, d \in Int, FS_Interval, Zenon
  <2>3. (IF c > d THEN 0 ELSE d - c + 1) = b
    BY <2>1
  <2> QED
    BY <2>1, <2>2, <2>3
<1>2. IsFiniteSet({x}) /\ Cardinality({x}) = 1
  BY FS_Singleton
<1>3. IsFiniteSet(more) /\ Cardinality(more) = b
  <2>1. /\ IsFiniteSet(more)
        /\ Cardinality(more) = Cardinality({x}) * Cardinality(a + 1 .. a + b)
    BY ONLY <1>1, <1>2, FS_Product, Zenon
  <2>2. 1 * b = b
    OBVIOUS
  <2> HIDE DEF more
  <2> QED
    BY <1>1, <1>2, <2>1, <2>2
<1>4. Till!Counted(g) = Till!Counted(f) \cup more
  <2>1. ASSUME NEW u PROVE u \in Till!Counted(g) <=> u \in Till!Counted(f) \cup more
    <3>1. u \in more <=> \E k \in a + 1 .. a + b : u = <<x, k>>
      OBVIOUS
    <3>2. \A k : k \in 1..g[x] <=> k \in 1..a \/ k \in a + 1 .. a + b
      OBVIOUS
    <3>3. x \notin D => 1..a = {}
      OBVIOUS
    <3> HIDE DEF more
    <3>4. u \in Till!Counted(g) <=> \E y \in E : \E k \in 1..g[y] : u = <<y, k>>
      BY CountedMembers
    <3>5. u \in Till!Counted(f) <=> \E y \in D : \E k \in 1..f[y] : u = <<y, k>>
      BY CountedMembers
    <3> QED
      BY <3>1, <3>2, <3>3, <3>4, <3>5
  <2> HIDE DEF more
  <2> QED
    BY <2>1
<1>5. Till!Counted(f) \cap more = {}
  <2>1. ASSUME NEW u \in Till!Counted(f), u \in more PROVE FALSE
    <3>1. PICK y \in D : \E k \in 1..f[y] : u = <<y, k>>
      BY <2>1, CountedMembers
    <3> QED
      BY <2>1, <3>1
  <2> QED
    BY <2>1
<1> HIDE DEF more
<1>6. Cardinality({}) = 0
  BY FS_EmptySet
<1>7. IsFiniteSet(Till!Counted(f)) /\ Orders!Total(f) \in Nat
  BY TotalIsNat
<1>8. Cardinality(Till!Counted(f) \cup more) =
        Cardinality(Till!Counted(f)) + Cardinality(more) - Cardinality(Till!Counted(f) \cap more)
  BY ONLY <1>3, <1>7, FS_Union, Zenon
<1>9. Orders!Total(g) = Orders!Total(f) + b - 0
  BY <1>3, <1>4, <1>5, <1>6, <1>8, OrderSumSets
<1> QED
  BY ONLY <1>7, <1>9, b \in Nat

LEMMA TotalOfNothing == ASSUME NEW D, NEW f \in [D -> Nat], \A x \in D : f[x] = 0 PROVE Orders!Total(f) = 0
<1>1. Till!Counted(f) = {}
  <2>1. \A x \in D : 1..f[x] = {}
    OBVIOUS
  <2> QED
    BY <2>1, CountedMembers
<1> QED
  BY <1>1, OrderSumSets, FS_EmptySet

(* ------------------------------ the order desk ----------------------------- *)

OrderRequests == [op : {"none", "reprice", "convert", "confirm", "ship"},
                  quote : Quotes \cup {Orders!None}, read : Nat, asked : Nat]

OrderTypes == Orders!TypeOK /\ orderTx \in [Sessions -> OrderRequests]

(* What the lines say has shipped is what has left, on confirmed orders alone. *)
ShippedHasLeft ==
  \A q \in Quotes : /\ orderLeft[q] = orderOrders[q].shipped
                    /\ orderLeft[q] <= Quantity[q]
                    /\ orderOrders[q].status # "confirmed" => orderLeft[q] = 0

(* What an open request read of its order is still so.                         *)
FitsOrder(r) ==
  /\ r.op # "none" => r.quote \in Quotes
  /\ r.op = "reprice" => r.asked \in UnitPrices
  /\ r.op = "convert" => r.read \in UnitPrices
  /\ r.op = "confirm" => orderOrders[r.quote].status = "draft"
  /\ r.op = "ship" =>
       /\ orderOrders[r.quote].status = "confirmed"
       /\ r.read = orderOrders[r.quote].shipped
       /\ r.asked \in 1..(Quantity[r.quote] - orderOrders[r.quote].shipped)
ReadsAreCurrent == \A s \in Sessions : FitsOrder(orderTx[s])

(* No two requests are at one order, and no two confirm.                       *)
OneAtAnOrder ==
  \A s, t \in Sessions :
    /\ orderTx[s].op # "none"
    /\ orderTx[t].op # "none"
    /\ orderTx[s].quote = orderTx[t].quote \/ (orderTx[s].op = "confirm" /\ orderTx[t].op = "confirm")
    => s = t

(* An invoice bills an order of which something left, and is not settled       *)
(* before it is posted nor beyond what it asks for.                            *)
InvoicesFit ==
  \A i \in Bills :
    orderInvoices[i].status # "absent" =>
      /\ orderInvoices[i].order \in Quotes \cup {Orders!None}
      /\ orderInvoices[i].order \in Quotes =>
           orderOrders[orderInvoices[i].order].status = "confirmed"
      /\ orderInvoices[i].net \in Nets
      /\ orderInvoices[i].settled <= orderInvoices[i].net + Tax
      /\ orderInvoices[i].status = "draft" => orderInvoices[i].settled = 0

RowsInv == OrderTypes /\ ShippedHasLeft /\ ReadsAreCurrent /\ OneAtAnOrder /\ InvoicesFit

(* The sums the credit of the customer is judged by.                           *)
IsConfirmed(q) == orderOrders[q].status = "confirmed"
Promised(q) == IF IsConfirmed(q) THEN Orders!OrderTotal(q) ELSE 0
OpenSum == Orders!Total([i \in Orders!Posted |-> Orders!OpenAmount(i)])
SettledSum == Orders!Total([i \in Orders!Posted |-> orderInvoices[i].settled])
UnbilledSum == Orders!Total([q \in Quotes |-> Orders!Unbilled(q)])
PromisedSum == Orders!Total([q \in Quotes |-> Promised(q)])
TaxSum == Tax * Cardinality(Orders!Posted)
DirectNet == Orders!BilledNet(Orders!None)
OwedBeforeTax == OpenSum + UnbilledSum - orderOnAccount - TaxSum - DirectNet - orderWithheld
NothingOverbilled == \A q \in Quotes : Orders!BilledNet(q) <= Orders!OrderTotal(q)

(* What is confirmed, or invoiced without an order, is open, settled or not    *)
(* billed yet.                                                                 *)
CommitmentsCounted == OpenSum + SettledSum + UnbilledSum >= PromisedSum + DirectNet

(* A company that blocks is owed no more than the limit and what callers       *)
(* withheld, also with the order that is being confirmed.                      *)
WithinTheLimit ==
  orderMode = "block" /\ Limit # Orders!Null /\ NothingOverbilled =>
    /\ OwedBeforeTax <= Limit
    /\ \A s \in Sessions : orderTx[s].op = "confirm" =>
         OwedBeforeTax + Orders!OrderTotal(orderTx[s].quote) <= Limit + orderTx[s].asked

OrderInv == RowsInv /\ CommitmentsCounted /\ WithinTheLimit

(* ------------------------------ types of the sums -------------------------- *)

LEMMA OrderRowFields ==
  ASSUME OrderTypes
  PROVE  /\ \A q \in Quotes : /\ orderOrders[q].price \in Nat /\ orderOrders[q].shipped \in Nat
                              /\ orderLeft[q] \in Nat /\ Quantity[q] \in Nat
                              /\ Orders!OrderTotal(q) \in Nat
         /\ \A i \in Bills : /\ orderInvoices[i].net \in Nat /\ orderInvoices[i].settled \in Nat
         /\ orderOnAccount \in Nat /\ orderBin \in Nat /\ orderWithheld \in Nat
<1>1. /\ orderOrders \in [Quotes -> Orders!OrderRows] /\ orderLeft \in [Quotes -> Nat]
      /\ orderInvoices \in [Bills -> Orders!InvoiceRows]
      /\ orderOnAccount \in Nat /\ orderBin \in Nat /\ orderWithheld \in Nat
  BY DEF OrderTypes, Orders!TypeOK
<1>2. /\ UnitPrices \cup {0} \subseteq Nat /\ Nets \cup {0} \subseteq Nat
      /\ \A q \in Quotes : Quantity[q] \in Nat
  BY OrderConstants
<1>3. \A q \in Quotes : orderOrders[q].price \in Nat /\ orderOrders[q].shipped \in Nat
  BY <1>1, <1>2 DEF Orders!OrderRows
<1>4. \A i \in Bills : orderInvoices[i].net \in Nat /\ orderInvoices[i].settled \in Nat
  BY <1>1, <1>2 DEF Orders!InvoiceRows
<1>5. \A q \in Quotes : Orders!OrderTotal(q) \in Nat
  BY <1>2, <1>3 DEF Orders!OrderTotal
<1> QED
  BY <1>1, <1>2, <1>3, <1>4, <1>5

LEMMA PostedIsFinite ==
  /\ IsFiniteSet(Orders!Posted) /\ Cardinality(Orders!Posted) \in Nat
  /\ Orders!Posted \subseteq Bills
<1>1. Orders!Posted \subseteq Bills
  BY DEF Orders!Posted
<1> QED
  BY <1>1, OrderConstants, FS_Subset, FS_CardinalityType

LEMMA BilledNetIsNat ==
  ASSUME OrderTypes, NEW q
  PROVE  /\ Orders!BilledNet(q) \in Nat
         /\ IsFiniteSet({j \in Orders!Posted : orderInvoices[j].order = q})
<1> DEFINE S == {j \in Orders!Posted : orderInvoices[j].order = q}
           f == [i \in S |-> orderInvoices[i].net]
<1>1. S \subseteq Orders!Posted
  OBVIOUS
<1>2. IsFiniteSet(S)
  BY <1>1, PostedIsFinite, FS_Subset
<1>3. f \in [S -> Nat]
  BY <1>1, PostedIsFinite, OrderRowFields
<1> HIDE DEF f
<1>4. Orders!Total(f) \in Nat
  BY <1>2, <1>3, TotalIsNat
<1> USE DEF f
<1> QED
  BY <1>2, <1>4 DEF Orders!BilledNet

LEMMA UnbilledIsNat ==
  ASSUME OrderTypes, NEW q \in Quotes
  PROVE  /\ Orders!Unbilled(q) \in Nat /\ Promised(q) \in Nat
         /\ Orders!Unbilled(q) <= Promised(q)
         /\ Promised(q) <= Orders!Unbilled(q) + Orders!BilledNet(q)
<1>1. Orders!OrderTotal(q) \in Nat /\ Orders!BilledNet(q) \in Nat
  BY OrderRowFields, BilledNetIsNat
<1> QED
  BY <1>1 DEF Orders!Unbilled, Orders!Largest, Promised, IsConfirmed

LEMMA SumsAreNat ==
  ASSUME OrderTypes, InvoicesFit
  PROVE  /\ OpenSum \in Nat /\ SettledSum \in Nat /\ UnbilledSum \in Nat /\ PromisedSum \in Nat
         /\ TaxSum \in Nat /\ DirectNet \in Nat /\ OwedBeforeTax \in Int
         /\ \A i \in Orders!Posted : Orders!OpenAmount(i) \in Nat
<1>1. \A i \in Orders!Posted : Orders!OpenAmount(i) \in Nat /\ orderInvoices[i].settled \in Nat
  BY OrderRowFields, OrderConstants
     DEF Orders!Posted, InvoicesFit, Orders!OpenAmount, Orders!Gross
<1>2. OpenSum \in Nat
  <2> DEFINE f == [i \in Orders!Posted |-> Orders!OpenAmount(i)]
  <2>1. f \in [Orders!Posted -> Nat]
    BY <1>1
  <2> HIDE DEF f
  <2>2. Orders!Total(f) \in Nat
    BY <2>1, TotalIsNat, PostedIsFinite
  <2> USE DEF f
  <2> QED
    BY <2>2 DEF OpenSum
<1>3. SettledSum \in Nat
  <2> DEFINE f == [i \in Orders!Posted |-> orderInvoices[i].settled]
  <2>1. f \in [Orders!Posted -> Nat]
    BY <1>1
  <2> HIDE DEF f
  <2>2. Orders!Total(f) \in Nat
    BY <2>1, TotalIsNat, PostedIsFinite
  <2> USE DEF f
  <2> QED
    BY <2>2 DEF SettledSum
<1>4. UnbilledSum \in Nat
  <2> DEFINE f == [q \in Quotes |-> Orders!Unbilled(q)]
  <2>1. f \in [Quotes -> Nat]
    BY UnbilledIsNat
  <2> HIDE DEF f
  <2>2. Orders!Total(f) \in Nat
    BY <2>1, TotalIsNat, OrderConstants
  <2> USE DEF f
  <2> QED
    BY <2>2 DEF UnbilledSum
<1>5. PromisedSum \in Nat
  <2> DEFINE f == [q \in Quotes |-> Promised(q)]
  <2>1. f \in [Quotes -> Nat]
    BY UnbilledIsNat
  <2> HIDE DEF f
  <2>2. Orders!Total(f) \in Nat
    BY <2>1, TotalIsNat, OrderConstants
  <2> USE DEF f
  <2> QED
    BY <2>2 DEF PromisedSum
<1>6. TaxSum \in Nat
  BY PostedIsFinite, OrderConstants DEF TaxSum
<1>7. DirectNet \in Nat
  BY BilledNetIsNat DEF DirectNet
<1>8. OwedBeforeTax \in Int
  BY <1>2, <1>4, <1>6, <1>7, OrderRowFields DEF OwedBeforeTax
<1> QED
  BY <1>1, <1>2, <1>3, <1>4, <1>5, <1>6, <1>7, <1>8

(* ------------------------------- sums that move ---------------------------- *)

(* Nothing is billed of an order that is not confirmed.                        *)
LEMMA UnconfirmedIsUnbilled ==
  ASSUME OrderTypes, InvoicesFit, NEW q \in Quotes, ~IsConfirmed(q)
  PROVE  Orders!BilledNet(q) = 0
<1> DEFINE S == {j \in Orders!Posted : orderInvoices[j].order = q}
           f == [i \in S |-> orderInvoices[i].net]
<1>1. S = {}
  BY DEF InvoicesFit, Orders!Posted, IsConfirmed
<1>2. f \in [S -> Nat] /\ \A x \in S : f[x] = 0
  BY <1>1
<1> HIDE DEF f, S
<1>3. Orders!Total(f) = 0
  BY <1>2, TotalOfNothing
<1> USE DEF f, S
<1> QED
  BY <1>3 DEF Orders!BilledNet

(* What the posted invoices come to depends on their rows alone.               *)
LEMMA SamePosted ==
  ASSUME Orders!Posted' = Orders!Posted, \A i \in Orders!Posted : orderInvoices'[i] = orderInvoices[i]
  PROVE  /\ OpenSum' = OpenSum /\ SettledSum' = SettledSum /\ TaxSum' = TaxSum
         /\ \A q : Orders!BilledNet(q)' = Orders!BilledNet(q)
<1>1. \A i \in Orders!Posted : Orders!OpenAmount(i)' = Orders!OpenAmount(i)
  BY DEF Orders!OpenAmount, Orders!Gross
<1>2. [i \in Orders!Posted |-> Orders!OpenAmount(i)]' = [i \in Orders!Posted |-> Orders!OpenAmount(i)]
  BY <1>1
<1>3. [i \in Orders!Posted |-> orderInvoices[i].settled]' = [i \in Orders!Posted |-> orderInvoices[i].settled]
  OBVIOUS
<1>4. OpenSum' = OpenSum /\ SettledSum' = SettledSum
  BY <1>2, <1>3 DEF OpenSum, SettledSum
<1>5. TaxSum' = TaxSum
  BY DEF TaxSum
<1>6. ASSUME NEW q PROVE Orders!BilledNet(q)' = Orders!BilledNet(q)
  <2>1. {j \in Orders!Posted' : orderInvoices'[j].order = q}
          = {j \in Orders!Posted : orderInvoices[j].order = q}
    OBVIOUS
  <2>2. [j \in {k \in Orders!Posted' : orderInvoices'[k].order = q} |-> orderInvoices'[j].net]
          = [j \in {k \in Orders!Posted : orderInvoices[k].order = q} |-> orderInvoices[j].net]
    BY <2>1
  <2> QED
    BY <2>2 DEF Orders!BilledNet
<1> QED
  BY <1>4, <1>5, <1>6

LEMMA SameInvoices ==
  ASSUME orderInvoices' = orderInvoices
  PROVE  /\ OpenSum' = OpenSum /\ SettledSum' = SettledSum /\ TaxSum' = TaxSum
         /\ \A q : Orders!BilledNet(q)' = Orders!BilledNet(q)
<1>1. Orders!Posted' = Orders!Posted
  BY DEF Orders!Posted
<1> QED
  BY <1>1, SamePosted

(* Orders change, and what confirmed ones come to does not.                    *)
LEMMA SameSums ==
  ASSUME Orders!Posted' = Orders!Posted, \A i \in Orders!Posted : orderInvoices'[i] = orderInvoices[i],
         \A q \in Quotes : /\ IsConfirmed(q)' <=> IsConfirmed(q)
                           /\ IsConfirmed(q) => Orders!OrderTotal(q)' = Orders!OrderTotal(q)
  PROVE  /\ OpenSum' = OpenSum /\ SettledSum' = SettledSum /\ UnbilledSum' = UnbilledSum
         /\ PromisedSum' = PromisedSum /\ TaxSum' = TaxSum
         /\ \A q : Orders!BilledNet(q)' = Orders!BilledNet(q)
<1>1. /\ OpenSum' = OpenSum /\ SettledSum' = SettledSum /\ TaxSum' = TaxSum
      /\ \A q : Orders!BilledNet(q)' = Orders!BilledNet(q)
  BY SamePosted
<1>2. \A q \in Quotes : Orders!Unbilled(q)' = Orders!Unbilled(q) /\ Promised(q)' = Promised(q)
  BY <1>1 DEF Orders!Unbilled, Promised, IsConfirmed
<1>3. [q \in Quotes |-> Orders!Unbilled(q)]' = [q \in Quotes |-> Orders!Unbilled(q)]
  BY <1>2
<1>4. [q \in Quotes |-> Promised(q)]' = [q \in Quotes |-> Promised(q)]
  BY <1>2
<1>5. UnbilledSum' = UnbilledSum
  BY <1>3 DEF UnbilledSum
<1>6. PromisedSum' = PromisedSum
  BY <1>4 DEF PromisedSum
<1> QED
  BY <1>1, <1>5, <1>6

(* A confirmed order adds its total to what is promised and not billed yet.    *)
LEMMA ConfirmedSums ==
  ASSUME OrderTypes, InvoicesFit, NEW q \in Quotes, orderInvoices' = orderInvoices,
         ~IsConfirmed(q), IsConfirmed(q)', Orders!OrderTotal(q)' = Orders!OrderTotal(q),
         \A r \in Quotes : r # q => orderOrders'[r] = orderOrders[r]
  PROVE  /\ OpenSum' = OpenSum /\ SettledSum' = SettledSum /\ TaxSum' = TaxSum
         /\ UnbilledSum' = UnbilledSum + Orders!OrderTotal(q)
         /\ PromisedSum' = PromisedSum + Orders!OrderTotal(q)
         /\ \A r : Orders!BilledNet(r)' = Orders!BilledNet(r)
<1>1. /\ OpenSum' = OpenSum /\ SettledSum' = SettledSum /\ TaxSum' = TaxSum
      /\ \A r : Orders!BilledNet(r)' = Orders!BilledNet(r)
  BY SameInvoices
<1>2. Orders!BilledNet(q) = 0 /\ Orders!OrderTotal(q) \in Nat
  BY UnconfirmedIsUnbilled, OrderRowFields
<1>3. \A r \in Quotes : r # q => /\ Orders!Unbilled(r)' = Orders!Unbilled(r)
                                 /\ Promised(r)' = Promised(r)
  BY <1>1 DEF Orders!Unbilled, Promised, IsConfirmed, Orders!OrderTotal
<1>4. Orders!Unbilled(q) = 0 /\ Orders!Unbilled(q)' = Orders!OrderTotal(q)
  BY <1>1, <1>2 DEF Orders!Unbilled, IsConfirmed, Orders!Largest
<1>5. Promised(q) = 0 /\ Promised(q)' = Orders!OrderTotal(q)
  BY DEF Promised
<1>6. \A r \in Quotes : /\ Orders!Unbilled(r) \in Nat /\ Promised(r) \in Nat
                        /\ Orders!Unbilled(r)' \in Nat /\ Promised(r)' \in Nat
  <2>1. \A r \in Quotes : Orders!Unbilled(r) \in Nat /\ Promised(r) \in Nat
    BY UnbilledIsNat
  <2> QED
    BY <1>2, <1>3, <1>4, <1>5, <2>1
<1>7. UnbilledSum' = UnbilledSum + Orders!OrderTotal(q)
  <2> DEFINE f == [r \in Quotes |-> Orders!Unbilled(r)]
             g == [r \in Quotes |-> Orders!Unbilled(r)']
  <2>1. f \in [Quotes -> Nat] /\ g \in [Quotes -> Nat] /\ f[q] = 0 /\ g[q] = 0 + Orders!OrderTotal(q)
        /\ \A r \in Quotes : r # q => g[r] = f[r]
    BY <1>2, <1>3, <1>4, <1>6
  <2>2. Quotes = Quotes \cup {q}
    OBVIOUS
  <2> HIDE DEF f, g
  <2>3. Orders!Total(g) = Orders!Total(f) + Orders!OrderTotal(q)
    BY <1>2, <2>1, <2>2, OrderConstants, TotalWithOneMore
  <2> USE DEF f, g
  <2> QED
    BY <2>3 DEF UnbilledSum
<1>8. PromisedSum' = PromisedSum + Orders!OrderTotal(q)
  <2> DEFINE f == [r \in Quotes |-> Promised(r)]
             g == [r \in Quotes |-> Promised(r)']
  <2>1. f \in [Quotes -> Nat] /\ g \in [Quotes -> Nat] /\ f[q] = 0 /\ g[q] = 0 + Orders!OrderTotal(q)
        /\ \A r \in Quotes : r # q => g[r] = f[r]
    BY <1>2, <1>3, <1>5, <1>6
  <2>2. Quotes = Quotes \cup {q}
    OBVIOUS
  <2> HIDE DEF f, g
  <2>3. Orders!Total(g) = Orders!Total(f) + Orders!OrderTotal(q)
    BY <1>2, <2>1, <2>2, OrderConstants, TotalWithOneMore
  <2> USE DEF f, g
  <2> QED
    BY <2>3 DEF PromisedSum
<1> QED
  BY <1>1, <1>7, <1>8

(* A settlement moves an amount from what is open to what is settled.          *)
LEMMA SettledSums ==
  ASSUME OrderTypes, InvoicesFit, orderOrders' = orderOrders,
         NEW i \in Bills, NEW amount \in Nat, Orders!Settle(i, amount)
  PROVE  /\ OpenSum = OpenSum' + amount /\ OpenSum' \in Nat /\ SettledSum' = SettledSum + amount
         /\ UnbilledSum' = UnbilledSum /\ PromisedSum' = PromisedSum /\ TaxSum' = TaxSum
         /\ \A q : Orders!BilledNet(q)' = Orders!BilledNet(q)
<1>1. /\ orderInvoices[i].status = "posted" /\ amount \in 1..Orders!OpenAmount(i)
      /\ orderInvoices' = [orderInvoices EXCEPT ![i].settled = @ + amount]
  BY DEF Orders!Settle
<1>2. orderInvoices \in [Bills -> Orders!InvoiceRows]
  BY DEF OrderTypes, Orders!TypeOK
<1>3. /\ \A j \in Bills : /\ orderInvoices'[j].status = orderInvoices[j].status
                          /\ orderInvoices'[j].net = orderInvoices[j].net
                          /\ orderInvoices'[j].order = orderInvoices[j].order
      /\ \A j \in Bills : j # i => orderInvoices'[j] = orderInvoices[j]
      /\ orderInvoices'[i].settled = orderInvoices[i].settled + amount
  BY <1>1, <1>2 DEF Orders!InvoiceRows
<1>4. Orders!Posted' = Orders!Posted /\ i \in Orders!Posted
  BY <1>1, <1>3 DEF Orders!Posted
<1>5. TaxSum' = TaxSum
  BY <1>4 DEF TaxSum
<1>6. \A q : Orders!BilledNet(q)' = Orders!BilledNet(q)
  <2> SUFFICES ASSUME NEW q PROVE Orders!BilledNet(q)' = Orders!BilledNet(q)
    OBVIOUS
  <2>1. {j \in Orders!Posted' : orderInvoices'[j].order = q}
          = {j \in Orders!Posted : orderInvoices[j].order = q}
    BY <1>3, <1>4, PostedIsFinite
  <2>2. [j \in {k \in Orders!Posted' : orderInvoices'[k].order = q} |-> orderInvoices'[j].net]
          = [j \in {k \in Orders!Posted : orderInvoices[k].order = q} |-> orderInvoices[j].net]
    BY <1>3, <2>1, PostedIsFinite
  <2> QED
    BY <2>2 DEF Orders!BilledNet
<1>7. UnbilledSum' = UnbilledSum /\ PromisedSum' = PromisedSum
  <2>1. \A q \in Quotes : Orders!Unbilled(q)' = Orders!Unbilled(q) /\ Promised(q)' = Promised(q)
    BY <1>6 DEF Orders!Unbilled, Promised, IsConfirmed, Orders!OrderTotal
  <2>2. [q \in Quotes |-> Orders!Unbilled(q)]' = [q \in Quotes |-> Orders!Unbilled(q)]
    BY <2>1
  <2>3. [q \in Quotes |-> Promised(q)]' = [q \in Quotes |-> Promised(q)]
    BY <2>1
  <2> QED
    BY <2>2, <2>3 DEF UnbilledSum, PromisedSum
<1>8. Orders!OpenAmount(i) = Orders!OpenAmount(i)' + amount
  <2>1. orderInvoices[i].net \in Nat /\ orderInvoices[i].settled \in Nat /\ Tax \in Nat
    BY OrderRowFields, OrderConstants
  <2> QED
    BY <1>3, <2>1 DEF Orders!OpenAmount, Orders!Gross
<1>9. \A j \in Orders!Posted :
        /\ Orders!OpenAmount(j) \in Nat /\ Orders!OpenAmount(j)' \in Nat
        /\ orderInvoices[j].settled \in Nat /\ orderInvoices'[j].settled \in Nat
  <2>1. \A j \in Orders!Posted : Orders!OpenAmount(j) \in Nat
    BY SumsAreNat
  <2>2. \A j \in Bills : orderInvoices[j].settled \in Nat /\ orderInvoices[j].net \in Nat
    BY OrderRowFields
  <2>3. Orders!OpenAmount(i)' \in Nat
    <3>1. Tax \in Nat
      BY OrderConstants
    <3>2. Orders!OpenAmount(i)' = (orderInvoices[i].net + Tax) - (orderInvoices[i].settled + amount)
      BY <1>3 DEF Orders!OpenAmount, Orders!Gross
    <3> QED
      BY <1>1, <1>8, <2>1, <2>2, <3>1, <3>2, <1>4
  <2>4. orderInvoices'[i].settled \in Nat
    BY <1>3, <2>2
  <2>5. \A j \in Orders!Posted : j # i => Orders!OpenAmount(j)' = Orders!OpenAmount(j)
    BY <1>3, PostedIsFinite DEF Orders!OpenAmount, Orders!Gross
  <2> QED
    BY <1>3, <2>1, <2>2, <2>3, <2>4, <2>5, PostedIsFinite
<1>10. OpenSum = OpenSum' + amount /\ OpenSum' \in Nat
  <2> DEFINE g == [j \in Orders!Posted |-> Orders!OpenAmount(j)]
             f == [j \in Orders!Posted' |-> Orders!OpenAmount(j)']
  <2>1. \A j \in Orders!Posted : j # i => Orders!OpenAmount(j)' = Orders!OpenAmount(j)
    BY <1>3, PostedIsFinite DEF Orders!OpenAmount, Orders!Gross
  <2>2. /\ f \in [Orders!Posted -> Nat] /\ g \in [Orders!Posted -> Nat]
        /\ f[i] \in Nat /\ g[i] = f[i] + amount
        /\ \A j \in Orders!Posted : j # i => g[j] = f[j]
    BY <1>4, <1>8, <1>9, <2>1
  <2>3. Orders!Posted = Orders!Posted \cup {i}
    BY <1>4
  <2> HIDE DEF f, g
  <2>4. Orders!Total(g) = Orders!Total(f) + amount
    BY <1>4, <2>2, <2>3, PostedIsFinite, TotalWithOneMore
  <2>5. Orders!Total(f) \in Nat
    BY <2>2, PostedIsFinite, TotalIsNat
  <2> USE DEF f, g
  <2> QED
    BY <2>4, <2>5 DEF OpenSum
<1>11. SettledSum' = SettledSum + amount
  <2> DEFINE g == [j \in Orders!Posted' |-> orderInvoices'[j].settled]
             f == [j \in Orders!Posted |-> orderInvoices[j].settled]
  <2>1. \A j \in Orders!Posted : j # i => orderInvoices'[j] = orderInvoices[j]
    BY <1>3, PostedIsFinite
  <2>2. /\ f \in [Orders!Posted -> Nat] /\ g \in [Orders!Posted -> Nat]
        /\ f[i] \in Nat /\ g[i] = f[i] + amount
        /\ \A j \in Orders!Posted : j # i => g[j] = f[j]
    BY <1>3, <1>4, <1>9, <2>1
  <2>3. Orders!Posted = Orders!Posted \cup {i}
    BY <1>4
  <2> HIDE DEF f, g
  <2>4. Orders!Total(g) = Orders!Total(f) + amount
    BY <1>4, <2>2, <2>3, PostedIsFinite, TotalWithOneMore
  <2> USE DEF f, g
  <2> QED
    BY <2>4 DEF SettledSum
<1> QED
  BY <1>5, <1>6, <1>7, <1>10, <1>11

(* A posted invoice opens its net and the tax, and what it bills is a          *)
(* commitment no more.                                                         *)
LEMMA PostedSums ==
  ASSUME OrderTypes, InvoicesFit, NEW i \in Bills, Orders!PostInvoice(i),
         NEW q, q = orderInvoices[i].order, NEW net, net = orderInvoices[i].net
  PROVE  /\ q \in Quotes \cup {Orders!None} /\ net \in Nat
         /\ OpenSum' = OpenSum + (net + Tax) /\ SettledSum' = SettledSum /\ TaxSum' = TaxSum + Tax
         /\ PromisedSum' = PromisedSum /\ UnbilledSum' \in Nat
         /\ \E freed \in 0..net :
              /\ UnbilledSum = UnbilledSum' + freed
              /\ q \in Quotes /\ Orders!BilledNet(q)' <= Orders!OrderTotal(q) => freed = net
              /\ q \notin Quotes => freed = 0
         /\ DirectNet' = IF q \in Quotes THEN DirectNet ELSE DirectNet + net
         /\ \A r \in Quotes : /\ Orders!BilledNet(r) <= Orders!BilledNet(r)'
                              /\ Orders!BilledNet(r)' \in Nat
<1>1. /\ orderInvoices[i].status = "draft"
      /\ orderInvoices' = [orderInvoices EXCEPT ![i].status = "posted"]
      /\ orderOrders' = orderOrders
  BY DEF Orders!PostInvoice
<1>2. orderInvoices \in [Bills -> Orders!InvoiceRows]
  BY DEF OrderTypes, Orders!TypeOK
<1>3. /\ \A j \in Bills : /\ orderInvoices'[j].settled = orderInvoices[j].settled
                          /\ orderInvoices'[j].net = orderInvoices[j].net
                          /\ orderInvoices'[j].order = orderInvoices[j].order
      /\ \A j \in Bills : j # i => orderInvoices'[j] = orderInvoices[j]
      /\ orderInvoices'[i].status = "posted"
  BY <1>1, <1>2 DEF Orders!InvoiceRows
<1>4. /\ Orders!Posted' = Orders!Posted \cup {i} /\ i \notin Orders!Posted
      /\ IsFiniteSet(Orders!Posted)
  BY <1>1, <1>3, PostedIsFinite DEF Orders!Posted
<1>5. /\ q \in Quotes \cup {Orders!None} /\ orderInvoices[i].settled = 0
      /\ net \in Nat /\ Tax \in Nat
      /\ q \in Quotes => IsConfirmed(q) /\ Orders!OrderTotal(q) \in Nat
  BY <1>1, OrderRowFields, OrderConstants DEF InvoicesFit, IsConfirmed
<1>6. IsFiniteSet(Orders!Posted')
  BY <1>4, FS_AddElement
<1>7. TaxSum' = TaxSum + Tax
  <2>1. Cardinality(Orders!Posted') = Cardinality(Orders!Posted) + 1
    BY <1>4, FS_AddElement
  <2>2. PICK c \in Nat : c = Cardinality(Orders!Posted)
    BY PostedIsFinite
  <2>3. Tax * (c + 1) = Tax * c + Tax
    BY <1>5
  <2> QED
    BY <2>1, <2>2, <2>3 DEF TaxSum
<1>8. \A j \in Orders!Posted : Orders!OpenAmount(j) \in Nat /\ orderInvoices[j].settled \in Nat
  BY SumsAreNat, OrderRowFields, PostedIsFinite
<1>9. OpenSum' = OpenSum + (net + Tax)
  <2> DEFINE f == [j \in Orders!Posted |-> Orders!OpenAmount(j)]
             g == [j \in Orders!Posted' |-> Orders!OpenAmount(j)']
  <2>1. \A j \in Orders!Posted : Orders!OpenAmount(j)' = Orders!OpenAmount(j)
    BY <1>3, PostedIsFinite DEF Orders!OpenAmount, Orders!Gross
  <2>2. Orders!OpenAmount(i)' = net + Tax
    BY <1>3, <1>5 DEF Orders!OpenAmount, Orders!Gross
  <2>3. /\ f \in [Orders!Posted -> Nat] /\ g \in [Orders!Posted' -> Nat]
        /\ g[i] = 0 + (net + Tax) /\ \A j \in Orders!Posted : g[j] = f[j]
    BY <1>4, <1>5, <1>8, <2>1, <2>2
  <2>4. PICK gross \in Nat : gross = net + Tax
    BY <1>5
  <2> HIDE DEF f, g
  <2>5. Orders!Total(g) = Orders!Total(f) + gross
    BY <1>4, <1>6, <2>3, <2>4, TotalWithOneMore
  <2> USE DEF f, g
  <2> QED
    BY <2>4, <2>5 DEF OpenSum
<1>10. SettledSum' = SettledSum
  <2> DEFINE f == [j \in Orders!Posted |-> orderInvoices[j].settled]
             g == [j \in Orders!Posted' |-> orderInvoices'[j].settled]
  <2>1. /\ f \in [Orders!Posted -> Nat] /\ g \in [Orders!Posted' -> Nat]
        /\ g[i] = 0 + 0 /\ \A j \in Orders!Posted : g[j] = f[j]
    BY <1>3, <1>4, <1>5, <1>8, PostedIsFinite
  <2> HIDE DEF f, g
  <2>2. Orders!Total(g) = Orders!Total(f) + 0
    BY <1>4, <1>6, <2>1, TotalWithOneMore
  <2>3. Orders!Total(f) \in Nat
    BY <1>4, <2>1, TotalIsNat
  <2>4. Orders!Total(g) = Orders!Total(f)
    BY <2>2, <2>3
  <2> USE DEF f, g
  <2> QED
    BY <2>4 DEF SettledSum
<1>11. Orders!BilledNet(q)' = Orders!BilledNet(q) + net
  <2> DEFINE S == {j \in Orders!Posted : orderInvoices[j].order = q}
             T == {j \in Orders!Posted' : orderInvoices'[j].order = q}
             f == [j \in S |-> orderInvoices[j].net]
             g == [j \in T |-> orderInvoices'[j].net]
  <2>1. T = S \cup {i} /\ i \notin S
    BY <1>3, <1>4, PostedIsFinite
  <2>2. IsFiniteSet(S) /\ IsFiniteSet(T)
    <3>1. IsFiniteSet(S)
      BY BilledNetIsNat
    <3> QED
      BY ONLY <2>1, <3>1, FS_AddElement, Zenon
  <2>3. /\ f \in [S -> Nat] /\ g \in [T -> Nat]
        /\ g[i] = 0 + net /\ \A j \in S : g[j] = f[j]
    BY <1>3, <1>5, <2>1, PostedIsFinite, OrderRowFields
  <2> HIDE DEF f, g, S, T
  <2>4. Orders!Total(g) = Orders!Total(f) + net
    BY <1>5, <2>1, <2>2, <2>3, TotalWithOneMore
  <2>5. Orders!Total(f) = Orders!BilledNet(q)
    BY DEF f, S, Orders!BilledNet
  <2>6. Orders!Total(g) = Orders!BilledNet(q)'
    BY DEF g, T, Orders!BilledNet
  <2> QED
    BY <2>4, <2>5, <2>6
<1>12. \A r : r # q => Orders!BilledNet(r)' = Orders!BilledNet(r)
  <2> SUFFICES ASSUME NEW r, r # q PROVE Orders!BilledNet(r)' = Orders!BilledNet(r)
    OBVIOUS
  <2>1. {j \in Orders!Posted' : orderInvoices'[j].order = r}
          = {j \in Orders!Posted : orderInvoices[j].order = r}
    BY <1>3, <1>4, PostedIsFinite
  <2>2. [j \in {k \in Orders!Posted' : orderInvoices'[k].order = r} |-> orderInvoices'[j].net]
          = [j \in {k \in Orders!Posted : orderInvoices[k].order = r} |-> orderInvoices[j].net]
    BY <1>3, <2>1, PostedIsFinite
  <2> QED
    BY <2>2 DEF Orders!BilledNet
<1>13. \A r \in Quotes : Orders!OrderTotal(r)' = Orders!OrderTotal(r) /\ Promised(r)' = Promised(r)
  BY <1>1 DEF Orders!OrderTotal, Promised, IsConfirmed
<1>14. PromisedSum' = PromisedSum
  <2>1. [r \in Quotes |-> Promised(r)]' = [r \in Quotes |-> Promised(r)]
    BY <1>13
  <2> QED
    BY <2>1 DEF PromisedSum
<1>15. ASSUME q \in Quotes
       PROVE  /\ UnbilledSum' \in Nat
              /\ \E freed \in 0..net :
                   /\ UnbilledSum = UnbilledSum' + freed
                   /\ Orders!BilledNet(q)' <= Orders!OrderTotal(q) => freed = net
  <2>0. q \in Quotes /\ IsConfirmed(q) /\ Orders!OrderTotal(q) \in Nat
    BY <1>5, <1>15
  <2> DEFINE freed == Orders!Unbilled(q) - Orders!Unbilled(q)'
             g == [r \in Quotes |-> Orders!Unbilled(r)]
             f == [r \in Quotes |-> Orders!Unbilled(r)']
  <2>1. Orders!BilledNet(q) \in Nat
    BY BilledNetIsNat
  <2>2. /\ Orders!Unbilled(q) = IF Orders!OrderTotal(q) > Orders!BilledNet(q)
                                THEN Orders!OrderTotal(q) - Orders!BilledNet(q) ELSE 0
        /\ Orders!Unbilled(q)' = IF Orders!OrderTotal(q) > Orders!BilledNet(q) + net
                                 THEN Orders!OrderTotal(q) - (Orders!BilledNet(q) + net) ELSE 0
    <3>1. orderOrders'[q].status = "confirmed" /\ orderOrders[q].status = "confirmed"
      BY <1>1, <2>0 DEF IsConfirmed
    <3>2. /\ Orders!Unbilled(q) = Orders!Largest(0, Orders!OrderTotal(q) - Orders!BilledNet(q))
          /\ Orders!Unbilled(q)' = Orders!Largest(0, Orders!OrderTotal(q)' - Orders!BilledNet(q)')
      BY <3>1 DEF Orders!Unbilled, Orders!Largest
    <3>3. /\ Orders!OrderTotal(q)' = Orders!OrderTotal(q)
          /\ Orders!BilledNet(q)' = Orders!BilledNet(q) + net
      BY <1>5, <2>0, <1>11, <1>13
    <3> QED
      BY <1>5, <2>0, <2>1, <3>2, <3>3 DEF Orders!Largest
  <2>3. /\ freed \in 0..net /\ Orders!Unbilled(q)' \in Nat /\ Orders!Unbilled(q) = Orders!Unbilled(q)' + freed
        /\ Orders!BilledNet(q) + net <= Orders!OrderTotal(q) => freed = net
    <3> QED
      BY <1>5, <2>0, <2>1, <2>2
  <2>4. \A r \in Quotes : r # q => Orders!Unbilled(r)' = Orders!Unbilled(r)
    BY <1>1, <1>12 DEF Orders!Unbilled, Orders!OrderTotal
  <2>5. \A r \in Quotes : Orders!Unbilled(r) \in Nat
    BY UnbilledIsNat
  <2>6. /\ g \in [Quotes -> Nat] /\ f \in [Quotes -> Nat] /\ f[q] \in Nat /\ g[q] = f[q] + freed
        /\ \A r \in Quotes : r # q => g[r] = f[r]
    <3> HIDE DEF freed
    <3> QED
      BY <1>5, <2>0, <2>3, <2>4, <2>5
  <2>7. Quotes = Quotes \cup {q} /\ freed \in Nat
    <3> HIDE DEF freed
    <3> QED
      BY <1>5, <2>0, <2>3
  <2> HIDE DEF f, g, freed
  <2>8. Orders!Total(g) = Orders!Total(f) + freed
    BY <1>5, <2>0, <2>6, <2>7, OrderConstants, TotalWithOneMore
  <2>9. Orders!Total(g) = UnbilledSum /\ Orders!Total(f) = UnbilledSum'
    BY DEF f, g, UnbilledSum
  <2>10. Orders!Total(f) \in Nat
    BY <2>6, OrderConstants, TotalIsNat
  <2> QED
    BY <1>11, <2>3, <2>8, <2>9, <2>10
<1>17. ASSUME q \notin Quotes PROVE UnbilledSum' = UnbilledSum
  <2>1. \A r \in Quotes : Orders!Unbilled(r)' = Orders!Unbilled(r)
    BY <1>1, <1>12, <1>17 DEF Orders!Unbilled, Orders!OrderTotal
  <2>2. [r \in Quotes |-> Orders!Unbilled(r)]' = [r \in Quotes |-> Orders!Unbilled(r)]
    BY <2>1
  <2> QED
    BY <2>2 DEF UnbilledSum
<1>18. DirectNet' = IF q \in Quotes THEN DirectNet ELSE DirectNet + net
  BY <1>5, <1>11, <1>12, OrderConstants DEF DirectNet
<1>19. /\ UnbilledSum' \in Nat
       /\ \E freed \in 0..net :
            /\ UnbilledSum = UnbilledSum' + freed
            /\ q \in Quotes /\ Orders!BilledNet(q)' <= Orders!OrderTotal(q) => freed = net
            /\ q \notin Quotes => freed = 0
  <2>1. CASE q \in Quotes
    BY <1>15, <2>1
  <2>2. CASE q \notin Quotes
    <3>1. UnbilledSum \in Nat
      BY SumsAreNat
    <3>2. UnbilledSum' \in Nat /\ UnbilledSum = UnbilledSum' + 0 /\ 0 \in 0..net
      BY <1>5, <1>17, <2>2, <3>1
    <3> QED
      BY <2>2, <3>2
  <2> QED
    BY <2>1, <2>2
<1>16. \A r \in Quotes : /\ Orders!BilledNet(r) <= Orders!BilledNet(r)'
                         /\ Orders!BilledNet(r)' \in Nat
  <2> SUFFICES ASSUME NEW r \in Quotes PROVE /\ Orders!BilledNet(r) <= Orders!BilledNet(r)'
                                             /\ Orders!BilledNet(r)' \in Nat
    OBVIOUS
  <2>1. Orders!BilledNet(r) \in Nat
    BY BilledNetIsNat
  <2>2. CASE r = q
    <3>1. Orders!BilledNet(r)' = Orders!BilledNet(r) + net
      BY <1>11, <2>2
    <3> QED
      BY <1>5, <2>1, <3>1
  <2>3. CASE r # q
    BY <1>12, <2>1, <2>3
  <2> QED
    BY <2>2, <2>3
<1> QED
  BY <1>5, <1>7, <1>9, <1>10, <1>14, <1>16, <1>18, <1>19

(* --------------------------- requests of the desk -------------------------- *)

LEMMA OrderTypesGive ==
  ASSUME OrderTypes
  PROVE  /\ orderToday \in Orders!Days /\ orderMode \in Orders!Modes
         /\ orderQuotes \in [Quotes -> Orders!QuoteRows]
         /\ orderOrders \in [Quotes -> Orders!OrderRows]
         /\ orderPicked \in [Quotes -> Orders!PickRows]
         /\ orderLeft \in [Quotes -> Nat] /\ orderBin \in Nat
         /\ orderInvoices \in [Bills -> Orders!InvoiceRows]
         /\ orderOnAccount \in Nat /\ orderWithheld \in Nat
         /\ orderTx \in [Sessions -> OrderRequests]
BY DEF OrderTypes, Orders!TypeOK

(* A request begins at an order nobody else is at.                             *)
LEMMA OrderStarts ==
  ASSUME RowsInv, Serial = TRUE, NEW s \in Sessions,
         NEW op \in {"reprice", "convert", "confirm", "ship"}, NEW q \in Quotes,
         NEW read \in Nat, NEW asked \in Nat, Orders!Starts(s, op, q, read, asked),
         op = "reprice" => asked \in UnitPrices,
         op = "convert" => read \in UnitPrices,
         op = "confirm" => orderOrders[q].status = "draft",
         op = "ship" => /\ orderOrders[q].status = "confirmed" /\ read = orderOrders[q].shipped
                        /\ asked \in 1..(Quantity[q] - orderOrders[q].shipped)
  PROVE  /\ RowsInv'
         /\ UNCHANGED <<orderMode, orderOrders, orderLeft, orderBin, orderInvoices, orderOnAccount,
                        orderWithheld>>
         /\ orderTx'[s].op = op /\ orderTx'[s].quote = q /\ orderTx'[s].asked = asked
         /\ \A t \in Sessions : t # s => orderTx'[t] = orderTx[t]
<1> USE DEF RowsInv
<1> DEFINE r == [op |-> op, quote |-> q, read |-> read, asked |-> asked]
<1>1. /\ orderTx' = [orderTx EXCEPT ![s] = r]
      /\ UNCHANGED <<orderToday, orderMode, orderQuotes, orderOrders, orderPicked, orderLeft,
                     orderBin, orderInvoices, orderOnAccount, orderWithheld>>
      /\ \A t \in Sessions : /\ orderTx[t].quote # q
                             /\ ~(op = "confirm" /\ orderTx[t].op = "confirm")
  BY DEF Orders!Starts
<1>2. r \in OrderRequests /\ FitsOrder(r)
  BY DEF OrderRequests, FitsOrder
<1>3. r.op = op /\ r.quote = q /\ r.asked = asked
  OBVIOUS
<1> HIDE DEF r
<1>4. /\ orderTx' \in [Sessions -> OrderRequests] /\ orderTx'[s] = r
      /\ \A t \in Sessions : t # s => orderTx'[t] = orderTx[t]
  BY <1>1, <1>2, OrderTypesGive
<1>5. OrderTypes'
  BY <1>1, <1>4 DEF OrderTypes, Orders!TypeOK
<1>6. ShippedHasLeft' /\ InvoicesFit'
  BY <1>1 DEF ShippedHasLeft, InvoicesFit
<1>7. ReadsAreCurrent'
  BY <1>1, <1>2, <1>4 DEF ReadsAreCurrent, FitsOrder
<1>8. OneAtAnOrder'
  BY <1>1, <1>3, <1>4 DEF OneAtAnOrder
<1> QED
  BY <1>1, <1>3, <1>4, <1>5, <1>6, <1>7, <1>8

(* A request ends, and leaves the orders as they were.                         *)
LEMMA OrderEnds ==
  ASSUME RowsInv, NEW s \in Sessions, orderTx' = [orderTx EXCEPT ![s] = Orders!Idle],
         orderQuotes' \in [Quotes -> Orders!QuoteRows],
         UNCHANGED <<orderToday, orderMode, orderOrders, orderPicked, orderLeft, orderBin,
                     orderInvoices, orderOnAccount, orderWithheld>>
  PROVE  /\ RowsInv'
         /\ \A t \in Sessions : orderTx'[t].op # "none" => orderTx'[t] = orderTx[t]
<1> USE DEF RowsInv
<1>1. Orders!Idle \in OrderRequests /\ Orders!Idle.op = "none"
  BY DEF Orders!Idle, OrderRequests, Orders!None
<1>2. /\ orderTx' \in [Sessions -> OrderRequests] /\ orderTx'[s] = Orders!Idle
      /\ \A t \in Sessions : t # s => orderTx'[t] = orderTx[t]
  BY <1>1, OrderTypesGive
<1>3. OrderTypes'
  BY <1>2 DEF OrderTypes, Orders!TypeOK
<1>4. ShippedHasLeft' /\ InvoicesFit'
  BY DEF ShippedHasLeft, InvoicesFit
<1>5. ReadsAreCurrent' /\ OneAtAnOrder'
  BY <1>1, <1>2 DEF ReadsAreCurrent, FitsOrder, OneAtAnOrder
<1> QED
  BY <1>1, <1>2, <1>3, <1>4, <1>5

(* A request ends and writes the row of its order, which nobody else is at.    *)
LEMMA OrderWrites ==
  ASSUME RowsInv, NEW s \in Sessions, orderTx[s].op # "none",
         orderTx' = [orderTx EXCEPT ![s] = Orders!Idle],
         \A q \in Quotes : q # orderTx[s].quote => orderOrders'[q] = orderOrders[q],
         orderOrders' \in [Quotes -> Orders!OrderRows], orderLeft' \in [Quotes -> Nat],
         orderBin' \in Nat, orderWithheld' \in Nat, ShippedHasLeft',
         orderOrders[orderTx[s].quote].status = "confirmed"
           => orderOrders'[orderTx[s].quote].status = "confirmed",
         UNCHANGED <<orderToday, orderMode, orderQuotes, orderPicked, orderInvoices,
                     orderOnAccount>>
  PROVE  /\ RowsInv'
         /\ \A t \in Sessions : orderTx'[t].op # "none" =>
              /\ t # s /\ orderTx'[t] = orderTx[t] /\ orderTx[t].quote \in Quotes
              /\ orderTx[t].quote # orderTx[s].quote
<1> USE DEF RowsInv
<1>1. Orders!Idle \in OrderRequests /\ Orders!Idle.op = "none"
  BY DEF Orders!Idle, OrderRequests, Orders!None
<1>2. /\ orderTx' \in [Sessions -> OrderRequests] /\ orderTx'[s] = Orders!Idle
      /\ \A t \in Sessions : t # s => orderTx'[t] = orderTx[t]
  BY <1>1, OrderTypesGive
<1>3. OrderTypes'
  BY <1>2 DEF OrderTypes, Orders!TypeOK
<1>4. \A t \in Sessions : t # s /\ orderTx[t].op # "none" =>
        /\ orderTx[t].quote \in Quotes /\ orderTx[t].quote # orderTx[s].quote
        /\ orderOrders'[orderTx[t].quote] = orderOrders[orderTx[t].quote]
  BY DEF ReadsAreCurrent, FitsOrder, OneAtAnOrder
<1>5. ReadsAreCurrent'
  <2> SUFFICES ASSUME NEW t \in Sessions, t # s PROVE FitsOrder(orderTx[t])'
    BY <1>1, <1>2 DEF ReadsAreCurrent, FitsOrder
  <2>1. FitsOrder(orderTx[t]) /\ orderTx'[t] = orderTx[t]
    BY <1>2 DEF ReadsAreCurrent
  <2> QED
    BY <1>4, <2>1 DEF FitsOrder
<1>6. OneAtAnOrder'
  BY <1>1, <1>2 DEF OneAtAnOrder
<1>7. InvoicesFit'
  <2> SUFFICES ASSUME NEW i \in Bills, orderInvoices[i].status # "absent",
                      orderInvoices[i].order \in Quotes
               PROVE  orderOrders'[orderInvoices[i].order].status = "confirmed"
    BY DEF InvoicesFit
  <2>1. orderOrders[orderInvoices[i].order].status = "confirmed"
    BY DEF InvoicesFit
  <2> QED
    BY <2>1
<1> QED
  BY <1>1, <1>2, <1>3, <1>4, <1>5, <1>6, <1>7

(* A draft from a quotation promises nothing yet.                              *)
LEMMA OrderConverts ==
  ASSUME RowsInv, NEW s \in Sessions, Orders!CommitConvert(s)
  PROVE  /\ RowsInv'
         /\ UNCHANGED <<orderMode, orderLeft, orderBin, orderInvoices, orderOnAccount, orderWithheld>>
         /\ \A q \in Quotes : /\ IsConfirmed(q)' <=> IsConfirmed(q)
                              /\ IsConfirmed(q) => orderOrders'[q] = orderOrders[q]
         /\ \A t \in Sessions : orderTx'[t].op # "none" =>
              /\ orderTx'[t] = orderTx[t] /\ orderTx[t].quote \in Quotes
              /\ orderOrders'[orderTx[t].quote] = orderOrders[orderTx[t].quote]
<1> USE DEF RowsInv
<1> DEFINE q == orderTx[s].quote
           o == [Orders!NoOrder EXCEPT !.status = "draft", !.price = orderTx[s].read]
<1>1. /\ orderTx[s].op = "convert" /\ orderTx' = [orderTx EXCEPT ![s] = Orders!Idle]
      /\ orderOrders[q].status = "absent" /\ orderOrders' = [orderOrders EXCEPT ![q] = o]
      /\ UNCHANGED <<orderToday, orderMode, orderQuotes, orderPicked, orderLeft, orderBin,
                     orderInvoices, orderOnAccount, orderWithheld>>
  BY DEF Orders!CommitConvert, Orders!Ends, Orders!Converted
<1>2. q \in Quotes /\ orderTx[s].read \in UnitPrices
  BY <1>1 DEF ReadsAreCurrent, FitsOrder
<1>3. o.status = "draft" /\ o.shipped = 0
  BY DEF Orders!NoOrder
<1>4. o \in Orders!OrderRows
  <2>1. Orders!NoOrder \in Orders!OrderRows
    BY DEF Orders!NoOrder, Orders!OrderRows
  <2> QED
    BY <1>2, <2>1 DEF Orders!OrderRows
<1> HIDE DEF q, o
<1>5. /\ orderOrders'[q] = o /\ \A r \in Quotes : r # q => orderOrders'[r] = orderOrders[r]
      /\ orderOrders' \in [Quotes -> Orders!OrderRows]
  BY <1>1, <1>2, <1>4, OrderTypesGive
<1>6. /\ orderLeft[q] = 0 /\ orderLeft' \in [Quotes -> Nat] /\ orderBin' \in Nat
      /\ orderWithheld' \in Nat
  BY <1>1, <1>2, OrderTypesGive DEF ShippedHasLeft
<1>7. ShippedHasLeft'
  BY <1>1, <1>2, <1>3, <1>5, <1>6 DEF ShippedHasLeft
<1>8. /\ RowsInv'
      /\ \A t \in Sessions : orderTx'[t].op # "none" =>
              /\ t # s /\ orderTx'[t] = orderTx[t] /\ orderTx[t].quote \in Quotes
              /\ orderTx[t].quote # q
  BY <1>1, <1>2, <1>5, <1>6, <1>7, OrderWrites DEF q
<1>9. \A r \in Quotes : /\ IsConfirmed(r)' <=> IsConfirmed(r)
                        /\ IsConfirmed(r) => orderOrders'[r] = orderOrders[r]
  BY <1>1, <1>3, <1>5 DEF IsConfirmed
<1> QED
  BY <1>1, <1>5, <1>8, <1>9

(* A confirmation makes a promise of a draft.                                  *)
LEMMA OrderConfirms ==
  ASSUME RowsInv, NEW s \in Sessions, Orders!CommitConfirm(s)
  PROVE  /\ RowsInv' /\ UNCHANGED <<orderMode, orderLeft, orderBin, orderInvoices, orderOnAccount>>
         /\ orderTx[s].op = "confirm" /\ \A t \in Sessions : orderTx'[t].op # "confirm"
         /\ orderTx[s].asked \in Nat /\ orderWithheld' = orderWithheld + orderTx[s].asked
         /\ \E q \in Quotes :
              /\ q = orderTx[s].quote
              /\ ~IsConfirmed(q) /\ IsConfirmed(q)' /\ orderLeft[q] = 0
              /\ orderOrders'[q].price = orderOrders[q].price
              /\ \A r \in Quotes : r # q => orderOrders'[r] = orderOrders[r]
<1> USE DEF RowsInv
<1> DEFINE q == orderTx[s].quote
           over == ~Orders!Within(orderTx[s].read + Orders!OrderTotal(q))
           acked == over /\ orderMode = "warn"
           exposed == orderTx[s].read
           asked == orderTx[s].asked
<1>1. /\ orderTx[s].op = "confirm" /\ orderTx' = [orderTx EXCEPT ![s] = Orders!Idle]
      /\ orderOrders' = [orderOrders EXCEPT ![q].status = "confirmed", ![q].exposure = exposed,
                                  ![q].breached = over, ![q].acknowledged = acked]
      /\ orderWithheld' = orderWithheld + asked
      /\ UNCHANGED <<orderToday, orderMode, orderQuotes, orderPicked, orderLeft, orderBin,
                     orderInvoices, orderOnAccount>>
  BY DEF Orders!CommitConfirm, Orders!Ends
<1>2. q \in Quotes /\ orderOrders[q].status = "draft"
  BY <1>1 DEF ReadsAreCurrent, FitsOrder
<1>3. exposed \in Nat /\ over \in BOOLEAN /\ acked \in BOOLEAN /\ asked \in Nat
  BY OrderTypesGive DEF OrderRequests
<1> HIDE DEF q, over, acked, exposed, asked
<1>4. /\ orderOrders' \in [Quotes -> Orders!OrderRows]
      /\ orderOrders'[q].status = "confirmed" /\ orderOrders'[q].shipped = orderOrders[q].shipped
      /\ orderOrders'[q].price = orderOrders[q].price
      /\ \A r \in Quotes : r # q => orderOrders'[r] = orderOrders[r]
  <2> DEFINE o1 == [orderOrders EXCEPT ![q].status = "confirmed"]
             o2 == [o1 EXCEPT ![q].exposure = exposed]
             o3 == [o2 EXCEPT ![q].breached = over]
             o4 == [o3 EXCEPT ![q].acknowledged = acked]
             Same(o) == /\ o \in [Quotes -> Orders!OrderRows]
                        /\ o[q].status = "confirmed" /\ o[q].shipped = orderOrders[q].shipped
                        /\ o[q].price = orderOrders[q].price
                        /\ \A r \in Quotes : r # q => o[r] = orderOrders[r]
  <2>1. orderOrders' = o4
    BY <1>1
  <2>2. orderOrders \in [Quotes -> Orders!OrderRows]
    BY OrderTypesGive
  <2>3. Same(o1)
    BY <1>2, <2>2 DEF Orders!OrderRows
  <2> HIDE DEF o1
  <2>4. Same(o2)
    BY <1>2, <1>3, <2>3 DEF Orders!OrderRows
  <2> HIDE DEF o2
  <2>5. Same(o3)
    BY <1>2, <1>3, <2>4 DEF Orders!OrderRows
  <2> HIDE DEF o3
  <2>6. Same(o4)
    BY <1>2, <1>3, <2>5 DEF Orders!OrderRows
  <2> HIDE DEF o4
  <2> QED
    BY <2>1, <2>6
<1>5. /\ orderLeft[q] = 0 /\ orderLeft' \in [Quotes -> Nat] /\ orderBin' \in Nat
      /\ orderWithheld' \in Nat
  BY <1>1, <1>2, <1>3, OrderTypesGive DEF ShippedHasLeft
<1>6. ShippedHasLeft'
  BY <1>1, <1>2, <1>4, <1>5 DEF ShippedHasLeft
<1>7. RowsInv'
  BY <1>1, <1>2, <1>4, <1>5, <1>6, OrderWrites DEF q
<1>8. \A t \in Sessions : orderTx'[t].op # "confirm"
  <2>1. Orders!Idle.op = "none"
    BY DEF Orders!Idle, Orders!None
  <2>2. \A t \in Sessions : orderTx[t].op = "confirm" => t = s
    BY <1>1 DEF OneAtAnOrder
  <2> QED
    BY <1>1, <2>1, <2>2, OrderTypesGive
<1> QED
  BY <1>1, <1>2, <1>3, <1>4, <1>5, <1>7, <1>8 DEF q, asked, IsConfirmed

(* A shipment takes what it was asked for out of what is owed and of the bin.  *)
LEMMA OrderShips ==
  ASSUME RowsInv, NEW s \in Sessions, Orders!CommitShip(s)
  PROVE  /\ RowsInv' /\ UNCHANGED <<orderMode, orderInvoices, orderOnAccount, orderWithheld>>
         /\ \A q \in Quotes : /\ IsConfirmed(q)' <=> IsConfirmed(q)
                              /\ orderOrders'[q].price = orderOrders[q].price
         /\ \A t \in Sessions : orderTx'[t].op # "none" =>
              orderTx'[t] = orderTx[t] /\ orderTx[t].quote \in Quotes
         /\ \E q \in Quotes : \E units \in 1..(Quantity[q] - orderLeft[q]) :
              /\ IsConfirmed(q) /\ units <= orderBin /\ orderBin' = orderBin - units
              /\ orderLeft' = [orderLeft EXCEPT ![q] = @ + units]
<1> USE DEF RowsInv
<1> DEFINE q == orderTx[s].quote  units == orderTx[s].asked  shipped == orderTx[s].read + units
<1>1. /\ orderTx[s].op = "ship" /\ orderTx' = [orderTx EXCEPT ![s] = Orders!Idle]
      /\ orderOrders' = [orderOrders EXCEPT ![q].shipped = shipped]
      /\ orderLeft' = [orderLeft EXCEPT ![q] = @ + units]
      /\ orderBin >= units /\ orderBin' = orderBin - units
      /\ UNCHANGED <<orderToday, orderMode, orderQuotes, orderPicked, orderInvoices,
                     orderOnAccount, orderWithheld>>
  BY DEF Orders!CommitShip, Orders!Ends
<1>2. /\ q \in Quotes /\ orderOrders[q].status = "confirmed"
      /\ orderTx[s].read = orderOrders[q].shipped
      /\ units \in 1..(Quantity[q] - orderOrders[q].shipped)
  BY <1>1 DEF ReadsAreCurrent, FitsOrder
<1>3. /\ orderLeft[q] = orderOrders[q].shipped /\ orderLeft[q] \in Nat /\ orderBin \in Nat
      /\ Quantity[q] \in Nat /\ orderLeft \in [Quotes -> Nat]
  BY <1>2, OrderTypesGive, OrderConstants DEF ShippedHasLeft
<1>4. /\ units \in 1..(Quantity[q] - orderLeft[q]) /\ shipped = orderLeft[q] + units
      /\ shipped \in Nat /\ shipped <= Quantity[q] /\ orderBin' \in Nat /\ orderWithheld' \in Nat
  BY <1>1, <1>2, <1>3, OrderTypesGive
<1> HIDE DEF q, units, shipped
<1>5. /\ orderOrders' \in [Quotes -> Orders!OrderRows]
      /\ orderOrders'[q].status = "confirmed" /\ orderOrders'[q].shipped = shipped
      /\ \A r \in Quotes : r # q => orderOrders'[r] = orderOrders[r]
      /\ orderOrders'[q].price = orderOrders[q].price
  BY <1>1, <1>2, <1>4, OrderTypesGive DEF Orders!OrderRows
<1>6. /\ orderLeft' \in [Quotes -> Nat] /\ orderLeft'[q] = orderLeft[q] + units
      /\ \A r \in Quotes : r # q => orderLeft'[r] = orderLeft[r]
  BY <1>1, <1>2, <1>3, <1>4
<1>7. ShippedHasLeft'
  BY <1>2, <1>4, <1>5, <1>6 DEF ShippedHasLeft
<1>8. /\ RowsInv'
      /\ \A t \in Sessions : orderTx'[t].op # "none" =>
           orderTx'[t] = orderTx[t] /\ orderTx[t].quote \in Quotes
  BY <1>1, <1>2, <1>4, <1>5, <1>6, <1>7, OrderWrites DEF q
<1> QED
  BY <1>1, <1>2, <1>4, <1>5, <1>8 DEF IsConfirmed

(* ---------------------------- credit, step by step ------------------------- *)

(* The limit holds on while nothing is added to what is owed.                  *)
LEMMA LimitStands ==
  ASSUME RowsInv, WithinTheLimit, orderMode' = orderMode, OwedBeforeTax' \in Int,
         NothingOverbilled' => NothingOverbilled /\ OwedBeforeTax' <= OwedBeforeTax,
         \A t \in Sessions : orderTx'[t].op = "confirm" =>
           /\ orderTx'[t] = orderTx[t]
           /\ orderOrders'[orderTx[t].quote].price = orderOrders[orderTx[t].quote].price
  PROVE  WithinTheLimit'
<1> SUFFICES ASSUME orderMode = "block", Limit # Orders!Null, NothingOverbilled'
             PROVE  /\ OwedBeforeTax' <= Limit
                    /\ \A t \in Sessions : orderTx'[t].op = "confirm" =>
                         OwedBeforeTax' + Quantity[orderTx'[t].quote] * orderOrders'[orderTx'[t].quote].price
                           <= Limit + orderTx'[t].asked
  BY DEF WithinTheLimit, Orders!OrderTotal
<1>1. /\ NothingOverbilled /\ OwedBeforeTax' <= OwedBeforeTax /\ OwedBeforeTax \in Int
      /\ Limit \in Nat
  BY SumsAreNat, OrderConstants DEF RowsInv, Orders!Null
<1>2. OwedBeforeTax <= Limit
  BY <1>1 DEF WithinTheLimit
<1>3. OwedBeforeTax' <= Limit
  BY <1>1, <1>2
<1>4. ASSUME NEW t \in Sessions, orderTx'[t].op = "confirm"
      PROVE  OwedBeforeTax' + Quantity[orderTx'[t].quote] * orderOrders'[orderTx'[t].quote].price
               <= Limit + orderTx'[t].asked
  <2>1. orderTx[t].op = "confirm" /\ orderTx[t].quote \in Quotes
    BY <1>4 DEF RowsInv, ReadsAreCurrent, FitsOrder
  <2>2. OwedBeforeTax + Orders!OrderTotal(orderTx[t].quote) <= Limit + orderTx[t].asked
    BY <1>1, <2>1 DEF WithinTheLimit
  <2>3. PICK total \in Nat : total = Orders!OrderTotal(orderTx[t].quote)
    BY <2>1, OrderRowFields DEF RowsInv
  <2>4. Quantity[orderTx'[t].quote] * orderOrders'[orderTx'[t].quote].price = total
    BY <1>4, <2>3 DEF Orders!OrderTotal
  <2>6. PICK asked \in Nat : asked = orderTx[t].asked /\ asked = orderTx'[t].asked
    BY <1>4, OrderTypesGive DEF RowsInv, OrderRequests
  <2>5. OwedBeforeTax' + total <= Limit + asked
    BY <1>1, <2>2, <2>3, <2>6
  <2> QED
    BY <2>4, <2>5, <2>6
<1> QED
  BY <1>3, <1>4

(* Nothing is billed, settled or confirmed.                                    *)
LEMMA CreditStands ==
  ASSUME OrderInv, orderMode' = orderMode,
         Orders!Posted' = Orders!Posted, \A i \in Orders!Posted : orderInvoices'[i] = orderInvoices[i],
         orderOnAccount' \in Nat, orderOnAccount <= orderOnAccount', orderWithheld' = orderWithheld,
         \A q \in Quotes : /\ IsConfirmed(q)' <=> IsConfirmed(q)
                           /\ IsConfirmed(q) => orderOrders'[q].price = orderOrders[q].price,
         \A t \in Sessions : orderTx'[t].op = "confirm" =>
           /\ orderTx'[t] = orderTx[t]
           /\ orderOrders'[orderTx[t].quote].price = orderOrders[orderTx[t].quote].price
  PROVE  CommitmentsCounted' /\ WithinTheLimit'
<1>1. \A q \in Quotes : IsConfirmed(q) => Orders!OrderTotal(q)' = Orders!OrderTotal(q)
  BY DEF Orders!OrderTotal
<1>2. /\ OpenSum' = OpenSum /\ SettledSum' = SettledSum /\ UnbilledSum' = UnbilledSum
      /\ PromisedSum' = PromisedSum /\ TaxSum' = TaxSum
      /\ \A q : Orders!BilledNet(q)' = Orders!BilledNet(q)
  BY <1>1, SameSums
<1>3. /\ OpenSum \in Nat /\ UnbilledSum \in Nat /\ TaxSum \in Nat /\ orderOnAccount \in Nat
      /\ OwedBeforeTax \in Int /\ DirectNet \in Nat /\ orderWithheld \in Nat
  BY SumsAreNat, OrderRowFields DEF OrderInv, RowsInv
<1>4. OwedBeforeTax' \in Int /\ OwedBeforeTax' <= OwedBeforeTax
  <2>1. OwedBeforeTax' = OpenSum + UnbilledSum - orderOnAccount' - TaxSum - DirectNet - orderWithheld
    BY <1>2 DEF OwedBeforeTax, DirectNet
  <2>2. OwedBeforeTax = OpenSum + UnbilledSum - orderOnAccount - TaxSum - DirectNet - orderWithheld
    BY DEF OwedBeforeTax
  <2> QED
    <3>1. PICK a \in Int, b \in Int, c \in Int, d \in Int, e \in Int, f \in Int, g \in Int :
            /\ a = OpenSum /\ b = UnbilledSum /\ c = TaxSum /\ d = orderOnAccount
            /\ e = orderOnAccount' /\ f = DirectNet /\ g = orderWithheld
      BY <1>3
    <3>2. d <= e
      BY <3>1
    <3>3. a + b - e - c - f - g \in Int /\ a + b - e - c - f - g <= a + b - d - c - f - g
      BY <3>2
    <3> QED
      BY <2>1, <2>2, <3>1, <3>3
<1>5. NothingOverbilled' => NothingOverbilled
  <2> SUFFICES ASSUME NothingOverbilled', NEW q \in Quotes
               PROVE  Orders!BilledNet(q) <= Orders!OrderTotal(q)
    BY DEF NothingOverbilled
  <2>1. CASE IsConfirmed(q)
    BY <1>1, <1>2, <2>1 DEF NothingOverbilled
  <2>2. CASE ~IsConfirmed(q)
    BY <2>2, UnconfirmedIsUnbilled, OrderRowFields DEF OrderInv, RowsInv
  <2> QED
    BY <2>1, <2>2
<1>6. CommitmentsCounted'
  BY <1>2 DEF OrderInv, CommitmentsCounted, DirectNet
<1>7. WithinTheLimit'
  BY <1>4, <1>5, LimitStands DEF OrderInv
<1> QED
  BY <1>6, <1>7

(* A confirmation is judged with what the order would add.                     *)
LEMMA CreditAtBeginning ==
  ASSUME OrderInv, NEW s \in Sessions, NEW q \in Quotes, NEW seen \in Nat, NEW short \in Nat,
         UNCHANGED <<orderMode, orderOrders, orderInvoices, orderOnAccount, orderWithheld>>,
         orderMode = "block" => Orders!Within(seen + Orders!OrderTotal(q)),
         Orders!Exposure <= seen + short,
         orderTx'[s].quote = q, orderTx'[s].asked = short,
         \A t \in Sessions : t # s => orderTx'[t] = orderTx[t]
  PROVE  CommitmentsCounted' /\ WithinTheLimit'
<1>1. \A r \in Quotes : (IsConfirmed(r)' <=> IsConfirmed(r)) /\ Orders!OrderTotal(r)' = Orders!OrderTotal(r)
  BY DEF IsConfirmed, Orders!OrderTotal
<1>2. Orders!Posted' = Orders!Posted
  BY DEF Orders!Posted
<1>3. /\ OpenSum' = OpenSum /\ SettledSum' = SettledSum /\ UnbilledSum' = UnbilledSum
      /\ PromisedSum' = PromisedSum /\ TaxSum' = TaxSum
      /\ \A r : Orders!BilledNet(r)' = Orders!BilledNet(r)
  BY <1>1, <1>2, SameSums
<1>4. CommitmentsCounted'
  BY <1>3 DEF OrderInv, CommitmentsCounted, DirectNet
<1>5. OwedBeforeTax' = OwedBeforeTax
  BY <1>3 DEF OwedBeforeTax, DirectNet
<1>6. NothingOverbilled' => NothingOverbilled
  BY <1>1, <1>3 DEF NothingOverbilled
<1>7. WithinTheLimit'
  <2> SUFFICES ASSUME orderMode = "block", Limit # Orders!Null, NothingOverbilled
               PROVE  /\ OwedBeforeTax <= Limit
                      /\ \A t \in Sessions : orderTx'[t].op = "confirm" =>
                           OwedBeforeTax + Orders!OrderTotal(orderTx'[t].quote)
                             <= Limit + orderTx'[t].asked
    BY <1>5, <1>6 DEF WithinTheLimit, Orders!OrderTotal
  <2>1. /\ OwedBeforeTax <= Limit
        /\ \A t \in Sessions : orderTx[t].op = "confirm" =>
             OwedBeforeTax + Orders!OrderTotal(orderTx[t].quote) <= Limit + orderTx[t].asked
    BY DEF OrderInv, WithinTheLimit
  <2>2. OwedBeforeTax + Orders!OrderTotal(q) <= Limit + short
    <3>1. seen + Orders!OrderTotal(q) <= Limit
      BY DEF Orders!Within
    <3>2. Orders!Exposure = Orders!Largest(0, OpenSum + UnbilledSum - orderOnAccount)
      BY DEF Orders!Exposure, OpenSum, UnbilledSum, Orders!Largest
    <3>3. /\ OpenSum \in Nat /\ UnbilledSum \in Nat /\ TaxSum \in Nat /\ orderOnAccount \in Nat
          /\ Orders!OrderTotal(q) \in Nat /\ Limit \in Nat /\ DirectNet \in Nat
          /\ orderWithheld \in Nat
      BY SumsAreNat, OrderRowFields, OrderConstants DEF OrderInv, RowsInv, Orders!Null
    <3>4. PICK a \in Nat, b \in Nat, c \in Nat, d \in Nat, e \in Nat, f \in Nat, total \in Nat,
               limit \in Nat :
            /\ a = OpenSum /\ b = UnbilledSum /\ c = TaxSum /\ d = orderOnAccount
            /\ e = DirectNet /\ f = orderWithheld /\ total = Orders!OrderTotal(q) /\ limit = Limit
      BY <3>3
    <3>5. a + b - d <= seen + short
      BY <3>2, <3>4 DEF Orders!Largest
    <3>6. seen + total <= limit
      BY <3>1, <3>4
    <3>7. (a + b - d - c - e - f) + total <= limit + short
      BY <3>5, <3>6
    <3> QED
      BY <3>4, <3>7 DEF OwedBeforeTax
  <2>3. \A t \in Sessions : t # s => orderTx'[t] = orderTx[t]
    OBVIOUS
  <2> QED
    BY <2>1, <2>2, <2>3
<1> QED
  BY <1>4, <1>7

(* A confirmed order is owed, as it was judged.                                *)
LEMMA CreditOfConfirmed ==
  ASSUME OrderInv, NEW s \in Sessions, Orders!CommitConfirm(s)
  PROVE  CommitmentsCounted' /\ WithinTheLimit'
<1>1. /\ UNCHANGED <<orderMode, orderInvoices, orderOnAccount>>
      /\ orderTx[s].op = "confirm" /\ \A t \in Sessions : orderTx'[t].op # "confirm"
      /\ orderTx[s].asked \in Nat /\ orderWithheld' = orderWithheld + orderTx[s].asked
  BY OrderConfirms DEF OrderInv
<1>2. PICK q \in Quotes :
              /\ q = orderTx[s].quote
              /\ ~IsConfirmed(q) /\ IsConfirmed(q)' /\ orderLeft[q] = 0
              /\ orderOrders'[q].price = orderOrders[q].price
              /\ \A r \in Quotes : r # q => orderOrders'[r] = orderOrders[r]
  BY OrderConfirms DEF OrderInv
<1>3. \A r \in Quotes : Orders!OrderTotal(r)' = Orders!OrderTotal(r)
  BY <1>2 DEF Orders!OrderTotal
<1>4. /\ OpenSum' = OpenSum /\ SettledSum' = SettledSum /\ TaxSum' = TaxSum
      /\ UnbilledSum' = UnbilledSum + Orders!OrderTotal(q)
      /\ PromisedSum' = PromisedSum + Orders!OrderTotal(q)
      /\ \A r : Orders!BilledNet(r)' = Orders!BilledNet(r)
  BY <1>1, <1>2, <1>3, ConfirmedSums DEF OrderInv, RowsInv
<1>5. /\ OpenSum \in Nat /\ SettledSum \in Nat /\ UnbilledSum \in Nat /\ TaxSum \in Nat
      /\ PromisedSum \in Nat /\ orderOnAccount \in Nat /\ Orders!OrderTotal(q) \in Nat
      /\ DirectNet \in Nat /\ orderWithheld \in Nat
  BY SumsAreNat, OrderRowFields DEF OrderInv, RowsInv
<1>10. DirectNet' = DirectNet
  BY <1>4 DEF DirectNet
<1>6. CommitmentsCounted'
  BY <1>4, <1>5, <1>10 DEF OrderInv, CommitmentsCounted
<1>7. OwedBeforeTax' + orderTx[s].asked = OwedBeforeTax + Orders!OrderTotal(q) /\ OwedBeforeTax' \in Int
  BY <1>1, <1>4, <1>5, <1>10 DEF OwedBeforeTax
<1>8. NothingOverbilled' => NothingOverbilled
  BY <1>3, <1>4 DEF NothingOverbilled
<1>9. WithinTheLimit'
  <2> SUFFICES ASSUME orderMode = "block", Limit # Orders!Null, NothingOverbilled
               PROVE  OwedBeforeTax' <= Limit
    BY <1>1, <1>8 DEF WithinTheLimit
  <2>1. OwedBeforeTax + Orders!OrderTotal(q) <= Limit + orderTx[s].asked
    BY <1>1, <1>2 DEF OrderInv, WithinTheLimit
  <2>2. Limit \in Nat
    BY OrderConstants
  <2> QED
    BY <1>1, <1>7, <2>1, <2>2
<1> QED
  BY <1>6, <1>9

(* A settlement, of fresh money or of money on account.                        *)
LEMMA CreditOfSettled ==
  ASSUME OrderInv, NEW i \in Bills, NEW amount \in Nat, Orders!Settle(i, amount),
         UNCHANGED <<orderMode, orderOrders, orderTx, orderWithheld>>,
         orderOnAccount' \in Nat, orderOnAccount <= orderOnAccount' + amount
  PROVE  CommitmentsCounted' /\ WithinTheLimit'
<1>1. /\ OpenSum = OpenSum' + amount /\ OpenSum' \in Nat /\ SettledSum' = SettledSum + amount
      /\ UnbilledSum' = UnbilledSum /\ PromisedSum' = PromisedSum /\ TaxSum' = TaxSum
      /\ \A q : Orders!BilledNet(q)' = Orders!BilledNet(q)
  BY SettledSums DEF OrderInv, RowsInv
<1>2. /\ OpenSum \in Nat /\ SettledSum \in Nat /\ UnbilledSum \in Nat /\ TaxSum \in Nat
      /\ PromisedSum \in Nat /\ orderOnAccount \in Nat /\ DirectNet \in Nat
      /\ orderWithheld \in Nat
  BY SumsAreNat, OrderRowFields DEF OrderInv, RowsInv
<1>3. OpenSum' \in Int /\ DirectNet' = DirectNet
  BY <1>1 DEF DirectNet
<1>4. CommitmentsCounted'
  <2>1. OpenSum + SettledSum + UnbilledSum >= PromisedSum + DirectNet
    BY DEF OrderInv, CommitmentsCounted
  <2>2. PICK a \in Int, b \in Int, c \in Int, d \in Int, e \in Int :
          a = OpenSum /\ b = OpenSum' /\ c = SettledSum /\ d = UnbilledSum /\ e = PromisedSum + DirectNet
    BY <1>2, <1>3
  <2>3. a = b + amount /\ a + c + d >= e
    BY <1>1, <2>1, <2>2
  <2>4. b + (c + amount) + d >= e
    BY <2>3
  <2>5. OpenSum' + (SettledSum + amount) + UnbilledSum >= PromisedSum + DirectNet
    BY <2>2, <2>4
  <2> QED
    BY <1>1, <1>3, <2>5 DEF CommitmentsCounted
<1>5. OwedBeforeTax' \in Int /\ OwedBeforeTax' <= OwedBeforeTax
  <2>1. OwedBeforeTax' = OpenSum' + UnbilledSum - orderOnAccount' - TaxSum - DirectNet - orderWithheld
    BY <1>1, <1>3 DEF OwedBeforeTax
  <2>2. OwedBeforeTax = OpenSum + UnbilledSum - orderOnAccount - TaxSum - DirectNet - orderWithheld
    BY DEF OwedBeforeTax
  <2> QED
    <3>1. PICK a \in Int, b \in Int, c \in Int, d \in Int, e \in Int, f \in Int,
               g \in Int, h \in Int :
            /\ a = OpenSum /\ b = OpenSum' /\ c = UnbilledSum /\ d = TaxSum
            /\ e = orderOnAccount /\ f = orderOnAccount' /\ g = DirectNet /\ h = orderWithheld
      BY <1>2, <1>3
    <3>2. a = b + amount /\ e <= f + amount
      BY <1>1, <3>1
    <3>3. b + c - f - d - g - h \in Int /\ b + c - f - d - g - h <= a + c - e - d - g - h
      BY <3>2
    <3> QED
      BY <2>1, <2>2, <3>1, <3>3
<1>6. NothingOverbilled' => NothingOverbilled
  BY <1>1 DEF NothingOverbilled, Orders!OrderTotal
<1>7. WithinTheLimit'
  BY <1>5, <1>6, LimitStands DEF OrderInv
<1> QED
  BY <1>4, <1>7

LEMMA CreditOfPosted ==
  ASSUME OrderInv, NEW i \in Bills, Orders!PostInvoice(i)
  PROVE  CommitmentsCounted' /\ WithinTheLimit'
<1>1. PICK q, net : q = orderInvoices[i].order /\ net = orderInvoices[i].net
  OBVIOUS
<1>2. /\ q \in Quotes \cup {Orders!None} /\ net \in Nat
      /\ OpenSum' = OpenSum + (net + Tax) /\ SettledSum' = SettledSum /\ TaxSum' = TaxSum + Tax
      /\ PromisedSum' = PromisedSum /\ UnbilledSum' \in Nat
      /\ \E freed \in 0..net :
           /\ UnbilledSum = UnbilledSum' + freed
           /\ q \in Quotes /\ Orders!BilledNet(q)' <= Orders!OrderTotal(q) => freed = net
           /\ q \notin Quotes => freed = 0
      /\ DirectNet' = IF q \in Quotes THEN DirectNet ELSE DirectNet + net
      /\ \A r \in Quotes : /\ Orders!BilledNet(r) <= Orders!BilledNet(r)'
                           /\ Orders!BilledNet(r)' \in Nat
  BY <1>1, PostedSums DEF OrderInv, RowsInv
<1>3. PICK freed \in 0..net :
           /\ UnbilledSum = UnbilledSum' + freed
           /\ q \in Quotes /\ Orders!BilledNet(q)' <= Orders!OrderTotal(q) => freed = net
           /\ q \notin Quotes => freed = 0
  BY <1>2
<1>4. /\ OpenSum \in Nat /\ SettledSum \in Nat /\ UnbilledSum \in Nat /\ TaxSum \in Nat
      /\ PromisedSum \in Nat /\ orderOnAccount \in Nat /\ Tax \in Nat
      /\ DirectNet \in Nat /\ orderWithheld \in Nat
      /\ \A r \in Quotes : Orders!OrderTotal(r) \in Nat
  BY SumsAreNat, OrderRowFields, OrderConstants DEF OrderInv, RowsInv
<1>5. UNCHANGED <<orderMode, orderOrders, orderTx, orderOnAccount, orderWithheld>>
  BY DEF Orders!PostInvoice
<1>6. UnbilledSum' \in Nat
  BY <1>2
<1>13. PICK direct \in 0..net :
          /\ DirectNet' = DirectNet + direct
          /\ direct + freed <= net
          /\ q \notin Quotes => direct = net /\ freed = 0
          /\ q \in Quotes => direct = 0
  <2>1. freed \in 0..net /\ net \in Nat
    BY <1>2
  <2>2. CASE q \in Quotes
    <3>1. DirectNet' = DirectNet + 0 /\ 0 + freed <= net /\ 0 \in 0..net
      BY <1>2, <1>4, <2>1, <2>2
    <3> QED
      BY <2>2, <3>1
  <2>3. CASE q \notin Quotes
    <3>1. DirectNet' = DirectNet + net /\ net + freed <= net /\ net \in 0..net /\ freed = 0
      BY <1>2, <1>3, <1>4, <2>1, <2>3
    <3> QED
      BY <2>3, <3>1
  <2> QED
    BY <2>2, <2>3
<1>7. CommitmentsCounted'
  <2>1. OpenSum + SettledSum + UnbilledSum >= PromisedSum + DirectNet
    BY DEF OrderInv, CommitmentsCounted
  <2>3. PICK a \in Int, b \in Int, c \in Int, d \in Int, e \in Int, f \in Int :
          /\ a = OpenSum /\ b = SettledSum /\ c = UnbilledSum /\ d = UnbilledSum' /\ e = PromisedSum
          /\ f = DirectNet
    BY <1>4, <1>6
  <2>4. /\ c = d + freed /\ a + b + c >= e + f
        /\ freed \in Nat /\ direct \in Nat /\ direct + freed <= net
        /\ net \in Nat /\ Tax \in Nat
    <3>1. net \in Nat /\ Tax \in Nat
      BY <1>2, <1>4
    <3>2. freed \in Nat /\ direct \in Nat /\ direct + freed <= net
      BY <1>3, <1>13, <3>1
    <3>3. c = d + freed
      BY <1>3, <2>3
    <3>4. a + b + c >= e + f
      BY <2>1, <2>3
    <3> QED
      BY <3>1, <3>2, <3>3, <3>4
  <2>5. a + (net + Tax) + b + d >= e + (f + direct)
    BY <2>4
  <2>2. OpenSum + (net + Tax) + SettledSum + UnbilledSum' >= PromisedSum + (DirectNet + direct)
    BY <2>3, <2>5
  <2> QED
    BY <1>2, <1>13, <2>2 DEF CommitmentsCounted
<1>8. \A r \in Quotes : Orders!OrderTotal(r)' = Orders!OrderTotal(r)
  BY <1>5 DEF Orders!OrderTotal
<1>9. NothingOverbilled' => NothingOverbilled /\ freed + direct = net
  <2> SUFFICES ASSUME NothingOverbilled' PROVE NothingOverbilled /\ freed + direct = net
    OBVIOUS
  <2>1. \A r \in Quotes : Orders!BilledNet(r)' <= Orders!OrderTotal(r)
    BY <1>8 DEF NothingOverbilled
  <2>2. ASSUME NEW r \in Quotes PROVE Orders!BilledNet(r) <= Orders!OrderTotal(r)
    <3>1. /\ Orders!BilledNet(r) <= Orders!BilledNet(r)'
          /\ Orders!BilledNet(r)' <= Orders!OrderTotal(r)
      BY <1>2, <2>1
    <3>2. PICK before \in Nat, after \in Nat, total \in Nat :
            /\ before = Orders!BilledNet(r) /\ after = Orders!BilledNet(r)'
            /\ total = Orders!OrderTotal(r)
      BY <1>2, <1>4, BilledNetIsNat DEF OrderInv, RowsInv
    <3> QED
      BY <3>1, <3>2
  <2> QED
    <3>1. NothingOverbilled
      BY <2>2 DEF NothingOverbilled
    <3>2. net \in Nat /\ freed \in Nat /\ direct \in Nat
      BY <1>2, <1>3, <1>13
    <3>3. CASE q \in Quotes
      <4>1. freed = net /\ direct = 0
        BY <1>3, <1>13, <2>1, <3>3
      <4> QED
        BY <3>1, <3>2, <4>1
    <3>4. CASE q \notin Quotes
      <4>1. freed = 0 /\ direct = net
        BY <1>13, <3>4
      <4> QED
        BY <3>1, <3>2, <4>1
    <3> QED
      BY <3>3, <3>4
<1>10. OwedBeforeTax' \in Int /\ (freed + direct = net => OwedBeforeTax' = OwedBeforeTax)
  <2>1. OwedBeforeTax' = OpenSum + (net + Tax) + UnbilledSum' - orderOnAccount - (TaxSum + Tax)
                         - (DirectNet + direct) - orderWithheld
    BY <1>2, <1>5, <1>13 DEF OwedBeforeTax
  <2>2. OwedBeforeTax = OpenSum + UnbilledSum - orderOnAccount - TaxSum - DirectNet - orderWithheld
    BY DEF OwedBeforeTax
  <2>3. freed \in Nat /\ direct \in Nat /\ net \in Nat
    BY <1>2, <1>3, <1>13
  <2>4. PICK a \in Int, b \in Int, c \in Int, d \in Int, e \in Int, f \in Int, g \in Int, h \in Int :
          /\ a = OpenSum /\ b = UnbilledSum /\ c = UnbilledSum' /\ d = orderOnAccount
          /\ e = TaxSum /\ f = DirectNet /\ g = orderWithheld /\ h = Tax
    BY <1>4, <1>6
  <2>5. b = c + freed
    BY <1>3, <2>4
  <2>6. /\ a + (net + h) + c - d - (e + h) - (f + direct) - g \in Int
        /\ freed + direct = net =>
             a + (net + h) + c - d - (e + h) - (f + direct) - g = a + b - d - e - f - g
    BY <2>3, <2>5
  <2> QED
    BY <2>1, <2>2, <2>4, <2>6
<1>11. OwedBeforeTax \in Int
  BY SumsAreNat DEF OrderInv, RowsInv
<1>12. WithinTheLimit'
  <2>1. NothingOverbilled' => NothingOverbilled /\ OwedBeforeTax' <= OwedBeforeTax
    BY <1>9, <1>10, <1>11
  <2> QED
    BY <1>5, <1>10, <2>1, LimitStands DEF OrderInv
<1> QED
  BY <1>7, <1>12

(* -------------------------- the promise of fulfilment ---------------------- *)

(* What an order owes, as the promise sees it.                                 *)
OwedUnits(q) == IF IsConfirmed(q) THEN Quantity[q] - orderLeft[q] ELSE -1

LEMMA OwedIsThePromise ==
  [q \in Quotes |-> IF orderOrders[q].status = "confirmed" THEN Quantity[q] - orderLeft[q] ELSE -1]
    = [q \in Quotes |-> OwedUnits(q)]
BY DEF OwedUnits, IsConfirmed

(* A step that confirms and ships nothing is a stutter of the promise.         *)
LEMMA PromiseStutters ==
  ASSUME orderLeft' = orderLeft, orderBin' = orderBin,
         \A q \in Quotes : IsConfirmed(q)' <=> IsConfirmed(q)
  PROVE  UNCHANGED Orders!Promise!vars
BY DEF Orders!Promise!vars, IsConfirmed

LEMMA ConfirmPromises ==
  ASSUME RowsInv, NEW s \in Sessions, Orders!CommitConfirm(s)
  PROVE  Orders!Promise!Next
<1>1. PICK q \in Quotes :
        /\ ~IsConfirmed(q) /\ IsConfirmed(q)' /\ orderLeft[q] = 0
        /\ \A r \in Quotes : r # q => orderOrders'[r] = orderOrders[r]
  BY OrderConfirms
<1>2. orderLeft' = orderLeft /\ orderBin' = orderBin
  BY OrderConfirms
<1>3. OwedUnits(q) = -1 /\ OwedUnits(q)' = Quantity[q]
  BY <1>1, <1>2, OrderConstants DEF OwedUnits
<1>4. \A r \in Quotes : r # q => OwedUnits(r)' = OwedUnits(r)
  BY <1>1, <1>2 DEF OwedUnits, IsConfirmed
<1>5. [r \in Quotes |-> OwedUnits(r)]' = [[r \in Quotes |-> OwedUnits(r)] EXCEPT ![q] = Quantity[q]]
  BY <1>3, <1>4
<1>6. Orders!Promise!Promise(q)
  BY <1>2, <1>3, <1>5 DEF Orders!Promise!Promise, OwedUnits, IsConfirmed
<1> QED
  BY <1>6 DEF Orders!Promise!Next

LEMMA ShipmentLeaves ==
  ASSUME RowsInv, NEW s \in Sessions, Orders!CommitShip(s)
  PROVE  Orders!Promise!Next
<1>1. PICK q \in Quotes : \E units \in 1..(Quantity[q] - orderLeft[q]) :
              /\ IsConfirmed(q) /\ units <= orderBin /\ orderBin' = orderBin - units
              /\ orderLeft' = [orderLeft EXCEPT ![q] = @ + units]
  BY OrderShips
<1>2. PICK units \in 1..(Quantity[q] - orderLeft[q]) :
              /\ IsConfirmed(q) /\ units <= orderBin /\ orderBin' = orderBin - units
              /\ orderLeft' = [orderLeft EXCEPT ![q] = @ + units]
  BY <1>1
<1>3. \A r \in Quotes : IsConfirmed(r)' <=> IsConfirmed(r)
  BY OrderShips
<1>4. orderLeft \in [Quotes -> Nat] /\ Quantity[q] \in Nat
  BY OrderTypesGive, OrderConstants DEF RowsInv
<1>5. OwedUnits(q) = Quantity[q] - orderLeft[q] /\ OwedUnits(q)' = OwedUnits(q) - units
  BY <1>2, <1>3, <1>4 DEF OwedUnits
<1>6. \A r \in Quotes : r # q => OwedUnits(r)' = OwedUnits(r)
  BY <1>2, <1>3, <1>4 DEF OwedUnits
<1>7. [r \in Quotes |-> OwedUnits(r)]' = [[r \in Quotes |-> OwedUnits(r)] EXCEPT ![q] = @ - units]
  BY <1>5, <1>6
<1>8. units \in 1..[r \in Quotes |-> OwedUnits(r)][q]
  BY <1>2, <1>5
<1>9. Orders!Promise!Leave(q)
  BY <1>2, <1>7, <1>8 DEF Orders!Promise!Leave, OwedUnits, IsConfirmed
<1> QED
  BY <1>9 DEF Orders!Promise!Next

(* ------------------------------ the desk's steps --------------------------- *)

(* A request that begins promises nothing and owes nothing.                    *)
LEMMA OrderBegins ==
  ASSUME OrderInv, Serial = TRUE, NEW s \in Sessions, NEW q \in Quotes,
         \/ \E p \in UnitPrices : Orders!BeginReprice(s, q, p)
         \/ Orders!BeginConvert(s, q)
         \/ \E acknowledge \in BOOLEAN, stated \in Stated \cup {Orders!Null} :
              Orders!BeginConfirm(s, q, acknowledge, stated)
         \/ \E units \in 1..Quantity[q] : Orders!BeginShip(s, q, units)
  PROVE  OrderInv' /\ UNCHANGED Orders!Promise!vars
<1> USE DEF OrderInv
<1> DEFINE Began(op) ==
             /\ RowsInv'
             /\ UNCHANGED <<orderMode, orderOrders, orderLeft, orderBin, orderInvoices, orderOnAccount,
                            orderWithheld>>
             /\ orderTx'[s].op = op /\ orderTx'[s].quote = q
             /\ \A t \in Sessions : t # s => orderTx'[t] = orderTx[t]
<1>1. ASSUME NEW op, Began(op) PROVE UNCHANGED Orders!Promise!vars
  BY <1>1, PromiseStutters DEF IsConfirmed
<1>2. ASSUME NEW op, op # "confirm", Began(op) PROVE CommitmentsCounted' /\ WithinTheLimit'
  <2>1. \A r \in Quotes : IsConfirmed(r)' <=> IsConfirmed(r)
    BY <1>2 DEF IsConfirmed
  <2>2. Orders!Posted' = Orders!Posted
    BY <1>2 DEF Orders!Posted
  <2>3. orderOnAccount \in Nat /\ orderOnAccount' = orderOnAccount /\ orderWithheld' = orderWithheld
    BY <1>2, OrderTypesGive DEF RowsInv
  <2>4. orderOnAccount <= orderOnAccount'
    BY <2>3
  <2> QED
    BY <1>2, <2>1, <2>2, <2>3, <2>4, CreditStands
<1>3. ASSUME NEW p \in UnitPrices, Orders!BeginReprice(s, q, p) PROVE Began("reprice")
  <2>1. Orders!Starts(s, "reprice", q, 0, p) /\ p \in Nat
    BY <1>3, OrderConstants DEF Orders!BeginReprice
  <2> QED
    BY <2>1, OrderStarts
<1>4. ASSUME Orders!BeginConvert(s, q) PROVE Began("convert")
  <2>1. Orders!Starts(s, "convert", q, orderQuotes[q].price, 0)
    BY <1>4 DEF Orders!BeginConvert
  <2>2. orderQuotes[q].price \in UnitPrices /\ orderQuotes[q].price \in Nat
    BY <1>4, OrderTypesGive, OrderConstants DEF RowsInv, Orders!BeginConvert, Orders!QuoteRows
  <2> QED
    BY <2>1, <2>2, OrderStarts
<1>5. ASSUME NEW units \in 1..Quantity[q], Orders!BeginShip(s, q, units) PROVE Began("ship")
  <2>1. /\ Orders!Starts(s, "ship", q, orderOrders[q].shipped, units)
        /\ orderOrders[q].status = "confirmed"
        /\ units \in 1..(Quantity[q] - orderOrders[q].shipped)
    BY <1>5 DEF Orders!BeginShip, Orders!Remaining
  <2>2. units \in Nat /\ orderOrders[q].shipped \in Nat
    BY OrderRowFields DEF RowsInv
  <2> QED
    BY <2>1, <2>2, OrderStarts
<1>6. ASSUME NEW acknowledge \in BOOLEAN, NEW stated \in Stated \cup {Orders!Null},
             Orders!BeginConfirm(s, q, acknowledge, stated)
      PROVE  Began("confirm") /\ CommitmentsCounted' /\ WithinTheLimit'
  <2> DEFINE seen == Orders!Judged(stated)
             short == Orders!Short(stated)
  <2>1. /\ Orders!Starts(s, "confirm", q, seen, short)
        /\ orderOrders[q].status = "draft"
        /\ orderMode = "block" => Orders!Within(seen + Orders!OrderTotal(q))
    BY <1>6 DEF Orders!BeginConfirm
  <2>2. Orders!Exposure \in Nat
    <3>1. Orders!Exposure = Orders!Largest(0, OpenSum + UnbilledSum - orderOnAccount)
      BY DEF Orders!Exposure, OpenSum, UnbilledSum, Orders!Largest
    <3>2. OpenSum \in Nat /\ UnbilledSum \in Nat /\ orderOnAccount \in Nat
      BY SumsAreNat, OrderRowFields DEF RowsInv
    <3> QED
      BY <3>1, <3>2 DEF Orders!Largest
  <2>3. seen \in Nat
    BY <2>2, OrderConstants DEF Orders!Judged
  <2>4. short \in Nat /\ Orders!Exposure <= seen + short
    BY <2>2, <2>3 DEF Orders!Short, Orders!Largest
  <2> HIDE DEF seen, short
  <2>5. Began("confirm") /\ orderTx'[s].asked = short
    BY <2>1, <2>3, <2>4, OrderStarts
  <2>6. CommitmentsCounted' /\ WithinTheLimit'
    BY <2>1, <2>3, <2>4, <2>5, CreditAtBeginning
  <2> QED
    BY <2>5, <2>6
<1> HIDE DEF Began
<1>7. CASE \E acknowledge \in BOOLEAN, stated \in Stated \cup {Orders!Null} :
              Orders!BeginConfirm(s, q, acknowledge, stated)
  <2>1. RowsInv' /\ CommitmentsCounted' /\ WithinTheLimit' /\ UNCHANGED Orders!Promise!vars
    BY <1>1, <1>6, <1>7 DEF Began
  <2> QED
    BY <2>1
<1>8. CASE ~ \E acknowledge \in BOOLEAN, stated \in Stated \cup {Orders!Null} :
              Orders!BeginConfirm(s, q, acknowledge, stated)
  <2>1. PICK op \in {"reprice", "convert", "ship"} : Began(op)
    BY <1>3, <1>4, <1>5, <1>8
  <2>2. op # "confirm"
    BY <2>1
  <2>3. RowsInv' /\ CommitmentsCounted' /\ WithinTheLimit' /\ UNCHANGED Orders!Promise!vars
    BY <1>1, <1>2, <2>1, <2>2 DEF Began
  <2> QED
    BY <2>3
<1> QED
  BY <1>7, <1>8

(* A request that ends writes its order, which nobody else is at.              *)
LEMMA OrderCommits ==
  ASSUME OrderInv, NEW s \in Sessions,
         \/ Orders!CommitReprice(s) \/ Orders!CommitConvert(s) \/ Orders!CommitConfirm(s)
         \/ Orders!CommitShip(s) \/ Orders!Abort(s)
  PROVE  OrderInv' /\ [Orders!Promise!Next]_(Orders!Promise!vars)
<1> USE DEF OrderInv
<1>1. orderOnAccount \in Nat /\ orderOnAccount <= orderOnAccount
  BY OrderTypesGive DEF RowsInv
<1>2. CASE Orders!CommitReprice(s) \/ Orders!Abort(s)
  <2>1. /\ orderTx' = [orderTx EXCEPT ![s] = Orders!Idle]
        /\ UNCHANGED <<orderToday, orderMode, orderOrders, orderPicked, orderLeft, orderBin,
                       orderInvoices, orderOnAccount, orderWithheld>>
    BY <1>2 DEF Orders!CommitReprice, Orders!Abort, Orders!Ends
  <2>2. orderQuotes' \in [Quotes -> Orders!QuoteRows]
    <3>1. CASE Orders!Abort(s)
      BY <3>1, OrderTypesGive DEF Orders!Abort, RowsInv
    <3>2. CASE Orders!CommitReprice(s)
      <4> DEFINE q == orderTx[s].quote
                 one == [orderQuotes EXCEPT ![q].price = orderTx[s].asked]
                 two == [one EXCEPT ![q].until = LastDay]
      <4>1. orderTx[s].op = "reprice" /\ orderQuotes' = two
        BY <3>2 DEF Orders!CommitReprice, Orders!Ends
      <4>2. q \in Quotes /\ orderTx[s].asked \in UnitPrices
        BY <4>1 DEF RowsInv, ReadsAreCurrent, FitsOrder
      <4>3. LastDay \in Orders!Days
        BY OrderConstants DEF Orders!Days
      <4>4. orderQuotes \in [Quotes -> Orders!QuoteRows]
        BY OrderTypesGive DEF RowsInv
      <4> HIDE DEF q
      <4>5. one \in [Quotes -> Orders!QuoteRows]
        BY <4>2, <4>4 DEF Orders!QuoteRows
      <4> HIDE DEF one
      <4>6. two \in [Quotes -> Orders!QuoteRows]
        BY <4>2, <4>3, <4>5 DEF Orders!QuoteRows
      <4> QED
        BY <4>1, <4>6
    <3> QED
      BY <1>2, <3>1, <3>2
  <2>3. /\ RowsInv'
        /\ \A t \in Sessions : orderTx'[t].op # "none" => orderTx'[t] = orderTx[t]
    BY <2>1, <2>2, OrderEnds
  <2>4. Orders!Posted' = Orders!Posted
    BY <2>1 DEF Orders!Posted
  <2>5. \A q \in Quotes : IsConfirmed(q)' <=> IsConfirmed(q)
    BY <2>1 DEF IsConfirmed
  <2>6. CommitmentsCounted' /\ WithinTheLimit'
    BY <1>1, <2>1, <2>3, <2>4, <2>5, CreditStands
  <2> QED
    BY <2>1, <2>3, <2>5, <2>6, PromiseStutters
<1>3. CASE Orders!CommitConvert(s)
  <2>1. /\ RowsInv'
        /\ UNCHANGED <<orderMode, orderLeft, orderBin, orderInvoices, orderOnAccount, orderWithheld>>
        /\ \A q \in Quotes : /\ IsConfirmed(q)' <=> IsConfirmed(q)
                             /\ IsConfirmed(q) => orderOrders'[q] = orderOrders[q]
        /\ \A t \in Sessions : orderTx'[t].op # "none" =>
              /\ orderTx'[t] = orderTx[t] /\ orderTx[t].quote \in Quotes
              /\ orderOrders'[orderTx[t].quote] = orderOrders[orderTx[t].quote]
    BY <1>3, OrderConverts
  <2>2. Orders!Posted' = Orders!Posted
    BY <2>1 DEF Orders!Posted
  <2>3. CommitmentsCounted' /\ WithinTheLimit'
    BY <1>1, <2>1, <2>2, CreditStands
  <2> QED
    BY <2>1, <2>3, PromiseStutters
<1>4. CASE Orders!CommitConfirm(s)
  BY <1>4, OrderConfirms, CreditOfConfirmed, ConfirmPromises
<1>5. CASE Orders!CommitShip(s)
  <2>1. /\ RowsInv' /\ UNCHANGED <<orderMode, orderInvoices, orderOnAccount, orderWithheld>>
        /\ \A q \in Quotes : /\ IsConfirmed(q)' <=> IsConfirmed(q)
                             /\ orderOrders'[q].price = orderOrders[q].price
        /\ \A t \in Sessions : orderTx'[t].op # "none" =>
             orderTx'[t] = orderTx[t] /\ orderTx[t].quote \in Quotes
    BY <1>5, OrderShips
  <2>2. Orders!Posted' = Orders!Posted
    BY <2>1 DEF Orders!Posted
  <2>3. CommitmentsCounted' /\ WithinTheLimit'
    BY <1>1, <2>1, <2>2, CreditStands
  <2> QED
    BY <1>5, <2>1, <2>3, ShipmentLeaves
<1> QED
  BY <1>2, <1>3, <1>4, <1>5

(* A step at the offers, the picks, the account or the date.                   *)
LEMMA OrderElsewhere ==
  ASSUME OrderInv, OrderTypes',
         UNCHANGED <<orderMode, orderOrders, orderLeft, orderBin, orderInvoices, orderWithheld,
                     orderTx>>,
         orderOnAccount <= orderOnAccount'
  PROVE  OrderInv' /\ UNCHANGED Orders!Promise!vars
<1> USE DEF OrderInv
<1>1. RowsInv'
  BY DEF RowsInv, ShippedHasLeft, ReadsAreCurrent, FitsOrder, OneAtAnOrder, InvoicesFit
<1>2. Orders!Posted' = Orders!Posted /\ orderOnAccount' \in Nat
  BY DEF Orders!Posted, OrderTypes, Orders!TypeOK
<1>3. \A q \in Quotes : IsConfirmed(q)' <=> IsConfirmed(q)
  BY DEF IsConfirmed
<1>4. CommitmentsCounted' /\ WithinTheLimit'
  BY <1>2, <1>3, CreditStands
<1> QED
  BY <1>1, <1>3, <1>4, PromiseStutters

(* An invoice is raised, posted or settled.                                    *)
LEMMA OrderInvoices ==
  ASSUME OrderInv, NEW i \in Bills,
         \/ \E q \in Quotes \cup {Orders!None}, net \in Nets : Orders!CreateInvoice(i, q, net)
         \/ Orders!PostInvoice(i)
         \/ \E amount \in Payments : Orders!Receive(i, amount)
         \/ Orders!Place(i)
  PROVE  OrderInv' /\ UNCHANGED Orders!Promise!vars
<1> USE DEF OrderInv
<1>1. UNCHANGED <<orderToday, orderMode, orderQuotes, orderOrders, orderPicked, orderLeft, orderBin,
                  orderWithheld, orderTx>>
  BY DEF Orders!CreateInvoice, Orders!PostInvoice, Orders!Receive, Orders!Place
<1>2. UNCHANGED Orders!Promise!vars
  BY <1>1, PromiseStutters DEF IsConfirmed
<1>3. /\ orderInvoices \in [Bills -> Orders!InvoiceRows] /\ orderOnAccount \in Nat
      /\ orderInvoices[i].settled \in Nat /\ orderInvoices[i].net \in Nat /\ Tax \in Nat
  BY OrderTypesGive, OrderRowFields, OrderConstants DEF RowsInv
<1>4. ASSUME orderInvoices' \in [Bills -> Orders!InvoiceRows], orderOnAccount' \in Nat, InvoicesFit'
      PROVE  RowsInv'
  BY <1>1, <1>4 DEF RowsInv, OrderTypes, Orders!TypeOK, ShippedHasLeft, ReadsAreCurrent, FitsOrder,
                    OneAtAnOrder
<1>5. CASE \E q \in Quotes \cup {Orders!None}, net \in Nets : Orders!CreateInvoice(i, q, net)
  <2>1. PICK q \in Quotes \cup {Orders!None}, net \in Nets : Orders!CreateInvoice(i, q, net)
    BY <1>5
  <2> DEFINE row == [status |-> "draft", order |-> q, net |-> net, settled |-> 0]
  <2>2. /\ orderInvoices[i].status = "absent" /\ (q \in Quotes => orderLeft[q] > 0)
        /\ orderInvoices' = [orderInvoices EXCEPT ![i] = row] /\ orderOnAccount' = orderOnAccount
    BY <2>1, OrderConstants DEF Orders!CreateInvoice
  <2>3. /\ row \in Orders!InvoiceRows /\ row.status = "draft" /\ row.order = q
        /\ row.net = net /\ row.settled = 0
    BY DEF Orders!InvoiceRows
  <2> HIDE DEF row
  <2>4. /\ orderInvoices' \in [Bills -> Orders!InvoiceRows] /\ orderInvoices'[i] = row
        /\ \A j \in Bills : j # i => orderInvoices'[j] = orderInvoices[j]
    BY <1>3, <2>2, <2>3
  <2>5. q \in Quotes => orderOrders[q].status = "confirmed"
    BY <2>2, OrderTypesGive DEF RowsInv, ShippedHasLeft
  <2>6. net \in Nat
    BY OrderConstants
  <2>7. InvoicesFit'
    BY <1>1, <1>3, <2>3, <2>4, <2>5, <2>6 DEF RowsInv, InvoicesFit
  <2>8. RowsInv'
    BY <1>3, <1>4, <2>2, <2>4, <2>7
  <2>9. /\ Orders!Posted' = Orders!Posted
        /\ \A j \in Orders!Posted : orderInvoices'[j] = orderInvoices[j]
    BY <2>2, <2>3, <2>4 DEF Orders!Posted
  <2>10. \A r \in Quotes : IsConfirmed(r)' <=> IsConfirmed(r)
    BY <1>1 DEF IsConfirmed
  <2>11. CommitmentsCounted' /\ WithinTheLimit'
    BY <1>1, <1>3, <2>2, <2>9, <2>10, CreditStands
  <2> QED
    BY <1>2, <2>8, <2>11
<1>6. CASE Orders!PostInvoice(i)
  <2>1. /\ orderInvoices[i].status = "draft"
        /\ orderInvoices' = [orderInvoices EXCEPT ![i].status = "posted"]
        /\ orderOnAccount' = orderOnAccount
    BY <1>6 DEF Orders!PostInvoice
  <2>2. /\ orderInvoices' \in [Bills -> Orders!InvoiceRows]
        /\ \A j \in Bills : /\ orderInvoices'[j].order = orderInvoices[j].order
                            /\ orderInvoices'[j].net = orderInvoices[j].net
                            /\ orderInvoices'[j].settled = orderInvoices[j].settled
        /\ orderInvoices'[i].status = "posted"
        /\ \A j \in Bills : j # i => orderInvoices'[j].status = orderInvoices[j].status
    BY <1>3, <2>1 DEF Orders!InvoiceRows
  <2>3. InvoicesFit'
    BY <1>1, <2>1, <2>2 DEF RowsInv, InvoicesFit
  <2>4. RowsInv'
    BY <1>3, <1>4, <2>1, <2>2, <2>3
  <2> QED
    BY <1>2, <1>6, <2>4, CreditOfPosted
<1>7. ASSUME NEW amount \in Nat, Orders!Settle(i, amount), orderOnAccount' \in Nat
      PROVE  RowsInv'
  <2>1. /\ orderInvoices[i].status = "posted" /\ amount \in 1..Orders!OpenAmount(i)
        /\ orderInvoices' = [orderInvoices EXCEPT ![i].settled = @ + amount]
    BY <1>7 DEF Orders!Settle
  <2>2. /\ orderInvoices' \in [Bills -> Orders!InvoiceRows]
        /\ \A j \in Bills : /\ orderInvoices'[j].order = orderInvoices[j].order
                            /\ orderInvoices'[j].net = orderInvoices[j].net
                            /\ orderInvoices'[j].status = orderInvoices[j].status
        /\ orderInvoices'[i].settled = orderInvoices[i].settled + amount
        /\ \A j \in Bills : j # i => orderInvoices'[j].settled = orderInvoices[j].settled
    BY <1>3, <1>7, <2>1 DEF Orders!InvoiceRows
  <2>3. orderInvoices'[i].settled <= orderInvoices[i].net + Tax
    BY <1>3, <1>7, <2>1, <2>2 DEF Orders!OpenAmount, Orders!Gross
  <2>4. InvoicesFit'
    BY <1>1, <2>1, <2>2, <2>3 DEF RowsInv, InvoicesFit
  <2> QED
    BY <1>4, <1>7, <2>2, <2>4
<1>8. CASE \E amount \in Payments : Orders!Receive(i, amount)
  <2>1. PICK amount \in Payments : Orders!Receive(i, amount)
    BY <1>8
  <2>2. amount \in Nat /\ Orders!Settle(i, amount) /\ orderOnAccount' = orderOnAccount
    BY <2>1, OrderConstants DEF Orders!Receive
  <2>3. orderOnAccount <= orderOnAccount' + amount
    BY <1>3, <2>2
  <2> QED
    BY <1>1, <1>2, <1>3, <1>7, <2>2, <2>3, CreditOfSettled
<1>9. CASE Orders!Place(i)
  <2>1. Orders!Settle(i, orderOnAccount) /\ orderOnAccount' = 0
    BY <1>9 DEF Orders!Place
  <2>2. PICK amount \in Nat : amount = orderOnAccount
    BY <1>3
  <2>3. /\ Orders!Settle(i, amount) /\ orderOnAccount' \in Nat
        /\ orderOnAccount <= orderOnAccount' + amount
    BY <1>3, <2>1, <2>2
  <2> QED
    BY <1>1, <1>2, <1>7, <2>3, CreditOfSettled
<1> QED
  BY <1>5, <1>6, <1>8, <1>9

(* Every step keeps the invariant, and is a step of the promise or a stutter.  *)
LEMMA OrderStep ==
  ASSUME OrderInv, Serial = TRUE, [Orders!Next]_(Orders!vars)
  PROVE  OrderInv' /\ [Orders!Promise!Next]_(Orders!Promise!vars)
<1>1. CASE \E s \in Sessions : Orders!Request(s)
  BY <1>1, OrderBegins, OrderCommits DEF Orders!Request
<1>2. /\ orderToday \in Orders!Days /\ orderQuotes \in [Quotes -> Orders!QuoteRows]
      /\ orderPicked \in [Quotes -> Orders!PickRows] /\ orderOnAccount \in Nat
      /\ orderOnAccount <= orderOnAccount /\ Quantity \in [Quotes -> Nat]
      /\ UnitPrices \subseteq Nat /\ Payments \subseteq Nat /\ LastDay \in Nat \ {0}
  BY OrderTypesGive, OrderConstants DEF OrderInv, RowsInv
<1>3. ASSUME UNCHANGED <<orderMode, orderOrders, orderLeft, orderBin, orderInvoices, orderWithheld,
                     orderTx>>,
             orderToday' \in Orders!Days, orderQuotes' \in [Quotes -> Orders!QuoteRows],
             orderPicked' \in [Quotes -> Orders!PickRows], orderOnAccount' \in Nat,
             orderOnAccount <= orderOnAccount'
      PROVE  OrderInv' /\ UNCHANGED Orders!Promise!vars
  <2>1. OrderTypes'
    BY <1>3 DEF OrderInv, RowsInv, OrderTypes, Orders!TypeOK
  <2> QED
    BY <1>3, <2>1, OrderElsewhere
<1>4. ASSUME NEW q \in Quotes, NEW until \in {1, Orders!Null}, Orders!CreateQuotation(q, until)
      PROVE  OrderInv' /\ UNCHANGED Orders!Promise!vars
  <2> DEFINE row == [status |-> "open", price |-> Orders!Null, until |-> until]
  <2>1. row \in Orders!QuoteRows
    BY <1>2 DEF Orders!QuoteRows, Orders!Days
  <2>2. orderQuotes' = [orderQuotes EXCEPT ![q] = row]
    BY <1>4 DEF Orders!CreateQuotation
  <2> HIDE DEF row
  <2>3. orderQuotes' \in [Quotes -> Orders!QuoteRows]
    BY <1>2, <2>1, <2>2
  <2> QED
    BY <1>2, <1>3, <1>4, <2>3 DEF Orders!CreateQuotation
<1>5. ASSUME NEW q \in Quotes, NEW p \in UnitPrices, Orders!AddLine(q, p)
      PROVE  OrderInv' /\ UNCHANGED Orders!Promise!vars
  <2>1. orderQuotes' = [orderQuotes EXCEPT ![q].price = p]
    BY <1>5 DEF Orders!AddLine
  <2>2. orderQuotes' \in [Quotes -> Orders!QuoteRows]
    BY <1>2, <2>1 DEF Orders!QuoteRows
  <2> QED
    BY <1>2, <1>3, <1>5, <2>2 DEF Orders!AddLine
<1>6. ASSUME NEW q \in Quotes, Orders!GeneratePickList(q) \/ Orders!RecordPicked(q, Quantity[q])
      PROVE  OrderInv' /\ UNCHANGED Orders!Promise!vars
  <2>1. PICK n \in Nat : orderPicked' = [orderPicked EXCEPT ![q] = n]
    BY <1>2, <1>6 DEF Orders!GeneratePickList, Orders!RecordPicked
  <2>2. orderPicked' \in [Quotes -> Orders!PickRows]
    BY <1>2, <2>1 DEF Orders!PickRows
  <2> QED
    BY <1>2, <1>3, <1>6, <2>2 DEF Orders!GeneratePickList, Orders!RecordPicked
<1>7. ASSUME NEW amount \in Payments, Orders!Park(amount)
      PROVE  OrderInv' /\ UNCHANGED Orders!Promise!vars
  <2>1. orderOnAccount = 0 /\ orderOnAccount' = amount /\ amount \in Nat
    BY <1>2, <1>7 DEF Orders!Park
  <2>2. orderOnAccount <= orderOnAccount'
    BY <2>1
  <2> QED
    BY <1>2, <1>3, <1>7, <2>1, <2>2 DEF Orders!Park
<1>8. CASE Orders!Tomorrow
  <2>1. orderToday' \in Orders!Days
    BY <1>2, <1>8 DEF Orders!Tomorrow, Orders!Days
  <2> QED
    BY <1>2, <1>3, <1>8, <2>1 DEF Orders!Tomorrow
<1>9. CASE UNCHANGED Orders!vars
  BY <1>2, <1>3, <1>9 DEF Orders!vars
<1>10. CASE \E q \in Quotes :
              \/ \E until \in {1, Orders!Null} : Orders!CreateQuotation(q, until)
              \/ \E p \in UnitPrices : Orders!AddLine(q, p)
              \/ Orders!GeneratePickList(q)
              \/ Orders!RecordPicked(q, Quantity[q])
  BY <1>4, <1>5, <1>6, <1>10
<1>11. CASE \E i \in Bills :
              \/ \E q \in Quotes \cup {Orders!None}, net \in Nets : Orders!CreateInvoice(i, q, net)
              \/ Orders!PostInvoice(i)
              \/ \E amount \in Payments : Orders!Receive(i, amount)
              \/ Orders!Place(i)
  BY <1>11, OrderInvoices
<1>12. CASE \E amount \in Payments : Orders!Park(amount)
  BY <1>7, <1>12
<1> QED
  BY <1>1, <1>8, <1>9, <1>10, <1>11, <1>12 DEF Orders!Next

(* ------------------------ the start, and what it gives --------------------- *)

LEMMA OrderStart ==
  ASSUME Orders!Init
  PROVE  OrderInv /\ Orders!Promise!Init
<1>1. /\ Orders!Idle \in OrderRequests /\ Orders!Idle.op = "none"
      /\ Orders!NoOrder \in Orders!OrderRows
      /\ Orders!NoOrder.status = "absent" /\ Orders!NoOrder.shipped = 0
  BY DEF Orders!Idle, OrderRequests, Orders!None, Orders!NoOrder, Orders!OrderRows
<1>2. /\ orderToday = 1 /\ orderMode \in Orders!Modes /\ orderOnAccount = 0 /\ orderBin = Stocked
      /\ orderWithheld = 0
      /\ orderOrders = [q \in Quotes |-> Orders!NoOrder] /\ orderLeft = [q \in Quotes |-> 0]
      /\ orderPicked = [q \in Quotes |-> Orders!Null]
      /\ orderTx = [s \in Sessions |-> Orders!Idle]
      /\ orderQuotes = [q \in Quotes |-> [status |-> "absent", price |-> Orders!Null,
                                          until |-> Orders!Null]]
      /\ orderInvoices = [i \in Bills |-> [status |-> "absent", order |-> Orders!None, net |-> 0,
                                           settled |-> 0]]
  BY OrderConstants DEF Orders!Init
<1>3. OrderTypes
  <2>1. orderToday \in Orders!Days /\ orderBin \in Nat /\ orderOnAccount \in Nat /\ orderWithheld \in Nat
    BY <1>2, OrderConstants DEF Orders!Days
  <2>2. orderQuotes \in [Quotes -> Orders!QuoteRows]
    BY <1>2 DEF Orders!QuoteRows
  <2>3. orderInvoices \in [Bills -> Orders!InvoiceRows]
    BY <1>2 DEF Orders!InvoiceRows
  <2>4. orderOrders \in [Quotes -> Orders!OrderRows] /\ orderTx \in [Sessions -> OrderRequests]
    BY <1>1, <1>2
  <2>5. orderPicked \in [Quotes -> Orders!PickRows] /\ orderLeft \in [Quotes -> Nat]
    BY <1>2 DEF Orders!PickRows
  <2> QED
    BY <1>2, <2>1, <2>2, <2>3, <2>4, <2>5 DEF OrderTypes, Orders!TypeOK
<1>4. \A q \in Quotes : orderOrders[q].status # "confirmed" /\ ~IsConfirmed(q)
  BY <1>1, <1>2 DEF IsConfirmed
<1>5. ShippedHasLeft
  BY <1>1, <1>2, <1>4, OrderConstants DEF ShippedHasLeft
<1>6. ReadsAreCurrent /\ OneAtAnOrder
  BY <1>1, <1>2 DEF ReadsAreCurrent, FitsOrder, OneAtAnOrder
<1>7. InvoicesFit
  BY <1>2 DEF InvoicesFit
<1>8. RowsInv
  BY <1>3, <1>5, <1>6, <1>7 DEF RowsInv
<1>9. /\ OpenSum \in Nat /\ SettledSum \in Nat /\ UnbilledSum \in Nat /\ PromisedSum = 0
      /\ OpenSum = 0 /\ UnbilledSum = 0 /\ TaxSum \in Nat /\ DirectNet = 0
  <2>1. Orders!Posted = {}
    BY <1>2 DEF Orders!Posted
  <2>2. OpenSum = 0
    <3> DEFINE f == [i \in Orders!Posted |-> Orders!OpenAmount(i)]
    <3>1. f \in [Orders!Posted -> Nat] /\ \A x \in Orders!Posted : f[x] = 0
      BY <2>1
    <3> HIDE DEF f
    <3>2. Orders!Total(f) = 0
      BY <3>1, TotalOfNothing
    <3> USE DEF f
    <3> QED
      BY <3>2 DEF OpenSum
  <2>3. UnbilledSum = 0
    <3> DEFINE f == [q \in Quotes |-> Orders!Unbilled(q)]
    <3>1. f \in [Quotes -> Nat] /\ \A x \in Quotes : f[x] = 0
      BY <1>4 DEF Orders!Unbilled
    <3> HIDE DEF f
    <3>2. Orders!Total(f) = 0
      BY <3>1, TotalOfNothing
    <3> USE DEF f
    <3> QED
      BY <3>2 DEF UnbilledSum
  <2>4. PromisedSum = 0
    <3> DEFINE f == [q \in Quotes |-> Promised(q)]
    <3>1. f \in [Quotes -> Nat] /\ \A x \in Quotes : f[x] = 0
      BY <1>4 DEF Promised
    <3> HIDE DEF f
    <3>2. Orders!Total(f) = 0
      BY <3>1, TotalOfNothing
    <3> USE DEF f
    <3> QED
      BY <3>2 DEF PromisedSum
  <2>5. DirectNet = 0
    <3> DEFINE S == {j \in Orders!Posted : orderInvoices[j].order = Orders!None}
               f == [i \in S |-> orderInvoices[i].net]
    <3>1. f \in [S -> Nat] /\ \A x \in S : f[x] = 0
      BY <2>1
    <3> HIDE DEF f, S
    <3>2. Orders!Total(f) = 0
      BY <3>1, TotalOfNothing
    <3> QED
      BY <3>2 DEF f, S, DirectNet, Orders!BilledNet
  <2> QED
    BY <1>3, <1>7, <2>2, <2>3, <2>4, <2>5, SumsAreNat
<1>10. CommitmentsCounted
  BY <1>9 DEF CommitmentsCounted
<1>11. WithinTheLimit
  <2>1. Limit # Orders!Null => Limit \in Nat
    BY OrderConstants
  <2>2. \A s \in Sessions : orderTx[s].op # "confirm"
    BY <1>1, <1>2
  <2>3. OwedBeforeTax = 0 + 0 - 0 - TaxSum - 0 - 0
    BY <1>2, <1>9 DEF OwedBeforeTax
  <2>4. 0 + 0 - 0 - TaxSum - 0 - 0 <= 0
    BY <1>9
  <2> QED
    BY <2>1, <2>2, <2>3, <2>4, <1>9 DEF WithinTheLimit
<1>12. Orders!Promise!Init
  BY <1>2, <1>4, OrderConstants DEF Orders!Promise!Init
<1> QED
  BY <1>8, <1>10, <1>11, <1>12 DEF OrderInv

LEMMA ExposureIsOwed ==
  ASSUME OrderInv
  PROVE  /\ Orders!Exposure = Orders!Largest(0, OpenSum + UnbilledSum - orderOnAccount)
         /\ OpenSum \in Nat /\ UnbilledSum \in Nat /\ SettledSum \in Nat /\ PromisedSum \in Nat
         /\ TaxSum \in Nat /\ orderOnAccount \in Nat /\ DirectNet \in Nat /\ orderWithheld \in Nat
BY SumsAreNat, OrderRowFields
   DEF OrderInv, RowsInv, Orders!Exposure, OpenSum, UnbilledSum, Orders!Largest

(* What left is at most what was promised, and what was promised is counted.   *)
LEMMA OrderInvCoversGoods ==
  ASSUME OrderInv
  PROVE  Orders!ExposureCoversGoods
<1> DEFINE goods == [q \in Quotes |-> orderLeft[q] * orderOrders[q].price]
           promised == [q \in Quotes |-> Promised(q)]
<1>1. \A q \in Quotes :
        /\ orderLeft[q] * orderOrders[q].price \in Nat /\ Promised(q) \in Nat
        /\ orderLeft[q] * orderOrders[q].price <= Promised(q)
  <2> SUFFICES ASSUME NEW q \in Quotes
               PROVE  /\ orderLeft[q] * orderOrders[q].price \in Nat /\ Promised(q) \in Nat
                      /\ orderLeft[q] * orderOrders[q].price <= Promised(q)
    OBVIOUS
  <2>1. /\ orderLeft[q] \in Nat /\ orderOrders[q].price \in Nat /\ Quantity[q] \in Nat
        /\ orderLeft[q] <= Quantity[q] /\ (~IsConfirmed(q) => orderLeft[q] = 0)
    BY OrderRowFields DEF OrderInv, RowsInv, ShippedHasLeft, IsConfirmed
  <2>2. PICK l \in Nat, p \in Nat, n \in Nat :
          l = orderLeft[q] /\ p = orderOrders[q].price /\ n = Quantity[q]
    BY <2>1
  <2>3. l * p \in Nat /\ n * p \in Nat /\ (l <= n => l * p <= n * p)
    <3>1. ASSUME l <= n PROVE l * p <= n * p
      <4>1. PICK more \in Nat : n = l + more
        <5>1. n - l \in Nat /\ n = l + (n - l)
          BY <3>1
        <5> QED
          BY <5>1
      <4>2. n * p = l * p + more * p /\ more * p \in Nat /\ l * p \in Nat
        BY <4>1
      <4> QED
        BY <4>2
    <3> QED
      BY <3>1
  <2>4. CASE IsConfirmed(q)
    <3>1. Promised(q) = n * p
      BY <2>2, <2>4 DEF Promised, Orders!OrderTotal
    <3> QED
      BY <2>1, <2>2, <2>3, <3>1
  <2>5. CASE ~IsConfirmed(q)
    <3>1. Promised(q) = 0 /\ l = 0
      BY <2>1, <2>2, <2>5 DEF Promised
    <3> QED
      BY <2>2, <2>3, <3>1
  <2> QED
    BY <2>4, <2>5
<1>2. goods \in [Quotes -> Nat] /\ promised \in [Quotes -> Nat] /\ \A q \in Quotes : goods[q] <= promised[q]
  BY <1>1
<1> HIDE DEF goods, promised
<1>3. Orders!Total(goods) <= Orders!Total(promised) /\ Orders!Total(goods) \in Nat
  BY <1>2, OrderConstants, TotalIsMonotone, TotalIsNat
<1>4. Orders!Total(promised) = PromisedSum
  BY DEF promised, PromisedSum
<1>5. PICK goodsSum \in Int : goodsSum = Orders!Total(goods)
  BY <1>3
<1>6. Orders!Exposure >= goodsSum + DirectNet - SettledSum - orderOnAccount
  <2>1. PICK a \in Int, b \in Int, c \in Int, d \in Int, e \in Int, f \in Int :
          /\ a = OpenSum /\ b = SettledSum /\ c = UnbilledSum /\ d = PromisedSum
          /\ e = orderOnAccount /\ f = DirectNet
    BY ExposureIsOwed
  <2>2. a + b + c >= d + f /\ goodsSum <= d
    BY <1>3, <1>4, <1>5, <2>1 DEF OrderInv, CommitmentsCounted
  <2>3. Orders!Exposure = IF 0 > a + c - e THEN 0 ELSE a + c - e
    BY <2>1, ExposureIsOwed DEF Orders!Largest
  <2>4. Orders!Exposure >= goodsSum + f - b - e
    BY <2>2, <2>3
  <2> QED
    BY <2>1, <2>4
<1> USE DEF goods
<1> QED
  BY <1>5, <1>6 DEF Orders!ExposureCoversGoods, SettledSum, DirectNet

LEMMA OrderInvBlocks ==
  ASSUME OrderInv
  PROVE  Orders!BlockedWithinLimit
<1> SUFFICES ASSUME orderMode = "block", NothingOverbilled, Limit # Orders!Null
             PROVE  Orders!Exposure - TaxSum - DirectNet - orderWithheld <= Limit
  BY OrderSumSets
     DEF Orders!BlockedWithinLimit, Orders!Within, NothingOverbilled, TaxSum, DirectNet
<1>1. OwedBeforeTax <= Limit /\ Limit \in Nat
  BY OrderConstants DEF OrderInv, WithinTheLimit
<1>2. PICK a \in Int, c \in Int, e \in Int :
          a = OpenSum /\ c = UnbilledSum /\ e = orderOnAccount
  BY ExposureIsOwed
<1>3. PICK t \in Nat, d \in Nat, w \in Nat : t = TaxSum /\ d = DirectNet /\ w = orderWithheld
  BY ExposureIsOwed
<1>4. a + c - e - t - d - w <= Limit
  BY <1>1, <1>2, <1>3 DEF OwedBeforeTax
<1>5. Orders!Exposure = IF 0 > a + c - e THEN 0 ELSE a + c - e
  BY <1>2, ExposureIsOwed DEF Orders!Largest
<1>6. Orders!Exposure - t - d - w <= Limit
  BY <1>1, <1>4, <1>5
<1> QED
  BY <1>3, <1>6

(* --------------------------------- the board ------------------------------- *)

LEMMA BoardConstants ==
  Stages \subseteq Nat \ {0} /\ Meaning \in [Stages -> {"open", "won", "lost"}]
BY Parameters DEF Board!BoardAssumption

(* A request was refused nothing that could have changed since it began.       *)
RequestFits(q, cards, customers) ==
  /\ q.op = "move" => /\ q.card \in Cards /\ q.to \in Stages
                      /\ q.read = cards[q.card] /\ cards[q.card] # Board!Absent
  /\ q.op = "create" => /\ q.card \in Cards /\ q.customer \in Customers /\ q.to \in Stages
                        /\ customers[q.customer] = "live"
  /\ q.op = "retire" => /\ q.customer \in Customers
                        /\ \A o \in Cards : cards[o].customer # q.customer
  /\ q.op = "convert" => q.card \in Cards

RequestsFit == \A s \in Sessions : RequestFits(boardTx[s], boardCards, boardCustomers)

(* Two requests at once: one of them converts, and the other does not move.    *)
Beside(q, other) == q.op = "convert" /\ other.op \in {"convert", "create", "retire"}
BoardTurns ==
  \A s, t \in Sessions : s # t =>
    \/ boardTx[s] = Board!Idle \/ boardTx[t] = Board!Idle
    \/ Beside(boardTx[s], boardTx[t]) \/ Beside(boardTx[t], boardTx[s])

(* The trail of a card: unbroken, and it ends where the card stands.           *)
TrailFits(card, trail) ==
  card # Board!Absent =>
    /\ card.customer \in Customers /\ card.stage \in Stages /\ Len(trail) > 0
    /\ card.stage = trail[Len(trail)].to
    /\ \A i \in 1..(Len(trail) - 1) : trail[i].to = trail[i + 1].from
    /\ Len(trail) > 1 => /\ card.reason = (Meaning[card.stage] = "lost")
                         /\ card.closed = (Meaning[card.stage] # "open")
TrailsFit == \A o \in Cards : TrailFits(boardCards[o], boardTrail[o])

BoardTypes ==
  /\ Board!TypeOK
  /\ boardTrail \in [Cards -> Seq(Board!MoveRows)]

BoardInv ==
  /\ BoardTypes /\ RequestsFit /\ BoardTurns /\ TrailsFit
  /\ Board!OneQuotationPerWin /\ Board!NamedCustomersStand

LEMMA IdleRequest ==
  /\ Board!Idle \in Board!Requests /\ Board!Idle.op = "none"
  /\ Board!Absent \in Board!CardRows /\ Board!Absent.customer = Board!Nobody
BY DEF Board!Idle, Board!Requests, Board!CardRows, Board!Absent

LEMMA BoardStart == Board!Init => BoardInv
<1> SUFFICES ASSUME Board!Init PROVE BoardInv
  OBVIOUS
<1> USE DEF Board!Init
<1>1. BoardTypes
  BY IdleRequest DEF BoardTypes, Board!TypeOK
<1>2. RequestsFit /\ BoardTurns
  BY IdleRequest DEF RequestsFit, RequestFits, BoardTurns
<1>3. TrailsFit /\ Board!NamedCustomersStand
  BY DEF TrailsFit, TrailFits, Board!NamedCustomersStand
<1>4. Board!OneQuotationPerWin
  BY DEF Board!OneQuotationPerWin
<1> QED
  BY <1>1, <1>2, <1>3, <1>4 DEF BoardInv

(* A request begins.                                                           *)
LEMMA BoardBegins ==
  ASSUME BoardInv, Serial = TRUE, NEW s \in Sessions, NEW q \in Board!Requests, Board!Starts(s, q),
         RequestFits(q, boardCards, boardCustomers)
  PROVE  BoardInv'
<1>1. /\ boardTx[s] = Board!Idle
      /\ \A t \in Sessions : boardTx[t] = Board!Idle \/ Beside(boardTx[t], q) \/ Beside(q, boardTx[t])
      /\ boardTx' = [boardTx EXCEPT ![s] = q]
      /\ UNCHANGED <<boardStages, boardCustomers, boardContacts, boardCards, boardTrail, boardQuotations>>
  BY DEF Board!Starts, Beside
<1>2. /\ boardTx' \in [Sessions -> Board!Requests] /\ boardTx'[s] = q
      /\ \A t \in Sessions \ {s} : boardTx'[t] = boardTx[t]
  BY <1>1 DEF BoardInv, BoardTypes, Board!TypeOK
<1>3. BoardTypes'
  BY <1>1, <1>2 DEF BoardInv, BoardTypes, Board!TypeOK
<1>4. RequestsFit'
  <2>1. ASSUME NEW t \in Sessions PROVE RequestFits(boardTx'[t], boardCards, boardCustomers)
    BY <1>2 DEF BoardInv, RequestsFit
  <2> QED
    BY <1>1, <2>1 DEF RequestsFit
<1>5. BoardTurns'
  BY <1>1, <1>2 DEF BoardInv, BoardTurns
<1>6. TrailsFit' /\ Board!OneQuotationPerWin' /\ Board!NamedCustomersStand'
  BY <1>1 DEF BoardInv, TrailsFit, Board!OneQuotationPerWin, Board!NamedCustomersStand
<1> QED
  BY <1>3, <1>4, <1>5, <1>6 DEF BoardInv

(* A request ends, and what it writes leaves the others their ground.          *)
LEMMA BoardEnds ==
  ASSUME BoardInv, NEW s \in Sessions, boardTx' = [boardTx EXCEPT ![s] = Board!Idle],
         \A t \in Sessions \ {s} : RequestFits(boardTx[t], boardCards', boardCustomers')
  PROVE  boardTx' \in [Sessions -> Board!Requests] /\ RequestsFit' /\ BoardTurns'
<1>1. /\ boardTx' \in [Sessions -> Board!Requests] /\ boardTx'[s] = Board!Idle
      /\ \A t \in Sessions \ {s} : boardTx'[t] = boardTx[t]
  BY IdleRequest DEF BoardInv, BoardTypes, Board!TypeOK
<1>2. RequestsFit'
  <2>1. ASSUME NEW t \in Sessions PROVE RequestFits(boardTx'[t], boardCards', boardCustomers')
    <3>1. CASE t = s
      BY <1>1, <3>1, IdleRequest DEF RequestFits
    <3>2. CASE t # s
      BY <1>1, <3>2
    <3> QED
      BY <3>1, <3>2
  <2> QED
    BY <2>1 DEF RequestsFit
<1>3. BoardTurns'
  BY <1>1 DEF BoardInv, BoardTurns
<1> QED
  BY <1>1, <1>2, <1>3

(* A request that writes cards or customers has only conversions beside it,    *)
(* and a move has nothing.                                                     *)
LEMMA WritesAlone ==
  ASSUME BoardInv, NEW s \in Sessions, boardTx[s].op \in {"move", "create", "retire"},
         NEW cards, NEW customers
  PROVE  \A t \in Sessions \ {s} : RequestFits(boardTx[t], cards, customers)
<1> SUFFICES ASSUME NEW t \in Sessions \ {s} PROVE RequestFits(boardTx[t], cards, customers)
  OBVIOUS
<1>1. boardTx[s] # Board!Idle
  BY IdleRequest
<1>2. boardTx[t] = Board!Idle \/ boardTx[t].op = "convert"
  BY <1>1 DEF BoardInv, BoardTurns, Beside
<1>3. boardTx[t].op = "convert" => boardTx[t].card \in Cards
  BY DEF BoardInv, RequestsFit, RequestFits
<1> QED
  BY <1>2, <1>3, IdleRequest DEF RequestFits

LEMMA BoardAborts == ASSUME BoardInv, NEW s \in Sessions, Board!Abort(s) PROVE BoardInv'
<1>1. /\ boardTx' = [boardTx EXCEPT ![s] = Board!Idle]
      /\ UNCHANGED <<boardStages, boardCustomers, boardContacts, boardCards, boardTrail, boardQuotations>>
  BY DEF Board!Abort
<1>2. \A t \in Sessions \ {s} : RequestFits(boardTx[t], boardCards', boardCustomers')
  BY <1>1 DEF BoardInv, RequestsFit
<1>3. boardTx' \in [Sessions -> Board!Requests] /\ RequestsFit' /\ BoardTurns'
  BY <1>1, <1>2, BoardEnds
<1> QED
  BY <1>1, <1>3
     DEF BoardInv, BoardTypes, Board!TypeOK, TrailsFit, Board!OneQuotationPerWin, Board!NamedCustomersStand

LEMMA BoardConverts == ASSUME BoardInv, NEW s \in Sessions, Board!CommitConvert(s) PROVE BoardInv'
<1> DEFINE o == boardTx[s].card
<1>1. /\ boardTx[s].op = "convert" /\ boardQuotations[o] = 0
      /\ boardTx' = [boardTx EXCEPT ![s] = Board!Idle]
      /\ boardQuotations' = [boardQuotations EXCEPT ![o] = @ + 1]
      /\ UNCHANGED <<boardStages, boardCustomers, boardContacts, boardCards, boardTrail>>
  BY DEF Board!CommitConvert, Board!Ends, Board!OneWin
<1>2. o \in Cards
  BY <1>1 DEF BoardInv, RequestsFit, RequestFits
<1>3. \A t \in Sessions \ {s} : RequestFits(boardTx[t], boardCards', boardCustomers')
  BY <1>1 DEF BoardInv, RequestsFit
<1>4. boardTx' \in [Sessions -> Board!Requests] /\ RequestsFit' /\ BoardTurns'
  BY <1>1, <1>3, BoardEnds
<1>5. Board!OneQuotationPerWin' /\ boardQuotations' \in [Cards -> Nat]
  BY <1>1, <1>2 DEF BoardInv, BoardTypes, Board!TypeOK, Board!OneQuotationPerWin
<1> QED
  BY <1>1, <1>4, <1>5 DEF BoardInv, BoardTypes, Board!TypeOK, TrailsFit, Board!NamedCustomersStand

LEMMA BoardRetires == ASSUME BoardInv, NEW s \in Sessions, Board!CommitRetire(s) PROVE BoardInv'
<1> DEFINE c == boardTx[s].customer
<1>1. /\ boardTx[s].op = "retire" /\ boardTx' = [boardTx EXCEPT ![s] = Board!Idle]
      /\ boardCustomers' = [boardCustomers EXCEPT ![c] = "retired"]
      /\ UNCHANGED <<boardStages, boardContacts, boardCards, boardTrail, boardQuotations>>
  BY DEF Board!CommitRetire, Board!Ends
<1>2. c \in Customers /\ \A o \in Cards : boardCards[o].customer # c
  BY <1>1 DEF BoardInv, RequestsFit, RequestFits
<1>3. boardTx' \in [Sessions -> Board!Requests] /\ RequestsFit' /\ BoardTurns'
  BY <1>1, WritesAlone, BoardEnds
<1>4. /\ boardCustomers' \in [Customers -> {"absent", "live", "retired"}]
      /\ \A d \in Customers \ {c} : boardCustomers'[d] = boardCustomers[d]
  BY <1>1, <1>2 DEF BoardInv, BoardTypes, Board!TypeOK
<1>5. Board!NamedCustomersStand'
  <2> SUFFICES ASSUME NEW o \in Cards, boardCards[o] # Board!Absent
               PROVE  boardCustomers'[boardCards[o].customer] = "live"
    BY <1>1 DEF Board!NamedCustomersStand
  <2>1. boardCustomers[boardCards[o].customer] = "live"
    BY DEF BoardInv, Board!NamedCustomersStand
  <2> QED
    BY <1>1, <1>2, <2>1 DEF BoardInv, BoardTypes, Board!TypeOK
<1> QED
  BY <1>1, <1>3, <1>4, <1>5 DEF BoardInv, BoardTypes, Board!TypeOK, TrailsFit, Board!OneQuotationPerWin

LEMMA BoardCreates == ASSUME BoardInv, NEW s \in Sessions, Board!CommitCreate(s) PROVE BoardInv'
<1> DEFINE o == boardTx[s].card  c == boardTx[s].customer  p == boardTx[s].to
           card == [Board!Absent EXCEPT !.customer = c, !.stage = p]
           row == [from |-> Board!Nowhere, to |-> p]
<1>1. /\ boardTx[s].op = "create" /\ boardTx' = [boardTx EXCEPT ![s] = Board!Idle]
      /\ boardCards' = [boardCards EXCEPT ![o] = card]
      /\ boardTrail' = [boardTrail EXCEPT ![o] = <<row>>]
      /\ UNCHANGED <<boardStages, boardCustomers, boardContacts, boardQuotations>>
  BY DEF Board!CommitCreate, Board!Ends
<1>2. o \in Cards /\ c \in Customers /\ p \in Stages /\ boardCustomers[c] = "live"
  BY <1>1 DEF BoardInv, RequestsFit, RequestFits
<1>3. row \in Board!MoveRows /\ row.to = p
  BY <1>2 DEF Board!MoveRows
<1>4. card \in Board!CardRows /\ card.customer = c /\ card.stage = p
  BY <1>2, IdleRequest DEF Board!CardRows
<1> HIDE DEF o, c, p, card, row
<1>5. boardTx' \in [Sessions -> Board!Requests] /\ RequestsFit' /\ BoardTurns'
  BY <1>1, WritesAlone, BoardEnds
<1>6. /\ boardCards' \in [Cards -> Board!CardRows] /\ boardCards'[o] = card
      /\ boardTrail' \in [Cards -> Seq(Board!MoveRows)] /\ boardTrail'[o] = <<row>>
      /\ \A d \in Cards \ {o} : boardCards'[d] = boardCards[d] /\ boardTrail'[d] = boardTrail[d]
  BY <1>1, <1>2, <1>3, <1>4 DEF BoardInv, BoardTypes, Board!TypeOK
<1>7. TrailsFit'
  <2>1. TrailFits(card, <<row>>)
    BY <1>2, <1>3, <1>4 DEF TrailFits
  <2>2. ASSUME NEW d \in Cards PROVE TrailFits(boardCards'[d], boardTrail'[d])
    BY <1>6, <2>1 DEF BoardInv, TrailsFit
  <2> QED
    BY <2>2 DEF TrailsFit
<1>8. Board!NamedCustomersStand'
  BY <1>1, <1>2, <1>4, <1>6 DEF BoardInv, Board!NamedCustomersStand
<1>9. BoardTypes'
  BY <1>1, <1>5, <1>6 DEF BoardInv, BoardTypes, Board!TypeOK
<1>10. Board!OneQuotationPerWin'
  BY <1>1 DEF BoardInv, Board!OneQuotationPerWin
<1> QED
  BY <1>5, <1>7, <1>8, <1>9, <1>10 DEF BoardInv

(* The flush of a row that nobody else wrote to writes it as it was computed.  *)
LEMMA FlushWritesAll ==
  ASSUME NEW row \in Board!CardRows, NEW new \in Board!CardRows
  PROVE  Board!Written(row, row, new) = new
BY DEF Board!CardRows, Board!Written

LEMMA MovedCard ==
  ASSUME NEW row \in Board!CardRows, NEW p \in Stages
  PROVE  /\ Board!Moved(row, p) \in Board!CardRows
         /\ Board!Moved(row, p).customer = row.customer /\ Board!Moved(row, p).stage = p
         /\ Board!Moved(row, p).reason = (Meaning[p] = "lost")
         /\ Board!Moved(row, p).closed = (Meaning[p] # "open")
BY DEF Board!CardRows, Board!Moved

LEMMA TrailGrows ==
  ASSUME NEW trail \in Seq(Board!MoveRows), NEW row \in Board!CardRows, row # Board!Absent,
         TrailFits(row, trail), NEW p \in Stages
  PROVE  TrailFits(Board!Moved(row, p), Append(trail, Board!MoveRow(row, p)))
<1> DEFINE move == Board!MoveRow(row, p)  more == Append(trail, move)
<1>1. /\ move \in Board!MoveRows /\ move.to = p /\ move.from = row.stage
  BY DEF Board!MoveRow, Board!MoveRows, Board!CardRows
<1>2. /\ Len(trail) \in Nat /\ Len(trail) > 0 /\ row.stage = trail[Len(trail)].to
      /\ \A i \in 1..(Len(trail) - 1) : trail[i].to = trail[i + 1].from
  BY DEF TrailFits
<1> HIDE DEF move
<1>3. /\ Len(more) = Len(trail) + 1 /\ more[Len(trail) + 1] = move
      /\ \A i \in 1..Len(trail) : more[i] = trail[i]
  BY <1>1
<1> HIDE DEF more
<1>4. \A i \in 1..(Len(more) - 1) : more[i].to = more[i + 1].from
  <2> SUFFICES ASSUME NEW i \in 1..Len(trail) PROVE more[i].to = more[i + 1].from
    BY <1>2, <1>3
  <2>1. CASE i = Len(trail)
    BY <1>1, <1>2, <1>3, <2>1
  <2>2. CASE i # Len(trail)
    <3>1. i \in 1..(Len(trail) - 1) /\ i + 1 \in 1..Len(trail)
      BY <1>2, <2>2
    <3> QED
      BY <1>2, <1>3, <3>1
  <2> QED
    BY <2>1, <2>2
<1>5. TrailFits(Board!Moved(row, p), more)
  BY <1>1, <1>2, <1>3, <1>4, MovedCard DEF TrailFits
<1> QED
  BY <1>5 DEF more, move

LEMMA BoardMoves == ASSUME BoardInv, NEW s \in Sessions, Board!CommitMove(s) PROVE BoardInv'
<1> DEFINE o == boardTx[s].card  p == boardTx[s].to  row == boardCards[o]
           new == Board!Moved(row, p)  move == Board!MoveRow(row, p)
<1>1. boardTx[s].op = "move"
  BY DEF Board!CommitMove, Board!Ends
<1>2. /\ o \in Cards /\ p \in Stages /\ boardTx[s].read = row /\ row # Board!Absent
      /\ row \in Board!CardRows
  BY <1>1 DEF BoardInv, RequestsFit, RequestFits, BoardTypes, Board!TypeOK
<1>3. Board!Written(row, row, new) = new /\ new \in Board!CardRows
  BY <1>2, FlushWritesAll, MovedCard
<1>4. /\ boardTx' = [boardTx EXCEPT ![s] = Board!Idle]
      /\ boardCards' = [boardCards EXCEPT ![o] = new]
      /\ boardTrail' = [boardTrail EXCEPT ![o] = Append(@, move)]
      /\ UNCHANGED <<boardStages, boardCustomers, boardContacts, boardQuotations>>
  BY <1>2, <1>3 DEF Board!CommitMove, Board!Ends
<1>5. move \in Board!MoveRows /\ new.customer = row.customer
  BY <1>2, MovedCard DEF Board!MoveRow, Board!MoveRows, Board!CardRows
<1>6. TrailFits(new, Append(boardTrail[o], move))
  BY <1>2, TrailGrows DEF BoardInv, TrailsFit, BoardTypes
<1>7. boardTx' \in [Sessions -> Board!Requests] /\ RequestsFit' /\ BoardTurns'
  BY <1>1, <1>4, WritesAlone, BoardEnds
<1> HIDE DEF o, p, row, new, move
<1>8. /\ boardCards' \in [Cards -> Board!CardRows] /\ boardCards'[o] = new
      /\ boardTrail' \in [Cards -> Seq(Board!MoveRows)]
      /\ boardTrail'[o] = Append(boardTrail[o], move)
      /\ \A d \in Cards \ {o} : boardCards'[d] = boardCards[d] /\ boardTrail'[d] = boardTrail[d]
  BY <1>2, <1>3, <1>4, <1>5 DEF BoardInv, BoardTypes, Board!TypeOK
<1>9. TrailsFit'
  <2>1. ASSUME NEW d \in Cards PROVE TrailFits(boardCards'[d], boardTrail'[d])
    BY <1>6, <1>8 DEF BoardInv, TrailsFit
  <2> QED
    BY <2>1 DEF TrailsFit
<1>10. boardCustomers[row.customer] = "live"
  BY <1>2 DEF BoardInv, Board!NamedCustomersStand, row
<1>11. Board!NamedCustomersStand'
  BY <1>4, <1>5, <1>8, <1>10 DEF BoardInv, Board!NamedCustomersStand
<1>12. BoardTypes' /\ Board!OneQuotationPerWin'
  BY <1>4, <1>7, <1>8 DEF BoardInv, BoardTypes, Board!TypeOK, Board!OneQuotationPerWin
<1> QED
  BY <1>7, <1>9, <1>11, <1>12 DEF BoardInv

(* Stages come and go, and customers come.                                     *)
LEMMA BoardStages ==
  ASSUME BoardInv, NEW p \in Stages, Board!DefineStage(p) \/ Board!RemoveStage(p)
  PROVE  BoardInv'
<1>1. /\ boardStages' \subseteq Stages
      /\ UNCHANGED <<boardCustomers, boardContacts, boardCards, boardTrail, boardQuotations, boardTx>>
  BY DEF Board!DefineStage, Board!RemoveStage, BoardInv, BoardTypes, Board!TypeOK, Board!StageRows
<1> QED
  BY <1>1 DEF BoardInv, BoardTypes, Board!TypeOK, Board!StageRows, RequestsFit, BoardTurns, TrailsFit,
     Board!OneQuotationPerWin, Board!NamedCustomersStand

LEMMA BoardCustomers ==
  ASSUME BoardInv, NEW c \in Customers, Board!CreateCustomer(c) \/ Board!AddPrimary(c)
  PROVE  BoardInv'
<1>1. UNCHANGED <<boardStages, boardCards, boardTrail, boardQuotations, boardTx>>
  BY DEF Board!CreateCustomer, Board!AddPrimary
<1>2. /\ boardCustomers' \in [Customers -> {"absent", "live", "retired"}]
      /\ boardContacts' \in [Customers -> 0..1]
      /\ \A d \in Customers : boardCustomers[d] = "live" => boardCustomers'[d] = "live"
  <2>1. /\ boardCustomers \in [Customers -> {"absent", "live", "retired"}]
        /\ boardContacts \in [Customers -> 0..1]
    BY DEF BoardInv, BoardTypes, Board!TypeOK
  <2>2. CASE Board!CreateCustomer(c)
    BY <2>1, <2>2 DEF Board!CreateCustomer
  <2>3. CASE Board!AddPrimary(c)
    <3>1. boardCustomers' = boardCustomers /\ boardContacts' = [boardContacts EXCEPT ![c] = 1]
      BY <2>3 DEF Board!AddPrimary
    <3> QED
      BY <2>1, <3>1
  <2> QED
    BY <2>2, <2>3
<1>3. RequestsFit'
  <2>1. ASSUME NEW s \in Sessions PROVE RequestFits(boardTx[s], boardCards, boardCustomers')
    BY <1>2 DEF BoardInv, RequestsFit, RequestFits
  <2> QED
    BY <1>1, <2>1 DEF RequestsFit
<1>4. Board!NamedCustomersStand'
  <2> SUFFICES ASSUME NEW o \in Cards, boardCards[o] # Board!Absent
               PROVE  boardCustomers'[boardCards[o].customer] = "live"
    BY <1>1 DEF Board!NamedCustomersStand
  <2>1. /\ boardCustomers[boardCards[o].customer] = "live"
        /\ boardCards[o].customer \in Customers
    BY DEF BoardInv, Board!NamedCustomersStand, TrailsFit, TrailFits
  <2> QED
    BY <1>2, <2>1
<1> QED
  BY <1>1, <1>2, <1>3, <1>4
     DEF BoardInv, BoardTypes, Board!TypeOK, BoardTurns, TrailsFit, Board!OneQuotationPerWin

(* What a request reads when it begins is so.                                  *)
LEMMA RequestBegins ==
  ASSUME BoardInv, Serial = TRUE, NEW s \in Sessions,
         \/ \E o \in Cards, c \in Customers, p \in Stages : Board!BeginCreate(s, o, c, p)
         \/ \E o \in Cards, p \in Stages : Board!BeginMove(s, o, p)
         \/ \E o \in Cards : Board!BeginConvert(s, o)
         \/ \E c \in Customers : Board!BeginRetire(s, c)
  PROVE  BoardInv'
<1>1. ASSUME NEW o \in Cards, NEW c \in Customers, NEW p \in Stages, Board!BeginCreate(s, o, c, p)
      PROVE  BoardInv'
  <2> DEFINE q == [Board!Idle EXCEPT !.op = "create", !.card = o, !.customer = c, !.to = p]
  <2>1. Board!Starts(s, q) /\ boardCustomers[c] = "live"
    BY <1>1 DEF Board!BeginCreate
  <2>2. /\ q \in Board!Requests /\ q.op = "create" /\ q.card = o /\ q.customer = c /\ q.to = p
    BY IdleRequest DEF Board!Requests
  <2> HIDE DEF q
  <2>3. RequestFits(q, boardCards, boardCustomers)
    BY <2>1, <2>2 DEF RequestFits
  <2> QED
    BY <2>1, <2>2, <2>3, BoardBegins
<1>2. ASSUME NEW o \in Cards, NEW p \in Stages, Board!BeginMove(s, o, p)
      PROVE  BoardInv'
  <2> DEFINE q == [Board!Idle EXCEPT !.op = "move", !.card = o, !.to = p, !.read = boardCards[o]]
  <2>1. /\ Board!Starts(s, q) /\ boardCards[o] # Board!Absent /\ boardCards[o] \in Board!CardRows
    BY <1>2 DEF Board!BeginMove, BoardInv, BoardTypes, Board!TypeOK
  <2>2. /\ q \in Board!Requests /\ q.op = "move" /\ q.card = o /\ q.to = p /\ q.read = boardCards[o]
    BY <2>1, IdleRequest DEF Board!Requests
  <2> HIDE DEF q
  <2>3. RequestFits(q, boardCards, boardCustomers)
    BY <2>1, <2>2 DEF RequestFits
  <2> QED
    BY <2>1, <2>2, <2>3, BoardBegins
<1>3. ASSUME NEW o \in Cards, Board!BeginConvert(s, o) PROVE BoardInv'
  <2> DEFINE q == [Board!Idle EXCEPT !.op = "convert", !.card = o]
  <2>1. Board!Starts(s, q)
    BY <1>3 DEF Board!BeginConvert
  <2>2. q \in Board!Requests /\ q.op = "convert" /\ q.card = o
    BY IdleRequest DEF Board!Requests
  <2> HIDE DEF q
  <2>3. RequestFits(q, boardCards, boardCustomers)
    BY <2>2 DEF RequestFits
  <2> QED
    BY <2>1, <2>2, <2>3, BoardBegins
<1>4. ASSUME NEW c \in Customers, Board!BeginRetire(s, c) PROVE BoardInv'
  <2> DEFINE q == [Board!Idle EXCEPT !.op = "retire", !.customer = c]
  <2>1. Board!Starts(s, q) /\ \A o \in Cards : boardCards[o].customer # c
    BY <1>4 DEF Board!BeginRetire, Board!NamedBy
  <2>2. q \in Board!Requests /\ q.op = "retire" /\ q.customer = c
    BY IdleRequest DEF Board!Requests
  <2> HIDE DEF q
  <2>3. RequestFits(q, boardCards, boardCustomers)
    BY <2>1, <2>2 DEF RequestFits
  <2> QED
    BY <2>1, <2>2, <2>3, BoardBegins
<1> QED
  BY <1>1, <1>2, <1>3, <1>4

LEMMA BoardStep == Serial = TRUE /\ BoardInv /\ [Board!Next]_(Board!vars) => BoardInv'
<1> SUFFICES ASSUME Serial = TRUE, BoardInv, [Board!Next]_(Board!vars) PROVE BoardInv'
  OBVIOUS
<1>1. CASE UNCHANGED Board!vars
  BY <1>1 DEF Board!vars, BoardInv, BoardTypes, Board!TypeOK, RequestsFit, BoardTurns, TrailsFit,
     Board!OneQuotationPerWin, Board!NamedCustomersStand
<1>2. CASE Board!Next
  BY <1>2, BoardStages, BoardCustomers, RequestBegins, BoardCreates, BoardMoves, BoardConverts,
     BoardRetires, BoardAborts DEF Board!Next
<1> QED
  BY <1>1, <1>2

LEMMA BoardInvTellsTheCard == BoardInv => Board!TrailTellsTheCard
BY DEF BoardInv, TrailsFit, TrailFits, Board!TrailTellsTheCard

(* ----------------------------- the payment gateway ------------------------- *)

Billed(i) == {p \in Transfers : Bill[p] = i}
Settlements(a, i) == SumOver([p \in Billed(i) |-> a[p] * Amount[p]], Billed(i))

GateGoing(t) == t.at \in {"check", "settle", "commit"}
GatePaying(t) == t.at = "commit" /\ t.now \in Gate!Placed /\ t.was \notin Gate!Placed
GateInserted(t) ==
  t.event # "none" /\ t.at \notin {"event", "refused", "lookup", "insert"} /\ t.was = "absent"

(* What an open request of a session is about, and what it may write.          *)
GateRequestFits(s, t) ==
  /\ t # Gate!Idle => t.at # "idle" /\ t.payment \in Transfers
  /\ s \in Matchers => t.event = "none" /\ t.at \notin {"event", "lookup", "insert"}
  /\ s \in Hooks /\ t # Gate!Idle => t.event \in Events /\ t.payment = About[t.event]
  /\ t.at \in {"check", "settle"} => t.now = "parked" /\ (s \in Hooks => t.was = "absent")
  /\ GateGoing(t) => /\ t.now \in Gate!States \ {"absent"}
                     /\ s \in Hooks => t.was = "absent" \/ t.was = t.now
                     /\ s \in Matchers => /\ t.was \in {"parked", "failed"}
                                          /\ t.now \in {"parked"} \cup Gate!Placed
                     /\ s \in Hooks /\ t.was = "absent" /\ t.now = "failed" =>
                          t.event \in FailedEvents

(* Several people match payments at once.                                      *)
Several == \E m, n \in Matchers : m # n

(* The row of its payment is as it read it, if it writes that; another person  *)
(* may have changed it meanwhile.  Only a first report of a failure says       *)
(* failed.                                                                     *)
GateRowFits(s, t, rows, keys) ==
  GateGoing(t) => /\ t.was = "absent" => rows[t.payment] = "absent"
                  /\ t.was # "absent" => rows[t.payment] # "absent"
                  /\ s \in Matchers /\ ~Several => rows[t.payment] = t.was
                  /\ s \in Matchers /\ t.was = "failed" => keys[t.payment] \in FailedEvents

(* The invoice has room for a payment that is about to be committed, which has *)
(* not settled yet.                                                            *)
GatePaymentFits(t, a) ==
  LET i == Bill[t.payment] IN
  GatePaying(t) => /\ a[t.payment] = 0
                   /\ Amount[t.payment] <= Owing[i] - Settlements(a, i)
                   /\ t.now = "settled" => Amount[t.payment] = Owing[i] - Settlements(a, i)

(* Two requests do not insert one payment, nor settle one invoice.             *)
GateApart(t, u) ==
  /\ GateInserted(t) /\ GateInserted(u) => t.payment # u.payment
  /\ GatePaying(t) /\ GatePaying(u) => Bill[t.payment] # Bill[u.payment]

(* A payment is settled once if its row says so, and within its invoice; one   *)
(* that is settled and told otherwise was reported as failed at first.         *)
GateRowFine(row, key, n) ==
  /\ n \in {0, 1}
  /\ row = "absent" => n = 0
  /\ row \in Gate!Placed => n = 1
  /\ row = "failed" => key \in FailedEvents
  /\ n = 1 => row \in Gate!Placed \/ (Several /\ row = "parked" /\ key \in FailedEvents)

GateRowsFit(rows, keys, a) ==
  \A p \in Transfers :
    /\ GateRowFine(rows[p], keys[p], a[p])
    /\ rows[p] = "settled" => Settlements(a, Bill[p]) = Owing[Bill[p]]

GateInv ==
  /\ Gate!TypeOK
  /\ \A s \in Gate!Requesters : /\ GateRequestFits(s, gateTx[s])
                              /\ GateRowFits(s, gateTx[s], gateStatus, gateFirstKey)
                              /\ GatePaymentFits(gateTx[s], gateSettled)
  /\ \A s \in Gate!Requesters : \A o \in Gate!Requesters \ {s} : GateApart(gateTx[s], gateTx[o])
  /\ GateRowsFit(gateStatus, gateFirstKey, gateSettled)
  /\ \A i \in Claims : Settlements(gateSettled, i) <= Owing[i]
  /\ Gate!AnsweredIsKnown

GateRequests == [at : Gate!Points, event : Events \cup {"none"}, payment : Transfers \cup {"none"},
                 was : Gate!States \cup {"none"}, now : Gate!States \cup {"none"}]

LEMMA GateConstants ==
  /\ IsFiniteSet(Transfers) /\ Amount \in [Transfers -> Nat \ {0}] /\ Bill \in [Transfers -> Claims]
  /\ Owing \in [Claims -> Nat] /\ "none" \notin Events /\ About \in [Events -> Transfers]
  /\ FailedEvents \subseteq Events /\ UnknownPayers \subseteq Events
  /\ Hooks \cap Matchers = {} /\ Gate!Requesters = Hooks \cup Matchers
BY Parameters DEF Gate!GrossAssumption, Gate!PaymentAssumption, Gate!EventAssumption,
   Gate!SessionAssumption, Gate!Requesters, Gate!None, Gate!IsFiniteSet, IsFiniteSet

LEMMA SettledIsSum ==
  ASSUME NEW i
  PROVE  /\ Gate!SettledAmount(i) = Settlements(gateSettled, i)
         /\ Gate!SettledAmount(i)' = Settlements(gateSettled', i)
<1>1. ASSUME NEW a
      PROVE  Gate!MapThenSumSet(LAMBDA p : a[p] * Amount[p], Billed(i)) = Settlements(a, i)
  <2> DEFINE S == Billed(i)
             f == [p \in S |-> a[p] * Amount[p]]
             Plus(it, s) == IF s = {} THEN 0
                            ELSE a[First(s)] * Amount[First(s)] + it[s \ {First(s)}]
  <2>1. ASSUME NEW it, NEW s \in SUBSET S PROVE Plus(it, s) = Added(f, it, s)
    BY DEF Added, First
  <2>2. ASSUME NEW it PROVE [s \in SUBSET S |-> Plus(it, s)] = [s \in SUBSET S |-> Added(f, it, s)]
    BY <2>1
  <2>3. (CHOOSE it : it = [s \in SUBSET S |-> Plus(it, s)]) = CHOOSE it : Adds(f, SUBSET S, it)
    BY <2>2 DEF Adds
  <2>4. Settlements(a, i) = (CHOOSE it : Adds(f, SUBSET S, it))[S]
    BY SumIsChosen DEF Settlements
  <2>5. Gate!MapThenSumSet(LAMBDA p : a[p] * Amount[p], S)
          = (CHOOSE it : it = [s \in SUBSET S |-> Plus(it, s)])[S]
    BY DEF Gate!MapThenSumSet, Gate!MapThenFoldSet, First
  <2> QED
    BY <2>3, <2>4, <2>5
<1>2. Gate!SettledAmount(i) = Settlements(gateSettled, i)
  BY <1>1 DEF Gate!SettledAmount, Billed
<1>3. Gate!SettledAmount(i)' = Settlements(gateSettled', i)
  <2>1. PICK b : b = gateSettled'
    OBVIOUS
  <2>2. Gate!SettledAmount(i)' = Gate!MapThenSumSet(LAMBDA p : b[p] * Amount[p], Billed(i))
    BY <2>1 DEF Gate!SettledAmount, Billed, Gate!MapThenSumSet, Gate!MapThenFoldSet
  <2>3. Gate!SettledAmount(i)' = Settlements(b, i)
    BY <1>1, <2>2
  <2> QED
    BY <2>1, <2>3
<1> QED
  BY <1>2, <1>3

LEMMA SettlementsAreNat ==
  ASSUME NEW a \in [Transfers -> Nat], NEW i
  PROVE  Settlements(a, i) \in Nat
<1> DEFINE f == [p \in Billed(i) |-> a[p] * Amount[p]]
<1>1. IsFiniteSet(Billed(i)) /\ Billed(i) \subseteq Transfers
  BY GateConstants, FS_Subset DEF Billed
<1>2. ASSUME NEW p \in Billed(i) PROVE f[p] \in Nat
  <2>1. PICK m \in Nat, n \in Nat : m = a[p] /\ n = Amount[p]
    BY <1>1, GateConstants
  <2> QED
    BY <2>1
<1> HIDE DEF f
<1>3. SumOver(f, Billed(i)) \in Nat
  BY <1>1, <1>2, SumOfNats
<1> QED
  BY <1>3 DEF f, Settlements

(* A settlement adds its amount to what its invoice has settled.               *)
LEMMA SettlementAdds ==
  ASSUME NEW a \in [Transfers -> Nat], NEW p \in Transfers, a[p] = 0, NEW i,
         NEW b, b = [a EXCEPT ![p] = 1]
  PROVE  Settlements(b, i) = Settlements(a, i) + (IF Bill[p] = i THEN Amount[p] ELSE 0)
<1> DEFINE S == Billed(i)
           f == [q \in S |-> a[q] * Amount[q]]
           g == [q \in S |-> b[q] * Amount[q]]
<1>1. IsFiniteSet(S) /\ S \subseteq Transfers
  BY GateConstants, FS_Subset DEF Billed
<1>2. ASSUME NEW q \in S PROVE f[q] \in Int /\ g[q] \in Int /\ (q # p => g[q] = f[q])
  <2>1. PICK m \in Nat, n \in Nat : m = a[q] /\ n = Amount[q]
    BY <1>1, GateConstants
  <2>2. PICK k \in Nat : k = b[q]
    BY <1>1
  <2>3. m * n \in Int /\ k * n \in Int
    BY ONLY m \in Nat, n \in Nat, k \in Nat
  <2> QED
    BY <1>1, <2>1, <2>2, <2>3
<1>3. CASE Bill[p] = i
  <2>1. p \in S
    BY <1>3 DEF Billed
  <2>2. f[p] = 0 /\ g[p] = Amount[p] /\ Amount[p] \in Nat
    <3>1. PICK n \in Nat : n = Amount[p]
      BY GateConstants
    <3>2. 0 * n = 0 /\ 1 * n = n
      OBVIOUS
    <3> QED
      BY <2>1, <3>1, <3>2
  <2> HIDE DEF f, g, S
  <2>3. SumOver(g, S) = SumOver(f, S) + g[p] - f[p]
    BY <1>1, <1>2, <2>1, SumOfChanged
  <2>4. SumOver(f, S) \in Int
    BY <1>1, <1>2, SumTakesAny
  <2> USE DEF f, g, S
  <2> QED
    BY <1>3, <2>2, <2>3, <2>4 DEF Settlements
<1>4. CASE Bill[p] # i
  <2>1. p \notin S
    BY <1>4 DEF Billed
  <2> HIDE DEF f, g, S
  <2>2. SumOver(g, S) = SumOver(f, S)
    BY <1>1, <1>2, <2>1, SumOfSame
  <2>3. SumOver(f, S) \in Int
    BY <1>1, <1>2, SumTakesAny
  <2> USE DEF f, g, S
  <2> QED
    BY <1>4, <2>2, <2>3 DEF Settlements
<1> QED
  BY <1>3, <1>4

LEMMA GateTypes ==
  ASSUME Gate!TypeOK
  PROVE  /\ gateOwed \in [Claims -> BOOLEAN] /\ gateInbox \subseteq Events
         /\ gateStatus \in [Transfers -> Gate!States]
         /\ gateFirstKey \in [Transfers -> Events \cup {"none"}]
         /\ gateSettled \in [Transfers -> Nat] /\ gateTx \in [Gate!Requesters -> GateRequests]
BY DEF Gate!TypeOK, GateRequests, Gate!None

LEMMA OpenIsRest ==
  ASSUME NEW i \in Claims
  PROVE  Gate!OpenAmount(i) = Owing[i] - Settlements(gateSettled, i)
BY SettledIsSum DEF Gate!OpenAmount

(* A request goes on, and nothing is written.                                  *)
LEMMA GateGoes ==
  ASSUME GateInv, NEW s \in Gate!Requesters, NEW t \in GateRequests,
         gateTx' = [gateTx EXCEPT ![s] = t], UNCHANGED Gate!Rows,
         GateRequestFits(s, t), GateRowFits(s, t, gateStatus, gateFirstKey), GatePaymentFits(t, gateSettled),
         \A o \in Gate!Requesters \ {s} : GateApart(t, gateTx[o])
  PROVE  GateInv'
<1>1. /\ gateOwed' = gateOwed /\ gateInbox' = gateInbox /\ gateStatus' = gateStatus
      /\ gateFirstKey' = gateFirstKey /\ gateSettled' = gateSettled
  BY DEF Gate!Rows
<1>2. gateTx \in [Gate!Requesters -> GateRequests]
  BY GateTypes DEF GateInv
<1>3. /\ gateTx' \in [Gate!Requesters -> GateRequests] /\ gateTx'[s] = t
      /\ \A o \in Gate!Requesters : o # s => gateTx'[o] = gateTx[o]
  BY <1>2
<1>4. Gate!TypeOK'
  BY <1>1, <1>3 DEF GateInv, Gate!TypeOK, GateRequests, Gate!None
<1>5. ASSUME NEW o \in Gate!Requesters
      PROVE  /\ GateRequestFits(o, gateTx'[o])
             /\ GateRowFits(o, gateTx'[o], gateStatus', gateFirstKey')
             /\ GatePaymentFits(gateTx'[o], gateSettled')
  <2>1. CASE o = s
    BY <1>1, <1>3, <2>1
  <2>2. CASE o # s
    BY <1>1, <1>3, <2>2 DEF GateInv
  <2> QED
    BY <2>1, <2>2
<1>6. ASSUME NEW o \in Gate!Requesters, NEW n \in Gate!Requesters \ {o}
      PROVE  GateApart(gateTx'[o], gateTx'[n])
  <2>1. CASE o = s
    BY <1>3, <2>1
  <2>2. CASE n = s
    BY <1>3, <2>2 DEF GateApart
  <2>3. CASE o # s /\ n # s
    BY <1>3, <2>3 DEF GateInv
  <2> QED
    BY <2>1, <2>2, <2>3
<1>7. GateRowsFit(gateStatus', gateFirstKey', gateSettled')
  BY <1>1 DEF GateInv
<1>8. \A i \in Claims : Settlements(gateSettled', i) <= Owing[i]
  BY <1>1 DEF GateInv
<1>9. Gate!AnsweredIsKnown'
  BY <1>1 DEF GateInv, Gate!AnsweredIsKnown
<1> QED
  BY <1>4, <1>5, <1>6, <1>7, <1>8, <1>9 DEF GateInv

(* What neither inserts nor settles is apart from every other request.         *)
LEMMA GateQuiet ==
  ASSUME NEW t, ~GateInserted(t), ~GatePaying(t)
  PROVE  GatePaymentFits(t, gateSettled) /\ \A u : GateApart(t, u)
BY DEF GatePaymentFits, GateApart

(* A request ends, or begins anew.                                             *)
LEMMA GateEnds ==
  ASSUME GateInv, NEW s \in Gate!Requesters, gateTx' = [gateTx EXCEPT ![s] = Gate!Idle],
         UNCHANGED Gate!Rows
  PROVE  GateInv'
<1>1. /\ Gate!Idle \in GateRequests /\ Gate!Idle.at = "idle" /\ Gate!Idle.event = "none"
      /\ Gate!Idle.was = "none"
  BY DEF Gate!Idle, GateRequests, Gate!None, Gate!Points, Gate!States
<1>2. ~GateInserted(Gate!Idle) /\ ~GatePaying(Gate!Idle) /\ ~GateGoing(Gate!Idle)
  BY <1>1 DEF GateInserted, GatePaying, GateGoing
<1>3. GateRequestFits(s, Gate!Idle) /\ GateRowFits(s, Gate!Idle, gateStatus, gateFirstKey)
  BY <1>1, <1>2 DEF GateRequestFits, GateRowFits
<1> QED
  BY <1>1, <1>2, <1>3, GateQuiet, GateGoes

LEMMA GatePosts == ASSUME GateInv, NEW i \in Claims, Gate!Post(i) PROVE GateInv'
<1>1. /\ gateOwed' = [gateOwed EXCEPT ![i] = TRUE] /\ gateInbox' = gateInbox
      /\ gateStatus' = gateStatus /\ gateFirstKey' = gateFirstKey
      /\ gateSettled' = gateSettled /\ gateTx' = gateTx
  BY DEF Gate!Post
<1>2. Gate!TypeOK'
  BY <1>1 DEF GateInv, Gate!TypeOK
<1>3. Gate!AnsweredIsKnown'
  BY <1>1 DEF GateInv, Gate!AnsweredIsKnown
<1> QED
  BY <1>1, <1>2, <1>3 DEF GateInv

LEMMA GateReceives ==
  ASSUME GateInv, NEW s \in Gate!Requesters, NEW e \in Events, Gate!Receive(s, e) PROVE GateInv'
<1> DEFINE t == [at |-> "event", event |-> e, payment |-> About[e], was |-> "none", now |-> "none"]
<1>1. gateTx' = [gateTx EXCEPT ![s] = t] /\ UNCHANGED Gate!Rows /\ s \in Hooks
  BY DEF Gate!Receive, Gate!None
<1>2. t \in GateRequests
  BY GateConstants DEF GateRequests, Gate!Points
<1>3. ~GateInserted(t) /\ ~GatePaying(t) /\ ~GateGoing(t)
  BY DEF GateInserted, GatePaying, GateGoing
<1>4. GateRequestFits(s, t) /\ GateRowFits(s, t, gateStatus, gateFirstKey)
  BY <1>1, <1>3, GateConstants DEF GateRequestFits, GateRowFits
<1> QED
  BY <1>1, <1>2, <1>3, <1>4, GateQuiet, GateGoes

(* The request changes nothing but where it stands.                            *)
LEMMA GateGoesTo ==
  ASSUME GateInv, NEW s \in Gate!Requesters, NEW at \in Gate!Points, Gate!Goes(s, at),
         UNCHANGED Gate!Rows
  PROVE  \E t \in GateRequests :
           /\ t = [at |-> at, event |-> gateTx[s].event, payment |-> gateTx[s].payment,
                   was |-> gateTx[s].was, now |-> gateTx[s].now]
           /\ gateTx' = [gateTx EXCEPT ![s] = t]
<1>1. gateTx \in [Gate!Requesters -> GateRequests]
  BY GateTypes DEF GateInv
<1> DEFINE t == [at |-> at, event |-> gateTx[s].event, payment |-> gateTx[s].payment,
                 was |-> gateTx[s].was, now |-> gateTx[s].now]
<1>2. t \in GateRequests
  BY <1>1 DEF GateRequests
<1>3. [gateTx[s] EXCEPT !.at = at] = t
  BY <1>1 DEF GateRequests
<1>4. gateTx' = [gateTx EXCEPT ![s] = t]
  BY <1>1, <1>3 DEF Gate!Goes
<1> QED
  BY <1>2, <1>4

(* A request that is refused, or has filed its event, is not about a row yet.  *)
LEMMA GateStaysQuiet ==
  ASSUME GateInv, NEW s \in Gate!Requesters, NEW at \in {"lookup", "insert", "refused"},
         at = "refused" \/ s \in Hooks, gateTx[s].at # "idle",
         Gate!Goes(s, at), UNCHANGED Gate!Rows
  PROVE  GateInv'
<1>1. PICK t \in GateRequests :
        /\ t = [at |-> at, event |-> gateTx[s].event, payment |-> gateTx[s].payment,
                was |-> gateTx[s].was, now |-> gateTx[s].now]
        /\ gateTx' = [gateTx EXCEPT ![s] = t]
  BY GateGoesTo DEF Gate!Points
<1>2. ~GateInserted(t) /\ ~GatePaying(t) /\ ~GateGoing(t)
  BY <1>1 DEF GateInserted, GatePaying, GateGoing
<1>3. gateTx[s] # Gate!Idle
  BY DEF Gate!Idle
<1>4. GateRequestFits(s, t)
  BY <1>1, <1>2, <1>3, GateConstants DEF GateInv, GateRequestFits
<1>5. GateRowFits(s, t, gateStatus, gateFirstKey)
  BY <1>2 DEF GateRowFits
<1> QED
  BY <1>1, <1>2, <1>4, <1>5, GateQuiet, GateGoes

LEMMA GateFiles == ASSUME GateInv, NEW s \in Gate!Requesters, Gate!FileEvent(s) PROVE GateInv'
<1>1. s \in Hooks
  BY GateConstants DEF Gate!FileEvent, GateInv, GateRequestFits
<1>2. gateTx[s].at # "idle" /\ UNCHANGED Gate!Rows
      /\ (Gate!Goes(s, "refused") \/ Gate!Goes(s, "lookup"))
  BY DEF Gate!FileEvent
<1> QED
  BY <1>1, <1>2, GateStaysQuiet

LEMMA GateLooksUp == ASSUME GateInv, NEW s \in Gate!Requesters, Gate!LookUp(s) PROVE GateInv'
<1> DEFINE p == gateTx[s].payment
<1>1. gateTx[s].at = "lookup" /\ UNCHANGED Gate!Rows
  BY DEF Gate!LookUp
<1>2. s \in Hooks /\ gateTx[s] # Gate!Idle
  BY <1>1, GateConstants DEF GateInv, GateRequestFits, Gate!Idle
<1>3. /\ gateTx \in [Gate!Requesters -> GateRequests] /\ gateStatus \in [Transfers -> Gate!States]
      /\ gateTx[s].event \in Events /\ p \in Transfers /\ p = About[gateTx[s].event]
  BY <1>2, GateTypes DEF GateInv, GateRequestFits
<1>4. CASE gateStatus[p] = "absent"
  BY <1>1, <1>2, <1>4, GateStaysQuiet DEF Gate!LookUp
<1>5. CASE gateStatus[p] # "absent"
  <2> DEFINE t == [at |-> "commit", event |-> gateTx[s].event, payment |-> gateTx[s].payment,
                   was |-> gateStatus[p], now |-> gateStatus[p]]
  <2>1. t \in GateRequests
    BY <1>3 DEF GateRequests, Gate!Points
  <2>2. gateTx' = [gateTx EXCEPT ![s] = t]
    BY <1>3, <1>5 DEF Gate!LookUp, GateRequests
  <2>3. ~GateInserted(t) /\ ~GatePaying(t)
    BY <1>5 DEF GateInserted, GatePaying
  <2>4. GateRequestFits(s, t)
    BY <1>2, <1>3, <1>5, GateConstants DEF GateRequestFits, Gate!Idle
  <2>5. GateRowFits(s, t, gateStatus, gateFirstKey)
    BY <1>2, <1>5, GateConstants DEF GateRowFits
  <2> QED
    BY <1>1, <2>1, <2>2, <2>3, <2>4, <2>5, GateQuiet, GateGoes
<1> QED
  BY <1>4, <1>5

LEMMA GateInserts == ASSUME GateInv, NEW s \in Gate!Requesters, Gate!InsertPayment(s) PROVE GateInv'
<1> DEFINE p == gateTx[s].payment
<1>1. gateTx[s].at = "insert" /\ UNCHANGED Gate!Rows
  BY DEF Gate!InsertPayment
<1>2. s \in Hooks /\ s \notin Matchers /\ gateTx[s] # Gate!Idle
  BY <1>1, GateConstants DEF GateInv, GateRequestFits, Gate!Idle
<1>3. /\ gateTx \in [Gate!Requesters -> GateRequests]
      /\ gateTx[s].event \in Events /\ p \in Transfers /\ p = About[gateTx[s].event]
  BY <1>2, GateTypes DEF GateInv, GateRequestFits
<1>4. CASE gateStatus[p] # "absent"
  BY <1>1, <1>2, <1>4, GateStaysQuiet DEF Gate!InsertPayment
<1>5. CASE gateStatus[p] = "absent"
  <2>1. PICK at \in {"check", "commit"}, now \in {"parked", "failed"} :
          /\ at = Gate!Outcome(gateTx[s].event).at /\ now = Gate!Outcome(gateTx[s].event).now
          /\ at = "check" => now = "parked"
          /\ now = "failed" => gateTx[s].event \in FailedEvents
    BY <1>3 DEF Gate!Outcome
  <2> DEFINE t == [at |-> at, event |-> gateTx[s].event, payment |-> gateTx[s].payment,
                   was |-> "absent", now |-> now]
  <2>2. t \in GateRequests
    BY <1>3, <2>1 DEF GateRequests, Gate!Points, Gate!States
  <2>3. gateTx' = [gateTx EXCEPT ![s] = t]
    BY <1>3, <1>5, <2>1 DEF Gate!InsertPayment, GateRequests
  <2>4. ~GatePaying(t)
    BY <2>1 DEF GatePaying, Gate!Placed
  <2>5. ASSUME NEW o \in Gate!Requesters \ {s} PROVE GateApart(t, gateTx[o])
    <3>1. GateInserted(gateTx[o]) => Gate!Inserted(o)
      BY DEF GateInserted, Gate!Inserted, Gate!Filing, Gate!None
    <3>2. GateInserted(gateTx[o]) => gateTx[o].payment # p
      BY <3>1 DEF Gate!InsertPayment
    <3> QED
      BY <2>4, <3>2 DEF GateApart
  <2>6. GateRequestFits(s, t)
    BY <1>2, <1>3, <2>1, GateConstants DEF GateRequestFits, Gate!Idle, Gate!States
  <2>7. GateRowFits(s, t, gateStatus, gateFirstKey)
    BY <1>5 DEF GateRowFits
  <2>8. GatePaymentFits(t, gateSettled)
    BY <2>4, GateQuiet DEF GatePaymentFits
  <2> QED
    BY <1>1, <2>2, <2>3, <2>5, <2>6, <2>7, <2>8, GateGoes
<1> QED
  BY <1>4, <1>5

LEMMA GateMatches ==
  ASSUME GateInv, NEW s \in Gate!Requesters, NEW p \in Transfers, Gate!StartMatch(s, p) PROVE GateInv'
<1> DEFINE t == [at |-> "check", event |-> "none", payment |-> p, was |-> gateStatus[p],
                 now |-> "parked"]
<1>1. /\ gateTx' = [gateTx EXCEPT ![s] = t] /\ UNCHANGED Gate!Rows /\ s \in Matchers
      /\ gateStatus[p] \in {"parked", "failed"}
  BY DEF Gate!StartMatch, Gate!None
<1>2. t \in GateRequests
  BY <1>1 DEF GateRequests, Gate!Points, Gate!States
<1>3. ~GateInserted(t) /\ ~GatePaying(t)
  BY DEF GateInserted, GatePaying
<1>4. GateRequestFits(s, t)
  BY <1>1, GateConstants DEF GateRequestFits, Gate!States
<1>5. GateRowFits(s, t, gateStatus, gateFirstKey)
  <2>1. gateStatus[p] = "failed" => gateFirstKey[p] \in FailedEvents
    BY DEF GateInv, GateRowsFit, GateRowFine
  <2> QED
    BY <1>1, <2>1 DEF GateRowFits
<1> QED
  BY <1>1, <1>2, <1>3, <1>4, <1>5, GateQuiet, GateGoes

(* What is being checked or settled is still about the row it read.            *)
LEMMA GateChecks == ASSUME GateInv, NEW s \in Gate!Requesters, Gate!Check(s) PROVE GateInv'
<1>1. gateTx[s].at = "check" /\ UNCHANGED Gate!Rows
  BY DEF Gate!Check
<1>2. PICK at \in {"settle", "commit"} : Gate!Goes(s, at)
  BY DEF Gate!Check
<1>3. PICK t \in GateRequests :
        /\ t = [at |-> at, event |-> gateTx[s].event, payment |-> gateTx[s].payment,
                was |-> gateTx[s].was, now |-> gateTx[s].now]
        /\ gateTx' = [gateTx EXCEPT ![s] = t]
  BY <1>1, <1>2, GateGoesTo DEF Gate!Points
<1>4. GateRequestFits(s, gateTx[s]) /\ GateRowFits(s, gateTx[s], gateStatus, gateFirstKey)
      /\ GateGoing(gateTx[s]) /\ gateTx[s].now = "parked" /\ gateTx[s] # Gate!Idle
      /\ (s \in Hooks => gateTx[s].was = "absent")
  BY <1>1 DEF GateInv, GateRequestFits, GateGoing, Gate!Idle
<1>5. GateRequestFits(s, t)
  BY <1>3, <1>4 DEF GateRequestFits, GateGoing
<1>6. GateRowFits(s, t, gateStatus, gateFirstKey)
  BY <1>3, <1>4 DEF GateRowFits, GateGoing
<1>7. ~GatePaying(t) /\ (GateInserted(t) <=> GateInserted(gateTx[s]))
  BY <1>1, <1>3, <1>4 DEF GatePaying, GateInserted, Gate!Placed
<1>8. ASSUME NEW o \in Gate!Requesters \ {s} PROVE GateApart(t, gateTx[o])
  BY <1>3, <1>7 DEF GateInv, GateApart
<1>9. GatePaymentFits(t, gateSettled)
  BY <1>7 DEF GatePaymentFits
<1> QED
  BY <1>1, <1>3, <1>5, <1>6, <1>8, <1>9, GateGoes

LEMMA GateSettles == ASSUME GateInv, NEW s \in Gate!Requesters, Gate!Settle(s) PROVE GateInv'
<1> DEFINE p == gateTx[s].payment
<1>1. gateTx[s].at = "settle" /\ UNCHANGED Gate!Rows
  BY DEF Gate!Settle
<1>2. /\ GateRequestFits(s, gateTx[s]) /\ GateRowFits(s, gateTx[s], gateStatus, gateFirstKey)
      /\ GateGoing(gateTx[s]) /\ gateTx[s].now = "parked" /\ gateTx[s] # Gate!Idle
      /\ p \in Transfers
  BY <1>1 DEF GateInv, GateRequestFits, GateGoing, Gate!Idle
<1>3. Bill[p] \in Claims
  BY <1>2, GateConstants
<1>4. CASE Amount[p] > Gate!OpenAmount(Bill[p]) \/ gateSettled[p] > 0
  <2>1. Gate!Goes(s, "refused")
    BY <1>4 DEF Gate!Settle
  <2>2. gateTx[s].at # "idle"
    BY <1>1
  <2> QED
    BY <1>1, <2>1, <2>2, GateStaysQuiet
<1>5. CASE ~(Amount[p] > Gate!OpenAmount(Bill[p]) \/ gateSettled[p] > 0)
  <2>1. PICK now \in Gate!Placed :
          now = IF Amount[p] = Gate!OpenAmount(Bill[p]) THEN "settled" ELSE "partial"
    BY DEF Gate!Placed
  <2> DEFINE t == [at |-> "commit", event |-> gateTx[s].event, payment |-> gateTx[s].payment,
                   was |-> gateTx[s].was, now |-> now]
  <2>2. gateTx \in [Gate!Requesters -> GateRequests]
    BY GateTypes DEF GateInv
  <2>3. t \in GateRequests
    BY <2>1, <2>2 DEF GateRequests, Gate!Points, Gate!States, Gate!Placed
  <2>4. gateTx' = [gateTx EXCEPT ![s] = t]
    BY <1>5, <2>1, <2>2 DEF Gate!Settle, GateRequests
  <2>5. GateRequestFits(s, t)
    <3>1. gateTx[s].was \in {"absent", "parked", "failed"}
      BY <1>2, GateConstants DEF GateRequestFits
    <3>2. s \in Hooks => gateTx[s].was = "absent"
      BY <1>1, <1>2 DEF GateRequestFits
    <3> QED
      BY <1>1, <1>2, <2>1, <3>2 DEF GateRequestFits, GateGoing, Gate!States, Gate!Placed
  <2>6. GateRowFits(s, t, gateStatus, gateFirstKey)
    BY <1>2 DEF GateRowFits, GateGoing
  <2>7. GatePaymentFits(t, gateSettled)
    <3>1. Gate!OpenAmount(Bill[p]) = Owing[Bill[p]] - Settlements(gateSettled, Bill[p])
      BY <1>3, OpenIsRest
    <3>2. /\ Settlements(gateSettled, Bill[p]) \in Nat /\ Owing[Bill[p]] \in Nat
          /\ Amount[p] \in Nat
      BY <1>2, <1>3, GateConstants, GateTypes, SettlementsAreNat DEF GateInv
    <3>3. PICK n \in Nat : n = gateSettled[p]
      BY <1>2, GateTypes DEF GateInv
    <3>4. gateSettled[p] = 0
      BY <1>5, <3>3
    <3> QED
      BY <1>5, <2>1, <3>1, <3>2, <3>4 DEF GatePaymentFits
  <2>8. ASSUME NEW o \in Gate!Requesters \ {s} PROVE GateApart(t, gateTx[o])
    <3>1. GateApart(gateTx[s], gateTx[o])
      BY DEF GateInv
    <3>2. GateInserted(t) <=> GateInserted(gateTx[s])
      BY <1>1 DEF GateInserted
    <3>3. ~(GatePaying(gateTx[o]) /\ Bill[gateTx[o].payment] = Bill[p])
      BY DEF Gate!Settle, Gate!Locked, GatePaying
    <3> QED
      BY <3>1, <3>2, <3>3 DEF GateApart
  <2> QED
    BY <1>1, <2>3, <2>4, <2>5, <2>6, <2>7, <2>8, GateGoes
<1> QED
  BY <1>4, <1>5

(* Two requests at one payment have both found it, and only a person writes    *)
(* its row again.                                                              *)
LEMMA GateWritesAlone ==
  ASSUME GateInv, NEW s \in Gate!Requesters, NEW o \in Gate!Requesters \ {s},
         gateTx[s].at = "commit", GateGoing(gateTx[o]), gateTx[o].payment = gateTx[s].payment
  PROVE  /\ gateTx[s].was # "absent" /\ gateTx[o].was # "absent"
         /\ gateTx[s].now # gateTx[s].was => s \in Matchers
<1>1. /\ GateRequestFits(s, gateTx[s]) /\ GateRowFits(s, gateTx[s], gateStatus, gateFirstKey)
      /\ GateRequestFits(o, gateTx[o]) /\ GateRowFits(o, gateTx[o], gateStatus, gateFirstKey)
      /\ GateApart(gateTx[s], gateTx[o]) /\ GateGoing(gateTx[s])
  BY DEF GateInv, GateGoing
<1>2. gateTx[s] # Gate!Idle /\ gateTx[o] # Gate!Idle
  BY DEF Gate!Idle, GateGoing
<1>3. gateTx[s].was = "absent" <=> gateTx[o].was = "absent"
  BY <1>1 DEF GateRowFits
<1>4. ASSUME gateTx[s].was = "absent" PROVE FALSE
  <2>1. s \in Hooks /\ o \in Hooks
    BY <1>1, <1>3, <1>4, GateConstants DEF GateRequestFits
  <2>2. gateTx[s].event # "none" /\ gateTx[o].event # "none"
    BY <1>1, <1>2, <2>1, GateConstants DEF GateRequestFits
  <2>3. GateInserted(gateTx[s]) /\ GateInserted(gateTx[o])
    BY <1>3, <1>4, <2>2 DEF GateInserted, GateGoing
  <2> QED
    BY <1>1, <2>3 DEF GateApart
<1>5. gateTx[s].now # gateTx[s].was => s \in Matchers
  BY <1>1, <1>4, GateConstants DEF GateRequestFits
<1> QED
  BY <1>3, <1>4, <1>5

LEMMA GateCommits ==
  ASSUME GateInv, NEW s \in Gate!Requesters, Gate!Commit(s) PROVE GateInv'
<1> DEFINE t == gateTx[s]
           p == t.payment
           i == Bill[p]
<1>1. /\ t.at = "commit" /\ gateOwed' = gateOwed
      /\ gateInbox' = IF t.event = "none" THEN gateInbox ELSE gateInbox \cup {t.event}
      /\ gateStatus' = IF t.now # t.was THEN [gateStatus EXCEPT ![p] = t.now] ELSE gateStatus
      /\ gateFirstKey' = IF t.was = "absent" THEN [gateFirstKey EXCEPT ![p] = t.event]
                         ELSE gateFirstKey
      /\ gateSettled' = IF Gate!Settles(s) THEN [gateSettled EXCEPT ![p] = @ + 1] ELSE gateSettled
      /\ gateTx' = [gateTx EXCEPT ![s] = Gate!Idle]
  BY DEF Gate!Commit, Gate!None
<1>2. /\ GateRequestFits(s, t) /\ GateRowFits(s, t, gateStatus, gateFirstKey) /\ GatePaymentFits(t, gateSettled)
      /\ GateGoing(t) /\ t # Gate!Idle
  BY <1>1 DEF GateInv, GateGoing, Gate!Idle
<1>3. /\ p \in Transfers /\ i \in Claims /\ t.now \in Gate!States \ {"absent"}
      /\ t.event \in Events \cup {"none"} /\ (t.event \in Events => p = About[t.event])
  <2>1. p \in Transfers /\ i \in Claims /\ t.now \in Gate!States \ {"absent"}
    BY <1>2, GateConstants DEF GateRequestFits
  <2>2. CASE s \in Hooks
    BY <1>2, <2>1, <2>2 DEF GateRequestFits
  <2>3. CASE s \in Matchers
    BY <1>2, <2>1, <2>3, GateConstants DEF GateRequestFits
  <2> QED
    BY <2>1, <2>2, <2>3, GateConstants
<1>4. /\ gateOwed \in [Claims -> BOOLEAN] /\ gateInbox \subseteq Events
      /\ gateStatus \in [Transfers -> Gate!States]
      /\ gateFirstKey \in [Transfers -> Events \cup {"none"}]
      /\ gateSettled \in [Transfers -> Nat] /\ gateTx \in [Gate!Requesters -> GateRequests]
  BY GateTypes DEF GateInv
<1>5. t.was = "absent" <=> gateStatus[p] = "absent"
  BY <1>2 DEF GateRowFits
<1>6. /\ gateStatus' \in [Transfers -> Gate!States]
      /\ gateStatus'[p] # "absent"
      /\ t.now # t.was => gateStatus'[p] = t.now
      /\ \A q \in Transfers \ {p} : gateStatus'[q] = gateStatus[q]
      /\ \A q \in Transfers : gateStatus[q] # "absent" => gateStatus'[q] # "absent"
  <2>1. CASE t.now # t.was
    BY <1>1, <1>3, <1>4, <2>1
  <2>2. CASE t.now = t.was
    BY <1>1, <1>2, <1>3, <1>4, <2>2 DEF GateRowFits
  <2> QED
    BY <2>1, <2>2
<1>7. Gate!Idle \in GateRequests
  BY DEF Gate!Idle, GateRequests, Gate!None, Gate!Points, Gate!States
<1>8. /\ gateTx' \in [Gate!Requesters -> GateRequests] /\ gateTx'[s] = Gate!Idle
      /\ \A o \in Gate!Requesters \ {s} : gateTx'[o] = gateTx[o]
  BY <1>1, <1>4, <1>7
<1>9. ~GateInserted(Gate!Idle) /\ ~GatePaying(Gate!Idle) /\ ~GateGoing(Gate!Idle)
      /\ GateRequestFits(s, Gate!Idle)
  BY DEF GateInserted, GatePaying, GateGoing, Gate!Idle, Gate!None, GateRequestFits
<1>10. Gate!Settles(s) <=> GatePaying(t)
  BY <1>1 DEF Gate!Settles, GatePaying
<1>11. GatePaying(t) => t.now # t.was /\ gateSettled[p] = 0
  BY <1>2 DEF GatePaying, GatePaymentFits
<1>12. /\ gateSettled' \in [Transfers -> Nat]
       /\ GatePaying(t) => gateSettled' = [gateSettled EXCEPT ![p] = 1]
       /\ ~GatePaying(t) => gateSettled' = gateSettled
  <2>1. CASE GatePaying(t)
    <3>1. PICK a \in [Transfers -> Nat] : a = gateSettled
      BY <1>4
    <3>2. gateSettled' = [a EXCEPT ![p] = a[p] + 1] /\ a[p] = 0
      BY <1>1, <1>10, <1>11, <2>1, <3>1
    <3>3. a[p] + 1 = 1
      BY <3>2
    <3>4. gateSettled' = [a EXCEPT ![p] = 1]
      BY <3>2, <3>3
    <3>5. [a EXCEPT ![p] = 1] \in [Transfers -> Nat]
      BY <3>1
    <3> QED
      BY <2>1, <3>1, <3>4, <3>5
  <2>2. CASE ~GatePaying(t)
    BY <1>1, <1>4, <1>10, <2>2
  <2> QED
    BY <2>1, <2>2
<1>13. \A j \in Claims :
         /\ Settlements(gateSettled, j) \in Nat
         /\ Settlements(gateSettled', j) = Settlements(gateSettled, j)
              + (IF GatePaying(t) /\ i = j THEN Amount[p] ELSE 0)
  <2> SUFFICES ASSUME NEW j \in Claims
               PROVE  /\ Settlements(gateSettled, j) \in Nat
                      /\ Settlements(gateSettled', j) = Settlements(gateSettled, j)
                           + (IF GatePaying(t) /\ i = j THEN Amount[p] ELSE 0)
    OBVIOUS
  <2>1. Settlements(gateSettled, j) \in Nat
    BY <1>4, SettlementsAreNat
  <2>2. CASE GatePaying(t)
    <3>1. PICK a \in [Transfers -> Nat] : a = gateSettled
      BY <1>4
    <3>2. PICK r \in Transfers : r = p /\ a[r] = 0
      BY <1>3, <1>11, <2>2, <3>1
    <3>3. PICK b : b = gateSettled' /\ b = [a EXCEPT ![r] = 1]
      BY <1>12, <2>2, <3>1, <3>2
    <3>4. Settlements(b, j) = Settlements(a, j) + (IF Bill[r] = j THEN Amount[r] ELSE 0)
      <4>1. a[r] = 0 /\ b = [a EXCEPT ![r] = 1]
        BY <3>2, <3>3
      <4> QED
        BY ONLY <4>1, SettlementAdds
    <3> QED
      BY <2>1, <2>2, <3>1, <3>2, <3>3, <3>4
  <2>3. CASE ~GatePaying(t)
    BY <1>12, <2>1, <2>3
  <2> QED
    BY <2>1, <2>2, <2>3
<1>14. Amount[p] \in Nat \ {0} /\ Owing[i] \in Nat
  BY <1>3, GateConstants
<1>15. Gate!TypeOK'
  <2>1. gateInbox' \subseteq Events
    BY <1>1, <1>3, <1>4
  <2>2. gateFirstKey' \in [Transfers -> Events \cup {"none"}]
    BY <1>1, <1>3, <1>4
  <2> QED
    BY <1>1, <1>4, <1>6, <1>8, <1>12, <2>1, <2>2 DEF Gate!TypeOK, GateRequests, Gate!None
<1>16. ASSUME NEW o \in Gate!Requesters
       PROVE  /\ GateRequestFits(o, gateTx'[o])
              /\ GateRowFits(o, gateTx'[o], gateStatus', gateFirstKey')
              /\ GatePaymentFits(gateTx'[o], gateSettled')
  <2>1. CASE o = s
    BY <1>8, <1>9, <2>1 DEF GateRowFits, GatePaymentFits
  <2>2. CASE o # s
    <3>1. /\ gateTx'[o] = gateTx[o] /\ GateRequestFits(o, gateTx[o])
          /\ GateRowFits(o, gateTx[o], gateStatus, gateFirstKey) /\ GatePaymentFits(gateTx[o], gateSettled)
          /\ GateApart(t, gateTx[o])
      BY <1>8, <2>2 DEF GateInv
    <3>2. GateGoing(gateTx[o]) => gateTx[o].payment \in Transfers
      BY <3>1 DEF GateRequestFits, GateGoing, Gate!Idle
    <3>3. GateRowFits(o, gateTx[o], gateStatus', gateFirstKey')
      <4>1. CASE GateGoing(gateTx[o]) /\ gateTx[o].payment = p
        <5>1. /\ t.was # "absent" /\ gateTx[o].was # "absent"
              /\ t.now # t.was => s \in Matchers
          BY <1>1, <2>2, <4>1, GateWritesAlone
        <5>2. gateFirstKey' = gateFirstKey
          BY <1>1, <5>1
        <5>3. o \in Matchers /\ ~Several => t.now = t.was
          BY <2>2, <5>1 DEF Several
        <5>4. o \in Matchers /\ ~Several => gateStatus'[p] = gateTx[o].was
          BY <1>1, <3>1, <4>1, <5>3 DEF GateRowFits
        <5> QED
          BY <1>6, <3>1, <4>1, <5>1, <5>2, <5>4 DEF GateRowFits
      <4>2. CASE ~GateGoing(gateTx[o])
        BY <4>2 DEF GateRowFits
      <4>3. CASE GateGoing(gateTx[o]) /\ gateTx[o].payment # p
        <5>1. gateStatus'[gateTx[o].payment] = gateStatus[gateTx[o].payment]
          BY <1>6, <3>2, <4>3
        <5>2. gateFirstKey'[gateTx[o].payment] = gateFirstKey[gateTx[o].payment]
          BY <1>1, <1>3, <1>4, <3>2, <4>3
        <5> QED
          BY <3>1, <5>1, <5>2 DEF GateRowFits
      <4> QED
        BY <4>1, <4>2, <4>3
    <3>4. GatePaymentFits(gateTx[o], gateSettled')
      <4> SUFFICES ASSUME GatePaying(gateTx[o]) PROVE GatePaymentFits(gateTx[o], gateSettled')
        BY DEF GatePaymentFits
      <4>1. GateGoing(gateTx[o])
        BY DEF GatePaying, GateGoing
      <4>2. Bill[gateTx[o].payment] \in Claims /\ (GatePaying(t) => Bill[gateTx[o].payment] # i)
        BY <3>1, <3>2, <4>1, GateConstants DEF GateApart
      <4>3. Settlements(gateSettled', Bill[gateTx[o].payment])
              = Settlements(gateSettled, Bill[gateTx[o].payment])
        BY <1>13, <4>2
      <4>4. gateSettled'[gateTx[o].payment] = gateSettled[gateTx[o].payment]
        BY <1>4, <1>12, <3>2, <4>1, <4>2
      <4> QED
        BY <3>1, <4>3, <4>4 DEF GatePaymentFits
    <3> QED
      BY <3>1, <3>3, <3>4
  <2> QED
    BY <2>1, <2>2
<1>17. ASSUME NEW o \in Gate!Requesters, NEW n \in Gate!Requesters \ {o}
       PROVE  GateApart(gateTx'[o], gateTx'[n])
  <2>1. CASE o = s \/ n = s
    BY <1>8, <1>9, <2>1 DEF GateApart
  <2>2. CASE o # s /\ n # s
    BY <1>8, <2>2 DEF GateInv
  <2> QED
    BY <2>1, <2>2
<1>18. GatePaying(t) => /\ Settlements(gateSettled', i) = Settlements(gateSettled, i) + Amount[p]
                        /\ Settlements(gateSettled', i) <= Owing[i]
                        /\ t.now = "settled" => Settlements(gateSettled', i) = Owing[i]
                        /\ Settlements(gateSettled, i) < Owing[i]
  <2> SUFFICES ASSUME GatePaying(t)
               PROVE  /\ Settlements(gateSettled', i) = Settlements(gateSettled, i) + Amount[p]
                      /\ Settlements(gateSettled', i) <= Owing[i]
                      /\ t.now = "settled" => Settlements(gateSettled', i) = Owing[i]
                      /\ Settlements(gateSettled, i) < Owing[i]
    OBVIOUS
  <2>1. PICK x \in Nat, y \in Nat, a \in Nat \ {0}, w \in Nat :
          /\ x = Settlements(gateSettled, i) /\ y = Settlements(gateSettled', i)
          /\ a = Amount[p] /\ w = Owing[i] /\ y = x + a
    BY <1>3, <1>13, <1>14
  <2>2. a <= w - x /\ (t.now = "settled" => a = w - x)
    BY <1>2, <2>1 DEF GatePaymentFits
  <2>3. y <= w /\ x < w /\ (t.now = "settled" => y = w)
    BY <2>1, <2>2
  <2> QED
    BY <2>1, <2>3
<1>19. GateRowsFit(gateStatus', gateFirstKey', gateSettled')
  <2> SUFFICES ASSUME NEW q \in Transfers
               PROVE  /\ GateRowFine(gateStatus'[q], gateFirstKey'[q], gateSettled'[q])
                      /\ gateStatus'[q] = "settled" =>
                           Settlements(gateSettled', Bill[q]) = Owing[Bill[q]]
    BY DEF GateRowsFit
  <2>0. Bill[q] \in Claims
    BY GateConstants
  <2>1. /\ GateRowFine(gateStatus[q], gateFirstKey[q], gateSettled[q])
        /\ gateStatus[q] = "settled" => Settlements(gateSettled, Bill[q]) = Owing[Bill[q]]
    BY DEF GateInv, GateRowsFit
  <2>2. CASE q = p /\ GatePaying(t)
    <3>1. gateStatus'[q] = t.now /\ gateSettled'[q] = 1 /\ t.now \in Gate!Placed
      BY <1>3, <1>4, <1>6, <1>11, <1>12, <2>2 DEF GatePaying
    <3>2. GateRowFine(gateStatus'[q], gateFirstKey'[q], gateSettled'[q])
      BY <3>1 DEF GateRowFine, Gate!Placed
    <3> QED
      BY <1>18, <2>2, <3>1, <3>2
  <2>3. CASE q = p /\ ~GatePaying(t)
    <3>1. gateSettled' = gateSettled /\ \A j \in Claims : Settlements(gateSettled', j) = Settlements(gateSettled, j)
      BY <1>12, <2>3
    <3>2. CASE t.was = "absent"
      <4>1. s \in Hooks /\ t.now # t.was
        BY <1>2, <3>2, GateConstants DEF GateRequestFits
      <4>2. gateStatus'[q] = t.now /\ gateStatus[q] = "absent" /\ gateFirstKey'[q] = t.event
        BY <1>1, <1>3, <1>4, <1>5, <1>6, <2>3, <3>2, <4>1
      <4>3. t.now \notin Gate!Placed
        BY <1>1, <2>3, <3>2 DEF GatePaying, Gate!Placed
      <4>4. t.now = "failed" => t.event \in FailedEvents
        BY <1>2, <3>2, <4>1 DEF GateRequestFits
      <4>5. gateSettled'[q] = 0
        BY <2>1, <3>1, <4>2 DEF GateRowFine
      <4>6. GateRowFine(gateStatus'[q], gateFirstKey'[q], gateSettled'[q])
        BY <4>2, <4>3, <4>4, <4>5 DEF GateRowFine
      <4> QED
        BY <4>2, <4>3, <4>6 DEF Gate!Placed
    <3>3. CASE t.now = t.was /\ t.was # "absent"
      <4>1. gateStatus' = gateStatus /\ gateFirstKey' = gateFirstKey
        BY <1>1, <3>3
      <4> QED
        BY <2>0, <2>1, <3>1, <4>1
    <3>4. CASE t.now # t.was /\ t.was # "absent"
      <4>1. s \in Matchers
        BY <1>2, <3>4, GateConstants DEF GateRequestFits
      <4>2. t.now \notin Gate!Placed
        BY <1>1, <1>2, <2>3, <4>1 DEF GatePaying, GateRequestFits, Gate!Placed
      <4>3. t.now = "parked" /\ t.was = "failed"
        BY <1>2, <3>4, <4>1, <4>2 DEF GateRequestFits
      <4>4. gateStatus'[q] = "parked" /\ gateFirstKey' = gateFirstKey
        BY <1>1, <1>6, <2>3, <3>4, <4>3
      <4>5. gateFirstKey[q] \in FailedEvents /\ (~Several => gateStatus[q] = "failed")
        BY <1>2, <2>3, <4>1, <4>3 DEF GateRowFits
      <4>6. ~Several => gateSettled[q] # 1
        BY <2>1, <4>5 DEF GateRowFine, Gate!Placed
      <4>7. gateSettled'[q] \in {0, 1}
        BY <2>1, <3>1 DEF GateRowFine
      <4>8. GateRowFine(gateStatus'[q], gateFirstKey'[q], gateSettled'[q])
        BY <3>1, <4>4, <4>5, <4>6, <4>7 DEF GateRowFine, Gate!Placed
      <4> QED
        BY <4>4, <4>8
    <3> QED
      BY <3>2, <3>3, <3>4
  <2>4. CASE q # p
    <3>1. /\ gateStatus'[q] = gateStatus[q] /\ gateSettled'[q] = gateSettled[q]
          /\ gateFirstKey'[q] = gateFirstKey[q]
      BY <1>1, <1>3, <1>4, <1>6, <1>12, <2>4
    <3>2. ASSUME gateStatus[q] = "settled"
          PROVE  Settlements(gateSettled', Bill[q]) = Owing[Bill[q]]
      <4>1. ~(GatePaying(t) /\ Bill[q] = i)
        <5>1. SUFFICES ASSUME GatePaying(t), Bill[q] = i PROVE FALSE
          OBVIOUS
        <5>2. PICK x \in Nat, w \in Nat : x = Settlements(gateSettled, i) /\ w = Owing[i]
          BY <1>3, <1>13, <1>14
        <5>3. x < w /\ x = w
          BY <1>18, <2>1, <3>2, <5>1, <5>2
        <5> QED
          BY <5>2, <5>3
      <4>2. Settlements(gateSettled', Bill[q]) = Settlements(gateSettled, Bill[q])
        BY <1>13, <2>0, <4>1
      <4> QED
        BY <2>1, <3>2, <4>2
    <3> QED
      BY <2>1, <3>1, <3>2
  <2> QED
    BY <2>2, <2>3, <2>4
<1>20. \A j \in Claims : Settlements(gateSettled', j) <= Owing[j]
  <2> SUFFICES ASSUME NEW j \in Claims PROVE Settlements(gateSettled', j) <= Owing[j]
    OBVIOUS
  <2>1. CASE GatePaying(t) /\ i = j
    BY <1>18, <2>1
  <2>2. CASE ~(GatePaying(t) /\ i = j)
    <3>1. Settlements(gateSettled', j) = Settlements(gateSettled, j)
      BY <1>13, <2>2
    <3> QED
      BY <3>1 DEF GateInv
  <2> QED
    BY <2>1, <2>2
<1>21. Gate!AnsweredIsKnown'
  <2> SUFFICES ASSUME NEW e \in gateInbox' PROVE gateStatus'[About[e]] # "absent"
    BY DEF Gate!AnsweredIsKnown
  <2>1. CASE e \in gateInbox
    <3>1. gateStatus[About[e]] # "absent" /\ About[e] \in Transfers
      BY <1>4, <2>1, GateConstants DEF GateInv, Gate!AnsweredIsKnown
    <3> QED
      BY <1>6, <3>1
  <2>2. CASE e \notin gateInbox
    <3>1. e = t.event /\ t.event \in Events
      BY <1>1, <1>3, <2>2
    <3> QED
      BY <1>3, <1>6, <3>1
  <2> QED
    BY <2>1, <2>2
<1> QED
  BY <1>15, <1>16, <1>17, <1>19, <1>20, <1>21 DEF GateInv

LEMMA GateStart == Gate!Init => GateInv
<1> SUFFICES ASSUME Gate!Init PROVE GateInv
  OBVIOUS
<1>1. /\ gateOwed = [i \in Claims |-> FALSE] /\ gateInbox = {}
      /\ gateStatus = [p \in Transfers |-> "absent"] /\ gateFirstKey = [p \in Transfers |-> "none"]
      /\ gateSettled = [p \in Transfers |-> 0] /\ gateTx = [s \in Gate!Requesters |-> Gate!Idle]
  BY DEF Gate!Init, Gate!None
<1>2. /\ Gate!Idle \in GateRequests /\ ~GateInserted(Gate!Idle) /\ ~GatePaying(Gate!Idle)
      /\ ~GateGoing(Gate!Idle) /\ \A s \in Gate!Requesters : GateRequestFits(s, Gate!Idle)
  BY DEF GateInserted, GatePaying, GateGoing, Gate!Idle, Gate!None, GateRequestFits,
         GateRequests, Gate!Points, Gate!States
<1>3. Gate!TypeOK
  BY <1>1, <1>2 DEF Gate!TypeOK, GateRequests, Gate!None, Gate!States
<1>4. ASSUME NEW i \in Claims PROVE Settlements(gateSettled, i) = 0
  <2> DEFINE f == [p \in Billed(i) |-> gateSettled[p] * Amount[p]]
  <2>1. IsFiniteSet(Billed(i)) /\ Billed(i) \subseteq Transfers
    BY GateConstants, FS_Subset DEF Billed
  <2>2. ASSUME NEW p \in Billed(i) PROVE f[p] = 0
    <3>1. PICK n \in Nat : n = Amount[p]
      BY <2>1, GateConstants
    <3>2. 0 * n = 0 /\ gateSettled[p] = 0
      BY <1>1, <2>1
    <3> QED
      BY <3>1, <3>2
  <2> HIDE DEF f
  <2>3. SumOver(f, Billed(i)) = 0
    BY <2>1, <2>2, SumOfZeros
  <2> QED
    BY <2>3 DEF f, Settlements
<1>5. GateRowsFit(gateStatus, gateFirstKey, gateSettled)
  BY <1>1 DEF GateRowsFit, GateRowFine, Gate!Placed
<1>6. \A i \in Claims : Settlements(gateSettled, i) <= Owing[i]
  BY <1>4, GateConstants
<1>7. \A s \in Gate!Requesters : /\ GateRequestFits(s, gateTx[s])
                               /\ GateRowFits(s, gateTx[s], gateStatus, gateFirstKey)
                               /\ GatePaymentFits(gateTx[s], gateSettled)
  BY <1>1, <1>2 DEF GateRowFits, GatePaymentFits
<1>8. \A s \in Gate!Requesters : \A o \in Gate!Requesters \ {s} : GateApart(gateTx[s], gateTx[o])
  BY <1>1, <1>2 DEF GateApart
<1>9. Gate!AnsweredIsKnown
  BY <1>1 DEF Gate!AnsweredIsKnown
<1> QED
  BY <1>3, <1>5, <1>6, <1>7, <1>8, <1>9 DEF GateInv

LEMMA GateStep == GateInv /\ [Gate!Next]_(Gate!vars) => GateInv'
<1> SUFFICES ASSUME GateInv, [Gate!Next]_(Gate!vars) PROVE GateInv'
  OBVIOUS
<1>1. CASE UNCHANGED Gate!vars
  <2>1. /\ gateOwed' = gateOwed /\ gateInbox' = gateInbox /\ gateStatus' = gateStatus
        /\ gateFirstKey' = gateFirstKey /\ gateSettled' = gateSettled /\ gateTx' = gateTx
    BY <1>1 DEF Gate!vars
  <2> QED
    BY <2>1 DEF GateInv, Gate!TypeOK, Gate!AnsweredIsKnown
<1>2. ASSUME NEW s \in Gate!Requesters, Gate!Step(s) \/ Gate!Fail(s) PROVE GateInv'
  <2>1. CASE Gate!Answer(s) \/ Gate!Fail(s)
    BY <2>1, GateEnds DEF Gate!Answer, Gate!Fail
  <2> QED
    BY <1>2, <2>1, GateFiles, GateLooksUp, GateInserts, GateChecks, GateSettles, GateCommits
    DEF Gate!Step
<1>3. CASE Gate!Next
  BY <1>2, <1>3, GatePosts, GateReceives, GateMatches DEF Gate!Next, Gate!Work
<1> QED
  BY <1>1, <1>3

LEMMA GateInvTellsTheMoney ==
  GateInv => /\ Gate!NeverOverSettled /\ Gate!SettledOnce /\ Gate!StatusTellsTheMoney
             /\ Gate!AnsweredIsKnown
<1> SUFFICES ASSUME GateInv
             PROVE  Gate!NeverOverSettled /\ Gate!SettledOnce /\ Gate!StatusTellsTheMoney
  BY DEF GateInv
<1>1. gateSettled \in [Transfers -> Nat]
  BY GateTypes DEF GateInv
<1>2. ASSUME NEW i \in Claims
      PROVE  /\ Gate!OpenAmount(i) >= 0
             /\ Settlements(gateSettled, i) = Owing[i] => Gate!OpenAmount(i) = 0
  <2>1. PICK x \in Nat, w \in Nat : x = Settlements(gateSettled, i) /\ w = Owing[i] /\ x <= w
    BY <1>1, GateConstants, SettlementsAreNat DEF GateInv
  <2>2. Gate!OpenAmount(i) = w - x
    BY <2>1, OpenIsRest
  <2> QED
    BY <2>1, <2>2
<1>3. Gate!NeverOverSettled
  BY <1>2 DEF Gate!NeverOverSettled
<1>4. Gate!SettledOnce
  BY DEF Gate!SettledOnce, GateInv, GateRowsFit, GateRowFine
<1>5. Gate!StatusTellsTheMoney
  <2> SUFFICES ASSUME NEW p \in Transfers
               PROVE  /\ gateStatus[p] \in Gate!Placed => gateSettled[p] > 0
                      /\ gateSettled[p] > 0 => \/ gateStatus[p] \in Gate!Placed
                                               \/ Gate!Overtaken(p) /\ Several
                      /\ gateStatus[p] = "settled" => Gate!OpenAmount(Bill[p]) = 0
    BY DEF Gate!StatusTellsTheMoney, Several
  <2>1. GateRowFine(gateStatus[p], gateFirstKey[p], gateSettled[p])
    BY DEF GateInv, GateRowsFit
  <2>2. gateStatus[p] = "settled" => Gate!OpenAmount(Bill[p]) = 0
    BY <1>2, GateConstants DEF GateInv, GateRowsFit
  <2> QED
    BY <2>1, <2>2 DEF GateRowFine, Gate!Overtaken
<1> QED
  BY <1>3, <1>4, <1>5

(* -------------------------------- all desks -------------------------------- *)

SalesInv ==
  /\ desk \in Desks
  /\ OrderInv /\ BillInv /\ RemindInv /\ GateInv /\ TillInv /\ BoardInv /\ PriceInv

(* A step of one desk leaves the others alone.                                 *)
LEMMA DesksAreApart ==
  ASSUME [Next]_vars
  PROVE  /\ desk' = desk
         /\ [Orders!Next]_(Orders!vars) /\ [Billing!Next]_(Billing!vars)
         /\ [Reminders!Next]_(Reminders!vars) /\ [Gate!Next]_(Gate!vars)
         /\ [Till!Next]_(Till!vars) /\ [Board!Next]_(Board!vars) /\ [Prices!Next]_(Prices!vars)
<1>1. UNCHANGED orderVars => UNCHANGED Orders!vars
  BY DEF orderVars, Orders!vars
<1>2. UNCHANGED billVars => UNCHANGED Billing!vars
  BY DEF billVars, Billing!vars
<1>3. UNCHANGED remindVars => UNCHANGED Reminders!vars
  BY DEF remindVars, Reminders!vars
<1>4. UNCHANGED gateVars => UNCHANGED Gate!vars
  BY DEF gateVars, Gate!vars
<1>5. UNCHANGED tillVars => UNCHANGED Till!vars
  BY DEF tillVars, Till!vars
<1>6. UNCHANGED boardVars => UNCHANGED Board!vars
  BY DEF boardVars, Board!vars
<1>7. UNCHANGED priceVars => UNCHANGED Prices!vars
  BY DEF priceVars, Prices!vars
<1>8. \/ OrdersWork \/ BillingWork \/ RemindersWork \/ GateWork \/ TillWork \/ QueueWork
      \/ BoardWork \/ PricesWork \/ UNCHANGED vars
  BY DEF Next
<1>9. CASE OrdersWork
  BY <1>2, <1>3, <1>4, <1>5, <1>6, <1>7, <1>9 DEF OrdersWork
<1>10. CASE BillingWork
  BY <1>1, <1>3, <1>4, <1>5, <1>6, <1>7, <1>10 DEF BillingWork
<1>11. CASE RemindersWork
  BY <1>1, <1>2, <1>4, <1>5, <1>6, <1>7, <1>11 DEF RemindersWork
<1>12. CASE GateWork
  BY <1>1, <1>2, <1>3, <1>5, <1>6, <1>7, <1>12 DEF GateWork
<1>13. CASE TillWork \/ QueueWork
  BY <1>1, <1>2, <1>3, <1>4, <1>6, <1>7, <1>13 DEF TillWork, QueueWork
<1>14. CASE BoardWork
  BY <1>1, <1>2, <1>3, <1>4, <1>5, <1>7, <1>14 DEF BoardWork
<1>15. CASE PricesWork
  BY <1>1, <1>2, <1>3, <1>4, <1>5, <1>6, <1>15 DEF PricesWork
<1>16. CASE UNCHANGED vars
  BY <1>1, <1>2, <1>3, <1>4, <1>5, <1>6, <1>7, <1>16 DEF vars
<1> QED
  BY <1>8, <1>9, <1>10, <1>11, <1>12, <1>13, <1>14, <1>15, <1>16

LEMMA SalesStart == Init => SalesInv /\ Orders!Promise!Init
BY OrderStart, BillStart, RemindStart, GateStart, TillStart, BoardStart, PriceStart
   DEF Init, SalesInv

LEMMA SalesStep ==
  ASSUME Serial = TRUE, SalesInv, [Next]_vars
  PROVE  SalesInv' /\ ReportsStand /\ [Orders!Promise!Next]_(Orders!Promise!vars)
<1>1. OrderInv' /\ [Orders!Promise!Next]_(Orders!Promise!vars)
  BY DesksAreApart, OrderStep DEF SalesInv
<1>2. BillInv'
  BY DesksAreApart, BillingStep DEF SalesInv
<1>3. RemindInv'
  BY DesksAreApart, RemindersStep DEF SalesInv
<1>4. TillInv' /\ ReportsStand
  BY DesksAreApart, TillStep DEF SalesInv
<1>5. BoardInv'
  BY DesksAreApart, BoardStep DEF SalesInv
<1>6. PriceInv'
  BY DesksAreApart, PriceStep DEF SalesInv
<1>7. GateInv'
  BY DesksAreApart, GateStep DEF SalesInv
<1> QED
  BY <1>1, <1>2, <1>3, <1>4, <1>5, <1>6, <1>7, DesksAreApart DEF SalesInv

(* The nightly jobs keep their invariants whether the users take turns or not. *)
JobsInv == BillInv /\ RemindInv

LEMMA JobsStep == JobsInv /\ [Next]_vars => JobsInv'
BY DesksAreApart, BillingStep, RemindersStep DEF JobsInv

(* Where the users take turns, every desk keeps its invariant: what an open    *)
(* request read is still so when it writes, and no two requests write one row. *)
THEOREM SalesInvariant ==
  ASSUME Serial = TRUE
  PROVE  Spec => []SalesInv
<1>1. Init => SalesInv
  BY SalesStart
<1>2. SalesInv /\ [Next]_vars => SalesInv'
  BY SalesStep
<1> QED
  BY <1>1, <1>2, PTL DEF Spec

LEMMA SalesInvIsTyped == SalesInv => TypeOK
<1> SUFFICES ASSUME SalesInv PROVE TypeOK
  OBVIOUS
<1>1. Orders!TypeOK
  BY DEF SalesInv, OrderInv, RowsInv, OrderTypes
<1>2. Billing!TypeOK
  <2>1. /\ billToday \in Billing!Periods /\ billPaused \in [Billing!Templates -> BOOLEAN]
        /\ billInvoices \in [Billing!Templates -> [Billing!Periods -> Nat]]
        /\ billRuns \in Billing!RunRows /\ billCrashes \in 0..MaxCrashes
    BY DEF SalesInv, BillInv, BillTypes, Billing!RunRows
  <2>2. \A t \in Billing!Templates :
          [paused |-> billPaused[t], ends |-> EndPeriods[t]] \in Billing!TemplateRows
    BY <2>1, BillConstants DEF Billing!TemplateRows, Billing!Periods
  <2> QED
    BY <2>1, <2>2 DEF Billing!TypeOK
<1>3. Reminders!TypeOK
  BY DEF SalesInv, RemindInv, RemindTypes, Reminders!TypeOK
<1>4. Till!TypeOK
  BY DEF SalesInv, TillInv, TillTypes
<1>5. Board!TypeOK
  BY DEF SalesInv, BoardInv, BoardTypes
<1>6. Prices!TypeOK
  BY DEF SalesInv, PriceInv
<1>7. Gate!TypeOK
  BY DEF SalesInv, GateInv
<1> QED
  BY <1>1, <1>2, <1>3, <1>4, <1>5, <1>6, <1>7 DEF SalesInv, TypeOK

(* Every row of every desk keeps its type (the models of app/sales, app/ar and *)
(* app/pos), however many rows there are.                                      *)
THEOREM SalesAreTyped ==
  ASSUME Serial = TRUE
  PROVE  Spec => []TypeOK
<1>1. Spec => []SalesInv
  BY SalesInvariant
<1> QED
  BY <1>1, SalesInvIsTyped, PTL

(* While the operations on orders are made one at a time: what left or was    *)
(* invoiced without an order, less what was paid, is in the exposure; and     *)
(* where nothing is billed beyond its order, a company that blocks is owed    *)
(* beyond the limit only tax, invoices without an order, and what callers     *)
(* left out of the exposures they stated (app/ar/exposure.py,                 *)
(* app/sales/orders.py). What is confirmed is open, settled or not billed     *)
(* yet, and a confirmation is judged with what it adds while no other one is. *)
THEOREM CreditStaysWhole ==
  ASSUME Serial = TRUE
  PROVE  Spec => []CreditIsWhole
<1>1. Spec => []SalesInv
  BY SalesInvariant
<1>2. SalesInv => CreditIsWhole
  BY OrderInvCoversGoods, OrderInvBlocks DEF SalesInv, CreditIsWhole
<1> QED
  BY <1>1, <1>2, PTL

(* Orders, quotations, shipments, invoices and receipts together implement the *)
(* promise of fulfilment: each promised unit leaves once, out of the bin       *)
(* (app/sales/orders.py, app/sales/fulfilment.py).                             *)
THEOREM OrdersKeepPromise ==
  ASSUME Serial = TRUE
  PROVE  Spec => KeepsPromise
<1>1. Init => Orders!Promise!Init
  BY SalesStart
<1>2. SalesInv /\ [Next]_vars => [Orders!Promise!Next]_(Orders!Promise!vars)
  BY SalesStep
<1>3. Spec => []SalesInv
  BY SalesInvariant
<1> QED
  BY <1>1, <1>2, <1>3, PTL DEF Spec, KeepsPromise, Orders!KeepsPromise, Orders!Promise!Spec

(* Runs of the nightly jobs, however many start, die or meet, bill a period    *)
(* once and report what they leave out (app/ar/recurring.py), and write one    *)
(* reminder of an invoice a day, of the level its days have reached, to        *)
(* everybody who is due (app/ar/dunning.py).                                   *)
THEOREM JobsNeverRepeat == Spec => []JobsRepeatNothing
<1>1. Init => JobsInv
  BY BillStart, RemindStart DEF Init, JobsInv
<1>2. JobsInv /\ [Next]_vars => JobsInv'
  BY JobsStep
<1>3. JobsInv => JobsRepeatNothing
  BY BillInvSkipsNothing, RemindInvRemindsOnce, RemindInvForgetsNobody
     DEF JobsInv, BillInv, JobsRepeatNothing
<1> QED
  BY <1>1, <1>2, <1>3, PTL DEF Spec

(* However the gateway repeats its reports, however the requests meet or die,  *)
(* and however many people match payments: no invoice is over-settled, no      *)
(* payment settles twice, the state of a payment says what became of its money *)
(* (save one that was first told as failed and that two people match at once), *)
(* and what was answered is on the books (app/ar/gateway.py).                  *)
THEOREM MoneyStaysTold == Spec => []MoneyIsTold
<1>1. Init => GateInv
  BY GateStart DEF Init
<1>2. GateInv /\ [Next]_vars => GateInv'
  BY DesksAreApart, GateStep
<1>3. GateInv => MoneyIsTold
  BY GateInvTellsTheMoney DEF MoneyIsTold
<1> QED
  BY <1>1, <1>2, <1>3, PTL DEF Spec

(* While one request at a time is at a sale and no shift closes around one    *)
(* that is being completed: a till has one shift open, a sale moves its goods *)
(* and its money once, and what the terminal forgot is on the books, whatever *)
(* queue is sent how often (app/pos/shifts.py, sales.py, offline.py).         *)
THEOREM TillsAddUp ==
  ASSUME Serial = TRUE
  PROVE  Spec => []TillAddsUp
<1>1. Spec => []SalesInv
  BY SalesInvariant
<1>2. SalesInv => TillAddsUp
  BY TillInvOneShift DEF SalesInv, TillInv, TillAddsUp
<1> QED
  BY <1>1, <1>2, PTL

(* No step changes what a closed shift sold and took (app/pos/shifts.py).      *)
THEOREM ClosedReportsStand ==
  ASSUME Serial = TRUE
  PROVE  Spec => ClosedReportStands
<1>1. Spec => []SalesInv
  BY SalesInvariant
<1>2. SalesInv /\ [Next]_vars => [ReportsStand]_(Till!vars)
  BY SalesStep
<1>3. ReportsStand <=>
        \A k \in Till!Shifts : tillShifts[k].status = "closed" => Till!Takings(k)' = Till!Takings(k)
  BY DEF ReportsStand
<1> QED
  BY <1>1, <1>2, <1>3, PTL DEF Spec, ClosedReportStands, Till!ClosedReportStands

(* The trail of a card tells where it stands, a win makes one quotation, whom  *)
(* a card names is not retired (app/sales/pipeline.py, quotations.py,          *)
(* customers.py), the rule a line names wins (pricing.py), and coupons stay    *)
(* within their limit and the strictest allowance (campaigns.py).              *)
THEOREM DealsStand ==
  ASSUME Serial = TRUE
  PROVE  Spec => []DealsHold
<1>1. Spec => []SalesInv
  BY SalesInvariant
<1>2. SalesInv => DealsHold
  BY BoardInvTellsTheCard, PriceInvStaysWithin DEF SalesInv, BoardInv, PriceInv, DealsHold
<1> QED
  BY <1>1, <1>2, PTL

==============================================================================
