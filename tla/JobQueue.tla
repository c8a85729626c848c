------------------------------- MODULE JobQueue -------------------------------
(* Background work (app/queue.py, app/schedule.py, app/worker.py): the clock  *)
(* enqueues one job under a key, pgqueuer hands it to a worker, and run_job   *)
(* records every attempt as a row, commits the effect of the job, and then    *)
(* writes the outcome on the row.  Each of those is a commit of its own, and  *)
(* the worker may die between any two of them.                                *)
(*                                                                            *)
(* One job is modelled: jobs share nothing but the table.  pgqueuer is not    *)
(* part of the repository: Fire's dedupe, Deliver, Lapse and Acknowledge are  *)
(* what app/queue.py and app/worker.py rely on it for.                        *)
EXTENDS Integers, Sequences, FiniteSets

CONSTANTS
  Keys,         \* the instants the job is due at
  Workers,      \* worker processes (compose --scale worker=N)
  MaxAttempts,  \* max_attempts of the registered job
  Lapses,       \* whether a worker that is alive may be taken for dead
  WritesFail,   \* whether the write of a success may fail for other reasons
  MaxFires,     \* firings per key (a bound, not code)
  MaxCrashes    \* workers that die (a bound, not code)

ASSUME AttemptsAssumption == MaxAttempts \in Nat \ {0}
ASSUME SwitchAssumption == Lapses \in BOOLEAN /\ WritesFail \in BOOLEAN
ASSUME BoundsAssumption == MaxFires \in Nat /\ MaxCrashes \in Nat

VARIABLES
  queue,    \* queue[k]: the message under key k, as pgqueuer has it
  fired,    \* fired[k]: how often k was enqueued, the id of its message
  rows,     \* rows[k]: the JobRun rows of k, oldest first
  effects,  \* effects[k]: how often the work of the job was committed for k
  hand,     \* hand[w]: what worker w is doing
  crashes   \* how many workers have died so far

vars == <<queue, fired, rows, effects, hand, crashes>>

None == "none"
Idle == [at |-> "idle", key |-> None, msg |-> 0, run |-> 0, attempt |-> 0]

Init ==
  /\ queue = [k \in Keys |-> "gone"]
  /\ fired = [k \in Keys |-> 0]
  /\ rows = [k \in Keys |-> <<>>]
  /\ effects = [k \in Keys |-> 0]
  /\ hand = [w \in Workers |-> Idle]
  /\ crashes = 0

Succeeded(k) == \E n \in DOMAIN rows[k] : rows[k][n].status = "succeeded"

(* The worker moves on in run_job, at the same message.                       *)
Goes(w, at, run, attempt) ==
  hand' = [hand EXCEPT ![w] = [@ EXCEPT !.at = at, !.run = run, !.attempt = attempt]]

(* _record: a new row and a commit.                                           *)
Records(k, status, attempt) ==
  rows' = [rows EXCEPT ![k] = Append(@, [status |-> status, attempt |-> attempt])]

(* The clock fires: the queue refuses a copy of a message it still has.       *)
Fire(k) ==
  /\ queue[k] = "gone"
  /\ fired[k] < MaxFires
  /\ queue' = [queue EXCEPT ![k] = "queued"]
  /\ fired' = [fired EXCEPT ![k] = @ + 1]
  /\ UNCHANGED <<rows, effects, hand, crashes>>

(* A waiting or a lapsed message goes to an idle worker, one of the job at a  *)
(* time (concurrency_limit=1).                                                *)
Deliver(w, k) ==
  /\ hand[w] = Idle
  /\ queue[k] \in {"queued", "lapsed"}
  /\ \A other \in Keys : queue[other] # "picked"
  /\ queue' = [queue EXCEPT ![k] = "picked"]
  /\ hand' = [hand EXCEPT ![w] = [Idle EXCEPT !.at = "look", !.key = k, !.msg = fired[k]]]
  /\ UNCHANGED <<fired, rows, effects, crashes>>

(* The heartbeat of a message stops: its worker died, or, with Lapses, sleeps *)
(* through the pause between two attempts.                                    *)
Lapse(k) ==
  /\ queue[k] = "picked"
  /\ Lapses \/ \A w \in Workers : hand[w].key # k \/ hand[w].msg # fired[k]
  /\ queue' = [queue EXCEPT ![k] = "lapsed"]
  /\ UNCHANGED <<fired, rows, effects, hand, crashes>>

(* _succeeded_run: a key that has succeeded is recorded as skipped, at once.  *)
LookUp(w) ==
  LET k == hand[w].key IN
  /\ hand[w].at = "look"
  /\ IF Succeeded(k)
     THEN Records(k, "skipped", 0) /\ Goes(w, "done", 0, 0)
     ELSE Goes(w, "record", 0, 1) /\ UNCHANGED rows
  /\ UNCHANGED <<queue, fired, effects, crashes>>

(* The running row, committed before the work.                                *)
RecordRunning(w) ==
  LET k == hand[w].key IN
  /\ hand[w].at = "record"
  /\ Records(k, "running", hand[w].attempt)
  /\ Goes(w, "work", Len(rows[k]) + 1, hand[w].attempt)
  /\ UNCHANGED <<queue, fired, effects, crashes>>

(* job.run and its commit: from here on the effect stays.                     *)
Work(w) ==
  /\ hand[w].at = "work"
  /\ effects' = [effects EXCEPT ![hand[w].key] = @ + 1]
  /\ Goes(w, "finish", hand[w].run, hand[w].attempt)
  /\ UNCHANGED <<queue, fired, rows, crashes>>

(* job.run raises: its writes are rolled back.                                *)
WorkFails(w) ==
  /\ hand[w].at = "work"
  /\ Goes(w, "failed", hand[w].run, hand[w].attempt)
  /\ UNCHANGED <<queue, fired, rows, effects, crashes>>

Outcome(w, status) ==
  rows' = [rows EXCEPT ![hand[w].key][hand[w].run] =
             [status |-> status, attempt |-> hand[w].attempt]]

(* Mutants of FinishFailed: one attempt too many; no attempt after the first. *)
MutOneMore(w) ==
  /\ hand[w].at = "failed"
  /\ Outcome(w, "failed")
  /\ IF hand[w].attempt <= MaxAttempts
     THEN Goes(w, "record", 0, hand[w].attempt + 1)
     ELSE Goes(w, "done", 0, 0)
  /\ UNCHANGED <<queue, fired, effects, crashes>>
MutNoRetry(w) ==
  /\ hand[w].at = "failed"
  /\ Outcome(w, "failed")
  /\ Goes(w, "done", 0, 0)
  /\ UNCHANGED <<queue, fired, effects, crashes>>

(* The failure on its row, and another attempt if the job has one left.       *)
FinishFailed(w) ==
  /\ hand[w].at = "failed"
  /\ Outcome(w, "failed")
  /\ IF hand[w].attempt < MaxAttempts
     THEN Goes(w, "record", 0, hand[w].attempt + 1)
     ELSE Goes(w, "done", 0, 0)
  /\ UNCHANGED <<queue, fired, effects, crashes>>

(* Mutant of Finish: there is no index.                                       *)
MutNoIndex(w) ==
  /\ hand[w].at = "finish"
  /\ Outcome(w, "succeeded")
  /\ Goes(w, "done", 0, 0)
  /\ UNCHANGED <<queue, fired, effects, crashes>>

(* The success on its row: the partial unique index lets one claim the key.   *)
Finish(w) ==
  /\ hand[w].at = "finish"
  /\ ~Succeeded(hand[w].key)
  /\ Outcome(w, "succeeded")
  /\ Goes(w, "done", 0, 0)
  /\ UNCHANGED <<queue, fired, effects, crashes>>

(* Mutant of FinishRefused: the row of the effect is closed as skipped.       *)
MutSkipInPlace(w) ==
  /\ hand[w].at = "finish"
  /\ Succeeded(hand[w].key) \/ WritesFail
  /\ Outcome(w, "skipped")
  /\ Goes(w, "done", 0, 0)
  /\ UNCHANGED <<queue, fired, effects, crashes>>

(* "except Exception": the write of the success was refused, by the index or  *)
(* for any other reason.  The row stays running.                              *)
FinishRefused(w) ==
  /\ hand[w].at = "finish"
  /\ Succeeded(hand[w].key) \/ WritesFail
  /\ Goes(w, "skip", 0, hand[w].attempt)
  /\ UNCHANGED <<queue, fired, rows, effects, crashes>>

(* ... and a second row says skipped.                                         *)
RecordSkip(w) ==
  /\ hand[w].at = "skip"
  /\ Records(hand[w].key, "skipped", hand[w].attempt)
  /\ Goes(w, "done", 0, 0)
  /\ UNCHANGED <<queue, fired, effects, crashes>>

(* The handler returns and the queue drops the message, by its id.            *)
Acknowledge(w) ==
  LET k == hand[w].key IN
  /\ hand[w].at = "done"
  /\ queue' = IF hand[w].msg = fired[k] THEN [queue EXCEPT ![k] = "gone"] ELSE queue
  /\ hand' = [hand EXCEPT ![w] = Idle]
  /\ UNCHANGED <<fired, rows, effects, crashes>>

(* The process dies; another takes its place.                                 *)
Crash(w) ==
  /\ hand[w] # Idle
  /\ crashes < MaxCrashes
  /\ hand' = [hand EXCEPT ![w] = Idle]
  /\ crashes' = crashes + 1
  /\ UNCHANGED <<queue, fired, rows, effects>>

Step(w) ==
  \/ LookUp(w)
  \/ RecordRunning(w)
  \/ Work(w)
  \/ WorkFails(w)
  \/ FinishFailed(w)
  \/ Finish(w)
  \/ FinishRefused(w)
  \/ RecordSkip(w)
  \/ Acknowledge(w)

Next ==
  \/ \E k \in Keys : Fire(k) \/ Lapse(k) \/ \E w \in Workers : Deliver(w, k)
  \/ \E w \in Workers : Step(w) \/ Crash(w)

Spec == Init /\ [][Next]_vars

(* A running worker goes on, and the queue hands out what waits or lapsed and *)
(* notices a dead worker.  The clock, failures and crashes owe nothing.       *)
FairSpec ==
  /\ Spec
  /\ \A w \in Workers : WF_vars(Step(w))
  /\ \A k \in Keys : WF_vars(Lapse(k)) /\ WF_vars(\E w \in Workers : Deliver(w, k))

(* -------------------------------- properties ------------------------------ *)

Row == [status : {"running", "succeeded", "failed", "skipped"}, attempt : 0..MaxAttempts]

Hand == [at : {"idle", "look", "record", "work", "failed", "finish", "skip", "done"},
         key : Keys \cup {None}, msg : 0..MaxFires, run : Nat, attempt : 0..MaxAttempts]

TypeOK ==
  /\ queue \in [Keys -> {"gone", "queued", "picked", "lapsed"}]
  /\ fired \in [Keys -> 0..MaxFires]
  /\ rows \in [Keys -> Seq(Row)]
  /\ effects \in [Keys -> Nat]
  /\ hand \in [Workers -> Hand]
  /\ crashes \in 0..MaxCrashes

WithStatus(k, S) == {n \in DOMAIN rows[k] : rows[k][n].status \in S}

(* "Two workers racing cannot both win": a key succeeds at most once.         *)
OneSuccess == \A k \in Keys : Cardinality(WithStatus(k, {"succeeded"})) <= 1

(* "A job which ran twice is safe and visible as such": every effect has a    *)
(* row of its own that says succeeded or that never said how it ended; no     *)
(* effect hides behind a row that says failed or skipped.                     *)
RepeatsAreVisible ==
  \A k \in Keys : effects[k] <= Cardinality(WithStatus(k, {"running", "succeeded"}))

(* The rows tell what took effect: nothing succeeds twice, and nothing took   *)
(* effect without a row that does not deny it.                                *)
RunsTellTheEffects == TypeOK /\ OneSuccess /\ RepeatsAreVisible

(* A firing is answered, through crashes and redeliveries: its message leaves *)
(* the queue with a success, or with the failure of the last attempt.         *)
EveryFiringAnswered ==
  \A k \in Keys : queue[k] = "queued" ~>
    /\ queue[k] = "gone"
    /\ \/ Succeeded(k)
       \/ \E n \in DOMAIN rows[k] :
            rows[k][n] = [status |-> "failed", attempt |-> MaxAttempts]
=============================================================================
