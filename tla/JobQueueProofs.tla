---------------------------- MODULE JobQueueProofs ----------------------------
(* Whatever workers crash, race and are handed again, a key succeeds at most  *)
(* once and no effect is without a row that shows it, for any number of keys, *)
(* workers, attempts, firings and crashes.                                    *)
EXTENDS JobQueue, TLAPS, FiniteSetTheorems

(* A worker that has written the running row of its attempt.                  *)
Attempting == {"work", "finish", "failed"}
OnRow(w) == hand[w].at \in Attempting

(* The row is there, it still says running, and no other worker is on it.     *)
RowsAreOwned ==
  /\ \A w \in Workers : hand[w].at # "idle" => hand[w].key \in Keys
  /\ \A w \in Workers : OnRow(w) =>
       /\ hand[w].run \in DOMAIN rows[hand[w].key]
       /\ rows[hand[w].key][hand[w].run].status = "running"
  /\ \A v, w \in Workers :
       OnRow(v) /\ OnRow(w) /\ hand[v].key = hand[w].key /\ hand[v].run = hand[w].run => v = w

(* The rows of attempts whose work is not committed, or was rolled back.      *)
Without(k) == {hand[w].run : w \in {v \in Workers :
                 hand[v].at \in {"work", "failed"} /\ hand[v].key = k}}

Shown(k) == WithStatus(k, {"running", "succeeded"})

(* Each effect has a row of its own among those that show one.                *)
EffectsHaveRows == \A k \in Keys : effects[k] <= Cardinality(Shown(k) \ Without(k))

OneRowSucceeded ==
  \A k \in Keys : \A m, n \in DOMAIN rows[k] :
    rows[k][m].status = "succeeded" /\ rows[k][n].status = "succeeded" => m = n

QueueInv == TypeOK /\ RowsAreOwned /\ EffectsHaveRows /\ OneRowSucceeded

(* The rows that show an effect are finite in number.                         *)
LEMMA FewRows ==
  ASSUME TypeOK, NEW k \in Keys, NEW S
  PROVE  /\ DOMAIN rows[k] = 1..Len(rows[k]) /\ Len(rows[k]) \in Nat
         /\ IsFiniteSet(WithStatus(k, S)) /\ Cardinality(WithStatus(k, S)) \in Nat
         /\ IsFiniteSet(WithStatus(k, S) \ Without(k))
         /\ Cardinality(WithStatus(k, S) \ Without(k)) \in Nat
<1>1. DOMAIN rows[k] = 1..Len(rows[k]) /\ Len(rows[k]) \in Nat
  BY DEF TypeOK
<1>2. IsFiniteSet(DOMAIN rows[k])
  BY <1>1, FS_Interval
<1>3. /\ IsFiniteSet(WithStatus(k, S))
      /\ IsFiniteSet(WithStatus(k, S) \ Without(k))
  BY <1>2, FS_Subset DEF WithStatus
<1> QED
  BY <1>1, <1>3, FS_CardinalityType

(* What the invariant says of the rows themselves.                            *)
LEMMA InvariantSuffices == QueueInv => RunsTellTheEffects
<1> SUFFICES ASSUME QueueInv PROVE RunsTellTheEffects
  OBVIOUS
<1> USE DEF QueueInv
<1>1. OneSuccess
  <2> SUFFICES ASSUME NEW k \in Keys
               PROVE  Cardinality(WithStatus(k, {"succeeded"})) <= 1
    BY DEF OneSuccess
  <2> DEFINE W == WithStatus(k, {"succeeded"})
  <2>1. \A m, n \in W : m = n
    BY DEF OneRowSucceeded, WithStatus
  <2>2. CASE W = {}
    BY <2>2, FS_EmptySet
  <2>3. CASE W # {}
    <3>1. PICK m \in W : W = {m}
      BY <2>1, <2>3
    <3> HIDE DEF W
    <3>2. Cardinality({m}) = 1
      BY FS_Singleton
    <3> QED
      BY <3>1, <3>2 DEF W
  <2> QED
    BY <2>2, <2>3
<1>2. RepeatsAreVisible
  <2> SUFFICES ASSUME NEW k \in Keys
               PROVE  effects[k] <= Cardinality(Shown(k))
    BY DEF RepeatsAreVisible, Shown
  <2>1. /\ IsFiniteSet(Shown(k)) /\ Cardinality(Shown(k)) \in Nat
        /\ Cardinality(Shown(k) \ Without(k)) \in Nat
    BY FewRows DEF Shown
  <2>2. Cardinality(Shown(k) \ Without(k)) <= Cardinality(Shown(k))
    <3> DEFINE S == Shown(k)  T == S \ Without(k)
    <3>1. T \in SUBSET S /\ IsFiniteSet(S)
      BY <2>1
    <3> HIDE DEF S, T
    <3>2. Cardinality(T) <= Cardinality(S)
      BY <3>1, FS_Subset
    <3> QED
      BY <3>2 DEF S, T
  <2> QED
    BY <2>1, <2>2 DEF EffectsHaveRows, TypeOK
<1> QED
  BY <1>1, <1>2 DEF RunsTellTheEffects

LEMMA InitInv == Init => QueueInv
<1> SUFFICES ASSUME Init PROVE QueueInv
  OBVIOUS
<1>1. TypeOK
  BY AttemptsAssumption, BoundsAssumption DEF Init, TypeOK, Idle, Hand
<1>2. RowsAreOwned
  BY DEF Init, RowsAreOwned, Idle, OnRow, Attempting
<1>3. OneRowSucceeded
  BY DEF Init, OneRowSucceeded
<1>4. EffectsHaveRows
  <2> SUFFICES ASSUME NEW k \in Keys
               PROVE  effects[k] <= Cardinality(Shown(k) \ Without(k))
    BY DEF EffectsHaveRows
  <2>1. effects[k] = 0
    BY DEF Init
  <2>2. Cardinality(Shown(k) \ Without(k)) \in Nat
    BY <1>1, FewRows DEF Shown
  <2> QED
    BY <2>1, <2>2
<1> QED
  BY <1>1, <1>2, <1>3, <1>4 DEF QueueInv

(* Effects keep a row each when no row that shows one is lost.                *)
LEMMA MoreShown ==
  ASSUME TypeOK, EffectsHaveRows, TypeOK', effects' = effects,
         \A k \in Keys : Shown(k) \ Without(k) \subseteq Shown(k)' \ Without(k)'
  PROVE  EffectsHaveRows'
<1> SUFFICES ASSUME NEW k \in Keys
             PROVE  effects[k] <= Cardinality(Shown(k)' \ Without(k)')
  BY DEF EffectsHaveRows
<1> DEFINE S == Shown(k) \ Without(k)  U == Shown(k)' \ Without(k)'
<1>1. Cardinality(S) \in Nat
  BY FewRows DEF Shown
<1>2. IsFiniteSet(U)
  <2>1. DOMAIN rows'[k] = 1..Len(rows'[k]) /\ Len(rows'[k]) \in Nat
    BY DEF TypeOK
  <2>2. U \in SUBSET (1..Len(rows'[k]))
    BY <2>1 DEF Shown, WithStatus
  <2>3. IsFiniteSet(1..Len(rows'[k]))
    BY <2>1, FS_Interval
  <2> HIDE DEF U
  <2> QED
    BY <2>2, <2>3, FS_Subset
<1>3. S \in SUBSET U
  OBVIOUS
<1> HIDE DEF S, U
<1>4. Cardinality(S) <= Cardinality(U) /\ Cardinality(U) \in Nat
  BY <1>2, <1>3, FS_Subset, FS_CardinalityType
<1>5. effects[k] <= Cardinality(S) /\ effects[k] \in Nat
  BY DEF EffectsHaveRows, TypeOK, S
<1>6. effects[k] <= Cardinality(U)
  BY <1>1, <1>4, <1>5
<1> QED
  BY <1>6 DEF U

(* A step that leaves the rows alone and takes nobody onto one.               *)
LEMMA SameRows ==
  ASSUME QueueInv, TypeOK', rows' = rows, effects' = effects,
         \A w \in Workers :
           \/ /\ hand'[w].at = "idle" \/ hand'[w].key \in Keys
              /\ hand'[w].at \notin Attempting
           \/ hand'[w] = hand[w]
           \/ hand[w].at = "work" /\ hand'[w] = [hand[w] EXCEPT !.at = "failed"]
  PROVE  QueueInv'
<1> USE DEF QueueInv
<1>1. ASSUME NEW w \in Workers, hand'[w].at \in Attempting
      PROVE  /\ hand[w].at \in Attempting
             /\ hand'[w].key = hand[w].key /\ hand'[w].run = hand[w].run
             /\ hand'[w].at \in {"work", "failed"} => hand[w].at \in {"work", "failed"}
  <2>1. hand[w] \in Hand
    BY DEF TypeOK
  <2>2. CASE hand'[w] = hand[w]
    BY <1>1, <2>2
  <2>3. CASE hand[w].at = "work" /\ hand'[w] = [hand[w] EXCEPT !.at = "failed"]
    BY <2>1, <2>3 DEF Hand, Attempting
  <2> QED
    BY <1>1, <2>2, <2>3
<1>2. RowsAreOwned'
  <2>1. ASSUME NEW w \in Workers, hand'[w].at # "idle" PROVE hand'[w].key \in Keys
    <3>1. hand[w] \in Hand
      BY DEF TypeOK
    <3>2. CASE hand'[w] = hand[w]
      BY <2>1, <3>2 DEF RowsAreOwned
    <3>3. CASE hand[w].at = "work" /\ hand'[w] = [hand[w] EXCEPT !.at = "failed"]
      BY <3>1, <3>3 DEF RowsAreOwned, Hand
    <3> QED
      BY <2>1, <3>2, <3>3
  <2>2. \A w \in Workers : hand'[w].at \in Attempting =>
          /\ hand'[w].run \in DOMAIN rows'[hand'[w].key]
          /\ rows'[hand'[w].key][hand'[w].run].status = "running"
    BY <1>1 DEF RowsAreOwned, OnRow
  <2>3. ASSUME NEW v \in Workers, NEW w \in Workers,
               hand'[v].at \in Attempting, hand'[w].at \in Attempting,
               hand'[v].key = hand'[w].key, hand'[v].run = hand'[w].run
        PROVE  v = w
    <3>1. OnRow(v) /\ OnRow(w) /\ hand[v].key = hand[w].key /\ hand[v].run = hand[w].run
      BY <1>1, <2>3 DEF OnRow
    <3> QED
      BY <3>1 DEF RowsAreOwned
  <2> QED
    BY <2>1, <2>2, <2>3 DEF RowsAreOwned, OnRow
<1>3. EffectsHaveRows'
  <2>1. \A k \in Keys : Shown(k)' = Shown(k)
    BY DEF Shown, WithStatus
  <2>2. \A k \in Keys : Without(k)' \subseteq Without(k)
    BY <1>1 DEF Without, Attempting
  <2> QED
    BY <2>1, <2>2, MoreShown
<1>4. OneRowSucceeded'
  BY DEF OneRowSucceeded
<1> QED
  BY <1>2, <1>3, <1>4

LEMMA IdleHand == Idle \in Hand
BY AttemptsAssumption, BoundsAssumption DEF Idle, Hand

LEMMA FireInv == ASSUME QueueInv, NEW k \in Keys, Fire(k) PROVE QueueInv'
<1>1. TypeOK'
  BY BoundsAssumption DEF QueueInv, TypeOK, Fire
<1> QED
  BY <1>1, SameRows DEF Fire

LEMMA LapseInv == ASSUME QueueInv, NEW k \in Keys, Lapse(k) PROVE QueueInv'
<1>1. TypeOK'
  BY DEF QueueInv, TypeOK, Lapse
<1> QED
  BY <1>1, SameRows DEF Lapse

LEMMA DeliverInv ==
  ASSUME QueueInv, NEW w \in Workers, NEW k \in Keys, Deliver(w, k) PROVE QueueInv'
<1>1. TypeOK'
  BY DEF QueueInv, TypeOK, Deliver, Idle, Hand
<1>2. \A v \in Workers : \/ hand'[v].at = "look" /\ hand'[v].key = k
                         \/ hand'[v] = hand[v]
  BY DEF QueueInv, TypeOK, Deliver, Idle
<1>3. rows' = rows /\ effects' = effects
  BY DEF Deliver
<1> QED
  BY <1>1, <1>2, <1>3, SameRows DEF Attempting

LEMMA WorkFailsInv == ASSUME QueueInv, NEW w \in Workers, WorkFails(w) PROVE QueueInv'
<1>1. hand[w].key \in Keys
  BY DEF QueueInv, RowsAreOwned, WorkFails
<1>2. hand' = [hand EXCEPT ![w] = [hand[w] EXCEPT !.at = "failed"]]
  BY DEF QueueInv, TypeOK, Hand, WorkFails, Goes
<1>3. TypeOK'
  <2>1. [hand[w] EXCEPT !.at = "failed"] \in Hand
    BY DEF QueueInv, TypeOK, Hand
  <2> QED
    BY <1>2, <2>1 DEF QueueInv, TypeOK, WorkFails
<1>4. \A v \in Workers :
        \/ hand'[v] = hand[v]
        \/ hand[v].at = "work" /\ hand'[v] = [hand[v] EXCEPT !.at = "failed"]
  BY <1>2 DEF QueueInv, TypeOK, WorkFails
<1>5. rows' = rows /\ effects' = effects
  BY DEF WorkFails
<1> QED
  BY <1>3, <1>4, <1>5, SameRows

LEMMA FinishRefusedInv ==
  ASSUME QueueInv, NEW w \in Workers, FinishRefused(w) PROVE QueueInv'
<1>1. hand[w].key \in Keys
  BY DEF QueueInv, RowsAreOwned, FinishRefused
<1>2. TypeOK'
  BY DEF QueueInv, TypeOK, Hand, FinishRefused, Goes
<1>3. \A v \in Workers : \/ hand'[v] = hand[v]
                         \/ hand'[v].at = "skip" /\ hand'[v].key \in Keys
  BY <1>1 DEF QueueInv, TypeOK, Hand, FinishRefused, Goes
<1>4. rows' = rows /\ effects' = effects
  BY DEF FinishRefused
<1> QED
  BY <1>2, <1>3, <1>4, SameRows DEF Attempting

LEMMA AcknowledgeInv ==
  ASSUME QueueInv, NEW w \in Workers, Acknowledge(w) PROVE QueueInv'
<1>1. TypeOK'
  <2>1. queue' \in [Keys -> {"gone", "queued", "picked", "lapsed"}]
    BY DEF QueueInv, TypeOK, Acknowledge
  <2>2. hand' \in [Workers -> Hand]
    BY IdleHand DEF QueueInv, TypeOK, Acknowledge
  <2> QED
    BY <2>1, <2>2 DEF QueueInv, TypeOK, Acknowledge
<1>2. \A v \in Workers : hand'[v] = hand[v] \/ hand'[v].at = "idle"
  BY DEF QueueInv, TypeOK, Idle, Acknowledge
<1>3. rows' = rows /\ effects' = effects
  BY DEF Acknowledge
<1> QED
  BY <1>1, <1>2, <1>3, SameRows DEF Attempting

LEMMA CrashInv == ASSUME QueueInv, NEW w \in Workers, Crash(w) PROVE QueueInv'
<1>1. TypeOK'
  BY IdleHand, BoundsAssumption DEF QueueInv, TypeOK, Crash
<1>2. \A v \in Workers : hand'[v] = hand[v] \/ hand'[v].at = "idle"
  BY DEF QueueInv, TypeOK, Idle, Crash
<1>3. rows' = rows /\ effects' = effects
  BY DEF Crash
<1> QED
  BY <1>1, <1>2, <1>3, SameRows DEF Attempting

(* What _record does to the rows: one more at the end, the others as before.  *)
LEMMA RecordsAppends ==
  ASSUME TypeOK, NEW k \in Keys, NEW status, NEW attempt, Records(k, status, attempt)
  PROVE  /\ \A j \in Keys : j # k => rows'[j] = rows[j]
         /\ Len(rows[k]) \in Nat /\ DOMAIN rows[k] = 1..Len(rows[k])
         /\ DOMAIN rows'[k] = 1..(Len(rows[k]) + 1)
         /\ \A n \in DOMAIN rows[k] : rows'[k][n] = rows[k][n]
         /\ rows'[k][Len(rows[k]) + 1] = [status |-> status, attempt |-> attempt]
<1> DEFINE r == [status |-> status, attempt |-> attempt]
<1>1. rows[k] \in Seq(Row) /\ rows' = [rows EXCEPT ![k] = Append(rows[k], r)]
  BY DEF TypeOK, Records
<1>2. rows'[k] = Append(rows[k], r) /\ \A j \in Keys : j # k => rows'[j] = rows[j]
  BY <1>1 DEF TypeOK
<1> HIDE DEF r
<1>3. /\ Len(rows[k]) \in Nat /\ DOMAIN rows[k] = 1..Len(rows[k])
      /\ DOMAIN rows'[k] = 1..(Len(rows[k]) + 1)
      /\ \A n \in DOMAIN rows[k] : rows'[k][n] = rows[k][n]
      /\ rows'[k][Len(rows[k]) + 1] = r
  BY <1>1, <1>2
<1> QED
  BY <1>2, <1>3 DEF r

LEMMA RecordsTyped ==
  ASSUME TypeOK, NEW k \in Keys, NEW status \in {"running", "succeeded", "failed", "skipped"},
         NEW attempt \in 0..MaxAttempts, Records(k, status, attempt)
  PROVE  rows' \in [Keys -> Seq(Row)]
<1>1. [status |-> status, attempt |-> attempt] \in Row
  BY DEF Row
<1> QED
  BY <1>1 DEF TypeOK, Records

(* A skipped row is written and the worker leaves its row, if it was on one.  *)
LEMMA SkippedInv ==
  ASSUME QueueInv, TypeOK', NEW w \in Workers, NEW attempt,
         ~OnRow(w), Records(hand[w].key, "skipped", attempt), hand[w].key \in Keys,
         hand'[w].key = hand[w].key, hand'[w].at = "done",
         \A v \in Workers : v # w => hand'[v] = hand[v],
         effects' = effects
  PROVE  QueueInv'
<1> USE DEF QueueInv
<1> DEFINE k == hand[w].key
<1>1. /\ \A j \in Keys : j # k => rows'[j] = rows[j]
      /\ Len(rows[k]) \in Nat /\ DOMAIN rows[k] = 1..Len(rows[k])
      /\ DOMAIN rows'[k] = 1..(Len(rows[k]) + 1)
      /\ \A n \in DOMAIN rows[k] : rows'[k][n] = rows[k][n]
      /\ rows'[k][Len(rows[k]) + 1] = [status |-> "skipped", attempt |-> attempt]
  BY RecordsAppends
<1>2. /\ \A j \in Keys : \A n \in DOMAIN rows[j] : n \in DOMAIN rows'[j] /\ rows'[j][n] = rows[j][n]
      /\ \A j \in Keys : \A n \in DOMAIN rows'[j] :
           rows'[j][n].status # "skipped" => n \in DOMAIN rows[j] /\ rows'[j][n] = rows[j][n]
  BY <1>1
<1>3. \A v \in Workers : hand'[v].at \in Attempting => v # w /\ hand'[v] = hand[v] /\ OnRow(v)
  BY DEF Attempting, OnRow
<1> HIDE DEF k
<1>4. RowsAreOwned'
  <2>1. \A v \in Workers : hand'[v].at # "idle" => hand'[v].key \in Keys
    BY DEF RowsAreOwned
  <2>2. \A v \in Workers : hand'[v].at \in Attempting =>
          /\ hand'[v].run \in DOMAIN rows'[hand'[v].key]
          /\ rows'[hand'[v].key][hand'[v].run].status = "running"
    <3> SUFFICES ASSUME NEW v \in Workers, hand'[v].at \in Attempting
                 PROVE  /\ hand'[v].run \in DOMAIN rows'[hand'[v].key]
                        /\ rows'[hand'[v].key][hand'[v].run].status = "running"
      OBVIOUS
    <3>1. /\ hand'[v] = hand[v] /\ hand[v].key \in Keys
          /\ hand[v].run \in DOMAIN rows[hand[v].key]
          /\ rows[hand[v].key][hand[v].run].status = "running"
      BY <1>3 DEF RowsAreOwned, OnRow, Attempting
    <3> QED
      BY <1>2, <3>1
  <2>3. \A u, v \in Workers :
          OnRow(u)' /\ OnRow(v)' /\ hand'[u].key = hand'[v].key /\ hand'[u].run = hand'[v].run
            => u = v
    BY <1>3 DEF RowsAreOwned, OnRow
  <2> QED
    BY <2>1, <2>2, <2>3 DEF RowsAreOwned, OnRow
<1>5. EffectsHaveRows'
  <2>1. \A j \in Keys : Shown(j) \subseteq Shown(j)'
    BY <1>2 DEF Shown, WithStatus
  <2>2. \A j \in Keys : Without(j)' \subseteq Without(j)
    BY <1>3 DEF Without, Attempting
  <2> QED
    BY <2>1, <2>2, MoreShown
<1>6. OneRowSucceeded'
  BY <1>2 DEF OneRowSucceeded
<1> QED
  BY <1>4, <1>5, <1>6

(* A worker that moves on keeps its message, and moves alone.                 *)
LEMMA GoesOn ==
  ASSUME TypeOK, NEW w \in Workers, NEW run \in Nat, NEW attempt \in 0..MaxAttempts,
         NEW at \in {"idle", "look", "record", "work", "failed", "finish", "skip", "done"},
         Goes(w, at, run, attempt)
  PROVE  /\ hand' \in [Workers -> Hand]
         /\ hand'[w].at = at /\ hand'[w].run = run /\ hand'[w].key = hand[w].key
         /\ \A v \in Workers : v # w => hand'[v] = hand[v]
<1> DEFINE h == [hand[w] EXCEPT !.at = at, !.run = run, !.attempt = attempt]
<1>1. hand' = [hand EXCEPT ![w] = h]
  BY DEF Goes
<1>2. hand[w] \in Hand
  BY DEF TypeOK
<1>3. h \in Hand /\ h.at = at /\ h.run = run /\ h.key = hand[w].key
  <2> DEFINE h1 == [hand[w] EXCEPT !.at = at]
             h2 == [h1 EXCEPT !.run = run]
             h3 == [h2 EXCEPT !.attempt = attempt]
  <2>1. h1 \in Hand /\ h1.at = at /\ h1.key = hand[w].key
    BY <1>2 DEF Hand
  <2>2. h = h3
    OBVIOUS
  <2> HIDE DEF h1, h
  <2>3. h2 \in Hand /\ h2.at = at /\ h2.key = hand[w].key /\ h2.run = run
    BY <2>1 DEF Hand
  <2> HIDE DEF h2
  <2>4. h3 \in Hand /\ h3.at = at /\ h3.key = hand[w].key /\ h3.run = run
    BY <2>3 DEF Hand
  <2> QED
    BY <2>2, <2>4
<1> HIDE DEF h
<1> QED
  BY <1>1, <1>3 DEF TypeOK

LEMMA LookUpInv == ASSUME QueueInv, NEW w \in Workers, LookUp(w) PROVE QueueInv'
<1>1. hand[w].key \in Keys /\ hand[w] \in Hand
  BY DEF QueueInv, RowsAreOwned, LookUp, TypeOK
<1>2. CASE Records(hand[w].key, "skipped", 0) /\ Goes(w, "done", 0, 0)
  <2>1. rows' \in [Keys -> Seq(Row)]
    <3>1. 0 \in 0..MaxAttempts
      BY AttemptsAssumption
    <3> QED
      BY <1>1, <1>2, <3>1, RecordsTyped DEF QueueInv
  <2>2. /\ hand' \in [Workers -> Hand]
        /\ hand'[w].at = "done" /\ hand'[w].key = hand[w].key
        /\ \A v \in Workers : v # w => hand'[v] = hand[v]
    BY <1>2, GoesOn, AttemptsAssumption DEF QueueInv
  <2>3. TypeOK'
    BY <2>1, <2>2 DEF QueueInv, TypeOK, LookUp
  <2>4. ~OnRow(w) /\ effects' = effects
    BY DEF OnRow, Attempting, LookUp
  <2> QED
    BY <1>1, <1>2, <2>2, <2>3, <2>4, SkippedInv
<1>3. CASE Goes(w, "record", 0, 1) /\ UNCHANGED rows
  <2>1. /\ hand' \in [Workers -> Hand]
        /\ hand'[w].at = "record" /\ hand'[w].key = hand[w].key
        /\ \A v \in Workers : v # w => hand'[v] = hand[v]
    BY <1>3, GoesOn, AttemptsAssumption DEF QueueInv
  <2>2. TypeOK'
    BY <1>3, <2>1 DEF QueueInv, TypeOK, LookUp
  <2>3. rows' = rows /\ effects' = effects
    BY <1>3 DEF LookUp
  <2> QED
    BY <1>1, <2>1, <2>2, <2>3, SameRows DEF Attempting
<1> QED
  BY <1>2, <1>3 DEF LookUp

LEMMA RecordSkipInv == ASSUME QueueInv, NEW w \in Workers, RecordSkip(w) PROVE QueueInv'
<1>1. hand[w].key \in Keys /\ hand[w] \in Hand /\ hand[w].attempt \in 0..MaxAttempts
  BY DEF QueueInv, RowsAreOwned, RecordSkip, TypeOK, Hand
<1>2. Records(hand[w].key, "skipped", hand[w].attempt)
  BY DEF RecordSkip
<1>3. rows' \in [Keys -> Seq(Row)]
  BY <1>1, <1>2, RecordsTyped DEF QueueInv
<1>4. /\ hand' \in [Workers -> Hand]
      /\ hand'[w].at = "done" /\ hand'[w].key = hand[w].key
      /\ \A v \in Workers : v # w => hand'[v] = hand[v]
  BY GoesOn, AttemptsAssumption DEF QueueInv, RecordSkip
<1>5. TypeOK'
  BY <1>3, <1>4 DEF QueueInv, TypeOK, RecordSkip
<1>6. ~OnRow(w) /\ effects' = effects
  BY DEF OnRow, Attempting, RecordSkip
<1> QED
  BY <1>1, <1>2, <1>4, <1>5, <1>6, SkippedInv

(* The new row is its worker's, and does not show an effect yet.              *)
LEMMA RecordRunningInv ==
  ASSUME QueueInv, NEW w \in Workers, RecordRunning(w) PROVE QueueInv'
<1> USE DEF QueueInv
<1> DEFINE k == hand[w].key  new == Len(rows[k]) + 1
<1>1. k \in Keys /\ hand[w] \in Hand /\ hand[w].attempt \in 0..MaxAttempts
  BY DEF RowsAreOwned, RecordRunning, TypeOK, Hand
<1>2. Records(k, "running", hand[w].attempt) /\ effects' = effects
  BY DEF RecordRunning
<1>3. rows' \in [Keys -> Seq(Row)]
  BY <1>1, <1>2, RecordsTyped
<1>4. /\ \A j \in Keys : j # k => rows'[j] = rows[j]
      /\ Len(rows[k]) \in Nat /\ DOMAIN rows[k] = 1..Len(rows[k])
      /\ DOMAIN rows'[k] = 1..new
      /\ \A n \in DOMAIN rows[k] : rows'[k][n] = rows[k][n]
      /\ rows'[k][new] = [status |-> "running", attempt |-> hand[w].attempt]
  BY <1>1, <1>2, RecordsAppends
<1>5. Goes(w, "work", new, hand[w].attempt) /\ new \in Nat
  BY <1>4 DEF RecordRunning
<1>6. /\ hand' \in [Workers -> Hand]
      /\ hand'[w].at = "work" /\ hand'[w].key = k /\ hand'[w].run = new
      /\ \A v \in Workers : v # w => hand'[v] = hand[v]
  BY <1>1, <1>5, GoesOn
<1>7. TypeOK'
  BY <1>3, <1>6 DEF TypeOK, RecordRunning
<1>8. /\ new \in DOMAIN rows'[k] /\ new \notin DOMAIN rows[k]
      /\ rows'[k][new].status = "running"
      /\ \A j \in Keys : \A n \in DOMAIN rows[j] : n \in DOMAIN rows'[j] /\ rows'[j][n] = rows[j][n]
      /\ \A j \in Keys : \A n \in DOMAIN rows'[j] : n \in DOMAIN rows[j] \/ (j = k /\ n = new)
  <2>1. /\ new \in 1..new /\ new \notin 1..Len(rows[k])
        /\ \A n \in 1..new : n \in 1..Len(rows[k]) \/ n = new
    BY <1>4
  <2>2. rows'[k][new].status = "running" /\ new \in DOMAIN rows'[k] /\ new \notin DOMAIN rows[k]
    BY <1>4, <2>1
  <2>3. \A n \in DOMAIN rows[k] : n \in DOMAIN rows'[k] /\ rows'[k][n] = rows[k][n]
    BY <1>4
  <2>4. \A n \in DOMAIN rows'[k] : n \in DOMAIN rows[k] \/ n = new
    BY <1>4, <2>1
  <2> HIDE DEF k, new
  <2>5. ASSUME NEW j \in Keys
        PROVE  /\ \A n \in DOMAIN rows[j] : n \in DOMAIN rows'[j] /\ rows'[j][n] = rows[j][n]
               /\ \A n \in DOMAIN rows'[j] : n \in DOMAIN rows[j] \/ (j = k /\ n = new)
    <3>1. CASE j = k
      BY <2>3, <2>4, <3>1
    <3>2. CASE j # k
      BY <1>4, <3>2
    <3> QED
      BY <3>1, <3>2
  <2> QED
    BY <2>2, <2>5
<1> HIDE DEF k, new
<1>9. \A v \in Workers : hand'[v].at \in Attempting /\ v # w =>
        /\ hand'[v] = hand[v] /\ OnRow(v) /\ hand[v].key \in Keys
        /\ hand[v].run \in DOMAIN rows[hand[v].key]
        /\ rows[hand[v].key][hand[v].run].status = "running"
  BY <1>6 DEF RowsAreOwned, OnRow, Attempting
<1>10. RowsAreOwned'
  <2>1. \A v \in Workers : hand'[v].at # "idle" => hand'[v].key \in Keys
    BY <1>1, <1>6 DEF RowsAreOwned
  <2>2. ASSUME NEW v \in Workers, hand'[v].at \in Attempting
        PROVE  /\ hand'[v].run \in DOMAIN rows'[hand'[v].key]
               /\ rows'[hand'[v].key][hand'[v].run].status = "running"
    <3>1. CASE v = w
      BY <1>6, <1>8, <3>1
    <3>2. CASE v # w
      BY <1>8, <1>9, <2>2, <3>2
    <3> QED
      BY <3>1, <3>2
  <2>3. ASSUME NEW u \in Workers, NEW v \in Workers,
               hand'[u].at \in Attempting, hand'[v].at \in Attempting,
               hand'[u].key = hand'[v].key, hand'[u].run = hand'[v].run
        PROVE  u = v
    <3>1. CASE u # w /\ v # w
      BY <1>9, <2>3, <3>1 DEF RowsAreOwned
    <3>2. CASE u = w /\ v # w
      BY <1>6, <1>8, <1>9, <2>3, <3>2
    <3>3. CASE u # w /\ v = w
      BY <1>6, <1>8, <1>9, <2>3, <3>3
    <3> QED
      BY <3>1, <3>2, <3>3
  <2> QED
    BY <2>1, <2>2, <2>3 DEF RowsAreOwned, OnRow
<1>11. EffectsHaveRows'
  <2>1. \A j \in Keys : Shown(j) \subseteq Shown(j)'
    BY <1>8 DEF Shown, WithStatus
  <2>2. ASSUME NEW j \in Keys, NEW n \in Without(j)', n \in Shown(j)
        PROVE  n \in Without(j)
    <3>1. PICK v \in Workers : hand'[v].at \in {"work", "failed"} /\ hand'[v].key = j /\ hand'[v].run = n
      BY <2>2 DEF Without
    <3>2. n \in DOMAIN rows[j]
      BY <2>2 DEF Shown, WithStatus
    <3>3. v # w
      BY <1>6, <1>8, <3>1, <3>2
    <3> QED
      BY <1>6, <3>1, <3>3 DEF Without
  <2>3. \A j \in Keys : Shown(j) \ Without(j) \subseteq Shown(j)' \ Without(j)'
    BY <2>1, <2>2
  <2> QED
    BY <1>2, <1>7, <2>3, MoreShown
<1>12. OneRowSucceeded'
  BY <1>8 DEF OneRowSucceeded
<1> QED
  BY <1>7, <1>10, <1>11, <1>12

(* The work is committed: its row, held back so far, now shows an effect.     *)
LEMMA WorkInv == ASSUME QueueInv, NEW w \in Workers, Work(w) PROVE QueueInv'
<1> USE DEF QueueInv
<1> DEFINE k == hand[w].key  run == hand[w].run
<1>1. /\ k \in Keys /\ run \in Nat /\ hand[w].attempt \in 0..MaxAttempts
      /\ run \in DOMAIN rows[k] /\ rows[k][run].status = "running" /\ OnRow(w)
  BY DEF RowsAreOwned, OnRow, Attempting, Work, TypeOK, Hand
<1>2. Goes(w, "finish", run, hand[w].attempt) /\ rows' = rows
  BY DEF Work
<1>3. /\ hand' \in [Workers -> Hand]
      /\ hand'[w].at = "finish" /\ hand'[w].run = run /\ hand'[w].key = k
      /\ \A v \in Workers : v # w => hand'[v] = hand[v]
  BY <1>1, <1>2, GoesOn
<1>4. /\ effects' = [effects EXCEPT ![k] = @ + 1] /\ effects' \in [Keys -> Nat]
      /\ effects'[k] = effects[k] + 1 /\ effects[k] \in Nat
      /\ \A j \in Keys : j # k => effects'[j] = effects[j]
  BY <1>1 DEF Work, TypeOK
<1>5. TypeOK'
  BY <1>3, <1>4 DEF TypeOK, Work
<1>6. hand[w].at = "work"
  BY DEF Work
<1> HIDE DEF k, run
<1>7. \A v \in Workers : hand'[v].at \in Attempting =>
        OnRow(v) /\ hand'[v].key = hand[v].key /\ hand'[v].run = hand[v].run
  BY <1>1, <1>3 DEF OnRow, k, run
<1>8. RowsAreOwned'
  <2>1. \A v \in Workers : hand'[v].at # "idle" => hand'[v].key \in Keys
    BY <1>1, <1>3 DEF RowsAreOwned
  <2>2. \A v \in Workers : hand'[v].at \in Attempting =>
          /\ hand'[v].run \in DOMAIN rows'[hand'[v].key]
          /\ rows'[hand'[v].key][hand'[v].run].status = "running"
    BY <1>2, <1>7 DEF RowsAreOwned
  <2>3. ASSUME NEW u \in Workers, NEW v \in Workers,
               hand'[u].at \in Attempting, hand'[v].at \in Attempting,
               hand'[u].key = hand'[v].key, hand'[u].run = hand'[v].run
        PROVE  u = v
    BY <1>7, <2>3 DEF RowsAreOwned
  <2> QED
    BY <2>1, <2>2, <2>3 DEF RowsAreOwned, OnRow
<1>9. EffectsHaveRows'
  <2> SUFFICES ASSUME NEW j \in Keys
               PROVE  effects'[j] <= Cardinality(Shown(j)' \ Without(j)')
    BY DEF EffectsHaveRows
  <2> DEFINE S == Shown(j) \ Without(j)  U == Shown(j)' \ Without(j)'
  <2>1. IsFiniteSet(S) /\ Cardinality(S) \in Nat
    BY FewRows DEF Shown
  <2>2. IsFiniteSet(U) /\ Cardinality(U) \in Nat
    <3>1. IsFiniteSet(Shown(j))
      BY FewRows DEF Shown
    <3>2. Shown(j)' = Shown(j)
      BY <1>2 DEF Shown, WithStatus
    <3>3. U \in SUBSET Shown(j)
      BY <3>2
    <3> HIDE DEF U
    <3> QED
      BY <3>1, <3>3, FS_Subset, FS_CardinalityType
  <2>3. S \subseteq U
    <3>1. Shown(j)' = Shown(j)
      BY <1>2 DEF Shown, WithStatus
    <3>2. Without(j)' \subseteq Without(j)
      <4> SUFFICES ASSUME NEW v \in Workers, hand'[v].at \in {"work", "failed"}, hand'[v].key = j
                   PROVE  hand'[v].run \in Without(j)
        BY DEF Without
      <4>1. v # w /\ hand'[v] = hand[v]
        BY <1>3
      <4> QED
        BY <4>1 DEF Without
    <3> QED
      BY <3>1, <3>2
  <2>4. effects[j] <= Cardinality(S)
    BY DEF EffectsHaveRows
  <2>5. CASE j # k
    <3> HIDE DEF S, U
    <3>1. Cardinality(S) <= Cardinality(U)
      BY <2>2, <2>3, FS_Subset
    <3>2. effects'[j] = effects[j] /\ effects[j] \in Nat
      BY <1>4, <2>5 DEF TypeOK
    <3> QED
      BY <2>1, <2>2, <2>4, <3>1, <3>2 DEF U
  <2>6. CASE j = k
    <3>1. run \in U
      <4>1. run \in Shown(j)'
        BY <1>1, <1>2, <2>6 DEF Shown, WithStatus
      <4>2. ASSUME NEW v \in Workers, hand'[v].at \in {"work", "failed"}, hand'[v].key = j,
                   hand'[v].run = run
            PROVE  FALSE
        <5>1. v # w /\ hand'[v] = hand[v] /\ OnRow(v)
          BY <1>3, <4>2 DEF OnRow, Attempting
        <5> QED
          BY <1>1, <2>6, <4>2, <5>1 DEF RowsAreOwned, k, run
      <4>3. run \notin Without(j)'
        BY <4>2 DEF Without
      <4> QED
        BY <4>1, <4>3
    <3>2. run \notin S
      <4>1. run \in Without(k)
        BY <1>6 DEF Without, k, run
      <4> QED
        BY <2>6, <4>1
    <3> HIDE DEF S, U
    <3>3. Cardinality(S \cup {run}) = Cardinality(S) + 1
      BY <2>1, <3>2, FS_AddElement
    <3>4. Cardinality(S \cup {run}) <= Cardinality(U)
      <4>1. S \cup {run} \in SUBSET U
        BY <2>3, <3>1
      <4> QED
        BY <2>2, <4>1, FS_Subset
    <3> QED
      BY <1>4, <2>1, <2>2, <2>4, <2>6, <3>3, <3>4 DEF U
  <2> QED
    BY <2>5, <2>6
<1>10. OneRowSucceeded'
  BY <1>2 DEF OneRowSucceeded
<1> QED
  BY <1>5, <1>8, <1>9, <1>10

(* What an outcome does to the rows: it sets the worker's own row.            *)
LEMMA OutcomeOnRow ==
  ASSUME QueueInv, NEW w \in Workers, OnRow(w),
         NEW status \in {"running", "succeeded", "failed", "skipped"}, Outcome(w, status)
  PROVE  /\ rows' \in [Keys -> Seq(Row)]
         /\ hand[w].key \in Keys
         /\ \A j \in Keys : DOMAIN rows'[j] = DOMAIN rows[j]
         /\ \A j \in Keys : \A n \in DOMAIN rows[j] :
              j # hand[w].key \/ n # hand[w].run => rows'[j][n] = rows[j][n]
         /\ hand[w].run \in DOMAIN rows[hand[w].key]
         /\ rows'[hand[w].key][hand[w].run].status = status
<1> DEFINE k == hand[w].key  run == hand[w].run
           r == [status |-> status, attempt |-> hand[w].attempt]
<1>1. /\ k \in Keys /\ run \in DOMAIN rows[k] /\ hand[w].attempt \in 0..MaxAttempts
  BY DEF QueueInv, RowsAreOwned, OnRow, Attempting, TypeOK, Hand
<1>2. r \in Row /\ r.status = status
  BY <1>1 DEF Row
<1>3. rows' = [rows EXCEPT ![k] = [rows[k] EXCEPT ![run] = r]]
  BY DEF Outcome
<1>4. rows[k] \in Seq(Row) /\ rows \in [Keys -> Seq(Row)]
  BY <1>1 DEF QueueInv, TypeOK
<1> HIDE DEF k, run, r
<1>5. /\ [rows[k] EXCEPT ![run] = r] \in Seq(Row)
      /\ DOMAIN [rows[k] EXCEPT ![run] = r] = DOMAIN rows[k]
      /\ [rows[k] EXCEPT ![run] = r][run] = r
      /\ \A n \in DOMAIN rows[k] : n # run => [rows[k] EXCEPT ![run] = r][n] = rows[k][n]
  BY <1>1, <1>2, <1>4
<1>6. /\ rows' \in [Keys -> Seq(Row)]
      /\ rows'[k] = [rows[k] EXCEPT ![run] = r]
      /\ \A j \in Keys : j # k => rows'[j] = rows[j]
  BY <1>1, <1>3, <1>4, <1>5
<1> QED
  BY <1>1, <1>2, <1>5, <1>6 DEF k, run

(* An outcome that may be written, and the worker has left its row.           *)
LEMMA OutcomeInv ==
  ASSUME QueueInv, NEW w \in Workers, NEW status \in {"succeeded", "failed"},
         hand[w].at \in {"failed", "finish"}, Outcome(w, status),
         status = "succeeded" => ~Succeeded(hand[w].key),
         status = "failed" => hand[w].at = "failed",
         hand' \in [Workers -> Hand], hand'[w].at \in {"record", "done"},
         hand'[w].key = hand[w].key, \A v \in Workers : v # w => hand'[v] = hand[v],
         UNCHANGED <<queue, fired, effects, crashes>>
  PROVE  QueueInv'
<1> USE DEF QueueInv
<1> DEFINE k == hand[w].key  run == hand[w].run
<1>1. OnRow(w)
  BY DEF OnRow, Attempting
<1>2. /\ rows' \in [Keys -> Seq(Row)] /\ k \in Keys
      /\ \A j \in Keys : DOMAIN rows'[j] = DOMAIN rows[j]
      /\ \A j \in Keys : \A n \in DOMAIN rows[j] :
           j # k \/ n # run => rows'[j][n] = rows[j][n]
      /\ run \in DOMAIN rows[k] /\ rows'[k][run].status = status
      /\ rows[k][run].status = "running"
  BY <1>1, OutcomeOnRow DEF RowsAreOwned
<1>3. TypeOK'
  BY <1>2 DEF TypeOK
<1>4. ASSUME NEW v \in Workers, hand'[v].at \in Attempting
      PROVE  /\ v # w /\ hand'[v] = hand[v] /\ OnRow(v) /\ hand[v].key \in Keys
             /\ hand[v].key # k \/ hand[v].run # run
             /\ hand[v].run \in DOMAIN rows[hand[v].key]
             /\ rows[hand[v].key][hand[v].run].status = "running"
  <2>1. v # w /\ hand'[v] = hand[v] /\ OnRow(v)
    BY <1>4 DEF Attempting, OnRow
  <2> QED
    BY <1>1, <2>1 DEF RowsAreOwned, OnRow, Attempting
<1> HIDE DEF k, run
<1>5. RowsAreOwned'
  <2>1. \A v \in Workers : hand'[v].at # "idle" => hand'[v].key \in Keys
    BY <1>2 DEF RowsAreOwned, k
  <2>2. ASSUME NEW v \in Workers, hand'[v].at \in Attempting
        PROVE  /\ hand'[v].run \in DOMAIN rows'[hand'[v].key]
               /\ rows'[hand'[v].key][hand'[v].run].status = "running"
    BY <1>2, <1>4, <2>2
  <2>3. ASSUME NEW u \in Workers, NEW v \in Workers,
               hand'[u].at \in Attempting, hand'[v].at \in Attempting,
               hand'[u].key = hand'[v].key, hand'[u].run = hand'[v].run
        PROVE  u = v
    BY <1>4, <2>3 DEF RowsAreOwned
  <2> QED
    BY <2>1, <2>2, <2>3 DEF RowsAreOwned, OnRow
<1>6. EffectsHaveRows'
  <2>1. ASSUME NEW j \in Keys, NEW n \in Shown(j), n \notin Without(j)
        PROVE  n \in Shown(j)'
    <3>1. CASE j # k \/ n # run
      BY <1>2, <2>1, <3>1 DEF Shown, WithStatus
    <3>2. CASE j = k /\ n = run /\ status = "succeeded"
      BY <1>2, <3>2 DEF Shown, WithStatus
    <3>3. CASE j = k /\ n = run /\ status = "failed"
      BY <2>1, <3>3 DEF Without, k, run
    <3> QED
      BY <3>1, <3>2, <3>3
  <2>2. \A j \in Keys : Without(j)' \subseteq Without(j)
    BY <1>4 DEF Without, Attempting
  <2>3. \A j \in Keys : Shown(j) \ Without(j) \subseteq Shown(j)' \ Without(j)'
    BY <2>1, <2>2
  <2> QED
    BY <1>3, <2>3, MoreShown
<1>7. OneRowSucceeded'
  <2> SUFFICES ASSUME NEW j \in Keys, NEW m \in DOMAIN rows[j], NEW n \in DOMAIN rows[j],
                      rows'[j][m].status = "succeeded", rows'[j][n].status = "succeeded"
               PROVE  m = n
    BY <1>2 DEF OneRowSucceeded
  <2>1. CASE j # k \/ (m # run /\ n # run)
    BY <1>2, <2>1 DEF OneRowSucceeded
  <2>2. CASE j = k /\ (m = run \/ n = run)
    <3>1. \A i \in DOMAIN rows[k] : rows'[k][i].status = "succeeded" => i = run
      BY <1>2, <2>2 DEF Succeeded, k
    <3> QED
      BY <2>2, <3>1
  <2> QED
    BY <2>1, <2>2
<1> QED
  BY <1>3, <1>5, <1>6, <1>7

LEMMA FinishFailedInv ==
  ASSUME QueueInv, NEW w \in Workers, FinishFailed(w) PROVE QueueInv'
<1>1. hand[w].attempt \in 0..MaxAttempts
  BY DEF QueueInv, TypeOK, Hand
<1>2. CASE hand[w].attempt < MaxAttempts /\ Goes(w, "record", 0, hand[w].attempt + 1)
  <2>1. hand[w].attempt + 1 \in 0..MaxAttempts
    BY <1>1, <1>2, AttemptsAssumption
  <2>2. /\ hand' \in [Workers -> Hand]
        /\ hand'[w].at = "record" /\ hand'[w].key = hand[w].key
        /\ \A v \in Workers : v # w => hand'[v] = hand[v]
    BY <1>2, <2>1, GoesOn DEF QueueInv
  <2> QED
    BY <2>2, OutcomeInv DEF FinishFailed
<1>3. CASE Goes(w, "done", 0, 0)
  <2>1. /\ hand' \in [Workers -> Hand]
        /\ hand'[w].at = "done" /\ hand'[w].key = hand[w].key
        /\ \A v \in Workers : v # w => hand'[v] = hand[v]
    BY <1>3, GoesOn, AttemptsAssumption DEF QueueInv
  <2> QED
    BY <2>1, OutcomeInv DEF FinishFailed
<1> QED
  BY <1>2, <1>3 DEF FinishFailed

LEMMA FinishInv == ASSUME QueueInv, NEW w \in Workers, Finish(w) PROVE QueueInv'
<1>1. /\ hand' \in [Workers -> Hand]
      /\ hand'[w].at = "done" /\ hand'[w].key = hand[w].key
      /\ \A v \in Workers : v # w => hand'[v] = hand[v]
  BY GoesOn, AttemptsAssumption DEF QueueInv, Finish
<1> QED
  BY <1>1, OutcomeInv DEF Finish

(* Every step of the queue, of a worker and of a crash keeps the invariant.   *)
LEMMA StepInv == QueueInv /\ [Next]_vars => QueueInv'
<1> SUFFICES ASSUME QueueInv, [Next]_vars PROVE QueueInv'
  OBVIOUS
<1>1. ASSUME NEW k \in Keys, Fire(k) PROVE QueueInv'
  BY <1>1, FireInv
<1>2. ASSUME NEW k \in Keys, Lapse(k) PROVE QueueInv'
  BY <1>2, LapseInv
<1>3. ASSUME NEW k \in Keys, NEW w \in Workers, Deliver(w, k) PROVE QueueInv'
  BY <1>3, DeliverInv
<1>4. ASSUME NEW w \in Workers, Step(w) PROVE QueueInv'
  BY <1>4, LookUpInv, RecordRunningInv, WorkInv, WorkFailsInv, FinishFailedInv, FinishInv,
     FinishRefusedInv, RecordSkipInv, AcknowledgeInv DEF Step
<1>5. ASSUME NEW w \in Workers, Crash(w) PROVE QueueInv'
  BY <1>5, CrashInv
<1>6. CASE UNCHANGED vars
  BY <1>6 DEF vars, QueueInv, TypeOK, RowsAreOwned, EffectsHaveRows, OneRowSucceeded, OnRow,
              Shown, Without, WithStatus
<1> QED
  BY <1>1, <1>2, <1>3, <1>4, <1>5, <1>6 DEF Next

(* The inductive invariant: each effect has a row of its own that shows it,   *)
(* and a worker on a row is there alone (run_job, app/queue.py).              *)
THEOREM EffectsStayOwned == Spec => []QueueInv
BY InitInv, StepInv, PTL DEF Spec

(* A key succeeds at most once and every effect is shown by a row, for every  *)
(* number of keys, workers, attempts, firings, crashes and lapses, and also   *)
(* when the write of a success fails for other reasons than the index.        *)
THEOREM RunsAreToldAlways == Spec => []RunsTellTheEffects
BY EffectsStayOwned, InvariantSuffices, PTL

=============================================================================
