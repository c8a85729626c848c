---------------------------- MODULE DeliveryProofs ----------------------------
(* With one sweep at a time a message that was sent is not sent again, and the *)
(* rows of a delivery tell its attempts, for any number of messages, senders,  *)
(* tries and crashes.                                                          *)
EXTENDS Delivery, TLAPS

(* One worker at a time runs the sweep.                                        *)
OneSweep == \A a, b \in Sweeps : a = b

Working == {"try", "tried", "record"}
WorksOn(a, m) == hand[a].at \in Working /\ hand[a].msg = m
Recording(m) == \E a \in Actors : hand[a].at = "record" /\ hand[a].msg = m
Tried(m) == \E a \in Actors : hand[a].at = "tried" /\ hand[a].msg = m

(* Attempts that may have no row: none unless a process died with the message. *)
Unrecorded(m) == IF m \in struck THEN crashes ELSE 0

(* What an actor at work knows of its message is still so.                     *)
HandIsCurrent(a) ==
  /\ hand[a].todo # {} => a \in Sweeps
  /\ hand[a].at \in Working =>
       LET m == hand[a].msg IN
       /\ m \in Messages /\ status[m] # "absent" /\ hand[a].number >= 1
       /\ hand[a].number = IF hand[a].at = "record" THEN attempts[m] ELSE attempts[m] + 1
       /\ a \in Sweeps => m \notin Direct
       /\ a \in Senders => rows[m] = {}
       /\ m \notin Direct => hand[a].number <= MaxAttempts + Unrecorded(m)
       /\ m \notin Direct /\ hand[a].at # "record" => status[m] = "sending"
       /\ m \in Direct => hand[a].at # "record"
  /\ hand[a].at = "tried" => hand[a].result \in {"sent", "failed"}
HandsAreCurrent == \A a \in Actors : HandIsCurrent(a)

(* Nobody else works on the message of an actor, or on one the sweep is still  *)
(* to take up, which waits until then.                                         *)
OneAtAMessage ==
  \A m \in Messages, a, b \in Actors : WorksOn(a, m) /\ WorksOn(b, m) => a = b
TodoWaits ==
  \A a \in Actors : \A m \in hand[a].todo :
    m \in Waiting /\ \A b \in Actors : ~WorksOn(b, m)

AbsentIsNew ==
  \A m \in Messages : status[m] = "absent" =>
    attempts[m] = 0 /\ rows[m] = {} /\ accepted[m] = 0

(* The rows are attempts the delivery counts, but for the one being recorded   *)
(* and those that processes died with.                                         *)
RowsAreCounted ==
  \A m \in Messages :
    /\ m \in Direct => rows[m] = {}
    /\ \A row \in rows[m] :
         /\ row.number \in 1..attempts[m]
         /\ row.due => row.number < MaxAttempts
         /\ Recording(m) => row.number < attempts[m]
    /\ rows[m] # {} => \E row \in rows[m] :
         attempts[m] <= row.number + Unrecorded(m) + IF Recording(m) THEN 1 ELSE 0

(* Of a message no process died with nothing is missing but what is being done. *)
NothingIsMissing ==
  \A m \in Messages \ struck :
    /\ m \notin Direct => \A n \in 1..attempts[m] :
         (\E row \in rows[m] : row.number = n) \/ (n = attempts[m] /\ Recording(m))
    /\ accepted[m] <= IF Tried(m) THEN attempts[m] + 1 ELSE attempts[m]

DeliveryInv ==
  /\ TypeOK
  /\ HandsAreCurrent
  /\ OneAtAMessage
  /\ TodoWaits
  /\ AbsentIsNew
  /\ RowsAreCounted
  /\ NothingIsMissing

(* What the invariant says of the rows themselves.                             *)
LEMMA DeliveryInvSuffices == DeliveryInv => AttemptsAreTold
<1> SUFFICES ASSUME DeliveryInv, NEW m \in Messages
             PROVE  LET numbers == {row.number : row \in rows[m]}
                    IN  /\ numbers \subseteq 1..attempts[m]
                        /\ ~Handling(m) /\ m \notin struck =>
                             /\ m \in Direct \/ numbers = 1..attempts[m]
                             /\ accepted[m] <= attempts[m]
  BY DEF AttemptsAreTold, RowsTellAttempts, DeliveryInv
<1> USE DEF DeliveryInv, Unrecorded
<1> DEFINE numbers == {row.number : row \in rows[m]}
<1>1. numbers \subseteq 1..attempts[m]
  BY DEF RowsAreCounted
<1>2. ASSUME ~Handling(m), m \notin struck
      PROVE  (m \in Direct \/ numbers = 1..attempts[m]) /\ accepted[m] <= attempts[m]
  <2>1. ~Recording(m) /\ ~Tried(m)
    BY <1>2 DEF Handling, Recording, Tried
  <2>2. accepted[m] <= attempts[m]
    BY <1>2, <2>1 DEF NothingIsMissing
  <2>3. m \notin Direct => 1..attempts[m] \subseteq numbers
    BY <1>2, <2>1 DEF NothingIsMissing
  <2> QED
    BY <1>1, <2>2, <2>3
<1> QED
  BY <1>1, <1>2

LEMMA DeliveryInit == Init => DeliveryInv
<1> SUFFICES ASSUME Init PROVE DeliveryInv
  OBVIOUS
<1>1. TypeOK
  <2>1. Idle \in Hand
    BY TriesAssumption DEF Hand, Idle
  <2> QED
    BY <2>1, CrashAssumption DEF Init, TypeOK
<1>2. \A a \in Actors : hand[a].at = "idle" /\ hand[a].todo = {}
  BY DEF Init, Idle
<1>3. HandsAreCurrent /\ OneAtAMessage /\ TodoWaits
  BY <1>2 DEF HandsAreCurrent, HandIsCurrent, OneAtAMessage, TodoWaits, WorksOn, Working
<1>4. AbsentIsNew /\ RowsAreCounted /\ NothingIsMissing
  BY DEF Init, AbsentIsNew, RowsAreCounted, NothingIsMissing
<1> QED
  BY <1>1, <1>3, <1>4 DEF DeliveryInv

(* A message nobody sent has nobody at work on it, and no rows.                *)
LEMMA StartSendInv ==
  ASSUME DeliveryInv, NEW a \in Actors, NEW m \in Messages, StartSend(a, m)
  PROVE  DeliveryInv'
<1> USE DEF DeliveryInv, Unrecorded
<1> DEFINE mine == Trying(m, 1, IF m \in Direct THEN FirstTries ELSE 1, {})
<1>1. /\ a \in Senders /\ a \notin Sweeps /\ status[m] = "absent"
      /\ hand' = [hand EXCEPT ![a] = mine]
      /\ status' = [status EXCEPT ![m] = "sending"]
      /\ attempts' = attempts /\ rows' = rows /\ accepted' = accepted /\ crashes' = crashes /\ struck' = struck
      /\ hand[a].at = "idle"
  BY ActorAssumption DEF StartSend, Idle
<1>2. mine \in Hand /\ mine.at = "try" /\ mine.msg = m /\ mine.number = 1 /\ mine.todo = {}
  BY TriesAssumption DEF Hand, Trying
<1> HIDE DEF mine
<1>3. TypeOK'
  BY <1>1, <1>2 DEF TypeOK
<1>4. \A b \in Actors : hand'[b] = IF b = a THEN mine ELSE hand[b]
  BY <1>1 DEF TypeOK
<1>5. \A n \in Messages : status'[n] = IF n = m THEN "sending" ELSE status[n]
  BY <1>1 DEF TypeOK
<1>6. \A b \in Actors : ~WorksOn(b, m) /\ m \notin hand[b].todo
  BY <1>1 DEF HandsAreCurrent, HandIsCurrent, TodoWaits, Waiting, WorksOn
<1>7. attempts[m] = 0 /\ rows[m] = {} /\ accepted[m] = 0
  BY <1>1 DEF AbsentIsNew
<1>8. HandsAreCurrent'
  <2> SUFFICES ASSUME NEW b \in Actors PROVE HandIsCurrent(b)'
    BY DEF HandsAreCurrent
  <2>1. CASE b = a
    BY <1>1, <1>2, <1>4, <1>5, <1>7, <2>1, TriesAssumption, CrashAssumption
       DEF TypeOK, HandIsCurrent, Working
  <2>2. CASE b # a
    <3>1. hand'[b] = hand[b] /\ (hand[b].at \in Working => hand[b].msg # m)
      BY <1>4, <1>6, <2>2 DEF WorksOn
    <3> QED
      BY <1>1, <1>5, <3>1 DEF HandsAreCurrent, HandIsCurrent
  <2> QED
    BY <2>1, <2>2
<1>9. OneAtAMessage'
  BY <1>2, <1>4, <1>6 DEF OneAtAMessage, WorksOn
<1>10. TodoWaits'
  BY <1>1, <1>2, <1>4, <1>5, <1>6 DEF TodoWaits, WorksOn, Waiting, TypeOK, Hand
<1>11. AbsentIsNew'
  BY <1>1, <1>5 DEF AbsentIsNew
<1>12. \A n \in Messages : Recording(n)' = Recording(n) /\ Tried(n)' = Tried(n)
  BY <1>1, <1>2, <1>4 DEF Recording, Tried
<1>13. RowsAreCounted'
  BY <1>1, <1>12 DEF RowsAreCounted
<1>14. NothingIsMissing'
  BY <1>1, <1>12 DEF NothingIsMissing
<1> QED
  BY <1>3, <1>8, <1>9, <1>10, <1>11, <1>13, <1>14

(* What waits has rows, which only a sweep works on, and there is one.         *)
LEMMA StartSweepInv ==
  ASSUME OneSweep, DeliveryInv, NEW a \in Actors, NEW due \in SUBSET Messages,
         StartSweep(a, due)
  PROVE  DeliveryInv'
<1> USE DEF DeliveryInv, Unrecorded
<1> DEFINE mine == Sweeping(due)
<1>1. /\ a \in Sweeps /\ due \subseteq Waiting
      /\ hand' = [hand EXCEPT ![a] = mine]
      /\ status' = status /\ attempts' = attempts /\ rows' = rows
      /\ accepted' = accepted /\ crashes' = crashes /\ struck' = struck
      /\ hand[a].at = "idle"
  BY DEF StartSweep, Idle
<1>2. mine \in Hand /\ mine.at = "next" /\ mine.todo = due
  BY TriesAssumption DEF Hand, Sweeping
<1> HIDE DEF mine
<1>3. TypeOK'
  BY <1>1, <1>2 DEF TypeOK
<1>4. \A b \in Actors : hand'[b] = IF b = a THEN mine ELSE hand[b]
  BY <1>1 DEF TypeOK
<1>5. \A n \in due, b \in Actors : ~WorksOn(b, n)
  <2> SUFFICES ASSUME NEW n \in due, NEW b \in Actors, WorksOn(b, n) PROVE FALSE
    OBVIOUS
  <2>1. rows[n] # {}
    BY <1>1 DEF Waiting
  <2>2. b \in Sweeps
    BY <2>1 DEF HandsAreCurrent, HandIsCurrent, WorksOn, Actors
  <2> QED
    BY <1>1, <2>2 DEF OneSweep, WorksOn, Working
<1>6. HandsAreCurrent'
  <2> SUFFICES ASSUME NEW b \in Actors PROVE HandIsCurrent(b)'
    BY DEF HandsAreCurrent
  <2>1. CASE b = a
    BY <1>1, <1>2, <1>4, <2>1 DEF HandIsCurrent, Working
  <2>2. CASE b # a
    BY <1>1, <1>4, <2>2 DEF HandsAreCurrent, HandIsCurrent
  <2> QED
    BY <2>1, <2>2
<1>7. \A b \in Actors, n \in Messages : WorksOn(b, n)' => WorksOn(b, n)
  BY <1>2, <1>4 DEF WorksOn, Working
<1>8. OneAtAMessage'
  BY <1>7 DEF OneAtAMessage
<1>9. Waiting' = Waiting
  BY <1>1 DEF Waiting
<1>10. TodoWaits'
  <2> SUFFICES ASSUME NEW b \in Actors, NEW n \in hand'[b].todo
               PROVE  n \in Waiting' /\ \A c \in Actors : ~WorksOn(c, n)'
    BY DEF TodoWaits
  <2>1. n \in Waiting /\ n \in Messages /\ \A c \in Actors : ~WorksOn(c, n)
    BY <1>1, <1>2, <1>4, <1>5 DEF TodoWaits, Waiting
  <2> QED
    BY <1>7, <1>9, <2>1
<1>11. AbsentIsNew'
  BY <1>1 DEF AbsentIsNew
<1>12. \A n \in Messages : Recording(n)' = Recording(n) /\ Tried(n)' = Tried(n)
  BY <1>1, <1>2, <1>4 DEF Recording, Tried
<1>13. RowsAreCounted'
  BY <1>1, <1>12 DEF RowsAreCounted
<1>14. NothingIsMissing'
  BY <1>1, <1>12 DEF NothingIsMissing
<1> QED
  BY <1>3, <1>6, <1>8, <1>10, <1>11, <1>13, <1>14

(* The latest row of what waits is short of the limit, and the delivery counts *)
(* at most one attempt more than that for each process that died.              *)
LEMMA ShortOfTheLimit ==
  ASSUME DeliveryInv, NEW m \in Waiting, \A b \in Actors : ~WorksOn(b, m)
  PROVE  attempts[m] + 1 <= MaxAttempts + Unrecorded(m)
<1> USE DEF DeliveryInv, Unrecorded
<1>1. m \in Messages
  BY DEF Waiting
<1>2. PICK last \in rows[m] : last.due /\ \A other \in rows[m] : other.number <= last.number
  BY DEF Waiting
<1>3. ~Recording(m)
  BY DEF Recording, WorksOn, Working
<1>4. PICK row \in rows[m] : attempts[m] <= row.number + Unrecorded(m) + 0
  BY <1>1, <1>2, <1>3 DEF RowsAreCounted
<1>5. row.number <= last.number /\ last.number < MaxAttempts
  BY <1>1, <1>2, <1>4 DEF RowsAreCounted
<1>6. row.number \in Int /\ last.number \in Int /\ crashes \in Int /\ attempts[m] \in Int
  BY <1>1, <1>2, <1>4 DEF TypeOK
<1> QED
  BY <1>4, <1>5, <1>6, TriesAssumption

(* The sweep takes up what is due, with the number its row counts next.        *)
LEMMA ClaimInv ==
  ASSUME OneSweep, DeliveryInv, NEW a \in Actors, NEW m \in Messages, Claim(a, m)
  PROVE  DeliveryInv'
<1> USE DEF DeliveryInv, Unrecorded
<1> DEFINE mine == Trying(m, attempts[m] + 1, 1, hand[a].todo \ {m})
<1>1. /\ hand[a].at = "next" /\ m \in hand[a].todo
      /\ hand' = [hand EXCEPT ![a] = mine]
      /\ status' = [status EXCEPT ![m] = "sending"]
      /\ attempts' = attempts /\ rows' = rows /\ accepted' = accepted /\ crashes' = crashes /\ struck' = struck
  BY DEF Claim
<1>2. /\ mine \in Hand /\ mine.at = "try" /\ mine.msg = m
      /\ mine.number = attempts[m] + 1 /\ mine.todo = hand[a].todo \ {m}
  BY TriesAssumption DEF Hand, Trying, TypeOK
<1> HIDE DEF mine
<1>3. TypeOK'
  BY <1>1, <1>2 DEF TypeOK
<1>4. \A b \in Actors : hand'[b] = IF b = a THEN mine ELSE hand[b]
  BY <1>1 DEF TypeOK
<1>5. \A n \in Messages : status'[n] = IF n = m THEN "sending" ELSE status[n]
  BY <1>1 DEF TypeOK
<1>6. /\ a \in Sweeps /\ a \notin Senders
      /\ m \in Waiting /\ \A b \in Actors : ~WorksOn(b, m)
  BY <1>1, ActorAssumption DEF HandsAreCurrent, HandIsCurrent, TodoWaits
<1>7. m \notin Direct
  BY <1>6 DEF Waiting, RowsAreCounted
<1>8. attempts[m] + 1 <= MaxAttempts + Unrecorded(m)
  BY <1>6, ShortOfTheLimit
<1>9. HandsAreCurrent'
  <2> SUFFICES ASSUME NEW b \in Actors PROVE HandIsCurrent(b)'
    BY DEF HandsAreCurrent
  <2>1. CASE b = a
    BY <1>1, <1>2, <1>4, <1>5, <1>6, <1>7, <1>8, <2>1 DEF TypeOK, HandIsCurrent, Working
  <2>2. CASE b # a
    <3>1. hand'[b] = hand[b] /\ (hand[b].at \in Working => hand[b].msg # m)
      BY <1>4, <1>6, <2>2 DEF WorksOn
    <3> QED
      BY <1>1, <1>5, <3>1 DEF HandsAreCurrent, HandIsCurrent
  <2> QED
    BY <2>1, <2>2
<1>10. OneAtAMessage'
  BY <1>2, <1>4, <1>6 DEF OneAtAMessage, WorksOn
<1>11. TodoWaits'
  <2> SUFFICES ASSUME NEW b \in Actors, NEW n \in hand'[b].todo
               PROVE  n \in Waiting' /\ \A c \in Actors : ~WorksOn(c, n)'
    BY DEF TodoWaits
  <2>1. b = a
    BY <1>4, <1>6 DEF OneSweep, HandsAreCurrent, HandIsCurrent
  <2>2. n \in hand[a].todo /\ n # m
    BY <1>2, <1>4, <2>1
  <2>3. n \in Waiting /\ n \in Messages /\ \A c \in Actors : ~WorksOn(c, n)
    BY <2>2 DEF TodoWaits, Waiting
  <2> QED
    BY <1>1, <1>2, <1>4, <1>5, <2>2, <2>3 DEF Waiting, WorksOn
<1>12. AbsentIsNew'
  BY <1>1, <1>5 DEF AbsentIsNew
<1>13. \A n \in Messages : Recording(n)' = Recording(n) /\ Tried(n)' = Tried(n)
  BY <1>1, <1>2, <1>4 DEF Recording, Tried
<1>14. RowsAreCounted'
  BY <1>1, <1>13 DEF RowsAreCounted
<1>15. NothingIsMissing'
  BY <1>1, <1>13 DEF NothingIsMissing
<1> QED
  BY <1>3, <1>9, <1>10, <1>11, <1>12, <1>14, <1>15

(* The channel may take the message once more than the delivery counts yet.    *)
LEMMA TryInv ==
  ASSUME DeliveryInv, NEW a \in Actors, NEW taken \in BOOLEAN,
         NEW result \in {"sent", "failed"}, Try(a, taken, result)
  PROVE  DeliveryInv'
<1> USE DEF DeliveryInv, Unrecorded
<1> PICK m : m = hand[a].msg
  OBVIOUS
<1> DEFINE mine == [hand[a] EXCEPT !.at = "tried", !.result = result]
<1>1. /\ hand[a].at = "try"
      /\ hand' = [hand EXCEPT ![a] = mine]
      /\ accepted' = IF taken THEN [accepted EXCEPT ![m] = @ + 1] ELSE accepted
      /\ status' = status /\ attempts' = attempts /\ rows' = rows /\ crashes' = crashes /\ struck' = struck
  BY DEF Try
<1>2. /\ mine \in Hand /\ mine.at = "tried" /\ mine.result = result /\ mine.msg = m
      /\ mine.number = hand[a].number /\ mine.todo = hand[a].todo
  BY DEF TypeOK, Hand
<1>3. m \in Messages /\ status[m] # "absent" /\ WorksOn(a, m)
  BY <1>1 DEF HandsAreCurrent, HandIsCurrent, WorksOn, Working
<1> HIDE DEF mine
<1>4. \A n \in Messages : accepted'[n] = IF taken /\ n = m THEN accepted[n] + 1 ELSE accepted[n]
  BY <1>1 DEF TypeOK
<1>5. TypeOK'
  BY <1>1, <1>2, <1>3 DEF TypeOK
<1>6. \A b \in Actors : hand'[b] = IF b = a THEN mine ELSE hand[b]
  BY <1>1 DEF TypeOK
<1>7. HandsAreCurrent'
  <2> SUFFICES ASSUME NEW b \in Actors PROVE HandIsCurrent(b)'
    BY DEF HandsAreCurrent
  <2>1. CASE b = a
    BY <1>1, <1>2, <1>6, <2>1 DEF HandsAreCurrent, HandIsCurrent, Working
  <2>2. CASE b # a
    BY <1>1, <1>6, <2>2 DEF HandsAreCurrent, HandIsCurrent
  <2> QED
    BY <2>1, <2>2
<1>8. \A b \in Actors, n \in Messages : WorksOn(b, n)' = WorksOn(b, n)
  BY <1>1, <1>2, <1>6 DEF WorksOn, Working
<1>9. OneAtAMessage'
  BY <1>8 DEF OneAtAMessage
<1>10. TodoWaits'
  <2> SUFFICES ASSUME NEW b \in Actors, NEW n \in hand'[b].todo
               PROVE  n \in Waiting' /\ \A c \in Actors : ~WorksOn(c, n)'
    BY DEF TodoWaits
  <2>1. n \in Waiting /\ n \in Messages /\ \A c \in Actors : ~WorksOn(c, n)
    BY <1>2, <1>6 DEF TodoWaits, Waiting
  <2> QED
    BY <1>1, <1>8, <2>1 DEF Waiting
<1>11. AbsentIsNew'
  BY <1>1, <1>3, <1>4 DEF AbsentIsNew
<1>12. \A n \in Messages : Recording(n)' = Recording(n)
  BY <1>1, <1>2, <1>6 DEF Recording
<1>13. RowsAreCounted'
  BY <1>1, <1>12 DEF RowsAreCounted
<1>14. ~Tried(m) /\ Tried(m)' /\ \A n \in Messages : n # m => Tried(n)' = Tried(n)
  <2>1. ~Tried(m)
    BY <1>1, <1>3 DEF OneAtAMessage, Tried, WorksOn, Working
  <2> QED
    BY <1>1, <1>2, <1>6, <2>1 DEF Tried
<1>15. NothingIsMissing'
  <2> SUFFICES ASSUME NEW n \in Messages, n \notin struck
               PROVE  accepted'[n] <= IF Tried(n)' THEN attempts[n] + 1 ELSE attempts[n]
    BY <1>1, <1>12 DEF NothingIsMissing
  <2>1. CASE n = m
    <3>1. accepted[m] <= attempts[m]
      BY <1>3, <1>14, <2>1 DEF NothingIsMissing
    <3> QED
      BY <1>4, <1>14, <2>1, <3>1 DEF TypeOK
  <2>2. CASE n # m
    BY <1>4, <1>14, <2>2 DEF NothingIsMissing
  <2> QED
    BY <2>1, <2>2
<1> QED
  BY <1>5, <1>7, <1>9, <1>10, <1>11, <1>13, <1>15

(* The delivery counts the attempt; its row is still to come.                  *)
LEMMA OutcomeInv ==
  ASSUME DeliveryInv, NEW a \in Actors, Outcome(a)
  PROVE  DeliveryInv'
<1> USE DEF DeliveryInv, Unrecorded
<1> PICK m : m = hand[a].msg
  OBVIOUS
<1> DEFINE mine == hand'[a]
<1>1. /\ hand[a].at = "tried"
      /\ status' = [status EXCEPT ![m] = hand[a].result]
      /\ attempts' = [attempts EXCEPT ![m] = hand[a].number]
      /\ rows' = rows /\ accepted' = accepted /\ crashes' = crashes /\ struck' = struck
  BY DEF Outcome
<1>2. /\ m \in Messages /\ status[m] # "absent" /\ WorksOn(a, m)
      /\ hand[a].number = attempts[m] + 1 /\ hand[a].result \in {"sent", "failed"}
      /\ attempts[m] \in Nat
  BY <1>1 DEF HandsAreCurrent, HandIsCurrent, WorksOn, Working, TypeOK
<1>3. \A n \in Messages : /\ status'[n] = IF n = m THEN hand[a].result ELSE status[n]
                          /\ attempts'[n] = IF n = m THEN attempts[n] + 1 ELSE attempts[n]
  BY <1>1, <1>2 DEF TypeOK
<1>4. /\ hand' = [hand EXCEPT ![a] = mine] /\ mine \in Hand
      /\ mine.todo = hand[a].todo
      /\ \/ /\ ByDeliver(a) /\ mine.at = "record"
            /\ mine.msg = m /\ mine.number = hand[a].number
         \/ /\ ~ByDeliver(a) /\ mine.at = "try"
            /\ mine.msg = m /\ mine.number = hand[a].number + 1
         \/ mine.at \in {"idle", "next"} /\ ~ByDeliver(a)
  <2>1. CASE ByDeliver(a)
    <3>1. hand' = [hand EXCEPT ![a] = [hand[a] EXCEPT !.at = "record"]]
      BY <2>1 DEF Outcome
    <3>2. mine = [hand[a] EXCEPT !.at = "record"]
      BY <3>1 DEF TypeOK
    <3> QED
      BY <2>1, <3>1, <3>2 DEF TypeOK, Hand
  <2>2. CASE ~ByDeliver(a) /\ hand[a].result = "failed" /\ hand[a].left > 1
    <3>1. hand' = [hand EXCEPT ![a] = [hand[a] EXCEPT !.at = "try", !.number = @ + 1,
                                                      !.left = @ - 1]]
      BY <2>2 DEF Outcome
    <3>2. mine = [hand[a] EXCEPT !.at = "try", !.number = @ + 1, !.left = @ - 1]
      BY <3>1 DEF TypeOK
    <3>3. hand[a] \in Hand /\ hand[a].left - 1 \in 0..FirstTries /\ hand[a].number + 1 \in Nat
      BY <2>2, TriesAssumption DEF TypeOK, Hand
    <3>4. mine \in Hand /\ mine.todo = hand[a].todo /\ mine.at = "try" /\ mine.msg = m
          /\ mine.number = hand[a].number + 1
      BY <3>2, <3>3 DEF Hand
    <3>5. hand' = [hand EXCEPT ![a] = mine]
      BY <3>1, <3>2
    <3> QED
      BY <2>2, <3>4, <3>5
  <2>3. CASE ~ByDeliver(a) /\ ~(hand[a].result = "failed" /\ hand[a].left > 1)
    <3>1. Ends(a)
      BY <2>3 DEF Outcome
    <3>2. mine = IF hand[a].todo = {} THEN Idle ELSE Sweeping(hand[a].todo)
      BY <3>1 DEF Ends, TypeOK
    <3>3. mine \in Hand
      BY <3>2, TriesAssumption DEF TypeOK, Hand, Idle, Sweeping
    <3>4. mine.todo = hand[a].todo /\ mine.at \in {"idle", "next"}
      BY <3>2 DEF Idle, Sweeping
    <3>5. hand' = [hand EXCEPT ![a] = mine]
      BY <3>1, <3>2 DEF Ends
    <3> QED
      BY <2>3, <3>3, <3>4, <3>5
  <2> QED
    BY <2>1, <2>2, <2>3
<1> HIDE DEF mine
<1>5. TypeOK'
  BY <1>1, <1>2, <1>4 DEF TypeOK
<1>6. \A b \in Actors : hand'[b] = IF b = a THEN mine ELSE hand[b]
  BY <1>4 DEF TypeOK
<1>7. \A b \in Actors : b # a => ~WorksOn(b, m)
  BY <1>2 DEF OneAtAMessage
<1>8. HandsAreCurrent'
  <2> SUFFICES ASSUME NEW b \in Actors PROVE HandIsCurrent(b)'
    BY DEF HandsAreCurrent
  <2>1. CASE b = a
    <3> USE <1>1, <1>2, <1>3, <1>6, <2>1 DEF HandsAreCurrent, HandIsCurrent, Working, ByDeliver
    <3>1. CASE mine.at = "record"
      BY <1>4, <3>1 DEF TypeOK
    <3>2. CASE mine.at = "try"
      BY <1>4, <3>2 DEF TypeOK, Actors
    <3>3. CASE mine.at \in {"idle", "next"}
      BY <1>4, <3>3
    <3> QED
      BY <1>4, <3>1, <3>2, <3>3
  <2>2. CASE b # a
    <3>1. hand'[b] = hand[b] /\ (hand[b].at \in Working => hand[b].msg # m)
      BY <1>6, <1>7, <2>2 DEF WorksOn
    <3> QED
      BY <1>1, <1>3, <3>1 DEF HandsAreCurrent, HandIsCurrent
  <2> QED
    BY <2>1, <2>2
<1>9. \A b \in Actors, n \in Messages : WorksOn(b, n)' => WorksOn(b, n)
  BY <1>2, <1>4, <1>6 DEF WorksOn, Working
<1>10. OneAtAMessage'
  BY <1>9 DEF OneAtAMessage
<1>11. TodoWaits'
  <2> SUFFICES ASSUME NEW b \in Actors, NEW n \in hand'[b].todo
               PROVE  n \in Waiting' /\ \A c \in Actors : ~WorksOn(c, n)'
    BY DEF TodoWaits
  <2>1. n \in Waiting /\ n \in Messages /\ \A c \in Actors : ~WorksOn(c, n)
    BY <1>4, <1>6 DEF TodoWaits, Waiting
  <2>2. n # m
    BY <1>2, <2>1
  <2> QED
    BY <1>1, <1>3, <1>9, <2>1, <2>2 DEF Waiting
<1>12. AbsentIsNew'
  BY <1>1, <1>2, <1>3 DEF AbsentIsNew
<1>13. /\ Recording(m)' <=> ByDeliver(a)
       /\ ~Recording(m) /\ Tried(m) /\ ~Tried(m)'
       /\ \A n \in Messages : n # m => Recording(n)' = Recording(n) /\ Tried(n)' = Tried(n)
  <2>1. \A b \in Actors : b # a => hand'[b] = hand[b] /\ ~(hand[b].at \in Working /\ hand[b].msg = m)
    BY <1>6, <1>7 DEF WorksOn
  <2>2. Recording(m)' <=> ByDeliver(a)
    <3>1. Recording(m)' => hand'[a].at = "record"
      BY <1>6, <2>1 DEF Recording, Working
    <3>2. hand'[a].at = "record" /\ hand'[a].msg = m => Recording(m)'
      BY DEF Recording
    <3> QED
      BY <1>4, <1>6, <3>1, <3>2
  <2>3. ~Recording(m) /\ Tried(m) /\ ~Tried(m)'
    BY <1>1, <1>4, <1>6, <2>1 DEF Recording, Tried, Working
  <2>4. \A n \in Messages : n # m => Recording(n)' = Recording(n) /\ Tried(n)' = Tried(n)
    BY <1>1, <1>4, <1>6 DEF Recording, Tried
  <2> QED
    BY <2>2, <2>3, <2>4
<1>14. m \notin Direct => ByDeliver(a)
  BY DEF ByDeliver
<1>15. RowsAreCounted'
  <2> SUFFICES ASSUME NEW n \in Messages
               PROVE  /\ n \in Direct => rows[n] = {}
                      /\ \A row \in rows[n] :
                           /\ row.number \in 1..attempts'[n]
                           /\ row.due => row.number < MaxAttempts
                           /\ Recording(n)' => row.number < attempts'[n]
                      /\ rows[n] # {} => \E row \in rows[n] :
                           attempts'[n] <= row.number + Unrecorded(n) + IF Recording(n)' THEN 1 ELSE 0
    BY <1>1 DEF RowsAreCounted
  <2>1. CASE n # m
    BY <1>3, <1>13, <2>1 DEF RowsAreCounted
  <2>2. CASE n = m /\ m \in Direct
    BY <2>2 DEF RowsAreCounted
  <2>3. CASE n = m /\ m \notin Direct
    <3>1. attempts'[m] = attempts[m] + 1 /\ Recording(m)' /\ ~Recording(m)
      BY <1>2, <1>3, <1>13, <1>14, <2>3
    <3>2. \A row \in rows[m] :
            /\ row.number \in 1..attempts'[m]
            /\ row.due => row.number < MaxAttempts
            /\ row.number < attempts'[m]
      BY <1>2, <3>1 DEF RowsAreCounted
    <3>3. ASSUME rows[m] # {}
          PROVE  \E row \in rows[m] : attempts'[m] <= row.number + Unrecorded(m) + 1
      <4>1. PICK row \in rows[m] : attempts[m] <= row.number + Unrecorded(m) + 0
        BY <1>2, <3>1, <3>3 DEF RowsAreCounted
      <4>2. row.number \in Int /\ crashes \in Int
        BY <1>2, <4>1 DEF TypeOK
      <4> QED
        BY <1>2, <3>1, <4>1, <4>2
    <3> QED
      BY <2>3, <3>1, <3>2, <3>3
  <2> QED
    BY <2>1, <2>2, <2>3
<1>16. NothingIsMissing'
  <2> SUFFICES ASSUME NEW n \in Messages, n \notin struck
               PROVE  /\ n \notin Direct => \A k \in 1..attempts'[n] :
                           (\E row \in rows[n] : row.number = k) \/ (k = attempts'[n] /\ Recording(n)')
                      /\ accepted[n] <= IF Tried(n)' THEN attempts'[n] + 1 ELSE attempts'[n]
    BY <1>1 DEF NothingIsMissing
  <2>1. CASE n # m
    BY <1>3, <1>13, <2>1 DEF NothingIsMissing
  <2>2. CASE n = m
    <3>1. accepted[m] <= attempts[m] + 1
      BY <1>2, <1>13, <2>2 DEF NothingIsMissing
    <3>2. m \notin Direct => \A k \in 1..attempts[m] : \E row \in rows[m] : row.number = k
      BY <1>2, <1>13, <2>2 DEF NothingIsMissing
    <3> QED
      BY <1>2, <1>3, <1>13, <1>14, <2>2, <3>1, <3>2
  <2> QED
    BY <2>1, <2>2
<1> QED
  BY <1>5, <1>8, <1>10, <1>11, <1>12, <1>15, <1>16

(* The row of the attempt is the first with its number, and the last.          *)
LEMMA RecordAttemptInv ==
  ASSUME DeliveryInv, NEW a \in Actors, RecordAttempt(a)
  PROVE  DeliveryInv'
<1> USE DEF DeliveryInv, Unrecorded
<1> PICK m : m = hand[a].msg
  OBVIOUS
<1> DEFINE own == [number |-> hand[a].number,
                   due |-> hand[a].result = "failed" /\ hand[a].number < MaxAttempts]
           mine == IF hand[a].todo = {} THEN Idle ELSE Sweeping(hand[a].todo)
<1>1. /\ hand[a].at = "record"
      /\ status' = status /\ attempts' = attempts /\ accepted' = accepted /\ crashes' = crashes /\ struck' = struck
  BY DEF RecordAttempt
<1>2. /\ m \in Messages /\ m \notin Direct /\ status[m] # "absent" /\ WorksOn(a, m)
      /\ hand[a].number = attempts[m] /\ attempts[m] \in Nat \ {0}
      /\ hand[a].number <= MaxAttempts + Unrecorded(m)
  BY <1>1 DEF HandsAreCurrent, HandIsCurrent, WorksOn, Working, TypeOK
<1>3. Recording(m) /\ \A row \in rows[m] : row.number < attempts[m]
  BY <1>1, <1>2 DEF Recording, RowsAreCounted
<1>4. ~\E other \in rows[m] : other.number = own.number
  BY <1>2, <1>3 DEF TypeOK
<1>5. rows' = [rows EXCEPT ![m] = @ \cup {own}] /\ hand' = [hand EXCEPT ![a] = mine]
  BY <1>4 DEF RecordAttempt, Ends
<1>6. mine \in Hand /\ mine.todo = hand[a].todo /\ mine.at \in {"idle", "next"}
  <2>1. hand[a].todo \in SUBSET Messages
    BY DEF TypeOK, Hand
  <2> QED
    BY <2>1, TriesAssumption DEF Hand, Idle, Sweeping
<1>7. /\ own \in [number : 1..(MaxAttempts + MaxCrashes), due : BOOLEAN]
      /\ own.number = attempts[m] /\ (own.due => own.number < MaxAttempts)
  <2>1. hand[a].number \in 1..(MaxAttempts + MaxCrashes)
    BY <1>2, TriesAssumption, CrashAssumption DEF TypeOK
  <2>2. (hand[a].result = "failed" /\ hand[a].number < MaxAttempts) \in BOOLEAN
    OBVIOUS
  <2> QED
    BY <1>2, <2>1, <2>2
<1> HIDE DEF mine, own
<1>8. TypeOK'
  BY <1>1, <1>2, <1>5, <1>6, <1>7 DEF TypeOK
<1>9. /\ \A b \in Actors : hand'[b] = IF b = a THEN mine ELSE hand[b]
      /\ \A n \in Messages : rows'[n] = IF n = m THEN rows[m] \cup {own} ELSE rows[n]
  BY <1>5 DEF TypeOK
<1>10. \A b \in Actors : b # a => ~WorksOn(b, m)
  BY <1>2 DEF OneAtAMessage
<1>11. HandsAreCurrent'
  <2> SUFFICES ASSUME NEW b \in Actors PROVE HandIsCurrent(b)'
    BY DEF HandsAreCurrent
  <2>1. CASE b = a
    BY <1>6, <1>9, <2>1 DEF HandsAreCurrent, HandIsCurrent, Working
  <2>2. CASE b # a
    <3>1. hand'[b] = hand[b] /\ (hand[b].at \in Working => hand[b].msg # m)
      BY <1>9, <1>10, <2>2 DEF WorksOn
    <3> QED
      BY <1>1, <1>9, <3>1 DEF HandsAreCurrent, HandIsCurrent
  <2> QED
    BY <2>1, <2>2
<1>12. \A b \in Actors, n \in Messages : WorksOn(b, n)' => WorksOn(b, n)
  BY <1>6, <1>9 DEF WorksOn, Working
<1>13. OneAtAMessage'
  BY <1>12 DEF OneAtAMessage
<1>14. TodoWaits'
  <2> SUFFICES ASSUME NEW b \in Actors, NEW n \in hand'[b].todo
               PROVE  n \in Waiting' /\ \A c \in Actors : ~WorksOn(c, n)'
    BY DEF TodoWaits
  <2>1. n \in Waiting /\ n \in Messages /\ \A c \in Actors : ~WorksOn(c, n)
    BY <1>6, <1>9 DEF TodoWaits, Waiting
  <2>2. n # m
    BY <1>2, <2>1
  <2> QED
    BY <1>1, <1>9, <1>12, <2>1, <2>2 DEF Waiting
<1>15. AbsentIsNew'
  BY <1>1, <1>2, <1>9 DEF AbsentIsNew
<1>16. /\ ~Recording(m)'
       /\ \A n \in Messages : n # m => Recording(n)' = Recording(n)
       /\ \A n \in Messages : Tried(n)' = Tried(n)
  <2>1. ~Recording(m)'
    BY <1>6, <1>9, <1>10 DEF Recording, WorksOn, Working
  <2>2. \A n \in Messages : n # m => Recording(n)' = Recording(n)
    BY <1>6, <1>9 DEF Recording
  <2>3. \A n \in Messages : Tried(n)' = Tried(n)
    BY <1>1, <1>6, <1>9 DEF Tried
  <2> QED
    BY <2>1, <2>2, <2>3
<1>17. RowsAreCounted'
  <2> SUFFICES ASSUME NEW n \in Messages
               PROVE  /\ n \in Direct => rows'[n] = {}
                      /\ \A row \in rows'[n] :
                           /\ row.number \in 1..attempts[n]
                           /\ row.due => row.number < MaxAttempts
                           /\ Recording(n)' => row.number < attempts[n]
                      /\ rows'[n] # {} => \E row \in rows'[n] :
                           attempts[n] <= row.number + Unrecorded(n) + IF Recording(n)' THEN 1 ELSE 0
    BY <1>1 DEF RowsAreCounted
  <2>1. CASE n # m
    BY <1>9, <1>16, <2>1 DEF RowsAreCounted
  <2>2. CASE n = m
    <3>1. \A row \in rows'[m] : /\ row.number \in 1..attempts[m]
                                /\ row.due => row.number < MaxAttempts
      BY <1>2, <1>7, <1>9 DEF RowsAreCounted
    <3>2. attempts[m] <= own.number + Unrecorded(m) + 0 /\ own \in rows'[m]
      BY <1>2, <1>7, <1>9 DEF TypeOK
    <3> QED
      BY <1>2, <1>16, <2>2, <3>1, <3>2
  <2> QED
    BY <2>1, <2>2
<1>18. NothingIsMissing'
  <2> SUFFICES ASSUME NEW n \in Messages, n \notin struck
               PROVE  /\ n \notin Direct => \A k \in 1..attempts[n] :
                           (\E row \in rows'[n] : row.number = k) \/ (k = attempts[n] /\ Recording(n)')
                      /\ accepted[n] <= IF Tried(n)' THEN attempts[n] + 1 ELSE attempts[n]
    BY <1>1 DEF NothingIsMissing
  <2>1. CASE n # m
    BY <1>9, <1>16, <2>1 DEF NothingIsMissing
  <2>2. CASE n = m
    BY <1>2, <1>7, <1>9, <1>16, <2>2 DEF NothingIsMissing
  <2> QED
    BY <2>1, <2>2
<1> QED
  BY <1>8, <1>11, <1>13, <1>14, <1>15, <1>17, <1>18

(* What a process that dies leaves unrecorded is one attempt.                  *)
LEMMA CrashInv ==
  ASSUME DeliveryInv, NEW a \in Actors, Crash(a)
  PROVE  DeliveryInv'
<1> USE DEF DeliveryInv, Unrecorded
<1>1. /\ hand' = [hand EXCEPT ![a] = Idle] /\ crashes' = crashes + 1 /\ crashes < MaxCrashes
      /\ struck' = struck \cup {n \in Messages : hand[a].msg = n}
      /\ status' = status /\ attempts' = attempts /\ rows' = rows /\ accepted' = accepted
  BY DEF Crash
<1>2. Idle \in Hand /\ Idle.at = "idle" /\ Idle.todo = {}
  BY TriesAssumption DEF Hand, Idle
<1>3. crashes \in Nat /\ crashes' = crashes + 1 /\ crashes' \in 0..MaxCrashes
  BY <1>1, CrashAssumption DEF TypeOK
<1>4. struck' \subseteq Messages /\ \A n \in Messages \ struck' : n \notin struck /\ hand[a].msg # n
  BY <1>1 DEF TypeOK
<1>5. TypeOK'
  BY <1>1, <1>2, <1>3, <1>4 DEF TypeOK
<1>6. \A n \in Messages : /\ Unrecorded(n) \in Nat /\ Unrecorded(n)' \in Nat
                          /\ Unrecorded(n)' = IF n \in struck' THEN crashes + 1 ELSE Unrecorded(n)
                          /\ Unrecorded(n) <= crashes
  BY <1>3, <1>4
<1> HIDE DEF Unrecorded
<1>7. \A b \in Actors : hand'[b] = IF b = a THEN Idle ELSE hand[b]
  BY <1>1 DEF TypeOK
<1>8. HandsAreCurrent'
  <2> SUFFICES ASSUME NEW b \in Actors PROVE HandIsCurrent(b)'
    BY DEF HandsAreCurrent
  <2>1. CASE b = a
    BY <1>2, <1>7, <2>1 DEF HandIsCurrent, Working
  <2>2. CASE b # a
    <3>1. hand[b].number \in Nat
      BY DEF TypeOK, Hand
    <3> QED
      BY <1>1, <1>3, <1>6, <1>7, <2>2, <3>1, TriesAssumption DEF HandsAreCurrent, HandIsCurrent
  <2> QED
    BY <2>1, <2>2
<1>9. \A b \in Actors, n \in Messages : WorksOn(b, n)' => WorksOn(b, n)
  BY <1>2, <1>7 DEF WorksOn, Working
<1>10. OneAtAMessage'
  BY <1>9 DEF OneAtAMessage
<1>11. TodoWaits'
  <2> SUFFICES ASSUME NEW b \in Actors, NEW n \in hand'[b].todo
               PROVE  n \in Waiting' /\ \A c \in Actors : ~WorksOn(c, n)'
    BY DEF TodoWaits
  <2>1. n \in Waiting /\ n \in Messages /\ \A c \in Actors : ~WorksOn(c, n)
    BY <1>2, <1>7 DEF TodoWaits, Waiting
  <2> QED
    BY <1>1, <1>9, <2>1 DEF Waiting
<1>12. AbsentIsNew'
  BY <1>1 DEF AbsentIsNew
<1>13. \A n \in Messages : Recording(n)' => Recording(n)
  BY <1>2, <1>7 DEF Recording
<1>14. RowsAreCounted'
  <2> SUFFICES ASSUME NEW n \in Messages, rows[n] # {}
               PROVE  \E row \in rows[n] :
                        attempts[n] <= row.number + Unrecorded(n)' + IF Recording(n)' THEN 1 ELSE 0
    BY <1>1, <1>13 DEF RowsAreCounted
  <2>1. PICK row \in rows[n] :
          attempts[n] <= row.number + Unrecorded(n) + IF Recording(n) THEN 1 ELSE 0
    BY DEF RowsAreCounted
  <2>2. row.number \in Int /\ attempts[n] \in Int
    BY <2>1 DEF TypeOK
  <2>3. CASE n \in struck'
    <3>1. attempts[n] <= row.number + Unrecorded(n)' + 0
      BY <1>3, <1>6, <2>1, <2>2, <2>3
    <3> QED
      BY <1>6, <2>2, <3>1
  <2>4. CASE n \notin struck'
    <3>1. Recording(n)' = Recording(n) /\ Unrecorded(n)' = Unrecorded(n)
      BY <1>2, <1>4, <1>6, <1>7, <2>4 DEF Recording
    <3> QED
      BY <2>1, <3>1
  <2> QED
    BY <2>3, <2>4
<1>15. NothingIsMissing'
  <2> SUFFICES ASSUME NEW n \in Messages, n \notin struck'
               PROVE  /\ n \notin Direct => \A k \in 1..attempts[n] :
                           (\E row \in rows[n] : row.number = k) \/ (k = attempts[n] /\ Recording(n)')
                      /\ accepted[n] <= IF Tried(n)' THEN attempts[n] + 1 ELSE attempts[n]
    BY <1>1 DEF NothingIsMissing
  <2>1. n \notin struck /\ hand[a].msg # n
    BY <1>4
  <2>2. Recording(n)' = Recording(n) /\ Tried(n)' = Tried(n)
    BY <1>2, <1>7, <2>1 DEF Recording, Tried
  <2> QED
    BY <2>1, <2>2 DEF NothingIsMissing
<1> QED
  BY <1>5, <1>8, <1>10, <1>11, <1>12, <1>14, <1>15

LEMMA DeliveryNext == ASSUME OneSweep, DeliveryInv, [Next]_vars PROVE DeliveryInv'
<1>1. ASSUME NEW a \in Actors, NEW m \in Messages, StartSend(a, m) PROVE DeliveryInv'
  BY <1>1, StartSendInv
<1>2. ASSUME NEW a \in Actors, NEW due \in SUBSET Messages, StartSweep(a, due) PROVE DeliveryInv'
  BY <1>2, StartSweepInv
<1>3. ASSUME NEW a \in Actors, NEW m \in Messages, Claim(a, m) PROVE DeliveryInv'
  BY <1>3, ClaimInv
<1>4. ASSUME NEW a \in Actors, NEW taken \in BOOLEAN, NEW result \in {"sent", "failed"},
             Try(a, taken, result)
      PROVE  DeliveryInv'
  BY <1>4, TryInv
<1>5. ASSUME NEW a \in Actors, Outcome(a) PROVE DeliveryInv'
  BY <1>5, OutcomeInv
<1>6. ASSUME NEW a \in Actors, RecordAttempt(a) PROVE DeliveryInv'
  BY <1>6, RecordAttemptInv
<1>7. ASSUME NEW a \in Actors, Crash(a) PROVE DeliveryInv'
  BY <1>7, CrashInv
<1>8. ASSUME UNCHANGED vars PROVE DeliveryInv'
  BY <1>8 DEF vars, DeliveryInv, TypeOK, HandsAreCurrent, HandIsCurrent, OneAtAMessage, WorksOn,
     TodoWaits, Waiting, AbsentIsNew, RowsAreCounted, NothingIsMissing, Recording, Tried, Unrecorded
<1> QED
  BY <1>1, <1>2, <1>3, <1>4, <1>5, <1>6, <1>7, <1>8 DEF Next, Step

LEMMA DeliveryAlways == ASSUME OneSweep PROVE Spec => []DeliveryInv
<1>1. DeliveryInv /\ [Next]_vars => DeliveryInv'
  BY DeliveryNext
<1> QED
  BY <1>1, DeliveryInit, PTL DEF Spec

(* While one worker at a time sweeps, the attempt rows of delivery.py are     *)
(* attempts its deliveries count, with none missing unless a process died     *)
(* with that delivery in hand, whatever the channel answers and however many  *)
(* messages are on their way.                                                 *)
THEOREM AttemptsStayTold == ASSUME OneSweep PROVE Spec => []AttemptsAreTold
<1> QED
  BY DeliveryAlways, DeliveryInvSuffices, PTL

(* While one worker at a time sweeps, a delivery whose outcome is sent is not  *)
(* taken up again: the sweep of delivery.py works from a list that may be old, *)
(* but nobody else touches what is on it.                                      *)
THEOREM SentIsFinal == ASSUME OneSweep PROVE Spec => SentStaysSent
<1> DEFINE Final == \A m \in Messages : status[m] = "sent" => status'[m] # "sending"
<1>1. ASSUME DeliveryInv, [Next]_vars PROVE [Final]_vars
  <2> USE <1>1 DEF DeliveryInv, Unrecorded
  <2>1. ASSUME NEW a \in Actors, NEW m \in Messages, StartSend(a, m) PROVE Final
    BY <2>1 DEF StartSend, TypeOK
  <2>2. ASSUME NEW a \in Actors, NEW m \in Messages, Claim(a, m) PROVE Final
    <3>1. status[m] = "failed"
      BY <2>2 DEF Claim, TodoWaits, Waiting
    <3> QED
      BY <2>2, <3>1 DEF Claim, TypeOK
  <2>3. ASSUME NEW a \in Actors, Outcome(a) PROVE Final
    <3>1. hand[a].result # "sending"
      BY <2>3 DEF Outcome, HandsAreCurrent, HandIsCurrent
    <3> QED
      BY <2>3, <3>1 DEF Outcome, TypeOK
  <2>4. ASSUME status' = status PROVE Final
    BY <2>4
  <2> QED
    BY <2>1, <2>2, <2>3, <2>4 DEF Next, Step, StartSweep, Try, RecordAttempt, Crash, vars
<1> QED
  BY <1>1, DeliveryAlways, PTL DEF Spec, SentStaysSent

(* While one worker at a time sweeps, a delivery that used its attempts up is *)
(* not taken up again, unless a process died with it in hand (delivery.py,    *)
(* DELIVERY_MAX_ATTEMPTS).                                                    *)
THEOREM UsedUpIsFinal == ASSUME OneSweep PROVE Spec => UsedUpIsNotSent
<1> DEFINE UsedUp(m) == status[m] = "failed" /\ attempts[m] >= MaxAttempts /\ m \notin struck
           Final == \A m \in Messages : UsedUp(m) => status'[m] # "sending"
<1>1. ASSUME DeliveryInv, [Next]_vars PROVE [Final]_vars
  <2> USE <1>1 DEF DeliveryInv, Unrecorded
  <2>1. ASSUME NEW a \in Actors, NEW m \in Messages, StartSend(a, m) PROVE Final
    BY <2>1 DEF StartSend, TypeOK
  <2>2. ASSUME NEW a \in Actors, NEW m \in Messages, Claim(a, m) PROVE Final
    <3>1. m \in Waiting /\ \A b \in Actors : ~WorksOn(b, m)
      BY <2>2 DEF Claim, TodoWaits
    <3>2. attempts[m] + 1 <= MaxAttempts + Unrecorded(m)
      BY <3>1, ShortOfTheLimit
    <3>3. ~UsedUp(m)
      BY <3>2, TriesAssumption DEF TypeOK
    <3> QED
      BY <2>2, <3>3 DEF Claim, TypeOK
  <2>3. ASSUME NEW a \in Actors, Outcome(a) PROVE Final
    <3>1. hand[a].result # "sending"
      BY <2>3 DEF Outcome, HandsAreCurrent, HandIsCurrent
    <3> QED
      BY <2>3, <3>1 DEF Outcome, TypeOK
  <2>4. ASSUME status' = status PROVE Final
    BY <2>4
  <2> QED
    BY <2>1, <2>2, <2>3, <2>4 DEF Next, Step, StartSweep, Try, RecordAttempt, Crash, vars
<1> QED
  BY <1>1, DeliveryAlways, PTL DEF Spec, UsedUpIsNotSent
===============================================================================
