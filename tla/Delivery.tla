------------------------------- MODULE Delivery -------------------------------
(* Notifications out (send_outbound in app/integrations.py, app/delivery.py): *)
(* a delivery row is committed before the message is handed to the channel    *)
(* and again with the outcome; deliver() adds a row per attempt, with the     *)
(* instant of the next one; the scheduled sweep takes up what is due.         *)
(*                                                                            *)
(* Dunning and the reports call send_outbound themselves (the Direct          *)
(* messages), which tries three times in the request and writes no attempt    *)
(* rows; deliver() itself sends the others.  Instants are not kept: a sweep   *)
(* finds any part of what waits for one.                                      *)
EXTENDS Integers, FiniteSets

CONSTANTS
  Messages,
  Senders,      \* requests that send
  Sweeps,       \* workers that run retry_outbound_deliveries
  Direct,       \* the messages whose first send is not made by deliver()
  FirstTries,   \* DEFAULT_ATTEMPTS of send_outbound
  MaxAttempts,  \* DELIVERY_MAX_ATTEMPTS
  MaxCrashes    \* requests and workers that die (a bound, not code)

ASSUME DirectAssumption == Direct \subseteq Messages
ASSUME TriesAssumption == FirstTries \in Nat \ {0} /\ MaxAttempts \in Nat \ {0}
ASSUME CrashAssumption == MaxCrashes \in Nat
ASSUME ActorAssumption == Senders \cap Sweeps = {}

VARIABLES
  status,    \* status[m]: OutboundDelivery.status, or absent
  attempts,  \* attempts[m]: OutboundDelivery.attempts
  rows,      \* rows[m]: the DeliveryAttempt rows of m: number and whether a next is due
  accepted,  \* accepted[m]: how often the channel took m
  hand,      \* hand[a]: what actor a is doing
  crashes,   \* how many processes died
  struck     \* the messages one died with in hand (history)

vars == <<status, attempts, rows, accepted, hand, crashes, struck>>

None == "none"
Actors == Senders \cup Sweeps

(* left: tries left in this call; number: the number of the attempt.          *)
Idle == [at |-> "idle", msg |-> None, number |-> 0, left |-> 0, result |-> None, todo |-> {}]
Sweeping(todo) ==
  [at |-> "next", msg |-> None, number |-> 0, left |-> 0, result |-> None, todo |-> todo]
Trying(m, number, left, todo) ==
  [at |-> "try", msg |-> m, number |-> number, left |-> left, result |-> None, todo |-> todo]

Init ==
  /\ status = [m \in Messages |-> "absent"]
  /\ attempts = [m \in Messages |-> 0]
  /\ rows = [m \in Messages |-> {}]
  /\ accepted = [m \in Messages |-> 0]
  /\ hand = [a \in Actors |-> Idle]
  /\ crashes = 0
  /\ struck = {}

(* Mutant of Waiting: the status of the delivery is left to the rows.         *)
MutRowsOnly ==
  {m \in Messages :
     \E row \in rows[m] : row.due /\ \A other \in rows[m] : other.number <= row.number}

(* due_deliveries: failed, and the latest attempt row says when to try again. *)
Waiting ==
  {m \in Messages :
     /\ status[m] = "failed"
     /\ \E row \in rows[m] : row.due /\ \A other \in rows[m] : other.number <= row.number}

(* The call is over; a sweep goes on with the next delivery.                  *)
Ends(a) ==
  hand' = [hand EXCEPT ![a] = IF hand[a].todo = {} THEN Idle ELSE Sweeping(hand[a].todo)]

(* A new delivery: its row is committed before the first try.                 *)
StartSend(a, m) ==
  /\ a \in Senders
  /\ hand[a] = Idle
  /\ status[m] = "absent"
  /\ status' = [status EXCEPT ![m] = "sending"]
  /\ hand' = [hand EXCEPT ![a] = Trying(m, 1, IF m \in Direct THEN FirstTries ELSE 1, {})]
  /\ UNCHANGED <<attempts, rows, accepted, crashes, struck>>

(* The sweep reads what is due, once.                                         *)
StartSweep(a, due) ==
  /\ a \in Sweeps
  /\ hand[a] = Idle
  /\ due # {}
  /\ due \subseteq Waiting
  /\ hand' = [hand EXCEPT ![a] = Sweeping(due)]
  /\ UNCHANGED <<status, attempts, rows, accepted, crashes, struck>>

(* A delivery of the sweep is continued: sending again, one try, numbered     *)
(* from the count as the row has it now.                                      *)
Claim(a, m) ==
  /\ hand[a].at = "next"
  /\ m \in hand[a].todo
  /\ status' = [status EXCEPT ![m] = "sending"]
  /\ hand' = [hand EXCEPT ![a] = Trying(m, attempts[m] + 1, 1, hand[a].todo \ {m})]
  /\ UNCHANGED <<attempts, rows, accepted, crashes, struck>>

(* The channel takes the message or not; what it took may still look failed.  *)
Try(a, taken, result) ==
  /\ hand[a].at = "try"
  /\ result = "sent" => taken
  /\ accepted' = IF taken THEN [accepted EXCEPT ![hand[a].msg] = @ + 1] ELSE accepted
  /\ hand' = [hand EXCEPT ![a].at = "tried", ![a].result = result]
  /\ UNCHANGED <<status, attempts, rows, crashes, struck>>

ByDeliver(a) == a \in Sweeps \/ hand[a].msg \notin Direct

(* Mutant of Outcome: a retry starts the count of the delivery over.          *)
MutRestart(a) ==
  LET m == hand[a].msg IN
  /\ hand[a].at = "tried"
  /\ status' = [status EXCEPT ![m] = hand[a].result]
  /\ attempts' = [attempts EXCEPT ![m] = 1]
  /\ hand' = [hand EXCEPT ![a].at = "record"]
  /\ UNCHANGED <<rows, accepted, crashes, struck>>

(* The outcome is committed on the delivery row; without deliver(), a failed  *)
(* try is followed by the next one at once.                                   *)
Outcome(a) ==
  LET m == hand[a].msg IN
  /\ hand[a].at = "tried"
  /\ status' = [status EXCEPT ![m] = hand[a].result]
  /\ attempts' = [attempts EXCEPT ![m] = hand[a].number]
  /\ CASE ByDeliver(a) -> hand' = [hand EXCEPT ![a].at = "record"]
       [] ~ByDeliver(a) /\ hand[a].result = "failed" /\ hand[a].left > 1 ->
            hand' = [hand EXCEPT ![a].at = "try", ![a].number = @ + 1, ![a].left = @ - 1]
       [] OTHER -> Ends(a)
  /\ UNCHANGED <<rows, accepted, crashes, struck>>

(* Mutant of RecordAttempt: the last attempt but one has no next one.         *)
MutOneLess(a) ==
  LET m == hand[a].msg
      row == [number |-> hand[a].number,
              due |-> hand[a].result = "failed" /\ hand[a].number < MaxAttempts - 1]
  IN
  /\ hand[a].at = "record"
  /\ rows' = [rows EXCEPT ![m] = @ \cup {row}]
  /\ Ends(a)
  /\ UNCHANGED <<status, attempts, accepted, crashes, struck>>

(* deliver's record(): the row of the attempt, in a commit of its own.  Its   *)
(* number is unique in the delivery: a second one aborts the whole sweep.     *)
RecordAttempt(a) ==
  LET m == hand[a].msg
      row == [number |-> hand[a].number,
              due |-> hand[a].result = "failed" /\ hand[a].number < MaxAttempts]
  IN
  /\ hand[a].at = "record"
  /\ IF \E other \in rows[m] : other.number = row.number
     THEN hand' = [hand EXCEPT ![a] = Idle] /\ UNCHANGED rows
     ELSE rows' = [rows EXCEPT ![m] = @ \cup {row}] /\ Ends(a)
  /\ UNCHANGED <<status, attempts, accepted, crashes, struck>>

(* The process dies, with a message in hand or between two of a sweep.        *)
Crash(a) ==
  /\ hand[a] # Idle
  /\ crashes < MaxCrashes
  /\ hand' = [hand EXCEPT ![a] = Idle]
  /\ crashes' = crashes + 1
  /\ struck' = struck \cup {m \in Messages : hand[a].msg = m}
  /\ UNCHANGED <<status, attempts, rows, accepted>>

Step(a) ==
  \/ \E m \in Messages : Claim(a, m)
  \/ \E taken \in BOOLEAN, result \in {"sent", "failed"} : Try(a, taken, result)
  \/ Outcome(a)
  \/ RecordAttempt(a)

Next ==
  \E a \in Actors :
    \/ \E m \in Messages : StartSend(a, m)
    \/ \E due \in SUBSET Messages : StartSweep(a, due)
    \/ Step(a)
    \/ Crash(a)

Spec == Init /\ [][Next]_vars

(* Requests and sweeps end (the channel answers or times out), and the clock  *)
(* starts a sweep for what stays due.                                         *)
FairSpec ==
  /\ Spec
  /\ \A a \in Actors : WF_vars(Step(a))
  /\ \A a \in Sweeps : WF_vars(StartSweep(a, Waiting))

(* -------------------------------- properties ------------------------------ *)

Hand == [at : {"idle", "next", "try", "tried", "record"}, msg : Messages \cup {None},
         number : Nat, left : 0..FirstTries, result : {"sent", "failed", None},
         todo : SUBSET Messages]

TypeOK ==
  /\ status \in [Messages -> {"absent", "sending", "sent", "failed"}]
  /\ attempts \in [Messages -> Nat]
  /\ rows \in [Messages -> SUBSET [number : 1..(MaxAttempts + MaxCrashes), due : BOOLEAN]]
  /\ accepted \in [Messages -> Nat]
  /\ hand \in [Actors -> Hand]
  /\ crashes \in 0..MaxCrashes
  /\ struck \subseteq Messages

Handling(m) == \E a \in Actors : hand[a].msg = m

(* "Attempt 3 is the third time this message was handed to the gateway":      *)
(* the rows of a delivery are attempts it counts; unless a process died with  *)
(* it in hand they are all of them, and the gateway never took it more often. *)
RowsTellAttempts ==
  \A m \in Messages :
    LET numbers == {row.number : row \in rows[m]}
    IN  /\ numbers \subseteq 1..attempts[m]
        /\ ~Handling(m) /\ m \notin struck =>
             /\ m \in Direct \/ numbers = 1..attempts[m]
             /\ accepted[m] <= attempts[m]

(* The rows keep their types and tell how often a message was tried             *)
(* (delivery.py).                                                              *)
AttemptsAreTold == TypeOK /\ RowsTellAttempts

(* "A delivery that succeeded ... is never picked": it is not sent again.     *)
SentStaysSent == [][\A m \in Messages : status[m] = "sent" => status'[m] # "sending"]_vars

(* "... or that has used its attempts up, is never picked", unless a process  *)
(* died with it in hand, before it wrote the row of the last attempt.         *)
UsedUpIsNotSent ==
  [][\A m \in Messages :
       (status[m] = "failed" /\ attempts[m] >= MaxAttempts /\ m \notin struck)
         => status'[m] # "sending"]_vars

(* "A failure is a recorded attempt and a retry, never a lost notification":  *)
(* whatever processes die, a message that deliver() sends is sent in the end  *)
(* or uses up its attempts.  Only one that a process died with in hand may be *)
(* left behind; those its sweep still had to do are taken up by the next.     *)
NoneLost ==
  \A m \in Messages \ Direct :
    status[m] = "sending" ~> (status[m] = "sent" \/ attempts[m] >= MaxAttempts \/ m \in struck)
=============================================================================
