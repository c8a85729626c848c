------------------------------- MODULE ClockFeed ------------------------------
(* The readings of a clock become punches (app/hr/biometric.py, attendance.py, *)
(* the inbound boundary of app/integrations.py).  A pull delivers what the     *)
(* clock read in a window; what cannot become a punch is parked with its reason *)
(* until somebody says whose the clock's user is.  The parked table takes in   *)
(* and out only: a pull that has any other direction to park fails as a whole. *)
(*                                                                             *)
(* Pulls and mappings read when they begin and write when they commit.  An     *)
(* instant is also the day it lies on.                                         *)
EXTENDS Integers, FiniteSets, Sequences, FiniteSetsExt, SequencesExt

CONSTANTS
  Users,      \* the clock's own user ids
  Staff,      \* employees
  Readings,   \* what the clock reads in a run: [user, at, way]
  ByHand,     \* punches people may enter: [who, at, way]
  Windows,    \* the windows pulls cover: <<first instant, last instant>>
  LastAt,     \* instants of a run (a bound, not code)
  Break,      \* minutes of the rostered break
  Sessions,   \* database sessions
  Serial      \* whether nobody is mapped while a pull is being recorded

Instants == 1..LastAt
Ways == {"in", "out"}
Nobody == "nobody"
None == "none"
Unpulled == [recorded |-> -1, duplicates |-> 0, parked |-> 0]

PunchRows == [who : Staff, at : Instants, way : Ways]
ReadingRows == [user : Users, at : Instants, way : Ways \cup {"odd"}]
ParkedRows ==
  [pull : Windows, reading : {r \in ReadingRows : r.way \in Ways}, resolved : BOOLEAN]
PullRows == [recorded : Nat, duplicates : Nat, parked : Nat]

ReadingAssumption ==
  Readings \subseteq ReadingRows /\ IsFiniteSet(Readings) /\ ByHand \subseteq PunchRows
WindowAssumption ==
  /\ Windows \subseteq {w \in Instants \X Instants : w[1] <= w[2]}
  /\ LastAt \in Nat /\ Break \in Nat /\ Serial \in BOOLEAN /\ Nobody \notin Staff

VARIABLES
  now,
  mapped,    \* mapped[u]: the employee a user of the clock is, or Nobody
  exits,     \* exits[e]: the day e left, 0 before
  punches,   \* punches[p]: rows of the punch p
  parked,    \* the parked rows
  pulls,     \* pulls[w]: what became of the readings of the window
  tx         \* tx[s]: the open request of s

vars == <<now, mapped, exits, punches, parked, pulls, tx>>

Idle == [op |-> None, window |-> <<0, 0>>, user |-> Nobody, who |-> Nobody, new |-> {},
         park |-> {}, resolve |-> {}]

Init ==
  /\ now = 0
  /\ mapped = [u \in Users |-> Nobody]
  /\ exits = [e \in Staff |-> 0]
  /\ punches = [p \in PunchRows |-> 0]
  /\ parked = {}
  /\ pulls = [w \in Windows |-> Unpulled]
  /\ tx = [s \in Sessions |-> Idle]

(* active_on: an instant of the employment.                                    *)
Active(e, at) == exits[e] = 0 \/ at < exits[e]

Punch(e, reading) == [who |-> e, at |-> reading.at, way |-> reading.way]

(* Mutant of Unique: only what the service found decides.                      *)
MutNoIndex(new) == TRUE

(* uq_attendance_event_punch: the insert of a punch that is there is refused,  *)
(* and its request with it.                                                    *)
Unique(new) == \A p \in new : punches[p] = 0

Insert(new) == punches' = [p \in PunchRows |-> punches[p] + IF p \in new THEN 1 ELSE 0]

(* One request: one session, one transaction.                                  *)
Starts(s, request) ==
  /\ tx[s] = Idle
  /\ Serial => \A t \in Sessions : tx[t].op \in {None, request.op}
  /\ tx' = [tx EXCEPT ![s] = request]
  /\ UNCHANGED <<now, mapped, exits, punches, parked, pulls>>

Ends(s, op) ==
  /\ tx[s].op = op
  /\ tx' = [tx EXCEPT ![s] = Idle]

(* record_punch by hand, with its actor and reason.                            *)
RecordPunch(p) ==
  /\ p.at <= now /\ Active(p.who, p.at) /\ Unique({p})
  /\ Insert({p})
  /\ UNCHANGED <<now, mapped, exits, parked, pulls, tx>>

(* ----------------------------------- pulls --------------------------------- *)

Delivered(w) == {r \in Readings : r.at \in w[1]..w[2]}

(* Why a reading cannot become a punch: its way, its user, who has left.       *)
Parkable(r) ==
  \/ r.way \notin Ways
  \/ mapped[r.user] = Nobody
  \/ ~Active(mapped[r.user], r.at)

PunchOf(r) == Punch(mapped[r.user], r)

(* ingest and _record: a key that was delivered or a window that was pulled    *)
(* answers with its first pull and records nothing.  A window is pulled when   *)
(* it is over.                                                                 *)
BeginPull(s, w) ==
  /\ pulls[w] = Unpulled
  /\ w[2] <= now
  /\ Starts(s, [Idle EXCEPT !.op = "pull", !.window = w,
       !.park = {r \in Delivered(w) : Parkable(r)},
       !.new = {p \in {PunchOf(r) : r \in {q \in Delivered(w) : ~Parkable(q)}} : punches[p] = 0}])

(* Mutant of Storable: the column takes any direction.                         *)
MutAnyDirection(readings) == TRUE

(* ck_parked_punch_direction: the flush of any other direction fails, and the  *)
(* pull with it.                                                               *)
Storable(readings) == \A r \in readings : r.way \in Ways

(* The counters of the pull, its parked rows and its punches are one commit;   *)
(* the unique keys of the delivery and of the window decide between two.       *)
CommitPull(s) ==
  LET t == tx[s]
      stated == Cardinality(Delivered(t.window))
  IN
  /\ Ends(s, "pull")
  /\ pulls[t.window] = Unpulled
  /\ Unique(t.new) /\ Storable(t.park)
  /\ Insert(t.new)
  /\ parked' = parked \cup {[pull |-> t.window, reading |-> r, resolved |-> FALSE] : r \in t.park}
  /\ pulls' = [pulls EXCEPT ![t.window] =
       [recorded |-> Cardinality(t.new), parked |-> Cardinality(t.park),
        duplicates |-> stated - Cardinality(t.new) - Cardinality(t.park)]]
  /\ UNCHANGED <<now, mapped, exits>>

(* ---------------------------------- mapping -------------------------------- *)

(* Mutant of TakenUp: a reading of somebody who had left is resolved as well.  *)
MutResolveAll(u, e) == {row \in parked : row.reading.user = u /\ row.reading.way \in Ways}

(* take_up_parked resolves what it records and what was recorded already.      *)
TakenUp(u, e) ==
  {row \in parked : /\ ~row.resolved /\ row.reading.user = u
                    /\ row.reading.way \in Ways /\ Active(e, row.reading.at)}

(* map_user: once, and the readings that waited for it are taken up.           *)
BeginMap(s, u, e) ==
  /\ mapped[u] = Nobody
  /\ Starts(s, [Idle EXCEPT !.op = "map", !.user = u, !.who = e, !.resolve = TakenUp(u, e),
       !.new = {p \in {Punch(e, row.reading) : row \in TakenUp(u, e)} :
                  punches[p] = 0 /\ Active(e, p.at)}])

CommitMap(s) ==
  LET t == tx[s] IN
  /\ Ends(s, "map")
  /\ mapped[t.user] = Nobody
  /\ Unique(t.new)
  /\ mapped' = [mapped EXCEPT ![t.user] = t.who]
  /\ Insert(t.new)
  /\ parked' = (parked \ t.resolve) \cup {[row EXCEPT !.resolved = TRUE] : row \in t.resolve}
  /\ UNCHANGED <<now, exits, pulls>>

(* ----------------------------------- hours --------------------------------- *)

(* punches_on: by instant, and an in before an out of the same instant.        *)
Before(p, q) == p.at < q.at \/ (p.at = q.at /\ p.way = "in" /\ q.way = "out")
PunchesOf(e) ==
  LET rows == {p \in PunchRows : p.who = e /\ punches[p] > 0}
  IN [k \in 1..Cardinality(rows) |->
        CHOOSE p \in rows : Cardinality({q \in rows : Before(q, p)}) = k - 1]

(* Mutant of PairUp: a second in does not take the place of the first.         *)
MutKeepFirst(day, p) ==
  CASE day.open = 0 /\ p.way = "out" -> [day EXCEPT !.unmatched = @ + 1]
    [] day.open = 0 /\ p.way = "in" -> [day EXCEPT !.open = p.at]
    [] day.open # 0 /\ p.way = "in" -> [day EXCEPT !.unmatched = @ + 1]
    [] OTHER -> [day EXCEPT !.open = 0, !.pairs = @ + 1, !.minutes = @ + p.at - day.open]

(* One turn of attendance_day.                                                 *)
PairUp(day, p) ==
  CASE day.open = 0 /\ p.way = "out" -> [day EXCEPT !.unmatched = @ + 1]
    [] day.open = 0 /\ p.way = "in" -> [day EXCEPT !.open = p.at]
    [] day.open # 0 /\ p.way = "in" -> [day EXCEPT !.open = p.at, !.unmatched = @ + 1]
    [] OTHER -> [day EXCEPT !.open = 0, !.pairs = @ + 1, !.minutes = @ + p.at - day.open]

Paired(e) ==
  FoldLeft(PairUp, [open |-> 0, pairs |-> 0, minutes |-> 0, unmatched |-> 0], PunchesOf(e))

(* The break is deducted once, and never more than was worked.                 *)
Worked(e) == Paired(e).minutes - Min({Break, Paired(e).minutes})

(* ------------------------------------ runs --------------------------------- *)

Leave(e) ==
  /\ exits[e] = 0 /\ now > 0
  /\ exits' = [exits EXCEPT ![e] = now]
  /\ UNCHANGED <<now, mapped, punches, parked, pulls, tx>>

Abort(s) ==
  /\ tx[s] # Idle
  /\ tx' = [tx EXCEPT ![s] = Idle]
  /\ UNCHANGED <<now, mapped, exits, punches, parked, pulls>>

Tick ==
  /\ now < LastAt
  /\ now' = now + 1
  /\ UNCHANGED <<mapped, exits, punches, parked, pulls, tx>>

Next ==
  \/ \E s \in Sessions :
       \/ \E w \in Windows : BeginPull(s, w)
       \/ CommitPull(s)
       \/ \E u \in Users, e \in Staff : BeginMap(s, u, e)
       \/ CommitMap(s)
       \/ Abort(s)
  \/ \E p \in ByHand : RecordPunch(p)
  \/ \E e \in Staff : Leave(e)
  \/ Tick

Spec == Init /\ [][Next]_vars

(* -------------------------------- properties ------------------------------- *)

(* The punch, parked, pull and mapping rows.                                   *)
TypeOK ==
  /\ now \in 0..LastAt
  /\ mapped \in [Users -> Staff \cup {Nobody}]
  /\ exits \in [Staff -> 0..LastAt]
  /\ punches \in [PunchRows -> Nat]
  /\ parked \subseteq ParkedRows
  /\ pulls \in [Windows -> PullRows \cup {Unpulled}]
  /\ \A s \in Sessions : tx[s].new \subseteq PunchRows

(* "A punch cannot be counted twice" (attendance.py): however often windows    *)
(* that overlap deliver it, it is taken up or a person enters it.              *)
CountedOnce == \A p \in PunchRows : punches[p] <= 1

(* "Nothing is refused into silence" (biometric.py) holds of a pull that is    *)
(* recorded: each of its readings is a punch of somebody, or is parked and not *)
(* yet resolved.  A pull with a direction that cannot be parked is not         *)
(* recorded, whatever else it delivers.                                        *)
NothingLost ==
  \A w \in Windows : pulls[w] # Unpulled => \A r \in Delivered(w) :
    \/ r.way \in Ways /\ mapped[r.user] # Nobody /\ punches[PunchOf(r)] > 0
    \/ \E row \in parked : row.pull = w /\ row.reading = r /\ ~row.resolved

(* Hours come from an in and the out that follows it directly, and every other *)
(* punch is reported (attendance.py: "Nothing is dropped").                    *)
HoursAreMatched == \A e \in Staff :
  LET p == PunchesOf(e)
      matched == {k \in 1..(Len(p) - 1) : p[k].way = "in" /\ p[k + 1].way = "out"}
  IN /\ Paired(e).minutes = MapThenSumSet(LAMBDA k : p[k + 1].at - p[k].at, matched)
     /\ 2 * Cardinality(matched) + Paired(e).unmatched
          = Len(p) - (IF Paired(e).open # 0 THEN 1 ELSE 0)
     /\ Worked(e) >= 0

(* "map them ... and the reading is taken up" (biometric.py): while no request *)
(* is open, what stays parked for a known user is of a day the employee was    *)
(* not there.                                                                  *)
ParkedIsTakenUp ==
  (\A s \in Sessions : tx[s] = Idle) =>
    \A row \in parked : ~row.resolved /\ mapped[row.reading.user] # Nobody
      => ~Active(mapped[row.reading.user], row.reading.at)
=============================================================================
