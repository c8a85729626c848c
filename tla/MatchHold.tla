------------------------------ MODULE MatchHold ------------------------------
(* The exceptions of the three-way match (app/matching.py): runs appended to  *)
(* an invoice, holds opened by a person or by the nightly sweep, and released *)
(* by an override.  A verdict is never rewritten; a partial unique index      *)
(* keeps at most one open hold per invoice.                                   *)
(*                                                                            *)
(* The sweep is one transaction: it reads the latest runs once, then asks for *)
(* each failed one, as things stand then, whether it was held before and      *)
(* whether the invoice is held now.  One refusal rolls all of it back.        *)
EXTENDS Integers, Sequences, FiniteSets

CONSTANTS
  Invoices,   \* posted supplier invoices
  Sessions,   \* the sessions serving holds, releases and the sweep
  Sweepers,   \* those of them that run the nightly sweep
  Clerks,     \* those that hold invoices by hand
  Practices,  \* whether the users rematch what is, or is being, held
  MaxRuns,    \* match runs per invoice (a bound, not code)
  MaxHolds    \* holds opened by hand per invoice (a bound, not code)

SessionAssumption == Sweepers \subseteq Sessions /\ Clerks \subseteq Sessions
PracticeAssumption == Practices \subseteq BOOLEAN
RunBoundAssumption == MaxRuns \in Nat /\ MaxHolds \in Nat

VARIABLES
  runs,    \* runs[i]: the verdicts of the MatchRun rows, oldest first
  holds,   \* holds[i]: the MatchHold rows, oldest first: run and state
  tx,      \* tx[s]: the open request of s
  anytime  \* the practice of the users: they match invoices at any time

vars == <<runs, holds, tx, anytime>>

Verdicts == {"matched", "partial", "failed"}
None == "none"
NoPair == <<>>

(* todo: the (invoice, run) pairs still to look at; at: the pair being held;  *)
(* made: the holds inserted and not committed.                                *)
Closed == [op |-> None, todo |-> {}, at |-> NoPair, made |-> {}]

Init ==
  /\ runs = [i \in Invoices |-> <<>>]
  /\ holds = [i \in Invoices |-> <<>>]
  /\ tx = [s \in Sessions |-> Closed]
  /\ anytime \in Practices

Latest(i) == Len(runs[i])
Fails(i) == Latest(i) > 0 /\ runs[i][Latest(i)] # "matched"
OpenHolds(i) == {k \in 1..Len(holds[i]) : holds[i][k].state = "held"}
Held(i) == OpenHolds(i) # {}

(* match_invoice appends its verdict, whatever it is.  Nothing in the code    *)
(* stops a match of an invoice on hold: unless anytime, the users do.         *)
Match(i, verdict) ==
  /\ Latest(i) < MaxRuns
  /\ anytime \/ (~Held(i) /\ \A s \in Sessions : tx[s].op = None)
  /\ runs' = [runs EXCEPT ![i] = Append(@, verdict)]
  /\ UNCHANGED <<holds, tx, anytime>>

Go(s, op, todo, at, made) ==
  tx' = [tx EXCEPT ![s] = [op |-> op, todo |-> todo, at |-> at, made |-> made]]

(* Mutant of StartSweep: it overlooks partial matches.                        *)
MutSweepFailedOnly(s) ==
  /\ s \in Sweepers
  /\ tx[s].op = None
  /\ Go(s, "sweep", {<<i, Latest(i)>> : i \in {j \in Invoices :
         Latest(j) > 0 /\ runs[j][Latest(j)] = "failed"}}, NoPair, {})
  /\ UNCHANGED <<runs, holds, anytime>>

(* hold_failed_matches reads the latest run of every invoice.                 *)
StartSweep(s) ==
  /\ s \in Sweepers
  /\ tx[s].op = None
  /\ Go(s, "sweep", {<<i, Latest(i)>> : i \in {j \in Invoices : Fails(j)}}, NoPair, {})
  /\ UNCHANGED <<runs, holds, anytime>>

HeldBefore(pair) == \E k \in 1..Len(holds[pair[1]]) : holds[pair[1]][k].run = pair[2]

(* A verdict that was held before, released or not, is left alone.            *)
Skip(s, pair) ==
  /\ tx[s].op = "sweep"
  /\ tx[s].at = NoPair
  /\ pair \in tx[s].todo
  /\ HeldBefore(pair)
  /\ Go(s, "sweep", tx[s].todo \ {pair}, NoPair, tx[s].made)
  /\ UNCHANGED <<runs, holds, anytime>>

(* A verdict without a hold is taken up.                                      *)
Take(s, pair) ==
  /\ tx[s].op = "sweep"
  /\ tx[s].at = NoPair
  /\ pair \in tx[s].todo
  /\ ~HeldBefore(pair)
  /\ Go(s, "sweep", tx[s].todo \ {pair}, pair, tx[s].made)
  /\ UNCHANGED <<runs, holds, anytime>>

(* hold_invoice by hand: the latest run, when it did not match.               *)
StartHold(s, i) ==
  /\ s \in Clerks
  /\ tx[s].op = None
  /\ Fails(i)
  /\ Len(holds[i]) < MaxHolds
  /\ Go(s, "hold", {}, <<i, Latest(i)>>, {})
  /\ UNCHANGED <<runs, holds, anytime>>

Inserted(i) == \E s \in Sessions : \E pair \in tx[s].made : pair[1] = i

(* Mutant of Insert: neither the open hold nor the index is asked.            *)
MutInsertAny(s) ==
  /\ tx[s].at # NoPair
  /\ Go(s, tx[s].op, tx[s].todo, NoPair, tx[s].made \cup {tx[s].at})
  /\ UNCHANGED <<runs, holds, anytime>>

(* The hold is inserted: none is open, and no other session has one of the    *)
(* same invoice under way (the unique index makes it wait).                   *)
Insert(s) ==
  LET pair == tx[s].at IN
  /\ pair # NoPair
  /\ ~Held(pair[1])
  /\ ~Inserted(pair[1])
  /\ Go(s, tx[s].op, tx[s].todo, NoPair, tx[s].made \cup {pair})
  /\ UNCHANGED <<runs, holds, anytime>>

(* AlreadyHeldError, or the index: the whole request is rolled back.          *)
Refuse(s) ==
  /\ tx[s].at # NoPair
  /\ Held(tx[s].at[1])
  /\ Go(s, None, {}, NoPair, {})
  /\ UNCHANGED <<runs, holds, anytime>>

Commit(s) ==
  /\ tx[s].op \in {"sweep", "hold"}
  /\ tx[s].at = NoPair
  /\ tx[s].todo = {}
  /\ holds' = [i \in Invoices |->
       IF \E pair \in tx[s].made : pair[1] = i
       THEN Append(holds[i], [run |-> (CHOOSE pair \in tx[s].made : pair[1] = i)[2],
                              state |-> "held"])
       ELSE holds[i]]
  /\ Go(s, None, {}, NoPair, {})
  /\ UNCHANGED <<runs, anytime>>

(* Mutant of Release: a state the table does not know.                        *)
MutResolve(i, k) ==
  /\ k \in OpenHolds(i)
  /\ holds' = [holds EXCEPT ![i][k] = [run |-> @.run, state |-> "resolved"]]
  /\ UNCHANGED <<runs, tx, anytime>>

(* release: a person with the capability resolves one open hold.              *)
Release(i, k) ==
  /\ k \in OpenHolds(i)
  /\ holds' = [holds EXCEPT ![i][k] = [run |-> @.run, state |-> "released"]]
  /\ UNCHANGED <<runs, tx, anytime>>

(* The request dies before its commit.                                        *)
Fail(s) ==
  /\ tx[s].op # None
  /\ Go(s, None, {}, NoPair, {})
  /\ UNCHANGED <<runs, holds, anytime>>

Pairs == Invoices \X (1..MaxRuns)

Step(s) ==
  \/ \E pair \in Pairs : Skip(s, pair) \/ Take(s, pair)
  \/ Insert(s)
  \/ Refuse(s)
  \/ Commit(s)

Work ==
  \/ \E i \in Invoices, verdict \in Verdicts : Match(i, verdict)
  \/ \E i \in Invoices : \E k \in 1..Len(holds[i]) : Release(i, k)
  \/ \E s \in Sessions :
       \/ StartSweep(s)
       \/ \E i \in Invoices : StartHold(s, i)
       \/ Step(s)

Next == Work \/ \E s \in Sessions : Fail(s)

Spec == Init /\ [][Next]_vars

(* The sweep runs every night and requests get to an end; people owe nothing. *)
(* A sweep that died every night would hold nothing: from some night on,      *)
(* none dies.                                                                 *)
SweepSpec ==
  /\ Spec
  /\ \A s \in Sweepers : WF_vars(StartSweep(s))
  /\ \A s \in Sessions : WF_vars(Step(s))
  /\ <>[][Work]_vars

(* -------------------------------- properties ------------------------------ *)

Request == [op : {None, "sweep", "hold"}, todo : SUBSET Pairs, at : Pairs \cup {NoPair},
            made : SUBSET Pairs]

TypeOK ==
  /\ runs \in [Invoices -> Seq(Verdicts)]
  /\ holds \in [Invoices -> Seq([run : 1..MaxRuns, state : {"held", "released"}])]
  /\ tx \in [Sessions -> Request]
  /\ anytime \in BOOLEAN

(* "At most one can exist" (current_hold): an invoice never has two open      *)
(* holds, also while a second sweep is about to commit.                       *)
OneOpenHold ==
  \A i \in Invoices : Cardinality(OpenHolds(i)) + (IF Inserted(i) THEN 1 ELSE 0) <= 1

(* "Hold every invoice whose latest match failed or only partly passed": an   *)
(* exception is eventually on hold or was held, unless it is matched again.   *)
EveryExceptionHeld ==
  \A i \in Invoices, n \in 1..MaxRuns :
    (Latest(i) = n /\ Fails(i)) ~> (Held(i) \/ HeldBefore(<<i, n>>) \/ Latest(i) > n)

(* The sweep keeps that promise when no invoice is matched while it is on     *)
(* hold or being held.                                                        *)
HeldUnlessRematched ==
  \A i \in Invoices, n \in 1..MaxRuns :
    (~anytime /\ Latest(i) = n /\ Fails(i))
      ~> (Held(i) \/ HeldBefore(<<i, n>>) \/ Latest(i) > n)
=============================================================================
