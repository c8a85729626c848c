----------------------------- MODULE GeneralLedger -----------------------------
(* The ledger (app/ledger/posting.py, periods.py, currency.py, fx_gain_loss.py, *)
(* and the journal entry, rate and period routes of app/api.py): entries are    *)
(* posted under an idempotency key, months are closed and reopened, the foreign *)
(* balance of one control account is revalued, reversed and settled.            *)
(*                                                                              *)
(* A day stands for its month.  A line is kept by its amount on the control     *)
(* account, and the other line of its entry is its negative.  What is posted is *)
(* computed when the request begins and written when it commits.                *)
EXTENDS Integers, Sequences, FiniteSets, FiniteSetsExt

CONSTANTS
  Sessions,   \* concurrent requests
  Keys,       \* idempotency keys
  LastDay,    \* the last day (a bound, not code)
  Amounts,    \* foreign amounts, signed, that are posted
  Rates,      \* rates of the foreign currency
  MaxEntries, \* entries of the journal (a bound, not code)
  Serial,     \* whether documents alone are posted at the same time
  Mixed,      \* whether a balance is revalued after documents of it were settled
  Sources     \* whether entries name their source document: a subset of BOOLEAN

Days == 1..LastDay
NoKey == "none"
Restatements == {"fx_revaluation", "fx_revaluation_reversal"}
Kinds == {"document", "fx_settlement"} \cup Restatements

LedgerAssumption ==
  /\ LastDay \in Nat \ {0} /\ MaxEntries \in Nat
  /\ Amounts \subseteq Int \ {0} /\ Rates \subseteq Nat \ {0}
  /\ Serial \in BOOLEAN /\ Mixed \in BOOLEAN /\ Sources \subseteq BOOLEAN
  /\ NoKey \notin Keys

VARIABLES
  today,
  periods, \* periods[d]: the state of the month of d
  rates,   \* rates[d]: the rate stored for d, or 0
  journal, \* the entries, in the order they were committed
  keys,    \* keys whose first answer is stored
  work     \* work[s]: the entry that s is about to commit

vars == <<today, periods, rates, journal, keys, work>>

(* The memo of a revaluation names the rate it was computed at.                *)
EntryRows == [kind : Kinds, day : Days, amount : Int, rate : Nat, memo : Rates \cup {0},
              sourced : BOOLEAN, key : Keys \cup {NoKey}]
PeriodRows == {"none", "open", "closed"}
Idle == [kind |-> "none", day |-> 0, amount |-> 0, rate |-> 0, memo |-> 0, sourced |-> FALSE,
         key |-> NoKey]

Init ==
  /\ today = 1
  /\ periods = [d \in Days |-> "none"]
  /\ rates = [d \in Days |-> 0]
  /\ journal = <<>>
  /\ keys = {}
  /\ work = [s \in Sessions |-> Idle]

(* ----------------------------- months and rates ---------------------------- *)

Alone == Serial => \A s \in Sessions : work[s] = Idle
Restating == \E s \in Sessions : work[s].kind \notin {"none", "document"}

(* lock_period                                                                 *)
LockPeriod(d) ==
  /\ periods[d] # "closed" /\ Alone
  /\ periods' = [periods EXCEPT ![d] = "closed"]
  /\ UNCHANGED <<today, rates, journal, keys, work>>

(* unlock_period, by who may                                                   *)
UnlockPeriod(d) ==
  /\ periods[d] = "closed" /\ Alone
  /\ periods' = [periods EXCEPT ![d] = "open"]
  /\ UNCHANGED <<today, rates, journal, keys, work>>

(* store_rate: the rate of a day that has passed is not changed.               *)
StoreRate(d, rate) ==
  /\ rates[d] # rate
  /\ rates[d] # 0 => d >= today
  /\ rates' = [rates EXCEPT ![d] = rate]
  /\ UNCHANGED <<today, periods, journal, keys, work>>

NextDay ==
  /\ today < LastDay
  /\ today' = today + 1
  /\ UNCHANGED <<periods, rates, journal, keys, work>>

(* ---------------------------------- posting -------------------------------- *)

(* post_journal_entry, up to its flush: the month is open as the session reads *)
(* it.                                                                         *)
Posting(s, entry) ==
  /\ work[s] = Idle
  /\ Serial => IF entry.kind = "document" THEN ~Restating ELSE Alone
  /\ periods[entry.day] # "closed"
  /\ work' = [work EXCEPT ![s] = entry]
  /\ UNCHANGED <<today, periods, rates, journal, keys>>

(* post_entry: a key that was seen is answered with the first answer.          *)
BeginPost(s, key, d, amount, sourced) ==
  /\ key \notin keys /\ rates[d] # 0
  /\ Posting(s, [kind |-> "document", day |-> d, amount |-> amount, rate |-> rates[d],
                 memo |-> 0, sourced |-> sourced, key |-> key])

(* Mutant of FirstOf: the key is looked at when the request begins alone.      *)
MutKeyRead(key) == TRUE

(* The unique index of the keys.                                               *)
FirstOf(key) == key \notin keys

(* Mutant of Commit: an entry without a key is indexed under an empty one.     *)
MutEmptyKey(s) ==
  /\ work[s] # Idle /\ FirstOf(work[s].key) /\ Len(journal) < MaxEntries
  /\ journal' = Append(journal, work[s])
  /\ keys' = keys \cup {work[s].key}
  /\ work' = [work EXCEPT ![s] = Idle]
  /\ UNCHANGED <<today, periods, rates>>

Commit(s) ==
  /\ work[s] # Idle /\ FirstOf(work[s].key) /\ Len(journal) < MaxEntries
  /\ journal' = Append(journal, work[s])
  /\ keys' = keys \cup ({work[s].key} \ {NoKey})
  /\ work' = [work EXCEPT ![s] = Idle]
  /\ UNCHANGED <<today, periods, rates>>

(* A refusal at the flush, a lost connection: nothing is written.              *)
Abort(s) ==
  /\ work[s] # Idle
  /\ work' = [work EXCEPT ![s] = Idle]
  /\ UNCHANGED <<today, periods, rates, journal, keys>>

(* ------------------------------ gain and loss ------------------------------ *)

Sum(rows, value(_)) == MapThenSumSet(LAMBDA i : value(journal[i]), rows)
Upto(d) == {i \in DOMAIN journal : journal[i].day <= d}

(* open_foreign_balance: source_type NOT IN (..) is not true of an entry that  *)
(* has none.                                                                   *)
OpenRows(d) == {i \in Upto(d) : journal[i].kind = "document" /\ journal[i].sourced}
Foreign(d) == Sum(OpenRows(d), LAMBDA row : row.amount)
Booked(d) == Sum(OpenRows(d), LAMBDA row : row.amount * row.rate)

(* Mutant of AlreadyRevalued: what was posted before is not subtracted.        *)
MutNothingPosted(d) == 0

(* already_revalued                                                            *)
AlreadyRevalued(d) == Sum({i \in Upto(d) : journal[i].kind \in Restatements}, LAMBDA row : row.amount)

(* _post_difference, in the base currency.                                     *)
PostDifference(s, kind, d, difference, memo) ==
  /\ difference # 0
  /\ Posting(s, [kind |-> kind, day |-> d, amount |-> difference, rate |-> 1,
                 memo |-> memo, sourced |-> TRUE, key |-> NoKey])

(* revalue_open_balance, at the rate of the day or at any that is stated.      *)
BeginRevalue(s, d, wanted) ==
  /\ Foreign(d) # 0
  /\ Mixed \/ \A i \in DOMAIN journal : journal[i].kind # "fx_settlement"
  /\ PostDifference(s, "fx_revaluation", d,
                    Foreign(d) * wanted - Booked(d) - AlreadyRevalued(d), wanted)

(* reverse_revaluation                                                         *)
BeginReverse(s, d, on) ==
  /\ on >= d
  /\ PostDifference(s, "fx_revaluation_reversal", on, -AlreadyRevalued(d), 0)

(* settle_document: the realized difference of one document.                   *)
BeginSettle(s, i, d, rate) ==
  /\ journal[i].kind = "document" /\ journal[i].sourced
  /\ PostDifference(s, "fx_settlement", d, journal[i].amount * (rate - journal[i].rate), 0)

Next ==
  \/ \E d \in Days :
       LockPeriod(d) \/ UnlockPeriod(d) \/ (\E rate \in Rates : StoreRate(d, rate))
  \/ NextDay
  \/ \E s \in Sessions :
       \/ \E key \in Keys, d \in Days, amount \in Amounts, sourced \in Sources :
            BeginPost(s, key, d, amount, sourced)
       \/ \E d \in Days, wanted \in Rates : BeginRevalue(s, d, wanted)
       \/ \E d, on \in Days : BeginReverse(s, d, on)
       \/ \E i \in DOMAIN journal, d \in Days, rate \in Rates : BeginSettle(s, i, d, rate)
       \/ Commit(s) \/ Abort(s)

Spec == Init /\ [][Next]_vars

(* -------------------------------- properties ------------------------------- *)

(* The period, rate and entry rows.                                            *)
TypeOK ==
  /\ today \in Days
  /\ periods \in [Days -> PeriodRows]
  /\ rates \in [Days -> Rates \cup {0}]
  /\ journal \in Seq(EntryRows)
  /\ keys \subseteq Keys
  /\ work \in [Sessions -> EntryRows \cup {Idle}]

(* "The retry gets the first answer ... and nothing is posted a second time"   *)
(* (api.py post_entry), also when the retry overtakes the first request.       *)
PostedOnce == \A key \in Keys : Cardinality({i \in DOMAIN journal : journal[i].key = key}) <= 1

(* What the control account carries in the books at the end of d.              *)
ForeignNet(d) == Sum({i \in Upto(d) : journal[i].kind = "document"}, LAMBDA row : row.amount)
Carried(d) == Sum(Upto(d), LAMBDA row : row.amount * row.rate)

(* "Repeatable without double-counting" (fx_gain_loss.py): whatever was        *)
(* posted, revalued and reversed before, at whatever rates, once a revaluation *)
(* of a day is posted the account carries the foreign balance of that day at   *)
(* the rate that its memo names.                                               *)
CarriedAtTheRate == [][\A d \in Days :
  (journal' # journal /\ journal'[Len(journal')].kind = "fx_revaluation"
                      /\ journal'[Len(journal')].day = d)
    => Carried(d)' = ForeignNet(d)' * journal'[Len(journal')].memo]_vars

(* "Locking it means no posting may be dated inside it any more" (periods.py): *)
(* a month gets no entry while it is closed.                                   *)
ClosedMonthStands == [][
  journal' # journal => periods[journal'[Len(journal')].day] # "closed"]_vars

(* "Undo the revaluation posted for one balance and date" (fx_gain_loss.py):   *)
(* what is reversed, on whatever day, is no more than what was posted.         *)
ReversedOnce ==
  LET reversed == Sum({i \in DOMAIN journal : journal[i].kind = "fx_revaluation_reversal"}, LAMBDA row : row.amount)
      posted == Sum({i \in DOMAIN journal : journal[i].kind = "fx_revaluation"}, LAMBDA row : row.amount)
  IN (posted >= 0 => reversed <= 0 /\ -reversed <= posted) /\ (posted <= 0 => reversed >= 0 /\ reversed <= -posted)
=============================================================================
