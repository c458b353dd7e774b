---------------------------- MODULE BacklogDrain ----------------------------
(* The spool over the cycles of one process: does a backlog left by an       *)
(* outage ever drain, although every cycle that finds one adds its own event *)
(* to it, and although it holds records that can never be sent               *)
(* (runtime.py:63-113)?  A tick is the time from one cycle to the next, so a *)
(* record is told from the others by its age.                                *)
EXTENDS Naturals, FiniteSets

CONSTANTS
  ReplayBatch,   \* replay_batch_size
  Capacity,      \* records that fit in spool_max_bytes
  MaxAge         \* spool_max_age_sec, in ticks

ASSUME BatchAssumption == ReplayBatch \in Nat \ {0}
ASSUME CapacityAssumption == Capacity \in Nat \ {0} /\ MaxAge \in Nat \ {0}

VARIABLES
  backlog,       \* the pending records
  left,          \* records of the current batch not yet tried
  up,            \* the collector accepts what it is sent
  pc             \* what the process does next

vars == <<backlog, left, up, pc>>

\* An unfit record can be loaded, but send raises on it: a header is missing.
Records == [age : 0 .. MaxAge + 1, fit : BOOLEAN]

TypeOK ==
  /\ backlog \subseteq Records
  /\ left \in 0 .. ReplayBatch
  /\ up \in BOOLEAN
  /\ pc \in {"waiting", "replaying", "deciding"}

Distinct(R) == \A r, s \in R : r.age = s.age => r = s

Init ==
  /\ backlog \in {R \in SUBSET {r \in Records : r.age < MaxAge} :
                    Distinct(R) /\ Cardinality(R) <= Capacity}
  /\ left = 0
  /\ up \in BOOLEAN
  /\ pc = "waiting"

\* How many records a replay takes from a backlog of n.
Take(n) == IF n < ReplayBatch THEN n ELSE ReplayBatch

Oldest(r) == r \in backlog /\ \A s \in backlog : s.age <= r.age

\* enforce_retention, for records of one size: what is too old goes, and the
\* oldest of what does not fit.
Kept(R) ==
  LET young == {r \in R : r.age <= MaxAge}
  IN  {r \in young : Cardinality({s \in young : s.age <= r.age}) <= Capacity}

FaultyKeptByFall(R) == R

\* What the finally clause of replay keeps when an exception ends the process.
KeptByFall(R) == Kept(R)

\* A record grows older; too old is too old.
Aged(r) == [r EXCEPT !.age = IF @ <= MaxAge THEN @ + 1 ELSE @]

StartCycle ==
  /\ pc = "waiting"
  /\ backlog' = {Aged(r) : r \in backlog}
  /\ left' = Take(Cardinality(backlog))
  /\ pc' = "replaying"
  /\ UNCHANGED up

\* A record is acknowledged, or rejected for good.
Settled ==
  /\ pc = "replaying" /\ left > 0 /\ up
  /\ \E r \in backlog : Oldest(r) /\ r.fit /\ backlog' = backlog \ {r}
  /\ left' = left - 1
  /\ UNCHANGED <<up, pc>>

\* The batch is exhausted, or a send fails for now and the loop breaks.
EndReplay ==
  /\ pc = "replaying"
  /\ left = 0 \/ (~up /\ \E r \in backlog : Oldest(r) /\ r.fit)
  /\ backlog' = Kept(backlog)
  /\ left' = 0
  /\ pc' = "deciding"
  /\ UNCHANGED up

\* send raises ValueError: the process ends and its live event is lost, and
\* it is started again.
Raised ==
  /\ pc = "replaying" /\ left > 0
  /\ \E r \in backlog : Oldest(r) /\ ~r.fit
  /\ backlog' = KeptByFall(backlog)
  /\ left' = 0
  /\ pc' = "waiting"
  /\ UNCHANGED up

\* The live event is sent if nothing is pending, else queued.
Decide ==
  /\ pc = "deciding"
  /\ backlog' = IF backlog = {} /\ up THEN {}
                ELSE Kept(backlog \cup {[age |-> 0, fit |-> TRUE]})
  /\ pc' = "waiting"
  /\ UNCHANGED <<left, up>>

\* The collector goes away, or comes back.
Outage == up /\ up' = FALSE /\ UNCHANGED <<backlog, left, pc>>
Recovery == ~up /\ up' = TRUE /\ UNCHANGED <<backlog, left, pc>>

Cycle == StartCycle \/ Settled \/ EndReplay \/ Raised \/ Decide

Next == Cycle \/ Outage \/ Recovery

\* The heartbeat loop runs, its sends return, and the service is restarted;
\* the collector owes nothing.
Spec == Init /\ [][Next]_vars /\ WF_vars(Cycle)

-----------------------------------------------------------------------------
(* Once the collector stays up, the backlog drains and stays empty: live     *)
(* events are delivered directly again.  It needs a batch of at least two,   *)
(* for a cycle adds one record while any is left (runtime.py:86, 98-99); a   *)
(* batch of one, which config.py allows, never catches up.  A record that    *)
(* send refuses (transport.py:91-97) ends every cycle that meets it, but     *)
(* only until retention, which replay runs even then, finds it too old.      *)
BacklogDrains == <>[]up => <>[](backlog = {})
=============================================================================
