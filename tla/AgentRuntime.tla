---------------------------- MODULE AgentRuntime ----------------------------
(* The delivery core of the agent: AgentRuntime.run_cycle / replay          *)
(* (runtime.py) over the operations of Spool (spool.py), for a set of agent *)
(* processes that share one spool directory (the service, and an operator's *)
(* `monitor-agent once`).  A step is one spool operation, one answer of the *)
(* transport, one start, exit or crash of a process, one acceptance of a    *)
(* request by the collector, or one tick of the clock.                      *)
(*                                                                          *)
(* Spool operations are atomic here; what they do to the files is the       *)
(* subject of SpoolFiles and DeadLetter.  A crash keeps the files.          *)
(*                                                                          *)
(* Definitions whose names start with Faulty are wrong variants of the next *)
(* definition; they serve to show that the properties can fail.             *)
EXTENDS Integers, FiniteSetsExt

CONSTANTS
  Events,        \* the event_ids; their order is the order of the UUID strings
  Agents,        \* processes that use the spool directory
  None,          \* no event
  SizeOf,        \* bytes of the serialized event
  Unreadable,    \* events whose record may be damaged when it is loaded
  MaxBytes,      \* spool_max_bytes
  MaxAge,        \* spool_max_age_sec, in ticks
  ReplayBatch,   \* replay_batch_size
  MaxTime,       \* bound: the time stops here
  WallClock      \* what the wall clock shows at each time; it may be set back

ASSUME EventsAssumption == Events \subseteq Nat /\ None \notin Events
ASSUME SizeAssumption == SizeOf \in [Events -> Nat \ {0}]
ASSUME LimitAssumption ==
  /\ MaxBytes \in Nat /\ MaxAge \in Nat /\ MaxTime \in Nat
  /\ ReplayBatch \in Nat \ {0}
ASSUME ClockAssumption == WallClock \in [0 .. MaxTime -> 0 .. MaxTime]

VARIABLES
  now,           \* the time (the monotonic clock)
  spool,         \* the pending records: the *.json files of the spool root
  dead,          \* events with a dead-letter record
  sent,          \* events some request has carried to the network
  received,      \* events the collector has accepted
  pc,            \* what each process does next
  live,          \* the event of the current cycle, until the cycle ends
  batch,         \* the records replay has listed and not yet handled
  listed,        \* the records enforce_retention has listed
  clock,         \* when each process last read the clock
  \* history
  bornAt,        \* the time each event was built, 0 before that
  fate           \* how an event left memory or spool for good

vars == <<now, spool, dead, sent, received, pc, live, batch, listed, clock,
          bornAt, fate>>

Times == 0 .. MaxTime
Records == [event : Events, time : Times]
Kinds == {"SUCCESS", "RETRIABLE", "AUTHENTICATION", "PERMANENT"}
Fates == {"none", "delivered", "refused", "evicted", "lost"}

ExpirePCs == {"expireReplay", "expireRaise", "expireEnqueue", "expireCycle"}
TrimPCs == {"trimReplay", "trimRaise", "trimEnqueue", "trimCycle"}
BacklogPCs == {"sendingBacklog", "acking", "rejecting"}
PCs == {"down", "waiting", "built", "replaying", "checking", "sendingLive",
        "queueing", "raising"} \cup BacklogPCs \cup ExpirePCs \cup TrimPCs

TypeOK ==
  /\ now \in Times
  /\ spool \subseteq Records
  /\ dead \subseteq Events /\ sent \subseteq Events /\ received \subseteq Events
  /\ pc \in [Agents -> PCs]
  /\ live \in [Agents -> Events \cup {None}]
  /\ batch \in [Agents -> SUBSET Records]
  /\ listed \in [Agents -> SUBSET Records]
  /\ clock \in [Agents -> Times]
  /\ bornAt \in [Events -> Times]
  /\ fate \in [Events -> Fates]

Init ==
  /\ now = 0
  /\ spool = {} /\ dead = {} /\ sent = {} /\ received = {}
  /\ pc = [a \in Agents |-> "down"]
  /\ live = [a \in Agents |-> None]
  /\ batch = [a \in Agents |-> {}]
  /\ listed = [a \in Agents |-> {}]
  /\ clock = [a \in Agents |-> 0]
  /\ bornAt = [e \in Events |-> 0]
  /\ fate = [e \in Events |-> "none"]

-----------------------------------------------------------------------------
\* The spool's records and their order.

EventsOf(R) == {r.event : r \in R}

Queued == EventsOf(spool)

\* Records sort by (record time, file name); names end in the UUID.
Older(r, s) ==
  \/ r.time < s.time
  \/ r.time = s.time /\ r.event < s.event

IsOldest(r, R) == r \in R /\ \A s \in R : ~Older(s, r)

\* pending()[:replay_batch_size]
OldestBatch(R) ==
  {r \in R : Cardinality({s \in R : Older(s, r)}) < ReplayBatch}

Bytes(R) == MapThenSumSet(LAMBDA r : SizeOf[r.event], R)

\* Records older than the cutoff of a retention pass that reads the wall clock
\* as t.
Expired(R, t) == {r \in R : r.time + MaxAge < t}

FaultyFittingOneTooMany(R) ==
  {r \in R : Bytes({s \in R : Older(r, s)}) <= MaxBytes}

FaultyFittingNewestFirst(R) ==
  {r \in R : Bytes({s \in R : ~Older(r, s)}) <= MaxBytes}

\* Evicting the oldest until the rest fits keeps the longest young tail of R.
Fitting(R) == {r \in R : Bytes({s \in R : ~Older(s, r)}) <= MaxBytes}

\* What the retention pass inside enqueue takes for now is the record's time.
PassTime(a) == IF pc[a] = "expireEnqueue" THEN clock[a] ELSE now

\* The records that the pass of process a evicts, oldest first.
Due(a) ==
  IF pc[a] \in ExpirePCs THEN Expired(spool, WallClock[PassTime(a)])
  ELSE spool \cap (listed[a] \ Fitting(listed[a]))

\* The events that exist only in the memory of process a.
Unpublished(a) ==
  IF pc[a] \in {"expireEnqueue", "trimEnqueue", "expireCycle", "trimCycle"}
    THEN {} ELSE {live[a]} \ {None}

\* The fate of events E becomes f.
Mark(E, f) == fate' = [e \in Events |-> IF e \in E THEN f ELSE fate[e]]

-----------------------------------------------------------------------------
\* The life of a process.

\* The process starts; Spool() prepares the directory.
Start(a) ==
  /\ pc[a] = "down"
  /\ pc' = [pc EXCEPT ![a] = "waiting"]
  /\ UNCHANGED <<now, spool, dead, sent, received, live, batch, listed, clock,
                 bornAt, fate>>

\* The process ends between cycles: a stop request, or `once` is done.
Exit(a) ==
  /\ pc[a] = "waiting"
  /\ pc' = [pc EXCEPT ![a] = "down"]
  /\ UNCHANGED <<now, spool, dead, sent, received, live, batch, listed, clock,
                 bornAt, fate>>

\* The process is gone, and with it what only its memory held; the records R
\* have been unlinked before that.
Fall(a, R) ==
  /\ pc' = [pc EXCEPT ![a] = "down"]
  /\ live' = [live EXCEPT ![a] = None]
  /\ batch' = [batch EXCEPT ![a] = {}]
  /\ listed' = [listed EXCEPT ![a] = {}]
  /\ clock' = [clock EXCEPT ![a] = now]
  /\ spool' = spool \ R
  /\ fate' = [e \in Events |->
                IF e \in EventsOf(R) THEN "evicted"
                ELSE IF e \in Unpublished(a) THEN "lost" ELSE fate[e]]
  /\ UNCHANGED <<now, dead, sent, received, bornAt>>

\* Killed, or an operation failed (disk full, permission): every exception
\* leaves run() and ends the process.
Crash(a) == pc[a] # "down" /\ Fall(a, {})

\* Killed in the middle of a retention pass, some of the oldest unlinked.
CrashMidPass(a) ==
  /\ pc[a] \in ExpirePCs \cup TrimPCs
  /\ \E r \in Due(a) : Fall(a, {s \in Due(a) : ~Older(r, s)})

\* The exception that replay raised leaves run() after its finally clause.
Abort(a) == pc[a] = "raising" /\ Fall(a, {})

Tick ==
  /\ now < MaxTime
  /\ now' = now + 1
  /\ UNCHANGED <<spool, dead, sent, received, pc, live, batch, listed, clock,
                 bornAt, fate>>

\* The collector accepts a request on the network, perhaps long after the
\* sender gave up on it.
CollectorAccepts(e) ==
  /\ e \in sent \ received
  /\ received' = received \cup {e}
  /\ UNCHANGED <<now, spool, dead, sent, pc, live, batch, listed, clock,
                 bornAt, fate>>

-----------------------------------------------------------------------------
\* One cycle: build, replay, then deliver or queue.

\* A cycle starts: at least one tick (heartbeat_sec, or a restart) separates
\* it from the end of the previous one.
BuildEvent(a, e) ==
  /\ pc[a] = "waiting"
  /\ bornAt[e] = 0
  /\ now > clock[a]
  /\ bornAt' = [bornAt EXCEPT ![e] = now]
  /\ live' = [live EXCEPT ![a] = e]
  /\ pc' = [pc EXCEPT ![a] = "built"]
  /\ UNCHANGED <<now, spool, dead, sent, received, batch, listed, clock, fate>>

\* replay lists its bounded batch.
ListBacklog(a) ==
  /\ pc[a] = "built"
  /\ batch' = [batch EXCEPT ![a] = OldestBatch(spool)]
  /\ pc' = [pc EXCEPT ![a] = "replaying"]
  /\ UNCHANGED <<now, spool, dead, sent, received, live, listed, clock, bornAt,
                 fate>>

\* The next record of the batch is gone (another process took it).
LoadMissing(a) ==
  /\ pc[a] = "replaying"
  /\ \E r \in batch[a] \ spool :
       /\ IsOldest(r, batch[a])
       /\ batch' = [batch EXCEPT ![a] = @ \ {r}]
  /\ UNCHANGED <<now, spool, dead, sent, received, pc, live, listed, clock,
                 bornAt, fate>>

\* The next record cannot be read: it is quarantined and the loop goes on.
LoadCorrupt(a) ==
  /\ pc[a] = "replaying"
  /\ \E r \in batch[a] \cap spool :
       /\ IsOldest(r, batch[a])
       /\ r.event \in Unreadable
       /\ spool' = spool \ {r}
       /\ dead' = dead \cup {r.event}
       /\ batch' = [batch EXCEPT ![a] = @ \ {r}]
  /\ UNCHANGED <<now, sent, received, pc, live, listed, clock, bornAt, fate>>

\* The next record is read and its payload put on the network.
LoadAndSend(a) ==
  /\ pc[a] = "replaying"
  /\ \E r \in batch[a] \cap spool :
       /\ IsOldest(r, batch[a])
       /\ sent' = sent \cup {r.event}
  /\ pc' = [pc EXCEPT ![a] = "sendingBacklog"]
  /\ UNCHANGED <<now, spool, dead, received, live, batch, listed, clock, bornAt,
                 fate>>

\* What send() may return for event e: SUCCESS is an answer of the collector;
\* every other result may come with or without the event accepted.
Answers(e) == {k \in Kinds : k = "SUCCESS" => e \in received}

FaultyAckRetriable(k) ==
  CASE k \in {"SUCCESS", "RETRIABLE"} -> "acking"
    [] k = "PERMANENT" -> "rejecting"
    [] OTHER -> "expireReplay"

FaultyRetryForever(k) ==
  CASE k = "SUCCESS" -> "acking"
    [] k = "PERMANENT" -> "rejecting"
    [] OTHER -> "replaying"

\* Where replay goes after result k.
AfterReplayResult(k) ==
  CASE k = "SUCCESS" -> "acking"
    [] k = "PERMANENT" -> "rejecting"
    [] OTHER -> "expireReplay"

BacklogAnswered(a) ==
  /\ pc[a] = "sendingBacklog"
  /\ \E r \in batch[a] : \E k \in Answers(r.event) :
       /\ IsOldest(r, batch[a])
       /\ pc' = [pc EXCEPT ![a] = AfterReplayResult(k)]
       /\ batch' = [batch EXCEPT ![a] =
                      IF AfterReplayResult(k) = "expireReplay" THEN {} ELSE @]
  /\ UNCHANGED <<now, spool, dead, sent, received, live, listed, clock, bornAt,
                 fate>>

\* ack(): a record that is already gone is not an error.
Ack(a) ==
  /\ pc[a] = "acking"
  /\ \E r \in batch[a] :
       /\ IsOldest(r, batch[a])
       /\ spool' = spool \ {r}
       /\ batch' = [batch EXCEPT ![a] = @ \ {r}]
       /\ Mark(EventsOf({r} \cap spool), "delivered")
  /\ pc' = [pc EXCEPT ![a] = "replaying"]
  /\ UNCHANGED <<now, dead, sent, received, live, listed, clock, bornAt>>

FaultyRejectUnconditional(a) ==
  /\ pc[a] = "rejecting"
  /\ \E r \in batch[a] :
       /\ IsOldest(r, batch[a])
       /\ spool' = spool \ {r}
       /\ batch' = [batch EXCEPT ![a] = @ \ {r}]
       /\ dead' = dead \cup {r.event}
  /\ pc' = [pc EXCEPT ![a] = "replaying"]
  /\ UNCHANGED <<now, sent, received, live, listed, clock, bornAt, fate>>

\* reject(): nor is it here.
Reject(a) ==
  /\ pc[a] = "rejecting"
  /\ \E r \in batch[a] :
       /\ IsOldest(r, batch[a])
       /\ spool' = spool \ {r}
       /\ batch' = [batch EXCEPT ![a] = @ \ {r}]
       /\ dead' = dead \cup EventsOf({r} \cap spool)
  /\ pc' = [pc EXCEPT ![a] = "replaying"]
  /\ UNCHANGED <<now, sent, received, live, listed, clock, bornAt, fate>>

\* The batch is exhausted; replay's finally clause comes next.
EndReplay(a) ==
  /\ pc[a] = "replaying"
  /\ batch[a] = {}
  /\ pc' = [pc EXCEPT ![a] = "expireReplay"]
  /\ UNCHANGED <<now, spool, dead, sent, received, live, batch, listed, clock,
                 bornAt, fate>>

\* An operation in the replay loop fails: the finally clause comes next too.
ReplayRaises(a) ==
  /\ pc[a] \in {"replaying"} \cup BacklogPCs
  /\ pc' = [pc EXCEPT ![a] = "expireRaise"]
  /\ batch' = [batch EXCEPT ![a] = {}]
  /\ UNCHANGED <<now, spool, dead, sent, received, live, listed, clock, bornAt,
                 fate>>

FaultySendsLiveEarly(R) == Cardinality(R) < ReplayBatch

\* The live event is sent only when nothing is left to replay.
SendsLive(R) == R = {}

CheckBacklog(a) ==
  /\ pc[a] = "checking"
  /\ pc' = [pc EXCEPT ![a] =
              IF SendsLive(spool) THEN "sendingLive" ELSE "queueing"]
  /\ sent' = IF SendsLive(spool) THEN sent \cup {live[a]} ELSE sent
  /\ UNCHANGED <<now, spool, dead, received, live, batch, listed, clock, bornAt,
                 fate>>

\* Results after which the live event is queued rather than given up.
Requeued == {"RETRIABLE", "AUTHENTICATION"}

FaultyLiveFateIsKind(k) == k

FaultyLiveFateDelivered(k) == IF k \in Kinds THEN "delivered" ELSE "refused"

\* The fate of a live event that is not queued.
LiveFate(k) == IF k = "SUCCESS" THEN "delivered" ELSE "refused"

LiveAnswered(a) ==
  /\ pc[a] = "sendingLive"
  /\ \E k \in Answers(live[a]) :
       \/ /\ k \in Requeued
          /\ pc' = [pc EXCEPT ![a] = "queueing"]
          /\ UNCHANGED <<live, clock, fate>>
       \/ /\ k \notin Requeued
          /\ pc' = [pc EXCEPT ![a] = "waiting"]
          /\ live' = [live EXCEPT ![a] = None]
          /\ clock' = [clock EXCEPT ![a] = now]
          /\ Mark({live[a]}, LiveFate(k))
  /\ UNCHANGED <<now, spool, dead, sent, received, batch, listed, bornAt>>

\* enqueue() publishes the record under the wall-clock time it reads now.
Enqueue(a) ==
  /\ pc[a] = "queueing"
  /\ spool' = spool \cup {[event |-> live[a], time |-> WallClock[now]]}
  /\ clock' = [clock EXCEPT ![a] = now]
  /\ pc' = [pc EXCEPT ![a] = "expireEnqueue"]
  /\ UNCHANGED <<now, dead, sent, received, live, batch, listed, bornAt, fate>>

-----------------------------------------------------------------------------
\* enforce_retention: after the replay loop, inside enqueue (with the record's
\* own time as "now"), and after enqueue.

Expire(a) ==
  LET t == PassTime(a)
      old == Expired(spool, WallClock[t])
  IN  /\ pc[a] \in ExpirePCs
      /\ spool' = spool \ old
      /\ Mark(EventsOf(old), "evicted")
      /\ listed' = [listed EXCEPT ![a] = spool \ old]
      /\ clock' = [clock EXCEPT ![a] = t]
      /\ pc' = [pc EXCEPT ![a] = CASE @ = "expireReplay" -> "trimReplay"
                                   [] @ = "expireRaise" -> "trimRaise"
                                   [] @ = "expireEnqueue" -> "trimEnqueue"
                                   [] @ = "expireCycle" -> "trimCycle"]
      /\ UNCHANGED <<now, dead, sent, received, live, batch, bornAt>>

\* The second pass sums the sizes of the records it has listed, and evicts.
Trim(a) ==
  LET over == listed[a] \ Fitting(listed[a])
  IN  /\ pc[a] \in TrimPCs
      /\ listed[a] \subseteq spool
      /\ spool' = spool \ over
      /\ Mark(EventsOf(over), "evicted")
      /\ listed' = [listed EXCEPT ![a] = {}]
      /\ live' = [live EXCEPT ![a] = IF pc[a] = "trimCycle" THEN None ELSE @]
      /\ clock' = [clock EXCEPT ![a] = now]
      /\ pc' = [pc EXCEPT ![a] = CASE @ = "trimReplay" -> "checking"
                                   [] @ = "trimRaise" -> "raising"
                                   [] @ = "trimEnqueue" -> "expireCycle"
                                   [] @ = "trimCycle" -> "waiting"]
      /\ UNCHANGED <<now, dead, sent, received, batch, bornAt>>

\* A listed record vanished under the pass: _validated_record_stat raises
\* ValueError, which nothing catches.
TrimRaises(a) ==
  /\ pc[a] \in TrimPCs
  /\ ~ (listed[a] \subseteq spool)
  /\ Fall(a, {})

-----------------------------------------------------------------------------
AgentStep(a) ==
  \/ \E e \in Events : BuildEvent(a, e)
  \/ ListBacklog(a) \/ LoadMissing(a) \/ LoadCorrupt(a) \/ LoadAndSend(a)
  \/ BacklogAnswered(a) \/ Ack(a) \/ Reject(a) \/ EndReplay(a)
  \/ CheckBacklog(a) \/ LiveAnswered(a) \/ Enqueue(a)
  \/ Expire(a) \/ Trim(a) \/ TrimRaises(a) \/ Abort(a)

Next ==
  \/ \E a \in Agents : AgentStep(a)
  \/ \E a \in Agents :
       \/ Start(a) \/ Exit(a)
       \/ Crash(a) \/ CrashMidPass(a) \/ ReplayRaises(a)
  \/ \E e \in Events : CollectorAccepts(e)
  \/ Tick

Spec == Init /\ [][Next]_vars

\* A running process takes its steps: send() returns (every attempt has a
\* timeout and their number is bounded) and spool operations end.
FairSpec == Spec /\ \A a \in Agents : WF_vars(pc[a] # "waiting" /\ AgentStep(a))
-----------------------------------------------------------------------------
\* Properties.

Held == {e \in Events : \E a \in Agents : e \in Unpublished(a)}

(* Every event ever built is in exactly one place: in the memory of one      *)
(* process, in the spool (once), among the dead letters, or gone with a      *)
(* recorded fate.  No order of two processes' replays, retention passes and  *)
(* crashes duplicates an event or drops it unaccounted (runtime.py:63-113).  *)
Accounted ==
  /\ \A e \in Events :
       bornAt[e] # 0 <=> e \in Held \cup Queued \cup dead \/ fate[e] # "none"
  /\ \A e \in Events : fate[e] # "none" => e \notin Held \cup Queued \cup dead
  /\ Held \cap Queued = {} /\ Held \cap dead = {} /\ Queued \cap dead = {}
  /\ \A r, s \in spool : r.event = s.event => r = s
  /\ \A a, b \in Agents : a # b => Unpublished(a) \cap Unpublished(b) = {}

(* What the agent removed as delivered, the collector has.                   *)
DeliveredIsReceived ==
  \A e \in Events : fate[e] = "delivered" => e \in received

(* With one process and a right wall clock, delivery is oldest-first: no     *)
(* event goes on the network while an event built before it waits in the     *)
(* spool (runtime.py:64, 98).                                                *)
OldestFirst ==
  \A e \in Queued : \A f \in sent : bornAt[f] <= bornAt[e]

(* With one process the spool never exceeds its limit by more than one       *)
(* record, even when crashes cut retention passes short.                     *)
OvershootBounded ==
  Bytes(spool) <= MaxBytes + Max({SizeOf[e] : e \in Events})

(* With one process, a right wall clock and no event larger than the spool,  *)
(* a cycle that reports its event as spooled leaves it there, unless it is   *)
(* already too old to keep: "deliver or durably queue it"                    *)
(* (runtime.py:89, 104, 112).                                                *)
SpooledMeansQueued ==
  [][\A a \in Agents :
       pc[a] = "trimCycle" /\ pc'[a] = "waiting" =>
         \/ live[a] \in EventsOf(spool')
         \/ bornAt[live[a]] + MaxAge < now]_vars

(* A cycle ends: the event in memory is sent, queued, given up or lost with  *)
(* its process, whatever the collector answers.                              *)
CycleEnds == \A a \in Agents : live[a] # None ~> live[a] = None

\* Where TelemetryDelivery sees each event.
StatusOf(e) ==
  CASE fate[e] # "none" -> fate[e]
    [] e \in dead -> "dead"
    [] e \in Queued -> "queued"
    [] e \in Held -> "held"
    [] OTHER -> "unborn"

Delivery == INSTANCE TelemetryDelivery
              WITH status <- [e \in Events |-> StatusOf(e)]

(* The processes over one spool implement the promise of TelemetryDelivery.  *)
ImplementsDelivery == Delivery!Spec
=============================================================================
