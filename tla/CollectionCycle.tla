-------------------------- MODULE CollectionCycle ---------------------------
(* collect_all (orchestrator.py:77-128) over several cycles of one process: *)
(* a thread pool per cycle, one deadline for all collectors, and threads of *)
(* earlier cycles that still run.  One collector, the software inventory    *)
(* (collectors/software.py), holds a lock while its commands run and keeps  *)
(* a cache, both shared by all cycles.                                      *)
(*                                                                          *)
(* A job is a collector's future of one cycle.  Definitions named Faulty    *)
(* are wrong variants of the next definition.                               *)
EXTENDS Integers, FiniteSets

CONSTANTS
  Collectors,    \* the registry
  Software,      \* the software inventory, one of them
  None,          \* no job, no inventory
  MaxWorkers,    \* max_collector_workers
  CacheTTL,      \* cache_ttl_sec, in cycles
  MaxCycles      \* bound on cycles

ASSUME SoftwareAssumption == Software \in Collectors
ASSUME WorkersAssumption == MaxWorkers \in Nat \ {0}
ASSUME BoundAssumption == CacheTTL \in Nat /\ MaxCycles \in Nat

Cycles == 1 .. MaxCycles
Jobs == Cycles \X Collectors

ASSUME NoneAssumption == None \notin Jobs \cup Cycles

VARIABLES
  pc,            \* the next step of the cycle's thread
  cycle,         \* the current cycle
  job,           \* the state of each job
  expired,       \* the deadline of the current cycle has passed
  unread,        \* collectors whose future is still to be asked again
  unfinished,    \* collectors found unfinished
  result,        \* what the current cycle reports of each collector
  lock,          \* the job that holds the software lock
  clock,         \* the time its holder has read, in cycles
  cache,         \* the time of the cached inventory, or None
  \* history
  since          \* the cycle in which the lock was taken

main == <<pc, cycle, expired, unread, unfinished, result>>
inventory == <<lock, clock, cache, since>>
vars == <<main, job, inventory>>

\* The software job waits for its lock ("locking"), has it ("locked"), has
\* read the clock ("judging"), and runs its commands ("running").
JobStates ==
  {"none", "pending", "locking", "locked", "judging", "running", "finished",
   "cancelled"}

TypeOK ==
  /\ pc \in {"idle", "waiting", "asking", "cancelling", "reporting", "over"}
  /\ cycle \in 0 .. MaxCycles
  /\ job \in [Jobs -> JobStates]
  /\ expired \in BOOLEAN
  /\ unread \subseteq Collectors /\ unfinished \subseteq Collectors
  /\ result \in [Collectors -> {"none", "data", "timedOut"}]
  /\ lock \in (Cycles \X {Software}) \cup {None}
  /\ clock \in 0 .. cycle /\ since \in 0 .. cycle
  /\ cache \in 1 .. cycle \cup {None}

Init ==
  /\ pc = "idle" /\ cycle = 0
  /\ job = [j \in Jobs |-> "none"]
  /\ expired = FALSE
  /\ unread = {} /\ unfinished = {}
  /\ result = [c \in Collectors |-> "none"]
  /\ lock = None /\ cache = None
  /\ clock = 0 /\ since = 0

-----------------------------------------------------------------------------

Current(c) == job[<<cycle, c>>]

\* The threads of a cycle's pool that have a job.
Busy(n) ==
  {c \in Collectors :
     job[<<n, c>>] \in {"locking", "locked", "judging", "running"}}

Done(state) == state \in {"finished", "cancelled"}

Go(from, to) == pc = from /\ pc' = to

-----------------------------------------------------------------------------
\* The thread of the cycle.

Submit ==
  /\ Go("idle", "waiting")
  /\ cycle < MaxCycles
  /\ cycle' = cycle + 1
  /\ job' = [j \in Jobs |-> IF j[1] = cycle + 1 THEN "pending" ELSE job[j]]
  /\ expired' = FALSE
  /\ unread' = {} /\ unfinished' = {}
  /\ result' = [c \in Collectors |-> "none"]
  /\ UNCHANGED <<inventory>>

Deadline ==
  /\ pc = "waiting" /\ ~expired
  /\ expired' = TRUE
  /\ UNCHANGED <<pc, cycle, job, unread, unfinished, result, inventory>>

FaultyWaitOver == \A c \in Collectors : Done(Current(c))

\* wait() returns when all futures are done, or at the deadline.
WaitOver == expired \/ \A c \in Collectors : Done(Current(c))

EndWait ==
  /\ Go("waiting", "asking")
  /\ WaitOver
  /\ unread' = {c \in Collectors : ~Done(Current(c))}
  /\ UNCHANGED <<cycle, job, expired, unfinished, result, inventory>>

\* Those not done when wait() returned are asked once more, one by one.
Ask(c) ==
  /\ pc = "asking" /\ c \in unread
  /\ unread' = unread \ {c}
  /\ unfinished' = IF Done(Current(c)) THEN unfinished ELSE unfinished \cup {c}
  /\ UNCHANGED <<pc, cycle, job, expired, result, inventory>>

\* cancel() drops the jobs no thread has begun; others run on.
Cancel ==
  /\ Go("asking", "cancelling")
  /\ unread = {}
  /\ job' = [j \in Jobs |->
               IF j[1] = cycle /\ j[2] \in unfinished /\ job[j] = "pending"
               THEN "cancelled" ELSE job[j]]
  /\ UNCHANGED <<cycle, expired, unread, unfinished, result, inventory>>

FaultyTimedOut(c) == ~Done(Current(c))

\* A result is a timeout for the collectors found unfinished, even if they
\* have finished since.
TimedOut(c) == c \in unfinished

Report ==
  /\ Go("cancelling", "reporting")
  /\ result' = [c \in Collectors |-> IF TimedOut(c) THEN "timedOut" ELSE "data"]
  /\ UNCHANGED <<cycle, job, expired, unread, unfinished, inventory>>

\* shutdown(wait=False, cancel_futures=True): no thread is waited for.
Shutdown ==
  /\ Go("reporting", IF cycle < MaxCycles THEN "idle" ELSE "over")
  /\ job' = [j \in Jobs |->
               IF j[1] = cycle /\ job[j] = "pending" THEN "cancelled"
               ELSE job[j]]
  /\ UNCHANGED <<cycle, expired, unread, unfinished, result, inventory>>

-----------------------------------------------------------------------------
\* The threads of the pools.

\* Of the software job: its first step is to wait for the lock.
Begin(j) ==
  /\ job[j] = "pending"
  /\ Cardinality(Busy(j[1])) < MaxWorkers
  /\ job' = [job EXCEPT ![j] = IF j[2] = Software THEN "locking" ELSE "running"]
  /\ UNCHANGED <<main, inventory>>

\* Any other collector finishes or raises: both finish its future.
Finish(j) ==
  /\ job[j] = "running" /\ j[2] # Software
  /\ job' = [job EXCEPT ![j] = "finished"]
  /\ UNCHANGED <<main, inventory>>

\* The lock is kept until the job answers, over the package commands too.
TakeLock(j) ==
  /\ job[j] = "locking" /\ lock = None
  /\ job' = [job EXCEPT ![j] = "locked"]
  /\ lock' = j
  /\ since' = cycle
  /\ UNCHANGED <<main, clock, cache>>

\* The clock was read when the collection began, before the wait for the lock.
FaultyReadClock(j) ==
  /\ job[j] = "locked"
  /\ job' = [job EXCEPT ![j] = "judging"]
  /\ clock' = j[1]
  /\ UNCHANGED <<main, lock, cache, since>>

\* The clock is read with the lock held.
ReadClock(j) ==
  /\ job[j] = "locked"
  /\ job' = [job EXCEPT ![j] = "judging"]
  /\ clock' = cycle
  /\ UNCHANGED <<main, lock, cache, since>>

\* The cached inventory is in its term.
Fresh == cache # None /\ clock - cache \in 0 .. CacheTTL - 1

AnswerFromCache(j) ==
  /\ job[j] = "judging"
  /\ Fresh
  /\ job' = [job EXCEPT ![j] = "finished"]
  /\ lock' = None
  /\ UNCHANGED <<main, clock, cache, since>>

RunCommands(j) ==
  /\ job[j] = "judging"
  /\ ~Fresh
  /\ job' = [job EXCEPT ![j] = "running"]
  /\ UNCHANGED <<main, inventory>>

\* The commands answer: the cache is renewed, with the time of now.
StoreInventory(j) ==
  /\ job[j] = "running" /\ j[2] = Software
  /\ job' = [job EXCEPT ![j] = "finished"]
  /\ lock' = None
  /\ cache' = cycle
  /\ UNCHANGED <<main, clock, since>>

\* None of them is available, or one raises: the cache stays as it is.
NoInventory(j) ==
  /\ job[j] = "running" /\ j[2] = Software
  /\ job' = [job EXCEPT ![j] = "finished"]
  /\ lock' = None
  /\ UNCHANGED <<main, clock, cache, since>>

-----------------------------------------------------------------------------

Main ==
  \/ Submit \/ EndWait \/ Cancel \/ Report \/ Shutdown
  \/ \E c \in Collectors : Ask(c)

Thread(j) ==
  \/ Begin(j) \/ Finish(j) \/ TakeLock(j) \/ ReadClock(j)
  \/ AnswerFromCache(j) \/ RunCommands(j) \/ StoreInventory(j) \/ NoInventory(j)

\* All cycles of the instance have been run.
Over == pc = "over" /\ UNCHANGED vars

Next == Main \/ Deadline \/ Over \/ \E j \in Jobs : Thread(j)

\* The cycle's thread runs and its clock goes on; a collector's thread may
\* hang for ever, so no fairness is assumed of it.
Spec == Init /\ [][Next]_vars /\ WF_vars(Main) /\ WF_vars(Deadline)

-----------------------------------------------------------------------------
\* Properties.

(* The cycle asks a future for its result only when it has one: it never     *)
(* blocks on a running collector nor gets the CancelledError of one it       *)
(* cancelled itself (orchestrator.py:108-121), whatever finishes between the *)
(* wait, the second look and the report.                                     *)
ResultsAreThere ==
  pc = "reporting" =>
    \A c \in Collectors : result[c] = "data" => Current(c) = "finished"

(* The jobs of all cycles, late ones too, take the inventory from each other *)
(* by its term: no job answers with one whose term was over when the job     *)
(* came to have the lock, however long it had waited for it, and the package *)
(* commands of two jobs never overlap, so that an inventory is replaced only *)
(* when its term is over (software.py:237-264).                              *)
InventoryHasItsTerm ==
  [][\A j \in Jobs :
       /\ AnswerFromCache(j) => since - cache < CacheTTL
       /\ StoreInventory(j) => cache = None \/ cycle - cache >= CacheTTL]_vars

(* Every cycle ends although collectors may hang for ever.                   *)
CyclesEnd == pc = "waiting" ~> pc \in {"idle", "over"}
=============================================================================
