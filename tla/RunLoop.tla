------------------------------ MODULE RunLoop -------------------------------
(* The loop of AgentRuntime.run (runtime.py:115-158): startup delay, one    *)
(* startup cycle, heartbeats on a grid of deadlines, and a stop that a      *)
(* signal handler asks for at any moment (cli.py:199-208).  The handler     *)
(* runs on the thread of the loop, between two of its steps, and sets a     *)
(* threading.Event whose lock that thread may be holding.                   *)
(*                                                                          *)
(* What a cycle does is AgentRuntime's; here it takes some time and may     *)
(* raise.  Definitions named Faulty are wrong variants of the next one.     *)
(* The names LoopInit, LoopNext, ... leave Init, Next, ... to               *)
(* CollectionCycle, with which this module is extended in Cycles_proofs.    *)
EXTENDS Integers

CONSTANTS
  StartupDelay,  \* startup_delay_sec, in ticks
  Interval,      \* heartbeat_sec, in ticks
  MaxTime        \* bound on the clock

ASSUME DelayAssumption == StartupDelay \in Nat
ASSUME IntervalAssumption == Interval \in Nat \ {0}
ASSUME ClockAssumption == MaxTime \in Nat

VARIABLES
  at,            \* the next step of the loop
  waitStep,      \* where the loop is inside Event.wait
  until,         \* when the wait times out
  flag,          \* the event is set
  now,           \* the monotonic clock
  deadline,      \* next_deadline
  \* history
  requested,     \* a signal asked for the stop
  base,          \* when the grid of deadlines was started
  slot,          \* the interval of the grid the last heartbeat started in
  late           \* cycles started since the stop was requested, at most 2

loopVars ==
  <<at, waitStep, until, flag, now, deadline, requested, base, slot, late>>

PCs == {"start", "delay", "armDelay", "recheck", "beginStartup",
        "startup", "checkStartup", "arm", "pace", "wait", "checkWait",
        "beginBeat", "beat", "checkBeat", "advance", "close", "ended",
        "failed", "stuck"}

\* wait() takes the event's lock ("held"), reads the flag, waits with the lock
\* released ("blocked"), takes it again ("woken") and returns the flag.
WaitSteps == {"out", "held", "blocked", "woken"}

LoopTypeOK ==
  /\ at \in PCs
  /\ waitStep \in WaitSteps
  /\ until \in 0 .. MaxTime + StartupDelay + Interval
  /\ {flag, requested} \subseteq BOOLEAN
  /\ now \in 0 .. MaxTime
  /\ deadline \in 0 .. MaxTime + Interval
  /\ base \in 0 .. MaxTime
  /\ slot \in -1 .. MaxTime
  /\ late \in 0 .. 2

LoopInit ==
  /\ at = "start" /\ waitStep = "out" /\ until = 0
  /\ flag = FALSE
  /\ now = 0 /\ deadline = 0
  /\ requested = FALSE
  /\ base = 0 /\ slot = -1 /\ late = 0

Later(m, n) == IF m < n THEN n ELSE m

FaultyStopped == FALSE

\* stop_event.is_set(), and what wait() returns.
Stopped == flag

\* Leave the loop if the stop was requested, else go on.
Proceed(from, to) ==
  at = from /\ at' = IF Stopped THEN "close" ELSE to

-----------------------------------------------------------------------------
\* The steps of Event.wait.

BeginEventWait(from, to, time) ==
  /\ at = from /\ at' = to
  /\ waitStep' = "held"
  /\ until' = time
  /\ UNCHANGED <<flag, now, deadline, requested, base, slot, late>>

WaitBlock ==
  /\ waitStep = "held"
  /\ waitStep' = IF flag THEN "woken" ELSE "blocked"
  /\ UNCHANGED <<at, until, flag, now, deadline, requested, base, slot, late>>

\* A set() or the timeout wakes it.
WaitWake ==
  /\ waitStep = "blocked"
  /\ flag \/ now >= until
  /\ waitStep' = "woken"
  /\ UNCHANGED <<at, until, flag, now, deadline, requested, base, slot, late>>

EndEventWait(from, to) ==
  /\ waitStep = "woken"
  /\ waitStep' = "out"
  /\ Proceed(from, to)
  /\ UNCHANGED <<until, flag, now, deadline, requested, base, slot, late>>

-----------------------------------------------------------------------------
\* _run_loop.

Check(from, to) ==
  /\ Proceed(from, to)
  /\ UNCHANGED <<waitStep, until, flag, now, deadline, requested, base, slot,
                 late>>

Delay == BeginEventWait("armDelay", "delay", now + StartupDelay)

FaultyNextDeadline(d, t) == IF d <= t THEN d + Interval ELSE d

\* The first deadline of the grid after t, for a deadline d of it.
NextDeadline(d, t) ==
  IF d <= t THEN d + Interval * ((t - d) \div Interval + 1) ELSE d

\* One cycle more has started after the stop; two are enough to count.
Counted(n) == IF requested /\ n < 2 THEN n + 1 ELSE n

\* run_cycle starts; the stop may have come since it was last checked.
BeginStartup ==
  /\ at = "beginStartup" /\ at' = "startup"
  /\ late' = Counted(late)
  /\ UNCHANGED <<waitStep, until, flag, now, deadline, requested, base, slot>>

BeginBeat ==
  /\ at = "beginBeat" /\ at' = "beat"
  /\ late' = Counted(late)
  /\ slot' = (now - base) \div Interval
  /\ UNCHANGED <<waitStep, until, flag, now, deadline, requested, base>>

EndCycle(from, to) ==
  /\ at = from /\ at' = to
  /\ UNCHANGED <<waitStep, until, flag, now, deadline, requested, base, slot,
                 late>>

\* The first deadline is one interval after the startup cycle.
Arm ==
  /\ at = "arm" /\ at' = "pace"
  /\ deadline' = now + Interval
  /\ base' = now
  /\ UNCHANGED <<waitStep, until, flag, now, requested, slot, late>>

Pace == BeginEventWait("pace", "wait", Later(now, deadline))

\* Deadlines missed by a long cycle are skipped.
Advance ==
  /\ at = "advance" /\ at' = "pace"
  /\ deadline' = NextDeadline(deadline, now)
  /\ UNCHANGED <<waitStep, until, flag, now, requested, base, slot, late>>

\* An exception of the cycle leaves run() after the transport is closed.
CycleRaises ==
  /\ at \in {"startup", "beat"} /\ at' = "failed"
  /\ UNCHANGED <<waitStep, until, flag, now, deadline, requested, base, slot,
                 late>>

Close ==
  /\ at = "close" /\ at' = "ended"
  /\ UNCHANGED <<waitStep, until, flag, now, deadline, requested, base, slot,
                 late>>

-----------------------------------------------------------------------------
\* SIGINT or SIGTERM: request_stop runs on the loop's own thread.

Alive == at \notin {"ended", "failed", "stuck"}

HoldsLock == waitStep \in {"held", "woken"}

Signal ==
  /\ Alive /\ ~requested
  /\ ~HoldsLock
  /\ requested' = TRUE
  /\ flag' = TRUE
  /\ UNCHANGED <<at, waitStep, until, now, deadline, base, slot, late>>

\* set() waits for a lock that only the interrupted wait() could release.
SignalLocksUp ==
  /\ Alive /\ ~requested
  /\ HoldsLock
  /\ requested' = TRUE
  /\ at' = "stuck"
  /\ UNCHANGED <<waitStep, until, flag, now, deadline, base, slot, late>>

Tick ==
  /\ Alive /\ now < MaxTime
  /\ now' = now + 1
  /\ UNCHANGED <<at, waitStep, until, flag, deadline, requested, base, slot,
                 late>>

\* The process has ended.
LoopOver == ~Alive /\ UNCHANGED loopVars

Loop ==
  \/ Check("start", "armDelay") \/ Delay \/ EndEventWait("delay", "recheck")
  \/ Check("recheck", "beginStartup")
  \/ BeginStartup \/ EndCycle("startup", "checkStartup")
  \/ Check("checkStartup", "arm") \/ Arm \/ Pace
  \/ EndEventWait("wait", "checkWait") \/ Check("checkWait", "beginBeat")
  \/ BeginBeat \/ EndCycle("beat", "checkBeat")
  \/ Check("checkBeat", "advance") \/ Advance \/ Close
  \/ WaitBlock \/ WaitWake

LoopNext == Loop \/ CycleRaises \/ Signal \/ SignalLocksUp \/ Tick \/ LoopOver

\* The loop's thread runs, and a cycle that has begun ends (AgentRuntime's
\* CycleEnds); nothing makes a signal come.
LoopSpec == LoopInit /\ [][LoopNext]_loopVars /\ WF_loopVars(Loop)

-----------------------------------------------------------------------------
\* Properties.

(* A heartbeat never starts before its deadline, and never twice in one      *)
(* interval: a cycle that outlasts several intervals is not followed by a    *)
(* burst that catches up (runtime.py:156-158).                               *)
Paced == [][BeginBeat => now >= deadline /\ slot' > slot]_loopVars

(* A stop that comes while the loop waits or a cycle runs lets at most the   *)
(* cycle whose check it missed start (runtime.py:147-152).                   *)
StopIsPrompt == late <= 1

(* Once a signal asked for the stop, the loop ends, with the one exception   *)
(* that the handler interrupted wait() while it held the lock of the event   *)
(* (runtime.py:127-129, 147-158).                                            *)
StopEnds == requested ~> at \in {"ended", "failed", "stuck"}
=============================================================================
