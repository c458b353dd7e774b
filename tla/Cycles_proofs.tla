---------------------------- MODULE Cycles_proofs ----------------------------
(* Theorems about the cycles of the agent: the loop that starts them        *)
(* (RunLoop, for every interval and startup delay) and the collection in    *)
(* one (CollectionCycle, for every registry, every number of threads and    *)
(* cycles, and every life of the cache).                                    *)
EXTENDS RunLoop, CollectionCycle, TLAPS

-----------------------------------------------------------------------------
(* The loop.                                                                *)

(* A request is in the event's flag, unless its handler is stuck in set().  *)
Noted == requested /\ at # "stuck" => flag

(* After a cycle that started late, the next step of the loop is a check    *)
(* that finds the flag set.                                                 *)
Late ==
  /\ late \in 0 .. 1
  /\ late = 1 =>
       /\ requested
       /\ at \in {"startup", "checkStartup", "beat", "checkBeat", "close",
                  "ended", "failed", "stuck"}

\* Event.wait is under way at its two places only.
Waiting == waitStep # "out" => at \in {"delay", "wait", "stuck"}

LoopInv == Noted /\ Late /\ Waiting

LEMMA LoopInvInit == LoopInit => LoopInv
BY DEF LoopInit, LoopInv, Noted, Late, Waiting

LEMMA LoopInvStep == LoopInv /\ [LoopNext]_loopVars => LoopInv'
<1> SUFFICES ASSUME LoopInv, [LoopNext]_loopVars PROVE LoopInv'
  OBVIOUS
<1> USE DEF LoopInv, Noted, Late, Waiting
<1>1. ASSUME NEW from, NEW to, Check(from, to),
             <<from, to>> \in {<<"start", "armDelay">>,
                               <<"recheck", "beginStartup">>,
                               <<"checkStartup", "arm">>,
                               <<"checkWait", "beginBeat">>,
                               <<"checkBeat", "advance">>}
      PROVE  LoopInv'
  BY <1>1 DEF Check, Proceed, Stopped
<1>2. ASSUME Delay \/ Pace PROVE LoopInv'
  BY <1>2 DEF Delay, Pace, BeginEventWait
<1>3. ASSUME \/ EndEventWait("delay", "recheck")
             \/ EndEventWait("wait", "checkWait")
      PROVE  LoopInv'
  BY <1>3 DEF EndEventWait, Proceed, Stopped
<1>4. ASSUME BeginStartup \/ BeginBeat PROVE LoopInv'
  BY <1>4 DEF BeginStartup, BeginBeat, Counted
<1>5. ASSUME \/ EndCycle("startup", "checkStartup")
             \/ EndCycle("beat", "checkBeat") \/ CycleRaises
      PROVE  LoopInv'
  BY <1>5 DEF EndCycle, CycleRaises
<1>6. ASSUME Arm \/ Advance \/ Close PROVE LoopInv'
  BY <1>6 DEF Arm, Advance, Close
<1>7. ASSUME WaitBlock \/ WaitWake PROVE LoopInv'
  BY <1>7 DEF WaitBlock, WaitWake
<1>8. ASSUME Signal \/ SignalLocksUp PROVE LoopInv'
  BY <1>8 DEF Signal, SignalLocksUp, Alive, HoldsLock
<1>9. ASSUME Tick \/ UNCHANGED loopVars PROVE LoopInv'
  BY <1>9 DEF Tick, loopVars
<1> QED
  BY <1>1, <1>2, <1>3, <1>4, <1>5, <1>6, <1>7, <1>8, <1>9
     DEF LoopNext, Loop, LoopOver

(* Whenever the stop comes, at most the cycle whose check it missed still   *)
(* starts (runtime.py:147-152).                                             *)
THEOREM TheStopIsPrompt == LoopSpec => []StopIsPrompt
<1>1. LoopInv => StopIsPrompt
  BY DEF LoopInv, Late, StopIsPrompt
<1> QED  BY <1>1, LoopInvInit, LoopInvStep, PTL DEF LoopSpec

\* A number of whole intervals.
LEMMA Quotient ==
  ASSUME NEW x \in Nat, NEW n \in Nat \ {0}
  PROVE  x \div n \in Nat /\ n * (x \div n) <= x /\ x < n * (x \div n) + n
OBVIOUS

LEMMA LessTimes ==
  ASSUME NEW k \in Int, NEW m \in Int, NEW n \in Nat \ {0}
  PROVE  n * k < n * m <=> k < m
OBVIOUS

LEMMA Before ==
  ASSUME NEW k \in Nat, NEW m \in Nat, NEW n \in Nat \ {0}, NEW x \in Nat,
         n * k <= x, x < n * m + n
  PROVE  k < m + 1
<1>1. n * (m + 1) = n * m + n
  OBVIOUS
<1>2. n * k < n * (m + 1)
  BY <1>1
<1> QED  BY <1>2, LessTimes

(* The deadlines form a grid that starts at base; while the loop waits for  *)
(* one, the last heartbeat began in an earlier interval than it opens.      *)
OnGrid == \E k \in Nat : deadline = base + Interval * k
Ahead == \E k \in Nat : deadline = base + Interval * k /\ slot < k

Timed ==
  /\ now \in Nat /\ deadline \in Nat /\ base \in Nat /\ base <= now
  /\ slot \in Int /\ until \in Nat
  /\ Interval * slot <= now - base
  /\ at \in {"start", "delay", "armDelay", "recheck", "beginStartup", "startup",
             "checkStartup", "arm"} => slot = -1
  /\ at \in {"pace", "wait", "checkWait", "beginBeat"} => Ahead
  /\ at \in {"beat", "checkBeat", "advance"} => now >= deadline /\ OnGrid
  /\ at = "wait" => deadline <= until
  /\ at = "wait" /\ waitStep = "woken" => flag \/ now >= deadline
  /\ at \in {"checkWait", "beginBeat"} => now >= deadline

LEMMA TimedInit == LoopInit => Timed
BY IntervalAssumption DEF LoopInit, Timed

LEMMA TimedStep == LoopInv /\ Timed /\ [LoopNext]_loopVars => Timed'
<1> SUFFICES ASSUME LoopInv, Timed, [LoopNext]_loopVars PROVE Timed'
  OBVIOUS
<1> USE DelayAssumption, IntervalAssumption, ClockAssumption DEF Timed
<1>0. /\ UNCHANGED <<deadline, base>> /\ OnGrid => OnGrid'
      /\ UNCHANGED <<deadline, base, slot>> /\ Ahead => Ahead'
      /\ UNCHANGED <<deadline, base>> /\ Ahead => OnGrid'
      /\ now' = now + 1 => Interval * slot <= now' - base
  <2>1. /\ UNCHANGED <<deadline, base>> /\ OnGrid => OnGrid'
        /\ UNCHANGED <<deadline, base, slot>> /\ Ahead => Ahead'
        /\ UNCHANGED <<deadline, base>> /\ Ahead => OnGrid'
    BY DEF OnGrid, Ahead
  <2>2. Interval * slot \in Int
    OBVIOUS
  <2> QED  BY <2>1, <2>2
<1>1. ASSUME NEW from, NEW to, Check(from, to),
             <<from, to>> \in {<<"start", "armDelay">>,
                               <<"recheck", "beginStartup">>,
                               <<"checkStartup", "arm">>,
                               <<"checkWait", "beginBeat">>,
                               <<"checkBeat", "advance">>}
      PROVE  Timed'
  BY <1>0, <1>1 DEF Check, Proceed, Stopped
<1>2. ASSUME Delay \/ Pace PROVE Timed'
  BY <1>0, <1>2 DEF Delay, Pace, BeginEventWait, Later
<1>3. ASSUME \/ EndEventWait("delay", "recheck")
             \/ EndEventWait("wait", "checkWait")
      PROVE  Timed'
  BY <1>0, <1>3 DEF EndEventWait, Proceed, Stopped
<1>4. ASSUME BeginStartup PROVE Timed'
  BY <1>0, <1>4 DEF BeginStartup
<1>5. ASSUME BeginBeat PROVE Timed'
  <2>1. slot' = (now - base) \div Interval /\ now - base \in Nat
    BY <1>5 DEF BeginBeat
  <2>2. slot' \in Nat /\ Interval * slot' <= now - base
    BY <2>1, Quotient
  <2> QED  BY <1>0, <1>5, <2>2 DEF BeginBeat
<1>6. ASSUME \/ EndCycle("startup", "checkStartup")
             \/ EndCycle("beat", "checkBeat") \/ CycleRaises
             \/ Close
      PROVE  Timed'
  BY <1>0, <1>6 DEF EndCycle, CycleRaises, Close
<1>7. ASSUME Arm PROVE Timed'
  <2>1. deadline' = base' + Interval * 1 /\ slot' = -1 /\ base' = now
    BY <1>7 DEF Arm
  <2>2. Ahead'
    BY <2>1 DEF Ahead
  <2> QED  BY <1>7, <2>1, <2>2 DEF Arm
<1>8. ASSUME Advance PROVE Timed'
  <2>1. PICK k \in Nat : deadline = base + Interval * k
    BY <1>8 DEF Advance, OnGrid
  <2>2. now - deadline \in Nat /\ UNCHANGED <<now, base, slot, until>>
    BY <1>8 DEF Advance
  <2>3. PICK m \in Nat : /\ m = (now - deadline) \div Interval
                         /\ now - deadline < Interval * m + Interval
    BY <2>2, Quotient
  <2>4. deadline' = deadline + Interval * (m + 1)
    BY <1>8, <2>2, <2>3 DEF Advance, NextDeadline
  <2>5. deadline' = base + Interval * (k + m + 1)
    BY <2>1, <2>3, <2>4
  <2>6. Interval * slot < Interval * (k + m + 1)
    BY <2>1, <2>3
  <2>7. slot < k + m + 1
    BY <2>1, <2>3, <2>6, LessTimes
  <2>8. Ahead'
    <3>1. k + m + 1 \in Nat /\ base' = base /\ slot' = slot
      BY <2>1, <2>2, <2>3
    <3>2. PICK q \in Nat : q = k + m + 1
      BY <3>1
    <3>3. deadline' = base' + Interval * q /\ slot' < q
      BY <2>5, <2>7, <3>1, <3>2
    <3> QED  BY <3>3 DEF Ahead
  <2>9. deadline' \in Nat
    BY <2>3, <2>4
  <2> QED  BY <1>8, <2>2, <2>8, <2>9 DEF Advance
<1>9. ASSUME WaitBlock \/ WaitWake PROVE Timed'
  BY <1>0, <1>9 DEF WaitBlock, WaitWake
<1>10. ASSUME Signal \/ SignalLocksUp PROVE Timed'
  BY <1>0, <1>10 DEF Signal, SignalLocksUp, Alive, HoldsLock
<1>11. ASSUME Tick PROVE Timed'
  BY <1>0, <1>11 DEF Tick
<1>12. ASSUME UNCHANGED loopVars PROVE Timed'
  BY <1>0, <1>12 DEF loopVars
<1> QED
  BY <1>1, <1>2, <1>3, <1>4, <1>5, <1>6, <1>7, <1>8, <1>9, <1>10, <1>11, <1>12
     DEF LoopNext, Loop, LoopOver

(* Heartbeats keep to the grid: none starts before its deadline, and never  *)
(* two in one interval (runtime.py:156-158).                                *)
THEOREM HeartbeatsArePaced == LoopSpec => Paced
<1> USE IntervalAssumption
<1>1. LoopInv /\ Timed /\ [LoopNext]_loopVars
        => [BeginBeat => now >= deadline /\ slot' > slot]_loopVars
  <2> SUFFICES ASSUME Timed, BeginBeat
               PROVE  now >= deadline /\ slot' > slot
    OBVIOUS
  <2>1. now >= deadline /\ slot' = (now - base) \div Interval
    BY DEF Timed, BeginBeat
  <2>2. PICK k \in Nat : deadline = base + Interval * k /\ slot < k
    BY DEF Timed, Ahead, BeginBeat
  <2>3. now - base \in Nat /\ slot \in Int /\ Interval * k <= now - base
    BY <2>1, <2>2 DEF Timed
  <2>4. slot' \in Nat /\ now - base < Interval * slot' + Interval
    BY <2>1, <2>3, Quotient
  <2>5. k < slot' + 1
    <3>1. PICK q \in Nat : q = slot'
      BY <2>4
    <3>2. PICK x \in Nat : x = now - base
      BY <2>3
    <3>3. Interval * k <= x /\ x < Interval * q + Interval
      BY <2>3, <2>4, <3>1, <3>2
    <3>4. k < q + 1
      BY <3>3, Before
    <3> QED  BY <3>1, <3>4
  <2> QED  BY <2>1, <2>2, <2>3, <2>4, <2>5
<1> QED
  BY <1>1, LoopInvInit, LoopInvStep, TimedInit, TimedStep, PTL
     DEF LoopSpec, Paced

-----------------------------------------------------------------------------
(* The collection.                                                          *)

Typed ==
  /\ cycle \in 0 .. MaxCycles
  /\ pc \notin {"idle", "over"} => cycle \in Cycles
  /\ job \in [Jobs -> JobStates]
  /\ \A j \in Jobs : job[j] # "none" => cycle \in Cycles

(* A collector that is neither still to be asked nor found unfinished has   *)
(* a future that is done; only Cancel makes futures that are done without a *)
(* result, of collectors it has found unfinished.                           *)
Looked ==
  /\ pc = "waiting" => \A c \in Collectors : Current(c) # "cancelled"
  /\ pc = "asking" =>
       \A c \in Collectors :
         /\ Current(c) # "cancelled"
         /\ c \notin unread \cup unfinished => Current(c) = "finished"
  /\ pc \in {"cancelling", "reporting"} =>
       \A c \in Collectors : c \notin unfinished => Current(c) = "finished"
  /\ pc = "cancelling" => unread = {}
  /\ pc = "reporting" =>
       \A c \in Collectors : result[c] = "data" => c \notin unfinished

IInv == Typed /\ Looked

LEMMA IInvInit == Init => IInv
BY BoundAssumption DEF Init, IInv, Typed, Looked, Jobs, JobStates, Cycles

\* The thread of a job moves it on and leaves the cycle's thread alone.
LEMMA ThreadStep ==
  ASSUME IInv, NEW j \in Jobs, Thread(j)
  PROVE  IInv'
<1> DEFINE States == {"locking", "locked", "judging", "running", "finished"}
<1>0. /\ job[j] \in {"pending", "locking", "locked", "judging", "running"}
      /\ \E state \in States : job' = [job EXCEPT ![j] = state]
      /\ UNCHANGED main
  BY DEF Thread, Begin, Finish, TakeLock, ReadClock, AnswerFromCache,
         RunCommands, StoreInventory, NoInventory
<1>1. Typed'
  BY <1>0 DEF IInv, Typed, JobStates, main
<1>2. \A i \in Jobs : /\ job[i] = "finished" => job'[i] = "finished"
                      /\ job'[i] = "cancelled" => job[i] = "cancelled"
  BY <1>0 DEF IInv, Typed
<1>3. pc \notin {"idle", "over"} =>
        \A c \in Collectors :
          /\ Current(c) = "finished" => Current(c)' = "finished"
          /\ Current(c)' = "cancelled" => Current(c) = "cancelled"
  BY <1>0, <1>2 DEF IInv, Typed, Current, Jobs, main
<1>4. Looked'
  BY <1>0, <1>3 DEF IInv, Looked, main
<1> QED  BY <1>1, <1>4 DEF IInv

LEMMA IInvStep == IInv /\ [Next]_vars => IInv'
<1> SUFFICES ASSUME IInv, [Next]_vars PROVE IInv'
  OBVIOUS
<1> USE DEF Go
<1>1. ASSUME Submit PROVE IInv'
  <2>1. cycle' \in Cycles /\ pc' = "waiting"
    BY <1>1, BoundAssumption DEF Submit, IInv, Typed, Cycles
  <2>2. Typed'
    BY <1>1, <2>1 DEF Submit, IInv, Typed, JobStates, Cycles
  <2>3. \A c \in Collectors : Current(c)' = "pending"
    BY <1>1, <2>1 DEF Submit, Current, Jobs
  <2> QED  BY <2>1, <2>2, <2>3 DEF IInv, Looked
<1>2. ASSUME Deadline PROVE IInv'
  BY <1>2 DEF Deadline, IInv, Typed, Looked, Current
<1>3. ASSUME EndWait PROVE IInv'
  <2>1. \A c \in Collectors : c \notin unread' => Current(c) = "finished"
    BY <1>3 DEF EndWait, Done, IInv, Looked
  <2> QED  BY <1>3, <2>1 DEF EndWait, IInv, Typed, Looked, Current
<1>4. ASSUME NEW c \in Collectors, Ask(c) PROVE IInv'
  <2>1. c \notin unfinished' => Current(c) = "finished"
    BY <1>4 DEF Ask, Done, IInv, Looked
  <2> QED  BY <1>4, <2>1 DEF Ask, IInv, Typed, Looked, Current
<1>5. ASSUME Cancel PROVE IInv'
  <2>1. Typed'
    BY <1>5 DEF Cancel, IInv, Typed, JobStates
  <2>2. ASSUME NEW c \in Collectors, c \notin unfinished'
        PROVE  Current(c)' = "finished"
    <3>1. Current(c) = "finished" /\ c \notin unfinished
      BY <1>5, <2>2 DEF Cancel, IInv, Looked
    <3>2. <<cycle, c>> \in Jobs
      BY <1>5 DEF Cancel, IInv, Typed, Jobs
    <3> QED  BY <1>5, <3>1, <3>2 DEF Cancel, Current
  <2> QED  BY <1>5, <2>1, <2>2 DEF Cancel, IInv, Looked
<1>6. ASSUME Report PROVE IInv'
  BY <1>6 DEF Report, TimedOut, IInv, Typed, Looked, Current
<1>7. ASSUME Shutdown PROVE IInv'
  <2>1. Typed'
    BY <1>7 DEF Shutdown, IInv, Typed, JobStates
  <2> QED  BY <1>7, <2>1 DEF Shutdown, IInv, Looked
<1>8. ASSUME NEW j \in Jobs, Thread(j) PROVE IInv'
  BY <1>8, ThreadStep
<1>9. ASSUME UNCHANGED vars PROVE IInv'
  BY <1>9 DEF vars, main, IInv, Typed, Looked, Current
<1> QED
  BY <1>1, <1>2, <1>3, <1>4, <1>5, <1>6, <1>7, <1>8, <1>9 DEF Next, Main, Over

(* A future is asked for its result only when it has one                    *)
(* (orchestrator.py:108-121), whatever finishes meanwhile.                  *)
THEOREM ResultsAreAsked == Spec => []ResultsAreThere
<1>1. IInv => ResultsAreThere
  BY DEF IInv, Looked, ResultsAreThere
<1> QED  BY <1>1, IInvInit, IInvStep, PTL DEF Spec

\* From the lock to the answer.
Holds(j) ==
  job[j] \in {"locked", "judging"} \/ (job[j] = "running" /\ j[2] = Software)

(* One job has the lock.  The time it judges the cache by is from after it  *)
(* got the lock, and the cache stays as it judged it until it is done.      *)
Term ==
  /\ clock \in Nat /\ since \in 0 .. cycle
  /\ cache # None => cache \in Nat /\ cache <= cycle
  /\ \A j \in Jobs :
       /\ Holds(j) => lock = j
       /\ job[j] = "judging" =>
            since <= clock /\ clock <= cycle /\ (cache = None \/ cache <= clock)
       /\ job[j] = "running" /\ j[2] = Software =>
            cache = None \/ cycle - cache >= CacheTTL

LEMMA TermInit == Init => Term
BY BoundAssumption DEF Init, Term, Holds

\* The cycle's thread leaves the software job alone; its clock goes on.
LEMMA TermMain ==
  ASSUME IInv, Term, UNCHANGED inventory, cycle' \in Nat, cycle <= cycle',
         \A j \in Jobs : job'[j] = job[j] \/ job'[j] \in {"pending", "cancelled"}
  PROVE  Term'
BY BoundAssumption DEF IInv, Typed, Term, Holds, inventory

LEMMA TermThread ==
  ASSUME IInv, Term, NEW j \in Jobs, Thread(j) PROVE Term'
<1> USE BoundAssumption, NoneAssumption
<1>0. /\ job = [i \in Jobs |-> job[i]] /\ cycle' = cycle /\ cycle \in Nat
      /\ job[j] # "none" => cycle \in Cycles
  BY DEF IInv, Typed, Thread, Begin, Finish, TakeLock, ReadClock,
         AnswerFromCache, RunCommands, StoreInventory, NoInventory, main
<1>1. CASE Begin(j) \/ Finish(j)
  BY <1>0, <1>1 DEF Begin, Finish, Term, Holds, inventory
<1>2. CASE TakeLock(j)
  BY <1>0, <1>2 DEF TakeLock, Term, Holds
<1>3. CASE ReadClock(j)
  BY <1>0, <1>3 DEF ReadClock, Term, Holds
<1>4. CASE AnswerFromCache(j)
  BY <1>0, <1>4 DEF AnswerFromCache, Term, Holds
<1>5. CASE RunCommands(j)
  BY <1>0, <1>5 DEF RunCommands, Fresh, Term, Holds, inventory
<1>6. CASE StoreInventory(j)
  BY <1>0, <1>6 DEF StoreInventory, Term, Holds, Cycles
<1>7. CASE NoInventory(j)
  BY <1>0, <1>7 DEF NoInventory, Term, Holds
<1> QED  BY <1>1, <1>2, <1>3, <1>4, <1>5, <1>6, <1>7 DEF Thread

LEMMA TermStep == IInv /\ Term /\ [Next]_vars => Term'
<1> SUFFICES ASSUME IInv, Term, [Next]_vars PROVE Term'
  OBVIOUS
<1>1. ASSUME Main \/ Deadline \/ UNCHANGED vars PROVE Term'
  <2>1. cycle \in Nat /\ cycle' \in Nat /\ cycle <= cycle' /\ UNCHANGED inventory
    BY <1>1, BoundAssumption
       DEF IInv, Typed, Main, Submit, EndWait, Cancel, Report, Shutdown, Ask,
           Deadline, vars, main
  <2>2. \A j \in Jobs : job'[j] = job[j] \/ job'[j] \in {"pending", "cancelled"}
    BY <1>1 DEF Main, Submit, EndWait, Cancel, Report, Shutdown, Ask, Deadline,
                vars
  <2> QED  BY <2>1, <2>2, TermMain
<1> QED  BY <1>1, TermThread DEF Next, Over

(* However long a job waits for the lock, and whatever the jobs of other    *)
(* cycles do meanwhile, it answers with no inventory whose term was over    *)
(* when it got the lock, and its commands replace none that has a term left *)
(* (software.py:237-264).                                                   *)
THEOREM InventoriesKeepTheirTerm == Spec => InventoryHasItsTerm
<1> DEFINE Kept ==
      \A j \in Jobs :
        /\ AnswerFromCache(j) => since - cache < CacheTTL
        /\ StoreInventory(j) => cache = None \/ cycle - cache >= CacheTTL
<1>1. IInv /\ Term /\ [Next]_vars => [Kept]_vars
  <2> SUFFICES ASSUME Term, NEW j \in Jobs
               PROVE  /\ AnswerFromCache(j) => since - cache < CacheTTL
                      /\ StoreInventory(j) => cache = None \/ cycle - cache >= CacheTTL
    OBVIOUS
  <2>1. ASSUME AnswerFromCache(j) PROVE since - cache < CacheTTL
    BY <2>1, BoundAssumption DEF AnswerFromCache, Fresh, Term
  <2>2. ASSUME StoreInventory(j) PROVE cache = None \/ cycle - cache >= CacheTTL
    BY <2>2 DEF StoreInventory, Term
  <2> QED  BY <2>1, <2>2
<1> QED
  BY <1>1, IInvInit, IInvStep, TermInit, TermStep, PTL
     DEF Spec, InventoryHasItsTerm
=============================================================================
