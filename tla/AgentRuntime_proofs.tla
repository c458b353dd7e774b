------------------------ MODULE AgentRuntime_proofs ------------------------
(* Theorems about AgentRuntime, for every set of events and of processes    *)
(* and every value of the limits.                                           *)
EXTENDS AgentRuntime, FiniteSetTheorems, WellFoundedInduction, TLAPS

\* A process has a live event exactly while a cycle runs.
Phases ==
  \A a \in Agents : live[a] = None <=> pc[a] \in {"down", "waiting"}

TypedPhases == TypeOK /\ Phases

LEMMA TypedPhasesInit == Init => TypedPhases
BY EventsAssumption, LimitAssumption
   DEF Init, TypedPhases, TypeOK, Phases, Times, PCs, Fates

LEMMA FallTyped ==
  ASSUME TypedPhases, NEW a \in Agents, NEW R \in SUBSET spool, Fall(a, R)
  PROVE  TypedPhases'
BY DEF Fall, TypedPhases, TypeOK, Phases, PCs, Fates

\* A retention pass evicts pending records.
LEMMA DuePending == \A a : Due(a) \subseteq spool
BY DEF Due, Expired

LEMMA TypedPhasesStep == TypedPhases /\ [Next]_vars => TypedPhases'
<1> SUFFICES ASSUME TypedPhases, [Next]_vars PROVE TypedPhases'
  OBVIOUS
<1> USE EventsAssumption, LimitAssumption DEF TypedPhases
<1>1. ASSUME NEW a \in Agents, Start(a) PROVE TypedPhases'
  BY <1>1 DEF Start, TypeOK, Phases, PCs
<1>2. ASSUME NEW a \in Agents, Exit(a) PROVE TypedPhases'
  BY <1>2 DEF Exit, TypeOK, Phases, PCs
<1>3. ASSUME NEW a \in Agents, Crash(a) PROVE TypedPhases'
  BY <1>3, FallTyped DEF Crash
<1>4. ASSUME NEW a \in Agents, CrashMidPass(a) PROVE TypedPhases'
  <2>1. PICK r \in Due(a) : Fall(a, {s \in Due(a) : ~Older(r, s)})
    BY <1>4 DEF CrashMidPass
  <2> QED  BY <2>1, DuePending, FallTyped
<1>5. ASSUME Tick PROVE TypedPhases'
  BY <1>5 DEF Tick, TypeOK, Phases, Times
<1>6. ASSUME NEW e \in Events, CollectorAccepts(e) PROVE TypedPhases'
  BY <1>6 DEF CollectorAccepts, TypeOK, Phases
<1>7. ASSUME NEW a \in Agents, NEW e \in Events, BuildEvent(a, e)
      PROVE  TypedPhases'
  BY <1>7 DEF BuildEvent, TypeOK, Phases, PCs
<1>8. ASSUME NEW a \in Agents, ListBacklog(a) PROVE TypedPhases'
  BY <1>8 DEF ListBacklog, OldestBatch, TypeOK, Phases, PCs
<1>9. ASSUME NEW a \in Agents, LoadMissing(a) PROVE TypedPhases'
  BY <1>9 DEF LoadMissing, TypeOK, Phases, PCs
<1>10. ASSUME NEW a \in Agents, LoadCorrupt(a) PROVE TypedPhases'
  <2>1. PICK r \in batch[a] \cap spool :
          /\ spool' = spool \ {r}
          /\ dead' = dead \cup {r.event}
          /\ batch' = [batch EXCEPT ![a] = @ \ {r}]
    BY <1>10 DEF LoadCorrupt
  <2>2. r.event \in Events
    BY DEF TypeOK, Records
  <2>3. UNCHANGED <<now, sent, received, pc, live, listed, clock, bornAt, fate>>
    BY <1>10 DEF LoadCorrupt
  <2> QED  BY <2>1, <2>2, <2>3 DEF TypeOK, Phases
<1>11. ASSUME NEW a \in Agents, LoadAndSend(a) PROVE TypedPhases'
  BY <1>11 DEF LoadAndSend, TypeOK, Phases, PCs, Records, BacklogPCs
<1>12. ASSUME NEW a \in Agents, BacklogAnswered(a) PROVE TypedPhases'
  <2>1. \A k : AfterReplayResult(k) \in {"acking", "rejecting", "expireReplay"}
    BY DEF AfterReplayResult
  <2> QED
    BY <1>12, <2>1
       DEF BacklogAnswered, TypeOK, Phases, PCs, BacklogPCs, ExpirePCs
<1>13. ASSUME NEW a \in Agents, Ack(a) PROVE TypedPhases'
  BY <1>13 DEF Ack, Mark, TypeOK, Phases, PCs, Fates
<1>14. ASSUME NEW a \in Agents, Reject(a) PROVE TypedPhases'
  <2>1. PICK r \in batch[a] :
          /\ spool' = spool \ {r}
          /\ dead' = dead \cup EventsOf({r} \cap spool)
          /\ batch' = [batch EXCEPT ![a] = @ \ {r}]
    BY <1>14 DEF Reject
  <2>2. EventsOf({r} \cap spool) \subseteq Events
    BY DEF TypeOK, Records, EventsOf
  <2>3. UNCHANGED <<now, sent, received, live, listed, clock, bornAt, fate>>
        /\ pc[a] = "rejecting" /\ pc' = [pc EXCEPT ![a] = "replaying"]
    BY <1>14 DEF Reject
  <2> QED  BY <2>1, <2>2, <2>3 DEF TypeOK, Phases, PCs
<1>15. ASSUME NEW a \in Agents, EndReplay(a) \/ ReplayRaises(a)
       PROVE  TypedPhases'
  BY <1>15 DEF EndReplay, ReplayRaises, TypeOK, Phases, PCs, ExpirePCs,
               BacklogPCs
<1>16. ASSUME NEW a \in Agents, CheckBacklog(a) PROVE TypedPhases'
  BY <1>16 DEF CheckBacklog, TypeOK, Phases, PCs
<1>17. ASSUME NEW a \in Agents, LiveAnswered(a) PROVE TypedPhases'
  BY <1>17 DEF LiveAnswered, Mark, LiveFate, TypeOK, Phases, PCs, Fates
<1>18. ASSUME NEW a \in Agents, Enqueue(a) PROVE TypedPhases'
  <2>1. WallClock[now] \in Times
    BY ClockAssumption DEF TypeOK, Times
  <2> QED  BY <1>18, <2>1 DEF Enqueue, TypeOK, Phases, PCs, Records, ExpirePCs
<1>19. ASSUME NEW a \in Agents, Expire(a) PROVE TypedPhases'
  <2>1. PassTime(a) \in Times
    BY DEF PassTime, TypeOK
  <2>2. pc'[a] \in TrimPCs /\ pc' = [pc EXCEPT ![a] = pc'[a]]
    BY <1>19 DEF Expire, TypeOK, ExpirePCs, TrimPCs
  <2>3. /\ spool' \subseteq spool /\ fate' \in [Events -> Fates]
        /\ clock' = [clock EXCEPT ![a] = PassTime(a)]
        /\ listed' = [listed EXCEPT ![a] = spool']
        /\ UNCHANGED <<now, dead, sent, received, live, batch, bornAt>>
        /\ pc[a] \in ExpirePCs
    BY <1>19 DEF Expire, Expired, Mark, TypeOK, Fates
  <2> QED  BY <2>1, <2>2, <2>3 DEF TypeOK, Phases, PCs, ExpirePCs, TrimPCs
<1>20. ASSUME NEW a \in Agents, Trim(a) PROVE TypedPhases'
  BY <1>20 DEF Trim, Mark, TypeOK, Phases, PCs, Fates, ExpirePCs, TrimPCs
<1>21. ASSUME NEW a \in Agents, TrimRaises(a) \/ Abort(a) PROVE TypedPhases'
  BY <1>21, FallTyped DEF TrimRaises, Abort
<1>22. CASE UNCHANGED vars
  BY <1>22 DEF vars, TypeOK, Phases
<1> QED
  BY <1>1, <1>2, <1>3, <1>4, <1>5, <1>6, <1>7, <1>8, <1>9, <1>10, <1>11, <1>12,
     <1>13, <1>14, <1>15, <1>16, <1>17, <1>18, <1>19, <1>20, <1>21, <1>22
     DEF Next, AgentStep

(* The variables stay in their types, and every process has a live event     *)
(* exactly while it runs a cycle (runtime.py:88-113).                        *)
THEOREM TypeCorrect == Spec => []TypeOK
<1>1. Spec => []TypedPhases
  BY TypedPhasesInit, TypedPhasesStep, PTL DEF Spec
<1> QED  BY <1>1, PTL DEF TypedPhases

-----------------------------------------------------------------------------
(* Accounted and DeliveredIsReceived.  Neither is inductive alone: that an    *)
(* acknowledged record was received follows from what the network carried    *)
(* and from what the process that acknowledges it has been answered.         *)

\* Only built events are sent, and only sent events are received.
Network ==
  /\ received \subseteq sent
  /\ \A e \in sent : bornAt[e] # 0

\* The record a process is about to acknowledge has been received.
AckJustified ==
  \A a \in Agents : pc[a] = "acking" =>
    \A r \in batch[a] : IsOldest(r, batch[a]) => r.event \in received

IInv ==
  /\ TypedPhases
  /\ Accounted
  /\ Network
  /\ AckJustified
  /\ DeliveredIsReceived

\* Names and times order the records of a batch: the oldest one is unique.
LEMMA OldestUnique ==
  ASSUME NEW R \in SUBSET Records, NEW r, NEW s,
         IsOldest(r, R), IsOldest(s, R)
  PROVE  r = s
<1>1. r \in Records /\ s \in Records /\ ~Older(r, s) /\ ~Older(s, r)
  BY DEF IsOldest
<1>2. /\ r.time \in Nat /\ s.time \in Nat /\ r.event \in Nat /\ s.event \in Nat
  <2>1. \A x \in Records : x.time \in Times /\ x.event \in Events
    BY DEF Records
  <2>2. Times \subseteq Nat
    BY LimitAssumption DEF Times
  <2> QED  BY <1>1, <2>1, <2>2, EventsAssumption
<1>3. r.time = s.time /\ r.event = s.event
  BY <1>1, <1>2 DEF Older
<1> QED  BY <1>1, <1>3 DEF Records

\* A step that moves no event keeps the accounts.
LEMMA NothingMoves ==
  ASSUME Accounted, UNCHANGED <<spool, dead, fate, bornAt>>,
         \A b \in Agents : Unpublished(b)' = Unpublished(b)
  PROVE  Accounted'
BY DEF Accounted, Held, Queued, EventsOf

\* Taking the records R out of the spool, into the dead letters D and the
\* fates given to the others, keeps the accounts.
LEMMA RecordsLeave ==
  ASSUME Accounted, TypeOK, NEW R \in SUBSET spool, NEW f \in Fates \ {"none"},
         spool' = spool \ R,
         \/ dead' = dead \cup EventsOf(R) /\ fate' = fate
         \/ dead' = dead /\ Mark(EventsOf(R), f),
         bornAt' = bornAt,
         \A b \in Agents : Unpublished(b)' = Unpublished(b)
  PROVE  Accounted'
<1>1. Held' = Held
  BY DEF Held
<1>2. EventsOf(R) \subseteq Queued /\ Queued \subseteq Events
  BY DEF EventsOf, Queued, TypeOK, Records
<1>3. Queued' = Queued \ EventsOf(R)
  <2>1. \A r \in spool, s \in R : r.event = s.event => r = s
    BY DEF Accounted
  <2> QED  BY <2>1 DEF Queued, EventsOf
<1>4. \A r, s \in spool' : r.event = s.event => r = s
  BY DEF Accounted
<1>5. CASE dead' = dead \cup EventsOf(R) /\ fate' = fate
  BY <1>1, <1>2, <1>3, <1>4, <1>5 DEF Accounted
<1>6. CASE dead' = dead /\ Mark(EventsOf(R), f)
  BY <1>1, <1>2, <1>3, <1>4, <1>6 DEF Accounted, Mark
<1> QED  BY <1>5, <1>6

\* The end of a process: the records R are evicted, its unpublished event lost.
LEMMA FallAccounted ==
  ASSUME Accounted, TypeOK, NEW a \in Agents, NEW R \in SUBSET spool,
         Fall(a, R), EventsAssumption
  PROVE  Accounted'
<1>1. /\ Unpublished(a)' = {}
      /\ \A b \in Agents \ {a} : Unpublished(b)' = Unpublished(b)
  BY DEF Fall, Unpublished, TypeOK
<1>2. Held' = Held \ Unpublished(a)
  BY <1>1 DEF Held, Accounted
<1>3. EventsOf(R) \subseteq Queued /\ Queued \subseteq Events
  BY DEF EventsOf, Queued, TypeOK, Records
<1>4. Queued' = Queued \ EventsOf(R)
  <2>1. \A r \in spool, s \in R : r.event = s.event => r = s
    BY DEF Accounted
  <2>2. spool' = spool \ R
    BY DEF Fall
  <2> QED  BY <2>1, <2>2 DEF Queued, EventsOf
<1>5. \A r, s \in spool' : r.event = s.event => r = s
  BY DEF Accounted, Fall
<1>6. Unpublished(a) \subseteq Held
  BY DEF Held, Unpublished, TypeOK
<1>7. \A b, c \in Agents : b # c => Unpublished(b)' \cap Unpublished(c)' = {}
  BY <1>1 DEF Accounted
<1>8. dead' = dead /\ bornAt' = bornAt
  BY DEF Fall
<1>9. fate' = [e \in Events |->
                IF e \in EventsOf(R) THEN "evicted"
                ELSE IF e \in Unpublished(a) THEN "lost" ELSE fate[e]]
  BY DEF Fall
<1> HIDE DEF Held, Queued, Unpublished
<1>10. \A e \in Events :
       bornAt'[e] # 0 <=>
         e \in Held' \cup Queued' \cup dead' \/ fate'[e] # "none"
  BY <1>2, <1>3, <1>4, <1>6, <1>8, <1>9 DEF Accounted
<1>11. \A e \in Events :
         fate'[e] # "none" => e \notin Held' \cup Queued' \cup dead'
  BY <1>2, <1>3, <1>4, <1>6, <1>8, <1>9 DEF Accounted
<1> QED
  BY <1>2, <1>4, <1>5, <1>7, <1>8, <1>10, <1>11 DEF Accounted

LEMMA AccountedStep ==
  ASSUME TypedPhases, Accounted, Network, [Next]_vars
  PROVE  Accounted'
<1> USE DEF TypedPhases
<1>1. ASSUME NEW a \in Agents, Start(a) \/ Exit(a) PROVE Accounted'
  BY <1>1, NothingMoves DEF Start, Exit, Unpublished, TypeOK
<1>3. ASSUME NEW a \in Agents, Crash(a) \/ TrimRaises(a) \/ Abort(a)
      PROVE  Accounted'
  BY <1>3, FallAccounted, EventsAssumption DEF Crash, TrimRaises, Abort
<1>4. ASSUME NEW a \in Agents, CrashMidPass(a) PROVE Accounted'
  <2>1. PICK r : Fall(a, {s \in Due(a) : ~Older(r, s)})
    BY <1>4 DEF CrashMidPass
  <2> QED  BY <2>1, DuePending, FallAccounted, EventsAssumption
<1>5. ASSUME Tick \/ \E e \in Events : CollectorAccepts(e) PROVE Accounted'
  BY <1>5, NothingMoves DEF Tick, CollectorAccepts, Unpublished
<1>7. ASSUME NEW a \in Agents, NEW e \in Events, BuildEvent(a, e)
      PROVE  Accounted'
  <2>1. /\ Unpublished(a) = {} /\ Unpublished(a)' = {e}
        /\ \A b \in Agents \ {a} : Unpublished(b)' = Unpublished(b)
    BY <1>7, EventsAssumption DEF BuildEvent, Unpublished, TypeOK, Phases
  <2>2. Held' = Held \cup {e}
    BY <2>1 DEF Held
  <2>3. e \notin Held \cup Queued \cup dead /\ fate[e] = "none"
    BY <1>7 DEF BuildEvent, Accounted
  <2>4. now \in Nat /\ clock[a] \in Nat /\ now > clock[a]
    BY <1>7, LimitAssumption DEF BuildEvent, TypeOK, Times
  <2>5. bornAt' = [bornAt EXCEPT ![e] = now] /\ now # 0
    BY <1>7, <2>4 DEF BuildEvent
  <2>6. UNCHANGED <<spool, dead, fate, Queued>>
    BY <1>7 DEF BuildEvent, Queued
  <2>7. \A b, c \in Agents : b # c => Unpublished(b)' \cap Unpublished(c)' = {}
    BY <2>1, <2>3 DEF Accounted, Held
  <2> HIDE DEF Held, Queued, Unpublished
  <2> QED  BY <2>2, <2>3, <2>5, <2>6, <2>7 DEF Accounted, TypeOK
<1>8. ASSUME NEW a \in Agents,
             \/ ListBacklog(a) \/ LoadMissing(a) \/ LoadAndSend(a)
             \/ EndReplay(a) \/ ReplayRaises(a) \/ CheckBacklog(a)
      PROVE  Accounted'
  BY <1>8, NothingMoves
     DEF ListBacklog, LoadMissing, LoadAndSend, EndReplay, ReplayRaises,
         CheckBacklog, Unpublished, TypeOK, BacklogPCs
<1>10. ASSUME NEW a \in Agents, LoadCorrupt(a) PROVE Accounted'
  <2>1. PICK r \in spool : /\ spool' = spool \ {r}
                           /\ dead' = dead \cup {r.event}
    BY <1>10 DEF LoadCorrupt
  <2>2. /\ UNCHANGED <<pc, live, bornAt, fate>>
        /\ EventsOf({r}) = {r.event}
    BY <1>10 DEF LoadCorrupt, EventsOf
  <2> QED  BY <2>1, <2>2, RecordsLeave DEF Unpublished, Fates
<1>12. ASSUME NEW a \in Agents, BacklogAnswered(a) PROVE Accounted'
  <2>1. \A k : AfterReplayResult(k) \in {"acking", "rejecting", "expireReplay"}
    BY DEF AfterReplayResult
  <2> QED  BY <1>12, <2>1, NothingMoves DEF BacklogAnswered, Unpublished, TypeOK
<1>13. ASSUME NEW a \in Agents, Ack(a) PROVE Accounted'
  <2>1. PICK r \in batch[a] : /\ spool' = spool \ {r}
                              /\ Mark(EventsOf({r} \cap spool), "delivered")
    BY <1>13 DEF Ack
  <2>2. /\ UNCHANGED <<live, bornAt, dead>> /\ pc[a] = "acking"
        /\ pc' = [pc EXCEPT ![a] = "replaying"]
    BY <1>13 DEF Ack
  <2>3. \A b \in Agents : Unpublished(b)' = Unpublished(b)
    BY <2>2 DEF Unpublished, TypeOK
  <2>4. spool' = spool \ ({r} \cap spool)
    BY <2>1
  <2> QED  BY <2>1, <2>2, <2>3, <2>4, RecordsLeave DEF Fates
<1>14. ASSUME NEW a \in Agents, Reject(a) PROVE Accounted'
  <2>1. PICK r \in batch[a] : /\ spool' = spool \ {r}
                              /\ dead' = dead \cup EventsOf({r} \cap spool)
    BY <1>14 DEF Reject
  <2>2. /\ UNCHANGED <<live, bornAt, fate>> /\ pc[a] = "rejecting"
        /\ pc' = [pc EXCEPT ![a] = "replaying"]
    BY <1>14 DEF Reject
  <2>3. \A b \in Agents : Unpublished(b)' = Unpublished(b)
    BY <2>2 DEF Unpublished, TypeOK
  <2>4. spool' = spool \ ({r} \cap spool)
    BY <2>1
  <2> QED  BY <2>1, <2>2, <2>3, <2>4, RecordsLeave DEF Fates
<1>17. ASSUME NEW a \in Agents, LiveAnswered(a) PROVE Accounted'
  <2>1. CASE UNCHANGED <<live, fate>> /\ pc' = [pc EXCEPT ![a] = "queueing"]
    BY <1>17, <2>1, NothingMoves DEF LiveAnswered, Unpublished, TypeOK
  <2>2. ASSUME NEW k, live' = [live EXCEPT ![a] = None],
               pc' = [pc EXCEPT ![a] = "waiting"], Mark({live[a]}, LiveFate(k))
        PROVE  Accounted'
    <3>1. /\ live[a] \in Events /\ Unpublished(a) = {live[a]}
          /\ Unpublished(a)' = {}
          /\ \A b \in Agents \ {a} : Unpublished(b)' = Unpublished(b)
      BY <1>17, <2>2 DEF LiveAnswered, Unpublished, TypeOK, Phases
    <3>2. live[a] \in Held /\ Held' = Held \ {live[a]}
      BY <3>1 DEF Held, Accounted
    <3>3. UNCHANGED <<spool, dead, bornAt, Queued>>
      BY <1>17 DEF LiveAnswered, Queued
    <3>4. LiveFate(k) # "none"
      BY DEF LiveFate
    <3>5. \A b, c \in Agents : b # c => Unpublished(b)' \cap Unpublished(c)' = {}
      BY <3>1 DEF Accounted
    <3> HIDE DEF Held, Queued, Unpublished
    <3> QED  BY <2>2, <3>1, <3>2, <3>3, <3>4, <3>5 DEF Accounted, Mark
  <2> QED  BY <1>17, <2>1, <2>2 DEF LiveAnswered
<1>18. ASSUME NEW a \in Agents, Enqueue(a) PROVE Accounted'
  <2>1. /\ live[a] \in Events /\ Unpublished(a) = {live[a]}
        /\ Unpublished(a)' = {}
        /\ \A b \in Agents \ {a} : Unpublished(b)' = Unpublished(b)
    BY <1>18 DEF Enqueue, Unpublished, TypeOK, Phases
  <2>2. live[a] \in Held /\ Held' = Held \ {live[a]}
    BY <2>1 DEF Held, Accounted
  <2>3. live[a] \notin Queued /\ live[a] \notin dead /\ fate[live[a]] = "none"
    BY <2>1, <2>2 DEF Accounted
  <2>4. spool' = spool \cup {[event |-> live[a], time |-> WallClock[now]]}
    BY <1>18 DEF Enqueue
  <2>5. Queued' = Queued \cup {live[a]}
    <3>1. EventsOf(spool') = EventsOf(spool) \cup {live[a]}
      <4> DEFINE new == [event |-> live[a], time |-> WallClock[now]]
      <4>1. new.event = live[a] /\ spool' = spool \cup {new}
        BY <2>4
      <4> HIDE DEF new
      <4> QED  BY <4>1 DEF EventsOf
    <3> QED  BY <3>1 DEF Queued, EventsOf
  <2>6. \A r, s \in spool' : r.event = s.event => r = s
    BY <2>3, <2>4 DEF Accounted, Queued, EventsOf
  <2>7. \A b, c \in Agents : b # c => Unpublished(b)' \cap Unpublished(c)' = {}
    BY <2>1 DEF Accounted
  <2>8. UNCHANGED <<dead, bornAt, fate>>
    BY <1>18 DEF Enqueue
  <2> HIDE DEF Held, Queued, Unpublished
  <2> QED  BY <2>1, <2>2, <2>3, <2>5, <2>6, <2>7, <2>8 DEF Accounted
<1>19. ASSUME NEW a \in Agents, Expire(a) PROVE Accounted'
  <2>1. PICK t : /\ spool' = spool \ Expired(spool, t)
                 /\ Mark(EventsOf(Expired(spool, t)), "evicted")
    BY <1>19 DEF Expire
  <2>2. UNCHANGED <<live, bornAt, dead>>
    BY <1>19 DEF Expire
  <2>3. \A b \in Agents : Unpublished(b)' = Unpublished(b)
    <3>1. /\ pc[a] \in ExpirePCs /\ live' = live
          /\ pc' = [pc EXCEPT ![a] = CASE @ = "expireReplay" -> "trimReplay"
                                       [] @ = "expireRaise" -> "trimRaise"
                                       [] @ = "expireEnqueue" -> "trimEnqueue"
                                       [] @ = "expireCycle" -> "trimCycle"]
      BY <1>19 DEF Expire
    <3> QED  BY <3>1 DEF Unpublished, TypeOK, ExpirePCs
  <2>4. Expired(spool, t) \subseteq spool
    BY DEF Expired
  <2> QED  BY <2>1, <2>2, <2>3, <2>4, RecordsLeave DEF Fates
<1>20. ASSUME NEW a \in Agents, Trim(a) PROVE Accounted'
  <2> DEFINE over == listed[a] \ Fitting(listed[a])
  <2>1. /\ over \subseteq spool /\ spool' = spool \ over
        /\ Mark(EventsOf(over), "evicted") /\ UNCHANGED <<bornAt, dead>>
    BY <1>20 DEF Trim
  <2>2. \A b \in Agents : Unpublished(b)' = Unpublished(b)
    BY <1>20 DEF Trim, Unpublished, TypeOK, TrimPCs
  <2> HIDE DEF over
  <2> QED  BY <2>1, <2>2, RecordsLeave DEF Fates
<1>22. CASE UNCHANGED vars
  BY <1>22, NothingMoves DEF vars, Unpublished
<1> QED
  BY <1>1, <1>3, <1>4, <1>5, <1>7, <1>8, <1>10, <1>12, <1>13, <1>14, <1>17,
     <1>18, <1>19, <1>20, <1>22 DEF Next, AgentStep

LEMMA NetworkStep ==
  ASSUME TypedPhases, Accounted, Network, [Next]_vars
  PROVE  Network'
<1> USE DEF TypedPhases
<1>life. ASSUME NEW a \in Agents,
                \/ Start(a) \/ Exit(a) \/ Crash(a) \/ CrashMidPass(a)
                \/ ReplayRaises(a) \/ TrimRaises(a) \/ Abort(a)
         PROVE  UNCHANGED <<bornAt, sent, received>>
  BY <1>life DEF Start, Exit, Crash, CrashMidPass, ReplayRaises, TrimRaises,
                 Abort, Fall
<1>replay. ASSUME NEW a \in Agents,
                  \/ ListBacklog(a) \/ LoadMissing(a) \/ LoadCorrupt(a)
                  \/ BacklogAnswered(a) \/ Ack(a) \/ Reject(a) \/ EndReplay(a)
           PROVE  UNCHANGED <<bornAt, sent, received>>
  BY <1>replay DEF ListBacklog, LoadMissing, LoadCorrupt, BacklogAnswered, Ack,
                   Reject, EndReplay
<1>own. ASSUME NEW a \in Agents,
               LiveAnswered(a) \/ Enqueue(a) \/ Expire(a) \/ Trim(a)
        PROVE  UNCHANGED <<bornAt, sent, received>>
  BY <1>own DEF LiveAnswered, Enqueue, Expire, Trim
<1>send. ASSUME NEW a \in Agents, LoadAndSend(a) \/ CheckBacklog(a)
         PROVE  UNCHANGED <<bornAt, received>>
  BY <1>send DEF LoadAndSend, CheckBacklog
<1>build. ASSUME NEW a \in Agents, NEW e \in Events, BuildEvent(a, e)
          PROVE  UNCHANGED <<sent, received>>
  BY <1>build DEF BuildEvent
<1>accept. ASSUME NEW e \in Events, CollectorAccepts(e)
           PROVE  UNCHANGED <<bornAt, sent>>
  BY <1>accept DEF CollectorAccepts
<1>idle. ASSUME Tick \/ UNCHANGED vars
         PROVE  UNCHANGED <<bornAt, sent, received>>
  BY <1>idle DEF Tick, vars
<1>1. bornAt' = bornAt \/ \E a \in Agents, e \in Events : BuildEvent(a, e)
  BY <1>life, <1>replay, <1>own, <1>send, <1>accept, <1>idle
     DEF Next, AgentStep
<1>2. \A e \in Events : bornAt[e] # 0 => bornAt'[e] # 0
  BY <1>1 DEF BuildEvent, TypeOK
<1>3. sent' = sent \/ \E a \in Agents : LoadAndSend(a) \/ CheckBacklog(a)
  BY <1>life, <1>replay, <1>own, <1>build, <1>accept, <1>idle
     DEF Next, AgentStep
<1>4. received' = received \/ \E e \in Events : CollectorAccepts(e)
  BY <1>life, <1>replay, <1>own, <1>send, <1>build, <1>idle
     DEF Next, AgentStep
<1>5. \A e \in sent' : e \in sent \/ e \in Queued \/ e \in Held
  <2>1. ASSUME NEW a \in Agents, LoadAndSend(a)
        PROVE  \A e \in sent' : e \in sent \/ e \in Queued
    BY <2>1 DEF LoadAndSend, Queued, EventsOf
  <2>2. ASSUME NEW a \in Agents, CheckBacklog(a)
        PROVE  \A e \in sent' : e \in sent \/ e \in Held
    <3>1. live[a] \in Events /\ live[a] \in Unpublished(a)
      BY <2>2 DEF CheckBacklog, Unpublished, TypeOK, Phases
    <3> QED  BY <2>2, <3>1 DEF CheckBacklog, Held
  <2> QED  BY <1>3, <2>1, <2>2
<1>6. \A e \in Queued \cup Held : e \in Events /\ bornAt[e] # 0
  BY DEF Accounted, Queued, EventsOf, Held, TypeOK, Records
<1>7. sent \subseteq sent'
  BY <1>3 DEF LoadAndSend, CheckBacklog
<1>8. \A e \in sent' : bornAt'[e] # 0
  BY <1>2, <1>5, <1>6 DEF Network, TypeOK
<1>9. received' \subseteq sent'
  BY <1>4, <1>7 DEF Network, CollectorAccepts
<1> QED  BY <1>8, <1>9 DEF Network

\* The collector forgets nothing, and only it accepts.
LEMMA ReceivedGrows == [Next]_vars => received \subseteq received'
<1>1. ASSUME NEW a \in Agents,
             Crash(a) \/ CrashMidPass(a) \/ TrimRaises(a) \/ Abort(a)
      PROVE  received' = received
  BY <1>1 DEF Crash, CrashMidPass, TrimRaises, Abort, Fall
<1>2. ASSUME NEW a \in Agents,
             \/ Start(a) \/ Exit(a) \/ \E e \in Events : BuildEvent(a, e)
             \/ ListBacklog(a) \/ LoadMissing(a) \/ LoadCorrupt(a)
             \/ LoadAndSend(a) \/ BacklogAnswered(a) \/ Ack(a) \/ Reject(a)
      PROVE  received' = received
  BY <1>2 DEF Start, Exit, BuildEvent, ListBacklog, LoadMissing, LoadCorrupt,
              LoadAndSend, BacklogAnswered, Ack, Reject
<1>3. ASSUME NEW a \in Agents,
             \/ EndReplay(a) \/ ReplayRaises(a) \/ CheckBacklog(a)
             \/ LiveAnswered(a)
             \/ Enqueue(a) \/ Expire(a) \/ Trim(a)
      PROVE  received' = received
  BY <1>3 DEF EndReplay, ReplayRaises, CheckBacklog, LiveAnswered, Enqueue,
              Expire, Trim
<1>4. CASE Tick \/ \E e \in Events : CollectorAccepts(e)
  BY <1>4 DEF Tick, CollectorAccepts
<1> QED  BY <1>1, <1>2, <1>3, <1>4 DEF Next, AgentStep, vars

LEMMA AckJustifiedStep ==
  ASSUME TypedPhases, AckJustified, [Next]_vars
  PROVE  AckJustified'
<1> USE DEF TypedPhases
<1>1. received \subseteq received'
  BY ReceivedGrows
<1>2. SUFFICES ASSUME NEW b \in Agents, pc'[b] = "acking",
                      NEW r \in batch'[b], IsOldest(r, batch'[b])
               PROVE  r.event \in received'
  BY DEF AckJustified, IsOldest
<1>3. CASE pc[b] = "acking" /\ batch'[b] = batch[b]
  BY <1>1, <1>2, <1>3 DEF AckJustified
<1>4. CASE BacklogAnswered(b)
  <2>1. PICK s \in batch[b] : \E k \in Answers(s.event) :
          /\ IsOldest(s, batch[b])
          /\ pc' = [pc EXCEPT ![b] = AfterReplayResult(k)]
          /\ batch' = [batch EXCEPT ![b] =
                         IF AfterReplayResult(k) = "expireReplay" THEN {} ELSE @]
    BY <1>4 DEF BacklogAnswered
  <2>6. PICK k \in Answers(s.event) :
          /\ pc' = [pc EXCEPT ![b] = AfterReplayResult(k)]
          /\ batch' = [batch EXCEPT ![b] =
                         IF AfterReplayResult(k) = "expireReplay" THEN {} ELSE @]
    BY <2>1
  <2>2. AfterReplayResult(k) = "acking"
    BY <1>2, <2>6 DEF TypeOK
  <2>3. k = "SUCCESS" /\ batch'[b] = batch[b]
    <3>1. k = "SUCCESS"
      BY <2>2, <2>6, SMT DEF AfterReplayResult, Answers, Kinds
    <3>2. batch'[b] = batch[b]
      BY <2>6, <2>2 DEF TypeOK
    <3> QED  BY <3>1, <3>2
  <2>4. r = s
    BY <1>2, <2>1, <2>3, OldestUnique DEF TypeOK
  <2>5. s.event \in received
    BY <2>3 DEF Answers
  <2> QED  BY <1>1, <2>4, <2>5
<1> DEFINE Alone == pc[b] = "acking" /\ batch'[b] = batch[b]
<1>5. Alone \/ BacklogAnswered(b)
  <2>1. ASSUME NEW a \in Agents,
               Start(a) \/ Exit(a) \/ EndReplay(a) \/ ReplayRaises(a)
                                \/ CheckBacklog(a) \/ ListBacklog(a)
                                \/ LoadAndSend(a) \/ Enqueue(a)
                                \/ \E e \in Events : BuildEvent(a, e)
        PROVE  Alone
    BY <1>2, <2>1 DEF Start, Exit, EndReplay, ReplayRaises, CheckBacklog,
                      ListBacklog, LoadAndSend, Enqueue, BuildEvent, TypeOK
  <2>2. ASSUME NEW a \in Agents,
               Crash(a) \/ CrashMidPass(a) \/ TrimRaises(a) \/ Abort(a)
        PROVE  Alone
    BY <1>2, <2>2 DEF Crash, CrashMidPass, TrimRaises, Abort, Fall, TypeOK
  <2>3. ASSUME NEW a \in Agents, LoadMissing(a) \/ LoadCorrupt(a) \/ Ack(a)
                                \/ Reject(a)
        PROVE  Alone
    BY <1>2, <2>3 DEF LoadMissing, LoadCorrupt, Ack, Reject, TypeOK
  <2>4. ASSUME NEW a \in Agents, BacklogAnswered(a)
        PROVE  Alone \/ BacklogAnswered(b)
    BY <1>2, <2>4 DEF BacklogAnswered, TypeOK
  <2>5. ASSUME NEW a \in Agents, LiveAnswered(a) PROVE Alone
    BY <1>2, <2>5 DEF LiveAnswered, TypeOK
  <2>6. ASSUME NEW a \in Agents, Expire(a) PROVE Alone
    BY <1>2, <2>6 DEF Expire, ExpirePCs, TypeOK
  <2>7. ASSUME NEW a \in Agents, Trim(a) PROVE Alone
    BY <1>2, <2>7 DEF Trim, TrimPCs, TypeOK
  <2>8. ASSUME UNCHANGED <<pc, batch>> PROVE Alone
    BY <1>2, <2>8
  <2> QED
    BY <1>2, <2>1, <2>2, <2>3, <2>4, <2>5, <2>6, <2>7, <2>8
       DEF Next, AgentStep, Tick, CollectorAccepts, vars
<1> QED  BY <1>2, <1>3, <1>4, <1>5

LEMMA DeliveredStep ==
  ASSUME TypedPhases, AckJustified, DeliveredIsReceived, [Next]_vars
  PROVE  DeliveredIsReceived'
<1> USE DEF TypedPhases
<1>1. received \subseteq received'
  BY ReceivedGrows
<1>2. CASE fate' = fate
  BY <1>1, <1>2 DEF DeliveredIsReceived
<1>3. ASSUME NEW a \in Agents,
             Crash(a) \/ CrashMidPass(a) \/ TrimRaises(a) \/ Abort(a)
      PROVE  DeliveredIsReceived'
  BY <1>1, <1>3 DEF Crash, CrashMidPass, TrimRaises, Abort, Fall,
                    DeliveredIsReceived
<1>4. ASSUME NEW a \in Agents, Expire(a) \/ Trim(a) PROVE DeliveredIsReceived'
  <2>1. \E E : Mark(E, "evicted")
    BY <1>4 DEF Expire, Trim
  <2> QED  BY <1>1, <2>1 DEF Mark, DeliveredIsReceived
<1>5. ASSUME NEW a \in Agents, Ack(a) PROVE DeliveredIsReceived'
  <2>1. PICK r \in batch[a] : /\ IsOldest(r, batch[a])
                              /\ Mark(EventsOf({r} \cap spool), "delivered")
    BY <1>5 DEF Ack
  <2>2. r.event \in received
    BY <1>5, <2>1 DEF Ack, AckJustified
  <2>3. \A e \in EventsOf({r} \cap spool) : e \in received
    BY <2>2 DEF EventsOf
  <2> QED  BY <1>1, <2>1, <2>3 DEF Mark, DeliveredIsReceived
<1>6. ASSUME NEW a \in Agents, LiveAnswered(a) PROVE DeliveredIsReceived'
  <2>1. ASSUME NEW k \in Answers(live[a]), Mark({live[a]}, LiveFate(k))
        PROVE  DeliveredIsReceived'
    BY <1>1, <2>1 DEF Mark, LiveFate, Answers, DeliveredIsReceived
  <2> QED  BY <1>2, <1>6, <2>1 DEF LiveAnswered
<1> QED
  BY <1>2, <1>3, <1>4, <1>5, <1>6
     DEF Next, AgentStep, Start, Exit, Tick, CollectorAccepts, BuildEvent,
         ListBacklog, LoadMissing, LoadCorrupt, LoadAndSend, BacklogAnswered,
         Reject, EndReplay, ReplayRaises, CheckBacklog, Enqueue, vars

THEOREM Invariance == Spec => []IInv
<1>1. Init => IInv
  <2>1. Init => Accounted /\ Network /\ AckJustified /\ DeliveredIsReceived
    BY DEF Init, Accounted, Network, AckJustified, DeliveredIsReceived, Held,
           Queued, EventsOf, Unpublished
  <2> QED  BY <2>1, TypedPhasesInit DEF IInv
<1>2. IInv /\ [Next]_vars => IInv'
  BY TypedPhasesStep, AccountedStep, NetworkStep, AckJustifiedStep,
     DeliveredStep DEF IInv
<1> QED  BY <1>1, <1>2, PTL DEF Spec

(* Whatever the number of processes, events and limits, every event built is *)
(* in exactly one place or has a recorded fate (runtime.py:63-113).          *)
THEOREM EveryEventAccounted == Spec => []Accounted
BY Invariance, PTL DEF IInv

(* Nothing is removed as delivered that the collector does not have          *)
(* (runtime.py:76-78, 106-109).                                              *)
THEOREM DeliveredWasReceived == Spec => []DeliveredIsReceived
BY Invariance, PTL DEF IInv

-----------------------------------------------------------------------------
(* AgentRuntime implements TelemetryDelivery: by IInv every event is in one   *)
(* place, so a step that moves it there and here maps to one step of it.     *)

DeliveryStatus == [e \in Events |-> StatusOf(e)]

\* In what follows only the place of each event matters.
LEMMA StatusPlaces ==
  ASSUME Accounted, NEW e \in Events
  PROVE  /\ e \in Held => StatusOf(e) = "held"
         /\ e \in Queued => StatusOf(e) = "queued"
         /\ e \in dead => StatusOf(e) = "dead"
         /\ fate[e] # "none" => StatusOf(e) = fate[e]
         /\ bornAt[e] = 0 => StatusOf(e) = "unborn"
         /\ bornAt[e] # 0 => e \in Held \/ e \in Queued \/ e \in dead
                               \/ fate[e] # "none"
<1> HIDE DEF Held, Queued
<1>1. /\ bornAt[e] # 0 <=> e \in Held \cup Queued \cup dead \/ fate[e] # "none"
      /\ fate[e] # "none" => e \notin Held \cup Queued \cup dead
      /\ Held \cap Queued = {} /\ Held \cap dead = {} /\ Queued \cap dead = {}
  BY DEF Accounted
<1> QED  BY <1>1 DEF StatusOf

LEMMA StatusPlacesNext ==
  ASSUME Accounted', NEW e \in Events
  PROVE  /\ e \in Held' => StatusOf(e)' = "held"
         /\ e \in Queued' => StatusOf(e)' = "queued"
         /\ e \in dead' => StatusOf(e)' = "dead"
         /\ fate'[e] # "none" => StatusOf(e)' = fate'[e]
         /\ bornAt'[e] = 0 => StatusOf(e)' = "unborn"
         /\ bornAt'[e] # 0 => e \in Held' \/ e \in Queued' \/ e \in dead'
                                \/ fate'[e] # "none"
<1> HIDE DEF Held, Queued
<1>1. /\ bornAt'[e] # 0
            <=> e \in Held' \cup Queued' \cup dead' \/ fate'[e] # "none"
      /\ fate'[e] # "none" => e \notin Held' \cup Queued' \cup dead'
      /\ Held' \cap Queued' = {} /\ Held' \cap dead' = {}
      /\ Queued' \cap dead' = {}
  BY DEF Accounted
<1> QED  BY <1>1 DEF StatusOf

\* A step that leaves the places of the events alone leaves the status alone.
LEMMA StatusSame ==
  ASSUME UNCHANGED <<dead, fate, Held, Queued>>
  PROVE  DeliveryStatus' = DeliveryStatus
BY DEF DeliveryStatus, StatusOf

LEMMA UnpublishedSame ==
  ASSUME \A b \in Agents : Unpublished(b)' = Unpublished(b)
  PROVE  Held' = Held
BY DEF Held

\* A step that moves only event x gives it a status and leaves the others.
LEMMA StatusMoves ==
  ASSUME NEW x \in Events, NEW v, StatusOf(x)' = v,
         \A e \in Events \ {x} :
           /\ e \in dead' <=> e \in dead
           /\ fate'[e] = fate[e]
           /\ e \in Held' <=> e \in Held
           /\ e \in Queued' <=> e \in Queued
  PROVE  DeliveryStatus' = [DeliveryStatus EXCEPT ![x] = v]
<1>1. \A e \in Events \ {x} : StatusOf(e)' = StatusOf(e)
  BY DEF StatusOf
<1> QED  BY <1>1 DEF DeliveryStatus

LEMMA StepRefines ==
  ASSUME IInv, IInv', [Next]_vars
  PROVE  [Delivery!Next]_Delivery!vars
<1> USE DEF IInv, TypedPhases
<1> DEFINE st == DeliveryStatus
<1>0. st = [e \in Events |-> StatusOf(e)] /\ \A e \in Events : st[e] = StatusOf(e)
  BY DEF DeliveryStatus
<1>stutter. ASSUME UNCHANGED <<Held, Queued, dead, fate, received>>
            PROVE  UNCHANGED Delivery!vars
  BY <1>stutter, StatusSame DEF Delivery!vars, DeliveryStatus
<1>leave. ASSUME NEW R \in SUBSET spool, NEW H \in SUBSET Held,
                 spool' = spool \ R, Held' = Held \ H,
                 fate' = [e \in Events |->
                            IF e \in EventsOf(R) THEN "evicted"
                            ELSE IF e \in H THEN "lost" ELSE fate[e]],
                 UNCHANGED <<dead, received>>
          PROVE  Delivery!Next
  <2>1. EventsOf(R) \subseteq Queued /\ Queued \subseteq Events /\ Held \subseteq Events
    BY DEF EventsOf, Queued, TypeOK, Records, Held
  <2>2. Queued' = Queued \ EventsOf(R)
    <3>1. \A r \in spool, s \in R : r.event = s.event => r = s
      BY DEF Accounted
    <3> QED  BY <3>1, <1>leave DEF Queued, EventsOf
  <2>3. \A e \in EventsOf(R) : StatusOf(e) = "queued" /\ StatusOf(e)' = "evicted"
    BY <2>1, <1>leave, StatusPlaces, StatusPlacesNext
  <2>4. \A e \in H : StatusOf(e) = "held"
    BY <2>1, StatusPlaces
  <2>5. \A e \in H : e \notin EventsOf(R)
    BY <2>1 DEF Accounted
  <2>6. \A e \in H : StatusOf(e)' = "lost"
    BY <2>1, <2>5, <1>leave, StatusPlacesNext
  <2>7. \A e \in Events \ (EventsOf(R) \cup H) : StatusOf(e)' = StatusOf(e)
    BY <1>leave, <2>2 DEF StatusOf
  <2>8. Delivery!Discard(EventsOf(R), H)
    BY <1>leave, <2>1, <2>3, <2>4, <2>5, <2>6, <2>7 DEF Delivery!Discard
  <2>9. EventsOf(R) \in SUBSET Events /\ H \in SUBSET Events
    BY <2>1
  <2> QED  BY <2>8, <2>9 DEF Delivery!Next
<1>fall. ASSUME NEW a \in Agents, NEW R \in SUBSET spool, Fall(a, R)
         PROVE  Delivery!Next
  <2>1. /\ Unpublished(a)' = {}
        /\ \A b \in Agents \ {a} : Unpublished(b)' = Unpublished(b)
    BY <1>fall DEF Fall, Unpublished, TypeOK
  <2>2. Held' = Held \ Unpublished(a)
    BY <2>1 DEF Held, Accounted
  <2>3. Unpublished(a) \subseteq Held
    BY DEF Held, Unpublished, TypeOK
  <2> QED  BY <1>fall, <1>leave, <2>2, <2>3 DEF Fall
<1>evict. ASSUME NEW R \in SUBSET spool, spool' = spool \ R,
                 Mark(EventsOf(R), "evicted"), Held' = Held,
                 UNCHANGED <<dead, received>>
          PROVE  Delivery!Next
  <2>1. fate' = [e \in Events |-> IF e \in EventsOf(R) THEN "evicted"
                                  ELSE IF e \in {} THEN "lost" ELSE fate[e]]
    BY <1>evict DEF Mark
  <2>2. Held' = Held \ {} /\ {} \in SUBSET Held
    BY <1>evict
  <2> QED  BY <1>evict, <1>leave, <2>1, <2>2
<1>queue. ASSUME NEW r \in spool, spool' = spool \ {r}, Held' = Held
          PROVE  /\ r.event \in Events /\ r.event \in Queued
                 /\ Queued' = Queued \ {r.event}
                 /\ StatusOf(r.event) = "queued"
  <2>1. r.event \in Events /\ r.event \in Queued
    BY DEF TypeOK, Records, Queued, EventsOf
  <2>2. \A s \in spool : s.event = r.event => s = r
    BY DEF Accounted
  <2>3. Queued' = Queued \ {r.event}
    BY <1>queue, <2>2 DEF Queued, EventsOf
  <2> QED  BY <2>1, <2>3, StatusPlaces
<1>bury. ASSUME NEW r \in spool, spool' = spool \ {r}, Held' = Held,
                dead' = dead \cup {r.event}, UNCHANGED <<fate, received>>
         PROVE  Delivery!Next
  <2>1. /\ r.event \in Events /\ StatusOf(r.event) = "queued"
        /\ Queued' = Queued \ {r.event}
    BY <1>bury, <1>queue
  <2>2. StatusOf(r.event)' = "dead"
    BY <1>bury, <2>1, StatusPlacesNext
  <2>3. st' = [st EXCEPT ![r.event] = "dead"]
    BY <1>bury, <2>1, <2>2, StatusMoves DEF DeliveryStatus
  <2>4. Delivery!Quarantine(r.event)
    BY <1>bury, <1>0, <2>1, <2>3
       DEF Delivery!Quarantine, Delivery!Move, DeliveryStatus
  <2> QED  BY <2>1, <2>4 DEF Delivery!Next
<1>1. ASSUME NEW a \in Agents,
             \/ Start(a) \/ Exit(a) \/ ListBacklog(a) \/ LoadMissing(a)
             \/ LoadAndSend(a) \/ EndReplay(a) \/ ReplayRaises(a)
             \/ CheckBacklog(a)
      PROVE  UNCHANGED Delivery!vars
  <2>1. \A b \in Agents : Unpublished(b)' = Unpublished(b)
    BY <1>1 DEF Start, Exit, ListBacklog, LoadMissing, LoadAndSend, EndReplay,
                ReplayRaises, CheckBacklog, Unpublished, TypeOK, BacklogPCs
  <2>2. UNCHANGED <<spool, dead, fate, received>>
    BY <1>1 DEF Start, Exit, ListBacklog, LoadMissing, LoadAndSend, EndReplay,
                ReplayRaises, CheckBacklog
  <2>3. Held' = Held /\ Queued' = Queued
    BY <2>1, <2>2, UnpublishedSame DEF Queued
  <2> QED  BY <1>stutter, <2>2, <2>3
<1>2. ASSUME Tick PROVE UNCHANGED Delivery!vars
  BY <1>2, <1>stutter DEF Tick, Held, Unpublished, Queued
<1>3. ASSUME NEW a \in Agents, Crash(a) \/ TrimRaises(a) \/ Abort(a)
      PROVE  Delivery!Next
  BY <1>3, <1>fall DEF Crash, TrimRaises, Abort
<1>4. ASSUME NEW a \in Agents, CrashMidPass(a) PROVE Delivery!Next
  <2>1. PICK r : Fall(a, {s \in Due(a) : ~Older(r, s)})
    BY <1>4 DEF CrashMidPass
  <2> QED  BY <1>fall, DuePending, <2>1
<1>5. ASSUME NEW e \in Events, CollectorAccepts(e) PROVE Delivery!Next
  <2>1. UNCHANGED <<Held, Queued, dead, fate>>
    BY <1>5 DEF CollectorAccepts, Held, Unpublished, Queued
  <2>2. st' = st
    BY <2>1, StatusSame
  <2>3. bornAt[e] # 0
    BY <1>5 DEF CollectorAccepts, Network
  <2>4. StatusOf(e) # "unborn"
    BY <2>3, StatusPlaces DEF TypeOK, Fates
  <2>5. Delivery!Accept(e)
    BY <1>0, <1>5, <2>2, <2>4
       DEF CollectorAccepts, Delivery!Accept, DeliveryStatus
  <2> QED  BY <2>5 DEF Delivery!Next
<1>6. ASSUME NEW a \in Agents, NEW e \in Events, BuildEvent(a, e)
      PROVE  Delivery!Next
  <2>1. /\ Unpublished(a) = {} /\ Unpublished(a)' = {e}
        /\ \A b \in Agents \ {a} : Unpublished(b)' = Unpublished(b)
    BY <1>6, EventsAssumption DEF BuildEvent, Unpublished, TypeOK, Phases
  <2>2. Held' = Held \cup {e}
    BY <2>1 DEF Held
  <2>3. UNCHANGED <<Queued, dead, fate, received>>
    BY <1>6 DEF BuildEvent, Queued
  <2>4. StatusOf(e) = "unborn" /\ StatusOf(e)' = "held"
    BY <1>6, <2>2, StatusPlaces, StatusPlacesNext DEF BuildEvent
  <2>5. st' = [st EXCEPT ![e] = "held"]
    BY <2>2, <2>3, <2>4, StatusMoves
  <2>6. Delivery!Build(e)
    BY <1>0, <2>3, <2>4, <2>5 DEF Delivery!Build, Delivery!Move, DeliveryStatus
  <2> QED  BY <2>6 DEF Delivery!Next
<1>7. ASSUME NEW a \in Agents, LoadCorrupt(a) PROVE Delivery!Next
  <2>1. PICK r \in spool : spool' = spool \ {r} /\ dead' = dead \cup {r.event}
    BY <1>7 DEF LoadCorrupt
  <2>2. Held' = Held /\ UNCHANGED <<fate, received>>
    BY <1>7 DEF LoadCorrupt, Held, Unpublished
  <2> QED  BY <1>bury, <2>1, <2>2
<1>8. ASSUME NEW a \in Agents, BacklogAnswered(a) PROVE UNCHANGED Delivery!vars
  <2>1. \A k : AfterReplayResult(k) \in {"acking", "rejecting", "expireReplay"}
    BY DEF AfterReplayResult
  <2>2. \A b \in Agents : Unpublished(b)' = Unpublished(b)
    BY <1>8, <2>1 DEF BacklogAnswered, Unpublished, TypeOK
  <2>3. UNCHANGED <<spool, dead, fate, received>>
    BY <1>8 DEF BacklogAnswered
  <2> QED  BY <1>stutter, <2>2, <2>3, UnpublishedSame DEF Queued
<1>9. ASSUME NEW a \in Agents, Ack(a) PROVE [Delivery!Next]_Delivery!vars
  <2>1. PICK r \in batch[a] : /\ IsOldest(r, batch[a])
                              /\ spool' = spool \ {r}
                              /\ Mark(EventsOf({r} \cap spool), "delivered")
    BY <1>9 DEF Ack
  <2>2. r.event \in received
    BY <1>9, <2>1 DEF Ack, AckJustified
  <2>3. \A b \in Agents : Unpublished(b)' = Unpublished(b)
    BY <1>9 DEF Ack, Unpublished, TypeOK
  <2>4. Held' = Held /\ UNCHANGED <<dead, received>>
    BY <1>9, <2>3, UnpublishedSame DEF Ack
  <2>5. CASE r \notin spool
    <3>1. fate' = fate
      BY <2>1, <2>5 DEF Mark, EventsOf, TypeOK
    <3>2. Queued' = Queued
      BY <2>1, <2>5 DEF Queued
    <3> QED  BY <1>stutter, <2>4, <3>1, <3>2
  <2>6. CASE r \in spool
    <3>1. /\ r.event \in Events /\ StatusOf(r.event) = "queued"
          /\ Queued' = Queued \ {r.event}
      BY <1>queue, <2>1, <2>4, <2>6
    <3>2. fate' = [e \in Events |-> IF e = r.event THEN "delivered" ELSE fate[e]]
      BY <2>1, <2>6 DEF Mark, EventsOf
    <3>3. StatusOf(r.event)' = "delivered"
      BY <3>1, <3>2, StatusPlacesNext
    <3>4. st' = [st EXCEPT ![r.event] = "delivered"]
      BY <2>4, <3>1, <3>2, <3>3, StatusMoves
    <3>5. Delivery!Settle(r.event)
      BY <1>0, <2>2, <2>4, <3>1, <3>4
         DEF Delivery!Settle, Delivery!Move, DeliveryStatus
    <3> QED  BY <3>1, <3>5 DEF Delivery!Next
  <2> QED  BY <2>5, <2>6
<1>10. ASSUME NEW a \in Agents, Reject(a) PROVE [Delivery!Next]_Delivery!vars
  <2>1. PICK r \in batch[a] : /\ spool' = spool \ {r}
                              /\ dead' = dead \cup EventsOf({r} \cap spool)
    BY <1>10 DEF Reject
  <2>2. \A b \in Agents : Unpublished(b)' = Unpublished(b)
    BY <1>10 DEF Reject, Unpublished, TypeOK
  <2>3. Held' = Held /\ UNCHANGED <<fate, received>>
    BY <1>10, <2>2, UnpublishedSame DEF Reject
  <2>4. CASE r \notin spool
    <3>1. dead' = dead /\ Queued' = Queued
      BY <2>1, <2>4 DEF Queued, EventsOf
    <3> QED  BY <1>stutter, <2>3, <3>1
  <2>5. CASE r \in spool
    <3>1. dead' = dead \cup {r.event}
      BY <2>1, <2>5 DEF EventsOf
    <3> QED  BY <1>bury, <2>1, <2>3, <2>5, <3>1
  <2> QED  BY <2>4, <2>5
<1>11. ASSUME NEW a \in Agents, LiveAnswered(a)
       PROVE  [Delivery!Next]_Delivery!vars
  <2>1. ASSUME pc' = [pc EXCEPT ![a] = "queueing"], UNCHANGED <<live, fate>>
        PROVE  UNCHANGED Delivery!vars
    <3>1. \A b \in Agents : Unpublished(b)' = Unpublished(b)
      BY <1>11, <2>1 DEF LiveAnswered, Unpublished, TypeOK
    <3>2. UNCHANGED <<spool, dead, received>>
      BY <1>11 DEF LiveAnswered
    <3> QED  BY <1>stutter, <2>1, <3>1, <3>2, UnpublishedSame DEF Queued
  <2>2. ASSUME NEW k \in Answers(live[a]), live' = [live EXCEPT ![a] = None],
               pc' = [pc EXCEPT ![a] = "waiting"], Mark({live[a]}, LiveFate(k))
        PROVE  Delivery!Next
    <3>0. PICK e \in Events : e = live[a]
      BY <1>11 DEF LiveAnswered, TypeOK, Phases
    <3>1. /\ e \in Events /\ Unpublished(a) = {e} /\ Unpublished(a)' = {}
          /\ \A b \in Agents \ {a} : Unpublished(b)' = Unpublished(b)
      BY <1>11, <2>2, <3>0, EventsAssumption DEF LiveAnswered, Unpublished,
                                                 TypeOK
    <3>2. e \in Held /\ Held' = Held \ {e}
      BY <3>1 DEF Held, Accounted
    <3>3. UNCHANGED <<Queued, dead, received>>
      BY <1>11 DEF LiveAnswered, Queued
    <3>4. fate' = [x \in Events |-> IF x = e THEN LiveFate(k) ELSE fate[x]]
      BY <2>2, <3>0 DEF Mark
    <3>5. /\ LiveFate(k) \in {"delivered", "refused"}
          /\ LiveFate(k) = "delivered" => e \in received
      BY <2>2, <3>0 DEF LiveFate, Answers
    <3>6. StatusOf(e) = "held" /\ StatusOf(e)' = LiveFate(k)
      BY <3>1, <3>2, <3>4, <3>5, StatusPlaces, StatusPlacesNext
    <3>7. st' = [st EXCEPT ![e] = LiveFate(k)]
      BY <3>1, <3>2, <3>3, <3>4, <3>6, StatusMoves
    <3>8. Delivery!Settle(e) \/ Delivery!Refuse(e)
      BY <1>0, <3>1, <3>3, <3>5, <3>6, <3>7
         DEF Delivery!Settle, Delivery!Refuse, Delivery!Move, DeliveryStatus
    <3> QED  BY <3>1, <3>8 DEF Delivery!Next
  <2> QED  BY <1>11, <2>1, <2>2 DEF LiveAnswered
<1>12. ASSUME NEW a \in Agents, Enqueue(a) PROVE Delivery!Next
  <2>0. PICK e \in Events : e = live[a]
    BY <1>12 DEF Enqueue, TypeOK, Phases
  <2>1. /\ e \in Events /\ Unpublished(a) = {e} /\ Unpublished(a)' = {}
        /\ \A b \in Agents \ {a} : Unpublished(b)' = Unpublished(b)
    BY <1>12, <2>0, EventsAssumption DEF Enqueue, Unpublished, TypeOK
  <2>2. e \in Held /\ Held' = Held \ {e}
    BY <2>1 DEF Held, Accounted
  <2>3. Queued' = Queued \cup {e}
    <3> DEFINE new == [event |-> live[a], time |-> WallClock[now]]
    <3>1. new.event = e /\ spool' = spool \cup {new}
      BY <1>12, <2>0 DEF Enqueue
    <3> HIDE DEF new
    <3> QED  BY <3>1 DEF Queued, EventsOf
  <2>4. UNCHANGED <<dead, fate, received>>
    BY <1>12 DEF Enqueue
  <2>5. StatusOf(e) = "held" /\ StatusOf(e)' = "queued"
    BY <2>1, <2>2, <2>3, StatusPlaces, StatusPlacesNext
  <2>6. st' = [st EXCEPT ![e] = "queued"]
    BY <2>1, <2>2, <2>3, <2>4, <2>5, StatusMoves
  <2>7. Delivery!Queue(e)
    BY <1>0, <2>1, <2>4, <2>5, <2>6
       DEF Delivery!Queue, Delivery!Move, DeliveryStatus
  <2> QED  BY <2>1, <2>7 DEF Delivery!Next
<1>13. ASSUME NEW a \in Agents, Expire(a) PROVE Delivery!Next
  <2>1. PICK t : /\ spool' = spool \ Expired(spool, t)
                 /\ Mark(EventsOf(Expired(spool, t)), "evicted")
    BY <1>13 DEF Expire
  <2>2. /\ pc[a] \in ExpirePCs /\ UNCHANGED <<live, dead, received>>
        /\ pc' = [pc EXCEPT ![a] = CASE @ = "expireReplay" -> "trimReplay"
                                     [] @ = "expireRaise" -> "trimRaise"
                                     [] @ = "expireEnqueue" -> "trimEnqueue"
                                     [] @ = "expireCycle" -> "trimCycle"]
    BY <1>13 DEF Expire
  <2>3. \A b \in Agents : Unpublished(b)' = Unpublished(b)
    BY <2>2 DEF Unpublished, TypeOK, ExpirePCs
  <2>4. Expired(spool, t) \in SUBSET spool
    BY DEF Expired
  <2> QED  BY <1>evict, <2>1, <2>2, <2>3, <2>4, UnpublishedSame
<1>14. ASSUME NEW a \in Agents, Trim(a) PROVE Delivery!Next
  <2> DEFINE over == listed[a] \ Fitting(listed[a])
  <2>1. /\ over \in SUBSET spool /\ spool' = spool \ over
        /\ Mark(EventsOf(over), "evicted") /\ UNCHANGED <<dead, received>>
    BY <1>14 DEF Trim
  <2>2. \A b \in Agents : Unpublished(b)' = Unpublished(b)
    <3>1. /\ pc[a] \in TrimPCs
          /\ live' = [live EXCEPT ![a] = IF pc[a] = "trimCycle" THEN None ELSE @]
          /\ pc' = [pc EXCEPT ![a] = CASE @ = "trimReplay" -> "checking"
                                       [] @ = "trimRaise" -> "raising"
                                       [] @ = "trimEnqueue" -> "expireCycle"
                                       [] @ = "trimCycle" -> "waiting"]
      BY <1>14 DEF Trim
    <3>2. ASSUME NEW b \in Agents \ {a} PROVE Unpublished(b)' = Unpublished(b)
      BY <3>1 DEF Unpublished, TypeOK
    <3>3. Unpublished(a)' = Unpublished(a)
      BY <3>1 DEF Unpublished, TypeOK, TrimPCs
    <3> QED  BY <3>2, <3>3
  <2> HIDE DEF over
  <2> QED  BY <1>evict, <2>1, <2>2, UnpublishedSame
<1>15. CASE UNCHANGED vars
  BY <1>15, <1>stutter DEF vars, Held, Unpublished, Queued
<1> QED
  BY <1>1, <1>2, <1>3, <1>4, <1>5, <1>6, <1>7, <1>8, <1>9, <1>10, <1>11,
     <1>12, <1>13, <1>14, <1>15 DEF Next, AgentStep

(* The agent processes over one spool implement TelemetryDelivery.           *)
THEOREM Implementation == Spec => ImplementsDelivery
<1>1. Init => Delivery!Init
  BY DEF Init, Delivery!Init, StatusOf, Queued, EventsOf, Held, Unpublished
<1>2. IInv /\ IInv' /\ [Next]_vars => [Delivery!Next]_Delivery!vars
  BY StepRefines
<1> QED
  BY <1>1, <1>2, Invariance, PTL DEF Spec, Delivery!Spec, ImplementsDelivery

-----------------------------------------------------------------------------
(* How many bytes a set of records has.  Bytes is defined by a recursion over *)
(* the set, so it is counted here: as the cells of the records' bytes.  An     *)
(* induction on finite sets is a smallest counterexample.                      *)

\* Induction on finite sets: of the subsets with a property one is smallest.
LEMMA SmallestSet ==
  ASSUME NEW R, IsFiniteSet(R), NEW P \in SUBSET SUBSET R, P # {}
  PROVE  \E s \in P : \A x \in s : s \ {x} \notin P
<1>1. P \subseteq FiniteSubsetsOf(R)
  BY FS_Subset DEF FiniteSubsetsOf
<1>2. IsWellFoundedOn(StrictSubsetOrdering(R), FiniteSubsetsOf(R))
  BY FS_StrictSubsetOrderingWellFounded
<1>3. PICK s \in P : \A t \in P : <<t, s>> \notin StrictSubsetOrdering(R)
  BY <1>1, <1>2, WFMin
<1>4. ASSUME NEW x \in s PROVE s \ {x} \notin P
  BY <1>3 DEF StrictSubsetOrdering
<1> QED  BY <1>4

\* The bytes of a set of records, one by one.
Cells(R) == {c \in R \X Nat : 1 <= c[2] /\ c[2] <= SizeOf[c[1].event]}

Weight(R) == Cardinality(Cells(R))

\* A record has a size.
LEMMA OneSize == ASSUME NEW r \in Records PROVE SizeOf[r.event] \in Nat
BY SizeAssumption DEF Records

\* One record more is its bytes more, one by one.
LEMMA CellsOfOneMore ==
  ASSUME NEW R \in SUBSET Records, NEW r \in R
  PROVE  /\ Cells(R) = Cells(R \ {r}) \cup ({r} \X (1 .. SizeOf[r.event]))
         /\ Cells(R \ {r}) \cap ({r} \X (1 .. SizeOf[r.event])) = {}
<1>1. SizeOf[r.event] \in Nat
  BY OneSize
<1>2. \A c \in Cells(R) : c[1] = r => c \in {r} \X (1 .. SizeOf[r.event])
  BY <1>1 DEF Cells
<1> QED  BY <1>1, <1>2 DEF Cells

\* A record has as many bytes as its size says.
LEMMA CellsOfOne ==
  ASSUME NEW r \in Records
  PROVE  /\ IsFiniteSet({r} \X (1 .. SizeOf[r.event]))
         /\ Cardinality({r} \X (1 .. SizeOf[r.event])) = SizeOf[r.event]
<1>1. PICK n \in Nat : n = SizeOf[r.event]
  BY OneSize
<1>2. IsFiniteSet(1 .. n) /\ Cardinality(1 .. n) = n
  <2>1. /\ IsFiniteSet(1 .. n)
        /\ Cardinality(1 .. n) = IF 1 > n THEN 0 ELSE n - 1 + 1
    BY FS_Interval
  <2> QED  BY <2>1
<1>3. IsFiniteSet({r}) /\ Cardinality({r}) = 1
  BY FS_Singleton
<1>4. /\ IsFiniteSet({r} \X (1 .. n))
      /\ Cardinality({r} \X (1 .. n)) = Cardinality({r}) * Cardinality(1 .. n)
  BY <1>2, <1>3, FS_Product
<1>5. Cardinality({r}) * Cardinality(1 .. n) = n
  BY <1>2, <1>3
<1> QED  BY <1>1, <1>4, <1>5

\* Finitely many records have finitely many bytes.
LEMMA CellsFinite ==
  ASSUME NEW R \in SUBSET Records, IsFiniteSet(R)
  PROVE  IsFiniteSet(Cells(R))
<1> DEFINE Bad == {s \in SUBSET R : ~IsFiniteSet(Cells(s))}
<1>1. SUFFICES ASSUME Bad # {} PROVE FALSE
  OBVIOUS
<1>2. PICK s \in Bad : \A r \in s : s \ {r} \notin Bad
  <2> HIDE DEF Bad
  <2>1. Bad \in SUBSET SUBSET R
    BY DEF Bad
  <2> QED  BY <1>1, <2>1, SmallestSet
<1>3. s # {}
  BY FS_EmptySet DEF Cells
<1>4. PICK r \in s : TRUE
  BY <1>3
<1>5. IsFiniteSet(Cells(s \ {r}))
  BY <1>2
<1>6. /\ Cells(s) = Cells(s \ {r}) \cup ({r} \X (1 .. SizeOf[r.event]))
      /\ IsFiniteSet({r} \X (1 .. SizeOf[r.event]))
  BY CellsOfOneMore, CellsOfOne
<1>7. IsFiniteSet(Cells(s \ {r}) \cup ({r} \X (1 .. SizeOf[r.event])))
  BY <1>5, <1>6, FS_Union
<1>8. IsFiniteSet(Cells(s))
  BY <1>6, <1>7
<1> QED  BY <1>8

\* Taking a record out takes its size off the weight.
LEMMA WeightOfOneMore ==
  ASSUME NEW R \in SUBSET Records, IsFiniteSet(R), NEW r \in R
  PROVE  Weight(R) = SizeOf[r.event] + Weight(R \ {r})
<1> DEFINE C == Cells(R \ {r})  D == {r} \X (1 .. SizeOf[r.event])
<1>1. IsFiniteSet(C)
  BY FS_RemoveElement, CellsFinite
<1>2. Cells(R) = C \cup D /\ C \cap D = {}
  BY CellsOfOneMore
<1>3. IsFiniteSet(D) /\ Cardinality(D) = SizeOf[r.event]
  BY CellsOfOne
<1> HIDE DEF C, D
<1>4. Cardinality(C \cup D) = Cardinality(C) + Cardinality(D)
  <2>1. Cardinality(C \cup D)
          = Cardinality(C) + Cardinality(D) - Cardinality(C \cap D)
    BY <1>1, <1>3, FS_Union
  <2>2. Cardinality(C \cap D) = 0
    BY <1>2, FS_EmptySet
  <2>3. Cardinality(C) \in Nat /\ Cardinality(D) \in Nat
    BY <1>1, <1>3, FS_CardinalityType
  <2> QED  BY <2>1, <2>2, <2>3
<1> QED  BY <1>1, <1>2, <1>3, <1>4, FS_CardinalityType DEF Weight, C

\* Weights are numbers, and nothing weighs nothing.
LEMMA WeightType ==
  ASSUME NEW R \in SUBSET Records, IsFiniteSet(R)
  PROVE  Weight(R) \in Nat /\ Weight({}) = 0
<1>1. Cells({}) = {}
  BY DEF Cells
<1> QED  BY <1>1, CellsFinite, FS_CardinalityType, FS_EmptySet DEF Weight

\* Fewer records do not weigh more.
LEMMA WeightGrows ==
  ASSUME NEW R \in SUBSET Records, IsFiniteSet(R), NEW S \in SUBSET R
  PROVE  Weight(S) <= Weight(R)
<1>1. Cells(S) \subseteq Cells(R)
  BY DEF Cells
<1> QED  BY <1>1, CellsFinite, FS_Subset DEF Weight

\* The recursion of MapThenSumSet.
First(s) == CHOOSE r \in s : TRUE
Sums(g, R) ==
  g = [s \in SUBSET R |->
         IF s = {} THEN 0 ELSE SizeOf[First(s).event] + g[s \ {First(s)}]]

\* Bytes is the last value of that recursion.
LEMMA BytesBySums == ASSUME NEW R PROVE Bytes(R) = (CHOOSE g : Sums(g, R))[R]
BY DEF Bytes, MapThenSumSet, MapThenFoldSet, Sums, First

\* The sum the code computes is the number of bytes.
LEMMA BytesAreCounted ==
  ASSUME NEW R \in SUBSET Records, IsFiniteSet(R)
  PROVE  Bytes(R) = Weight(R)
<1>1. ASSUME NEW s \in SUBSET R, s # {}
      PROVE  /\ First(s) \in s
             /\ Weight(s) = SizeOf[First(s).event] + Weight(s \ {First(s)})
  <2>1. First(s) \in s
    BY <1>1 DEF First
  <2>2. IsFiniteSet(s)
    BY FS_Subset
  <2> QED  BY <2>1, <2>2, WeightOfOneMore
<1>2. \E g : Sums(g, R)
  <2> DEFINE g == [s \in SUBSET R |-> Weight(s)]
  <2>1. ASSUME NEW s \in SUBSET R
        PROVE  g[s] = IF s = {} THEN 0
                      ELSE SizeOf[First(s).event] + g[s \ {First(s)}]
    BY <1>1, WeightType
  <2> HIDE DEF g
  <2>2. g = [s \in SUBSET R |-> g[s]]
    BY DEF g
  <2>3. Sums(g, R)
    BY <2>1, <2>2 DEF Sums
  <2> QED  BY <2>3
<1>3. PICK g : Sums(g, R) /\ Bytes(R) = g[R]
  BY <1>2, BytesBySums
<1> DEFINE Bad == {s \in SUBSET R : g[s] # Weight(s)}
<1>4. SUFFICES ASSUME Bad # {} PROVE FALSE
  BY <1>3
<1>5. PICK s \in Bad : \A r \in s : s \ {r} \notin Bad
  <2> HIDE DEF Bad
  <2>1. Bad \in SUBSET SUBSET R
    BY DEF Bad
  <2> QED  BY <1>4, <2>1, SmallestSet
<1>6. s # {}
  BY <1>3, <1>5, WeightType DEF Sums
<1>7. g[s] = SizeOf[First(s).event] + g[s \ {First(s)}]
  BY <1>3, <1>6 DEF Sums
<1>8. g[s \ {First(s)}] = Weight(s \ {First(s)})
  BY <1>1, <1>5, <1>6
<1> QED  BY <1>1, <1>5, <1>6, <1>7, <1>8

\* The order of the records is transitive.
LEMMA OlderTransitive ==
  ASSUME NEW r \in Records, NEW s \in Records, NEW t \in Records,
         Older(r, s), Older(s, t)
  PROVE  Older(r, t)
<1>1. \A x \in Records : x.event \in Events /\ x.time \in Times
  BY DEF Records
<1>2. Events \subseteq Nat /\ Times \subseteq Nat
  BY EventsAssumption, LimitAssumption DEF Times
<1>3. /\ r.event \in Nat /\ s.event \in Nat /\ t.event \in Nat
      /\ r.time \in Nat /\ s.time \in Nat /\ t.time \in Nat
  BY <1>1, <1>2
<1> QED  BY <1>3 DEF Older

\* In a finite set of records there is an oldest.
LEMMA OldestExists ==
  ASSUME NEW R \in SUBSET Records, IsFiniteSet(R), R # {}
  PROVE  \E r \in R : IsOldest(r, R)
<1> DEFINE P == {s \in SUBSET R : s # {} /\ \A r \in s : ~IsOldest(r, s)}
<1>1. SUFFICES ASSUME P # {} PROVE FALSE
  BY DEF IsOldest
<1>2. PICK s \in P : \A r \in s : s \ {r} \notin P
  <2> HIDE DEF P
  <2>1. P \in SUBSET SUBSET R
    BY DEF P
  <2> QED  BY <1>1, <2>1, SmallestSet
<1>3. PICK r \in s : TRUE
  BY <1>2
<1>4. ~Older(r, r)
  <2>1. r.event \in Events /\ r.time \in Times
    BY DEF Records
  <2>2. Events \subseteq Nat /\ Times \subseteq Nat
    BY EventsAssumption, LimitAssumption DEF Times
  <2>3. r.event \in Nat /\ r.time \in Nat
    BY <2>1, <2>2
  <2> QED  BY <2>3 DEF Older
<1>5. s # {r}
  BY <1>2, <1>4 DEF IsOldest
<1>6. PICK t \in s \ {r} : IsOldest(t, s \ {r})
  <2>1. s \ {r} # {} /\ s \ {r} \in SUBSET R
    BY <1>5
  <2>2. s \ {r} \notin P
    BY <1>2
  <2> QED  BY <2>1, <2>2
<1>7. Older(r, t)
  BY <1>2, <1>6 DEF IsOldest
<1>8. ~IsOldest(r, s)
  BY <1>2, <1>3
<1>9. PICK u \in s : Older(u, r)
  BY <1>3, <1>8 DEF IsOldest
<1>10. u \in s \ {r}
  BY <1>4, <1>9
<1>11. Older(u, t)
  BY <1>7, <1>9, OlderTransitive
<1> QED  BY <1>6, <1>10, <1>11 DEF IsOldest

\* What fits keeps the limit.
LEMMA FittingFits ==
  ASSUME NEW R \in SUBSET Records, IsFiniteSet(R)
  PROVE  Bytes(Fitting(R)) <= MaxBytes
<1>1. Fitting(R) \in SUBSET R /\ IsFiniteSet(Fitting(R))
  BY FS_Subset DEF Fitting
<1>2. CASE Fitting(R) = {}
  <2>1. Bytes({}) = 0
    BY FS_EmptySet, BytesAreCounted, WeightType
  <2> QED  BY <1>2, <2>1, LimitAssumption
<1>3. CASE Fitting(R) # {}
  <2>1. PICK r \in Fitting(R) : IsOldest(r, Fitting(R))
    BY <1>1, <1>3, OldestExists
  <2> DEFINE T == {s \in R : ~Older(s, r)}
  <2>2. Bytes(T) <= MaxBytes
    BY DEF Fitting
  <2>3. Fitting(R) \subseteq T
    BY <1>1, <2>1 DEF IsOldest
  <2>4. IsFiniteSet(T) /\ T \in SUBSET Records
    BY FS_Subset
  <2> HIDE DEF T
  <2>5. Weight(Fitting(R)) <= Weight(T)
    BY <2>3, <2>4, WeightGrows
  <2>6. /\ Bytes(T) = Weight(T) /\ Weight(T) \in Nat
        /\ Bytes(Fitting(R)) = Weight(Fitting(R)) /\ Weight(Fitting(R)) \in Nat
    BY <1>1, <2>4, BytesAreCounted, WeightType
  <2> QED  BY <2>2, <2>5, <2>6, LimitAssumption
<1> QED  BY <1>2, <1>3

\* Of finitely many sizes one is the largest.
LEMMA Largest ==
  ASSUME IsFiniteSet(Events), NEW e \in Events
  PROVE  /\ Max({SizeOf[f] : f \in Events}) \in Nat
         /\ SizeOf[e] <= Max({SizeOf[f] : f \in Events})
<1>0. \A f \in Events : SizeOf[f] \in Nat
  BY SizeAssumption
<1> DEFINE P == {s \in SUBSET Events :
                   s # {} /\ \A g \in s : \E f \in s : SizeOf[g] < SizeOf[f]}
<1>1. ASSUME P # {} PROVE FALSE
  <2>1. PICK s \in P : \A g \in s : s \ {g} \notin P
    <3> HIDE DEF P
    <3>1. P \in SUBSET SUBSET Events
      BY DEF P
    <3> QED  BY <1>1, <3>1, SmallestSet
  <2>2. PICK g \in s : TRUE
    BY <2>1
  <2>3. PICK h \in s : SizeOf[g] < SizeOf[h]
    BY <2>1
  <2>4. h \in s \ {g}
    BY <1>0, <2>3
  <2>5. PICK m \in s \ {g} : \A f \in s \ {g} : ~(SizeOf[m] < SizeOf[f])
    BY <2>1, <2>4
  <2>6. PICK n \in s : SizeOf[m] < SizeOf[n]
    BY <2>1
  <2>7. n = g
    BY <2>5, <2>6
  <2>8. SizeOf[m] < SizeOf[h]
    BY <1>0, <2>3, <2>6, <2>7
  <2> QED  BY <2>4, <2>5, <2>8
<1>2. PICK g \in Events : \A f \in Events : ~(SizeOf[g] < SizeOf[f])
  BY <1>1
<1> DEFINE S == {SizeOf[f] : f \in Events}
<1>3. SizeOf[g] \in S /\ \A y \in S : SizeOf[g] >= y
  BY <1>0, <1>2
<1> HIDE DEF S
<1>4. Max(S) \in S /\ \A y \in S : Max(S) >= y
  BY <1>3 DEF Max
<1> QED  BY <1>0, <1>4 DEF S

\* Fewer records have no more bytes.
LEMMA BytesGrow ==
  ASSUME NEW R \in SUBSET Records, IsFiniteSet(R), NEW S \in SUBSET R
  PROVE  Bytes(S) <= Bytes(R) /\ Bytes(R) \in Nat /\ Bytes(S) \in Nat
<1>1. IsFiniteSet(S) /\ S \in SUBSET Records
  BY FS_Subset
<1> QED  BY <1>1, BytesAreCounted, WeightGrows, WeightType

\* One record more adds no more than its size.
LEMMA BytesOfOneMore ==
  ASSUME NEW R \in SUBSET Records, IsFiniteSet(R), NEW r \in Records
  PROVE  Bytes(R \cup {r}) <= Bytes(R) + SizeOf[r.event]
<1> DEFINE Q == R \cup {r}
<1>1. IsFiniteSet(Q) /\ Q \in SUBSET Records /\ r \in Q
  BY FS_AddElement
<1>2. Q \ {r} \in SUBSET R
  OBVIOUS
<1> HIDE DEF Q
<1>3. Weight(Q) = SizeOf[r.event] + Weight(Q \ {r})
  BY <1>1, WeightOfOneMore
<1>4. Weight(Q \ {r}) <= Weight(R)
  BY <1>2, WeightGrows
<1>5. IsFiniteSet(Q \ {r}) /\ Q \ {r} \in SUBSET Records
  BY <1>2, FS_Subset
<1>6. /\ Weight(R) \in Nat /\ Weight(Q) \in Nat /\ Weight(Q \ {r}) \in Nat
      /\ SizeOf[r.event] \in Nat
  BY <1>1, <1>5, WeightType, OneSize
<1>7. Bytes(Q) = Weight(Q) /\ Bytes(R) = Weight(R)
  BY <1>1, BytesAreCounted
<1>8. Bytes(Q) <= Bytes(R) + SizeOf[r.event]
  BY <1>3, <1>4, <1>6, <1>7
<1> QED  BY <1>8 DEF Q

-----------------------------------------------------------------------------
(* One process: its records are in the order its events were built in.        *)

\* The wall clock is never wrong.
RightClock == \A t \in Times : WallClock[t] = t

\* The events of process a are built one after the other, the live one last.
Clocks(a) ==
  /\ clock[a] <= now
  /\ \A e \in Events : bornAt[e] <= now
  /\ live[a] = None => \A e \in Events : bornAt[e] <= clock[a]
  /\ live[a] # None =>
       \A e \in Events \ {live[a]} : bornAt[e] < bornAt[live[a]]

\* A record is younger than its event and older than every later event.
Dated(a) ==
  /\ IsFiniteSet(spool)
  /\ \A r \in spool : /\ 0 < bornAt[r.event] /\ bornAt[r.event] <= r.time
                      /\ r.time <= clock[a]
  /\ \A r \in spool, e \in Events :
       bornAt[r.event] < bornAt[e] => r.time < bornAt[e]

\* What replay has listed is not younger than what it has left.
Front(a) ==
  /\ batch[a] # {} => pc[a] \in {"replaying"} \cup BacklogPCs
  /\ \A r \in batch[a], s \in spool \ batch[a] : ~Older(s, r)

\* Times and names are numbers.
LEMMA Numbers ==
  ASSUME TypeOK, NEW a \in Agents
  PROVE  /\ now \in Nat /\ clock[a] \in Nat
         /\ \A e \in Events : e \in Nat /\ bornAt[e] \in Nat
         /\ \A r \in Records : r.event \in Events /\ r.time \in Nat
BY EventsAssumption, LimitAssumption DEF TypeOK, Times, Records

\* Time passes and records go: nothing else happens to either.
Passes(a) ==
  /\ bornAt' = bornAt /\ spool' \subseteq spool
  /\ now <= now' /\ clock[a] <= clock'[a] /\ clock'[a] <= now'
  /\ \/ live'[a] = live[a]
     \/ live'[a] = None /\ clock'[a] = now

\* Only two actions add an event or a record.
LEMMA Effects ==
  ASSUME NEW a, Agents = {a}, TypedPhases, Clocks(a), [Next]_vars
  PROVE  Enqueue(a) \/ Passes(a) \/ \E e \in Events : BuildEvent(a, e)
<1> USE DEF Passes, Clocks, TypedPhases
<1>0. now \in Nat /\ clock[a] \in Nat
  BY Numbers
<1>1. ASSUME \/ Start(a) \/ Exit(a) \/ ListBacklog(a) \/ LoadMissing(a)
             \/ LoadCorrupt(a) \/ LoadAndSend(a) \/ BacklogAnswered(a)
      PROVE  Passes(a)
  BY <1>0, <1>1 DEF Start, Exit, ListBacklog, LoadMissing, LoadCorrupt,
                    LoadAndSend, BacklogAnswered
<1>2. ASSUME Ack(a) \/ Reject(a) \/ EndReplay(a) \/ ReplayRaises(a)
                    \/ CheckBacklog(a)
      PROVE  Passes(a)
  <2>1. UNCHANGED <<now, bornAt, live, clock>> /\ spool' \subseteq spool
    BY <1>2 DEF Ack, Reject, EndReplay, ReplayRaises, CheckBacklog
  <2> QED  BY <1>0, <2>1
<1>3. ASSUME NEW R, Fall(a, R) PROVE Passes(a)
  BY <1>0, <1>3 DEF Fall, TypeOK
<1>4. ASSUME LiveAnswered(a) PROVE Passes(a)
  BY <1>0, <1>4 DEF LiveAnswered, TypeOK
<1>5. ASSUME Expire(a) PROVE Passes(a)
  BY <1>0, <1>5 DEF Expire, PassTime, TypeOK
<1>6. ASSUME Trim(a) PROVE Passes(a)
  BY <1>0, <1>6 DEF Trim, TypeOK
<1>7. ASSUME Tick \/ (\E e \in Events : CollectorAccepts(e)) \/ UNCHANGED vars
      PROVE  Passes(a)
  BY <1>0, <1>7 DEF Tick, CollectorAccepts, vars
<1>8. ASSUME Crash(a) \/ CrashMidPass(a) \/ TrimRaises(a) \/ Abort(a)
      PROVE  Passes(a)
  BY <1>3, <1>8 DEF Crash, CrashMidPass, TrimRaises, Abort
<1> QED
  BY <1>1, <1>2, <1>4, <1>5, <1>6, <1>7, <1>8 DEF Next, AgentStep

\* No step of the one process disturbs the order of its events.
LEMMA ClocksStep ==
  ASSUME NEW a, Agents = {a}, TypedPhases, TypeOK', Clocks(a), [Next]_vars
  PROVE  Clocks(a)'
<1>0. /\ now \in Nat /\ clock[a] \in Nat /\ now' \in Nat /\ clock'[a] \in Nat
      /\ \A e \in Events : bornAt[e] \in Nat
      /\ \A e \in Events : bornAt'[e] \in Nat
  <2>1. (/\ now \in Nat /\ clock[a] \in Nat
         /\ \A e \in Events : bornAt[e] \in Nat)'
    BY LimitAssumption DEF TypeOK, Times
  <2> QED  BY <2>1, Numbers DEF TypedPhases
<1>1. CASE Enqueue(a)
  BY <1>0, <1>1 DEF Enqueue, Clocks, TypedPhases, TypeOK
<1>2. CASE Passes(a)
  BY <1>0, <1>2 DEF Passes, Clocks
<1>3. ASSUME NEW e \in Events, BuildEvent(a, e) PROVE Clocks(a)'
  <2>1. /\ live[a] = None /\ now > clock[a] /\ UNCHANGED <<now, clock>>
        /\ live'[a] = e /\ bornAt' = [bornAt EXCEPT ![e] = now]
    BY <1>3 DEF BuildEvent, TypedPhases, TypeOK, Phases
  <2>2. e # None
    BY EventsAssumption
  <2>3. \A f \in Events : bornAt'[f] = IF f = e THEN now ELSE bornAt[f]
    BY <2>1 DEF TypedPhases, TypeOK
  <2> QED  BY <1>0, <2>1, <2>2, <2>3 DEF Clocks
<1> QED  BY <1>1, <1>2, <1>3, Effects

\* Nor the dates of its records.
LEMMA DatedStep ==
  ASSUME NEW a, Agents = {a}, RightClock, TypedPhases, Accounted, TypeOK',
         Clocks(a), Dated(a), [Next]_vars
  PROVE  Dated(a)'
<1>0. /\ now \in Nat /\ clock[a] \in Nat /\ clock'[a] \in Nat
      /\ \A e \in Events : bornAt[e] \in Nat
      /\ \A r \in spool : r \in Records /\ r.event \in Events /\ r.time \in Nat
  <2>1. (clock[a] \in Nat)'
    BY LimitAssumption DEF TypeOK, Times
  <2> QED  BY <2>1, Numbers DEF TypedPhases, TypeOK
<1>1. CASE Enqueue(a)
  <2>1. /\ live[a] \in Events /\ live[a] # None
        /\ spool' = spool \cup {[event |-> live[a], time |-> now]}
        /\ bornAt' = bornAt /\ clock'[a] = now
    BY <1>1 DEF Enqueue, RightClock, TypedPhases, TypeOK, Phases
  <2>2. PICK new : new = [event |-> live[a], time |-> now]
    OBVIOUS
  <2>3. 0 < bornAt[live[a]] /\ bornAt[live[a]] <= now
    <3>1. live[a] \in Held
      BY <1>1, <2>1 DEF Enqueue, Held, Unpublished
    <3> QED  BY <1>0, <2>1, <3>1 DEF Accounted, Clocks
  <2>4. \A e \in Events : bornAt[e] <= bornAt[live[a]]
    BY <1>0, <2>1 DEF Clocks
  <2>5. IsFiniteSet(spool')
    BY <2>1, FS_AddElement DEF Dated
  <2>6. clock[a] <= now
    BY DEF Clocks
  <2>7. \A r \in spool' : r \in spool \/ (r.event = live[a] /\ r.time = now)
    BY <2>1, <2>2
  <2> QED  BY <1>0, <2>1, <2>3, <2>4, <2>5, <2>6, <2>7 DEF Dated
<1>2. CASE Passes(a)
  <2>1. IsFiniteSet(spool')
    BY <1>2, FS_Subset DEF Passes, Dated
  <2> QED  BY <1>0, <1>2, <2>1 DEF Passes, Dated
<1>3. ASSUME NEW e \in Events, BuildEvent(a, e) PROVE Dated(a)'
  <2>1. /\ now > clock[a] /\ UNCHANGED <<spool, clock>>
        /\ bornAt' = [bornAt EXCEPT ![e] = now] /\ bornAt[e] = 0
    BY <1>3 DEF BuildEvent
  <2>3. \A f \in Events : bornAt'[f] = IF f = e THEN now ELSE bornAt[f]
    BY <2>1 DEF TypedPhases, TypeOK
  <2>4. \A r \in spool : bornAt'[r.event] = bornAt[r.event]
    BY <1>0, <2>1, <2>3 DEF Dated
  <2> QED  BY <1>0, <2>1, <2>3, <2>4 DEF Dated
<1> QED  BY <1>1, <1>2, <1>3, Effects

\* Nothing that replay has not listed is older than what it has.
LEMMA BatchInFront ==
  ASSUME NEW R \in SUBSET Records, IsFiniteSet(R), NEW r \in OldestBatch(R),
         NEW s \in R, Older(s, r)
  PROVE  s \in OldestBatch(R)
<1> DEFINE InFrontOf(x) == {y \in R : Older(y, x)}
<1>1. InFrontOf(s) \subseteq InFrontOf(r)
  BY OlderTransitive DEF OldestBatch
<1>2. IsFiniteSet(InFrontOf(r)) /\ IsFiniteSet(InFrontOf(s))
  BY FS_Subset
<1>3. Cardinality(InFrontOf(r)) < ReplayBatch
  BY DEF OldestBatch
<1> HIDE DEF InFrontOf
<1>4. Cardinality(InFrontOf(s)) <= Cardinality(InFrontOf(r))
  BY <1>1, <1>2, FS_Subset
<1>5. Cardinality(InFrontOf(s)) < ReplayBatch
  BY <1>2, <1>3, <1>4, FS_CardinalityType, LimitAssumption
<1> QED  BY <1>5 DEF OldestBatch, InFrontOf

\* A batch stays in front while replay takes it record by record.
LEMMA FrontStep ==
  ASSUME NEW a, Agents = {a}, TypedPhases, Clocks(a), Dated(a), Front(a),
         [Next]_vars
  PROVE  Front(a)'
<1> USE DEF TypedPhases, Front
<1>0. /\ pc \in [Agents -> PCs] /\ spool \subseteq Records
      /\ batch \in [Agents -> SUBSET Records]
  BY DEF TypeOK
<1>1. ASSUME ListBacklog(a) PROVE Front(a)'
  <2>1. /\ spool' = spool /\ batch'[a] = OldestBatch(spool)
        /\ pc'[a] = "replaying"
    BY <1>0, <1>1 DEF ListBacklog
  <2> QED  BY <1>0, <2>1, BatchInFront DEF Dated
<1>2. ASSUME LoadMissing(a) \/ LoadCorrupt(a) \/ Ack(a) \/ Reject(a)
      PROVE  Front(a)'
  <2>1. PICK r \in batch[a] : spool' = spool \ {r} /\ batch'[a] = batch[a] \ {r}
    <3>1. CASE LoadMissing(a)
      <4>1. PICK r \in batch[a] \ spool : batch' = [batch EXCEPT ![a] = @ \ {r}]
        BY <3>1 DEF LoadMissing
      <4> QED  BY <1>0, <3>1, <4>1 DEF LoadMissing
    <3>2. CASE LoadCorrupt(a)
      BY <1>0, <3>2 DEF LoadCorrupt
    <3>3. CASE Ack(a) \/ Reject(a)
      BY <1>0, <3>3 DEF Ack, Reject
    <3> QED  BY <1>2, <3>1, <3>2, <3>3
  <2>2. pc'[a] = "replaying"
    BY <1>0, <1>2 DEF LoadMissing, LoadCorrupt, Ack, Reject
  <2> QED  BY <2>1, <2>2
<1>3. ASSUME BacklogAnswered(a) PROVE Front(a)'
  <2>1. spool' = spool /\ batch'[a] \in {batch[a], {}}
    BY <1>0, <1>3 DEF BacklogAnswered
  <2>2. batch'[a] # {} => pc'[a] \in BacklogPCs
    BY <1>0, <1>3 DEF BacklogAnswered, AfterReplayResult, BacklogPCs
  <2> QED  BY <2>1, <2>2
<1>4. ASSUME LoadAndSend(a) PROVE Front(a)'
  BY <1>0, <1>4 DEF LoadAndSend, BacklogPCs
<1>5. ASSUME NEW R, Fall(a, R) PROVE Front(a)'
  BY <1>0, <1>5 DEF Fall
<1>6. ASSUME batch'[a] = {} \/ ReplayRaises(a) PROVE Front(a)'
  BY <1>0, <1>6 DEF ReplayRaises
<1>7. ASSUME \/ EndReplay(a)
             \/ batch' = batch /\ pc[a] \notin {"replaying"} \cup BacklogPCs
      PROVE  Front(a)'
  BY <1>7 DEF EndReplay
<1>8. ASSUME \/ Start(a) \/ Exit(a) \/ (\E e \in Events : BuildEvent(a, e))
             \/ CheckBacklog(a) \/ LiveAnswered(a) \/ Enqueue(a)
             \/ Expire(a) \/ Trim(a)
      PROVE  Front(a)'
  BY <1>7, <1>8
     DEF Start, Exit, BuildEvent, CheckBacklog, LiveAnswered, Enqueue, Expire,
         Trim, ExpirePCs, TrimPCs, BacklogPCs
<1>9. ASSUME UNCHANGED <<pc, batch, spool>> PROVE Front(a)'
  BY <1>9
<1>10. ASSUME Crash(a) \/ CrashMidPass(a) \/ TrimRaises(a) \/ Abort(a)
       PROVE  Front(a)'
  BY <1>5, <1>10 DEF Crash, CrashMidPass, TrimRaises, Abort
<1> QED
  BY <1>1, <1>2, <1>3, <1>4, <1>6, <1>7, <1>8, <1>9, <1>10
     DEF Next, AgentStep, Tick, CollectorAccepts, vars

\* Only two actions put an event on the network.
LEMMA SentBy ==
  ASSUME [Next]_vars
  PROVE  sent' = sent \/ \E a \in Agents : LoadAndSend(a) \/ CheckBacklog(a)
BY DEF Next, AgentStep, Start, Exit, Crash, CrashMidPass, TrimRaises, Abort,
       Fall, Tick, CollectorAccepts, ListBacklog, LoadMissing, LoadCorrupt,
       BuildEvent, BacklogAnswered, Ack, Reject, EndReplay, ReplayRaises,
       LiveAnswered, Enqueue, Expire, Trim, vars

\* No step sends an event before an older one of the spool.
LEMMA OldestFirstStep ==
  ASSUME NEW a, Agents = {a}, RightClock, IInv, IInv', Clocks(a), Dated(a),
         Front(a), OldestFirst, [Next]_vars
  PROVE  OldestFirst'
<1> USE DEF IInv, TypedPhases
<1>0. /\ \A e \in Events : bornAt[e] \in Nat
      /\ \A r \in spool : r \in Records /\ r.event \in Events /\ r.time \in Nat
      /\ sent \subseteq Events /\ sent' \subseteq Events
      /\ Queued \subseteq Events
  BY Numbers DEF TypeOK, Queued, EventsOf
<1>1. CASE sent' = sent /\ Enqueue(a)
  <2>1. /\ live[a] \in Events /\ live[a] # None /\ bornAt' = bornAt 
        /\ spool' = spool \cup {[event |-> live[a], time |-> now]}
    BY <1>1 DEF Enqueue, RightClock, TypeOK, Phases
  <2>2. Queued' = Queued \cup {live[a]}
    <3>1. PICK new : new = [event |-> live[a], time |-> now]
      OBVIOUS
    <3>2. spool' = spool \cup {new} /\ new.event = live[a]
      BY <2>1, <3>1
    <3> QED  BY <3>2 DEF Queued, EventsOf
  <2>3. \A f \in Events : bornAt[f] <= bornAt[live[a]]
    BY <1>0, <2>1 DEF Clocks
  <2> QED  BY <1>0, <1>1, <2>1, <2>2, <2>3 DEF OldestFirst
<1>2. CASE sent' = sent /\ Passes(a)
  <2>1. bornAt' = bornAt /\ Queued' \subseteq Queued
    BY <1>2 DEF Passes, Queued, EventsOf
  <2> QED  BY <1>2, <2>1 DEF OldestFirst
<1>3. ASSUME sent' = sent, NEW e \in Events, BuildEvent(a, e) PROVE OldestFirst'
  <2>1. Queued' = Queued /\ bornAt' = [bornAt EXCEPT ![e] = now] /\ bornAt[e] = 0
    BY <1>3 DEF BuildEvent, Queued
  <2>2. e \notin sent
    BY <2>1 DEF Network
  <2>3. e \notin Queued
    BY <1>0, <2>1 DEF Dated, Queued, EventsOf
  <2>4. \A f \in Events \ {e} : bornAt'[f] = bornAt[f]
    BY <2>1 DEF TypeOK
  <2> QED  BY <1>0, <1>3, <2>1, <2>2, <2>3, <2>4 DEF OldestFirst
<1>4. CASE LoadAndSend(a)
  <2>1. PICK r \in batch[a] \cap spool :
          IsOldest(r, batch[a]) /\ sent' = sent \cup {r.event}
    BY <1>4 DEF LoadAndSend
  <2>2. UNCHANGED <<spool, bornAt, Queued>>
    BY <1>4 DEF LoadAndSend, Queued
  <2>3. \A s \in spool : ~Older(s, r)
    BY <2>1 DEF Front, IsOldest
  <2>4. \A s \in spool : bornAt[r.event] <= bornAt[s.event]
    <3> SUFFICES ASSUME NEW s \in spool, bornAt[s.event] < bornAt[r.event]
                 PROVE  FALSE
      BY <1>0
    <3>1. s.time < bornAt[r.event] /\ bornAt[r.event] <= r.time
      BY <1>0 DEF Dated
    <3>2. s.time < r.time
      BY <1>0, <3>1
    <3> QED  BY <2>3, <3>2 DEF Older
  <2>5. \A e \in Queued : bornAt[r.event] <= bornAt[e]
    BY <2>4 DEF Queued, EventsOf
  <2> QED  BY <2>1, <2>2, <2>5 DEF OldestFirst
<1>5. CASE CheckBacklog(a)
  <2>1. UNCHANGED <<spool, bornAt, Queued>> /\ (sent' = sent \/ spool = {})
    BY <1>5 DEF CheckBacklog, SendsLive, Queued
  <2>2. spool = {} => Queued = {}
    BY DEF Queued, EventsOf
  <2> QED  BY <2>1, <2>2 DEF OldestFirst
<1> QED  BY <1>1, <1>2, <1>3, <1>4, <1>5, Effects, SentBy

\* No event alone is larger than the spool.
EachFits == \A e \in Events : SizeOf[e] <= MaxBytes

\* The event process a has queued stays in the spool until the cycle is over.
Kept(a) ==
  /\ pc[a] = "expireEnqueue" =>
       \E r \in spool : r.event = live[a] /\ r.time = clock[a]
  /\ pc[a] = "trimEnqueue" => live[a] \in EventsOf(spool \cap listed[a])
  /\ pc[a] = "expireCycle" => live[a] \in Queued
  /\ pc[a] = "trimCycle" =>
       \/ live[a] \in EventsOf(spool \cap listed[a])
       \/ bornAt[live[a]] + MaxAge < now

\* One record has the bytes of its size.
LEMMA BytesOfOne == ASSUME NEW r \in Records PROVE Bytes({r}) = SizeOf[r.event]
<1>1. IsFiniteSet({r}) /\ {r} \in SUBSET Records /\ r \in {r} /\ {r} \ {r} = {}
  BY FS_Singleton
<1>2. Bytes({r}) = Weight({r})
  BY <1>1, BytesAreCounted
<1>3. Weight({r}) = SizeOf[r.event] + Weight({r} \ {r})
  BY <1>1, WeightOfOneMore
<1>4. Weight({}) = 0
  BY <1>1, WeightType
<1>5. SizeOf[r.event] \in Nat
  BY OneSize
<1> QED  BY <1>1, <1>2, <1>3, <1>4, <1>5

\* The youngest record always fits.
LEMMA LiveFits ==
  ASSUME NEW a, Agents = {a}, EachFits, TypedPhases, Accounted, Clocks(a),
         Dated(a), live[a] # None, listed[a] \subseteq spool,
         NEW r \in listed[a], r.event = live[a]
  PROVE  r \in Fitting(listed[a])
<1>0. /\ \A e \in Events : bornAt[e] \in Nat
      /\ \A s \in spool : s \in Records /\ s.event \in Events /\ s.time \in Nat
  BY Numbers DEF TypedPhases, TypeOK
<1>1. ASSUME NEW s \in listed[a], s # r PROVE Older(s, r)
  <2>1. s.event # r.event
    BY <1>1 DEF Accounted
  <2>2. bornAt[s.event] < bornAt[r.event]
    BY <1>0, <2>1 DEF Clocks
  <2>3. s.time < bornAt[r.event] /\ bornAt[r.event] <= r.time
    BY <1>0, <2>2 DEF Dated
  <2>4. s.time < r.time
    BY <1>0, <2>3
  <2> QED  BY <2>4 DEF Older
<1>2. ~Older(r, r)
  <2>1. r.time \in Nat /\ r.event \in Nat
    BY <1>0, EventsAssumption
  <2> QED  BY <2>1 DEF Older
<1>3. {s \in listed[a] : ~Older(s, r)} = {r}
  BY <1>1, <1>2
<1>4. Bytes({r}) <= MaxBytes
  BY <1>0, BytesOfOne DEF EachFits
<1> QED  BY <1>3, <1>4 DEF Fitting

\* A trim leaves the live event in the spool.
LEMMA KeptTrim ==
  ASSUME NEW a, Agents = {a}, EachFits, TypedPhases, Accounted, Clocks(a),
         Dated(a), Trim(a), live[a] \in EventsOf(spool \cap listed[a])
  PROVE  live[a] \in EventsOf(spool')
<1>1. PICK r \in spool \cap listed[a] : r.event = live[a]
  BY DEF EventsOf
<1>2. live[a] # None /\ listed[a] \subseteq spool
      /\ spool' = spool \ (listed[a] \ Fitting(listed[a]))
  BY DEF Trim, TypedPhases, Phases, TrimPCs
<1>3. r \in Fitting(listed[a])
  BY <1>1, <1>2, LiveFits
<1> QED  BY <1>1, <1>2, <1>3 DEF EventsOf

\* From the publication of the record to the end of the cycle.
EnqueuedPCs == {"expireEnqueue", "trimEnqueue", "expireCycle", "trimCycle"}

\* No step of the one process loses the event it has queued.
LEMMA KeptStep ==
  ASSUME NEW a, Agents = {a}, RightClock, EachFits, IInv, Clocks(a), Dated(a),
         Kept(a), [Next]_vars
  PROVE  Kept(a)'
<1> USE DEF IInv, TypedPhases
<1>0. /\ now \in Nat /\ clock[a] \in Nat /\ MaxAge \in Nat
      /\ \A e \in Events : bornAt[e] \in Nat
      /\ \A r \in spool : r \in Records /\ r.event \in Events /\ r.time \in Nat
      /\ pc \in [Agents -> PCs] /\ now \in Times /\ clock[a] \in Times
  BY Numbers, LimitAssumption DEF TypeOK
<1>1. ASSUME pc'[a] \notin EnqueuedPCs PROVE Kept(a)'
  BY <1>1 DEF Kept, EnqueuedPCs
<1>2. CASE Enqueue(a)
  <2>1. /\ spool' = spool \cup {[event |-> live[a], time |-> now]}
        /\ clock'[a] = now /\ live' = live /\ pc'[a] = "expireEnqueue"
    BY <1>0, <1>2 DEF Enqueue, RightClock, TypeOK
  <2>2. PICK new : new = [event |-> live[a], time |-> now]
    OBVIOUS
  <2>3. new \in spool' /\ new.event = live'[a] /\ new.time = clock'[a]
    BY <2>1, <2>2
  <2> QED  BY <2>1, <2>3 DEF Kept
<1>3. CASE Expire(a)
  <2>1. PICK t \in {clock[a], now} :
          /\ pc[a] = "expireEnqueue" => t = clock[a]
          /\ pc[a] # "expireEnqueue" => t = now
          /\ spool' = spool \ Expired(spool, t)
          /\ listed'[a] = spool' /\ live' = live /\ bornAt' = bornAt
          /\ now' = now
    BY <1>0, <1>3 DEF Expire, PassTime, RightClock, TypeOK
  <2>2. CASE pc[a] = "expireEnqueue"
    <3>1. PICK r \in spool : r.event = live[a] /\ r.time = clock[a]
      BY <2>2 DEF Kept
    <3>2. r \notin Expired(spool, t)
      BY <1>0, <2>1, <2>2, <3>1 DEF Expired
    <3>3. pc'[a] = "trimEnqueue"
      BY <1>0, <1>3, <2>2 DEF Expire
    <3> QED  BY <2>1, <3>1, <3>2, <3>3 DEF Kept, EventsOf
  <2>3. CASE pc[a] = "expireCycle"
    <3>1. PICK r \in spool : r.event = live[a]
      BY <2>3 DEF Kept, Queued, EventsOf
    <3>2. r \in Expired(spool, t) => bornAt[live[a]] + MaxAge < now
      BY <1>0, <2>1, <2>3, <3>1 DEF Expired, Dated
    <3>3. pc'[a] = "trimCycle"
      BY <1>0, <1>3, <2>3 DEF Expire
    <3> QED  BY <2>1, <3>1, <3>2, <3>3 DEF Kept, EventsOf
  <2>4. CASE pc[a] \in {"expireReplay", "expireRaise"}
    <3>1. pc'[a] \in {"trimReplay", "trimRaise"}
      BY <1>0, <1>3, <2>4 DEF Expire
    <3> QED  BY <1>1, <3>1 DEF EnqueuedPCs
  <2> QED  BY <1>3, <2>2, <2>3, <2>4 DEF Expire, ExpirePCs
<1>4. CASE Trim(a)
  <2>1. CASE pc[a] = "trimEnqueue"
    <3>1. pc'[a] = "expireCycle" /\ live'[a] = live[a]
      BY <1>0, <1>4, <2>1 DEF Trim, TypeOK
    <3>2. live[a] \in EventsOf(spool')
      BY <1>4, <2>1, KeptTrim DEF Kept
    <3> QED  BY <3>1, <3>2 DEF Kept, Queued
  <2>2. CASE pc[a] # "trimEnqueue"
    <3>1. pc'[a] \in {"checking", "raising", "waiting"}
      BY <1>0, <1>4, <2>2 DEF Trim, TrimPCs
    <3> QED  BY <1>1, <3>1 DEF EnqueuedPCs
  <2> QED  BY <2>1, <2>2
<1>5. ASSUME UNCHANGED <<spool, listed, live, bornAt, clock, pc>>,
             now <= now', now' \in Nat
      PROVE  Kept(a)'
  <2>1. UNCHANGED Queued
    BY <1>5 DEF Queued
  <2>2. pc[a] = "trimCycle" => bornAt[live[a]] \in Nat
    <3>1. pc[a] = "trimCycle" => live[a] \in Events
      BY DEF Phases, TypeOK
    <3> QED  BY <1>0, <3>1
  <2>3. pc[a] = "trimCycle" /\ bornAt[live[a]] + MaxAge < now
          => bornAt[live[a]] + MaxAge < now'
    BY <1>0, <1>5, <2>2
  <2> QED  BY <1>5, <2>1, <2>3 DEF Kept
<1>6. ASSUME Tick \/ (\E e \in Events : CollectorAccepts(e)) \/ UNCHANGED vars
      PROVE  Kept(a)'
  BY <1>0, <1>5, <1>6 DEF Tick, CollectorAccepts, vars
<1>7. ASSUME \/ Start(a) \/ Exit(a) \/ (\E e \in Events : BuildEvent(a, e))
             \/ ListBacklog(a) \/ LoadMissing(a) \/ LoadCorrupt(a)
             \/ LoadAndSend(a) \/ BacklogAnswered(a)
      PROVE  pc'[a] \notin EnqueuedPCs
  BY <1>0, <1>7
     DEF Start, Exit, BuildEvent, ListBacklog, LoadMissing, LoadCorrupt,
         LoadAndSend, BacklogAnswered, AfterReplayResult, EnqueuedPCs
<1>8. ASSUME \/ Ack(a) \/ Reject(a) \/ EndReplay(a) \/ ReplayRaises(a)
             \/ CheckBacklog(a)
             \/ LiveAnswered(a)
      PROVE  pc'[a] \notin EnqueuedPCs
  BY <1>0, <1>8 DEF Ack, Reject, EndReplay, ReplayRaises, CheckBacklog,
                    LiveAnswered, EnqueuedPCs
<1>9. ASSUME Crash(a) \/ CrashMidPass(a) \/ TrimRaises(a) \/ Abort(a)
      PROVE  pc'[a] \notin EnqueuedPCs
  BY <1>0, <1>9 DEF Crash, CrashMidPass, TrimRaises, Abort, Fall, EnqueuedPCs
<1> QED
  BY <1>1, <1>2, <1>3, <1>4, <1>6, <1>7, <1>8, <1>9 DEF Next, AgentStep

\* Only a trim ends a cycle in a trim.
LEMMA CycleTrim ==
  ASSUME NEW a, Agents = {a}, TypedPhases, [Next]_vars,
         pc[a] = "trimCycle", pc'[a] = "waiting"
  PROVE  Trim(a)
<1>0. pc \in [Agents -> PCs]
  BY DEF TypedPhases, TypeOK
<1>1. ~(Crash(a) \/ CrashMidPass(a) \/ TrimRaises(a) \/ Abort(a))
  BY <1>0 DEF Crash, CrashMidPass, TrimRaises, Abort, Fall
<1>2. pc' # pc
  OBVIOUS
<1> QED
  BY <1>1, <1>2
     DEF Next, AgentStep, Start, Exit, Tick, CollectorAccepts, BuildEvent,
         ListBacklog, LoadMissing, LoadCorrupt, LoadAndSend, BacklogAnswered,
         Ack, Reject, EndReplay, ReplayRaises, CheckBacklog, LiveAnswered,
         Enqueue, Expire, ExpirePCs, BacklogPCs, vars

\* Nobody else uses the spool.
OneProcess == \E a : Agents = {a}

\* What every result about the order of the records starts from.
Ordered == IInv /\ \A a \in Agents : Clocks(a) /\ Dated(a)

\* One process with a right clock keeps its records in order.
LEMMA OrderedAlways == ASSUME OneProcess, RightClock PROVE Spec => []Ordered
<1>1. Init => \A a \in Agents : Clocks(a) /\ Dated(a)
  BY FS_EmptySet DEF Init, Clocks, Dated
<1>2. Ordered /\ IInv' /\ [Next]_vars
        => (\A a \in Agents : Clocks(a) /\ Dated(a))'
  <2>1. PICK a : Agents = {a}
    BY DEF OneProcess
  <2> QED  BY <2>1, ClocksStep, DatedStep DEF Ordered, IInv, TypedPhases
<1> QED  BY <1>1, <1>2, Invariance, PTL DEF Spec, Ordered

(* One process with a right wall clock delivers oldest-first, whatever the    *)
(* limits: no event goes on the network, live or replayed, while an event    *)
(* built before it waits in the spool (runtime.py:64, 98).                   *)
THEOREM OldestGoesFirst ==
  ASSUME OneProcess, RightClock
  PROVE  Spec => []OldestFirst
<1> DEFINE Fronts == \A a \in Agents : Front(a)
<1>1. Init => Fronts /\ OldestFirst
  BY DEF Init, Front, OldestFirst, Queued, EventsOf
<1>2. Ordered /\ Ordered' /\ Fronts /\ OldestFirst /\ [Next]_vars
        => Fronts' /\ OldestFirst'
  <2>1. PICK a : Agents = {a}
    BY DEF OneProcess
  <2> QED  BY <2>1, FrontStep, OldestFirstStep DEF Ordered, IInv
<1> HIDE DEF Fronts
<1> QED  BY <1>1, <1>2, OrderedAlways, PTL DEF Spec

(* A cycle of the one process that ends by queueing its event leaves the     *)
(* event in the spool, unless it has become too old: neither the retention   *)
(* pass inside enqueue nor the one after it evicts the youngest record       *)
(* (runtime.py:104, 112; spool.py:155-186).                                  *)
THEOREM SpooledIsQueued ==
  ASSUME OneProcess, RightClock, EachFits
  PROVE  Spec => SpooledMeansQueued
<1> DEFINE AllKept == \A a \in Agents : Kept(a)
<1>1. Init => AllKept
  BY DEF Init, Kept
<1>2. Ordered /\ AllKept /\ [Next]_vars => AllKept'
  <2>1. PICK a : Agents = {a}
    BY DEF OneProcess
  <2> QED  BY <2>1, KeptStep DEF Ordered
<1>3. Ordered /\ AllKept /\ [Next]_vars
        => [\A a \in Agents :
              pc[a] = "trimCycle" /\ pc'[a] = "waiting" =>
                \/ live[a] \in EventsOf(spool')
                \/ bornAt[live[a]] + MaxAge < now]_vars
  <2> SUFFICES ASSUME Ordered, AllKept, [Next]_vars, NEW a \in Agents,
                      pc[a] = "trimCycle", pc'[a] = "waiting"
               PROVE  \/ live[a] \in EventsOf(spool')
                      \/ bornAt[live[a]] + MaxAge < now
    OBVIOUS
  <2>1. Agents = {a}
    BY DEF OneProcess
  <2>2. Trim(a)
    BY <2>1, CycleTrim DEF Ordered, IInv
  <2>3. \/ live[a] \in EventsOf(spool \cap listed[a])
        \/ bornAt[live[a]] + MaxAge < now
    BY DEF Kept
  <2> QED  BY <2>1, <2>2, <2>3, KeptTrim DEF Ordered, IInv
<1> HIDE DEF AllKept
<1> QED  BY <1>1, <1>2, <1>3, OrderedAlways, PTL DEF Spec, SpooledMeansQueued

-----------------------------------------------------------------------------
(* One process: the spool and its limit.                                      *)

\* Where a process has trimmed the spool and published nothing since.
WithinPCs == {"checking", "sendingLive", "queueing", "expireCycle", "trimCycle"}

\* There the spool holds no more than its limit, and a trim knows all of it.
Within(a) ==
  /\ pc[a] \in WithinPCs => Bytes(spool) <= MaxBytes
  /\ pc[a] \in TrimPCs => spool \subseteq listed[a]
  /\ IsFiniteSet(spool)

\* A spool that only loses records stays within the bounds.
LEMMA Shrinks ==
  ASSUME NEW a, Agents = {a}, TypeOK, Within(a), OvershootBounded,
         IsFiniteSet(Events), Events # {}, spool' \subseteq spool,
         pc'[a] \in WithinPCs => pc[a] \in WithinPCs,
         pc'[a] \in TrimPCs => spool' \subseteq listed'[a]
  PROVE  Within(a)' /\ OvershootBounded'
<1>1. PICK e \in Events : TRUE
  OBVIOUS
<1>2. spool \in SUBSET Records /\ spool' \in SUBSET spool /\ IsFiniteSet(spool')
  BY FS_Subset DEF TypeOK, Within
<1>3. /\ Bytes(spool') <= Bytes(spool)
      /\ Bytes(spool) \in Nat /\ Bytes(spool') \in Nat
  BY <1>2, BytesGrow DEF Within
<1>4. Max({SizeOf[f] : f \in Events}) \in Nat
  BY <1>1, Largest
<1> QED  BY <1>2, <1>3, <1>4, LimitAssumption DEF Within, OvershootBounded

\* Only Enqueue adds a record, after a trim.
LEMMA OvershootStep ==
  ASSUME NEW a, Agents = {a}, TypedPhases, Within(a), OvershootBounded,
         IsFiniteSet(Events), Events # {}, [Next]_vars
  PROVE  Within(a)' /\ OvershootBounded'
<1> USE DEF TypedPhases
<1>0. /\ pc \in [Agents -> PCs] /\ spool \in SUBSET Records
      /\ listed \in [Agents -> SUBSET Records]
  BY DEF TypeOK
<1>1. CASE Enqueue(a)
  <2>1. live[a] \in Events
    BY <1>1 DEF Enqueue, TypeOK, Phases
  <2>2. PICK r : r = [event |-> live[a], time |-> WallClock[now]]
    OBVIOUS
  <2>3. r \in Records /\ r.event = live[a]
    <3>1. WallClock[now] \in Times
      BY ClockAssumption DEF TypeOK, Times
    <3> QED  BY <2>1, <2>2, <3>1 DEF Records
  <2>4. /\ spool' = spool \cup {r} /\ Bytes(spool) <= MaxBytes
        /\ pc'[a] = "expireEnqueue"
    BY <1>0, <1>1, <2>2 DEF Enqueue, Within, WithinPCs
  <2>5. Bytes(spool \cup {r}) <= Bytes(spool) + SizeOf[r.event]
    BY <1>0, <2>3, BytesOfOneMore DEF Within
  <2>6. IsFiniteSet(spool')
    BY <2>4, FS_AddElement DEF Within
  <2>7. /\ Bytes(spool) \in Nat /\ Bytes(spool') \in Nat
        /\ SizeOf[r.event] \in Nat
    <3>1. spool' \in SUBSET Records
      BY <1>0, <2>3, <2>4
    <3> QED  BY <1>0, <2>3, <2>6, <3>1, BytesGrow, OneSize DEF Within
  <2>8. /\ Max({SizeOf[f] : f \in Events}) \in Nat
        /\ SizeOf[r.event] <= Max({SizeOf[f] : f \in Events})
    BY <2>1, <2>3, Largest
  <2>9. Bytes(spool') <= MaxBytes + Max({SizeOf[f] : f \in Events})
    BY <2>4, <2>5, <2>7, <2>8, LimitAssumption
  <2> QED  BY <2>4, <2>6, <2>9 DEF Within, WithinPCs, TrimPCs, OvershootBounded
<1>2. CASE Trim(a)
  <2>1. spool' = Fitting(spool) /\ pc'[a] \notin TrimPCs
    <3>1. listed[a] = spool
      BY <1>2 DEF Trim, Within
    <3>2. spool' = spool \ (spool \ Fitting(spool))
      BY <1>2, <3>1 DEF Trim
    <3>3. pc'[a] \notin TrimPCs
      BY <1>0, <1>2 DEF Trim, TrimPCs
    <3> QED  BY <3>2, <3>3 DEF Fitting
  <2>2. Bytes(spool') <= MaxBytes
    BY <1>0, <2>1, FittingFits DEF Within
  <2>3. IsFiniteSet(spool') /\ spool' \in SUBSET Records
    BY <1>0, <2>1, FS_Subset DEF Fitting, Within
  <2>4. Bytes(spool') \in Nat
    BY <2>3, BytesGrow
  <2>5. Max({SizeOf[f] : f \in Events}) \in Nat
    <3>1. PICK e \in Events : TRUE
      OBVIOUS
    <3> QED  BY <3>1, Largest
  <2> QED  BY <2>1, <2>2, <2>3, <2>4, <2>5, LimitAssumption
           DEF Within, OvershootBounded
<1>3. CASE Expire(a)
  <2>1. /\ spool' \subseteq spool /\ listed'[a] = spool'
        /\ pc'[a] \in WithinPCs => pc[a] \in WithinPCs
    BY <1>0, <1>3 DEF Expire, ExpirePCs, WithinPCs
  <2> QED  BY <2>1, Shrinks
<1>4. CASE \/ Start(a) \/ Exit(a) \/ (\E e \in Events : BuildEvent(a, e))
           \/ ListBacklog(a) \/ LoadMissing(a) \/ LoadCorrupt(a)
           \/ LoadAndSend(a) \/ BacklogAnswered(a)
  <2>1. /\ spool' \subseteq spool /\ pc'[a] \notin TrimPCs \cup WithinPCs
    BY <1>0, <1>4
       DEF Start, Exit, BuildEvent, ListBacklog, LoadMissing, LoadCorrupt,
           LoadAndSend, BacklogAnswered, AfterReplayResult, TrimPCs, WithinPCs
  <2> QED  BY <2>1, Shrinks
<1>5. CASE \/ Ack(a) \/ Reject(a) \/ EndReplay(a) \/ ReplayRaises(a)
           \/ CheckBacklog(a)
           \/ LiveAnswered(a)
  <2>1. /\ spool' \subseteq spool /\ pc'[a] \notin TrimPCs
        /\ pc'[a] \in WithinPCs => pc[a] \in WithinPCs
    BY <1>0, <1>5 DEF Ack, Reject, EndReplay, ReplayRaises, CheckBacklog,
                      LiveAnswered, TrimPCs, WithinPCs
  <2> QED  BY <2>1, Shrinks
<1>6. CASE Crash(a) \/ CrashMidPass(a) \/ TrimRaises(a) \/ Abort(a)
  <2>1. \E R : Fall(a, R)
    BY <1>6 DEF Crash, CrashMidPass, TrimRaises, Abort
  <2>2. spool' \subseteq spool /\ pc'[a] \notin TrimPCs \cup WithinPCs
    BY <1>0, <2>1 DEF Fall, TrimPCs, WithinPCs
  <2> QED  BY <2>2, Shrinks
<1>7. CASE Tick \/ (\E e \in Events : CollectorAccepts(e)) \/ UNCHANGED vars
  <2>1. UNCHANGED <<spool, pc, listed>>
    BY <1>7 DEF Tick, CollectorAccepts, vars
  <2> QED  BY <2>1, Shrinks DEF Within
<1> QED
  BY <1>1, <1>2, <1>3, <1>4, <1>5, <1>6, <1>7 DEF Next, AgentStep

(* The spool of one process never holds more than one record above its       *)
(* limit, whatever the wall clock shows and wherever a crash cuts a          *)
(* retention pass short (spool.py:155-186).                                  *)
THEOREM OvershootIsOneRecord ==
  ASSUME OneProcess, IsFiniteSet(Events), Events # {}
  PROVE  Spec => []OvershootBounded
<1> DEFINE AllWithin == \A a \in Agents : Within(a)
<1>1. Init => AllWithin /\ OvershootBounded
  <2> SUFFICES ASSUME Init PROVE AllWithin /\ OvershootBounded
    OBVIOUS
  <2>1. Bytes(spool) = 0
    BY FS_EmptySet, BytesAreCounted, WeightType DEF Init
  <2>2. PICK e \in Events : TRUE
    OBVIOUS
  <2>3. Max({SizeOf[f] : f \in Events}) \in Nat
    BY <2>2, Largest
  <2> QED  BY <2>1, <2>3, FS_EmptySet, LimitAssumption
           DEF Init, Within, TrimPCs, OvershootBounded
<1>2. TypedPhases /\ AllWithin /\ OvershootBounded /\ [Next]_vars
        => AllWithin' /\ OvershootBounded'
  <2>1. PICK a : Agents = {a}
    BY DEF OneProcess
  <2> QED  BY <2>1, OvershootStep
<1> HIDE DEF AllWithin
<1> QED  BY <1>1, <1>2, TypedPhasesInit, TypedPhasesStep, PTL DEF Spec
=============================================================================
