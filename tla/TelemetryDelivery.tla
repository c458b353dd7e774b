------------------------- MODULE TelemetryDelivery -------------------------
(* What the agent promises about one telemetry event, whatever the number  *)
(* of agent processes, spool files and retries behind it: from the moment  *)
(* it is built an event is held in memory, queued in the spool, kept as a  *)
(* dead letter, or finished, and it is called delivered only once the      *)
(* collector has it.  AgentRuntime is shown to implement this module.      *)
EXTENDS Naturals

CONSTANT Events    \* the event_ids (one fresh UUID per cycle, payload.py)

VARIABLES
  status,          \* where each event is
  received         \* the events the collector has accepted

vars == <<status, received>>

Finished == {"delivered", "refused", "evicted", "lost"}
Statuses == {"unborn", "held", "queued", "dead"} \cup Finished

TypeOK ==
  /\ status \in [Events -> Statuses]
  /\ received \subseteq Events

Init ==
  /\ status = [e \in Events |-> "unborn"]
  /\ received = {}

Move(e, from, to) ==
  /\ status[e] \in from
  /\ status' = [status EXCEPT ![e] = to]
  /\ UNCHANGED received

\* A cycle builds the event and holds it in memory.
Build(e) == Move(e, {"unborn"}, "held")

\* The event is published in the spool.
Queue(e) == Move(e, {"held"}, "queued")

\* The collector accepts a request that carries the event; the agent may not
\* learn of it, and may by then have settled the event another way.
Accept(e) ==
  /\ status[e] # "unborn"
  /\ received' = received \cup {e}
  /\ UNCHANGED status

\* The agent counts the event as delivered, which it may do only once the
\* collector has it.
Settle(e) == e \in received /\ Move(e, {"held", "queued"}, "delivered")

\* A permanent answer to a live event: it is not kept.
Refuse(e) == Move(e, {"held"}, "refused")

\* A permanent answer to a queued record, or a record that cannot be read.
Quarantine(e) == Move(e, {"queued"}, "dead")

\* Retention removes a set of records, and may do so partly before a crash;
\* a crash loses an event held in memory.
Discard(E, H) ==
  /\ \A e \in E : status[e] = "queued"
  /\ \A h \in H : status[h] = "held"
  /\ status' = [e \in Events |-> IF e \in E THEN "evicted"
                                 ELSE IF e \in H THEN "lost" ELSE status[e]]
  /\ UNCHANGED received

Next ==
  \/ \E e \in Events : \/ Build(e) \/ Queue(e) \/ Accept(e) \/ Settle(e)
                       \/ Refuse(e) \/ Quarantine(e)
  \/ \E E, H \in SUBSET Events : Discard(E, H)

Spec == Init /\ [][Next]_vars

-----------------------------------------------------------------------------
(* An event the agent calls delivered is at the collector: no cycle of      *)
(* sends, crashes and second processes makes runtime.py:76-78 remove a      *)
(* record nobody else has.                                                  *)
DeliveredIsReceived ==
  \A e \in Events : status[e] = "delivered" => e \in received

(* What is finished stays finished: a settled event is never queued again.  *)
FinishedForever ==
  [][\A e \in Events : status[e] \in Finished => status'[e] = status[e]]_vars
=============================================================================
