------------------------------ MODULE Command -------------------------------
(* One process of the command line (cli.py), from its environment to its    *)
(* exit code: configuration, identity, the collectors, the payload and the  *)
(* answer.  It shows where telemetry may get lost on the way and which      *)
(* sources a command touches.  "once" is once --no-transmit, "send" is      *)
(* once; "run" goes on in RunLoop.                                          *)
(*                                                                          *)
(* The collectors share nothing (CollectionCycle has their threads), so     *)
(* their results are taken one by one.  The file audit alone takes many     *)
(* steps, and goes on when its deadline has passed.                         *)
(* Definitions named Faulty are wrong variants of the next definition.      *)
EXTENDS Settings, Collectors, FileAudit

CONSTANTS
  Environment,   \* the environments to start in
  MaxFaults      \* bound on failing sources and late collectors

ASSUME EnvironmentAssumption == Environment \subseteq Environments
ASSUME FaultsAssumption == MaxFaults \in Nat

VARIABLES
  pc,            \* the next step of the main thread
  command,       \* its subcommand
  goodEvent,     \* the event name given matches the pattern
  env,           \* the environment, then the configuration
  done,          \* how many collectors have a result
  status,        \* the status of each result
  data,          \* the sources whose answers its data holds
  touched,       \* sources the process has asked
  hung,          \* collectors whose thread never ends
  faults,        \* failures so far
  payload,       \* per section: the sources whose answers it holds
  exit           \* the exit code, 9 while there is none

mainVars ==
  <<pc, command, goodEvent, env, done, status, data, touched, hung, faults,
    payload, exit>>

vars == <<mainVars, auditVars>>

Commands == {"once", "send", "check", "health"}

Statuses == {"none", "success", "partial", "disabled", "timedOut", "failed"}

Sections == {"system", "users", "cpu", "memory", "disks", "network",
             "processes", "software", "active_window", "file_audit",
             "screenshot"}

TypeOK ==
  /\ AuditTypeOK
  /\ pc \in {"config", "paths", "event", "identity", "collect", "collected",
             "transmit", "stats", "joining", "exited"}
  /\ command \in Commands /\ goodEvent \in BOOLEAN /\ env \in Environments
  /\ done \in 0 .. Len(Registry) /\ faults \in 0 .. MaxFaults
  /\ status \in [Names -> Statuses]
  /\ data \in [Names -> SUBSET AllSources]
  /\ touched \subseteq AllSources /\ hung \subseteq Names
  /\ payload \in [Sections -> SUBSET AllSources]
  /\ exit \in {0, 1, 2, 3, 4, 9}

Init ==
  /\ AuditInit
  /\ pc = "config" /\ command \in Commands /\ env \in Environment
  /\ goodEvent \in BOOLEAN /\ (command \notin {"once", "send"} => goodEvent)
  /\ done = 0 /\ faults = 0
  /\ status = [c \in Names |-> "none"] /\ data = [c \in Names |-> {}]
  /\ touched = {} /\ hung = {}
  /\ payload = [n \in Sections |-> {}]
  /\ exit = 9

-----------------------------------------------------------------------------
\* Before the collection.

Go(from, to) == pc = from /\ pc' = to

\* main() ends with this code.
Leave(from, code) == Go(from, "joining") /\ exit' = code

OnlyPc ==
  UNCHANGED <<command, goodEvent, env, done, status, data, touched, hung,
              faults, payload, auditVars>>

LoadConfig ==
  /\ IF Refused(env, command # "once") THEN Leave("config", 2)
     ELSE Go("config", "paths") /\ exit' = exit
  /\ UNCHANGED <<command, goodEvent, done, status, data, touched, hung,
                 faults, payload, auditVars>>
  /\ env' = [env EXCEPT !.has = {}, !.wrong = {}]

\* The spool and log directories take a probe file, the CA bundle can be
\* read, logging can be set up; or not.
CheckPaths ==
  /\ \/ Leave("paths", 2)
     \/ command = "check" /\ Leave("paths", 0)
     \/ command # "check" /\ Go("paths", "event") /\ exit' = exit
  /\ OnlyPc

FaultyNameChecked == FALSE

\* _once_command looks at the name before anything is collected.
NameChecked == TRUE

CheckEvent ==
  /\ IF NameChecked /\ ~goodEvent THEN Leave("event", 2)
     ELSE Go("event", "identity") /\ exit' = exit
  /\ OnlyPc

\* A ValueError while "once" collects is reported as a bad event name; any
\* other command, and any other error, ends in a traceback.
OnValueError == IF command = "once" THEN 2 ELSE 1

\* A machine-id that is no UUID is a ValueError, one that stays empty a
\* RuntimeError (Identity has the rest).
ResolveIdentity ==
  /\ \/ Go("identity", "collect") /\ exit' = exit
     \/ \E code \in {OnValueError, 1} : Leave("identity", code)
  /\ OnlyPc

-----------------------------------------------------------------------------
\* The collection.

Collector == Registry[done + 1]

Enabled(c) == c \in Toggles => c \in env.on

\* The result of the collector whose turn it is.
Answer(s, sources, asked) ==
  /\ pc = "collect" /\ done' = done + 1
  /\ pc' = IF done' = Len(Registry) THEN "collected" ELSE "collect"
  /\ status' = [status EXCEPT ![Collector] = s]
  /\ data' = [data EXCEPT ![Collector] = sources]
  /\ touched' = touched \cup asked
  /\ UNCHANGED <<command, goodEvent, env, payload, exit>>

Collecting == pc = "collect" /\ Enabled(Collector)

Disabled ==
  /\ pc = "collect" /\ ~Enabled(Collector)
  /\ Answer("disabled", {}, {})
  /\ UNCHANGED <<hung, faults, auditVars>>

Succeed ==
  /\ Collecting /\ Collector # "file_audit"
  /\ Answer("success", Sources(Collector), Sources(Collector))
  /\ UNCHANGED <<hung, faults, auditVars>>

\* Sources fail: the collector goes without them, or raises.
Fail ==
  /\ Collecting /\ Collector # "file_audit"
  /\ \E failing \in SUBSET Sources(Collector) \ {{}} :
       /\ faults + Cardinality(failing) <= MaxFaults
       /\ faults' = faults + Cardinality(failing)
       /\ \E failure \in [failing -> Failures] :
            LET outcome == Outcome(Collector, failure) IN
            Answer(outcome,
                   IF outcome = "failed" THEN {} ELSE Sources(Collector) \ failing,
                   Sources(Collector))
  /\ UNCHANGED <<hung, auditVars>>

StartAudit ==
  /\ Collecting /\ Collector = "file_audit"
  /\ BeginAudit
  /\ touched' = touched \cup {"file_audit"}
  /\ UNCHANGED <<pc, command, goodEvent, env, done, status, data, hung, faults,
                 payload, exit>>

\* The files matter no more: the model forgets them.
AuditAnswers ==
  /\ Collecting /\ Collector = "file_audit" /\ At("over")
  /\ Answer(CASE Targets = <<>> -> "disabled"
              [] audit.partial -> "partial"
              [] OTHER -> "success", {"file_audit"}, {})
  /\ ForgetFiles
  /\ UNCHANGED <<hung, faults>>

\* A collector has no answer by the deadline; it may never have one.
Late ==
  /\ Collecting /\ Collector # "file_audit" /\ faults < MaxFaults
  /\ Answer("timedOut", {}, Sources(Collector))
  /\ \/ hung' = hung
     \/ hung' = hung \cup {Collector}
  /\ faults' = faults + 1
  /\ UNCHANGED auditVars

\* The deadline passes for all that are left, disabled ones too: those that
\* no thread has begun are cancelled.
Deadline ==
  /\ Go("collect", "collected")
  /\ done' = Len(Registry)
  /\ status' = [c \in Names |->
                  IF status[c] = "none" THEN "timedOut" ELSE status[c]]
  /\ UNCHANGED <<command, goodEvent, env, data, touched, hung, faults, payload,
                 exit, auditVars>>

-----------------------------------------------------------------------------
\* After the collection.

FaultyKey(s) == s

\* The section under which a collector answers for a source.
Key(s) ==
  CASE s \in DOMAIN NetworkAsks -> "network"
    [] s \in DOMAIN SoftwareAsks -> "software"
    [] s = "partitions" -> "disks"
    [] OTHER -> s

\* build_payload takes the known sections of results with data.
Build ==
  [n \in Sections |->
     UNION {{s \in data[c] : Key(s) = n} :
              c \in {d \in Names : status[d] \in {"success", "partial"}}}]

EndCollection ==
  /\ \/ /\ command = "health" /\ Go("collected", "stats")
        /\ UNCHANGED <<exit, payload>>
     \/ /\ command # "health" /\ ~goodEvent /\ payload' = payload
        /\ Leave("collected", OnValueError)
     \/ /\ command = "once" /\ goodEvent /\ payload' = Build
        /\ Leave("collected",
                 IF \A c \in Names : status[c] \in {"failed", "timedOut"}
                 THEN 3 ELSE 0)
     \/ /\ command = "send" /\ goodEvent /\ payload' = Build
        /\ Go("collected", "transmit") /\ exit' = exit
  /\ UNCHANGED <<command, goodEvent, env, done, status, data, touched, hung,
                 faults, auditVars>>

\* The rest of run_cycle is AgentRuntime's: the event is delivered, it is
\* not, or the spool raises.  The transport is closed either way.
Transmit == (\E code \in {0, 4, 1} : Leave("transmit", code)) /\ OnlyPc

\* stats() raises when another process removes a record it has listed.
Stats == (\E code \in {0, 1} : Leave("stats", code)) /\ OnlyPc

\* The interpreter waits for the threads of the pools.
Exit ==
  /\ Go("joining", "exited")
  /\ hung = {} /\ audit.step \in {"off", "over"}
  /\ exit' = exit /\ OnlyPc

-----------------------------------------------------------------------------

Main ==
  \/ LoadConfig \/ CheckPaths \/ CheckEvent \/ ResolveIdentity
  \/ Disabled \/ Succeed \/ Fail \/ StartAudit \/ AuditAnswers
  \/ Late \/ Deadline \/ EndCollection \/ Transmit \/ Stats \/ Exit

AuditThread == AuditStep /\ UNCHANGED mainVars

Others ==
  /\ \/ ReadFails \/ \E f \in Files : Change(f)
     \/ \E i \in DOMAIN Targets : Move(i)
  /\ UNCHANGED mainVars

\* The process is gone, or waits for a thread that never ends.
Rest ==
  /\ \/ pc = "exited"
     \/ pc = "joining" /\ (hung # {} \/ At("blocked"))
  /\ UNCHANGED vars

Next == Main \/ AuditThread \/ Others \/ Rest

\* The main thread and the audit's run on; a read ends, and need not fail.
Spec == Init /\ [][Next]_vars /\ WF_vars(Main) /\ WF_vars(AuditThread)

-----------------------------------------------------------------------------
\* Properties.

(* Whatever the environment, no command looks at a window, a screen or an    *)
(* audited file unless that was switched on and the notice acknowledged      *)
(* (config.py:166-176, collectors/__init__.py:29-39).                        *)
OnlyWithNotice ==
  \A s \in touched \cap Sensitive : s \in env.on /\ env.notice

\* The section the receiver looks in.
SectionOf(s) ==
  CASE s \in {"adapters", "io", "connections"} -> "network"
    [] s \in {"first_inventory", "second_inventory"} -> "software"
    [] s \in {"partitions", "disks"} -> "disks"
    [] OTHER -> s

\* An event has been built.
Built ==
  /\ command \in {"once", "send"}
  /\ pc = "transmit" \/ exit \in {0, 3, 4}

(* In a payload every answer of an enabled collector that did not fail is in *)
(* its section, and every source without an answer there has a collector     *)
(* whose status says so (payload.py:64-80).  The exception is the code's:    *)
(* the software passes for complete when one of its sources has failed, or   *)
(* was not asked, and another one's answer is there (software.py:108-204).   *)
(* Single records that a source leaves out are no part of this.              *)
NothingHidden ==
  Built =>
    \A c \in Names : \A s \in Sources(c) :
      \/ s \in payload[SectionOf(s)]
      \/ status[c] \in {"disabled", "timedOut", "failed"}
      \/ status[c] = "partial" /\ s \notin data[c]
      \/ /\ c = "software" /\ s \notin data[c]
         /\ \E t \in Sources(c) : t \in payload["software"]

(* A command that ends with 2, "Command-line, configuration, path, or        *)
(* invalid-event failure" (README.md:91), has not asked the machine for      *)
(* anything yet (cli.py:211-232).                                            *)
RefusedIsClean == exit = 2 => touched = {}

(* Every command comes to an exit, though files grow while they are read and *)
(* sources fail or are late, unless a collector hangs for ever: then the     *)
(* interpreter waits for its thread (orchestrator.py:124).                   *)
CommandEnds == <>(pc = "exited" \/ hung # {} \/ At("blocked"))
=============================================================================
