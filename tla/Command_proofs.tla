--------------------------- MODULE Command_proofs ---------------------------
(* Theorems about Command, for every set of environments, every number of   *)
(* failures and every audited tree.                                         *)
EXTENDS Command, FiniteSetTheorems, WellFoundedInduction, TLAPS

LEMMA RegistryNames ==
  ASSUME NEW i \in 1 .. 9
  PROVE  Len(Registry) = 9 /\ Registry[i] \in Names
BY DEF Registry, Names, Asks

\* A sensitive source belongs to the collector of its name.
LEMMA SensitiveSources ==
  ASSUME NEW c \in Names, NEW s \in Sources(c) \cap Sensitive
  PROVE  s = c
BY DEF Names, Sources, Sensitive, Asks, SystemAsks, UsersAsks, ResourcesAsks,
       NetworkAsks, ProcessesAsks, SoftwareAsks, WindowAsks, AuditAsks,
       ScreenshotAsks

-----------------------------------------------------------------------------
\* Consent and refusals.

Ended == {"joining", "exited"}

\* A configuration was accepted, and what it allows is all that was touched.
Consented ==
  /\ touched # {} \/ pc \notin {"config"} \cup Ended =>
       (NeedsNotice(env) => env.notice)
  /\ touched \cap Sensitive \subseteq env.on

\* Nothing is touched before the collection or by a command refused.
Clean ==
  /\ pc \in {"config", "paths", "event", "identity"} => touched = {}
  /\ pc \notin {"config", "paths", "event"} \cup Ended => goodEvent
  /\ exit = 2 => touched = {} /\ pc \in Ended

\* A collector without a result is left while the collection goes on.
Turns ==
  /\ done \in 0 .. 9
  /\ pc \in {"config", "paths", "event", "identity", "collect"} => done < 9

CInv == env \in Environments /\ Turns /\ Consented /\ Clean

LEMMA CInvInit == Init => CInv
BY EnvironmentAssumption
   DEF Init, CInv, Turns, Consented, Clean, Ended

\* A result: what it touches was enabled.
LEMMA AnswerStep ==
  ASSUME CInv, Collecting, NEW s, NEW sources,
         NEW asked \in SUBSET Sources(Collector), Answer(s, sources, asked)
  PROVE  CInv'
<1>1. done + 1 \in 1 .. 9 /\ Len(Registry) = 9 /\ Collector \in Names
  BY RegistryNames DEF CInv, Turns, Collecting, Collector
<1>2. asked \cap Sensitive \subseteq env.on
  <2> SUFFICES ASSUME NEW t \in asked \cap Sensitive PROVE t \in env.on
    OBVIOUS
  <2>1. t = Collector
    BY <1>1, SensitiveSources
  <2> QED  BY <2>1 DEF Collecting, Enabled, Toggles
<1>3. Turns'
  BY <1>1 DEF CInv, Turns, Answer
<1>4. Consented' /\ Clean' /\ (env \in Environments)'
  BY <1>2 DEF CInv, Consented, Clean, Ended, Answer, NeedsNotice, Collecting
<1> QED  BY <1>3, <1>4 DEF CInv

LEMMA CInvStep == CInv /\ [Next]_vars => CInv'
<1> SUFFICES ASSUME CInv, [Next]_vars PROVE CInv'
  OBVIOUS
<1> USE DEF Go, Leave, OnlyPc, Ended
<1>1. ASSUME LoadConfig PROVE CInv'
  <2>1. env' \in Environments /\ env'.on = env.on /\ env'.notice = env.notice
    BY <1>1 DEF LoadConfig, CInv, Environments
  <2>2. pc' = "paths" => (NeedsNotice(env) => env.notice)
    BY <1>1 DEF LoadConfig, Refused
  <2> QED  BY <1>1, <2>1, <2>2
           DEF LoadConfig, CInv, Turns, Consented, Clean, NeedsNotice
<1>2. ASSUME CheckPaths PROVE CInv'
  <2>1. pc = "paths" /\ pc' \in {"joining", "event"} /\ UNCHANGED done
    BY <1>2 DEF CheckPaths
  <2>2. exit' = 2 => pc' = "joining"
    BY <1>2 DEF CheckPaths, CInv, Clean
  <2> QED
    BY <1>2, <2>1, <2>2 DEF CheckPaths, CInv, Turns, Consented, Clean, NeedsNotice
<1>3. ASSUME CheckEvent PROVE CInv'
  BY <1>3 DEF CheckEvent, NameChecked, CInv, Turns, Consented, Clean,
              NeedsNotice
<1>4. ASSUME ResolveIdentity PROVE CInv'
  <2>1. pc = "identity" /\ touched = {} /\ goodEvent
    BY <1>4 DEF ResolveIdentity, CInv, Clean
  <2>2. UNCHANGED <<env, touched, goodEvent, done>>
    BY <1>4 DEF ResolveIdentity
  <2>3. \/ pc' = "collect" /\ exit' = exit
        \/ pc' = "joining"
    BY <1>4 DEF ResolveIdentity
  <2>4. Turns'
    BY <2>1, <2>2, <2>3 DEF CInv, Turns
  <2>5. exit # 2
    BY <2>1 DEF CInv, Clean
  <2>6. Consented'
    BY <2>1, <2>2 DEF CInv, Consented, NeedsNotice
  <2>7. Clean'
    BY <2>1, <2>2, <2>3, <2>5 DEF Clean
  <2> QED  BY <2>2, <2>4, <2>6, <2>7 DEF CInv
<1>5. ASSUME Disabled PROVE CInv'
  <2>1. Len(Registry) = 9
    BY RegistryNames, 1 \in 1 .. 9
  <2> QED  BY <1>5, <2>1 DEF Disabled, Answer, CInv, Turns, Consented, Clean,
                             NeedsNotice
<1>6. ASSUME Succeed PROVE CInv'
  BY <1>6, AnswerStep DEF Succeed
<1>7. ASSUME Fail PROVE CInv'
  BY <1>7, AnswerStep DEF Fail
<1>8. ASSUME StartAudit PROVE CInv'
  BY <1>8 DEF StartAudit, Collecting, Enabled, Toggles, Sensitive, CInv, Turns,
              Consented, Clean, NeedsNotice
<1>9. ASSUME AuditAnswers PROVE CInv'
  BY <1>9, AnswerStep DEF AuditAnswers
<1>10. ASSUME Late PROVE CInv'
  BY <1>10, AnswerStep DEF Late
<1>11. ASSUME Deadline PROVE CInv'
  <2>1. Len(Registry) = 9
    BY RegistryNames, 1 \in 1 .. 9
  <2> QED  BY <1>11, <2>1 DEF Deadline, CInv, Turns, Consented, Clean,
                              NeedsNotice
<1>12. ASSUME EndCollection PROVE CInv'
  BY <1>12 DEF EndCollection, CInv, Turns, Consented, Clean, NeedsNotice
<1>13. ASSUME Transmit PROVE CInv'
  BY <1>13 DEF Transmit, CInv, Turns, Consented, Clean, NeedsNotice
<1>14. ASSUME Stats PROVE CInv'
  BY <1>14 DEF Stats, CInv, Turns, Consented, Clean, NeedsNotice
<1>15. ASSUME Exit PROVE CInv'
  BY <1>15 DEF Exit, CInv, Turns, Consented, Clean, NeedsNotice
<1>16. ASSUME UNCHANGED mainVars PROVE CInv'
  BY <1>16 DEF mainVars, CInv, Turns, Consented, Clean, NeedsNotice
<1> QED
  BY <1>1, <1>2, <1>3, <1>4, <1>5, <1>6, <1>7, <1>8, <1>9, <1>10, <1>11, <1>12,
     <1>13, <1>14, <1>15, <1>16
     DEF Next, Main, AuditThread, Others, Rest, vars

(* No command touches a sensitive source without its switch and the notice, *)
(* in any environment and whatever fails (config.py:168).                   *)
THEOREM ConsentFirst == Spec => []OnlyWithNotice
<1>1. CInv => OnlyWithNotice
  BY DEF CInv, Consented, OnlyWithNotice, NeedsNotice
<1> QED  BY <1>1, CInvInit, CInvStep, PTL DEF Spec

(* A command that ends with 2 has asked the machine for nothing             *)
(* (cli.py:211-232).                                                        *)
THEOREM RefusalsAreClean == Spec => []RefusedIsClean
<1>1. CInv => RefusedIsClean
  BY DEF CInv, Clean, RefusedIsClean
<1> QED  BY <1>1, CInvInit, CInvStep, PTL DEF Spec

-----------------------------------------------------------------------------
\* What a payload tells.

\* Every collector has its turn.
LEMMA AllInRegistry ==
  ASSUME NEW c \in Names PROVE \E i \in 1 .. 9 : c = Registry[i]
BY DEF Names, Asks, Registry

\* A source is reported in the section the receiver looks in.
LEMMA KeyIsSection ==
  ASSUME NEW c \in Names, NEW s \in Sources(c)
  PROVE  Key(s) = SectionOf(s) /\ SectionOf(s) \in Sections
BY DEF Key, SectionOf, Sections, Names, Sources, Asks, SystemAsks, UsersAsks,
       ResourcesAsks, NetworkAsks, ProcessesAsks, SoftwareAsks, WindowAsks,
       AuditAsks, ScreenshotAsks

\* An answer for all the sources, or for the software one of its sources'.
Telling(c, sources) ==
  \/ Sources(c) \subseteq sources
  \/ c = "software" /\ Sources(c) \cap sources # {}

\* A collector that succeeded has given such an answer.
Reported(c) ==
  /\ status[c] \in Statuses
  /\ status[c] = "success" => Telling(c, data[c])

\* Sources may fail without a word where another one answers.
LEMMA OutcomeTells ==
  ASSUME NEW c \in Names, NEW failing \in SUBSET Sources(c) \ {{}},
         NEW failure \in [failing -> Failures]
  PROVE  /\ Outcome(c, failure) \in {"success", "partial", "failed"}
         /\ Outcome(c, failure) = "success" => Telling(c, Sources(c) \ failing)
BY DEF Outcome, Telling

\* After its turn a collector has a result.
Results ==
  /\ pc = "collect" => \A i \in 1 .. done : status[Registry[i]] # "none"
  /\ pc \in {"collected", "transmit"} \/ Built =>
       \A c \in Names : status[c] # "none"

\* A payload is built from the results, at the end.
BuiltAtEnd == Built => pc \in {"transmit"} \cup Ended /\ payload = Build

HInv ==
  /\ command \in Commands
  /\ status = [c \in Names |-> status[c]] /\ data = [c \in Names |-> data[c]]
  /\ \A c \in Names : Reported(c)
  /\ Results
  /\ BuiltAtEnd
  /\ pc \in {"config", "paths", "event", "identity"} => done = 0
  /\ pc \notin Ended => exit = 9
  /\ pc = "stats" => command = "health"

LEMMA HInvInit == Init => HInv
BY DEF Init, HInv, Reported, Statuses, Results, BuiltAtEnd, Built, Ended

\* A result tells of all the sources, or of what they lack.
LEMMA TellingAnswer ==
  ASSUME CInv, HInv, pc = "collect", NEW s \in Statuses \ {"none"}, NEW sources,
         s = "success" => Telling(Collector, sources),
         NEW asked, Answer(s, sources, asked)
  PROVE  HInv'
<1>1. done + 1 \in 1 .. 9 /\ Len(Registry) = 9 /\ Collector \in Names
  BY RegistryNames DEF CInv, Turns, Collector
<1>2. /\ status' = [status EXCEPT ![Collector] = s]
      /\ data' = [data EXCEPT ![Collector] = sources]
      /\ done' = done + 1 /\ exit' = 9
      /\ pc' = IF done' = 9 THEN "collected" ELSE "collect"
      /\ UNCHANGED <<command, payload>>
  BY <1>1 DEF Answer, HInv, Ended
<1>3. \A c \in Names : Reported(c)'
  BY <1>1, <1>2 DEF HInv, Reported, Telling
<1>4. \A i \in 1 .. done' : status'[Registry[i]] # "none"
  <2> SUFFICES ASSUME NEW i \in 1 .. done' PROVE status'[Registry[i]] # "none"
    OBVIOUS
  <2>1. i \in 1 .. 9 /\ (i \in 1 .. done \/ i = done + 1)
    BY <1>1, <1>2 DEF CInv, Turns
  <2>2. Registry[i] \in Names
    BY <2>1, RegistryNames
  <2> QED  BY <1>1, <1>2, <2>1, <2>2 DEF HInv, Results, Collector
<1>5. done' = 9 => \A c \in Names : status'[c] # "none"
  BY <1>4, AllInRegistry
<1>6. ~Built'
  BY <1>2 DEF Built
<1>7. Results' /\ BuiltAtEnd'
  BY <1>2, <1>4, <1>5, <1>6 DEF Results, BuiltAtEnd
<1> QED  BY <1>1, <1>2, <1>3, <1>7 DEF HInv, Ended

\* Steps that leave the results alone.
Quiet == UNCHANGED <<command, status, data>>

LEMMA QuietStep ==
  ASSUME HInv, Quiet, Results', BuiltAtEnd',
         pc' \in {"config", "paths", "event", "identity"} => done' = 0,
         pc' \notin Ended => exit' = 9, pc' = "stats" => command' = "health"
  PROVE  HInv'
BY DEF HInv, Quiet, Reported

LEMMA HInvStep == CInv /\ HInv /\ [Next]_vars => HInv'
<1> SUFFICES ASSUME CInv, HInv, [Next]_vars PROVE HInv'
  OBVIOUS
<1> USE DEF Go, Leave, OnlyPc, Ended
<1>1. ASSUME \/ LoadConfig \/ CheckPaths \/ CheckEvent \/ ResolveIdentity
      PROVE  HInv'
  <2>1. Quiet /\ done' = done
    BY <1>1 DEF Quiet, LoadConfig, CheckPaths, CheckEvent, ResolveIdentity
  <2>2. /\ pc \in {"config", "paths", "event", "identity"}
        /\ \/ pc' \in {"paths", "event", "identity", "collect"} /\ exit' = exit
           \/ pc' = "joining" /\ exit' \in {1, 2}
           \/ pc' = "joining" /\ command = "check"
    BY <1>1 DEF LoadConfig, CheckPaths, CheckEvent, NameChecked, ResolveIdentity,
                OnValueError
  <2>3. done = 0 /\ exit = 9
    BY <2>2 DEF HInv
  <2>4. ~Built'
    BY <2>1, <2>2, <2>3 DEF Built, Quiet
  <2>5. Results' /\ BuiltAtEnd'
    BY <2>1, <2>2, <2>3, <2>4 DEF Results, BuiltAtEnd
  <2> QED  BY <2>1, <2>2, <2>3, <2>5, QuietStep
<1>2. ASSUME Disabled PROVE HInv'
  BY <1>2, TellingAnswer DEF Disabled, Statuses
<1>3. ASSUME Succeed PROVE HInv'
  BY <1>3, TellingAnswer DEF Succeed, Collecting, Statuses, Telling
<1>4. ASSUME Fail PROVE HInv'
  <2>1. PICK failing \in SUBSET Sources(Collector) \ {{}} :
          \E failure \in [failing -> Failures] :
            LET outcome == Outcome(Collector, failure) IN
            Answer(outcome,
                   IF outcome = "failed" THEN {} ELSE Sources(Collector) \ failing,
                   Sources(Collector))
    BY <1>4 DEF Fail
  <2>2. PICK failure \in [failing -> Failures] :
          LET outcome == Outcome(Collector, failure) IN
          Answer(outcome,
                 IF outcome = "failed" THEN {} ELSE Sources(Collector) \ failing,
                 Sources(Collector))
    BY <2>1
  <2>3. Collector \in Names
    BY RegistryNames, <1>4 DEF Fail, Collecting, Collector, CInv, Turns
  <2>4. /\ Outcome(Collector, failure) \in Statuses \ {"none"}
        /\ Outcome(Collector, failure) = "success" =>
             Telling(Collector, Sources(Collector) \ failing)
    BY <2>3, OutcomeTells DEF Statuses
  <2> QED  BY <1>4, <2>2, <2>4, TellingAnswer DEF Fail, Collecting
<1>5. ASSUME StartAudit PROVE HInv'
  <2>1. Quiet /\ UNCHANGED <<pc, done, payload, exit>> /\ pc = "collect"
    BY <1>5 DEF StartAudit, Collecting, Quiet
  <2>2. Results' /\ BuiltAtEnd'
    BY <2>1 DEF HInv, Results, BuiltAtEnd, Built, Build, Quiet
  <2> QED  BY <2>1, <2>2, QuietStep DEF HInv
<1>6. ASSUME AuditAnswers PROVE HInv'
  <2>1. Sources("file_audit") = {"file_audit"}
    BY DEF Sources, Asks, AuditAsks
  <2> QED  BY <1>6, <2>1, TellingAnswer DEF AuditAnswers, Collecting, Statuses, Telling
<1>7. ASSUME Late PROVE HInv'
  BY <1>7, TellingAnswer DEF Late, Collecting, Statuses
<1>8. ASSUME Deadline PROVE HInv'
  <2>1. /\ pc = "collect" /\ pc' = "collected" /\ exit' = 9
        /\ status' = [c \in Names |->
                        IF status[c] = "none" THEN "timedOut" ELSE status[c]]
        /\ UNCHANGED <<command, data>>
    BY <1>8 DEF Deadline, HInv
  <2>2. \A c \in Names : Reported(c)' /\ status'[c] # "none"
    BY <2>1 DEF HInv, Reported, Statuses
  <2>3. ~Built'
    BY <2>1 DEF Built
  <2> QED  BY <2>1, <2>2, <2>3 DEF HInv, Results, BuiltAtEnd
<1>9. ASSUME EndCollection PROVE HInv'
  <2>1. Quiet /\ done' = done /\ pc = "collected" /\ exit = 9
    BY <1>9 DEF EndCollection, Quiet, HInv
  <2>2. /\ pc' \in {"stats", "joining", "transmit"}
        /\ pc' # "joining" => exit' = exit
        /\ pc' = "stats" => command' = "health"
        /\ pc' = "transmit" \/ exit' \in {0, 3, 4} => payload' = Build
    BY <1>9, <2>1 DEF EndCollection, OnValueError
  <2>3. \A c \in Names : status'[c] # "none"
    BY <2>1 DEF HInv, Results, Quiet
  <2>4. Build' = Build
    BY <2>1 DEF Build, Quiet
  <2>5. Results' /\ BuiltAtEnd'
    BY <2>1, <2>2, <2>3, <2>4 DEF Results, BuiltAtEnd, Built
  <2> QED  BY <2>1, <2>2, <2>5, QuietStep
<1>10. ASSUME Transmit PROVE HInv'
  <2>1. /\ Quiet /\ UNCHANGED <<done, payload>>
        /\ pc = "transmit" /\ pc' = "joining"
    BY <1>10 DEF Transmit, Quiet
  <2>2. Built' => command \in {"once", "send"} /\ Built
    BY <2>1 DEF Built, Quiet
  <2>3. Results' /\ BuiltAtEnd'
    BY <2>1, <2>2 DEF HInv, Results, BuiltAtEnd, Build, Quiet
  <2> QED  BY <2>1, <2>3, QuietStep
<1>11. ASSUME Stats PROVE HInv'
  <2>1. /\ Quiet /\ UNCHANGED <<done, payload>>
        /\ pc = "stats" /\ pc' = "joining"
    BY <1>11 DEF Stats, Quiet
  <2>2. command = "health"
    BY <2>1 DEF HInv
  <2>3. Results' /\ BuiltAtEnd'
    BY <2>1, <2>2 DEF HInv, Results, BuiltAtEnd, Built, Build, Quiet
  <2> QED  BY <2>1, <2>3, QuietStep
<1>12. ASSUME Exit PROVE HInv'
  <2>1. /\ Quiet /\ UNCHANGED <<done, payload, exit>>
        /\ pc = "joining" /\ pc' = "exited"
    BY <1>12 DEF Exit, Quiet
  <2>2. Results' /\ BuiltAtEnd'
    BY <2>1 DEF HInv, Results, BuiltAtEnd, Built, Build, Quiet
  <2> QED  BY <2>1, <2>2, QuietStep
<1>13. ASSUME UNCHANGED mainVars PROVE HInv'
  BY <1>13 DEF mainVars, HInv, Reported, Results, BuiltAtEnd, Built, Build
<1> QED
  BY <1>1, <1>2, <1>3, <1>4, <1>5, <1>6, <1>7, <1>8, <1>9, <1>10, <1>11, <1>12,
     <1>13
     DEF Next, Main, AuditThread, Others, Rest, vars

(* In a payload, whatever sources failed, were late or disabled on its way,  *)
(* each has its answer or a status that tells why not; a source of the       *)
(* software lacks both only where another source of it has answered          *)
(* (payload.py:64-80, software.py:108-204).                                  *)
THEOREM NothingIsHidden == Spec => []NothingHidden
<1>1. CInv /\ HInv => NothingHidden
  <2> SUFFICES ASSUME HInv, Built, NEW c \in Names, NEW s \in Sources(c)
               PROVE  \/ s \in payload[SectionOf(s)]
                      \/ status[c] \in {"disabled", "timedOut", "failed"}
                      \/ status[c] = "partial" /\ s \notin data[c]
                      \/ /\ c = "software" /\ s \notin data[c]
                         /\ \E t \in Sources(c) : t \in payload["software"]
    BY DEF NothingHidden
  <2>1. status[c] \in Statuses \ {"none"}
    BY DEF HInv, Reported, Results
  <2>2. ASSUME NEW t \in Sources(c), t \in data[c],
               status[c] \in {"success", "partial"}
        PROVE  t \in payload[SectionOf(t)]
    <3>1. Key(t) = SectionOf(t) /\ SectionOf(t) \in Sections
      BY KeyIsSection
    <3>2. payload[SectionOf(t)] =
            UNION {{u \in data[d] : Key(u) = SectionOf(t)} :
                     d \in {e \in Names : status[e] \in {"success", "partial"}}}
      BY <3>1 DEF HInv, BuiltAtEnd, Build
    <3> QED  BY <2>2, <3>1, <3>2
  <2>3. ASSUME status[c] = "success", s \notin data[c]
        PROVE  c = "software" /\ \E t \in Sources(c) : t \in payload["software"]
    <3>1. PICK t \in Sources(c) : c = "software" /\ t \in data[c]
      BY <2>3 DEF HInv, Reported, Telling
    <3>2. SectionOf(t) = "software"
      BY <3>1 DEF Sources, Asks, SoftwareAsks, SectionOf
    <3> QED  BY <2>2, <2>3, <3>1, <3>2
  <2> QED  BY <2>1, <2>2, <2>3 DEF Statuses
<1> QED  BY <1>1, CInvInit, CInvStep, HInvInit, HInvStep, PTL DEF Spec

-----------------------------------------------------------------------------
\* The limits of the audit.

\* A record is added only where there was room when its file was looked at.
AInv ==
  /\ AuditBounded
  /\ IsFiniteSet(audit.records)
  /\ audit.read \in 0 .. AuditMaxChunks
  /\ audit.step \in {"open", "reading"} =>
       Cardinality(audit.records) < AuditMaxFiles
  /\ audit = [step |-> audit.step, target |-> audit.target,
              left |-> audit.left, read |-> audit.read,
              partial |-> audit.partial, records |-> audit.records]

LEMMA AInvInit == AuditInit => AInv
BY LimitAssumption, FS_EmptySet DEF AuditInit, NoAudit, AInv, AuditBounded

LEMMA NextFileStep ==
  ASSUME AInv, NEW complete, NextFile(complete) PROVE AInv'
<1>1. /\ audit'.step = "file" /\ audit'.read = 0
      /\ audit'.records = audit.records
  BY DEF NextFile, AInv
<1>2. audit' = [step |-> audit'.step, target |-> audit'.target,
                left |-> audit'.left, read |-> audit'.read,
                partial |-> audit'.partial, records |-> audit'.records]
  BY DEF NextFile, AInv
<1> QED  BY <1>1, <1>2, LimitAssumption DEF AInv, AuditBounded

LEMMA RecordStep == AInv /\ Record => AInv'
<1> SUFFICES ASSUME AInv, Record PROVE AInv'
  OBVIOUS
<1> DEFINE R == audit.records  r == <<Turn, audit.read>>
<1>1. /\ audit.step = "reading" /\ audit'.records = R \cup {r}
      /\ audit'.step = "file" /\ audit'.read = 0
  BY DEF Record, At, AInv
<1>2. /\ IsFiniteSet(R \cup {r})
      /\ Cardinality(R \cup {r}) \in {Cardinality(R), Cardinality(R) + 1}
  BY FS_AddElement DEF AInv
<1>3. Cardinality(R) < AuditMaxFiles /\ Cardinality(R) \in Nat
  BY <1>1, FS_CardinalityType DEF AInv
<1>4. r[2] <= AuditMaxChunks
  BY LimitAssumption DEF AInv
<1>5. AuditBounded'
  BY <1>1, <1>2, <1>3, <1>4, LimitAssumption DEF AuditBounded, AInv
<1>6. audit' = [step |-> audit'.step, target |-> audit'.target,
                left |-> audit'.left, read |-> audit'.read,
                partial |-> audit'.partial, records |-> audit'.records]
  BY DEF Record, AInv
<1> QED  BY <1>1, <1>2, <1>5, <1>6, LimitAssumption DEF AInv

LEMMA AInvStep == AInv /\ [Next]_vars => AInv'
<1> SUFFICES ASSUME AInv, [Next]_vars PROVE AInv'
  OBVIOUS
<1> USE LimitAssumption DEF At
<1>1. ASSUME AuditStep PROVE AInv'
  <2>1. CASE CheckTarget \/ PassTarget
    BY <2>1 DEF CheckTarget, PassTarget, AInv, AuditBounded
  <2>2. CASE OpenTarget  BY <2>2 DEF OpenTarget, AInv, AuditBounded
  <2>3. CASE EndAudit  BY <2>3 DEF EndAudit, AInv, AuditBounded
  <2>4. CASE EndTarget  BY <2>4 DEF EndTarget, AInv, AuditBounded
  <2>5. CASE WalkFails  BY <2>5 DEF WalkFails, AInv, AuditBounded
  <2>6. CASE LimitReached  BY <2>6 DEF LimitReached, AInv, AuditBounded
  <2>7. CASE Look
    <3>1. CASE NextFile(TRUE) \/ NextFile(FALSE)  BY <3>1, NextFileStep
    <3>2. CASE audit' = [audit EXCEPT !.step = "open"]
              /\ Cardinality(audit.records) < AuditMaxFiles
      BY <3>2 DEF AInv, AuditBounded
    <3> QED  BY <2>7, <3>1, <3>2 DEF Look
  <2>8. CASE Open  BY <2>8, NextFileStep DEF Open, AInv, AuditBounded
  <2>9. CASE ReadChunk
    <3>1. CASE NextFile(FALSE)  BY <3>1, NextFileStep
    <3>2. CASE ~NextFile(FALSE)
      <4> DEFINE chunks == IF audit.read > AuditMaxChunks THEN audit.read
                           ELSE audit.read + 1
      <4>1. ~(chunks > AuditMaxChunks)
            /\ audit' = [audit EXCEPT !.read = chunks]
        BY <2>9, <3>2 DEF ReadChunk, OverLimit
      <4>2. chunks \in 0 .. AuditMaxChunks
        BY <4>1 DEF AInv
      <4> HIDE DEF chunks
      <4> QED  BY <4>1, <4>2 DEF AInv, AuditBounded
    <3> QED  BY <3>1, <3>2
  <2>10. CASE Record  BY <2>10, RecordStep
  <2> QED
    BY <1>1, <2>1, <2>2, <2>3, <2>4, <2>5, <2>6, <2>7, <2>8, <2>9, <2>10
       DEF AuditStep
<1>2. ASSUME ReadFails PROVE AInv'
  BY <1>2, NextFileStep DEF ReadFails
<1>3. ASSUME audit' = NoAudit PROVE AInv'
  BY <1>3, FS_EmptySet DEF NoAudit, AInv, AuditBounded
<1>4. ASSUME BeginAudit PROVE AInv'
  BY <1>4 DEF BeginAudit, AInv, AuditBounded
<1>5. ASSUME UNCHANGED audit PROVE AInv'
  BY <1>5 DEF AInv, AuditBounded
<1>6. ASSUME Main PROVE AInv'
  BY <1>3, <1>4, <1>5, <1>6
     DEF Main, LoadConfig, CheckPaths, CheckEvent, ResolveIdentity, Disabled,
         Succeed, Fail, StartAudit, AuditAnswers, ForgetFiles, Late, Deadline,
         EndCollection, Transmit, Stats, Exit, OnlyPc, auditVars
<1> QED
  BY <1>1, <1>2, <1>5, <1>6
     DEF Next, AuditThread, Others, Change, Move, Rest, vars, auditVars

(* However files change under it, an audit keeps its two limits             *)
(* (file_audit.py:50 and 90).                                               *)
THEOREM AuditKeepsLimits == Spec => []AuditBounded
<1>1. AInv => AuditBounded
  BY DEF AInv
<1>2. Init => AInv
  BY AInvInit DEF Init
<1> QED  BY <1>1, <1>2, AInvStep, PTL DEF Spec

-----------------------------------------------------------------------------
\* What an audit leaves out.

\* A set of numbers has a least one.
LEMMA Least ==
  ASSUME NEW S \in SUBSET Nat, NEW n \in S
  PROVE  \E m \in S : \A k \in S : m <= k
<1> DEFINE R == 0 .. n
           Below(m) == {k \in S : k <= m}
           P == {Below(m) : m \in S \cap R}
<1>0. n \in Nat /\ n \in R /\ \A k \in S : k \in Nat
  OBVIOUS
<1>1. \A m \in S \cap R : Below(m) \in SUBSET R
  <2> SUFFICES ASSUME NEW m \in S \cap R, NEW k \in Below(m) PROVE k \in R
    OBVIOUS
  <2>1. k \in Nat /\ k <= m /\ m \in Nat /\ m <= n
    BY <1>0
  <2> QED  BY <1>0, <2>1
<1>2. P # {} /\ P \subseteq FiniteSubsetsOf(R)
  <2>1. IsFiniteSet(R)
    BY <1>0, FS_Interval
  <2> HIDE DEF R, Below
  <2>2. \A s \in P : s \in SUBSET R
    BY <1>1
  <2>3. Below(n) \in P
    BY <1>0
  <2> HIDE DEF P
  <2> QED  BY <2>1, <2>2, <2>3, FS_Subset DEF FiniteSubsetsOf
<1>3. IsWellFoundedOn(StrictSubsetOrdering(R), FiniteSubsetsOf(R))
  BY FS_StrictSubsetOrderingWellFounded
<1>4. \E s \in P : \A t \in P : <<t, s>> \notin StrictSubsetOrdering(R)
  <2> HIDE DEF P, R
  <2> QED  BY <1>2, <1>3, WFMin
<1>5. PICK m \in S \cap R : \A l \in S \cap R :
         <<Below(l), Below(m)>> \notin StrictSubsetOrdering(R)
  BY <1>4
<1>6. ASSUME NEW k \in S, ~(m <= k) PROVE FALSE
  <2>1. k \in Nat /\ m \in Nat /\ m <= n
    BY <1>0
  <2>2. k \in S \cap R /\ k < m
    BY <1>0, <1>6, <2>1
  <2>3. Below(k) \subseteq Below(m) /\ m \in Below(m) /\ m \notin Below(k)
    <3>1. m \in Below(m) /\ m \notin Below(k)
      BY <2>1, <2>2
    <3>2. ASSUME NEW j \in Below(k) PROVE j \in Below(m)
      <4>1. j \in S /\ j \in Nat /\ j <= k
        BY <1>0
      <4> QED  BY <2>1, <2>2, <4>1
    <3> QED  BY <3>1, <3>2
  <2>4. Below(k) \in SUBSET R /\ Below(m) \in SUBSET R
    BY <1>1, <2>2
  <2>5. <<Below(k), Below(m)>> \in StrictSubsetOrdering(R)
    <3> HIDE DEF Below, R
    <3> QED  BY <2>3, <2>4 DEF StrictSubsetOrdering
  <2> QED  BY <1>5, <2>2, <2>5
<1> QED  BY <1>5, <1>6

InTarget == {"file", "open", "reading", "blocked"}

Full == Cardinality(audit.records) = AuditMaxFiles

\* File f of target i comes after all the files that have a record.
Behind(f, i) ==
  \A r \in audit.records :
    r[1] < f \/ \E j \in 1 .. i - 1 : r[1] \in Targets[j]

\* Where the audit is.
Place ==
  /\ file \in [Files -> FileStates] /\ kind \in [DOMAIN Targets -> Kinds]
  /\ audit.partial \in BOOLEAN
  /\ audit.target \in 0 .. Len(Targets)
  /\ At("listing") => audit.target # 0
  /\ At("off") => audit.target = 0 /\ audit.records = {}
  /\ audit.step \in InTarget =>
       audit.target # 0 /\ audit.left \subseteq Targets[audit.target]
  /\ audit.step \notin InTarget => audit.left = {}
  /\ audit.step \in InTarget \ {"file"} => audit.left # {}

\* The files that have a record have been passed.
Passed ==
  /\ \A r \in audit.records : \E j \in 1 .. audit.target :
       r[1] \in Targets[j] /\ (At("listing") => j # audit.target)
  /\ \A f \in audit.left : Behind(f, audit.target)

\* File f of target i has been told of, or will be.
ToldOf(f, i) ==
  \/ file[f] \in {"link", "gone"} \/ Recorded(f)
  \/ i = audit.target /\ At("listing")
  \/ i = audit.target /\ f \in audit.left
  \/ At("over") /\ Full /\ Behind(f, i)

\* So has every target begun.
Told ==
  \A i \in (1 .. audit.target) \ moved :
    /\ kind[i] # "absent"
    /\ kind[i] = "there" => \A f \in Targets[i] \ changed : ToldOf(f, i)

GInv ==
  /\ AInv /\ Place /\ Passed
  /\ ~audit.partial => Told
  /\ At("over") => audit.target = Len(Targets) \/ Full

LEMMA TargetFiles ==
  ASSUME NEW i \in 1 .. Len(Targets)
  PROVE  Targets[i] \subseteq Nat /\ Targets[i] \subseteq Files
BY TargetsAssumption DEF Files

\* The file whose turn it is, is the first of those left.
LEMMA TurnIsLeft ==
  ASSUME Place, audit.left # {}
  PROVE  /\ audit.step \in InTarget /\ audit.target \in 1 .. Len(Targets)
         /\ audit.left \subseteq Targets[audit.target]
         /\ audit.left \subseteq Nat
         /\ Turn \in audit.left /\ \A g \in audit.left : Turn <= g
<1>1. /\ audit.step \in InTarget /\ audit.target \in 1 .. Len(Targets)
      /\ audit.left \subseteq Targets[audit.target]
  BY DEF Place
<1>2. audit.left \subseteq Nat
  BY <1>1, TargetFiles
<1>3. PICK n : n \in audit.left
  OBVIOUS
<1>4. \E m \in audit.left : \A k \in audit.left : m <= k
  BY <1>2, <1>3, Least
<1> QED  BY <1>1, <1>2, <1>4 DEF Turn

\* A step to the next file, with a record of this one or without.
LEMMA NextStep ==
  ASSUME GInv, AInv', UNCHANGED <<file, changed, kind, moved>>,
         audit.step \in InTarget, audit.left # {},
         NEW R \in SUBSET {<<Turn, audit.read>>}, NEW c \in BOOLEAN,
         audit' = [audit EXCEPT !.step = "file", !.left = @ \ {Turn}, !.read = 0,
                                !.partial = Unless(c),
                                !.records = @ \cup R],
         c => R # {} \/ file[Turn] = "link"
  PROVE  GInv'
<1> DEFINE i == audit.target
<1>1. /\ i \in 1 .. Len(Targets) /\ Turn \in Targets[i] /\ Turn \in audit.left
      /\ audit.left \subseteq Targets[i]
      /\ \A g \in audit.left : g \in Nat /\ Turn <= g
  BY TurnIsLeft DEF GInv
<1>2. /\ audit'.step = "file" /\ audit'.target = i
      /\ audit'.left = audit.left \ {Turn}
      /\ audit'.records = audit.records \cup R
      /\ audit'.partial = Unless(c)
  BY DEF GInv, AInv
<1>3. Place'
  BY <1>1, <1>2 DEF GInv, Place, At, InTarget, Unless
<1>4. Passed'
  <2>1. \A r \in audit'.records : \E j \in 1 .. i :
          r[1] \in Targets[j] /\ ~At("listing")'
    BY <1>1, <1>2 DEF GInv, Passed, At
  <2>2. ASSUME NEW f \in audit'.left, NEW r \in audit'.records
        PROVE  r[1] < f \/ \E j \in 1 .. i - 1 : r[1] \in Targets[j]
    <3>1. CASE r \in audit.records
      BY <1>2, <2>2, <3>1 DEF GInv, Passed, Behind
    <3>2. CASE r \in R
      <4>1. r[1] = Turn /\ Turn \in Nat /\ f \in Nat /\ Turn <= f /\ Turn # f
        BY <1>1, <1>2, <2>2, <3>2
      <4> QED  BY <4>1
    <3> QED  BY <1>2, <2>2, <3>1, <3>2
  <2> QED  BY <1>2, <2>1, <2>2 DEF Passed, Behind
<1>5. ASSUME ~audit'.partial PROVE Told'
  <2>1. ~audit.partial /\ c
    BY <1>2, <1>5 DEF Unless
  <2>2. ~At("over")
    BY DEF At, InTarget
  <2>3. \A j \in (1 .. i) \ moved :
          /\ kind[j] # "absent"
          /\ kind[j] = "there" =>
               \A f \in Targets[j] \ changed :
                 \/ file[f] \in {"link", "gone"} \/ Recorded(f)
                 \/ j = i /\ f \in audit.left
    BY <2>1, <2>2 DEF GInv, Told, ToldOf, At, InTarget
  <2>4. file[Turn] = "link" \/ \E r \in audit'.records : r[1] = Turn
    <3>1. CASE R # {}
      <4>1. <<Turn, audit.read>> \in audit'.records
        BY <1>2, <3>1
      <4> QED  BY <4>1
    <3> QED  BY <2>1, <3>1
  <2>5. \A f : Recorded(f) => Recorded(f)'
    BY <1>2 DEF Recorded
  <2> SUFFICES ASSUME NEW j \in (1 .. i) \ moved, kind[j] = "there",
                      NEW f \in Targets[j] \ changed
               PROVE  \/ file[f] \in {"link", "gone"} \/ Recorded(f)'
                      \/ j = i /\ f \in audit'.left
    BY <1>2, <2>3 DEF Told, ToldOf
  <2>6. CASE f = Turn
    BY <2>4, <2>6 DEF Recorded
  <2>7. CASE f # Turn
    BY <1>2, <2>3, <2>5, <2>7
  <2> QED  BY <2>6, <2>7
<1> QED  BY <1>2, <1>3, <1>4, <1>5 DEF GInv, At

\* The file is left without a record: a gap, unless it is a link.
LEMMA GoesOn ==
  ASSUME GInv, AInv', UNCHANGED <<file, changed, kind, moved>>, NEW c \in BOOLEAN,
         audit.step \in InTarget, audit.left # {},
         NextFile(c), c => file[Turn] = "link"
  PROVE  GInv'
<1>1. audit' = [audit EXCEPT !.step = "file", !.left = @ \ {Turn}, !.read = 0,
                             !.partial = Unless(c),
                             !.records = @ \cup {}]
  <2>1. /\ audit.records \cup {} = audit.records
        /\ audit' = [audit EXCEPT !.step = "file", !.left = @ \ {Turn},
                                  !.read = 0, !.partial = Unless(c)]
    BY DEF NextFile
  <2>2. audit = [step |-> audit.step, target |-> audit.target,
                 left |-> audit.left, read |-> audit.read,
                 partial |-> audit.partial, records |-> audit.records]
    BY DEF GInv, AInv
  <2> QED  BY <2>1, <2>2
<1> QED  BY <1>1, NextStep

\* A step with the same file.
LEMMA Stays ==
  ASSUME GInv, AInv', UNCHANGED <<file, changed, kind, moved>>,
         audit.step \in InTarget, audit'.step \in InTarget, audit.left # {},
         audit'.target = audit.target, audit'.left = audit.left,
         audit'.records = audit.records, audit'.partial = audit.partial
  PROVE  GInv'
<1>1. \A f, i : Behind(f, i) = Behind(f, i)' /\ Recorded(f) = Recorded(f)'
  BY DEF Behind, Recorded
<1>2. Place' /\ Passed' /\ ~At("over") /\ ~At("over")'
  BY <1>1 DEF GInv, Place, Passed, At, InTarget
<1>3. ~audit'.partial => Told'
  BY <1>1, <1>2 DEF GInv, Told, ToldOf, At, InTarget
<1> QED  BY <1>2, <1>3 DEF GInv

\* The other steps begin, end or give up a target, or the whole audit.
LEMMA GInvStep == GInv /\ AInv' /\ [Next]_vars => GInv'
<1> SUFFICES ASSUME GInv, AInv', [Next]_vars PROVE GInv'
  OBVIOUS
<1> USE DEF At
<1>0. /\ audit.target \in 0 .. Len(Targets) /\ Len(Targets) \in Nat
      /\ \A f, i : audit'.records = audit.records =>
           Behind(f, i) = Behind(f, i)' /\ Recorded(f) = Recorded(f)'
  BY TargetsAssumption DEF GInv, Place, Behind, Recorded
<1> USE DEF onDisk
<1>1. ASSUME CheckTarget \/ PassTarget PROVE GInv'
  <2>1. /\ audit.step \in {"target", "listing"}
        /\ audit'.step \in {"target", "listing"}
        /\ audit'.left = audit.left /\ audit'.records = audit.records
        /\ UNCHANGED <<file, changed, kind, moved>>
    BY <1>1 DEF CheckTarget, PassTarget, GInv, AInv
  <2>2. /\ \/ audit'.target = audit.target + 1
           \/ audit'.target = audit.target /\ audit'.step = "target"
        /\ audit'.target \in 0 .. Len(Targets)
        /\ audit'.step = "listing" => audit'.target # 0
        /\ audit'.partial \in BOOLEAN
    <3>1. CASE CheckTarget
      <4>1. /\ audit'.target = audit.target + 1 /\ audit.target < Len(Targets)
            /\ audit'.partial \in {TRUE, audit.partial}
        BY <3>1 DEF CheckTarget, GInv, AInv
      <4>2. audit'.partial \in BOOLEAN
        BY <4>1 DEF GInv, Place
      <4>3. audit.target + 1 \in 0 .. Len(Targets) /\ audit.target + 1 # 0
        BY <1>0, <4>1
      <4> QED  BY <4>1, <4>2, <4>3
    <3>2. CASE PassTarget
      BY <1>0, <3>2 DEF PassTarget, GInv, AInv, Place
    <3> QED  BY <1>1, <3>1, <3>2
  <2>3. Place'
    BY <2>1, <2>2 DEF GInv, Place, InTarget
  <2>4. Passed'
    BY <1>0, <2>1, <2>2 DEF GInv, Place, InTarget, Passed
  <2>5. ASSUME ~audit'.partial PROVE Told'
    <3>1. CASE CheckTarget
      <4>1. /\ audit.step = "target" /\ audit'.target = audit.target + 1
            /\ audit'.step = "listing" /\ kind[audit'.target] # "absent"
            /\ ~audit.partial
        BY <2>5, <3>1 DEF CheckTarget, GInv, AInv
      <4>2. \A i \in 1 .. audit.target : i # audit'.target
        BY <1>0, <4>1
      <4>3. \A i \in 1 .. audit'.target :
              i \in 1 .. audit.target \/ i = audit'.target
        BY <1>0, <4>1
      <4> QED  BY <1>0, <2>1, <4>1, <4>2, <4>3 DEF GInv, Place, InTarget, Told, ToldOf
    <3>2. CASE PassTarget
      <4>1. /\ audit'.target = audit.target /\ kind[audit.target] # "there"
            /\ ~audit.partial
        BY <2>5, <3>2 DEF PassTarget, GInv, AInv
      <4> QED  BY <1>0, <2>1, <4>1 DEF GInv, Told, ToldOf
    <3> QED  BY <1>1, <3>1, <3>2
  <2> QED  BY <2>1, <2>3, <2>4, <2>5 DEF GInv
<1>2. ASSUME OpenTarget PROVE GInv'
  <2> DEFINE t == audit.target
  <2>1. /\ audit'.step = "file" /\ audit'.target = t
        /\ audit'.left = {f \in Targets[t] : file[f] # "gone"}
        /\ audit'.records = audit.records
        /\ audit'.partial = audit.partial /\ audit.step = "listing"
        /\ UNCHANGED <<file, changed, kind, moved>>
    BY <1>2 DEF OpenTarget, GInv, AInv
  <2>2. audit.left = {} /\ t # 0
    BY <2>1 DEF GInv, Place, InTarget
  <2>3. Place'
    BY <2>1, <2>2 DEF GInv, Place, InTarget
  <2>4. Passed'
    <3>1. \A j \in 1 .. t : j # t => j \in 1 .. t - 1
      BY <1>0
    <3> QED  BY <1>0, <2>1, <3>1 DEF GInv, Passed, Behind
  <2>5. ASSUME ~audit'.partial PROVE Told'
    BY <1>0, <2>1, <2>2, <2>5 DEF GInv, Told, ToldOf
  <2> QED  BY <2>1, <2>3, <2>4, <2>5 DEF GInv
<1>3. ASSUME EndAudit \/ EndTarget PROVE GInv'
  <2>1. /\ audit.step \in {"target", "file"}
        /\ audit'.step \in {"target", "over"}
        /\ audit'.step = "over" => audit.target = Len(Targets)
        /\ audit'.target = audit.target /\ audit'.left = audit.left
        /\ audit'.records = audit.records
        /\ audit'.partial = audit.partial /\ UNCHANGED <<file, changed, kind, moved>>
        /\ audit.step = "file" => audit.left = {}
    BY <1>3 DEF EndAudit, EndTarget, GInv, AInv
  <2>2. Place' /\ Passed'
    BY <1>0, <2>1 DEF GInv, Place, Passed, InTarget
  <2>3. ~audit'.partial => Told'
    BY <1>0, <2>1 DEF GInv, Told, ToldOf
  <2> QED  BY <2>1, <2>2, <2>3 DEF GInv
<1>4. ASSUME WalkFails PROVE GInv'
  <2>1. /\ audit.step \in {"listing", "file"} /\ audit'.step = "target"
        /\ audit'.target = audit.target /\ audit'.left = {}
        /\ audit'.records = audit.records
        /\ audit'.partial = TRUE /\ UNCHANGED <<file, changed, kind, moved>>
    BY <1>4 DEF WalkFails, Unless, WalkComplete, GInv, AInv
  <2>2. Place' /\ Passed'
    BY <1>0, <2>1 DEF GInv, Place, Passed, InTarget
  <2> QED  BY <2>1, <2>2 DEF GInv
<1>5. ASSUME LimitReached PROVE GInv'
  <2>1. /\ audit.step = "file" /\ audit'.step = "over"
        /\ audit'.target = audit.target /\ audit'.left = {}
        /\ audit'.records = audit.records
        /\ audit'.partial = audit.partial /\ UNCHANGED <<file, changed, kind, moved>>
        /\ Cardinality(audit.records) >= AuditMaxFiles
    BY <1>5 DEF LimitReached, GInv, AInv
  <2>2. Full /\ Full'
    <3>1. Cardinality(audit.records) <= AuditMaxFiles
          /\ Cardinality(audit.records) \in Nat
      BY FS_CardinalityType DEF GInv, AInv, AuditBounded
    <3>2. Cardinality(audit.records) = AuditMaxFiles
      BY <2>1, <3>1, LimitAssumption
    <3> QED  BY <2>1, <3>2 DEF Full
  <2>3. Place' /\ Passed'
    BY <1>0, <2>1 DEF GInv, Place, Passed, InTarget
  <2>4. ASSUME ~audit'.partial PROVE Told'
    <3>1. \A f \in audit.left : Behind(f, audit.target)
      BY DEF GInv, Passed
    <3>2. \A i \in (1 .. audit.target) \ moved :
            /\ kind[i] # "absent"
            /\ kind[i] = "there" =>
                 \A f \in Targets[i] \ changed :
                   \/ file[f] \in {"link", "gone"} \/ Recorded(f)
                   \/ Behind(f, i)
      BY <2>1, <2>4, <3>1 DEF GInv, Told, ToldOf
    <3> QED  BY <1>0, <2>1, <2>2, <3>2 DEF Told, ToldOf
  <2> QED  BY <2>1, <2>2, <2>3, <2>4 DEF GInv
<1>6. ASSUME Look PROVE GInv'
  <2>1. audit.step = "file" /\ audit.left # {} /\ UNCHANGED <<file, changed, kind, moved>>
    BY <1>6 DEF Look
  <2>2. CASE NextFile(FALSE) \/ (NextFile(TRUE) /\ file[Turn] = "link")
    BY <2>1, <2>2, GoesOn DEF InTarget
  <2>3. CASE audit' = [audit EXCEPT !.step = "open"]
    BY <2>1, <2>3, Stays DEF InTarget, GInv, AInv
  <2> QED  BY <1>6, <2>2, <2>3 DEF Look
<1>7. ASSUME Open PROVE GInv'
  <2>1. audit.step = "open" /\ audit.left # {} /\ UNCHANGED <<file, changed, kind, moved>>
    BY <1>7 DEF Open, GInv, Place, InTarget
  <2>2. CASE NextFile(FALSE)
    BY <2>1, <2>2, GoesOn DEF InTarget
  <2>3. CASE \E step \in {"blocked", "reading"} :
               audit' = [audit EXCEPT !.step = step]
    BY <2>1, <2>3, Stays DEF InTarget, GInv, AInv
  <2> QED  BY <1>7, <2>2, <2>3 DEF Open
<1>8. ASSUME ReadChunk \/ ReadFails PROVE GInv'
  <2>1. audit.step = "reading" /\ audit.left # {} /\ UNCHANGED <<file, changed, kind, moved>>
    BY <1>8 DEF ReadChunk, ReadFails, GInv, Place, InTarget
  <2>2. CASE NextFile(FALSE)
    BY <2>1, <2>2, GoesOn DEF InTarget
  <2>3. CASE \E n : audit' = [audit EXCEPT !.read = n]
    BY <2>1, <2>3, Stays DEF InTarget, GInv, AInv
  <2> QED  BY <1>8, <2>2, <2>3 DEF ReadChunk, ReadFails
<1>9. ASSUME Record PROVE GInv'
  <2>1. audit.step = "reading" /\ audit.left # {} /\ UNCHANGED <<file, changed, kind, moved>>
    BY <1>9 DEF Record, GInv, Place, InTarget
  <2>2. audit' = [audit EXCEPT !.step = "file", !.left = @ \ {Turn}, !.read = 0,
                               !.partial = audit.partial,
                               !.records = @ \cup {<<Turn, audit.read>>}]
    BY <1>9 DEF Record, GInv, AInv
  <2>3. Unless(TRUE) = audit.partial
    BY DEF Unless, GInv, Place
  <2> QED  BY <2>1, <2>2, <2>3, NextStep DEF InTarget
<1>10. ASSUME BeginAudit PROVE GInv'
  <2>1. /\ audit.step = "off" /\ audit'.step = "target"
        /\ audit'.target = audit.target /\ audit'.left = audit.left
        /\ audit'.records = audit.records /\ audit'.partial = audit.partial
        /\ file' \in [Files -> FileStates] /\ kind' \in [DOMAIN Targets -> Kinds]
    BY <1>10 DEF BeginAudit, GInv, AInv
  <2>2. audit.target = 0 /\ audit.left = {} /\ audit.records = {}
    BY <2>1 DEF GInv, Place, InTarget
  <2>3. Place' /\ Passed' /\ Told'
    BY <1>0, <2>1, <2>2 DEF GInv, Place, Passed, Told, InTarget
  <2> QED  BY <2>1, <2>3 DEF GInv
<1>11. ASSUME ForgetFiles PROVE GInv'
  <2>1. /\ audit'.step = "off" /\ audit'.target = 0 /\ audit'.left = {}
        /\ audit'.records = {} /\ audit'.partial = FALSE
        /\ file' \in [Files -> FileStates] /\ kind' \in [DOMAIN Targets -> Kinds]
    BY <1>11 DEF ForgetFiles, NoAudit, NoFiles, FileStates, NoTargets, Kinds
  <2>2. audit'.partial \in BOOLEAN
    BY <2>1
  <2>3. Place' /\ Passed' /\ Told'
    BY <1>0, <2>1, <2>2 DEF Place, Passed, Told, InTarget
  <2> QED  BY <2>1, <2>3 DEF GInv
<1>12. ASSUME NEW f \in Files, Change(f) PROVE GInv'
  <2>1. /\ audit' = audit /\ changed' = changed \cup {f}
        /\ UNCHANGED <<kind, moved>>
        /\ file' \in [Files -> FileStates]
        /\ \A g \in Files \ {f} : file'[g] = file[g]
    BY <1>12 DEF Change, GInv, Place, FileStates
  <2>2. Place' /\ Passed'
    BY <1>0, <2>1 DEF GInv, Place, Passed
  <2>3. ASSUME ~audit'.partial PROVE Told'
    <3>1. \A i \in 1 .. audit.target : Targets[i] \subseteq Files
      BY <1>0, TargetFiles
    <3> QED  BY <1>0, <2>1, <2>3, <3>1 DEF GInv, Told, ToldOf, Full
  <2> QED  BY <2>1, <2>2, <2>3 DEF GInv, Full
<1>13. ASSUME NEW i \in DOMAIN Targets, Move(i) PROVE GInv'
  <2>1. /\ audit' = audit /\ moved' = moved \cup {i} /\ UNCHANGED <<file, changed>>
        /\ kind' \in [DOMAIN Targets -> Kinds]
        /\ \A j \in DOMAIN Targets \ {i} : kind'[j] = kind[j]
    BY <1>13 DEF Move, GInv, Place
  <2>2. Place' /\ Passed'
    BY <1>0, <2>1 DEF GInv, Place, Passed
  <2>3. ASSUME ~audit'.partial PROVE Told'
    <3>1. (1 .. audit.target) \subseteq DOMAIN Targets
      BY <1>0, TargetsAssumption
    <3> QED  BY <1>0, <2>1, <2>3, <3>1 DEF GInv, Told, ToldOf, Full
  <2> QED  BY <2>1, <2>2, <2>3 DEF GInv, Full
<1>14. ASSUME UNCHANGED auditVars PROVE GInv'
  <2>1. Place' /\ Passed'
    BY <1>0, <1>14 DEF GInv, Place, Passed, auditVars
  <2>2. Full' = Full
    BY <1>14 DEF Full, auditVars
  <2>3. \A f, i : ToldOf(f, i) => ToldOf(f, i)'
    BY <1>0, <1>14, <2>2 DEF ToldOf, auditVars
  <2>4. Told => Told'
    BY <1>14, <2>3 DEF Told, auditVars
  <2> QED  BY <1>14, <2>1, <2>2, <2>4 DEF GInv, auditVars
<1>15. ASSUME Main PROVE GInv'
  BY <1>10, <1>11, <1>14, <1>15
     DEF Main, LoadConfig, CheckPaths, CheckEvent, ResolveIdentity, Disabled,
         Succeed, Fail, StartAudit, AuditAnswers, Late, Deadline,
         EndCollection, Transmit, Stats, Exit, OnlyPc
<1> QED
  BY <1>1, <1>2, <1>3, <1>4, <1>5, <1>6, <1>7, <1>8, <1>9, <1>12, <1>13, <1>14, <1>15
     DEF Next, AuditThread, AuditStep, Others, Rest, vars

(* However files and targets change under an audit, and wherever its walks   *)
(* fail, it has a record of every file that stays as it is below a target    *)
(* that stays a file or a directory, calls itself partial, or is full with   *)
(* the files before this one (file_audit.py:83-121).                         *)
THEOREM AuditTells == Spec => []AuditTellsGaps
<1>1. Init => GInv
  <2> SUFFICES ASSUME Init PROVE GInv
    OBVIOUS
  <2>1. /\ audit.step = "off" /\ audit.target = 0 /\ audit.left = {}
        /\ audit.records = {} /\ audit.partial = FALSE
        /\ file \in [Files -> FileStates] /\ kind \in [DOMAIN Targets -> Kinds]
    BY DEF Init, AuditInit, NoAudit, NoFiles, FileStates, NoTargets, Kinds
  <2>2. audit.partial \in BOOLEAN
    BY <2>1
  <2>3. Place /\ Passed /\ Told
    BY <2>1, <2>2, TargetsAssumption DEF Place, Passed, Told, InTarget, At
  <2> QED  BY <2>1, <2>3, AInvInit DEF GInv, Init, At
<1>2. AInv /\ [Next]_vars /\ GInv => GInv'
  BY AInvStep, GInvStep
<1>3. GInv => AuditTellsGaps
  <2> SUFFICES ASSUME GInv, At("over"), ~audit.partial,
                      NEW i \in DOMAIN Targets \ moved
               PROVE  /\ kind[i] = "absent" => FilledBefore(i)
                      /\ kind[i] = "there" =>
                           \A f \in Targets[i] \ changed :
                             \/ file[f] \in {"link", "gone"} \/ Recorded(f)
                             \/ FilledBeforeFile(f, i)
    BY DEF AuditTellsGaps
  <2>1. i \in 1 .. Len(Targets) /\ audit.target \in 0 .. Len(Targets)
        /\ Len(Targets) \in Nat /\ audit.left = {}
    BY TargetsAssumption DEF GInv, Place, At, InTarget
  <2>2. CASE i <= audit.target
    <3>1. i \in 1 .. audit.target
      BY <2>1, <2>2
    <3> QED  BY <2>1, <3>1 DEF GInv, Told, ToldOf, At, Full, Behind, FilledBeforeFile
  <2>3. CASE audit.target < i
    <3>1. Full
      BY <2>1, <2>3 DEF GInv
    <3>2. ASSUME NEW r \in audit.records
          PROVE  \E j \in 1 .. i - 1 : r[1] \in Targets[j]
      <4>1. PICK j \in 1 .. audit.target : r[1] \in Targets[j]
        BY DEF GInv, Passed
      <4> QED  BY <2>1, <2>3, <4>1
    <3> QED  BY <3>1, <3>2 DEF Full, FilledBefore, FilledBeforeFile
  <2> QED  BY <2>1, <2>2, <2>3
<1> QED  BY <1>1, <1>2, <1>3, PTL DEF Spec, GInv
=============================================================================
