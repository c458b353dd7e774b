----------------------------- MODULE FileAudit ------------------------------
(* One collect() of the file audit (collectors/file_audit.py:73-128) over    *)
(* directories in which other programs write: a file may grow, shrink, go,   *)
(* or lose its permission between two steps of the audit, and a target may   *)
(* come, go or become something else until its names are read.               *)
(*                                                                           *)
(* Content is counted in chunks, and a file that is "growing" gets new ones  *)
(* as fast as they are read.  Definitions named Faulty are wrong variants of *)
(* the next definition.                                                      *)
EXTENDS Naturals, FiniteSets, Sequences

CONSTANTS
  Targets,       \* audit_paths: per target the files below it, by number
  AuditMaxFiles, \* audit_max_files
  AuditMaxChunks \* audit_max_file_bytes

ASSUME TargetsAssumption == Targets \in Seq(SUBSET Nat)
ASSUME LimitAssumption ==
  AuditMaxFiles \in Nat \ {0} /\ AuditMaxChunks \in Nat \ {0}

VARIABLES
  file,          \* the state of each file
  changed,       \* files that changed since the audit began, once at most
  kind,          \* what each target is
  moved,         \* targets that changed since the audit began, once at most
  audit          \* the call: its step, its place, its answer

onDisk == <<file, changed, kind, moved>>

auditVars == <<onDisk, audit>>

Files == UNION {Targets[i] : i \in DOMAIN Targets}

\* "small" is within the limit, "big" is not; "denied" cannot be opened.
FileStates == {"small", "big", "growing", "denied", "link", "pipe", "gone"}

\* A target is "there" when it is a file or a directory, "absent" when it is
\* missing or a link, and "other" when it is a pipe or a device, or when
\* Python 3.14, for an error, calls it neither file nor directory.
Kinds == {"there", "absent", "other"}

Steps ==
  {"off", "target", "listing", "file", "open", "reading", "blocked", "over"}

AuditTypeOK ==
  /\ file \in [Files -> FileStates]
  /\ changed \subseteq Files
  /\ kind \in [DOMAIN Targets -> Kinds]
  /\ moved \subseteq DOMAIN Targets
  /\ audit \in [step: Steps, target: 0 .. Len(Targets), left: SUBSET Files,
                read: 0 .. AuditMaxChunks + 1, partial: BOOLEAN,
                records: SUBSET (Files \X (0 .. AuditMaxChunks + 1))]

NoAudit ==
  [step |-> "off", target |-> 0, left |-> {}, read |-> 0, partial |-> FALSE,
   records |-> {}]

NoFiles == [f \in Files |-> "gone"]

NoTargets == [i \in DOMAIN Targets |-> "absent"]

AuditInit ==
  /\ file = NoFiles /\ changed = {} /\ kind = NoTargets /\ moved = {}
  /\ audit = NoAudit

ForgetFiles ==
  /\ file' = NoFiles /\ changed' = {} /\ kind' = NoTargets /\ moved' = {}
  /\ audit' = NoAudit

-----------------------------------------------------------------------------

At(step) == audit.step = step

Unless(complete) == audit.partial \/ ~complete

\* The file whose turn it is: os.walk's names are sorted.
Turn == CHOOSE f \in audit.left : \A g \in audit.left : f <= g

\* Continue with the next file, complete or not.
NextFile(complete) ==
  audit' = [audit EXCEPT !.step = "file", !.left = @ \ {Turn}, !.read = 0,
                         !.partial = Unless(complete)]

\* The disk is as the audit finds it.
BeginAudit ==
  /\ At("off")
  /\ audit' = [audit EXCEPT !.step = "target"]
  /\ file' \in [Files -> FileStates] /\ kind' \in [DOMAIN Targets -> Kinds]
  /\ UNCHANGED <<changed, moved>>

\* collect() asks whether the target exists and is no link.  An error of
\* this check counts as one of the walk.
CheckTarget ==
  /\ At("target") /\ audit.target < Len(Targets)
  /\ LET t == audit.target + 1 IN
       audit' = IF kind[t] = "absent"
                THEN [audit EXCEPT !.target = t, !.partial = TRUE]
                ELSE [audit EXCEPT !.target = t, !.step = "listing"]
  /\ UNCHANGED onDisk

\* The generator looks again, and says nothing of a target that is by now a
\* link or missing, nor of one that is neither file nor directory.
PassTarget ==
  /\ At("listing") /\ kind[audit.target] # "there"
  /\ audit' = [audit EXCEPT !.step = "target"]
  /\ UNCHANGED onDisk

\* The names of a directory are read before its first file.
OpenTarget ==
  /\ At("listing") /\ kind[audit.target] = "there"
  /\ audit' = [audit EXCEPT !.step = "file",
                 !.left = {f \in Targets[audit.target] : file[f] # "gone"}]
  /\ UNCHANGED onDisk

EndAudit ==
  /\ At("target") /\ audit.target = Len(Targets)
  /\ audit' = [audit EXCEPT !.step = "over"]
  /\ UNCHANGED onDisk

EndTarget ==
  /\ At("file") /\ audit.left = {}
  /\ audit' = [audit EXCEPT !.step = "target"]
  /\ UNCHANGED onDisk

FaultyWalkComplete == TRUE

\* A directory that cannot be read, the target itself, one below it or one
\* after the last file, ends the walk of its target.
WalkComplete == FALSE

WalkFails ==
  /\ audit.step \in {"listing", "file"}
  /\ audit' = [audit EXCEPT !.step = "target", !.left = {},
                            !.partial = Unless(WalkComplete)]
  /\ UNCHANGED onDisk

\* The limit counts records, and reaching it is no gap.
LimitReached ==
  /\ At("file") /\ audit.left # {}
  /\ Cardinality(audit.records) >= AuditMaxFiles /\ file[Turn] # "link"
  /\ audit' = [audit EXCEPT !.step = "over", !.left = {}]
  /\ UNCHANGED onDisk

\* Links are passed over.  Other files are looked at before they are opened.
Look ==
  /\ At("file") /\ audit.left # {}
  /\ \/ file[Turn] = "link" /\ NextFile(TRUE)
     \/ /\ file[Turn] # "link" /\ Cardinality(audit.records) < AuditMaxFiles
        /\ IF file[Turn] \in {"big", "gone"} THEN NextFile(FALSE)
           ELSE audit' = [audit EXCEPT !.step = "open"]
  /\ UNCHANGED onDisk

\* Opening a pipe nobody writes to does not return.
Open ==
  /\ At("open")
  /\ IF file[Turn] \in {"denied", "gone"} THEN NextFile(FALSE)
     ELSE audit' = [audit EXCEPT !.step =
                      IF file[Turn] = "pipe" THEN "blocked" ELSE "reading"]
  /\ UNCHANGED onDisk

\* An open file keeps its content when its name goes.
MoreToRead ==
  CASE file[Turn] = "growing" -> TRUE
    [] file[Turn] = "big" -> audit.read <= AuditMaxChunks
    [] OTHER -> audit.read < 1

FaultyOverLimit(chunks) == FALSE

OverLimit(chunks) == chunks > AuditMaxChunks

\* The count stops above the limit.
ReadChunk ==
  /\ At("reading") /\ MoreToRead
  /\ LET chunks == IF audit.read > AuditMaxChunks THEN audit.read
                   ELSE audit.read + 1
     IN  IF OverLimit(chunks) THEN NextFile(FALSE)
         ELSE audit' = [audit EXCEPT !.read = chunks]
  /\ UNCHANGED onDisk

Record ==
  /\ At("reading") /\ ~MoreToRead
  /\ audit' = [audit EXCEPT !.step = "file", !.left = @ \ {Turn}, !.read = 0,
                            !.records = @ \cup {<<Turn, audit.read>>}]
  /\ UNCHANGED onDisk

AuditStep ==
  \/ CheckTarget \/ PassTarget \/ OpenTarget \/ EndAudit \/ EndTarget
  \/ WalkFails \/ LimitReached \/ Look \/ Open \/ ReadChunk \/ Record

\* A read fails, or the time of the file cannot be converted.
ReadFails ==
  /\ At("reading") /\ NextFile(FALSE)
  /\ UNCHANGED onDisk

\* Another program changes a file; it makes no links or pipes meanwhile.
Change(f) ==
  /\ f \notin changed /\ audit.step \notin {"off", "over"}
  /\ file[f] \notin {"link", "pipe"}
  /\ \E s \in {"small", "big", "growing", "denied", "gone"} \ {file[f]} :
       file' = [file EXCEPT ![f] = s]
  /\ changed' = changed \cup {f}
  /\ UNCHANGED <<kind, moved, audit>>

\* Another program changes a target after its check and before its names are
\* read.  Changed before, it is as the audit finds it; what becomes of it
\* later shows in its files and its walk.
Move(i) ==
  /\ At("listing") /\ audit.target = i /\ i \notin moved
  /\ \E k \in Kinds \ {kind[i]} : kind' = [kind EXCEPT ![i] = k]
  /\ moved' = moved \cup {i}
  /\ UNCHANGED <<file, changed, audit>>

-----------------------------------------------------------------------------
\* Properties.

(* However files grow after they were looked at, a record stands for no      *)
(* more content than audit_max_file_bytes, and there are no more records     *)
(* than audit_max_files (file_audit.py:50 and 90).                           *)
AuditBounded ==
  /\ \A r \in audit.records : r[2] <= AuditMaxChunks
  /\ Cardinality(audit.records) <= AuditMaxFiles

Recorded(f) == \E r \in audit.records : r[1] = f

\* The records, as many as there may be, are all of targets before i.
FilledBefore(i) ==
  /\ Cardinality(audit.records) = AuditMaxFiles
  /\ \A r \in audit.records : \E j \in 1 .. i - 1 : r[1] \in Targets[j]

\* They are all of files that come before file f of target i.
FilledBeforeFile(f, i) ==
  /\ Cardinality(audit.records) = AuditMaxFiles
  /\ \A r \in audit.records :
       r[1] < f \/ \E j \in 1 .. i - 1 : r[1] \in Targets[j]

(* An audit that does not call itself partial leaves out no target that is   *)
(* missing or a link all along, and has a record of every file that was      *)
(* there and as it is all along, below a target that was a file or a         *)
(* directory all along: links apart, and what comes after the file that made *)
(* their number full (file_audit.py:83-121).  The exception is the code's: a *)
(* target that is neither file nor directory when the generator looks, a     *)
(* pipe or a directory renamed since line 85, passes for complete.           *)
AuditTellsGaps ==
  At("over") /\ ~audit.partial =>
    \A i \in DOMAIN Targets \ moved :
      /\ kind[i] = "absent" => FilledBefore(i)
      /\ kind[i] = "there" =>
           \A f \in Targets[i] \ changed :
             \/ file[f] \in {"link", "gone"} \/ Recorded(f)
             \/ FilledBeforeFile(f, i)
=============================================================================
