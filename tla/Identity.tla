------------------------------ MODULE Identity ------------------------------
(* The machine identity (identity.py:81-163): the platform's identifier if  *)
(* it can be read, else a persisted one.  Processes that start at the same  *)
(* time read the file machine-id, create it with O_EXCL or wait for the one *)
(* that does, and any of them may crash in between.                         *)
(* Definitions named Faulty are wrong variants of the next definition.      *)
EXTENDS Integers

CONSTANTS
  Procs,         \* processes that start on one state directory
  Platform,      \* the identity hashed from the platform's identifier
  PlatformReads, \* what reading that identifier may give: "value", "nothing"
  None, Empty,   \* no file or value, a file without (complete) content
  MaxTries,      \* reads of the file while another process creates it
  MaxStarts,     \* bound on starts of each process
  MaxFailures    \* bound on crashes and failing file operations

ASSUME PlatformAssumption == PlatformReads \subseteq {"value", "nothing"}
ASSUME TriesAssumption == MaxTries \in Nat \ {0}
ASSUME BoundAssumption == MaxStarts \in Nat /\ MaxFailures \in Nat

\* A new UUID for each start of each process.
Values == Procs \X (1 .. MaxStarts)

ASSUME MarksAssumption ==
  None # Empty /\ {None, Empty, Platform} \cap Values = {}

VARIABLES
  file,          \* what machine-id holds
  pc, tries,     \* per process: next step, reads left
  starts,        \* per process: how often it has started
  value,         \* per process: the identity it goes by
  failures,
  first          \* history: the first persisted identity a process went by

vars == <<file, pc, tries, starts, value, failures, first>>

TypeOK ==
  /\ file \in Values \cup {None, Empty}
  /\ pc \in [Procs -> {"off", "platform", "read", "create", "write",
                     "written", "await", "up", "failed"}]
  /\ tries \in [Procs -> 0 .. MaxTries]
  /\ starts \in [Procs -> 0 .. MaxStarts]
  /\ value \in [Procs -> Values \cup {None, Platform}]
  /\ failures \in 0 .. MaxFailures
  /\ first \in Values \cup {None}

Init ==
  /\ file = None
  /\ pc = [p \in Procs |-> "off"]
  /\ tries = [p \in Procs |-> 0]
  /\ starts = [p \in Procs |-> 0]
  /\ value = [p \in Procs |-> None]
  /\ failures = 0
  /\ first = None

Go(p, from, to) == pc[p] = from /\ pc' = [pc EXCEPT ![p] = to]

\* The identity this start of p would create.
Candidate(p) == <<p, starts[p]>>

\* p goes by identity v.
Adopt(p, v) ==
  /\ value' = [value EXCEPT ![p] = v]
  /\ first' = IF first = None /\ v \in Values THEN v ELSE first

-----------------------------------------------------------------------------

Start(p) ==
  /\ Go(p, "off", "platform")
  /\ starts[p] < MaxStarts
  /\ starts' = [starts EXCEPT ![p] = @ + 1]
  /\ UNCHANGED <<file, tries, value, failures, first>>

\* /etc/machine-id, the registry or ioreg answers ...
ReadPlatform(p) ==
  /\ "value" \in PlatformReads
  /\ Go(p, "platform", "up")
  /\ Adopt(p, Platform)
  /\ UNCHANGED <<file, tries, starts, failures>>

\* ... or is missing, empty, fails or times out: the file is used.
NoPlatform(p) ==
  /\ "nothing" \in PlatformReads
  /\ Go(p, "platform", "read")
  /\ UNCHANGED <<file, tries, starts, value, failures, first>>

ReadMissing(p) ==
  /\ Go(p, "read", "create")
  /\ file = None
  /\ UNCHANGED <<file, tries, starts, value, failures, first>>

\* Empty content is taken for another process's unfinished creation.
ReadMalformed(p) ==
  /\ Go(p, "read", "await")
  /\ file = Empty
  /\ tries' = [tries EXCEPT ![p] = MaxTries]
  /\ UNCHANGED <<file, starts, value, failures, first>>

ReadValue(p) ==
  /\ Go(p, "read", "up")
  /\ file \in Values
  /\ Adopt(p, file)
  /\ UNCHANGED <<file, tries, starts, failures>>

FaultyCanCreate == TRUE

\* O_CREAT | O_EXCL
CanCreate == file = None

Create(p) ==
  /\ Go(p, "create", "write")
  /\ CanCreate
  /\ file' = Empty
  /\ UNCHANGED <<tries, starts, value, failures, first>>

CreateExists(p) ==
  /\ Go(p, "create", "await")
  /\ ~CanCreate
  /\ tries' = [tries EXCEPT ![p] = MaxTries]
  /\ UNCHANGED <<file, starts, value, failures, first>>

\* The content reaches the file with the flush; others may read it from here.
Write(p) ==
  /\ Go(p, "write", "written")
  /\ file' = Candidate(p)
  /\ UNCHANGED <<tries, starts, value, failures, first>>

\* fsync and chmod end well.
Finish(p) ==
  /\ Go(p, "written", "up")
  /\ Adopt(p, Candidate(p))
  /\ UNCHANGED <<file, tries, starts, failures>>

\* An operation on the directory or the file raises OSError (mkdir, chmod,
\* read, open, write, fsync); the start fails and leaves the file as it is.
Fails(p) ==
  /\ pc[p] \in {"read", "create", "write", "written", "await"}
  /\ pc' = [pc EXCEPT ![p] = "failed"]
  /\ failures < MaxFailures
  /\ failures' = failures + 1
  /\ UNCHANGED <<file, tries, starts, value, first>>

AwaitValue(p) ==
  /\ Go(p, "await", "up")
  /\ tries[p] > 0 /\ file \in Values
  /\ Adopt(p, file)
  /\ UNCHANGED <<file, tries, starts, failures>>

FaultyAwaitMore(p) ==
  /\ tries[p] > 0
  /\ Go(p, "await", IF tries[p] = 1 THEN "failed" ELSE "await")
  /\ tries' = [tries EXCEPT ![p] = @ - 1]
  /\ UNCHANGED <<file, starts, value, failures, first>>

\* A read that failed leaves one less; after the last the start raises.
AwaitMore(p) ==
  /\ tries[p] > 0 /\ file \notin Values
  /\ Go(p, "await", IF tries[p] = 1 THEN "failed" ELSE "await")
  /\ tries' = [tries EXCEPT ![p] = @ - 1]
  /\ UNCHANGED <<file, starts, value, failures, first>>

\* A process that runs, or has failed, ends.
Stop(p) ==
  /\ pc[p] \in {"up", "failed"}
  /\ pc' = [pc EXCEPT ![p] = "off"]
  /\ value' = [value EXCEPT ![p] = None]
  /\ UNCHANGED <<file, tries, starts, failures, first>>

Crash(p) ==
  /\ pc[p] \in {"platform", "read", "create", "write", "written", "await"}
  /\ failures < MaxFailures
  /\ failures' = failures + 1
  /\ pc' = [pc EXCEPT ![p] = "off"]
  /\ UNCHANGED <<file, tries, starts, value, first>>

\* Every start of the instance has been made.
Over ==
  /\ \A p \in Procs : pc[p] = "off" /\ starts[p] = MaxStarts
  /\ UNCHANGED vars

Resolve(p) ==
  \/ ReadPlatform(p) \/ NoPlatform(p)
  \/ ReadMissing(p) \/ ReadMalformed(p) \/ ReadValue(p) \/ Create(p)
  \/ CreateExists(p) \/ Write(p) \/ Finish(p)
  \/ AwaitValue(p) \/ AwaitMore(p)

Next ==
  \/ \E p \in Procs :
       Start(p) \/ Resolve(p) \/ Fails(p) \/ Stop(p) \/ Crash(p)
  \/ Over

Spec == Init /\ [][Next]_vars

-----------------------------------------------------------------------------
\* Properties.

(* "Stable private identifier" (PRIVACY.md:10): all starts of all processes  *)
(* that fall back to the persisted identity go by the same one, whoever      *)
(* creates it, and whoever crashes meanwhile (identity.py:101-131).          *)
OneFallback == \A p \in Procs : value[p] \in {None, Platform, first}

\* p gives up, no operation of its own having failed, while no process is
\* between creating and writing the file.
GivesUpInVain(p) ==
  /\ pc[p] = "await" /\ pc'[p] = "failed" /\ failures' = failures
  /\ \A q \in Procs : pc[q] # "write"

(* A start gives up with "concurrent machine identity creation did not       *)
(* complete" (identity.py:98) only while a process is creating the identity, *)
(* or after one crashed or failed and left the file empty.                   *)
GivesUpForCause == [][\A p \in Procs : GivesUpInVain(p) => failures > 0]_vars
=============================================================================
