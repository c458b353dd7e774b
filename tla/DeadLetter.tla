----------------------------- MODULE DeadLetter -----------------------------
(* How one pending record moves to the dead-letter directory (reject and    *)
(* the quarantine of load, spool.py): the lock on the source, the operation *)
(* lock, the operation marker, the reservation of a destination, the move   *)
(* itself, and the recovery of a move that stopped between link and unlink. *)
(* Several processes try it on the same record, one may crash or fail at    *)
(* any step, the machine may lose its power, and others acknowledge or      *)
(* evict the record meanwhile.                                              *)
(*                                                                          *)
(* Two directories change, and each is synced on its own.  A loss of power  *)
(* may keep or drop every change since the last sync, each for itself: what *)
(* POSIX grants, and less than a journaling file system gives.  The code    *)
(* skips a sync, unsaid, where the directory cannot be opened or synced:    *)
(* SyncWorks says whether it can.                                           *)
(*                                                                          *)
(* A record's file name holds its event id, so no later record takes the    *)
(* name of the source.  Definitions named Faulty are wrong variants of the  *)
(* next definition.                                                         *)
EXTENDS Naturals, FiniteSets

CONSTANTS
  Procs,         \* processes with a Spool on this directory
  None,          \* no file, no process, no marker
  Rec, Foreign,  \* the record's file, and a file that was put there otherwise
  Ops,           \* the two kinds of move: "rejected", "corrupt"
  Numbers,       \* the numbered names of a destination
  PublishModes,  \* how a file is moved without replacing: "rename", "link"
  SyncWorks,     \* the two directories can be opened and synced
  MaxForeign,    \* bound on foreign files
  MaxFaults      \* bound on crashes, failing calls and losses of power

\* An operation marker: the destination announced, and whether it was reached.
Marker == [dest : Numbers, committed : BOOLEAN]

ASSUME OpsAssumption == Ops \subseteq {"rejected", "corrupt"} /\ Ops # {}
ASSUME NumbersAssumption ==
  0 \in Numbers /\ Numbers = 0 .. Cardinality(Numbers) - 1
ASSUME FilesAssumption ==
  Rec # Foreign /\ None \notin {Rec, Foreign} \cup Procs \cup Marker
ASSUME SyncAssumption == SyncWorks \in BOOLEAN
ASSUME BoundsAssumption ==
  MaxForeign \in Nat /\ MaxFaults \in Nat

VARIABLES
  source,        \* the record has its name in the spool root
  dead,          \* the file under each destination name
  marker,        \* the operation marker of each kind of move
  disk,          \* what each of these may be after a loss of power
  sourceLock,    \* who holds the flock of the record
  opLock,        \* who holds the operation lock of each kind of move
  destLock,      \* who holds the reservation of each destination
  pc, op, num,   \* per process: next step, kind of move, destination tried
  seen,          \* per process: the marker it read was committed
  todo,          \* per process: the markers its recovery has listed
  leftover,      \* reservation files whose holder crashed
  foreign, faults,   \* counters
  \* history
  consumed,      \* the record was acknowledged or evicted
  contended,     \* a fault met another process that moves the record
  cut,           \* a process ended in a move whose two syncs were not done
  exposed,       \* the power failed in such a move, or after it was cut
  answer         \* per process: the destination reject returned

names == <<source, dead, marker>>
files == <<names, disk>>
locks == <<sourceLock, opLock, destLock>>
local == <<op, num, seen, todo>>
counters == <<foreign, faults, contended, cut, exposed>>
rest == <<leftover, counters, consumed, answer>>
vars == <<files, locks, pc, local, rest>>

PCs == {"down", "idle", "recovering", "ready", "consume", "lockSource",
        "lockOp", "readMarker", "reserve", "mark", "look", "verify", "publish",
        "unlink", "syncRoot", "syncDead", "commit"}

\* The source is being, or has been, unlinked; not yet synced everywhere.
Exposed == {"unlink", "syncRoot", "syncDead"}

Moving == PCs \ {"down", "idle", "recovering", "ready", "consume"}

TypeOK ==
  /\ source \in BOOLEAN
  /\ dead \in [Ops -> [Numbers -> {None, Rec, Foreign}]]
  /\ marker \in [Ops -> Marker \cup {None}]
  /\ disk \in [source : SUBSET BOOLEAN,
               dead : [Ops -> [Numbers -> SUBSET {None, Rec, Foreign}]],
               marker : [Ops -> SUBSET (Marker \cup {None})]]
  /\ sourceLock \in Procs \cup {None}
  /\ opLock \in [Ops -> Procs \cup {None}]
  /\ destLock \in [Ops -> [Numbers -> Procs \cup {None}]]
  /\ pc \in [Procs -> PCs]
  /\ op \in [Procs -> Ops]
  /\ num \in [Procs -> Numbers]
  /\ seen \in [Procs -> BOOLEAN]
  /\ todo \in [Procs -> SUBSET Ops]
  /\ leftover \subseteq Ops \X Numbers
  /\ foreign \in 0 .. MaxForeign
  /\ faults \in 0 .. MaxFaults
  /\ {consumed, contended, cut, exposed} \subseteq BOOLEAN
  /\ answer \in [Procs -> Numbers \cup {None}]

Init ==
  /\ source = TRUE
  /\ dead = [o \in Ops |-> [n \in Numbers |-> None]]
  /\ marker = [o \in Ops |-> None]
  /\ disk = [source |-> {TRUE}, dead |-> [o \in Ops |-> [n \in Numbers |-> {None}]],
             marker |-> [o \in Ops |-> {None}]]
  /\ sourceLock = None
  /\ opLock = [o \in Ops |-> None]
  /\ destLock = [o \in Ops |-> [n \in Numbers |-> None]]
  /\ pc = [p \in Procs |-> "idle"]
  /\ op = [p \in Procs |-> CHOOSE o \in Ops : TRUE]
  /\ num = [p \in Procs |-> 0]
  /\ seen = [p \in Procs |-> FALSE]
  /\ todo = [p \in Procs |-> {}]
  /\ leftover = {}
  /\ foreign = 0 /\ faults = 0
  /\ consumed = FALSE /\ contended = FALSE
  /\ cut = FALSE /\ exposed = FALSE
  /\ answer = [p \in Procs |-> None]

-----------------------------------------------------------------------------

\* The destinations that name the record.
Copies == {d \in Ops \X Numbers : dead[d[1]][d[2]] = Rec}

Links == Cardinality(Copies) + (IF source THEN 1 ELSE 0)

\* A pending record: it has its name in the root and no other.
Pending == source /\ Links = 1

\* What a loss of power finds of the directories D is what is seen now; a name
\* in another directory may be what it was, or what it is now.
Covers(D) ==
  LET May(old, new, dir) == IF dir \in D THEN {new} ELSE old \cup {new}
  IN  disk' = [source |-> May(disk.source, source', "root"),
               dead |-> [o \in Ops |-> [n \in Numbers |->
                           May(disk.dead[o][n], dead'[o][n], "dead")]],
               marker |-> [o \in Ops |->
                             May(disk.marker[o], marker'[o], "dead")]]

\* A step that calls _fsync_directory for the directories D.
Sync(D) == Covers(IF SyncWorks THEN D ELSE {})

Go(p, from, to) == pc[p] = from /\ pc' = [pc EXCEPT ![p] = to]

\* The file under the destination p works on.
Destination(p) == dead[op[p]][num[p]]

Reserved(p) == destLock[op[p]][num[p]]

\* p reserves its destination, in place of a file a crash may have left.
TakeReservation(p) ==
  /\ destLock' = [destLock EXCEPT ![op[p]][num[p]] = p]
  /\ leftover' = leftover \ {<<op[p], num[p]>>}

\* p drops the reservation of its destination, if it has it.
Unreserve(p) ==
  destLock' = IF Reserved(p) = p THEN [destLock EXCEPT ![op[p]][num[p]] = None]
              ELSE destLock

\* What the processes D worked on is forgotten.
Forget(D) ==
  /\ op' = [p \in Procs |-> IF p \in D THEN CHOOSE o \in Ops : TRUE ELSE op[p]]
  /\ num' = [p \in Procs |-> IF p \in D THEN 0 ELSE num[p]]
  /\ seen' = [p \in Procs |-> p \notin D /\ seen[p]]

\* p leaves its operation, with a result or an exception, and drops its locks.
Leave(p) ==
  /\ pc' = [pc EXCEPT ![p] = "idle"]
  /\ Unreserve(p)
  /\ opLock' = [opLock EXCEPT ![op[p]] = IF @ = p THEN None ELSE @]
  /\ sourceLock' = IF sourceLock = p THEN None ELSE sourceLock
  /\ Forget({p})

\* Another process has opened the record to move it.
Rivals(p) == \E q \in Procs \ {p} : pc[q] \in Moving

Raise(p) == Leave(p) /\ UNCHANGED <<files, todo, rest>>

Return(p) == answer' = [answer EXCEPT ![p] = num[p]]

-----------------------------------------------------------------------------
\* Every operation first recovers the moves that stopped half way.

BeginPrepare(p) ==
  /\ Go(p, "idle", "recovering")
  /\ todo' = [todo EXCEPT ![p] = {o \in Ops : marker[o] # None}]
  /\ UNCHANGED <<files, locks, op, num, seen, rest>>

\* A marker whose operation lock is held is left alone.
RecoverBusy(p, o) ==
  /\ pc[p] = "recovering" /\ o \in todo[p]
  /\ opLock[o] \notin {None, p}
  /\ todo' = [todo EXCEPT ![p] = @ \ {o}]
  /\ UNCHANGED <<files, locks, pc, op, num, seen, rest>>

RecoverLock(p, o) ==
  /\ pc[p] = "recovering" /\ o \in todo[p]
  /\ opLock[o] = None
  /\ opLock' = [opLock EXCEPT ![o] = p]
  /\ UNCHANGED <<files, sourceLock, destLock, pc, local, rest>>

\* The marker announces a destination, and the source is there.
Announced(o) == source /\ marker[o] # None

FaultyNeverHalfMoved(o) ==
  Announced(o) /\ dead[o][marker[o].dest] = Rec /\ Links = 1

\* The record has its name and the one the marker announces, and no other.
HalfMoved(o) ==
  Announced(o) /\ dead[o][marker[o].dest] = Rec /\ Links = 2

\* The source name of a half-moved record goes, unless a move holds its lock.
Recover(p, o) ==
  /\ pc[p] = "recovering" /\ o \in todo[p]
  /\ opLock[o] = p
  /\ source' = (source /\ ~(HalfMoved(o) /\ sourceLock = None))
  /\ todo' = [todo EXCEPT ![p] = @ \ {o}]
  /\ opLock' = [opLock EXCEPT ![o] = None]
  /\ UNCHANGED <<dead, marker, sourceLock, destLock, pc, op, num, seen, rest>>
  /\ IF source' # source THEN Sync({"root", "dead"}) ELSE UNCHANGED disk

\* Reservation files are removed under their guard, which makes those who
\* want the reservation meanwhile go to another name.
CleanTake(p, o, n) ==
  /\ pc[p] = "recovering" /\ todo[p] = {}
  /\ <<o, n>> \in leftover /\ destLock[o][n] = None
  /\ destLock' = [destLock EXCEPT ![o][n] = p]
  /\ UNCHANGED <<files, sourceLock, opLock, pc, local, rest>>

Clean(p, o, n) ==
  /\ pc[p] = "recovering"
  /\ destLock[o][n] = p
  /\ destLock' = [destLock EXCEPT ![o][n] = None]
  /\ leftover' = leftover \ {<<o, n>>}
  /\ UNCHANGED <<files, sourceLock, opLock, pc, local, counters, consumed,
                 answer>>

EndPrepare(p) ==
  /\ Go(p, "recovering", "ready")
  /\ todo[p] = {}
  /\ \A d \in leftover : destLock[d[1]][d[2]] \notin {None, p}
  /\ UNCHANGED <<files, locks, local, rest>>

\* Any other operation, or one that finds no record and returns or raises.
EndOperation(p) ==
  /\ Go(p, "ready", "idle")
  /\ UNCHANGED <<files, locks, local, rest>>

\* ack and retention check the record, and then unlink its name.
FindConsumable(p) ==
  /\ Go(p, "ready", "consume")
  /\ Pending
  /\ UNCHANGED <<files, locks, local, rest>>

Consume(p) ==
  /\ Go(p, "consume", "idle")
  /\ source' = FALSE
  /\ consumed' = (consumed \/ source)
  /\ UNCHANGED <<dead, marker, locks, local, leftover, counters, answer>>
  /\ Sync({"root"})

FaultyAnswerFirst(p) ==
  /\ Go(p, "ready", "idle")
  /\ ~source
  /\ answer' = [answer EXCEPT ![p] = 0]
  /\ UNCHANGED <<files, locks, local, leftover, counters, consumed>>

\* reject of a record that is gone answers from the marker, or else with the
\* first name; it raises if another file has the marker's name.
AnswerMissing(p) ==
  /\ Go(p, "ready", "idle")
  /\ ~source
  /\ "rejected" \in Ops
  /\ IF marker["rejected"] = None
     THEN answer' = [answer EXCEPT ![p] = 0]
     ELSE /\ dead["rejected"][marker["rejected"].dest] # Foreign
          /\ answer' = [answer EXCEPT ![p] = marker["rejected"].dest]
  /\ UNCHANGED <<files, locks, local, leftover, counters, consumed>>

-----------------------------------------------------------------------------
\* _move_to_dead_letter.

Open(p, o) ==
  /\ Go(p, "ready", "lockSource")
  /\ Pending
  /\ op' = [op EXCEPT ![p] = o]
  /\ num' = [num EXCEPT ![p] = 0]
  /\ seen' = [seen EXCEPT ![p] = FALSE]
  /\ UNCHANGED <<files, locks, todo, rest>>

\* The flock on the opened record is taken, and waited for.
SourceUnlocked(p) == sourceLock = None

LockSource(p) ==
  /\ Go(p, "lockSource", "lockOp")
  /\ SourceUnlocked(p)
  /\ sourceLock' = p
  /\ UNCHANGED <<files, opLock, destLock, local, rest>>

LockOp(p) ==
  /\ Go(p, "lockOp", "readMarker")
  /\ opLock[op[p]] = None
  /\ opLock' = [opLock EXCEPT ![op[p]] = p]
  /\ UNCHANGED <<files, sourceLock, destLock, local, rest>>

OpBusy(p) ==
  /\ pc[p] = "lockOp"
  /\ opLock[op[p]] # None
  /\ Raise(p)

\* Without a marker a destination is chosen, with one the announced one is.
ReadMarker(p) ==
  /\ IF marker[op[p]] = None
     THEN Go(p, "readMarker", "reserve") /\ UNCHANGED <<num, seen>>
     ELSE /\ Go(p, "readMarker", "look")
          /\ num' = [num EXCEPT ![p] = marker[op[p]].dest]
          /\ seen' = [seen EXCEPT ![p] = marker[op[p]].committed]
  /\ UNCHANGED <<files, locks, op, todo, rest>>

\* The first name that is neither reserved nor taken is reserved.
Reserve(p) ==
  /\ Go(p, "reserve", "mark")
  /\ Reserved(p) = None /\ Destination(p) = None
  /\ TakeReservation(p)
  /\ UNCHANGED <<files, sourceLock, opLock, local, counters, consumed, answer>>

\* Names left to try: the bound of the loop over names.
MoreNumbers(p) == num[p] + 1 \in Numbers

ReserveNext(p) ==
  /\ pc[p] = "reserve"
  /\ ~(Reserved(p) = None /\ Destination(p) = None)
  /\ MoreNumbers(p)
  /\ num' = [num EXCEPT ![p] = @ + 1]
  /\ UNCHANGED <<files, locks, pc, op, seen, todo, rest>>

NoneLeft(p) ==
  /\ pc[p] = "reserve"
  /\ ~(Reserved(p) = None /\ Destination(p) = None)
  /\ ~MoreNumbers(p)
  /\ Raise(p)

\* _persist_operation_marker replaces the marker in one rename.
Saved(p, committed) ==
  marker' = [marker EXCEPT ![op[p]] = [dest |-> num[p], committed |-> committed]]

Mark(p) ==
  /\ Go(p, "mark", "look")
  /\ Saved(p, FALSE)
  /\ seen' = [seen EXCEPT ![p] = FALSE]
  /\ UNCHANGED <<source, dead, locks, op, num, todo, rest>>
  /\ Sync({"dead"})

\* A committed move is answered again without moving anything ...
LookCommitted(p) ==
  /\ pc[p] = "look"
  /\ Destination(p) = Rec /\ seen[p] /\ Links = 1
  /\ Return(p)
  /\ Leave(p)
  /\ UNCHANGED <<files, todo, leftover, counters, consumed>>

\* ... any other file under that name makes it choose another one ...
LookTaken(p) ==
  /\ Go(p, "look", "reserve")
  /\ Destination(p) # None
  /\ ~(Destination(p) = Rec /\ seen[p] /\ Links = 1)
  /\ Unreserve(p)
  /\ num' = [num EXCEPT ![p] = 0]
  /\ UNCHANGED <<files, sourceLock, opLock, op, seen, todo, rest>>

\* ... and a free name is reserved, unless it already is.
LookFree(p) ==
  /\ Go(p, "look", "verify")
  /\ Destination(p) = None
  /\ Reserved(p) \in {None, p}
  /\ TakeReservation(p)
  /\ UNCHANGED <<files, sourceLock, opLock, local, counters, consumed, answer>>

LookReserved(p) ==
  /\ pc[p] = "look"
  /\ Destination(p) = None
  /\ Reserved(p) \notin {None, p}
  /\ Raise(p)

FaultyUnchanged == source

\* The source name still is the opened record, and its only name.
Unchanged == source /\ Links = 1

Verify(p) ==
  /\ Go(p, "verify", "publish")
  /\ Unchanged
  /\ UNCHANGED <<files, locks, local, rest>>

VerifyFails(p) ==
  /\ pc[p] = "verify"
  /\ ~Unchanged
  /\ Raise(p)

FaultyVacant(p) == TRUE

\* RENAME_NOREPLACE and link(2) fail on an existing name.
Vacant(p) == Destination(p) = None

\* renameat2 moves the record; the fallback links it first ...
MoveBy(p, mode) ==
  /\ Go(p, "publish", IF mode = "rename" THEN "syncRoot" ELSE "unlink")
  /\ source /\ Vacant(p)
  /\ source' = (mode # "rename")
  /\ dead' = [dead EXCEPT ![op[p]][num[p]] = Rec]
  /\ UNCHANGED <<marker, locks, local, rest>>
  /\ Sync({})

Taken(p) ==
  /\ Go(p, "publish", "look")
  /\ source /\ ~Vacant(p)
  /\ Unreserve(p)
  /\ UNCHANGED <<files, sourceLock, opLock, local, rest>>

\* ack or retention was faster: rename, link or unlink finds no source.
SourceGone(p) ==
  /\ pc[p] \in {"publish", "unlink"}
  /\ ~source
  /\ Raise(p)

\* ... and then unlinks it.
UnlinkSource(p) ==
  /\ Go(p, "unlink", "syncRoot")
  /\ source
  /\ source' = FALSE
  /\ UNCHANGED <<dead, marker, locks, local, rest>>
  /\ Sync({})

FaultySyncRoot(p) ==
  Go(p, "syncRoot", "syncDead") /\ UNCHANGED <<files, locks, local, rest>>

\* The spool root is synced, and after it the dead-letter directory.
SyncRoot(p) ==
  /\ Go(p, "syncRoot", "syncDead")
  /\ UNCHANGED <<names, locks, local, rest>>
  /\ Sync({"root"})

FaultySyncDead(p) ==
  Go(p, "syncDead", "commit") /\ UNCHANGED <<files, locks, local, rest>>

SyncDead(p) ==
  /\ Go(p, "syncDead", "commit")
  /\ UNCHANGED <<names, locks, local, rest>>
  /\ Sync({"dead"})

\* The destination is validated and the marker committed: reject returns.
Commit(p) ==
  /\ pc[p] = "commit"
  /\ Destination(p) = Rec /\ Links = 1
  /\ Saved(p, TRUE)
  /\ Return(p)
  /\ Leave(p)
  /\ UNCHANGED <<source, dead, todo, leftover, counters, consumed>>
  /\ Sync({"dead"})

\* A system call of the move fails, or of the fsyncs and the validation.
Fails(p) ==
  /\ pc[p] \in {"mark", "publish", "commit"} \cup Exposed
  /\ faults < MaxFaults
  /\ faults' = faults + 1
  /\ contended' = (contended \/ Rivals(p))
  /\ cut' = (cut \/ pc[p] \in Exposed)
  /\ Leave(p)
  /\ UNCHANGED <<files, todo, leftover, foreign, exposed, consumed, answer>>

-----------------------------------------------------------------------------
\* Outside the program.

\* The processes D are gone and the system drops their locks.
Fall(D) ==
  /\ faults < MaxFaults /\ faults' = faults + 1
  /\ pc' = [p \in Procs |-> IF p \in D THEN "down" ELSE pc[p]]
  /\ contended' = (contended \/ \E p \in D : Rivals(p))
  /\ sourceLock' = IF sourceLock \in D THEN None ELSE sourceLock
  /\ opLock' = [o \in Ops |-> IF opLock[o] \in D THEN None ELSE opLock[o]]
  /\ destLock' = [o \in Ops |-> [n \in Numbers |->
                    IF destLock[o][n] \in D THEN None ELSE destLock[o][n]]]
  /\ todo' = [p \in Procs |-> IF p \in D THEN {} ELSE todo[p]]
  /\ Forget(D)
  /\ UNCHANGED <<foreign, consumed, answer>>

\* The reservation files of the processes D.
HeldBy(D) == {d \in Ops \X Numbers : destLock[d[1]][d[2]] \in D}

Crash(p) ==
  /\ pc[p] # "down"
  /\ Fall({p})
  /\ leftover' = leftover \cup HeldBy({p})
  /\ cut' = (cut \/ pc[p] \in Exposed)
  /\ UNCHANGED <<files, exposed>>

\* The machine loses its power.
PowerLoss ==
  /\ Fall(Procs)
  /\ exposed' = (exposed \/ cut \/ \E p \in Procs : pc[p] \in Exposed)
  /\ cut' = FALSE
  /\ source' \in disk.source
  /\ dead' \in {d \in [Ops -> [Numbers -> {None, Rec, Foreign}]] :
                \A o \in Ops, n \in Numbers : d[o][n] \in disk.dead[o][n]}
  /\ marker' \in {m \in [Ops -> Marker \cup {None}] :
                  \A o \in Ops : m[o] \in disk.marker[o]}
  /\ leftover' \in SUBSET (leftover \cup HeldBy(Procs))
  /\ Covers({"root", "dead"})

Restart(p) ==
  /\ Go(p, "down", "idle")
  /\ UNCHANGED <<files, locks, local, rest>>

PlaceForeign(o, n) ==
  /\ foreign < MaxForeign
  /\ dead[o][n] = None
  /\ dead' = [dead EXCEPT ![o][n] = Foreign]
  /\ foreign' = foreign + 1
  /\ UNCHANGED <<source, marker, locks, pc, local, leftover, faults,
                 contended, cut, exposed, consumed, answer>>
  /\ Sync({})

Prepare(p) ==
  \/ BeginPrepare(p) \/ EndPrepare(p)
  \/ \E o \in Ops : RecoverBusy(p, o) \/ RecoverLock(p, o) \/ Recover(p, o)
  \/ \E o \in Ops, n \in Numbers : CleanTake(p, o, n) \/ Clean(p, o, n)

Move(p) ==
  \/ LockSource(p) \/ LockOp(p) \/ OpBusy(p) \/ ReadMarker(p)
  \/ Reserve(p) \/ ReserveNext(p) \/ NoneLeft(p) \/ Mark(p)
  \/ LookCommitted(p) \/ LookTaken(p) \/ LookFree(p) \/ LookReserved(p)
  \/ Verify(p) \/ VerifyFails(p) \/ \E mode \in PublishModes : MoveBy(p, mode)
  \/ Taken(p) \/ SourceGone(p) \/ UnlinkSource(p) \/ SyncRoot(p) \/ SyncDead(p)
  \/ Commit(p)

Running(p) == Prepare(p) \/ Move(p) \/ Consume(p) \/ Restart(p)

Next ==
  \/ PowerLoss
  \/ \E p \in Procs :
       \/ Running(p) \/ EndOperation(p) \/ FindConsumable(p) \/ AnswerMissing(p)
       \/ Fails(p) \/ Crash(p)
       \/ \E o \in Ops : Open(p, o)
  \/ \E o \in Ops, n \in Numbers : PlaceForeign(o, n)

Spec == Init /\ [][Next]_vars

\* A process that runs goes on, one that crashed is restarted, and each keeps
\* calling operations; which ones is open.
FairSpec ==
  Spec /\ \A p \in Procs : WF_vars(Running(p)) /\ WF_vars(EndOperation(p))

-----------------------------------------------------------------------------
\* Properties.

(* The record is never lost on its way: until it is acknowledged or evicted  *)
(* it has its name in the root or one in the dead-letter directory, whoever  *)
(* crashes, fails or recovers between two calls.  Where the directories can  *)
(* be synced, a loss of power may take it only between the move and the sync *)
(* of the second directory, or when a process had ended there                *)
(* (spool.py:475-491).                                                       *)
NeverLost == source \/ consumed \/ Copies # {} \/ exposed

(* However many processes reject or quarantine the record, and however often *)
(* they retry, the dead-letter directory names it once.                      *)
OneCopy == Cardinality(Copies) <= 1

(* A marker that says committed tells the truth, after a loss of power too   *)
(* where the directories can be synced: its destination is the record and    *)
(* the source is gone, so a retry may answer from it.                        *)
CommittedIsMoved ==
  \A o \in Ops : marker[o] # None =>
    (marker[o].committed => dead[o][marker[o].dest] = Rec /\ ~source)

(* No move replaces or removes a file that has a dead-letter name: not       *)
(* another record's, and not the record's own earlier destination.  Only a   *)
(* loss of power, which ends all processes, may take one back.               *)
DestinationsStay ==
  [][\A o \in Ops, n \in Numbers :
       dead[o][n] # None /\ dead'[o][n] # dead[o][n] =>
         \A p \in Procs : pc'[p] = "down"]_vars

(* A move that stopped between link and unlink, or half way on the disk, is  *)
(* finished by the operations that follow, so that the record does not stay  *)
(* half pending for ever (tests/test_spool.py:1272-1303), unless the crash   *)
(* or error met another process that had already opened the record           *)
(* (spool.py:371-373, 1171): then it may stay.                               *)
HalfMovesEndAlone ==
  (source /\ Copies # {} /\ ~contended) ~> (~source \/ contended)

(* reject is "idempotent" (spool.py:147): if the record was rejected, every  *)
(* reject that returned has answered with the name it has, unless a crash or *)
(* error met another move of the record, the power failed before a move was  *)
(* synced and took it back, or ack or retention unlinked the source between  *)
(* the link and the unlink of a move, whose marker is then never committed   *)
(* and may be replaced by the next move (spool.py:1170-1177, 423-455).  It   *)
(* too needs directories that can be synced.                                 *)
RejectAnswersAgree ==
  \A p \in Procs, n \in Numbers :
    dead["rejected"][n] = Rec /\ ~contended /\ ~exposed /\ ~consumed =>
      answer[p] \in {None, n}
=============================================================================
