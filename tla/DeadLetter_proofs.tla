------------------------- MODULE DeadLetter_proofs --------------------------
(* Theorems about DeadLetter: for every number of processes, names, crashes *)
(* and losses of power, the record is not lost on its way, has one          *)
(* destination, no destination is replaced, a committed marker is true, and *)
(* all who reject it get one answer.  All but the third assume that the     *)
(* directories can be synced (SyncWorks).                                   *)
EXTENDS DeadLetter, FiniteSetTheorems, TLAPS

Typed ==
  /\ source \in BOOLEAN /\ consumed \in BOOLEAN
  /\ dead \in [Ops -> [Numbers -> {None, Rec, Foreign}]]
  /\ marker \in [Ops -> Marker \cup {None}]
  /\ pc \in [Procs -> PCs]
  /\ op \in [Procs -> Ops]
  /\ num \in [Procs -> Numbers]

\* What is seen is among what a loss of power may leave, and it cannot leave
\* a copy that is not seen.
OnDisk ==
  /\ source \in disk.source /\ disk.source \subseteq BOOLEAN
  /\ \A o \in Ops : /\ marker[o] \in disk.marker[o]
                    /\ disk.marker[o] \subseteq Marker \cup {None}
  /\ \A o \in Ops, n \in Numbers :
       /\ dead[o][n] \in disk.dead[o][n]
       /\ Rec \in disk.dead[o][n] => dead[o][n] = Rec

\* A name of the record that no loss of power takes.
Durable ==
  \/ disk.source = {TRUE}
  \/ \E o \in Ops, n \in Numbers : disk.dead[o][n] = {Rec}

Uncovered == cut \/ \E p \in Procs : pc[p] \in Exposed

\* The move to this destination is synced in both directories.
Settled(o, n) == disk.source = {FALSE} /\ disk.dead[o][n] = {Rec}

\* No committed marker, seen or on the disk, is ahead of its move.
Truthful ==
  \A o \in Ops : \A m \in disk.marker[o] :
    m # None => (m.committed => Settled(o, m.dest))

Single == \A c, d \in Copies : c = d

(* One process moves the record at a time; one that has moved it is at its  *)
(* destination, and only a consumer takes the source from it.               *)
Mover(p) ==
  /\ pc[p] \in Moving \ {"lockSource"} => sourceLock = p
  /\ pc[p] = "publish" => Copies = {}
  /\ pc[p] \in Exposed => dead[op[p]][num[p]] = Rec
  /\ pc[p] = "unlink" => source \/ consumed
  /\ pc[p] = "syncRoot" => ~source
  /\ pc[p] = "syncDead" => disk.source = {FALSE}
  /\ pc[p] = "commit" => Settled(op[p], num[p])

IInv ==
  /\ SyncWorks
  /\ Typed /\ OnDisk /\ Truthful /\ Single /\ NeverLost
  /\ consumed \/ exposed \/ Uncovered \/ Durable
  /\ \A p \in Procs : Mover(p)

\* The disk after a step that syncs the directories D.
LEMMA SyncDisk ==
  ASSUME NEW D, Covers(D)
  PROVE  /\ disk'.source = IF "root" \in D THEN {source'}
                           ELSE disk.source \cup {source'}
         /\ \A o \in Ops :
              disk'.marker[o] = IF "dead" \in D THEN {marker'[o]}
                                ELSE disk.marker[o] \cup {marker'[o]}
         /\ \A o \in Ops, n \in Numbers :
              disk'.dead[o][n] = IF "dead" \in D THEN {dead'[o][n]}
                                 ELSE disk.dead[o][n] \cup {dead'[o][n]}
BY DEF Covers

LEMMA SyncCovers ==
  ASSUME IInv, NEW D, Sync(D) PROVE Covers(D)
BY DEF IInv, Sync

LEMMA IInvInit ==
  ASSUME SyncWorks PROVE Init => IInv
<1> SUFFICES ASSUME Init PROVE IInv
  OBVIOUS
<1>0. (CHOOSE o \in Ops : TRUE) \in Ops
  BY OpsAssumption
<1>1. Typed
  BY <1>0, NumbersAssumption DEF Init, Typed, PCs
<1>2. OnDisk /\ Durable /\ NeverLost
  BY FilesAssumption DEF Init, OnDisk, Durable, NeverLost
<1>3. Truthful /\ Single
  BY FilesAssumption DEF Init, Truthful, Single, Copies
<1>4. \A p \in Procs : Mover(p)
  BY DEF Init, Mover, Moving, Exposed
<1> QED  BY <1>1, <1>2, <1>3, <1>4 DEF IInv

-----------------------------------------------------------------------------
\* Steps that move and remove nothing.

\* p goes on, and the others keep their place and their lock on the source.
Alone(p) ==
  /\ pc' \in [Procs -> PCs] /\ op' \in [Procs -> Ops]
  /\ num' \in [Procs -> Numbers]
  /\ \A q \in Procs \ {p} : /\ UNCHANGED <<pc[q], op[q], num[q]>>
                            /\ sourceLock = q => sourceLock' = q

\* No marker is saved that says more than is on the disk.
Honest ==
  /\ marker' \in [Ops -> Marker \cup {None}]
  /\ \A o \in Ops : \/ marker'[o] = marker[o]
                    \/ marker'[o].committed => Settled(o, marker'[o].dest)

Quiet ==
  /\ UNCHANGED <<source, dead>>
  /\ Honest
  /\ (disk' = disk /\ marker' = marker) \/ \E D : Covers(D)

\* What is certain on the disk stays so.
Certain ==
  /\ \A b : disk.source = {b} => disk'.source = {b}
  /\ \A o \in Ops, n \in Numbers, f \in {None, Rec, Foreign} :
       disk.dead[o][n] = {f} => disk'.dead[o][n] = {f}

LEMMA QuietDisk ==
  ASSUME Typed, OnDisk, Truthful, Quiet
  PROVE  OnDisk' /\ Certain /\ Truthful'
<1>1. CASE disk' = disk /\ marker' = marker
  BY <1>1 DEF Quiet, OnDisk, Certain, Truthful, Settled
<1>2. ASSUME NEW D, Covers(D) PROVE OnDisk' /\ Certain /\ Truthful'
  <2>0. source' = source /\ dead' = dead
    BY DEF Quiet
  <2>1. disk'.source \in {{source}, disk.source \cup {source}}
    BY <1>2, <2>0, SyncDisk, Zenon
  <2>2. \A o \in Ops, n \in Numbers :
          disk'.dead[o][n] \in {{dead[o][n]}, disk.dead[o][n] \cup {dead[o][n]}}
    <3> TAKE o \in Ops, n \in Numbers
    <3>1. disk'.dead[o][n] = IF "dead" \in D THEN {dead'[o][n]}
                             ELSE disk.dead[o][n] \cup {dead'[o][n]}
      BY <1>2, SyncDisk
    <3> QED  BY <3>1, <2>0
  <2>3. \A o \in Ops : disk'.marker[o] \in
                         {{marker'[o]}, disk.marker[o] \cup {marker'[o]}}
    BY <1>2, SyncDisk, Zenon
  <2>4. OnDisk'
    BY <2>0, <2>1, <2>2, <2>3 DEF OnDisk, Quiet, Honest
  <2>5. Certain
    BY <2>1, <2>2 DEF OnDisk, Certain
  <2>6. Truthful'
    <3> SUFFICES ASSUME NEW o \in Ops, NEW m \in disk'.marker[o],
                        m # None, m.committed
                 PROVE  Settled(o, m.dest)'
      BY DEF Truthful
    <3>1. m \in Marker
      BY <2>4 DEF OnDisk
    <3>2. Settled(o, m.dest)
      BY <2>3 DEF OnDisk, Truthful, Quiet, Honest
    <3> QED  BY <3>1, <3>2, <2>5 DEF Settled, Certain, Marker
  <2> QED  BY <2>4, <2>5, <2>6
<1> QED  BY <1>1, <1>2 DEF Quiet

LEMMA QuietStep ==
  ASSUME IInv, NEW p \in Procs, Quiet, Alone(p), Mover(p)',
         UNCHANGED <<consumed, exposed>>, cut => cut',
         pc[p] \in Exposed => pc'[p] \in Exposed \/ cut' \/ consumed \/ Durable'
  PROVE  IInv'
<1>1. /\ Typed /\ OnDisk /\ Truthful /\ Single /\ NeverLost
      /\ \A q \in Procs : Mover(q)
  BY DEF IInv
<1>2. OnDisk' /\ Certain /\ Truthful'
  BY <1>1, QuietDisk
<1>3. Durable => Durable'
  BY <1>2 DEF Certain, Durable
<1>4. Copies' = Copies
  BY DEF Quiet, Copies
<1>5. Typed' /\ Single' /\ NeverLost'
  BY <1>1, <1>4 DEF Quiet, Honest, Alone, Typed, Single, NeverLost
<1>6. consumed \/ exposed \/ Uncovered' \/ Durable'
  <2>1. CASE consumed \/ exposed \/ cut \/ Durable
    BY <2>1, <1>3 DEF Uncovered
  <2>2. ASSUME NEW q \in Procs, pc[q] \in Exposed 
        PROVE  consumed \/ exposed \/ Uncovered' \/ Durable'
    <3>1. CASE q = p
      <4>1. pc'[p] \in Exposed \/ cut' \/ consumed \/ Durable'
        BY <2>2, <3>1
      <4>2. pc'[p] \in Exposed => Uncovered'
        BY DEF Uncovered
      <4> QED  BY <4>1, <4>2 DEF Uncovered
    <3>2. CASE q # p
      BY <2>2, <3>2 DEF Uncovered, Alone
    <3> QED  BY <3>1, <3>2
  <2> QED  BY <2>1, <2>2 DEF IInv, Uncovered
<1>7. ASSUME NEW q \in Procs, q # p PROVE Mover(q)'
  <2>1. /\ UNCHANGED <<pc[q], op[q], num[q], source, dead, consumed>>
        /\ sourceLock = q => sourceLock' = q
        /\ op[q] \in Ops /\ num[q] \in Numbers /\ Mover(q)
    BY <1>1, <1>7 DEF Alone, Quiet, Typed
  <2>2. Settled(op[q], num[q]) => Settled(op[q], num[q])'
    <3>1. \A o \in Ops, n \in Numbers :
            disk.dead[o][n] = {Rec} => disk'.dead[o][n] = {Rec}
      BY <1>2 DEF Certain
    <3>2. /\ op[q] \in Ops /\ num[q] \in Numbers
          /\ op'[q] = op[q] /\ num'[q] = num[q]
      BY <2>1
    <3>3. disk.source = {FALSE} => disk'.source = {FALSE}
      BY <1>2 DEF Certain
    <3>4. disk.dead[op[q]][num[q]] = {Rec} => disk'.dead[op[q]][num[q]] = {Rec}
      BY <3>1, <3>2
    <3> QED  BY <3>2, <3>3, <3>4 DEF Settled
  <2>3. disk.source = {FALSE} => disk'.source = {FALSE}
    BY <1>2 DEF Certain
  <2>4. pc'[q] = pc[q] /\ op'[q] = op[q] /\ num'[q] = num[q]
        /\ source' = source /\ dead' = dead /\ consumed' = consumed
    BY <2>1
  <2>5. /\ pc'[q] \in Moving \ {"lockSource"} => sourceLock' = q
        /\ pc'[q] = "publish" => Copies' = {}
        /\ pc'[q] \in Exposed => dead'[op'[q]][num'[q]] = Rec
        /\ pc'[q] = "unlink" => source' \/ consumed'
        /\ pc'[q] = "syncRoot" => ~source'
    BY <2>1, <2>4, <1>4 DEF Mover
  <2>6. /\ pc'[q] = "syncDead" => disk'.source = {FALSE}
        /\ pc'[q] = "commit" => Settled(op[q], num[q])'
    BY <2>1, <2>2, <2>3, <2>4 DEF Mover
  <2> QED  BY <2>5, <2>6 DEF Mover
<1> QED  BY <1>2, <1>5, <1>6, <1>7 DEF IInv

\* A step that ends outside a move.
LEMMA RestingStep ==
  ASSUME IInv, NEW p \in Procs, Quiet, Alone(p), pc'[p] \notin Moving,
         UNCHANGED <<consumed, exposed>>, cut => cut',
         pc[p] \in Exposed => cut' \/ consumed \/ Durable'
  PROVE  IInv'
<1>1. Mover(p)'
  BY DEF Mover, Moving, Exposed, PCs
<1> QED  BY <1>1, QuietStep

\* A step of a move before the record has moved.
LEMMA MovingStep ==
  ASSUME IInv, NEW p \in Procs, Quiet, Alone(p),
         pc[p] \notin Exposed, pc'[p] \notin Exposed \cup {"commit"},
         pc'[p] = "publish" => Copies = {},
         pc'[p] = "lockSource" \/ sourceLock' = p,
         UNCHANGED <<consumed, exposed, cut>>
  PROVE  IInv'
<1>1. Copies' = Copies
  BY DEF Quiet, Copies
<1>2. Mover(p)'
  BY <1>1 DEF Mover, Exposed
<1> QED  BY <1>2, QuietStep

\* A process leaves its operation.
LEMMA Leaving ==
  ASSUME Typed, NEW p \in Procs, Leave(p)
  PROVE  Alone(p) /\ pc'[p] = "idle"
<1>1. (CHOOSE o \in Ops : TRUE) \in Ops
  BY OpsAssumption
<1> QED  BY <1>1, NumbersAssumption DEF Typed, Leave, Forget, Alone, PCs

LEMMA Going ==
  ASSUME Typed, NEW p \in Procs, NEW from, NEW to \in PCs, Go(p, from, to),
         op' \in [Procs -> Ops], num' \in [Procs -> Numbers],
         \A q \in Procs \ {p} : /\ UNCHANGED <<op[q], num[q]>>
                                /\ sourceLock = q => sourceLock' = q
  PROVE  Alone(p) /\ pc[p] = from /\ pc'[p] = to
BY DEF Typed, Alone, Go

\* A single copy is a whole link of its own.
LEMMA CountLinks ==
  ASSUME Single
  PROVE  /\ Copies = {} <=> Cardinality(Copies) = 0
         /\ Cardinality(Copies) \in {0, 1}
<1>1. CASE Copies = {}
  BY <1>1, FS_EmptySet
<1>2. CASE Copies # {}
  <2>1. PICK c \in Copies : Copies = {c}
    BY <1>2 DEF Single
  <2>2. Cardinality({c}) = 1
    BY FS_Singleton
  <2> QED  BY <2>1, <2>2
<1> QED  BY <1>1, <1>2

-----------------------------------------------------------------------------
\* The steps outside a move.

LEMMA Preparing ==
  ASSUME IInv, NEW p \in Procs,
         \/ BeginPrepare(p) \/ EndPrepare(p)
         \/ \E o \in Ops : RecoverBusy(p, o) \/ RecoverLock(p, o)
         \/ \E o \in Ops, n \in Numbers : CleanTake(p, o, n) \/ Clean(p, o, n)
         \/ EndOperation(p) \/ FindConsumable(p) \/ AnswerMissing(p)
         \/ Restart(p)
  PROVE  IInv'
<1>0. Typed
  BY DEF IInv
<1>1. Quiet /\ UNCHANGED <<consumed, exposed, cut>>
  BY <1>0 DEF BeginPrepare, EndPrepare, RecoverBusy, RecoverLock, CleanTake,
       Clean, EndOperation, FindConsumable, AnswerMissing, Restart,
       Quiet, Honest, Typed, files, names, rest, counters
<1>2. Alone(p) /\ pc[p] \notin Exposed /\ pc'[p] \notin Moving
  <2>1. ASSUME \/ \E o \in Ops : RecoverBusy(p, o) \/ RecoverLock(p, o)
               \/ \E o \in Ops, n \in Numbers :
                    CleanTake(p, o, n) \/ Clean(p, o, n)
        PROVE  Alone(p) /\ pc[p] \notin Exposed /\ pc'[p] \notin Moving
    BY <2>1, <1>0 DEF RecoverBusy, RecoverLock, CleanTake, Clean, local, locks,
         Alone, Typed, Exposed, Moving
  <2>2. ASSUME NEW from, NEW to \in {"idle", "recovering", "ready", "consume"},
               Go(p, from, to), from \notin Exposed,
               UNCHANGED <<op, num, sourceLock>>
        PROVE  Alone(p) /\ pc[p] \notin Exposed /\ pc'[p] \notin Moving
    <3>1. /\ to \in PCs /\ to \notin Moving
          /\ op' \in [Procs -> Ops] /\ num' \in [Procs -> Numbers]
      BY <2>2, <1>0 DEF Typed, Moving, PCs
    <3>2. \A q \in Procs \ {p} : /\ UNCHANGED <<op[q], num[q]>>
                                  /\ sourceLock = q => sourceLock' = q
      BY <2>2
    <3>3. Alone(p) /\ pc[p] = from /\ pc'[p] = to
      BY <2>2, <1>0, <3>1, <3>2, Going
    <3> QED  BY <2>2, <3>1, <3>3
  <2>3. CASE BeginPrepare(p)
    BY <2>3, <2>2 DEF BeginPrepare, locks, Exposed
  <2>4. CASE EndPrepare(p) \/ EndOperation(p) \/ FindConsumable(p)
             \/ AnswerMissing(p) \/ Restart(p)
    BY <2>4, <2>2 DEF EndPrepare, EndOperation, FindConsumable, AnswerMissing,
         Restart, locks, local, Exposed
  <2> QED  BY <2>1, <2>3, <2>4
<1> QED  BY <1>1, <1>2, RestingStep

-----------------------------------------------------------------------------
\* The steps of a move that leave the names of files alone.

\* A step that raises, or answers without a move.
LEMMA Raising ==
  ASSUME IInv, NEW p \in Procs,
         \/ OpBusy(p) \/ NoneLeft(p) \/ LookReserved(p) \/ LookCommitted(p)
         \/ VerifyFails(p) \/ SourceGone(p) \/ Fails(p)
  PROVE  IInv'
<1>1. Typed /\ Leave(p) /\ Mover(p)
  BY DEF IInv, OpBusy, NoneLeft, LookReserved, LookCommitted, VerifyFails,
     SourceGone, Fails, Raise
<1>2. UNCHANGED <<files, consumed, exposed>> /\ (cut => cut')
  <2>1. CASE Fails(p)
    BY <2>1, Zenon DEF Fails
  <2>2. CASE LookCommitted(p)
    BY <2>2 DEF LookCommitted, counters
  <2>3. CASE Raise(p)
    BY <2>3 DEF Raise, rest, counters
  <2> QED  BY <2>1, <2>2, <2>3 DEF OpBusy, NoneLeft, LookReserved, VerifyFails,
             SourceGone
<1>4. Quiet
  BY <1>1, <1>2 DEF Quiet, Honest, Typed, files, names
<1>3. pc[p] \in Exposed => cut' \/ consumed
  BY <1>1 DEF OpBusy, NoneLeft, LookReserved, LookCommitted, VerifyFails,
     SourceGone, Fails, Exposed, Mover
<1> QED  BY <1>1, <1>2, <1>3, <1>4, Leaving, RestingStep DEF Moving

LEMMA Beginning ==
  ASSUME IInv, NEW p \in Procs,
         \/ \E o \in Ops : Open(p, o)
         \/ LockSource(p) \/ LockOp(p) \/ ReadMarker(p)
  PROVE  IInv'
<1>1. Typed /\ Mover(p)
  BY DEF IInv
<1>2. Quiet /\ UNCHANGED <<consumed, exposed, cut>>
  BY <1>1 DEF Open, LockSource, LockOp, ReadMarker, Quiet, Honest, Typed,
     files, names, rest, counters
<1>3. ASSUME NEW o \in Ops, Open(p, o) PROVE IInv'
  <2>1. Alone(p) /\ pc[p] = "ready" /\ pc'[p] = "lockSource"
    BY <1>1, <1>3, Going, NumbersAssumption DEF Open, Typed, PCs, locks
  <2> QED  BY <1>2, <2>1, MovingStep DEF Exposed
<1>4. CASE LockSource(p)
  <2>1. Alone(p) /\ pc[p] = "lockSource" /\ pc'[p] = "lockOp" /\ sourceLock' = p
    BY <1>1, <1>4, Going, FilesAssumption
       DEF LockSource, SourceUnlocked, Typed, PCs, local
  <2> QED  BY <1>2, <2>1, MovingStep DEF Exposed
<1>5. CASE LockOp(p)
  <2>1. Alone(p) /\ pc[p] = "lockOp" /\ pc'[p] = "readMarker"
    BY <1>1, <1>5, Going DEF LockOp, Typed, PCs, local
  <2>2. sourceLock' = p
    BY <1>1, <1>5, <2>1 DEF LockOp, Mover, Moving, PCs
  <2> QED  BY <1>2, <2>1, <2>2, MovingStep DEF Exposed
<1>6. CASE ReadMarker(p)
  <2>1. /\ num' \in [Procs -> Numbers] /\ op' = op /\ sourceLock' = sourceLock
        /\ \A q \in Procs \ {p} : num'[q] = num[q]
        /\ Go(p, "readMarker", "reserve") \/ Go(p, "readMarker", "look")
    BY <1>1, <1>6 DEF ReadMarker, Typed, Marker, locks
  <2>2. /\ Alone(p) /\ pc[p] = "readMarker" /\ pc'[p] \in {"reserve", "look"}
    <3>1. CASE Go(p, "readMarker", "reserve")
      BY <1>1, <2>1, <3>1, Going DEF Typed, PCs
    <3>2. CASE Go(p, "readMarker", "look")
      BY <1>1, <2>1, <3>2, Going DEF Typed, PCs
    <3> QED  BY <2>1, <3>1, <3>2
  <2>3. sourceLock' = p
    BY <1>1, <2>1, <2>2 DEF Mover, Moving, PCs
  <2> QED  BY <1>2, <2>2, <2>3, MovingStep DEF Exposed
<1> QED  BY <1>3, <1>4, <1>5, <1>6

LEMMA Choosing ==
  ASSUME IInv, NEW p \in Procs,
         \/ Reserve(p) \/ ReserveNext(p) \/ LookTaken(p) \/ LookFree(p)
         \/ Verify(p) \/ Taken(p)
  PROVE  IInv'
<1>1. Typed /\ Mover(p) /\ Single
  BY DEF IInv
<1>2. Quiet /\ UNCHANGED <<consumed, exposed, cut>>
  BY <1>1 DEF Reserve, ReserveNext, LookTaken, LookFree, Verify, Taken, Quiet,
     Honest, Typed, files, names, rest, counters
<1>3. /\ num' \in [Procs -> Numbers] /\ op' = op /\ sourceLock' = sourceLock
      /\ \A q \in Procs \ {p} : num'[q] = num[q]
  BY <1>1, NumbersAssumption DEF Reserve, ReserveNext, LookTaken, LookFree,
     Verify, Taken, Typed, local, locks, MoreNumbers
<1>4. ASSUME NEW from \in {"reserve", "look", "verify", "publish"},
             NEW to \in {"reserve", "mark", "look", "verify", "publish"},
             Go(p, from, to), to = "publish" => Copies = {}
      PROVE  IInv'
  <2>0. /\ to \in PCs /\ op' \in [Procs -> Ops]
        /\ \A q \in Procs \ {p} : /\ UNCHANGED <<op[q], num[q]>>
                                  /\ sourceLock = q => sourceLock' = q
    BY <1>1, <1>3 DEF Typed, PCs
  <2>1. Alone(p) /\ pc[p] = from /\ pc'[p] = to
    BY <1>1, <1>3, <1>4, <2>0, Going
  <2>2. sourceLock' = p
    BY <1>1, <1>3, <2>1 DEF Mover, Moving, PCs
  <2> QED  BY <1>2, <1>4, <2>1, <2>2, MovingStep DEF Exposed
<1>5. CASE Reserve(p)
  BY <1>4, <1>5 DEF Reserve
<1>6. CASE ReserveNext(p)
  <2>1. Go(p, "reserve", "reserve")
    BY <1>1, <1>6 DEF ReserveNext, Go, Typed
  <2> QED  BY <1>4, <2>1
<1>7. CASE LookTaken(p) \/ LookFree(p) \/ Taken(p)
  BY <1>4, <1>7 DEF LookTaken, LookFree, Taken
<1>8. CASE Verify(p)
  <2>1. Go(p, "verify", "publish") /\ Copies = {}
    BY <1>1, <1>8, CountLinks DEF Verify, Unchanged, Links
  <2> QED  BY <1>4, <2>1
<1> QED  BY <1>5, <1>6, <1>7, <1>8

LEMMA Marking ==
  ASSUME IInv, NEW p \in Procs, Mark(p)
  PROVE  IInv'
<1>1. Typed /\ Mover(p)
  BY DEF IInv
<1>2. Honest
  <2>1. marker' = [marker EXCEPT ![op[p]] =
                     [dest |-> num[p], committed |-> FALSE]]
    BY DEF Mark, Saved
  <2> QED  BY <1>1, <2>1 DEF Typed, Honest, Marker
<1>3. Quiet /\ UNCHANGED <<consumed, exposed, cut>>
  BY <1>2, SyncCovers DEF Mark, Quiet, rest, counters
<1>4. Alone(p) /\ pc[p] = "mark" /\ pc'[p] = "look"
  BY <1>1, Going DEF Mark, Typed, PCs, locks
<1>5. sourceLock' = p
  BY <1>1, <1>4 DEF Mark, locks, Mover, Moving, PCs
<1> QED  BY <1>3, <1>4, <1>5, MovingStep DEF Exposed

LEMMA Committing ==
  ASSUME IInv, NEW p \in Procs, Commit(p)
  PROVE  IInv'
<1>1. Typed /\ Mover(p) /\ Leave(p) /\ pc[p] = "commit"
  BY DEF IInv, Commit
<1>2. Honest
  <2>1. marker' = [marker EXCEPT ![op[p]] = [dest |-> num[p], committed |-> TRUE]]
    BY DEF Commit, Saved
  <2> QED  BY <1>1, <2>1 DEF Typed, Honest, Marker, Mover
<1>3. Quiet /\ UNCHANGED <<consumed, exposed, cut>>
  BY <1>2, SyncCovers DEF Commit, Quiet, counters
<1> QED  BY <1>1, <1>3, Leaving, RestingStep DEF Moving, Exposed

LEMMA Syncing ==
  ASSUME IInv, NEW p \in Procs, SyncRoot(p) \/ SyncDead(p)
  PROVE  IInv'
<1>1. Typed /\ OnDisk /\ Truthful /\ Mover(p)
  BY DEF IInv
<1>2. Quiet /\ UNCHANGED <<consumed, exposed, cut, sourceLock>>
  BY <1>1, SyncCovers DEF SyncRoot, SyncDead, Quiet, Honest, Typed, names, locks,
     rest, counters
<1>3. OnDisk' /\ Certain
  BY <1>1, <1>2, QuietDisk
<1>4. CASE SyncRoot(p)
  <2>1. Alone(p) /\ pc[p] = "syncRoot" /\ pc'[p] = "syncDead"
    BY <1>1, <1>4, Going DEF SyncRoot, Typed, PCs, locks, local
  <2>2. disk'.source = {source'}
    BY <1>4, SyncDisk, SyncCovers DEF SyncRoot
  <2>3. disk'.source = {FALSE}
    BY <1>1, <1>2, <2>1, <2>2 DEF Mover, Quiet, Typed
  <2>4. op'[p] = op[p] /\ num'[p] = num[p] /\ dead' = dead
    BY <1>4 DEF SyncRoot, local, names
  <2>5. Mover(p)'
    BY <1>1, <1>2, <2>1, <2>3, <2>4 DEF Mover, Moving, Exposed, PCs
  <2> QED  BY <1>2, <2>1, <2>5, QuietStep DEF Exposed
<1>5. CASE SyncDead(p)
  <2>1. Alone(p) /\ pc[p] = "syncDead" /\ pc'[p] = "commit"
    BY <1>1, <1>5, Going DEF SyncDead, Typed, PCs, locks, local
  <2>2. op'[p] = op[p] /\ num'[p] = num[p] /\ dead' = dead
    BY <1>5 DEF SyncDead, local, names
  <2>3. op[p] \in Ops /\ num[p] \in Numbers
    BY <1>1 DEF Typed
  <2>4. disk'.dead[op[p]][num[p]] = {dead'[op[p]][num[p]]}
    <3>1. Covers({"dead"})
      BY <1>5, SyncCovers DEF SyncDead
    <3>2. \A o \in Ops, n \in Numbers : disk'.dead[o][n] = {dead'[o][n]}
      BY <3>1 DEF Covers
    <3> QED  BY <2>3, <3>2, Zenon
  <2>5. disk'.dead[op[p]][num[p]] = {Rec}
    BY <1>1, <2>1, <2>2, <2>4 DEF Mover, Exposed
  <2>6. disk'.source = {FALSE}
    BY <1>1, <1>3, <2>1 DEF Mover, Certain
  <2>7. Settled(op[p], num[p])'
    BY <2>2, <2>5, <2>6 DEF Settled
  <2>8. Mover(p)'
    BY <1>1, <1>2, <2>1, <2>2, <2>7 DEF Mover, Moving, Exposed, PCs
  <2>9. Durable'
    BY <2>3, <2>5 DEF Durable
  <2> QED  BY <1>2, <2>1, <2>8, <2>9, QuietStep DEF Exposed
<1> QED  BY <1>4, <1>5

-----------------------------------------------------------------------------
\* The steps that move or remove a name.

\* While the source is there, no move is settled and no marker committed.
LEMMA Unsettled ==
  ASSUME IInv, source
  PROVE  /\ \A o \in Ops, n \in Numbers : ~Settled(o, n)
         /\ \A o \in Ops : \A m \in disk.marker[o] : m # None => ~m.committed
<1>1. disk.source # {FALSE}
  BY DEF IInv, OnDisk
<1> QED  BY <1>1 DEF IInv, Truthful, Settled

\* Nobody else is past the lock on the source.
LEMMA OthersWait ==
  ASSUME IInv, NEW q \in Procs, sourceLock # q, UNCHANGED pc[q]
  PROVE  Mover(q)'
<1>1. pc[q] \notin Moving \ {"lockSource"}
  BY DEF IInv, Mover
<1>2. pc'[q] \notin Moving \ {"lockSource"} /\ pc[q] \in PCs
  BY <1>1 DEF IInv, Typed
<1> QED  BY <1>2 DEF Mover, Moving, Exposed, PCs

\* A sync of nothing leaves what was there as well.
LEMMA SyncNothing ==
  ASSUME Covers({})
  PROVE  /\ disk'.source = disk.source \cup {source'}
         /\ \A o \in Ops : disk'.marker[o] = disk.marker[o] \cup {marker'[o]}
         /\ \A o \in Ops, n \in Numbers :
              disk'.dead[o][n] = disk.dead[o][n] \cup {dead'[o][n]}
BY DEF Covers

LEMMA MovingTheRecord ==
  ASSUME IInv, NEW p \in Procs, NEW mode, MoveBy(p, mode)
  PROVE  IInv'
<1> DEFINE d == <<op[p], num[p]>>
<1>1. Typed /\ OnDisk /\ Mover(p)
  BY DEF IInv
<1>2. /\ pc[p] = "publish" /\ sourceLock = p /\ Copies = {} /\ source
      /\ op[p] \in Ops /\ num[p] \in Numbers /\ dead[op[p]][num[p]] = None
  BY <1>1 DEF MoveBy, Go, Mover, Moving, PCs, Typed, Vacant, Destination
<1>3. /\ UNCHANGED <<marker, sourceLock, op, num, consumed, exposed, cut>>
      /\ source' = (mode # "rename")
      /\ dead' = [dead EXCEPT ![op[p]][num[p]] = Rec]
      /\ pc' = [pc EXCEPT ![p] = IF mode = "rename" THEN "syncRoot" ELSE "unlink"]
      /\ Covers({})
  BY SyncCovers DEF MoveBy, Go, locks, local, rest, counters
<1>4. Typed' /\ pc'[p] \in Exposed
  BY <1>1, <1>3 DEF Typed, PCs, Exposed
<1>5. Copies' = {d}
  BY <1>1, <1>2, <1>3 DEF Copies, Typed
<1>6. OnDisk'
  <2>1. source' \in disk'.source /\ disk'.source \subseteq BOOLEAN
    <3>1. source' \in BOOLEAN
      BY <1>4 DEF Typed
    <3> QED  BY <1>1, <1>3, <3>1, SyncNothing, Zenon DEF OnDisk
  <2>2. \A k \in Ops : /\ marker'[k] \in disk'.marker[k]
                       /\ disk'.marker[k] \subseteq Marker \cup {None}
    BY <1>1, <1>3, SyncNothing DEF OnDisk
  <2>3. \A k \in Ops, m \in Numbers :
          /\ dead'[k][m] \in disk'.dead[k][m]
          /\ Rec \in disk'.dead[k][m] => dead'[k][m] = Rec
    BY <1>1, <1>2, <1>3, SyncNothing DEF OnDisk, Typed
  <2> QED  BY <2>1, <2>2, <2>3 DEF OnDisk
<1>7. Truthful'
  <2>1. \A o \in Ops : disk'.marker[o] = disk.marker[o] \cup {marker[o]}
    BY <1>3, SyncNothing
  <2>2. \A o \in Ops : marker[o] \in disk.marker[o]
    BY <1>1 DEF OnDisk
  <2>3. \A o \in Ops : \A m \in disk'.marker[o] : m \in disk.marker[o]
    BY <2>1, <2>2
  <2> QED  BY <1>2, <2>3, Unsettled, Zenon DEF Truthful
<1>8. NeverLost' /\ Single' /\ Uncovered'
  BY <1>4, <1>5 DEF NeverLost, Single, Uncovered
<1>9. Mover(p)'
  <2>1. dead'[op[p]][num[p]] = Rec
    BY <1>1, <1>2, <1>3 DEF Typed
  <2>2. CASE mode = "rename"
    BY <1>1, <1>2, <1>3, <2>1, <2>2 DEF Mover, Exposed, Typed
  <2>3. CASE mode # "rename"
    BY <1>1, <1>2, <1>3, <2>1, <2>3 DEF Mover, Exposed, Typed
  <2> QED  BY <2>2, <2>3
<1>10. \A q \in Procs : q # p => Mover(q)'
  BY <1>1, <1>2, <1>3, OthersWait DEF Typed
<1> QED  BY <1>4, <1>6, <1>7, <1>8, <1>9, <1>10 DEF IInv

LEMMA Unlinking ==
  ASSUME IInv, NEW p \in Procs, UnlinkSource(p)
  PROVE  IInv'
<1>1. Typed /\ OnDisk /\ Mover(p) /\ Single
  BY DEF IInv
<1>2. /\ pc[p] = "unlink" /\ sourceLock = p /\ source
      /\ op[p] \in Ops /\ num[p] \in Numbers /\ dead[op[p]][num[p]] = Rec
  BY <1>1 DEF UnlinkSource, Go, Mover, Moving, PCs, Typed, Exposed
<1>3. /\ UNCHANGED <<dead, marker, sourceLock, op, num, consumed, exposed, cut>>
      /\ source' = FALSE
      /\ pc' = [pc EXCEPT ![p] = "syncRoot"]
      /\ Covers({})
  BY SyncCovers DEF UnlinkSource, Go, locks, local, rest, counters
<1>4. Typed' /\ pc'[p] = "syncRoot"
  BY <1>1, <1>3 DEF Typed, PCs
<1>5. Copies' = Copies /\ <<op[p], num[p]>> \in Copies
  BY <1>2, <1>3 DEF Copies
<1>6. OnDisk'
  <2>1. source' \in disk'.source /\ disk'.source \subseteq BOOLEAN
    BY <1>1, <1>3, SyncNothing, Zenon DEF OnDisk
  <2>2. \A k \in Ops : /\ marker'[k] \in disk'.marker[k]
                       /\ disk'.marker[k] \subseteq Marker \cup {None}
    BY <1>1, <1>3, SyncNothing DEF OnDisk
  <2>3. \A k \in Ops, m \in Numbers :
          /\ dead'[k][m] \in disk'.dead[k][m]
          /\ Rec \in disk'.dead[k][m] => dead'[k][m] = Rec
    BY <1>1, <1>3, SyncNothing DEF OnDisk
  <2> QED  BY <2>1, <2>2, <2>3 DEF OnDisk
<1>7. Truthful'
  <2>1. \A o \in Ops : disk'.marker[o] = disk.marker[o] \cup {marker[o]}
    BY <1>3, SyncNothing
  <2>2. \A o \in Ops : marker[o] \in disk.marker[o]
    BY <1>1 DEF OnDisk
  <2>3. \A o \in Ops : \A m \in disk'.marker[o] : m \in disk.marker[o]
    BY <2>1, <2>2
  <2> QED  BY <1>2, <2>3, Unsettled, Zenon DEF Truthful
<1>8. NeverLost' /\ Single' /\ Uncovered'
  BY <1>1, <1>4, <1>5 DEF NeverLost, Single, Uncovered, Exposed
<1>9. Mover(p)'
  BY <1>2, <1>3, <1>4 DEF Mover
<1>10. \A q \in Procs : q # p => Mover(q)'
  BY <1>1, <1>2, <1>3, OthersWait DEF Typed
<1> QED  BY <1>4, <1>6, <1>7, <1>8, <1>9, <1>10 DEF IInv

LEMMA Recovering ==
  ASSUME IInv, NEW p \in Procs, NEW o \in Ops, Recover(p, o)
  PROVE  IInv'
<1>1. Typed /\ OnDisk /\ Single
  BY DEF IInv
<1>2. UNCHANGED <<dead, marker, sourceLock, pc, op, num, consumed, exposed, cut>>
  BY DEF Recover, rest, counters
<1>3. CASE source' = source
  <2>1. Quiet
    BY <1>1, <1>2, <1>3 DEF Recover, Quiet, Honest, Typed
  <2>2. Alone(p) /\ pc'[p] \notin Moving /\ pc[p] \notin Exposed
    BY <1>1, <1>2 DEF Recover, Alone, Typed, Moving, Exposed
  <2> QED  BY <1>2, <2>1, <2>2, RestingStep
<1>4. CASE source' # source
  <2>1. /\ source /\ ~source' /\ HalfMoved(o) /\ sourceLock = None
        /\ Covers({"root", "dead"})
    BY <1>1, <1>4, SyncCovers DEF Recover, Typed
  <2>2. /\ marker[o] # None /\ marker[o].dest \in Numbers
        /\ dead[o][marker[o].dest] = Rec
    BY <1>1, <2>1 DEF HalfMoved, Announced, Typed, Marker
  <2>3. Copies' = Copies /\ <<o, marker[o].dest>> \in Copies
    BY <1>2, <2>2 DEF Copies
  <2>4. /\ disk'.source = {source'}
        /\ \A k \in Ops : disk'.marker[k] = {marker[k]}
        /\ \A k \in Ops, n \in Numbers : disk'.dead[k][n] = {dead[k][n]}
    BY <1>2, <2>1 DEF Covers
  <2>5. Typed' /\ Single' /\ NeverLost'
    BY <1>1, <1>2, <2>1, <2>3 DEF Recover, Typed, Single, NeverLost
  <2>6. OnDisk' /\ Durable'
    <3>1. disk'.dead[o][marker[o].dest] = {Rec}
      BY <2>2, <2>4
    <3>2. \A k \in Ops : marker[k] \in Marker \cup {None}
      BY <1>1 DEF Typed
    <3>0. source' \in disk'.source /\ disk'.source \subseteq BOOLEAN
      BY <2>4, <2>5 DEF Typed
    <3>3. OnDisk'
      BY <1>2, <3>0, <3>2, <2>4 DEF OnDisk
    <3> QED  BY <2>2, <3>1, <3>3 DEF Durable
  <2>7. Truthful'
    <3>1. \A k \in Ops : \A m \in disk'.marker[k] : m \in disk.marker[k]
      BY <1>1, <2>4 DEF OnDisk
    <3> QED  BY <2>1, <3>1, Unsettled, Zenon DEF Truthful
  <2>8. \A q \in Procs : Mover(q)'
    BY <1>2, <2>1, FilesAssumption, OthersWait
  <2> QED  BY <2>5, <2>6, <2>7, <2>8 DEF IInv
<1> QED  BY <1>3, <1>4

LEMMA Consuming ==
  ASSUME IInv, NEW p \in Procs, Consume(p)
  PROVE  IInv'
<1>1. Typed /\ OnDisk /\ Single /\ Truthful /\ NeverLost
  BY DEF IInv
<1>2. /\ UNCHANGED <<dead, marker, sourceLock, op, num, exposed, cut>>
      /\ source' = FALSE /\ consumed' = (consumed \/ source)
      /\ pc[p] = "consume" /\ pc' = [pc EXCEPT ![p] = "idle"]
  BY DEF Consume, Go, locks, local, counters
<1>3. /\ disk'.source = {FALSE}
      /\ \A o \in Ops : disk'.marker[o] = disk.marker[o] \cup {marker[o]}
      /\ \A o \in Ops, n \in Numbers :
           disk'.dead[o][n] = disk.dead[o][n] \cup {dead[o][n]}
  <2>1. Covers({"root"})
    BY SyncCovers DEF Consume
  <2> QED  BY <1>2, <2>1 DEF Covers
<1>4. Copies' = Copies
  BY <1>2 DEF Copies
<1>5. Typed' /\ Single'
  BY <1>1, <1>2, <1>4 DEF Typed, Single, PCs
<1>6. NeverLost'
  BY <1>1, <1>2, <1>4 DEF NeverLost, Typed
<1>7. OnDisk'
  <2>1. source' \in disk'.source /\ disk'.source \subseteq BOOLEAN
    BY <1>2, <1>3
  <2>2. \A o \in Ops : /\ marker'[o] \in disk'.marker[o]
                       /\ disk'.marker[o] \subseteq Marker \cup {None}
    BY <1>1, <1>2, <1>3 DEF OnDisk
  <2>3. \A o \in Ops, n \in Numbers :
          /\ dead'[o][n] \in disk'.dead[o][n]
          /\ Rec \in disk'.dead[o][n] => dead'[o][n] = Rec
    BY <1>1, <1>2, <1>3 DEF OnDisk
  <2> QED  BY <2>1, <2>2, <2>3 DEF OnDisk
<1>8. \A o \in Ops, n \in Numbers :
        disk.dead[o][n] = {Rec} => disk'.dead[o][n] = {Rec}
  BY <1>1, <1>3 DEF OnDisk
<1>9. Truthful'
  <2> SUFFICES ASSUME NEW o \in Ops, NEW m \in disk'.marker[o],
                      m # None, m.committed
               PROVE  Settled(o, m.dest)'
    BY DEF Truthful
  <2>1. m \in disk.marker[o] /\ m \in Marker
    BY <1>1, <1>3 DEF OnDisk
  <2>2. disk.dead[o][m.dest] = {Rec} /\ m.dest \in Numbers
    BY <1>1, <2>1 DEF Truthful, Settled, Marker
  <2> QED  BY <1>3, <1>8, <2>2 DEF Settled
<1>10. consumed' \/ exposed' \/ Uncovered' \/ Durable'
  <2>1. CASE source
    BY <1>2, <2>1
  <2>2. CASE ~source
    <3>0. source = FALSE
      BY <1>1, <2>2 DEF Typed
    <3>1. disk.source # {TRUE}
      BY <1>1, <3>0 DEF OnDisk
    <3>2. Durable => Durable'
      BY <1>8, <3>1 DEF Durable
    <3>3. Uncovered => Uncovered'
      BY <1>1, <1>2 DEF Uncovered, Typed, Exposed
    <3> QED  BY <1>2, <3>2, <3>3 DEF IInv
  <2> QED  BY <2>1, <2>2
<1>11. ASSUME NEW q \in Procs PROVE Mover(q)'
  <2>1. CASE q = p
    BY <1>1, <1>2, <2>1 DEF Mover, Typed, Moving, Exposed, PCs
  <2>2. CASE q # p
    <3>1. /\ pc'[q] = pc[q] /\ op'[q] = op[q] /\ num'[q] = num[q]
          /\ sourceLock' = sourceLock /\ dead' = dead
          /\ Mover(q) /\ op[q] \in Ops /\ num[q] \in Numbers
      BY <1>1, <1>2, <2>2 DEF IInv, Typed
    <3>2. pc[q] = "commit" => Settled(op[q], num[q])'
      BY <1>3, <1>8, <3>1 DEF Mover, Settled
    <3>3. /\ pc'[q] \in Moving \ {"lockSource"} => sourceLock' = q
          /\ pc'[q] = "publish" => Copies' = {}
          /\ pc'[q] \in Exposed => dead'[op'[q]][num'[q]] = Rec
      BY <1>4, <3>1 DEF Mover
    <3>4. pc'[q] = "unlink" => source' \/ consumed'
      BY <1>2, <3>1, Zenon DEF Mover
    <3> QED  BY <1>2, <1>3, <3>1, <3>2, <3>3, <3>4 DEF Mover
  <2> QED  BY <2>1, <2>2
<1> QED  BY <1>5, <1>6, <1>7, <1>9, <1>10, <1>11 DEF IInv

-----------------------------------------------------------------------------
\* Outside the program.

LEMMA PlacingForeign ==
  ASSUME IInv, NEW o \in Ops, NEW n \in Numbers, PlaceForeign(o, n)
  PROVE  IInv'
<1>1. Typed /\ OnDisk /\ Single /\ Truthful /\ NeverLost
  BY DEF IInv
<1>2. /\ UNCHANGED <<source, marker, sourceLock, pc, op, num, consumed,
                     exposed, cut>>
      /\ dead[o][n] = None
      /\ dead' = [dead EXCEPT ![o][n] = Foreign]
      /\ Covers({})
  BY SyncCovers DEF PlaceForeign, locks, local
<1>3. \A k \in Ops, m \in Numbers : dead'[k][m] = Rec <=> dead[k][m] = Rec
  BY <1>1, <1>2, FilesAssumption DEF Typed
<1>4. Copies' = Copies
  BY <1>3 DEF Copies
<1>5. Typed' /\ Single' /\ NeverLost'
  BY <1>1, <1>2, <1>4 DEF Typed, Single, NeverLost
<1>6. /\ disk'.source = disk.source \cup {source}
      /\ \A k \in Ops : disk'.marker[k] = disk.marker[k] \cup {marker[k]}
      /\ \A k \in Ops, m \in Numbers :
           disk'.dead[k][m] = disk.dead[k][m] \cup {dead'[k][m]}
  BY <1>2, SyncNothing
<1>7. OnDisk'
  <2>1. source' \in disk'.source /\ disk'.source \subseteq BOOLEAN
    BY <1>1, <1>2, <1>6 DEF OnDisk
  <2>2. \A k \in Ops : /\ marker'[k] \in disk'.marker[k]
                       /\ disk'.marker[k] \subseteq Marker \cup {None}
    BY <1>1, <1>2, <1>6 DEF OnDisk
  <2>3. \A k \in Ops, m \in Numbers :
          /\ dead'[k][m] \in disk'.dead[k][m]
          /\ Rec \in disk'.dead[k][m] => dead'[k][m] = Rec
    BY <1>1, <1>3, <1>6 DEF OnDisk
  <2> QED  BY <2>1, <2>2, <2>3 DEF OnDisk
<1>8. /\ \A b : disk.source = {b} => disk'.source = {b}
      /\ \A k \in Ops, m \in Numbers :
           disk.dead[k][m] = {Rec} => disk'.dead[k][m] = {Rec}
  BY <1>1, <1>3, <1>6 DEF OnDisk
<1>9. (Durable => Durable') /\ (Uncovered => Uncovered')
  <2>1. Durable => Durable'
    BY <1>8 DEF Durable
  <2>2. cut' = cut /\ pc' = pc
    BY <1>2
  <2>3. Uncovered => Uncovered'
    BY <2>2 DEF Uncovered, Exposed
  <2> QED  BY <2>1, <2>3
<1>10. Truthful'
  <2> SUFFICES ASSUME NEW k \in Ops, NEW m \in disk'.marker[k],
                      m # None, m.committed
               PROVE  Settled(k, m.dest)'
    BY DEF Truthful
  <2>1. m \in disk.marker[k] /\ m \in Marker
    BY <1>1, <1>6 DEF OnDisk
  <2>2. Settled(k, m.dest) /\ m.dest \in Numbers
    BY <1>1, <2>1 DEF Truthful, Marker
  <2> QED  BY <1>8, <2>2 DEF Settled
<1>11. ASSUME NEW q \in Procs PROVE Mover(q)'
  <2>1. Mover(q) /\ op[q] \in Ops /\ num[q] \in Numbers
    BY <1>1 DEF IInv, Typed
  <2>2. Settled(op[q], num[q]) => Settled(op[q], num[q])'
    BY <1>2, <1>8, <2>1 DEF Settled
  <2>3. dead[op[q]][num[q]] = Rec => dead'[op[q]][num[q]] = Rec
    BY <1>3, <2>1
  <2>4. disk.source = {FALSE} => disk'.source = {FALSE}
    BY <1>8
  <2> QED  BY <1>2, <1>4, <2>1, <2>2, <2>3, <2>4 DEF Mover, Moving, Exposed
<1> QED  BY <1>2, <1>5, <1>7, <1>9, <1>10, <1>11 DEF IInv

LEMMA Crashing ==
  ASSUME IInv, NEW p \in Procs, Crash(p)
  PROVE  IInv'
<1>1. Typed
  BY DEF IInv
<1>2. UNCHANGED <<files, consumed, exposed>> /\ (cut => cut')
  BY Zenon DEF Crash, Fall
<1>3. pc[p] \in Exposed => cut'
  BY Zenon DEF Crash
<1>4. Quiet
  BY <1>1, <1>2 DEF Quiet, Honest, Typed, files, names
<1>5. Alone(p) /\ pc'[p] = "down"
  <2>1. (CHOOSE o \in Ops : TRUE) \in Ops
    BY OpsAssumption
  <2>2. /\ pc' = [q \in Procs |-> IF q \in {p} THEN "down" ELSE pc[q]]
        /\ sourceLock' = IF sourceLock \in {p} THEN None ELSE sourceLock
        /\ Forget({p})
    BY DEF Crash, Fall
  <2> QED  BY <1>1, <2>1, <2>2, NumbersAssumption DEF Alone, Typed, Forget, PCs
<1> QED  BY <1>2, <1>3, <1>4, <1>5, RestingStep DEF Moving

LEMMA LosingPower ==
  ASSUME IInv, PowerLoss
  PROVE  IInv'
<1>1. Typed /\ OnDisk /\ Single /\ Truthful /\ NeverLost
  BY DEF IInv
<1>2. /\ pc' = [q \in Procs |-> IF q \in Procs THEN "down" ELSE pc[q]]
      /\ Forget(Procs) /\ consumed' = consumed
      /\ exposed' = (exposed \/ cut \/ \E p \in Procs : pc[p] \in Exposed)
      /\ source' \in disk.source
      /\ dead' \in [Ops -> [Numbers -> {None, Rec, Foreign}]]
      /\ \A o \in Ops, n \in Numbers : dead'[o][n] \in disk.dead[o][n]
      /\ marker' \in [Ops -> Marker \cup {None}]
      /\ \A o \in Ops : marker'[o] \in disk.marker[o]
      /\ Covers({"root", "dead"})
  BY DEF PowerLoss, Fall
<1>3. /\ disk'.source = {source'}
      /\ \A o \in Ops : disk'.marker[o] = {marker'[o]}
      /\ \A o \in Ops, n \in Numbers : disk'.dead[o][n] = {dead'[o][n]}
  BY <1>2 DEF Covers
<1>4. Typed'
  <2>1. (CHOOSE o \in Ops : TRUE) \in Ops
    BY OpsAssumption
  <2> QED  BY <1>1, <1>2, <2>1, NumbersAssumption
           DEF OnDisk, Typed, Forget, PCs
<1>5. Copies' \subseteq Copies
  BY <1>1, <1>2 DEF OnDisk, Copies
<1>6. Single'
  BY <1>1, <1>5 DEF Single
<1>7. OnDisk'
  BY <1>1, <1>2, <1>3 DEF OnDisk
<1>8. exposed' \/ consumed' \/ (Durable' /\ NeverLost')
  <2>1. exposed \/ Uncovered => exposed'
    BY <1>2, Zenon DEF Uncovered
  <2>2. CASE disk.source = {TRUE}
    BY <1>2, <1>3, <2>2 DEF Durable, NeverLost
  <2>3. ASSUME NEW o \in Ops, NEW n \in Numbers, disk.dead[o][n] = {Rec}
        PROVE  Durable' /\ NeverLost'
    <3>1. dead'[o][n] = Rec
      BY <1>2, <2>3
    <3>2. <<o, n>> \in Copies'
      BY <3>1 DEF Copies
    <3> QED  BY <1>3, <3>1, <3>2 DEF Durable, NeverLost
  <2> QED  BY <1>2, <2>1, <2>2, <2>3 DEF IInv, Durable
<1>9. Truthful'
  <2> SUFFICES ASSUME NEW o \in Ops, NEW m \in disk'.marker[o],
                      m # None, m.committed
               PROVE  Settled(o, m.dest)'
    BY DEF Truthful
  <2>1. m \in disk.marker[o] /\ m \in Marker
    BY <1>2, <1>3
  <2>2. Settled(o, m.dest) /\ m.dest \in Numbers
    BY <1>1, <2>1 DEF Truthful, Marker
  <2>3. disk.source = {FALSE} /\ disk.dead[o][m.dest] = {Rec}
    BY <2>2 DEF Settled
  <2>4. source' = FALSE
    BY <1>2, <2>3, Zenon
  <2>5. dead'[o][m.dest] = Rec
    BY <1>2, <2>2, <2>3
  <2> QED  BY <1>3, <2>2, <2>4, <2>5 DEF Settled
<1>10. \A q \in Procs : Mover(q)'
  BY <1>2 DEF Mover, Moving, Exposed
<1>11. NeverLost'
  BY <1>8 DEF NeverLost
<1> QED  BY <1>4, <1>6, <1>7, <1>8, <1>9, <1>10, <1>11 DEF IInv

-----------------------------------------------------------------------------

LEMMA IInvStep == IInv /\ [Next]_vars => IInv'
<1> SUFFICES ASSUME IInv, [Next]_vars PROVE IInv'
  OBVIOUS
<1>1. CASE PowerLoss
  BY <1>1, LosingPower
<1>2. ASSUME NEW p \in Procs, Prepare(p) PROVE IInv'
  BY <1>2, Preparing, Recovering DEF Prepare
<1>3. ASSUME NEW p \in Procs, Move(p) PROVE IInv'
  BY <1>3, Beginning, Raising, Choosing, Marking, Committing, Syncing,
     MovingTheRecord, Unlinking DEF Move
<1>4. ASSUME NEW p \in Procs,
             \/ EndOperation(p) \/ FindConsumable(p) \/ AnswerMissing(p)
             \/ Restart(p)
      PROVE  IInv'
  BY <1>4, Preparing
<1>5. ASSUME NEW p \in Procs, Consume(p) PROVE IInv'
  BY <1>5, Consuming
<1>6. ASSUME NEW p \in Procs, \E o \in Ops : Open(p, o) PROVE IInv'
  BY <1>6, Beginning
<1>7. ASSUME NEW p \in Procs, Fails(p) PROVE IInv'
  BY <1>7, Raising
<1>8. ASSUME NEW p \in Procs, Crash(p) PROVE IInv'
  BY <1>8, Crashing
<1>9. ASSUME NEW o \in Ops, NEW n \in Numbers, PlaceForeign(o, n) PROVE IInv'
  BY <1>9, PlacingForeign
<1>10. CASE UNCHANGED vars
  <2>1. UNCHANGED <<source, dead, marker, disk, sourceLock, pc, op, num,
                    consumed, exposed, cut>>
    BY <1>10 DEF vars, files, names, locks, local, rest, counters
  <2>2. Copies' = Copies /\ (Uncovered' <=> Uncovered) /\ (Durable' <=> Durable)
    BY <2>1 DEF Copies, Uncovered, Durable, Exposed
  <2>3. Typed' /\ OnDisk' /\ Truthful' /\ Single' /\ NeverLost'
    BY <2>1, <2>2 DEF IInv, Typed, OnDisk, Truthful, Settled, Single, NeverLost
  <2>4. \A q \in Procs : Mover(q)'
    BY <2>1, <2>2 DEF IInv, Mover, Settled, Moving, Exposed
  <2> QED  BY <2>1, <2>2, <2>3, <2>4 DEF IInv
<1> QED  BY <1>1, <1>2, <1>3, <1>4, <1>5, <1>6, <1>7, <1>8, <1>9, <1>10
         DEF Next, Running

LEMMA Invariance ==
  ASSUME SyncWorks PROVE Spec => []IInv
BY IInvInit, IInvStep, PTL DEF Spec

(* The record that is not yet acknowledged or evicted has a name, however   *)
(* many processes move it and end at any step; only a loss of power before  *)
(* the syncs of a move may take it (spool.py:475-491).                      *)
THEOREM TheRecordIsKept ==
  ASSUME SyncWorks PROVE Spec => []NeverLost
<1>1. IInv => NeverLost
  BY DEF IInv
<1> QED  BY <1>1, Invariance, PTL

(* The dead-letter directory names the record once, however often it is     *)
(* rejected or quarantined and by whom (spool.py:371-377, 463-477).         *)
THEOREM TheCopyIsOne ==
  ASSUME SyncWorks PROVE Spec => []OneCopy
<1>1. IInv => OneCopy
  BY CountLinks DEF IInv, OneCopy
<1> QED  BY <1>1, Invariance, PTL

(* A committed marker is true, after a loss of power too, because it is     *)
(* saved after both directories of the move are synced (spool.py:485-500).  *)
THEOREM CommittedMarkersAreTrue ==
  ASSUME SyncWorks PROVE Spec => []CommittedIsMoved
<1>1. IInv => CommittedIsMoved
  <2> SUFFICES ASSUME IInv, NEW o \in Ops, marker[o] # None, marker[o].committed
               PROVE  dead[o][marker[o].dest] = Rec /\ ~source
    BY DEF CommittedIsMoved
  <2>1. Settled(o, marker[o].dest) /\ marker[o].dest \in Numbers
    BY DEF IInv, OnDisk, Truthful, Marker
  <2>2. dead[o][marker[o].dest] = Rec
    BY <2>1 DEF IInv, OnDisk, Settled
  <2>3. source = FALSE
    BY <2>1, Zenon DEF IInv, OnDisk, Settled
  <2> QED  BY <2>2, <2>3
<1> QED  BY <1>1, Invariance, PTL

\* The steps that change a destination.
LEMMA DeadChanges ==
  ASSUME Next
  PROVE  \/ dead' = dead \/ PowerLoss
         \/ \E p \in Procs : \E mode \in PublishModes : MoveBy(p, mode)
         \/ \E o \in Ops, n \in Numbers : PlaceForeign(o, n)
<1>1. ASSUME NEW p \in Procs,
             \/ Prepare(p) \/ Consume(p) \/ Restart(p) \/ EndOperation(p)
             \/ FindConsumable(p) \/ AnswerMissing(p) \/ Fails(p) \/ Crash(p)
             \/ \E o \in Ops : Open(p, o)
      PROVE  dead' = dead
  BY <1>1 DEF Prepare, BeginPrepare, EndPrepare, RecoverBusy, RecoverLock,
     Recover, CleanTake, Clean, Consume, Restart, EndOperation,
     FindConsumable, AnswerMissing, Fails, Crash, Open, files, names
<1>2. ASSUME NEW p \in Procs, Move(p),
             ~ \E mode \in PublishModes : MoveBy(p, mode)
      PROVE  dead' = dead
  BY <1>2 DEF Move, LockSource, LockOp, OpBusy, ReadMarker, Reserve,
     ReserveNext, NoneLeft, Mark, LookCommitted, LookTaken, LookFree,
     LookReserved, Verify, VerifyFails, Taken, SourceGone, UnlinkSource,
     SyncRoot, SyncDead, Commit, Raise, files, names
<1> QED  BY <1>1, <1>2 DEF Next, Running

\* There is a file, or none, under each destination name.
Shape == dead = [o \in Ops |-> [n \in Numbers |-> dead[o][n]]]

LEMMA ShapeStays == Spec => []Shape
<1>1. Init => Shape
  BY DEF Init, Shape
<1>2. Shape /\ [Next]_vars => Shape'
  <2> SUFFICES ASSUME Shape, [Next]_vars PROVE Shape'
    OBVIOUS
  <2>1. CASE UNCHANGED vars
    BY <2>1 DEF Shape, vars, files, names
  <2>2. CASE PowerLoss
    BY <2>2 DEF PowerLoss, Shape
  <2>3. ASSUME NEW p \in Procs, NEW mode, MoveBy(p, mode) PROVE Shape'
    BY <2>3 DEF MoveBy, Shape
  <2>4. ASSUME NEW o \in Ops, NEW n \in Numbers, PlaceForeign(o, n) PROVE Shape'
    BY <2>4 DEF PlaceForeign, Shape
  <2>5. CASE dead' = dead
    BY <2>5 DEF Shape
  <2> QED  BY <2>1, <2>2, <2>3, <2>4, <2>5, DeadChanges
<1> QED  BY <1>1, <1>2, PTL DEF Spec

(* No move replaces a file that has a dead-letter name, synced or not: it   *)
(* publishes with RENAME_NOREPLACE or link(2) (spool.py:1160-1205).         *)
THEOREM DestinationsAreKept == Spec => DestinationsStay
<1> DEFINE Kept == \A o \in Ops, n \in Numbers :
                     dead[o][n] # None /\ dead'[o][n] # dead[o][n] =>
                       \A p \in Procs : pc'[p] = "down"
<1>1. Shape /\ [Next]_vars => [Kept]_vars
  <2> SUFFICES ASSUME Shape, Next PROVE Kept
    OBVIOUS
  <2>1. CASE PowerLoss
    BY <2>1 DEF PowerLoss, Fall
  <2>2. ASSUME NEW p \in Procs, NEW mode, MoveBy(p, mode) PROVE Kept
    BY <2>2 DEF MoveBy, Vacant, Destination, Shape
  <2>3. ASSUME NEW o \in Ops, NEW n \in Numbers, PlaceForeign(o, n) PROVE Kept
    BY <2>3 DEF PlaceForeign, Shape
  <2>4. CASE dead' = dead
    BY <2>4
  <2> QED  BY <2>1, <2>2, <2>3, <2>4, DeadChanges
<1> QED  BY <1>1, ShapeStays, PTL DEF Spec, DestinationsStay

-----------------------------------------------------------------------------
\* What reject answers.

\* Nothing has happened that may make answers differ.
Calm == ~contended /\ ~exposed /\ ~consumed

\* The record is at the destination of a process.
Published == Exposed \cup {"commit"}

UnderWay == \E q \in Procs : pc[q] \in Published

\* The marker of a move names its destination, and nobody changes it.
Marked(p) ==
  /\ pc[p] \in {"look", "verify", "publish"} \cup Published =>
       marker[op[p]] # None /\ marker[op[p]].dest = num[p]
  /\ pc[p] \in {"look", "verify", "publish"} =>
       (seen[p] <=> marker[op[p]].committed)

\* A copy has the name its marker announces.
Announces ==
  \A o \in Ops, n \in Numbers :
    dead[o][n] = Rec => marker[o] # None /\ marker[o].dest = n

\* The source that is gone stays so, unless the power fails in a move.
Gone == ~source => disk.source = {FALSE} \/ Uncovered

CopyOf(o) == \E n \in Numbers : dead[o][n] = Rec

\* A process that opened the record before it was moved will read that it was.
Late(p) ==
  pc[p] \in Moving /\ CopyOf(op[p]) =>
    \/ UnderWay
    \/ /\ marker[op[p]].committed
       /\ pc[p] \in {"lockSource", "lockOp", "readMarker", "look"}

\* Who has an answer has the one that names the record.
Answered(p) ==
  answer[p] # None =>
    /\ ~source
    /\ \A o \in Ops \cap {"rejected"}, n \in Numbers :
         dead[o][n] = Rec => answer[p] = n

\* A loss of power keeps the markers: saving one syncs their directory.
RInv ==
  /\ seen \in [Procs -> BOOLEAN] /\ answer \in [Procs -> Numbers \cup {None}]
  /\ \A o \in Ops : disk.marker[o] = {marker[o]}
  /\ \A p \in Procs : Marked(p)
  /\ Calm => Announces /\ Gone /\ \A p \in Procs : Late(p) /\ Answered(p)

LEMMA CopyIn ==
  ASSUME NEW o \in Ops, NEW n \in Numbers, dead[o][n] = Rec
  PROVE  <<o, n>> \in Copies
BY DEF Copies

LEMMA RInvInit == Init => RInv
<1> SUFFICES ASSUME Init PROVE RInv
  OBVIOUS
<1>1. \A p \in Procs : pc[p] = "idle" /\ answer[p] = None
  BY DEF Init
<1>2. \A o \in Ops, n \in Numbers : dead[o][n] # Rec
  BY FilesAssumption DEF Init
<1>3. Announces /\ Gone
  BY <1>2 DEF Announces, Gone, Init
<1>4. \A p \in Procs : Marked(p) /\ Late(p) /\ Answered(p)
  BY <1>1 DEF Marked, Late, Answered, Published, Exposed, Moving
<1> QED  BY <1>3, <1>4 DEF Init, RInv

\* All the others stay as they are.
Others(p) ==
  \A q \in Procs \ {p} : UNCHANGED <<pc[q], op[q], num[q], seen[q], answer[q]>>

\* A step of one process that leaves all names and markers alone.
LEMMA NamesStay ==
  ASSUME RInv, NEW p \in Procs, UNCHANGED names, Others(p),
         \A o \in Ops : disk'.marker[o] = disk.marker[o],
         seen' \in [Procs -> BOOLEAN], answer' \in [Procs -> Numbers \cup {None}],
         Calm' => Calm /\ Gone' /\ Late(p)' /\ Answered(p)',
         Calm' => (UnderWay => UnderWay') \/ ~Rivals(p),
         Marked(p)'
  PROVE  RInv'
<1>1. source' = source /\ dead' = dead /\ marker' = marker
  BY DEF names
<1>2. ASSUME NEW q \in Procs, q # p
      PROVE  /\ Marked(q)'
             /\ Calm' => Late(q)' /\ Answered(q)'
  <2>1. UNCHANGED <<pc[q], op[q], num[q], seen[q], answer[q]>>
    BY <1>2 DEF Others
  <2>2. Marked(q)'
    BY <1>1, <2>1 DEF RInv, Marked
  <2>3. Calm' => Answered(q)'
    BY <1>1, <2>1 DEF RInv, Answered
  <2>4. ASSUME Calm' PROVE Late(q)'
    <3>1. Late(q) /\ CopyOf(op[q])' = CopyOf(op[q])
      BY <1>1, <2>1, <2>4 DEF RInv, CopyOf
    <3>2. ~Rivals(p) => pc[q] \notin Moving
      BY <1>2 DEF Rivals
    <3> QED  BY <1>1, <2>1, <2>4, <3>1, <3>2 DEF Late, CopyOf
  <2> QED  BY <2>2, <2>3, <2>4
<1>3. Calm' => Announces'
  BY <1>1 DEF RInv, Announces
<1> QED  BY <1>1, <1>2, <1>3 DEF RInv

\* Nothing is less certain for a step that is not of a process that moves, or
\* leaves its move uncut.
LEMMA GoneStays ==
  ASSUME Gone, NEW p \in Procs, UNCHANGED <<source, disk>>,
         cut => cut', Others(p),
         pc[p] \in Exposed => pc'[p] \in Exposed \/ cut'
  PROVE  Gone'
<1>1. ASSUME NEW q \in Procs, pc[q] \in Exposed PROVE Uncovered'
  <2>1. CASE q = p
    BY <1>1, <2>1 DEF Uncovered
  <2>2. CASE q # p
    <3>1. pc'[q] \in Exposed
      BY <1>1, <2>2 DEF Others, Exposed
    <3> QED  BY <3>1 DEF Uncovered
  <2> QED  BY <2>1, <2>2
<1>2. Uncovered => Uncovered'
  BY <1>1 DEF Uncovered
<1> QED  BY <1>2 DEF Gone

-----------------------------------------------------------------------------
\* Steps outside a move.

LEMMA Outside ==
  ASSUME IInv, RInv, NEW p \in Procs,
         \/ BeginPrepare(p) \/ EndPrepare(p)
         \/ \E o \in Ops : RecoverBusy(p, o) \/ RecoverLock(p, o)
         \/ \E o \in Ops, n \in Numbers : CleanTake(p, o, n) \/ Clean(p, o, n)
         \/ EndOperation(p) \/ FindConsumable(p) \/ AnswerMissing(p)
         \/ Restart(p)
  PROVE  RInv'
<1> USE DEF Go
<1>0. Typed
  BY DEF IInv
<1>1. UNCHANGED <<files, op, num, seen, consumed, exposed, contended, cut>>
  BY DEF BeginPrepare, EndPrepare, RecoverBusy, RecoverLock, CleanTake,
       Clean, EndOperation, FindConsumable, AnswerMissing, Restart,
       rest, counters, local
<1>2. /\ pc[p] \notin Moving /\ pc'[p] \notin Moving
      /\ \A q \in Procs \ {p} : pc'[q] = pc[q]
  BY <1>0 DEF BeginPrepare, EndPrepare, RecoverBusy, RecoverLock, CleanTake,
       Clean, EndOperation, FindConsumable, AnswerMissing, Restart, Typed,
       Moving
<1>3. /\ answer' \in [Procs -> Numbers \cup {None}]
      /\ \A q \in Procs \ {p} : answer'[q] = answer[q]
      /\ Calm => Answered(p)'
  <2>1. CASE answer' = answer
    BY <1>1, <2>1 DEF RInv, Answered, files, names
  <2>2. CASE AnswerMissing(p)
    <3> DEFINE m == marker["rejected"]
    <3>1. ~source /\ "rejected" \in Ops
      BY <2>2 DEF AnswerMissing
    <3>2. \/ m = None /\ answer' = [answer EXCEPT ![p] = 0]
          \/ m # None /\ answer' = [answer EXCEPT ![p] = m.dest]
      BY <2>2 DEF AnswerMissing
    <3>3. m # None => m.dest \in Numbers
      BY <1>0, <3>1 DEF Typed, Marker
    <3>4. answer' \in [Procs -> Numbers \cup {None}]
          /\ \A q \in Procs \ {p} : answer'[q] = answer[q]
      BY <3>2, <3>3, NumbersAssumption DEF RInv
    <3>5. Calm => \A n \in Numbers :
                    dead["rejected"][n] = Rec => m # None /\ m.dest = n
      BY <3>1 DEF RInv, Announces
    <3>6. Calm => Answered(p)'
      BY <1>1, <3>1, <3>2, <3>5 DEF RInv, Answered, files, names
    <3> QED  BY <3>4, <3>6
  <2>3. answer' = answer \/ AnswerMissing(p)
    BY DEF BeginPrepare, EndPrepare, RecoverBusy, RecoverLock, CleanTake,
       Clean, EndOperation, FindConsumable, Restart, rest, counters, local
  <2> QED  BY <2>1, <2>2, <2>3
<1>4. Others(p)
  BY <1>1, <1>2, <1>3 DEF Others
<1>5. Marked(p)' /\ Late(p)'
  BY <1>2 DEF Marked, Late, Published, Exposed, Moving, PCs
<1>6. pc[p] \notin Published /\ (Calm' => Calm)
  BY <1>1, <1>2 DEF Published, Exposed, Moving, PCs, Calm
<1>7. UnderWay => UnderWay'
  BY <1>2, <1>6 DEF UnderWay
<1>8. Gone => Gone'
  BY <1>1, <1>4, <1>6, GoneStays DEF files, names, Published
<1>9. /\ UNCHANGED names /\ \A o \in Ops : disk'.marker[o] = disk.marker[o]
      /\ seen' \in [Procs -> BOOLEAN]
  BY <1>1 DEF files, RInv
<1>10. Calm' => Calm /\ Gone' /\ Late(p)' /\ Answered(p)'
  BY <1>3, <1>5, <1>6, <1>8 DEF RInv
<1> QED  BY <1>3, <1>4, <1>5, <1>7, <1>9, <1>10, NamesStay

-----------------------------------------------------------------------------
\* Steps of a move.

\* A process that holds the lock on the source is at one place at a time.
LEMMA OneMover ==
  ASSUME IInv, NEW p \in Procs, pc[p] \in Moving \ {"lockSource"}
  PROVE  /\ sourceLock = p
         /\ \A q \in Procs \ {p} : pc[q] \notin Moving \ {"lockSource"}
         /\ UnderWay <=> pc[p] \in Published
<1>1. /\ sourceLock = p
      /\ \A q \in Procs \ {p} : pc[q] \notin Moving \ {"lockSource"}
  BY DEF IInv, Mover
<1>2. Published \subseteq Moving \ {"lockSource"}
  BY DEF Published, Exposed, Moving, PCs
<1> QED  BY <1>1, <1>2 DEF UnderWay

\* A record that was moved when a move begins was committed.
LEMMA LateIsCommitted ==
  ASSUME IInv, RInv, Calm, NEW p \in Procs, ~UnderWay,
         pc[p] \in Moving, NEW n \in Numbers, dead[op[p]][n] = Rec
  PROVE  /\ pc[p] \in {"lockSource", "lockOp", "readMarker", "look"}
         /\ marker[op[p]] # None /\ marker[op[p]].committed
         /\ marker[op[p]].dest = n /\ ~source
<1>1. op[p] \in Ops /\ Late(p) /\ Announces
  BY DEF IInv, Typed, RInv
<1>2. /\ pc[p] \in {"lockSource", "lockOp", "readMarker", "look"}
      /\ marker[op[p]] # None /\ marker[op[p]].committed
      /\ marker[op[p]].dest = n
  BY <1>1 DEF Late, CopyOf, Announces
<1>3. Settled(op[p], n)
  BY <1>1, <1>2 DEF IInv, OnDisk, Truthful
<1>4. ~source
  BY <1>3, Zenon DEF IInv, OnDisk, Settled
<1> QED  BY <1>2, <1>4

\* A process that comes late finds the committed marker, and answers from it.
LEMMA OnTheWay ==
  ASSUME IInv, RInv, NEW p \in Procs,
         \/ \E o \in Ops : Open(p, o)
         \/ LockSource(p) \/ LockOp(p) \/ ReadMarker(p)
         \/ Reserve(p) \/ ReserveNext(p) \/ LookTaken(p) \/ LookFree(p)
         \/ Verify(p) \/ Taken(p)
  PROVE  RInv'
<1> USE DEF Go
<1>0. Typed
  BY DEF IInv
<1>1. UNCHANGED <<files, answer, consumed, exposed, contended, cut>>
  BY DEF Open, LockSource, LockOp, ReadMarker, Reserve, ReserveNext, LookTaken,
         LookFree, Verify, Taken, rest, counters
<1>2. UNCHANGED <<names, disk, source, dead, marker>> /\ (Calm' <=> Calm)
  BY <1>1 DEF files, names, Calm
<1>3. /\ seen' \in [Procs -> BOOLEAN]
      /\ \A q \in Procs \ {p} : UNCHANGED <<pc[q], op[q], num[q], seen[q]>>
  <2>1. \A q \in Procs \ {p} : UNCHANGED <<pc[q], op[q], num[q]>>
    BY <1>0 DEF Open, LockSource, LockOp, ReadMarker, Reserve, ReserveNext,
       LookTaken, LookFree, Verify, Taken, local, Typed
  <2>2. CASE UNCHANGED seen
    BY <2>1, <2>2 DEF RInv
  <2>3. CASE \E b \in BOOLEAN : seen' = [seen EXCEPT ![p] = b]
    BY <2>1, <2>3 DEF RInv
  <2>4. ASSUME ReadMarker(p), marker[op[p]] # None
        PROVE  \E b \in BOOLEAN : seen' = [seen EXCEPT ![p] = b]
    BY <1>0, <2>4 DEF ReadMarker, Typed, Marker
  <2> QED  BY <2>2, <2>3, <2>4
           DEF Open, LockSource, LockOp, ReadMarker, Reserve, ReserveNext,
               LookTaken, LookFree, Verify, Taken, local
<1>4. Others(p)
  BY <1>1, <1>3 DEF Others
<1>5. pc[p] \notin Published /\ (UnderWay => UnderWay')
  <2>1. pc[p] \notin Published
    BY DEF Open, LockSource, LockOp, ReadMarker, Reserve, ReserveNext,
       LookTaken, LookFree, Verify, Taken, Published, Exposed
  <2> QED  BY <1>3, <2>1 DEF UnderWay
<1>6. Gone => Gone'
  BY <1>1, <1>2, <1>4, <1>5, GoneStays DEF Published
<1>7. Marked(p)'
  BY <1>0, <1>2 DEF Open, LockSource, LockOp, ReadMarker, Reserve, ReserveNext,
     LookTaken, LookFree, Verify, Taken, Marked, RInv, Typed, Published, Exposed,
     local
<1>8. Calm => Late(p)'
  <2> SUFFICES ASSUME Calm, pc'[p] \in Moving, CopyOf(op[p])', ~UnderWay'
               PROVE  /\ marker[op'[p]].committed
                      /\ pc'[p] \in {"lockSource", "lockOp", "readMarker", "look"}
    BY <1>2 DEF Late
  <2>1. PICK n \in Numbers : dead[op'[p]][n] = Rec
    BY <1>2 DEF CopyOf
  <2>2. ~UnderWay
    BY <1>5
  <2>3. ASSUME NEW o \in Ops, Open(p, o) PROVE FALSE
    <3>1. op'[p] = o /\ Copies = {}
      BY <1>0, <2>3, CountLinks DEF Open, Pending, Links, IInv, Typed
    <3> QED  BY <2>1, <2>3, <3>1, CopyIn
  <2>4. CASE ~ \E o \in Ops : Open(p, o)
    <3>1. op' = op /\ pc[p] \in Moving
      BY <2>4 DEF LockSource, LockOp, ReadMarker, Reserve, ReserveNext,
         LookTaken, LookFree, Verify, Taken, local, Moving, PCs
    <3>2. /\ pc[p] \in {"lockSource", "lockOp", "readMarker", "look"}
          /\ marker[op[p]] # None /\ marker[op[p]].committed
          /\ marker[op[p]].dest = n /\ ~source /\ dead[op[p]][n] = Rec
      BY <2>1, <2>2, <3>1, LateIsCommitted
    <3>3. CASE pc[p] = "look"
      <4>1. num[p] = n /\ seen[p]
        BY <3>2, <3>3 DEF RInv, Marked
      <4>2. Links = 1
        <5>1. op[p] \in Ops
          BY <1>0 DEF Typed
        <5>2. Copies # {}
          BY <3>2, <5>1, CopyIn
        <5>3. Cardinality(Copies) = 1
          BY <5>2, CountLinks DEF IInv
        <5> QED  BY <3>2, <5>3 DEF Links
      <4>3. ~LookTaken(p) /\ ~LookFree(p)
        BY <3>2, <4>1, <4>2, FilesAssumption DEF LookTaken, LookFree, Destination
      <4> QED  BY <2>4, <3>3, <4>3
               DEF LockSource, LockOp, ReadMarker, Reserve, ReserveNext, Verify,
                   Taken
    <3>4. CASE pc[p] # "look"
      BY <1>0, <2>4, <3>1, <3>2, <3>4
         DEF LockSource, LockOp, ReadMarker, Reserve, ReserveNext, LookTaken,
             LookFree, Verify, Taken, Typed
    <3> QED  BY <3>3, <3>4
  <2> QED  BY <2>3, <2>4
<1>9. Calm => Answered(p)'
  BY <1>1, <1>2 DEF RInv, Answered
<1> QED
  BY <1>1, <1>2, <1>3, <1>4, <1>5, <1>6, <1>7, <1>8, <1>9, NamesStay DEF RInv

\* A process leaves its operation without having moved the record.
LEMMA LeavingStep ==
  ASSUME IInv, RInv, NEW p \in Procs, Leave(p), UNCHANGED files,
         answer' \in [Procs -> Numbers \cup {None}],
         \A q \in Procs \ {p} : answer'[q] = answer[q],
         Calm' => Calm /\ Answered(p)', cut => cut',
         Calm' /\ pc[p] \in Published => ~Rivals(p),
         Calm' /\ pc[p] \in Exposed => cut'
  PROVE  RInv'
<1>0. Typed
  BY DEF IInv
<1>1. UNCHANGED <<names, disk, source, dead, marker>>
  BY DEF files, names
<1>2. /\ Others(p) /\ pc'[p] = "idle" /\ seen' \in [Procs -> BOOLEAN]
      /\ \A q \in Procs \ {p} : pc'[q] = pc[q]
  BY <1>0 DEF Leave, Forget, Others, Typed, RInv
<1>3. Marked(p)' /\ Late(p)'
  BY <1>2 DEF Marked, Late, Published, Exposed, Moving
<1>4. Calm' => Gone'
  <2> SUFFICES ASSUME Calm' PROVE Gone'
    OBVIOUS
  <2>1. Gone
    BY DEF RInv
  <2> QED  BY <1>1, <1>2, <2>1, GoneStays
<1>5. Calm' => (UnderWay => UnderWay') \/ ~Rivals(p)
  <2> SUFFICES ASSUME Calm', UnderWay, pc[p] \notin Published PROVE UnderWay'
    OBVIOUS
  <2> QED  BY <1>2 DEF UnderWay
<1> QED  BY <1>1, <1>2, <1>3, <1>4, <1>5, NamesStay

LEMMA Giving ==
  ASSUME IInv, RInv, NEW p \in Procs,
         \/ OpBusy(p) \/ NoneLeft(p) \/ LookReserved(p) \/ LookCommitted(p)
         \/ VerifyFails(p) \/ SourceGone(p) \/ Fails(p)
  PROVE  RInv'
<1>1. Leave(p) /\ UNCHANGED <<files, consumed, exposed>>
  <2>1. CASE Fails(p)
    BY <2>1, Zenon DEF Fails
  <2>2. CASE LookCommitted(p)
    BY <2>2 DEF LookCommitted, counters
  <2>3. CASE Raise(p)
    BY <2>3 DEF Raise, rest, counters
  <2> QED  BY <2>1, <2>2, <2>3 DEF OpBusy, NoneLeft, LookReserved, VerifyFails,
             SourceGone
<1>2. UNCHANGED <<source, dead, marker>>
  BY <1>1 DEF files, names
<1>3. CASE LookCommitted(p)
  <2>1. /\ answer' = [answer EXCEPT ![p] = num[p]] /\ pc[p] = "look"
        /\ UNCHANGED <<contended, cut>> /\ Links = 1 /\ dead[op[p]][num[p]] = Rec
    BY <1>3 DEF LookCommitted, Return, counters, Destination
  <2>2. op[p] \in Ops /\ num[p] \in Numbers /\ Single
    BY DEF IInv, Typed
  <2>3. <<op[p], num[p]>> \in Copies
    BY <2>1, <2>2, CopyIn
  <2>4. ~source
    <3>1. Cardinality(Copies) = 1
      BY <2>2, <2>3, CountLinks
    <3> QED  BY <2>1, <3>1 DEF Links
  <2>5. \A o \in Ops \cap {"rejected"}, n \in Numbers :
          dead[o][n] = Rec => num[p] = n
    BY <2>2, <2>3, CopyIn DEF Single
  <2>6. answer'[p] = num[p] /\ answer' \in [Procs -> Numbers \cup {None}]
    BY <2>1, <2>2 DEF RInv
  <2>7. Answered(p)'
    BY <1>2, <2>4, <2>5, <2>6 DEF Answered
  <2> QED  BY <1>1, <2>1, <2>6, <2>7, LeavingStep
           DEF RInv, Calm, Published, Exposed
<1>4. CASE Fails(p)
  <2>1. /\ answer' = answer /\ contended' = (contended \/ Rivals(p))
        /\ cut' = (cut \/ pc[p] \in Exposed)
    BY <1>4, Zenon DEF Fails
  <2>2. Calm' => Calm /\ ~Rivals(p)
    BY <1>1, <2>1 DEF Calm
  <2>3. Calm => Answered(p)'
    BY <1>2, <2>1 DEF RInv, Answered
  <2> QED  BY <1>1, <2>1, <2>2, <2>3, LeavingStep DEF RInv
<1>5. CASE Raise(p) /\ ~LookCommitted(p) /\ ~Fails(p)
  <2>1. UNCHANGED <<answer, contended, cut>>
    BY <1>5 DEF Raise, rest, counters
  <2>2. Calm => Answered(p)'
    BY <1>2, <2>1 DEF RInv, Answered
  <2>3. pc[p] \in Published => consumed
    <3>1. pc[p] \in Published => pc[p] = "unlink" /\ ~source
      BY <1>5 DEF OpBusy, NoneLeft, LookReserved, VerifyFails, SourceGone,
         Published, Exposed
    <3> QED  BY <3>1 DEF IInv, Mover
  <2> QED  BY <1>1, <2>1, <2>2, <2>3, LeavingStep DEF RInv, Calm, Published
<1> QED  BY <1>3, <1>4, <1>5
         DEF OpBusy, NoneLeft, LookReserved, VerifyFails, SourceGone

\* What a sync does to the markers on the disk.
LEMMA MarkersOnDisk ==
  ASSUME RInv, NEW D, Covers(D), UNCHANGED marker \/ "dead" \in D
  PROVE  \A o \in Ops : disk'.marker[o] = {marker'[o]}
<1> SUFFICES ASSUME NEW o \in Ops PROVE disk'.marker[o] = {marker'[o]}
  OBVIOUS
<1>1. disk'.marker[o] = IF "dead" \in D THEN {marker'[o]}
                        ELSE disk.marker[o] \cup {marker'[o]}
  BY SyncDisk
<1>2. disk.marker[o] = {marker[o]}
  BY DEF RInv
<1> QED  BY <1>1, <1>2

\* What is moved stays on its way, or is synced.
LEMMA SyncingTheMove ==
  ASSUME IInv, RInv, NEW p \in Procs, SyncRoot(p) \/ SyncDead(p)
  PROVE  RInv'
<1>0. Typed /\ Mover(p)
  BY DEF IInv
<1>1. /\ UNCHANGED <<names, op, num, seen, answer, consumed, exposed,
                     contended, cut>>
      /\ UNCHANGED <<source, dead, marker>> /\ (Calm' <=> Calm)
      /\ \E D : Covers(D)
  BY SyncCovers DEF SyncRoot, SyncDead, local, rest, counters, names, Calm
<1>2. /\ pc[p] \in Exposed /\ pc'[p] \in Published
      /\ \A q \in Procs \ {p} : pc'[q] = pc[q]
  BY <1>0 DEF SyncRoot, SyncDead, Go, Typed, Exposed, Published
<1>3. Others(p) /\ UnderWay'
  BY <1>1, <1>2 DEF Others, UnderWay
<1>4. \A o \in Ops : disk'.marker[o] = disk.marker[o]
  BY <1>1, MarkersOnDisk DEF RInv
<1>5. Gone'
  <2>1. CASE SyncRoot(p)
    <3>1. pc'[p] \in Exposed
      BY <1>0, <2>1 DEF SyncRoot, Go, Typed, Exposed
    <3> QED  BY <3>1 DEF Gone, Uncovered
  <2>2. CASE SyncDead(p)
    <3>1. disk.source = {FALSE} /\ source \in disk.source
      BY <1>0, <2>2 DEF SyncDead, Go, Mover, IInv, OnDisk
    <3>2. disk'.source = disk.source \cup {source'}
      BY <2>2, SyncDisk, SyncCovers DEF SyncDead
    <3> QED  BY <1>1, <3>1, <3>2 DEF Gone
  <2> QED  BY <2>1, <2>2
<1>6. Marked(p)'
  <2>1. pc'[p] \notin {"look", "verify", "publish"}
    BY <1>2 DEF Published, Exposed
  <2> QED  BY <1>1, <1>2, <2>1 DEF RInv, Marked, Published
<1>7. Late(p)' /\ (Calm => Answered(p)')
  BY <1>1, <1>3 DEF Late, RInv, Answered
<1> QED  BY <1>1, <1>3, <1>4, <1>5, <1>6, <1>7, NamesStay DEF RInv

LEMMA CrashingStep ==
  ASSUME IInv, RInv, NEW p \in Procs, Crash(p)
  PROVE  RInv'
<1>0. Typed
  BY DEF IInv
<1>1. /\ UNCHANGED <<files, answer, consumed, exposed>>
      /\ cut' = (cut \/ pc[p] \in Exposed)
      /\ contended' = (contended \/ \E q \in {p} : Rivals(q))
      /\ pc' = [q \in Procs |-> IF q \in {p} THEN "down" ELSE pc[q]]
      /\ Forget({p})
  BY Zenon DEF Crash, Fall
<1>2. UNCHANGED <<names, disk, source, dead, marker>>
  BY <1>1 DEF files, names
<1>3. Others(p) /\ pc'[p] = "down" /\ seen' \in [Procs -> BOOLEAN]
  BY <1>0, <1>1 DEF Others, Forget, Typed, RInv
<1>4. Marked(p)' /\ Late(p)'
  BY <1>3 DEF Marked, Late, Published, Exposed, Moving
<1>5. Gone => Gone'
  BY <1>1, <1>2, <1>3, GoneStays, Zenon
<1>6. (Calm' => Calm /\ ~Rivals(p)) /\ (Calm => Answered(p)')
  BY <1>1, <1>2 DEF RInv, Calm, Answered
<1> QED  BY <1>1, <1>2, <1>3, <1>4, <1>5, <1>6, NamesStay DEF RInv

LEMMA ConsumingStep ==
  ASSUME IInv, RInv, NEW p \in Procs, Consume(p)
  PROVE  RInv'
<1>0. Typed
  BY DEF IInv
<1>1. /\ UNCHANGED <<dead, marker, op, num, seen, answer, exposed,
                     contended, cut>>
      /\ source' = FALSE /\ consumed' = (consumed \/ source)
      /\ pc[p] = "consume" /\ pc' = [pc EXCEPT ![p] = "idle"] /\ Covers({"root"})
  BY SyncCovers DEF Consume, Go, local, counters
<1>2. /\ \A q \in Procs \ {p} : pc'[q] = pc[q]
      /\ pc'[p] = "idle" /\ disk'.source = {FALSE}
  BY <1>0, <1>1, SyncDisk DEF Typed
<1>3. \A o \in Ops : disk'.marker[o] = {marker'[o]}
  BY <1>1, MarkersOnDisk
<1>4. CASE source
  <2>1. ~Calm'
    BY <1>1, <1>4 DEF Calm
  <2>2. \A q \in Procs : Marked(q)'
    <3> SUFFICES ASSUME NEW q \in Procs PROVE Marked(q)'
      OBVIOUS
    <3>1. CASE q = p
      BY <1>2, <3>1 DEF Marked, Published, Exposed
    <3>2. CASE q # p
      BY <1>1, <1>2, <3>2 DEF RInv, Marked
    <3> QED  BY <3>1, <3>2
  <2> QED  BY <1>1, <1>3, <2>1, <2>2 DEF RInv
<1>5. CASE ~source
  <2>1. UNCHANGED names /\ (Calm' <=> Calm) /\ Gone'
    BY <1>0, <1>1, <1>2, <1>5 DEF names, Calm, Gone, Typed
  <2>2. Others(p) /\ (UnderWay => UnderWay')
    BY <1>1, <1>2 DEF Others, UnderWay, Published, Exposed
  <2>3. Marked(p)' /\ Late(p)' /\ (Calm => Answered(p)')
    BY <1>1, <1>2, <1>5 DEF Marked, Late, Published, Exposed, Moving, RInv,
       Answered
  <2> QED  BY <1>1, <1>3, <2>1, <2>2, <2>3, NamesStay DEF RInv
<1> QED  BY <1>4, <1>5

\* While the source is there, nobody has an answer.
LEMMA NoAnswerYet ==
  ASSUME RInv, Calm, source, NEW q \in Procs
  PROVE  answer[q] = None
BY DEF RInv, Answered

LEMMA MarkIsNoNone ==
  ASSUME NEW n \in Numbers, NEW c \in BOOLEAN
  PROVE  [dest |-> n, committed |-> c] # None
BY FilesAssumption DEF Marker

\* A marker is replaced only while its kind of move has no copy.
LEMMA MarkingStep ==
  ASSUME IInv, RInv, NEW p \in Procs, Mark(p)
  PROVE  RInv'
<1>0. Typed
  BY DEF IInv
<1> DEFINE o == op[p]  m == [dest |-> num[p], committed |-> FALSE]
<1>1. /\ UNCHANGED <<source, dead, op, num, answer, consumed, exposed,
                     contended, cut>>
      /\ pc[p] = "mark" /\ pc' = [pc EXCEPT ![p] = "look"]
      /\ marker' = [marker EXCEPT ![op[p]] =
                      [dest |-> num[p], committed |-> FALSE]]
      /\ seen' = [seen EXCEPT ![p] = FALSE] /\ Covers({"dead"})
  BY SyncCovers DEF Mark, Go, Saved, rest, counters
<1>2. /\ pc'[p] = "look" /\ \A q \in Procs \ {p} : pc'[q] = pc[q]
      /\ marker'[o] = m /\ \A k \in Ops \ {o} : marker'[k] = marker[k]
      /\ seen'[p] = FALSE /\ o \in Ops /\ m # None
  <2>1. m # None
    BY <1>0, MarkIsNoNone DEF Typed
  <2> QED  BY <1>0, <1>1, <2>1 DEF Typed, RInv
<1>3. /\ \A q \in Procs \ {p} : pc[q] \notin Moving \ {"lockSource"}
      /\ ~UnderWay /\ pc[p] \in Moving
  BY <1>1, OneMover DEF Moving, PCs, Published, Exposed
<1>4. ASSUME NEW q \in Procs PROVE Marked(q)'
  <2>1. CASE q = p
    <3>1. marker'[op'[p]] = m /\ num'[p] = num[p] /\ m.dest = num[p]
          /\ ~m.committed
      BY <1>1, <1>2
    <3>2. marker'[op'[p]] # None /\ marker'[op'[p]].dest = num'[p]
      BY <1>2, <3>1
    <3>3. ~seen'[p] /\ ~marker'[op'[p]].committed
      BY <1>2, <3>1
    <3> QED  BY <2>1, <3>2, <3>3 DEF Marked
  <2>2. CASE q # p
    BY <1>2, <1>3, <2>2 DEF Marked, Moving, PCs, Published, Exposed
  <2> QED  BY <2>1, <2>2
<1>5. ASSUME Calm'
      PROVE  Announces' /\ Gone' /\ \A q \in Procs : Late(q)' /\ Answered(q)'
  <2>0. Calm
    BY <1>1, <1>5 DEF Calm
  <2>1. \A n \in Numbers : dead[o][n] # Rec
    BY <1>1, <1>3, <2>0, LateIsCommitted
  <2>2. Announces'
    BY <1>1, <1>2, <2>0, <2>1 DEF RInv, Announces
  <2>3. Gone'
    <3>1. disk'.source = disk.source \cup {source'}
      BY <1>1, SyncDisk
    <3>2. Uncovered => Uncovered'
      BY <1>1, <1>2, <1>3 DEF Uncovered, UnderWay, Published
    <3> QED  BY <1>0, <1>1, <2>0, <3>1, <3>2 DEF RInv, Gone, Typed
  <2>4. ASSUME NEW q \in Procs PROVE Late(q)'
    <3>1. CASE op[q] = o
      BY <1>1, <2>1, <3>1 DEF Late, CopyOf
    <3>2. CASE op[q] # o
      <4>1. op[q] \in Ops /\ Late(q) /\ q # p
        BY <1>0, <2>0, <3>2 DEF Typed, RInv
      <4> QED  BY <1>1, <1>2, <1>3, <3>2, <4>1 DEF Late, CopyOf
    <3> QED  BY <3>1, <3>2
  <2>5. \A q \in Procs : Answered(q)'
    BY <1>1, <2>0 DEF RInv, Answered
  <2> QED  BY <2>2, <2>3, <2>4, <2>5
<1>6. \A k \in Ops : disk'.marker[k] = {marker'[k]}
  BY <1>1, MarkersOnDisk
<1>7. seen' \in [Procs -> BOOLEAN] /\ answer' \in [Procs -> Numbers \cup {None}]
  BY <1>1 DEF RInv
<1> QED  BY <1>4, <1>5, <1>6, <1>7 DEF RInv

LEMMA CommittingStep ==
  ASSUME IInv, RInv, NEW p \in Procs, Commit(p)
  PROVE  RInv'
<1>0. Typed /\ Single
  BY DEF IInv
<1> DEFINE o == op[p]  m == [dest |-> num[p], committed |-> TRUE]
<1>1. /\ UNCHANGED <<source, dead, consumed, exposed, contended, cut>>
      /\ pc[p] = "commit" /\ pc' = [pc EXCEPT ![p] = "idle"] /\ Forget({p})
      /\ marker' = [marker EXCEPT ![op[p]] =
                      [dest |-> num[p], committed |-> TRUE]]
      /\ answer' = [answer EXCEPT ![p] = num[p]] /\ Covers({"dead"})
      /\ dead[op[p]][num[p]] = Rec /\ Links = 1
  BY SyncCovers DEF Commit, Saved, Return, Leave, counters, Destination
<1>2. /\ pc'[p] = "idle" /\ marker'[o] = m /\ answer'[p] = num[p]
      /\ \A k \in Ops \ {o} : marker'[k] = marker[k]
      /\ o \in Ops /\ num[p] \in Numbers
      /\ \A q \in Procs \ {p} :
           UNCHANGED <<pc[q], op[q], num[q], seen[q], answer[q]>>
      /\ seen' \in [Procs -> BOOLEAN]
      /\ answer' \in [Procs -> Numbers \cup {None}]
  BY <1>0, <1>1 DEF Typed, RInv, Forget
<1>3. /\ \A q \in Procs \ {p} : pc[q] \notin Moving \ {"lockSource"}
      /\ m # None
  <2>1. m # None
    BY <1>2, MarkIsNoNone
  <2> QED  BY <1>1, <2>1, OneMover DEF Moving, PCs
<1>4. /\ <<o, num[p]>> \in Copies /\ ~source
      /\ \A k \in Ops, n \in Numbers : dead[k][n] = Rec => k = o /\ n = num[p]
  <2>1. <<o, num[p]>> \in Copies
    BY <1>1, <1>2, CopyIn
  <2>2. Cardinality(Copies) = 1
    BY <1>0, <2>1, CountLinks
  <2>3. ~source
    BY <1>1, <2>2 DEF Links
  <2>4. ASSUME NEW k \in Ops, NEW n \in Numbers, dead[k][n] = Rec
        PROVE  k = o /\ n = num[p]
    <3>1. <<k, n>> \in Copies
      BY <2>4, CopyIn
    <3>2. <<k, n>> = <<o, num[p]>>
      BY <1>0, <2>1, <3>1 DEF Single
    <3> QED  BY <3>2
  <2> QED  BY <2>1, <2>3, <2>4
<1>5. ASSUME NEW q \in Procs PROVE Marked(q)'
  <2>1. CASE q = p
    BY <1>2, <2>1 DEF Marked, Published, Exposed
  <2>2. CASE q # p
    BY <1>2, <1>3, <2>2 DEF Marked, Moving, PCs, Published, Exposed
  <2> QED  BY <2>1, <2>2
<1>6. Announces'
  BY <1>1, <1>2, <1>3, <1>4 DEF Announces
<1>7. Gone'
  <2>1. disk.source = {FALSE} /\ source \in disk.source
    BY <1>1 DEF IInv, Mover, Settled, OnDisk
  <2>2. disk'.source = disk.source \cup {source'}
    BY <1>1, SyncDisk
  <2> QED  BY <1>1, <2>1, <2>2 DEF Gone
<1>8. ASSUME NEW q \in Procs PROVE Late(q)'
  <2>1. CASE q = p
    BY <1>2, <2>1 DEF Late, Moving
  <2>2. CASE q # p
    <3>1. op[q] \in Ops
      BY <1>0 DEF Typed
    <3>2. pc'[q] \in Moving => pc'[q] = "lockSource"
      BY <1>2, <1>3, <2>2
    <3>3. CopyOf(op[q])' => marker'[op'[q]].committed
      BY <1>1, <1>2, <1>4, <2>2, <3>1 DEF CopyOf
    <3> QED  BY <3>2, <3>3 DEF Late
  <2> QED  BY <2>1, <2>2
<1>9. ASSUME NEW q \in Procs, Calm PROVE Answered(q)'
  <2>1. CASE q = p
    BY <1>1, <1>2, <1>4, <2>1 DEF Answered
  <2>2. CASE q # p
    BY <1>1, <1>2, <1>9, <2>2 DEF RInv, Answered
  <2> QED  BY <2>1, <2>2
<1>10. \A k \in Ops : disk'.marker[k] = {marker'[k]}
  BY <1>1, MarkersOnDisk
<1>11. Calm' => Calm
  BY <1>1 DEF Calm
<1> QED  BY <1>2, <1>5, <1>6, <1>7, <1>8, <1>9, <1>10, <1>11 DEF RInv

\* The record goes where the marker says.
LEMMA PublishingStep ==
  ASSUME IInv, RInv, NEW p \in Procs, NEW mode, MoveBy(p, mode)
  PROVE  RInv'
<1>0. Typed /\ Mover(p)
  BY DEF IInv
<1> DEFINE o == op[p]
<1>1. /\ UNCHANGED <<marker, op, num, seen, answer, consumed, exposed,
                     contended, cut>>
      /\ pc[p] = "publish" /\ source
      /\ pc' = [pc EXCEPT ![p] = IF mode = "rename" THEN "syncRoot" ELSE "unlink"]
      /\ dead' = [dead EXCEPT ![op[p]][num[p]] = Rec] /\ Covers({})
  BY SyncCovers DEF MoveBy, Go, local, rest, counters
<1>2. /\ pc'[p] \in Exposed /\ \A q \in Procs \ {p} : pc'[q] = pc[q]
      /\ o \in Ops /\ num[p] \in Numbers
  BY <1>0, <1>1 DEF Typed, Exposed
<1>3. UnderWay' /\ Uncovered'
  BY <1>2 DEF UnderWay, Uncovered, Published, Exposed
<1>4. \A k \in Ops, n \in Numbers : dead'[k][n] = Rec => k = o /\ n = num[p]
  <2>1. \A k \in Ops, n \in Numbers : dead[k][n] # Rec
    BY <1>0, <1>1, CopyIn DEF Mover
  <2> QED  BY <1>0, <1>1, <1>2, <2>1 DEF Typed
<1>5. marker[o] # None /\ marker[o].dest = num[p]
  BY <1>1 DEF RInv, Marked
<1>6. ASSUME NEW q \in Procs PROVE Marked(q)'
  <2>1. CASE q = p
    BY <1>1, <1>2, <1>5, <2>1 DEF Marked, Exposed
  <2>2. CASE q # p
    BY <1>1, <1>2, <2>2 DEF RInv, Marked
  <2> QED  BY <2>1, <2>2
<1>7. Announces'
  BY <1>1, <1>4, <1>5 DEF Announces
<1>8. Gone' /\ \A q \in Procs : Late(q)'
  BY <1>3 DEF Gone, Late
<1>9. (Calm' => Calm) /\ \A q \in Procs : Calm => Answered(q)'
  BY <1>1, NoAnswerYet DEF Answered, Calm
<1>10. \A k \in Ops : disk'.marker[k] = {marker'[k]}
  BY <1>1, MarkersOnDisk
<1> QED  BY <1>1, <1>6, <1>7, <1>8, <1>9, <1>10 DEF RInv

\* Steps that take the name of the source.
LEMMA SourceGoes ==
  ASSUME IInv, RInv, source, NEW p \in Procs,
         UNCHANGED <<dead, marker, op, num, seen, answer, consumed, exposed,
                     contended>>,
         pc[p] \notin Published => pc'[p] = pc[p],
         pc[p] \in Published => pc'[p] \in Published /\ ~(pc'[p] = "look"),
         \A q \in Procs \ {p} : pc'[q] = pc[q],
         \A o \in Ops : disk'.marker[o] = {marker'[o]}, Calm' => Gone'
  PROVE  RInv'
<1>1. UnderWay => UnderWay'
  BY DEF UnderWay
<1>2. ASSUME NEW q \in Procs PROVE Marked(q)' /\ (Calm' => Late(q)')
  <2>1. Marked(q) /\ (Calm' => Late(q))
    BY DEF RInv, Calm
  <2>2. \/ pc'[q] = pc[q]
        \/ pc[q] \in Published /\ pc'[q] \in Published
    OBVIOUS
  <2>3. Published \cap {"look", "verify", "publish"} = {}
        /\ Published \subseteq Moving
    BY DEF Published, Exposed, Moving, PCs
  <2>4. Marked(q)'
    BY <2>1, <2>2, <2>3 DEF Marked
  <2>5. Calm' => Late(q)'
    <3>1. CASE pc'[q] = pc[q]
      BY <1>1, <2>1, <3>1 DEF Late, CopyOf
    <3>2. CASE pc'[q] \in Published
      BY <3>2 DEF Late, UnderWay
    <3> QED  BY <2>2, <3>1, <3>2
  <2> QED  BY <2>4, <2>5
<1>3. Calm' => Calm /\ Announces'
  BY DEF RInv, Announces, Calm
<1>4. ASSUME NEW q \in Procs, Calm PROVE Answered(q)'
  BY <1>4, NoAnswerYet DEF Answered
<1> QED  BY <1>2, <1>3, <1>4 DEF RInv

LEMMA UnlinkingStep ==
  ASSUME IInv, RInv, NEW p \in Procs, UnlinkSource(p)
  PROVE  RInv'
<1>0. Typed
  BY DEF IInv
<1>1. /\ UNCHANGED <<dead, marker, op, num, seen, answer, consumed, exposed,
                     contended, cut>>
      /\ pc[p] = "unlink" /\ source /\ pc' = [pc EXCEPT ![p] = "syncRoot"]
      /\ Covers({})
  BY SyncCovers DEF UnlinkSource, Go, local, rest, counters
<1>2. /\ pc[p] \in Published /\ pc'[p] \in Exposed /\ pc'[p] \in Published
      /\ \A q \in Procs \ {p} : pc'[q] = pc[q]
      /\ pc'[p] # "look"
  BY <1>0, <1>1 DEF Typed, Published, Exposed
<1>3. Gone'
  BY <1>2 DEF Gone, Uncovered
<1>4. \A o \in Ops : disk'.marker[o] = {marker'[o]}
  BY <1>1, MarkersOnDisk
<1> QED  BY <1>1, <1>2, <1>3, <1>4, SourceGoes

LEMMA RecoveringStep ==
  ASSUME IInv, RInv, NEW p \in Procs, NEW o \in Ops, Recover(p, o)
  PROVE  RInv'
<1>0. Typed
  BY DEF IInv
<1>1. /\ UNCHANGED <<dead, marker, pc, op, num, seen, answer, consumed, exposed,
                     contended, cut>>
      /\ pc[p] = "recovering" /\ (Calm' <=> Calm) /\ (source' => source)
      /\ IF source' # source THEN Covers({"root", "dead"}) ELSE UNCHANGED disk
  BY SyncCovers DEF Recover, rest, counters, Calm
<1>2. CASE source' = source
  <2>1. UNCHANGED names /\ Others(p) /\ UNCHANGED disk
    BY <1>1, <1>2 DEF names, Others
  <2>2. Gone => Gone'
    BY <1>1, <1>2, <2>1, GoneStays, Zenon
  <2>3. /\ Marked(p)' /\ Late(p)' /\ (Calm => Answered(p)')
        /\ UnderWay => UnderWay'
    BY <1>1, <1>2 DEF Marked, Late, Published, Exposed, Moving, RInv, Answered,
                      UnderWay
  <2> QED  BY <1>1, <2>1, <2>2, <2>3, NamesStay DEF RInv
<1>3. CASE source' # source
  <2>1. source /\ source' = FALSE /\ Covers({"root", "dead"})
    BY <1>0, <1>1, <1>3 DEF Recover, Typed
  <2>2. disk'.source = {FALSE}
    BY <2>1 DEF Covers
  <2>3. \A k \in Ops : disk'.marker[k] = {marker'[k]}
    BY <1>1, <2>1, MarkersOnDisk
  <2>4. pc[p] \notin Published
    BY <1>1 DEF Published, Exposed
  <2> QED  BY <1>1, <2>1, <2>2, <2>3, <2>4, SourceGoes DEF Gone
<1> QED  BY <1>2, <1>3

LEMMA ForeignStep ==
  ASSUME IInv, RInv, NEW o \in Ops, NEW n \in Numbers, PlaceForeign(o, n)
  PROVE  RInv'
<1>0. Typed
  BY DEF IInv
<1>1. /\ UNCHANGED <<source, marker, pc, op, num, seen, answer, consumed, exposed,
                     contended, cut>>
      /\ dead[o][n] = None
      /\ dead' = [dead EXCEPT ![o][n] = Foreign] /\ Covers({})
  BY SyncCovers DEF PlaceForeign, local
<1>2. \A k \in Ops, i \in Numbers : dead'[k][i] = Rec <=> dead[k][i] = Rec
  BY <1>0, <1>1, FilesAssumption DEF Typed
<1>3. \A q \in Procs : Marked(q)'
  BY <1>1 DEF RInv, Marked
<1>4. ASSUME Calm'
      PROVE  Announces' /\ Gone' /\ \A q \in Procs : Late(q)' /\ Answered(q)'
  <2>0. Calm
    BY <1>1, <1>4 DEF Calm
  <2>1. Announces'
    BY <1>1, <1>2, <2>0 DEF RInv, Announces
  <2>2. Gone'
    <3>1. disk'.source = disk.source \cup {source'}
      BY <1>1, SyncDisk
    <3> QED  BY <1>0, <1>1, <2>0, <3>1 DEF RInv, Gone, Typed, Uncovered
  <2>3. ASSUME NEW q \in Procs PROVE Late(q)' /\ Answered(q)'
    <3>1. op[q] \in Ops /\ Late(q) /\ Answered(q)
      BY <1>0, <2>0 DEF Typed, RInv
    <3>2. CopyOf(op[q])' => CopyOf(op[q])
      BY <1>1, <1>2, <3>1 DEF CopyOf
    <3>3. Late(q)'
      BY <1>1, <3>1, <3>2 DEF Late, UnderWay
    <3> QED  BY <1>1, <1>2, <3>1, <3>3 DEF Answered
  <2> QED  BY <2>1, <2>2, <2>3
<1>5. \A k \in Ops : disk'.marker[k] = {marker'[k]}
  BY <1>1, MarkersOnDisk
<1> QED  BY <1>1, <1>3, <1>4, <1>5 DEF RInv

\* Who has an answer keeps it: the move it tells of is on the disk.
LEMMA PowerStep ==
  ASSUME IInv, RInv, PowerLoss
  PROVE  RInv'
<1>0. Typed /\ OnDisk
  BY DEF IInv
<1>1. /\ UNCHANGED <<answer, consumed>>
      /\ pc' = [q \in Procs |-> IF q \in Procs THEN "down" ELSE pc[q]]
      /\ contended' = (contended \/ \E q \in Procs : Rivals(q))
      /\ Forget(Procs)
      /\ exposed' = (exposed \/ cut \/ \E q \in Procs : pc[q] \in Exposed)
      /\ source' \in disk.source
      /\ \A o \in Ops, n \in Numbers : dead'[o][n] \in disk.dead[o][n]
      /\ \A o \in Ops : marker'[o] \in disk.marker[o]
      /\ Covers({"root", "dead"})
  BY Zenon DEF PowerLoss, Fall
<1>2. \A q \in Procs : pc'[q] = "down"
  BY <1>1
<1>3. seen' \in [Procs -> BOOLEAN]
  BY <1>1 DEF Forget, RInv
<1>4. \A o \in Ops : disk'.marker[o] = {marker'[o]} /\ marker'[o] = marker[o]
  BY <1>1, MarkersOnDisk DEF RInv
<1>5. \A q \in Procs : Marked(q)' /\ Late(q)'
  BY <1>2 DEF Marked, Late, Published, Exposed, Moving
<1>6. Calm' => Calm /\ ~Uncovered
  BY <1>1, Zenon DEF Calm, Uncovered
<1>7. \A o \in Ops, n \in Numbers : dead'[o][n] = Rec => dead[o][n] = Rec
  BY <1>0, <1>1 DEF OnDisk
<1>8. disk'.source = {source'} /\ source' \in BOOLEAN
  BY <1>0, <1>1, SyncDisk DEF OnDisk
<1>9. Gone'
  BY <1>8 DEF Gone
<1>10. Calm => Announces'
  BY <1>4, <1>7 DEF RInv, Announces
<1>11. ASSUME NEW q \in Procs, Calm' PROVE Answered(q)'
  <2>1. Gone /\ Answered(q) /\ ~Uncovered
    BY <1>6, <1>11 DEF RInv
  <2>2. ~source => source' = FALSE
    BY <1>1, <2>1 DEF Gone
  <2> QED  BY <1>1, <1>7, <2>1, <2>2 DEF Answered
<1> QED  BY <1>1, <1>3, <1>4, <1>5, <1>6, <1>9, <1>10, <1>11 DEF RInv

LEMMA RInvStep == IInv /\ RInv /\ [Next]_vars => RInv'
<1> SUFFICES ASSUME IInv, RInv, [Next]_vars PROVE RInv'
  OBVIOUS
<1>1. CASE PowerLoss
  BY <1>1, PowerStep
<1>2. ASSUME NEW p \in Procs, Prepare(p) PROVE RInv'
  BY <1>2, Outside, RecoveringStep DEF Prepare
<1>3. ASSUME NEW p \in Procs, Move(p) PROVE RInv'
  BY <1>3, OnTheWay, Giving, MarkingStep, CommittingStep, SyncingTheMove,
     PublishingStep, UnlinkingStep DEF Move
<1>4. ASSUME NEW p \in Procs,
             \/ EndOperation(p) \/ FindConsumable(p) \/ AnswerMissing(p)
             \/ Restart(p)
      PROVE  RInv'
  BY <1>4, Outside
<1>5. ASSUME NEW p \in Procs, Consume(p) PROVE RInv'
  BY <1>5, ConsumingStep
<1>6. ASSUME NEW p \in Procs, \E o \in Ops : Open(p, o) PROVE RInv'
  BY <1>6, OnTheWay
<1>7. ASSUME NEW p \in Procs, Fails(p) PROVE RInv'
  BY <1>7, Giving
<1>8. ASSUME NEW p \in Procs, Crash(p) PROVE RInv'
  BY <1>8, CrashingStep
<1>9. ASSUME NEW o \in Ops, NEW n \in Numbers, PlaceForeign(o, n) PROVE RInv'
  BY <1>9, ForeignStep
<1>10. CASE UNCHANGED vars
  <2>1. UNCHANGED <<source, dead, marker, disk, pc, op, num, seen, answer,
                    consumed, contended, exposed, cut>>
    BY <1>10 DEF vars, files, names, locks, local, rest, counters
  <2>2. \A q \in Procs : Marked(q)'
    BY <2>1 DEF RInv, Marked
  <2>3. (Calm' <=> Calm) /\ (Announces' <=> Announces) /\ (Gone' <=> Gone)
    BY <2>1 DEF Calm, Announces, Gone, Uncovered
  <2>4. \A q \in Procs : (Late(q)' <=> Late(q)) /\ (Answered(q)' <=> Answered(q))
    BY <2>1 DEF Late, CopyOf, UnderWay, Answered
  <2> QED  BY <2>1, <2>2, <2>3, <2>4 DEF RInv
<1> QED  BY <1>1, <1>2, <1>3, <1>4, <1>5, <1>6, <1>7, <1>8, <1>9, <1>10
         DEF Next, Running

(* Whoever rejects the record, and however often, is told the name it has,  *)
(* as long as no fault, loss of power, ack or eviction meets a move of it   *)
(* (spool.py:146-153, 531-542).  Both kinds of move exist in the program.   *)
THEOREM RejectIsIdempotent ==
  ASSUME SyncWorks, "rejected" \in Ops
  PROVE  Spec => []RejectAnswersAgree
<1>1. RInv => RejectAnswersAgree
  BY DEF RInv, Calm, Answered, RejectAnswersAgree
<1> QED  BY <1>1, IInvInit, IInvStep, RInvInit, RInvStep, PTL DEF Spec
=============================================================================
