----------------------------- MODULE SpoolFiles -----------------------------
(* The files of the spool root: how enqueue stages and publishes a record   *)
(* and how every operation first recovers and cleans what a crashed process *)
(* left behind (spool.py), for processes that share the directory.  A step  *)
(* is one system call, or the calls made under one artifact guard.          *)
(*                                                                          *)
(* The directory has a live view and a durable one: a name that was made or *)
(* removed is safe from a loss of power only once the directory is synced.  *)
(* The code skips the sync, unsaid, where the directory cannot be opened or *)
(* synced: SyncWorks says whether it can.                                   *)
(* The worst case is modelled: every record asks for the same file name, so *)
(* publication meets collisions.  Definitions named Faulty are wrong        *)
(* variants of the next definition.                                         *)
EXTENDS Integers, FiniteSets

CONSTANTS
  Procs,         \* processes with a Spool on this directory
  None,          \* no file, no process
  Numbers,       \* the numbered names name.json, name.1.json, ...
  PublishModes,  \* how a staged file gets its name: "rename", "link"
  SyncWorks,     \* the root can be opened and synced
  MaxFiles,      \* bound on the files ever staged
  MaxFaults      \* bound on crashes, failures and losses of power

Files == 1 .. MaxFiles

ASSUME NoneAssumption == None \notin Files \cup Procs
ASSUME NamesAssumption ==
  0 \in Numbers /\ Numbers = 0 .. Cardinality(Numbers) - 1
ASSUME ModesAssumption == PublishModes \subseteq {"rename", "link"}
ASSUME SyncAssumption == SyncWorks \in BOOLEAN
ASSUME BoundsAssumption == MaxFiles \in Nat /\ MaxFaults \in Nat

VARIABLES
  staged,        \* files that have a .spool-*.tmp name
  named,         \* the file under each numbered .json name
  disk,          \* what each .json name may be after a loss of power
  ghosts,        \* staging names removed since the last sync of the root
  complete,      \* files whose content is written and synced
  flock,         \* who holds the lock of each file
  reserved,      \* numbers whose .publish-*.lock file exists
  spoolGuard,    \* who holds .guard-spool
  publishGuard,  \* who holds the guard of each reservation
  pc, file, num, \* per process: next step, its staged file, its number
  todo, stale,   \* per process: files and reservations of a pass
  fresh,         \* the next file
  faults,
  \* history
  returned,      \* files whose enqueue returned
  removed,       \* files that ack or retention unlinked
  gone,          \* those whose ack or retention has returned
  early          \* of them, those whose ack found the name gone but unsynced

root == <<staged, named, disk, ghosts>>
locks == <<flock, spoolGuard, publishGuard>>
own == <<file, num>>
pass == <<todo, stale>>
history == <<returned, removed, gone, early>>
vars == <<root, complete, reserved, locks, pc, own, pass, fresh, faults,
          history>>

PCs == {"down", "idle", "recovering", "cleaning", "prepared", "stage", "lock",
        "write", "reserve", "publish", "unlinkStaged", "sync",
        "unreserve", "release", "removing"}

\* From mkstemp until the file has its name.
Staging == {"lock", "write", "reserve", "publish"}

TypeOK ==
  /\ staged \subseteq Files /\ complete \subseteq Files
  /\ returned \subseteq Files /\ removed \subseteq Files
  /\ gone \subseteq Files /\ early \subseteq gone
  /\ named \in [Numbers -> Files \cup {None}]
  /\ disk \in [Numbers -> SUBSET (Files \cup {None})]
  /\ ghosts \in [files : SUBSET Files, locks : SUBSET Numbers]
  /\ flock \in [Files -> Procs \cup {None}]
  /\ reserved \subseteq Numbers
  /\ spoolGuard \in Procs \cup {None}
  /\ publishGuard \in [Numbers -> Procs \cup {None}]
  /\ pc \in [Procs -> PCs]
  /\ file \in [Procs -> Files \cup {None}]
  /\ num \in [Procs -> Numbers]
  /\ todo \in [Procs -> SUBSET Files]
  /\ stale \in [Procs -> SUBSET Numbers]
  /\ fresh \in 1 .. MaxFiles + 1
  /\ faults \in 0 .. MaxFaults

Init ==
  /\ staged = {} /\ complete = {} /\ reserved = {}
  /\ returned = {} /\ removed = {} /\ gone = {} /\ early = {}
  /\ named = [k \in Numbers |-> None]
  /\ disk = [k \in Numbers |-> {None}]
  /\ ghosts = [files |-> {}, locks |-> {}]
  /\ flock = [i \in Files |-> None]
  /\ spoolGuard = None
  /\ publishGuard = [k \in Numbers |-> None]
  /\ pc = [p \in Procs |-> "idle"]
  /\ file = [p \in Procs |-> None]
  /\ num = [p \in Procs |-> 0]
  /\ todo = [p \in Procs |-> {}]
  /\ stale = [p \in Procs |-> {}]
  /\ fresh = 1 /\ faults = 0

-----------------------------------------------------------------------------
\* The directory.

NamesOf(i) == {k \in Numbers : named[k] = i}

Links(i) == Cardinality({i} \cap staged) + Cardinality(NamesOf(i))

\* A pending record: a .json name of a file that has no other name.
Pending(k) == named[k] # None /\ Links(named[k]) = 1

Go(p, from, to) == pc[p] = from /\ pc' = [pc EXCEPT ![p] = to]

\* A guard can be tried: nobody else holds it (re-entrant for its holder).
Free(guard, p) == guard \in {None, p}

\* A file's lock can be tried.
Unlocked(i, p) == flock[i] \in {None, p}

\* A step that does not sync the root: its names may be there after a loss of
\* power or not, each for itself.
Unsynced ==
  /\ disk' = [k \in Numbers |-> disk[k] \cup {named'[k]}]
  /\ ghosts' = [files |-> ghosts.files \cup (staged \ staged'),
                locks |-> ghosts.locks \cup (reserved \ reserved')]

FaultySynced == Unsynced

\* What is seen now is what is there afterwards.
Settled ==
  /\ disk' = [k \in Numbers |-> {named'[k]}]
  /\ ghosts' = [files |-> {}, locks |-> {}]

\* _fsync_directory(root).
Synced == IF SyncWorks THEN Settled ELSE Unsynced

\* A step that removes a leftover syncs the root, one that skips it does not.
SyncedIf(changed) ==
  IF changed THEN Synced ELSE UNCHANGED <<disk, ghosts>>

-----------------------------------------------------------------------------
\* _prepare: recover half-published records, then clean hidden files.

BeginPrepare(p) ==
  /\ Go(p, "idle", "recovering")
  /\ todo' = [todo EXCEPT ![p] = staged]
  /\ UNCHANGED <<root, complete, reserved, locks, own, stale, fresh, faults,
                 history>>

FaultyHalfPublished(i) == i \in staged /\ Links(i) = 1

\* The file has its .json name and still its staging name.
HalfPublished(i) ==
  i \in staged /\ Links(i) = 2 /\ Cardinality(NamesOf(i)) = 1

\* A listed staging file whose record also has its .json name loses the
\* staging name; one that is busy or gone is left alone.
RecoverLink(p, i) ==
  /\ pc[p] = "recovering" /\ i \in todo[p]
  /\ todo' = [todo EXCEPT ![p] = @ \ {i}]
  /\ staged' = IF Free(spoolGuard, p) /\ Unlocked(i, p) /\ HalfPublished(i)
                 THEN staged \ {i} ELSE staged
  /\ UNCHANGED <<named, complete, reserved, locks, pc, own, stale, fresh,
                 faults, history>>
  /\ SyncedIf(staged' # staged)

BeginCleanup(p) ==
  /\ Go(p, "recovering", "cleaning")
  /\ todo[p] = {}
  /\ todo' = [todo EXCEPT ![p] = staged]
  /\ stale' = [stale EXCEPT ![p] = reserved]
  /\ UNCHANGED <<root, complete, reserved, locks, own, fresh, faults, history>>

FaultyStale(p, i) == Unlocked(i, p) /\ i \in staged /\ Links(i) = 1

\* A staging file is stale when nobody holds its guard or its lock and it is
\* the file's only name.
Stale(p, i) ==
  Free(spoolGuard, p) /\ Unlocked(i, p) /\ i \in staged /\ Links(i) = 1

CleanStaged(p, i) ==
  /\ pc[p] = "cleaning" /\ i \in todo[p]
  /\ todo' = [todo EXCEPT ![p] = @ \ {i}]
  /\ staged' = IF Stale(p, i) THEN staged \ {i} ELSE staged
  /\ UNCHANGED <<named, complete, reserved, locks, pc, own, stale, fresh,
                 faults, history>>
  /\ SyncedIf(staged' # staged)

\* A listed reservation file is removed under its guard; one whose guard is
\* held is skipped.
TakeReservation(p, k) ==
  /\ pc[p] = "cleaning"
  /\ k \in stale[p] /\ publishGuard[k] = None
  /\ publishGuard' = [publishGuard EXCEPT ![k] = p]
  /\ UNCHANGED <<root, complete, reserved, flock, spoolGuard, pc, own, pass,
                 fresh, faults, history>>

RemoveReservation(p, k) ==
  /\ pc[p] = "cleaning"
  /\ k \in stale[p] /\ publishGuard[k] = p
  /\ reserved' = reserved \ {k}
  /\ publishGuard' = [publishGuard EXCEPT ![k] = None]
  /\ stale' = [stale EXCEPT ![p] = @ \ {k}]
  /\ UNCHANGED <<staged, named, complete, flock, spoolGuard, pc, own, todo,
                 fresh, faults, history>>
  /\ SyncedIf(reserved' # reserved)

SkipReservation(p, k) ==
  /\ pc[p] = "cleaning"
  /\ k \in stale[p] /\ ~Free(publishGuard[k], p)
  /\ stale' = [stale EXCEPT ![p] = @ \ {k}]
  /\ UNCHANGED <<root, complete, reserved, locks, pc, own, todo, fresh, faults,
                 history>>

EndPrepare(p) ==
  /\ Go(p, "cleaning", "prepared")
  /\ todo[p] = {} /\ stale[p] = {}
  /\ UNCHANGED <<root, complete, reserved, locks, own, pass, fresh, faults,
                 history>>

-----------------------------------------------------------------------------
\* pending, stats and load only read; ack and enforce_retention remove.

EndRead(p) ==
  /\ Go(p, "prepared", "idle")
  /\ UNCHANGED <<root, complete, reserved, locks, own, pass, fresh, faults,
                 history>>

\* ack finds that its record is unlinked already, by a retention pass or by
\* another ack, and returns: no sync, though the other's may be to come.
AckMissing(p, i) ==
  /\ Go(p, "prepared", "idle")
  /\ i \in removed /\ NamesOf(i) = {}
  /\ gone' = gone \cup {i}
  /\ early' = IF \E k \in Numbers : i \in disk[k] THEN early \cup {i} ELSE early
  /\ UNCHANGED <<root, complete, reserved, locks, own, pass, fresh, faults,
                 returned, removed>>

\* ack unlinks one record, enforce_retention one after the other ...
Remove(p, k) ==
  /\ Go(p, "prepared", "removing") \/ Go(p, "removing", "removing")
  /\ Pending(k)
  /\ named' = [named EXCEPT ![k] = None]
  /\ todo' = [todo EXCEPT ![p] = @ \cup {named[k]}]
  /\ removed' = removed \cup {named[k]}
  /\ UNCHANGED <<staged, complete, reserved, locks, own, stale, fresh, faults,
                 returned, gone, early>>
  /\ Unsynced

\* ... and they sync the root before they return.
EndRemove(p) ==
  /\ Go(p, "removing", "idle")
  /\ gone' = gone \cup todo[p]
  /\ early' = early \ todo[p]
  /\ todo' = [todo EXCEPT ![p] = {}]
  /\ UNCHANGED <<staged, named, complete, reserved, locks, own, stale, fresh,
                 faults, returned, removed>>
  /\ Synced

-----------------------------------------------------------------------------
\* enqueue.

\* _write_staged takes the spool guard, and waits for it.
TakeSpoolGuard(p) ==
  /\ Go(p, "prepared", "stage")
  /\ spoolGuard = None /\ fresh <= MaxFiles
  /\ spoolGuard' = p
  /\ UNCHANGED <<root, complete, reserved, flock, publishGuard, own, pass,
                 fresh, faults, history>>

\* mkstemp: the file is there, empty and not yet locked.
Stage(p) ==
  /\ Go(p, "stage", "lock")
  /\ fresh <= MaxFiles
  /\ file' = [file EXCEPT ![p] = fresh]
  /\ staged' = staged \cup {fresh}
  /\ fresh' = fresh + 1
  /\ UNCHANGED <<named, disk, ghosts, complete, reserved, locks, num, pass,
                 faults, history>>

LockStaged(p) ==
  /\ Go(p, "lock", "write")
  /\ flock[file[p]] = None
  /\ flock' = [flock EXCEPT ![file[p]] = p]
  /\ UNCHANGED <<root, complete, reserved, spoolGuard, publishGuard, own, pass,
                 fresh, faults, history>>

FaultyWrite(p) ==
  /\ Go(p, "write", "reserve")
  /\ UNCHANGED <<root, complete, reserved, locks, own, pass, fresh, faults,
                 history>>

\* The content is written and the file synced.
Write(p) ==
  /\ Go(p, "write", "reserve")
  /\ complete' = complete \cup {file[p]}
  /\ UNCHANGED <<root, reserved, locks, own, pass, fresh, faults, history>>

\* enqueue gives up: the file loses its lock and its staging name.
Abandon(p) ==
  /\ flock' = [flock EXCEPT ![file[p]] = None]
  /\ staged' = staged \ {file[p]}
  /\ file' = [file EXCEPT ![p] = None]
  /\ UNCHANGED <<named, complete, spoolGuard, num, pass, fresh, history>>
  /\ Unsynced

\* The write fails (no space left): enqueue raises after cleaning up.
WriteFails(p) ==
  /\ faults < MaxFaults /\ faults' = faults + 1
  /\ Go(p, "write", "release")
  /\ UNCHANGED <<reserved, publishGuard>>
  /\ Abandon(p)

\* Numbers left to try: the bound of the loop over names.
MoreNumbers(p) == num[p] + 1 \in Numbers

\* The number is reserved, a stale reservation of it removed first ...
Reserve(p) ==
  /\ Go(p, "reserve", "publish")
  /\ publishGuard[num[p]] = None
  /\ publishGuard' = [publishGuard EXCEPT ![num[p]] = p]
  /\ reserved' = reserved \cup {num[p]}
  /\ UNCHANGED <<staged, named, complete, flock, spoolGuard, own, pass, fresh,
                 faults, history>>
  /\ SyncedIf(num[p] \in reserved)

\* ... or another process is working on it, and the next one is tried.
ReserveBusy(p) ==
  /\ pc[p] = "reserve"
  /\ publishGuard[num[p]] # None
  /\ MoreNumbers(p)
  /\ num' = [num EXCEPT ![p] = @ + 1]
  /\ UNCHANGED <<root, complete, reserved, locks, pc, file, pass, fresh, faults,
                 history>>

FaultyVacant(k) == k \in Numbers

\* RENAME_NOREPLACE and link(2) fail on an existing name.
Vacant(k) == named[k] = None

\* renameat2 moves the file to its name in one step; the fallback gives it a
\* second name first.
Publish(p, mode) ==
  /\ Go(p, "publish", IF mode = "rename" THEN "sync" ELSE "unlinkStaged")
  /\ Vacant(num[p])
  /\ named' = [named EXCEPT ![num[p]] = file[p]]
  /\ staged' = IF mode = "rename" THEN staged \ {file[p]} ELSE staged
  /\ UNCHANGED <<complete, reserved, locks, own, pass, fresh, faults, history>>
  /\ Unsynced

\* ... and then takes the staging name away.
UnlinkStaged(p) ==
  /\ Go(p, "unlinkStaged", "sync")
  /\ staged' = staged \ {file[p]}
  /\ UNCHANGED <<named, complete, reserved, locks, own, pass, fresh, faults,
                 history>>
  /\ Unsynced

SyncRoot(p) ==
  /\ Go(p, "sync", "unreserve")
  /\ UNCHANGED <<staged, named, complete, reserved, locks, own, pass, fresh,
                 faults, history>>
  /\ Synced

\* _release_reservation: unlink the reservation file, then drop its guard.
Unreserve(p) ==
  /\ reserved' = reserved \ {num[p]}
  /\ publishGuard' = [publishGuard EXCEPT ![num[p]] = None]

\* The name is taken: the next number is tried.
NameTaken(p) ==
  /\ Go(p, "publish", "reserve")
  /\ ~Vacant(num[p]) /\ MoreNumbers(p)
  /\ Unreserve(p)
  /\ num' = [num EXCEPT ![p] = @ + 1]
  /\ UNCHANGED <<staged, named, complete, flock, spoolGuard, file, pass, fresh,
                 faults, history>>
  /\ Unsynced

\* No name is left to try: enqueue raises.
Exhausted(p) ==
  /\ ~MoreNumbers(p)
  /\ \/ /\ Go(p, "reserve", "release")
        /\ publishGuard[num[p]] # None
        /\ UNCHANGED <<reserved, publishGuard>>
     \/ /\ Go(p, "publish", "release")
        /\ ~Vacant(num[p])
        /\ Unreserve(p)
  /\ UNCHANGED faults
  /\ Abandon(p)

Published(p) ==
  /\ Go(p, "unreserve", "release")
  /\ Unreserve(p)
  /\ flock' = [flock EXCEPT ![file[p]] = None]
  /\ UNCHANGED <<staged, named, complete, spoolGuard, own, pass, fresh, faults,
                 history>>
  /\ Unsynced

\* The publication or its fsync fails: the staging name is taken away, the
\* reservation file stays behind, and enqueue raises even if it was published.
PublishFails(p) ==
  /\ faults < MaxFaults /\ faults' = faults + 1
  /\ \E step \in {"publish", "unlinkStaged", "sync"} : Go(p, step, "release")
  /\ publishGuard' = [publishGuard EXCEPT ![num[p]] = None]
  /\ UNCHANGED reserved
  /\ Abandon(p)

\* The guard is dropped; enqueue returns, or raises if a step had failed.
ReleaseSpoolGuard(p) ==
  /\ Go(p, "release", "idle")
  /\ spoolGuard' = None
  /\ returned' = returned \cup ({file[p]} \ {None})
  /\ file' = [file EXCEPT ![p] = None]
  /\ num' = [num EXCEPT ![p] = 0]
  /\ UNCHANGED <<root, complete, reserved, flock, publishGuard, pass, fresh,
                 faults, removed, gone, early>>

-----------------------------------------------------------------------------
\* The processes D are gone and the system drops their locks.
Fall(D) ==
  /\ faults < MaxFaults /\ faults' = faults + 1
  /\ pc' = [p \in Procs |-> IF p \in D THEN "down" ELSE pc[p]]
  /\ flock' = [i \in Files |-> IF flock[i] \in D THEN None ELSE flock[i]]
  /\ spoolGuard' = IF spoolGuard \in D THEN None ELSE spoolGuard
  /\ publishGuard' = [k \in Numbers |->
                        IF publishGuard[k] \in D THEN None ELSE publishGuard[k]]
  /\ file' = [p \in Procs |-> IF p \in D THEN None ELSE file[p]]
  /\ num' = [p \in Procs |-> IF p \in D THEN 0 ELSE num[p]]
  /\ todo' = [p \in Procs |-> IF p \in D THEN {} ELSE todo[p]]
  /\ stale' = [p \in Procs |-> IF p \in D THEN {} ELSE stale[p]]
  /\ UNCHANGED <<complete, fresh, history>>

\* A process is killed, or ended by an exception; its files stay.
Crash(p) ==
  /\ pc[p] # "down"
  /\ Fall({p})
  /\ UNCHANGED <<root, reserved>>

\* The machine loses its power: of the names no sync has covered any may be
\* there afterwards.
PowerLoss ==
  /\ Fall(Procs)
  /\ named' \in {f \in [Numbers -> Files \cup {None}] :
                   \A k \in Numbers : f[k] \in disk[k]}
  /\ staged' \in SUBSET (staged \cup ghosts.files)
  /\ reserved' \in SUBSET (reserved \cup ghosts.locks)
  /\ Settled

Restart(p) ==
  /\ Go(p, "down", "idle")
  /\ UNCHANGED <<root, complete, reserved, locks, own, pass, fresh, faults,
                 history>>

Prepare(p) ==
  \/ BeginPrepare(p) \/ BeginCleanup(p) \/ EndPrepare(p)
  \/ \E i \in Files : RecoverLink(p, i) \/ CleanStaged(p, i)
  \/ \E k \in Numbers : TakeReservation(p, k) \/ RemoveReservation(p, k)
                           \/ SkipReservation(p, k)

EnqueueStep(p) ==
  \/ Stage(p) \/ LockStaged(p) \/ Write(p) \/ Reserve(p) \/ ReserveBusy(p)
  \/ \E mode \in PublishModes : Publish(p, mode)
  \/ UnlinkStaged(p) \/ SyncRoot(p) \/ NameTaken(p) \/ Exhausted(p)
  \/ Published(p) \/ ReleaseSpoolGuard(p)

Running(p) == Prepare(p) \/ EnqueueStep(p) \/ EndRemove(p) \/ Restart(p)

Next ==
  \/ PowerLoss
  \/ \E p \in Procs :
       \/ Running(p) \/ EndRead(p) \/ TakeSpoolGuard(p)
       \/ WriteFails(p) \/ PublishFails(p) \/ Crash(p)
       \/ \E k \in Numbers : Remove(p, k)
       \/ \E i \in Files : AckMissing(p, i)

Spec == Init /\ [][Next]_vars

\* A process that runs goes on, one that crashed is restarted, and each keeps
\* calling operations (the heartbeat's pending()); which ones is open.
FairSpec == Spec /\ \A p \in Procs : WF_vars(Running(p)) /\ WF_vars(EndRead(p))

-----------------------------------------------------------------------------
\* Properties.

(* No step of any process, and no loss of power, makes an unfinished file    *)
(* visible as a record: what has a .json name is completely written          *)
(* ("without ever exposing a partial .json file", spool.py:73), and has only *)
(* one such name.                                                            *)
OnlyCompleteRecords ==
  \A i \in Files :
    NamesOf(i) # {} => i \in complete /\ Cardinality(NamesOf(i)) = 1

(* Another process's cleanup never takes a staging file away from a running  *)
(* enqueue, not even between mkstemp and the file's lock (spool.py:252-282). *)
StagingSurvives ==
  \A p \in Procs : pc[p] \in Staging => file[p] \in staged

(* Where the root can be synced, what enqueue returned for is a record until *)
(* ack or retention unlinks it: no crash, loss of power, cleanup or          *)
(* colliding publication of another process takes it away (spool.py:72-104,  *)
(* 282-306).                                                                 *)
ReturnedIsKept ==
  \A i \in returned : NamesOf(i) # {} \/ i \in removed

(* Where the root can be synced, a record whose ack or eviction has returned *)
(* never comes back, neither after a loss of power nor through a recovery    *)
(* (spool.py:142-144, 184-186).  The exception is an ack that found the      *)
(* record unlinked but not yet synced by another process: it returns without *)
(* a sync (spool.py:140-141), and a loss of power before the other's sync    *)
(* brings the record back.                                                   *)
RemovedStaysGone == \A i \in gone \ early : NamesOf(i) = {}

(* What crashes and losses of power leave half published, staged or reserved *)
(* is recovered or removed by the processes that go on: when no more records *)
(* come, no staging file is left, and no reservation that would push records *)
(* to other names (spool.py:690-735, 822-865).                               *)
LeftoversGo == <>[](staged = {} /\ reserved = {})
=============================================================================
