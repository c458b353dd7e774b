------------------------- MODULE SpoolFiles_proofs --------------------------
(* Theorems about SpoolFiles: what holds of records and staging files for   *)
(* every number of processes, files, names, crashes and losses of power.    *)
EXTENDS SpoolFiles, FiniteSetTheorems, TLAPS

Typed ==
  /\ named \in [Numbers -> Files \cup {None}]
  /\ disk \in [Numbers -> SUBSET (Files \cup {None})]
  /\ pc \in [Procs -> PCs]
  /\ file \in [Procs -> Files \cup {None}]
  /\ num \in [Procs -> Numbers]
  /\ todo = [p \in Procs |-> todo[p]]
  /\ fresh \in Nat \ {0}

\* From the guard on, a process is in enqueue.
Enqueuing == Staging \cup {"stage", "unlinkStaged", "sync", "unreserve", "release"}

\* Published, and safe from a loss of power until it is removed.
Kept(i) ==
  SyncWorks => i \in removed \/ \E k \in Numbers : named[k] = i /\ disk[k] = {i}

\* No loss of power brings the file back.
NoReturn(i) ==
  SyncWorks /\ i \notin early => \A k \in Numbers : i \notin disk[k]

(* What a loss of power may leave is as good as what is seen now: complete  *)
(* files, none of them under two names, none whose removal has returned and *)
(* was synced.                                                              *)
Shared ==
  /\ \A k \in Numbers : named[k] \in disk[k]
  /\ \A k \in Numbers : \A i \in disk[k] : i # None => i \in complete /\ i < fresh
  /\ \A k, l \in Numbers : \A i \in Files : i \in disk[k] /\ i \in disk[l] => k = l
  /\ \A i \in removed : i \in Files /\ i < fresh
  /\ \A i \in gone : i \in removed /\ NoReturn(i)
  /\ \A i \in returned : i \in Files /\ Kept(i)

(* Where a process stands tells what has become of its file.                *)
Own(p) ==
  /\ pc[p] \in Enqueuing => spoolGuard = p
  /\ pc[p] \in Enqueuing \ {"stage", "release"} => file[p] \in Files
  /\ pc[p] \in Staging =>
       /\ file[p] \in staged /\ file[p] < fresh /\ file[p] \notin removed
       /\ \A k \in Numbers : file[p] \notin disk[k]
  /\ pc[p] \in {"reserve", "publish"} => file[p] \in complete
  /\ pc[p] \in {"unlinkStaged", "sync"} =>
       file[p] \in removed \/ \E k \in Numbers : named[k] = file[p]
  /\ pc[p] = "unreserve" \/ (pc[p] = "release" /\ file[p] # None) =>
       Kept(file[p])
  /\ pc[p] = "prepared" => todo[p] = {}
  /\ pc[p] = "removing" =>
       \A i \in todo[p] : i \in removed /\ \A k \in Numbers : named[k] # i

IInv == Typed /\ Shared /\ \A p \in Procs : Own(p)

LEMMA IInvInit == Init => IInv
<1> SUFFICES ASSUME Init PROVE IInv
  OBVIOUS
<1>1. Typed
  BY NamesAssumption DEF Init, Typed, PCs
<1>2. Shared
  BY NoneAssumption DEF Init, Shared, NoReturn
<1>3. \A p \in Procs : Own(p)
  BY DEF Init, Own, Enqueuing, Staging
<1> QED  BY <1>1, <1>2, <1>3 DEF IInv

-----------------------------------------------------------------------------
\* Steps that publish and remove nothing.

\* No name changes, and a loss of power has no more choices than before.
Quiet ==
  /\ named' = named
  /\ disk' \in [Numbers -> SUBSET (Files \cup {None})]
  /\ \A k \in Numbers : named[k] \in disk'[k] /\ disk'[k] \subseteq disk[k]

LEMMA SyncIsQuiet ==
  ASSUME Typed, Shared, named' = named,
         Synced \/ Unsynced \/ UNCHANGED disk
  PROVE  Quiet
BY DEF Typed, Shared, Synced, Settled, Unsynced, Quiet

\* After a sync a loss of power leaves what is seen.
LEMMA SyncedNames ==
  ASSUME SyncWorks, Synced, NEW k \in Numbers PROVE disk'[k] = {named'[k]}
BY DEF Synced, Settled

LEMMA QuietKept ==
  ASSUME Typed, Shared, Quiet, removed' = removed, NEW i \in Files, Kept(i)
  PROVE  Kept(i)'
<1>1. CASE i \in removed \/ ~SyncWorks  BY <1>1 DEF Kept
<1>2. CASE i \notin removed /\ SyncWorks
  <2>1. PICK k \in Numbers : named[k] = i /\ disk[k] = {i}
    BY <1>2 DEF Kept
  <2>2. disk'[k] = {i}
    BY <2>1 DEF Quiet
  <2> QED  BY <2>1, <2>2 DEF Kept, Quiet
<1> QED  BY <1>1, <1>2

\* What is shared stays as good; gone and returned are looked at where they
\* grow.
LEMMA QuietShared ==
  ASSUME Typed, Shared, Quiet, complete \subseteq complete',
         fresh' \in Nat \ {0}, fresh <= fresh', removed' = removed,
         \A i \in gone' : i \in removed /\ NoReturn(i)',
         \A i \in returned' : i \in Files /\ Kept(i)'
  PROVE  Shared'
<1>2. \A k \in Numbers : named'[k] \in disk'[k]
  BY DEF Quiet
<1>3. \A k \in Numbers : \A i \in disk'[k] :
        i # None => i \in complete' /\ i < fresh'
  <2> SUFFICES ASSUME NEW k \in Numbers, NEW i \in disk'[k], i # None
               PROVE  i \in complete' /\ i < fresh'
    OBVIOUS
  <2>1. i \in disk[k] /\ i \in Files
    BY DEF Quiet
  <2> QED  BY <2>1 DEF Shared, Typed, Files
<1>4. \A k, l \in Numbers : \A i \in Files :
        i \in disk'[k] /\ i \in disk'[l] => k = l
  BY DEF Quiet, Shared
<1>5. \A i \in removed' : i \in Files /\ i < fresh'
  BY DEF Shared, Typed, Files
<1> QED  BY <1>2, <1>3, <1>4, <1>5 DEF Shared

\* A process that another one's step leaves alone.
LEMMA QuietOther ==
  ASSUME IInv, Quiet, NEW p \in Procs, NEW q \in Procs, q # p,
         complete \subseteq complete', fresh' \in Nat \ {0}, fresh <= fresh',
         removed' = removed, UNCHANGED <<pc[q], file[q], todo[q]>>,
         \/ spoolGuard' = spoolGuard /\ staged \subseteq staged'
         \/ spoolGuard \in {None, p}
  PROVE  Own(q)'
<1>1. Own(q) /\ Typed /\ Shared
  BY DEF IInv
<1>2. CASE pc[q] \notin Enqueuing
  BY <1>1, <1>2 DEF Own, Quiet, Enqueuing, Staging
<1>3. CASE pc[q] \in Enqueuing
  <2>1. spoolGuard = q /\ spoolGuard' = q /\ staged \subseteq staged'
    BY <1>1, <1>3, NoneAssumption DEF Own
  <2>2. PICK i : i = file[q]
    OBVIOUS
  <2>3. file'[q] = i /\ pc'[q] = pc[q] /\ i \in Files \cup {None}
    BY <1>1, <2>2 DEF Typed
  <2>4. i # None => (Kept(i) => Kept(i)')
    BY <1>1, <2>3, QuietKept
  <2>5. pc[q] \in Staging =>
          /\ i \in staged' /\ i < fresh' /\ i \notin removed'
          /\ \A k \in Numbers : i \notin disk'[k]
    <3> SUFFICES ASSUME pc[q] \in Staging
                 PROVE  /\ i \in staged' /\ i < fresh' /\ i \notin removed'
                        /\ \A k \in Numbers : i \notin disk'[k]
      OBVIOUS
    <3>1. /\ i \in Files /\ i \in staged /\ i < fresh /\ i \notin removed
          /\ \A k \in Numbers : i \notin disk[k]
      BY <1>1, <2>2 DEF Own, Enqueuing, Staging
    <3>2. i < fresh'
      BY <1>1, <3>1 DEF Typed, Files
    <3> QED  BY <2>1, <3>1, <3>2 DEF Quiet
  <2>6. pc[q] \in {"reserve", "publish"} => i \in complete'
    BY <1>1, <2>2 DEF Own
  <2>7. pc[q] \in {"unlinkStaged", "sync"} =>
          i \in removed' \/ \E k \in Numbers : named'[k] = i
    BY <1>1, <2>2 DEF Own, Quiet
  <2>8. pc[q] = "unreserve" \/ (pc[q] = "release" /\ i # None) => Kept(i)'
    BY <1>1, <2>2, <2>3, <2>4, NoneAssumption DEF Own, Enqueuing
  <2>9. Kept(i)' <=> Kept(file[q])'
    BY <2>3 DEF Kept
  <2>10. pc[q] \in Enqueuing \ {"stage", "release"} => i \in Files
    BY <1>1, <2>2 DEF Own
  <2> QED
    BY <1>3, <2>1, <2>3, <2>5, <2>6, <2>7, <2>8, <2>9, <2>10
       DEF Own, Enqueuing, Staging
<1> QED  BY <1>2, <1>3

\* One process goes on; the others keep their place, their file and their list.
Alone(p) ==
  /\ pc' \in [Procs -> PCs] /\ file' \in [Procs -> Files \cup {None}]
  /\ num' \in [Procs -> Numbers] /\ todo' = [q \in Procs |-> todo'[q]]
  /\ \A q \in Procs \ {p} : UNCHANGED <<pc[q], file[q], todo[q]>>

LEMMA QuietStep ==
  ASSUME IInv, Quiet, NEW p \in Procs, Alone(p), Own(p)',
         complete \subseteq complete', fresh' \in Nat \ {0}, fresh <= fresh',
         removed' = removed,
         \/ UNCHANGED <<gone, early>>
         \/ \A i \in gone' : i \in removed /\ NoReturn(i)',
         returned' = returned \/ \A i \in returned' : i \in Files /\ Kept(i)',
         \/ spoolGuard' = spoolGuard /\ staged \subseteq staged'
         \/ spoolGuard \in {None, p}
  PROVE  IInv'
<1>1. Typed'
  BY DEF IInv, Typed, Quiet, Alone
<1>0. Typed /\ Shared
  BY DEF IInv
<1>2. Shared'
  <2>1. \A i \in gone' : i \in removed /\ NoReturn(i)'
    BY <1>0 DEF Shared, Quiet, NoReturn
  <2>2. \A i \in returned' : i \in Files /\ Kept(i)'
    BY <1>0, QuietKept DEF Shared
  <2> QED  BY <1>0, <2>1, <2>2, QuietShared
<1>3. \A q \in Procs : q # p => Own(q)'
  BY QuietOther DEF Alone
<1> QED  BY <1>1, <1>2, <1>3 DEF IInv

\* Outside enqueue: recovery, cleanup, the end of an operation, a restart.
LEMMA IdleStep ==
  ASSUME IInv, NEW p \in Procs, Quiet,
         NEW to \in {"idle", "recovering", "cleaning", "prepared"},
         pc' = [pc EXCEPT ![p] = to],
         todo' = [q \in Procs |-> todo'[q]],
         \A q \in Procs \ {p} : todo'[q] = todo[q],
         to = "prepared" => todo'[p] = {},
         UNCHANGED <<complete, fresh, removed, gone, early, returned, file, num,
                     spoolGuard>>,
         staged \subseteq staged' \/ spoolGuard \in {None, p}
  PROVE  IInv'
<1>1. Alone(p) /\ pc'[p] = to /\ fresh \in Nat \ {0}
  BY DEF IInv, Typed, Alone, PCs
<1>2. Own(p)'
  BY <1>1 DEF Own, Enqueuing, Staging
<1> QED  BY <1>1, <1>2, QuietStep

\* What a step of _prepare does to the directory is quiet, and staging names
\* go only while no other process has the guard.
LEMMA PrepareStep ==
  ASSUME IInv, NEW p \in Procs, Prepare(p) PROVE IInv'
<1> USE DEF Go
<1>0. Typed /\ Shared
  BY DEF IInv
<1>1. CASE BeginPrepare(p)
  <2>1. Quiet
    BY <1>0, <1>1, SyncIsQuiet DEF BeginPrepare, root
  <2>2. todo' = [q \in Procs |-> todo'[q]] /\ \A q \in Procs \ {p} : todo'[q] = todo[q]
    BY <1>0, <1>1 DEF BeginPrepare, Typed
  <2> QED
    BY <1>1, <2>1, <2>2, IdleStep DEF BeginPrepare, root, locks, own, history
<1>2. CASE BeginCleanup(p)
  <2>1. Quiet
    BY <1>0, <1>2, SyncIsQuiet DEF BeginCleanup, root
  <2>2. todo' = [q \in Procs |-> todo'[q]] /\ \A q \in Procs \ {p} : todo'[q] = todo[q]
    BY <1>0, <1>2 DEF BeginCleanup, Typed
  <2> QED
    BY <1>2, <2>1, <2>2, IdleStep DEF BeginCleanup, root, locks, own, history
<1>3. CASE EndPrepare(p)
  <2>1. Quiet
    BY <1>0, <1>3, SyncIsQuiet DEF EndPrepare, root
  <2> QED
    BY <1>0, <1>3, <2>1, IdleStep
       DEF EndPrepare, Typed, root, locks, own, pass, history
<1>4. ASSUME NEW i \in Files, RecoverLink(p, i) \/ CleanStaged(p, i) PROVE IInv'
  <2>1. Quiet
    BY <1>0, <1>4, SyncIsQuiet DEF RecoverLink, CleanStaged, SyncedIf
  <2>2. todo' = [q \in Procs |-> todo'[q]] /\ \A q \in Procs \ {p} : todo'[q] = todo[q]
    BY <1>0, <1>4 DEF RecoverLink, CleanStaged, Typed
  <2>3. PICK to \in {"recovering", "cleaning"} : pc' = [pc EXCEPT ![p] = to]
    BY <1>0, <1>4 DEF RecoverLink, CleanStaged, Typed
  <2>4. staged' = staged \/ spoolGuard \in {None, p}
    BY <1>4 DEF RecoverLink, CleanStaged, Stale, Free
  <2> QED
    BY <1>4, <2>1, <2>2, <2>3, <2>4, IdleStep
       DEF RecoverLink, CleanStaged, locks, own, history
<1>5. ASSUME NEW k \in Numbers,
             TakeReservation(p, k) \/ RemoveReservation(p, k) \/ SkipReservation(p, k)
      PROVE  IInv'
  <2>1. Quiet
    BY <1>0, <1>5, SyncIsQuiet
       DEF TakeReservation, RemoveReservation, SkipReservation, SyncedIf, root
  <2>2. /\ pc' = [pc EXCEPT ![p] = "cleaning"]
        /\ UNCHANGED <<todo, staged, complete, fresh, removed, gone, early,
                       returned,
                       file, num, spoolGuard>>
    BY <1>0, <1>5
       DEF TakeReservation, RemoveReservation, SkipReservation, Typed, root, own,
           pass, history, locks
  <2> QED  BY <1>0, <2>1, <2>2, IdleStep DEF Typed
<1> QED  BY <1>1, <1>2, <1>3, <1>4, <1>5 DEF Prepare

LEMMA EndStep ==
  ASSUME IInv, NEW p \in Procs, EndRead(p) \/ Restart(p) PROVE IInv'
<1>0. Typed /\ Shared
  BY DEF IInv
<1>1. Quiet
  BY <1>0, SyncIsQuiet DEF EndRead, Restart, root
<1>2. /\ pc' = [pc EXCEPT ![p] = "idle"]
      /\ UNCHANGED <<todo, staged, complete, fresh, removed, gone, early,
                     returned,
                     file, num, spoolGuard>>
  BY DEF EndRead, Restart, Go, root, own, pass, history, locks
<1> QED  BY <1>0, <1>1, <1>2, IdleStep DEF Typed

-----------------------------------------------------------------------------
\* ack and retention.

LEMMA RemoveStep ==
  ASSUME IInv, NEW p \in Procs, NEW k \in Numbers, Remove(p, k) PROVE IInv'
<1>0. Typed /\ Shared /\ \A q \in Procs : Own(q)
  BY DEF IInv
<1>1. PICK i : i = named[k] /\ i \in Files /\ i \in disk[k] /\ i < fresh
  BY <1>0 DEF Remove, Pending, Typed, Shared
<1>2. /\ named' = [named EXCEPT ![k] = None]
      /\ disk' = [l \in Numbers |-> disk[l] \cup {named'[l]}]
      /\ removed' = removed \cup {i}
      /\ todo' = [todo EXCEPT ![p] = @ \cup {i}]
      /\ UNCHANGED <<staged, complete, fresh, returned, gone, early, file,
                     num, spoolGuard>>
  BY <1>1 DEF Remove, Unsynced, locks, own
<1>3. /\ named'[k] = None
      /\ \A l \in Numbers \ {k} : named'[l] = named[l] /\ named[l] # i
      /\ \A l \in Numbers : disk'[l] \subseteq disk[l] \cup {None}
      /\ \A l \in Numbers \ {k} : disk'[l] = disk[l]
  BY <1>0, <1>1, <1>2 DEF Typed, Shared
<1>4. pc[p] \in {"prepared", "removing"} /\ pc' = [pc EXCEPT ![p] = "removing"]
  BY DEF Remove, Go
<1>5. Typed'
  <2>1. /\ named' \in [Numbers -> Files \cup {None}]
        /\ todo' = [q \in Procs |-> todo'[q]]
        /\ pc' \in [Procs -> PCs]
    BY <1>0, <1>2, <1>4 DEF Typed, PCs
  <2>2. disk' \in [Numbers -> SUBSET (Files \cup {None})]
    BY <1>0, <1>2, <2>1 DEF Typed
  <2> QED  BY <1>0, <1>2, <2>1, <2>2 DEF Typed
<1>6. ASSUME NEW j \in Files, Kept(j) PROVE Kept(j)'
  <2>1. CASE j \in removed \/ j = i \/ ~SyncWorks  BY <1>2, <2>1 DEF Kept
  <2>2. CASE j \notin removed /\ j # i /\ SyncWorks
    <3>1. PICK l \in Numbers : named[l] = j /\ disk[l] = {j}
      BY <1>6, <2>2 DEF Kept
    <3>2. l # k
      BY <1>1, <2>2, <3>1
    <3> QED  BY <1>3, <3>1, <3>2 DEF Kept
  <2> QED  BY <2>1, <2>2
<1>7. Shared'
  <2>1. \A l \in Numbers : named'[l] \in disk'[l]
    BY <1>0, <1>2, <1>5 DEF Typed
  <2>2. \A l \in Numbers : \A j \in disk'[l] : j # None => j \in complete' /\ j < fresh'
    BY <1>0, <1>2, <1>3 DEF Shared
  <2>3. \A l, m \in Numbers : \A j \in Files :
          j \in disk'[l] /\ j \in disk'[m] => l = m
    BY <1>0, <1>3, NoneAssumption DEF Shared
  <2>4. \A j \in removed' : j \in Files /\ j < fresh'
    BY <1>0, <1>1, <1>2 DEF Shared
  <2>5. \A j \in gone' : j \in removed' /\ NoReturn(j)'
    BY <1>0, <1>2, <1>3, NoneAssumption DEF Shared, NoReturn
  <2>6. \A j \in returned' : j \in Files /\ Kept(j)'
    BY <1>0, <1>2, <1>6 DEF Shared
  <2> QED  BY <2>1, <2>2, <2>3, <2>4, <2>5, <2>6 DEF Shared
<1>8. ASSUME NEW q \in Procs PROVE Own(q)'
  <2>1. file'[q] = file[q] /\ Own(q)
    BY <1>0, <1>2
  <2>2. PICK j : j = file[q]
    OBVIOUS
  <2>3. (j \in Files => (Kept(j) => Kept(j)')) /\ (Kept(j)' <=> Kept(file[q])')
        /\ j \in Files \cup {None}
    BY <1>0, <1>6, <2>1, <2>2 DEF Kept, Typed
  <2>4. pc[q] \in Staging => j \notin removed' /\ \A l \in Numbers : j \notin disk'[l]
    BY <1>0, <1>1, <1>2, <1>3, <2>1, <2>2, NoneAssumption
       DEF Own, Enqueuing, Staging
  <2>5. pc[q] \in {"unlinkStaged", "sync"} =>
          j \in removed' \/ \E l \in Numbers : named'[l] = j
    BY <1>1, <1>2, <1>3, <2>1, <2>2 DEF Own
  <2>6. pc'[q] = "removing" =>
          \A x \in todo'[q] : x \in removed' /\ \A l \in Numbers : named'[l] # x
    BY <1>0, <1>1, <1>2, <1>3, <1>4, <2>1, NoneAssumption DEF Typed, Own, Shared
  <2>7. CASE q = p
    BY <1>0, <1>4, <2>6, <2>7 DEF Typed, Own, Enqueuing, Staging
  <2>8. CASE q # p
    <3>1. pc'[q] = pc[q] /\ todo'[q] = todo[q]
      BY <1>0, <1>2, <1>4, <2>8 DEF Typed
    <3> QED
      BY <1>2, <2>1, <2>2, <2>3, <2>4, <2>5, <2>6, <3>1, NoneAssumption
         DEF Own, Enqueuing, Staging
  <2> QED  BY <2>7, <2>8
<1> QED  BY <1>5, <1>7, <1>8 DEF IInv

LEMMA AckMissingStep ==
  ASSUME IInv, NEW p \in Procs, NEW i \in Files, AckMissing(p, i) PROVE IInv'
<1>0. Typed /\ Shared
  BY DEF IInv
<1>1. Quiet
  BY <1>0, SyncIsQuiet DEF AckMissing, root
<1>2. /\ pc' = [pc EXCEPT ![p] = "idle"] /\ i \in removed
      /\ gone' = gone \cup {i}
      /\ early' = IF \E k \in Numbers : i \in disk[k] THEN early \cup {i} ELSE early
      /\ UNCHANGED <<named, disk, staged, complete, fresh, removed, returned,
                     file,
                     num, todo, spoolGuard>>
  BY DEF AckMissing, Go, locks, own, pass, root
<1>3. \A j \in gone' : j \in removed /\ NoReturn(j)'
  BY <1>0, <1>2 DEF Shared, NoReturn
<1>4. Alone(p) /\ pc'[p] = "idle" /\ fresh \in Nat \ {0}
  BY <1>0, <1>2 DEF Alone, Typed, PCs
<1>5. Own(p)'
  BY <1>4 DEF Own, Enqueuing, Staging
<1> QED  BY <1>1, <1>2, <1>3, <1>4, <1>5, QuietStep

LEMMA EndRemoveStep ==
  ASSUME IInv, NEW p \in Procs, EndRemove(p) PROVE IInv'
<1>0. Typed /\ Shared /\ Own(p)
  BY DEF IInv
<1>1. Quiet
  BY <1>0, SyncIsQuiet DEF EndRemove
<1>2. /\ pc[p] = "removing" /\ pc' = [pc EXCEPT ![p] = "idle"]
      /\ gone' = gone \cup todo[p] /\ early' = early \ todo[p]
      /\ todo' = [todo EXCEPT ![p] = {}]
      /\ UNCHANGED <<named, staged, complete, fresh, removed, returned, file,
                     num,
                     spoolGuard>>
  BY DEF EndRemove, Go, locks, own
<1>3. SyncWorks => \A k \in Numbers : disk'[k] = {named[k]}
  BY <1>2, SyncedNames DEF EndRemove
<1>4. \A i \in gone' : i \in removed /\ NoReturn(i)'
  <2> SUFFICES ASSUME NEW i \in gone' PROVE i \in removed /\ NoReturn(i)'
    OBVIOUS
  <2>1. CASE i \in todo[p]
    BY <1>0, <1>2, <1>3, <2>1 DEF Own, NoReturn
  <2>2. CASE i \notin todo[p]
    BY <1>0, <1>1, <1>2, <2>2 DEF Shared, NoReturn, Quiet
  <2> QED  BY <2>1, <2>2
<1>5. Alone(p) /\ pc'[p] = "idle" /\ fresh \in Nat \ {0}
  BY <1>0, <1>2 DEF Alone, Typed, PCs
<1>6. Own(p)'
  BY <1>5 DEF Own, Enqueuing, Staging
<1> QED  BY <1>1, <1>2, <1>4, <1>5, <1>6, QuietStep

-----------------------------------------------------------------------------
\* enqueue: staging, and giving up.

LEMMA TakeGuardStep ==
  ASSUME IInv, NEW p \in Procs, TakeSpoolGuard(p) PROVE IInv'
<1>0. Typed /\ Shared
  BY DEF IInv
<1>1. Quiet
  BY <1>0, SyncIsQuiet DEF TakeSpoolGuard, root
<1>2. /\ pc' = [pc EXCEPT ![p] = "stage"]
      /\ spoolGuard = None /\ spoolGuard' = p
      /\ UNCHANGED <<staged, complete, fresh, removed, gone, early, returned,
                     file, num,
                     todo>>
  BY DEF TakeSpoolGuard, Go, root, own, pass, history
<1>3. Alone(p) /\ pc'[p] = "stage" /\ fresh \in Nat \ {0}
  BY <1>0, <1>2 DEF Alone, Typed, PCs
<1>4. Own(p)'
  BY <1>2, <1>3 DEF Own, Enqueuing, Staging
<1> QED  BY <1>1, <1>2, <1>3, <1>4, QuietStep

LEMMA StageStep ==
  ASSUME IInv, NEW p \in Procs, Stage(p) PROVE IInv'
<1>0. Typed /\ Shared /\ Own(p)
  BY DEF IInv
<1>1. Quiet
  BY <1>0, SyncIsQuiet DEF Stage
<1>2. /\ pc[p] = "stage" /\ pc' = [pc EXCEPT ![p] = "lock"]
      /\ fresh \in Files /\ fresh' = fresh + 1
      /\ file' = [file EXCEPT ![p] = fresh] /\ staged' = staged \cup {fresh}
      /\ UNCHANGED <<complete, removed, gone, early, returned, num, todo,
                     spoolGuard>>
  BY <1>0 DEF Stage, Go, pass, history, locks, Files, Typed
<1>3. /\ Alone(p) /\ pc'[p] = "lock" /\ file'[p] = fresh
      /\ fresh' \in Nat \ {0} /\ fresh < fresh' /\ fresh <= fresh'
  BY <1>0, <1>2 DEF Alone, Typed, PCs
<1>4. spoolGuard = p
  BY <1>0, <1>2 DEF Own, Enqueuing
<1>5. fresh \notin removed /\ \A k \in Numbers : fresh \notin disk[k]
  BY <1>0, <1>2, NoneAssumption DEF Shared, Typed
<1>6. \A k \in Numbers : fresh \notin disk'[k]
  BY <1>1, <1>5 DEF Quiet
<1>7. Own(p)'
  BY <1>2, <1>3, <1>4, <1>5, <1>6 DEF Own, Enqueuing, Staging
<1> QED  BY <1>1, <1>2, <1>3, <1>4, <1>7, QuietStep

\* The steps between mkstemp and the publication.
LEMMA StagingStep ==
  ASSUME IInv, NEW p \in Procs, Quiet, pc[p] \in Staging,
         NEW to \in Staging, pc' = [pc EXCEPT ![p] = to],
         num' \in [Procs -> Numbers], complete \subseteq complete',
         to \in {"reserve", "publish"} => file[p] \in complete',
         UNCHANGED <<staged, fresh, removed, gone, early, returned, file, todo,
                     spoolGuard>>
  PROVE  IInv'
<1>0. Typed /\ Shared /\ Own(p)
  BY DEF IInv
<1>1. Alone(p) /\ pc'[p] = to /\ file'[p] = file[p] /\ fresh \in Nat \ {0}
  BY <1>0 DEF Alone, Typed, PCs, Staging
<1>2. Own(p)'
  BY <1>0, <1>1 DEF Own, Enqueuing, Staging, Quiet
<1> QED  BY <1>1, <1>2, QuietStep

\* A step that gives the file up.
LEMMA AbandonStep ==
  ASSUME IInv, NEW p \in Procs, pc[p] \in Enqueuing, Abandon(p),
         pc' = [pc EXCEPT ![p] = "release"]
  PROVE  IInv'
<1>0. Typed /\ Shared /\ Own(p)
  BY DEF IInv
<1>1. Quiet
  BY <1>0, SyncIsQuiet DEF Abandon
<1>2. /\ file' = [file EXCEPT ![p] = None]
      /\ UNCHANGED <<complete, fresh, removed, gone, early, returned, num, todo,
                     spoolGuard>>
  BY DEF Abandon, pass, history
<1>3. /\ Alone(p) /\ pc'[p] = "release" /\ file'[p] = None
      /\ fresh \in Nat \ {0} /\ spoolGuard = p
  BY <1>0, <1>2 DEF Alone, Typed, PCs, Own
<1>4. Own(p)'
  BY <1>2, <1>3 DEF Own, Enqueuing, Staging
<1> QED  BY <1>1, <1>2, <1>3, <1>4, QuietStep

-----------------------------------------------------------------------------
\* enqueue: from the publication to the return.

LEMMA PublishStep ==
  ASSUME IInv, NEW p \in Procs, NEW mode, Publish(p, mode) PROVE IInv'
<1>0. Typed /\ Shared /\ \A q \in Procs : Own(q)
  BY DEF IInv
<1>1. PICK i, k : i = file[p] /\ k = num[p]
  OBVIOUS
<1>2. /\ pc[p] = "publish" /\ spoolGuard = p /\ k \in Numbers /\ i \in Files
      /\ i \in complete /\ i < fresh /\ i \notin removed
      /\ \A l \in Numbers : i \notin disk[l]
  BY <1>0, <1>1 DEF Publish, Go, Own, Typed, Enqueuing, Staging
<1>3. /\ named[k] = None /\ named' = [named EXCEPT ![k] = i]
      /\ disk' = [l \in Numbers |-> disk[l] \cup {named'[l]}]
      /\ UNCHANGED <<complete, fresh, returned, removed, gone, early, file,
                     num, todo,
                     spoolGuard>>
  BY <1>1 DEF Publish, Vacant, Unsynced, locks, own, pass, history
<1>4. PICK to \in {"sync", "unlinkStaged"} : pc' = [pc EXCEPT ![p] = to]
  BY DEF Publish, Go
<1>5. /\ named'[k] = i /\ disk'[k] = disk[k] \cup {i}
      /\ \A l \in Numbers \ {k} : named'[l] = named[l] /\ disk'[l] = disk[l]
  BY <1>0, <1>2, <1>3 DEF Typed, Shared
<1>6. Typed'
  <2>1. named' \in [Numbers -> Files \cup {None}] /\ pc' \in [Procs -> PCs]
    BY <1>0, <1>2, <1>3, <1>4 DEF Typed, PCs
  <2>2. disk' \in [Numbers -> SUBSET (Files \cup {None})]
    BY <1>0, <1>3, <2>1 DEF Typed
  <2> QED  BY <1>0, <1>3, <2>1, <2>2 DEF Typed
<1>7. ASSUME NEW j \in Files, Kept(j) PROVE Kept(j)'
  <2>1. CASE j \in removed \/ ~SyncWorks  BY <1>3, <2>1 DEF Kept
  <2>2. CASE j \notin removed /\ SyncWorks
    <3>1. PICK l \in Numbers : named[l] = j /\ disk[l] = {j}
      BY <1>7, <2>2 DEF Kept
    <3>2. l # k
      BY <1>3, <3>1, NoneAssumption
    <3> QED  BY <1>5, <3>1, <3>2 DEF Kept
  <2> QED  BY <2>1, <2>2
<1>8. Shared'
  <2>1. \A l \in Numbers : named'[l] \in disk'[l]
    BY <1>3
  <2>2. \A l \in Numbers : \A j \in disk'[l] :
          j # None => j \in complete' /\ j < fresh'
    BY <1>0, <1>2, <1>3, <1>5 DEF Shared
  <2>3. \A l, m \in Numbers : \A j \in Files :
          j \in disk'[l] /\ j \in disk'[m] => l = m
    BY <1>0, <1>2, <1>5 DEF Shared
  <2>4. \A j \in gone' : j \in removed' /\ NoReturn(j)'
    BY <1>0, <1>2, <1>3, <1>5 DEF Shared, NoReturn
  <2>5. \A j \in returned' : j \in Files /\ Kept(j)'
    BY <1>0, <1>3, <1>7 DEF Shared
  <2>6. \A j \in removed' : j \in Files /\ j < fresh'
    BY <1>0, <1>3 DEF Shared
  <2> QED  BY <2>1, <2>2, <2>3, <2>4, <2>5, <2>6 DEF Shared
<1>9. ASSUME NEW q \in Procs PROVE Own(q)'
  <2>1. CASE q = p
    <3>1. pc'[q] = to /\ file'[q] = i /\ spoolGuard' = q
      BY <1>0, <1>1, <1>2, <1>3, <1>4, <2>1 DEF Typed
    <3> QED  BY <1>2, <1>5, <3>1 DEF Own, Enqueuing, Staging
  <2>2. CASE q # p
    <3>1. pc'[q] = pc[q] /\ todo'[q] = todo[q] /\ pc[q] \notin Enqueuing
      BY <1>0, <1>2, <1>3, <1>4, <2>2 DEF Typed, Own
    <3>2. pc[q] = "removing" =>
            \A x \in todo[q] : x \in removed /\ \A l \in Numbers : named'[l] # x
      BY <1>0, <1>2, <1>5 DEF Own
    <3> QED  BY <1>0, <1>3, <3>1, <3>2 DEF Own, Enqueuing, Staging
  <2> QED  BY <2>1, <2>2
<1> QED  BY <1>6, <1>8, <1>9 DEF IInv

\* The sync makes the publication safe, the steps after it change no name.
LEMMA PublishedStep ==
  ASSUME IInv, NEW p \in Procs, UnlinkStaged(p) \/ SyncRoot(p) \/ Published(p)
  PROVE  IInv'
<1>0. Typed /\ Shared /\ Own(p)
  BY DEF IInv
<1>1. Quiet
  BY <1>0, SyncIsQuiet DEF UnlinkStaged, SyncRoot, Published
<1>2. UNCHANGED <<complete, fresh, removed, gone, early, returned, named,
                  file, num, todo,
                  spoolGuard>>
  BY DEF UnlinkStaged, SyncRoot, Published, locks, own, pass, history
<1>3. PICK to \in {"sync", "unreserve", "release"} : pc' = [pc EXCEPT ![p] = to]
  BY DEF UnlinkStaged, SyncRoot, Published, Go
<1>4. /\ Alone(p) /\ pc'[p] = to /\ fresh \in Nat \ {0} /\ spoolGuard = p
      /\ file'[p] = file[p]
  BY <1>0, <1>2, <1>3
     DEF Alone, Typed, PCs, Own, Enqueuing, UnlinkStaged, SyncRoot, Published, Go
<1>5. PICK i : i = file[p]
  OBVIOUS
<1>6. i \in Files
  BY <1>0, <1>5 DEF UnlinkStaged, SyncRoot, Published, Go, Own, Enqueuing, Staging
<1>7. CASE UnlinkStaged(p)
  <2>1. pc[p] = "unlinkStaged" /\ to = "sync"
    BY <1>0, <1>3, <1>7, <1>4 DEF UnlinkStaged, Go, Typed
  <2>2. Own(p)'
    BY <1>0, <1>2, <1>4, <1>5, <1>6, <2>1 DEF Own, Enqueuing, Staging
  <2> QED  BY <1>1, <1>2, <1>4, <2>2, QuietStep
<1>8. CASE SyncRoot(p)
  <2>1. pc[p] = "sync" /\ to = "unreserve"
    BY <1>0, <1>3, <1>8, <1>4 DEF SyncRoot, Go, Typed
  <2>2. i \in removed \/ \E k \in Numbers : named[k] = i
    BY <1>0, <1>5, <2>1 DEF Own
  <2>3. SyncWorks => \A k \in Numbers : disk'[k] = {named'[k]}
    BY <1>8, SyncedNames DEF SyncRoot
  <2>4. Kept(i)' /\ file'[p] = i
    BY <1>2, <1>4, <1>5, <2>2, <2>3 DEF Kept
  <2>5. Kept(file[p])'
    BY <2>4 DEF Kept
  <2>6. Own(p)'
    BY <1>2, <1>4, <1>6, <2>1, <2>4, <2>5 DEF Own, Enqueuing, Staging
  <2> QED  BY <1>1, <1>2, <1>4, <2>6, QuietStep
<1>9. CASE Published(p)
  <2>1. pc[p] = "unreserve" /\ to = "release"
    BY <1>0, <1>3, <1>9, <1>4 DEF Published, Go, Typed
  <2>2. Kept(i)
    <3>1. Kept(file[p])
      BY <1>0, <2>1 DEF Own
    <3> QED  BY <1>5, <3>1
  <2>3. Kept(i)' /\ file'[p] = i
    BY <1>0, <1>1, <1>2, <1>4, <1>5, <1>6, <2>2, QuietKept
  <2>4. Kept(file[p])'
    BY <2>3 DEF Kept
  <2>5. Own(p)'
    BY <1>2, <1>4, <1>6, <2>1, <2>3, <2>4 DEF Own, Enqueuing, Staging
  <2> QED  BY <1>1, <1>2, <1>4, <2>5, QuietStep
<1> QED  BY <1>7, <1>8, <1>9

LEMMA ReleaseStep ==
  ASSUME IInv, NEW p \in Procs, ReleaseSpoolGuard(p) PROVE IInv'
<1>0. Typed /\ Shared /\ Own(p)
  BY DEF IInv
<1>1. Quiet
  BY <1>0, SyncIsQuiet DEF ReleaseSpoolGuard, root
<1>2. /\ pc[p] = "release" /\ pc' = [pc EXCEPT ![p] = "idle"]
      /\ returned' = returned \cup ({file[p]} \ {None})
      /\ file' = [file EXCEPT ![p] = None] /\ num' = [num EXCEPT ![p] = 0]
      /\ UNCHANGED <<staged, complete, fresh, removed, gone, early, todo>>
  BY DEF ReleaseSpoolGuard, Go, root, pass
<1>3. PICK i : i = file[p]
  OBVIOUS
<1>4. i # None => i \in Files /\ Kept(i)
  BY <1>0, <1>2, <1>3 DEF Typed, Own, Kept
<1>5. \A j \in returned' : j \in Files /\ Kept(j)
  BY <1>0, <1>2, <1>3, <1>4 DEF Shared
<1>6. \A j \in returned' : j \in Files /\ Kept(j)'
  BY <1>0, <1>1, <1>2, <1>5, QuietKept
<1>7. Alone(p) /\ pc'[p] = "idle" /\ fresh \in Nat \ {0} /\ spoolGuard = p
  BY <1>0, <1>2, NamesAssumption DEF Alone, Typed, PCs, Own, Enqueuing
<1>8. Own(p)'
  BY <1>7 DEF Own, Enqueuing, Staging
<1> QED  BY <1>1, <1>2, <1>6, <1>7, <1>8, QuietStep

LEMMA EnqueueKeeps ==
  ASSUME IInv, NEW p \in Procs,
         EnqueueStep(p) \/ WriteFails(p) \/ PublishFails(p)
  PROVE  IInv'
<1>0. Typed /\ Shared /\ Own(p)
  BY DEF IInv
<1>1. CASE Stage(p)  BY <1>1, StageStep
<1>2. CASE LockStaged(p) \/ Write(p)
  <2>1. Quiet
    BY <1>0, <1>2, SyncIsQuiet DEF LockStaged, Write, root
  <2>2. PICK to \in {"write", "reserve"} :
          /\ pc[p] \in Staging
          /\ pc' = [pc EXCEPT ![p] = to]
          /\ to = "reserve" => file[p] \in complete'
    BY <1>2 DEF LockStaged, Write, Go, Staging
  <2>3. /\ complete \subseteq complete'
        /\ UNCHANGED <<staged, fresh, removed, gone, early, returned, file,
                       num, todo,
                       spoolGuard>>
    BY <1>2 DEF LockStaged, Write, root, own, pass, history, locks
  <2>4. to \in Staging /\ num' \in [Procs -> Numbers]
    BY <1>0, <2>3 DEF Staging, Typed
  <2>5. to \in {"reserve", "publish"} => file[p] \in complete'
    BY <2>2
  <2> QED  BY <2>1, <2>2, <2>3, <2>4, <2>5, StagingStep
<1>3. CASE Reserve(p) \/ ReserveBusy(p) \/ NameTaken(p)
  <2>1. Quiet
    BY <1>0, <1>3, SyncIsQuiet
       DEF Reserve, ReserveBusy, NameTaken, SyncedIf, root
  <2>2. PICK to \in {"reserve", "publish"} :
          /\ pc[p] \in {"reserve", "publish"}
          /\ pc' = [pc EXCEPT ![p] = to]
    BY <1>0, <1>3 DEF Reserve, ReserveBusy, NameTaken, Go, Typed
  <2>3. UNCHANGED <<staged, complete, fresh, removed, gone, early, returned,
                    file, todo,
                    spoolGuard>>
    BY <1>3 DEF Reserve, ReserveBusy, NameTaken, root, own, pass, history, locks
  <2>4. num' \in [Procs -> Numbers]
    BY <1>0, <1>3 DEF Reserve, ReserveBusy, NameTaken, MoreNumbers, own, Typed
  <2>5. file[p] \in complete
    BY <1>0, <2>2 DEF Own
  <2> QED  BY <2>1, <2>2, <2>3, <2>4, <2>5, StagingStep DEF Staging
<1>4. ASSUME NEW mode \in PublishModes, Publish(p, mode) PROVE IInv'
  BY <1>4, PublishStep
<1>5. CASE UnlinkStaged(p) \/ SyncRoot(p) \/ Published(p)
  BY <1>5, PublishedStep
<1>6. CASE Exhausted(p) \/ WriteFails(p) \/ PublishFails(p)
  BY <1>6, AbandonStep
     DEF Exhausted, WriteFails, PublishFails, Go, Enqueuing, Staging
<1>7. CASE ReleaseSpoolGuard(p)  BY <1>7, ReleaseStep
<1> QED  BY <1>1, <1>2, <1>3, <1>4, <1>5, <1>6, <1>7 DEF EnqueueStep

-----------------------------------------------------------------------------
\* Crashes and losses of power.

LEMMA FallTyped ==
  ASSUME Typed, NEW D \in SUBSET Procs, Fall(D)
  PROVE  /\ pc' \in [Procs -> PCs] /\ file' \in [Procs -> Files \cup {None}]
         /\ num' \in [Procs -> Numbers] /\ todo' = [q \in Procs |-> todo'[q]]
         /\ \A q \in D : pc'[q] = "down"
         /\ \A q \in Procs \ D : UNCHANGED <<pc[q], file[q], todo[q]>>
         /\ UNCHANGED <<complete, fresh, removed, gone, early, returned>>
BY NamesAssumption DEF Typed, Fall, PCs, history

LEMMA CrashStep ==
  ASSUME IInv, NEW p \in Procs, Crash(p) PROVE IInv'
<1>0. Typed /\ Shared /\ \A q \in Procs : Own(q)
  BY DEF IInv
<1>1. Quiet
  BY <1>0, SyncIsQuiet DEF Crash, root
<1>2. /\ Alone(p) /\ pc'[p] = "down"
      /\ UNCHANGED <<complete, fresh, removed, gone, early, returned>>
  BY <1>0, FallTyped DEF Crash, Alone
<1>3. Own(p)'
  BY <1>2 DEF Own, Enqueuing, Staging
<1>4. staged' = staged /\ (spoolGuard' = spoolGuard \/ spoolGuard = p)
  BY DEF Crash, Fall, root
<1> QED  BY <1>0, <1>1, <1>2, <1>3, <1>4, QuietStep DEF Typed

LEMMA PowerLossStep ==
  ASSUME IInv, PowerLoss PROVE IInv'
<1>0. Typed /\ Shared
  BY DEF IInv
<1>1. /\ \A q \in Procs : pc'[q] = "down"
      /\ UNCHANGED <<complete, fresh, removed, gone, early, returned>>
      /\ pc' \in [Procs -> PCs] /\ file' \in [Procs -> Files \cup {None}]
      /\ num' \in [Procs -> Numbers] /\ todo' = [q \in Procs |-> todo'[q]]
  BY <1>0, FallTyped DEF PowerLoss
<1>2. /\ named' \in [Numbers -> Files \cup {None}]
      /\ \A k \in Numbers : named'[k] \in disk[k] /\ disk'[k] = {named'[k]}
      /\ disk' = [k \in Numbers |-> {named'[k]}]
  BY DEF PowerLoss, Settled
<1>3. Typed'
  BY <1>0, <1>1, <1>2 DEF Typed
<1>4. ASSUME NEW i \in Files, Kept(i) PROVE Kept(i)'
  BY <1>1, <1>2, <1>4 DEF Kept
<1>5. Shared'
  <2>1. \A k \in Numbers : \A i \in disk'[k] : i # None => i \in complete' /\ i < fresh'
    BY <1>0, <1>1, <1>2 DEF Shared
  <2>2. \A k, l \in Numbers : \A i \in Files :
          i \in disk'[k] /\ i \in disk'[l] => k = l
    <3>1. \A k \in Numbers : \A i \in disk'[k] : i \in disk[k]
      BY <1>2
    <3> QED  BY <1>0, <3>1 DEF Shared
  <2>3. \A i \in gone' : i \in removed' /\ NoReturn(i)'
    BY <1>0, <1>1, <1>2 DEF Shared, NoReturn
  <2>4. \A i \in returned' : i \in Files /\ Kept(i)'
    BY <1>0, <1>1, <1>4 DEF Shared
  <2>5. \A i \in removed' : i \in Files /\ i < fresh'
    BY <1>0, <1>1 DEF Shared
  <2> QED  BY <1>2, <2>1, <2>2, <2>3, <2>4, <2>5 DEF Shared
<1>6. \A q \in Procs : Own(q)'
  BY <1>1 DEF Own, Enqueuing, Staging
<1> QED  BY <1>3, <1>5, <1>6 DEF IInv

LEMMA IInvStep == IInv /\ [Next]_vars => IInv'
<1> SUFFICES ASSUME IInv, [Next]_vars PROVE IInv'
  OBVIOUS
<1>1. ASSUME NEW p \in Procs, Running(p) PROVE IInv'
  BY <1>1, PrepareStep, EnqueueKeeps, EndRemoveStep, EndStep DEF Running
<1>2. ASSUME NEW p \in Procs, NEW k \in Numbers, Remove(p, k) PROVE IInv'
  BY <1>2, RemoveStep
<1>3. ASSUME NEW p \in Procs,
             \/ EndRead(p) \/ TakeSpoolGuard(p) \/ WriteFails(p)
             \/ PublishFails(p) \/ Crash(p)
      PROVE  IInv'
  BY <1>3, EndStep, TakeGuardStep, EnqueueKeeps, CrashStep
<1>5. ASSUME NEW p \in Procs, NEW i \in Files, AckMissing(p, i) PROVE IInv'
  BY <1>5, AckMissingStep
<1>4. ASSUME UNCHANGED vars PROVE IInv'
  <2>1. Typed' /\ Shared'
    BY <1>4 DEF vars, root, own, pass, history, IInv, Typed, Shared, Kept, NoReturn
  <2>2. \A p \in Procs : Own(p)'
    BY <1>4 DEF vars, root, own, locks, pass, history, IInv, Own, Kept
  <2> QED  BY <2>1, <2>2 DEF IInv
<1> QED  BY <1>1, <1>2, <1>3, <1>4, <1>5, PowerLossStep DEF Next

-----------------------------------------------------------------------------
\* The theorems.

(* No step, crash or loss of power makes an unfinished file visible as a    *)
(* record, or one record visible twice (spool.py:73).                       *)
THEOREM RecordsAreComplete == Spec => []OnlyCompleteRecords
<1>1. IInv => OnlyCompleteRecords
  <2> SUFFICES ASSUME IInv, NEW i \in Files, NamesOf(i) # {}
               PROVE  i \in complete /\ Cardinality(NamesOf(i)) = 1
    BY DEF OnlyCompleteRecords
  <2>1. PICK k \in Numbers : named[k] = i
    BY DEF NamesOf
  <2>2. i \in complete /\ NamesOf(i) = {k}
    BY <2>1, NoneAssumption DEF IInv, Shared, NamesOf
  <2> QED  BY <2>2, FS_Singleton
<1> QED  BY <1>1, IInvInit, IInvStep, PTL DEF Spec

(* No cleanup takes a staging file from a running enqueue                   *)
(* (spool.py:252-282).                                                      *)
THEOREM StagingIsKept == Spec => []StagingSurvives
<1>1. IInv => StagingSurvives
  BY DEF IInv, Own, StagingSurvives
<1> QED  BY <1>1, IInvInit, IInvStep, PTL DEF Spec

(* Where the root can be synced, what enqueue returned for stays a record   *)
(* until ack or retention removes it, though the power fails                *)
(* (spool.py:72-104).                                                       *)
THEOREM ReturnedRecordsAreKept ==
  ASSUME SyncWorks PROVE Spec => []ReturnedIsKept
<1>1. IInv => ReturnedIsKept
  BY DEF IInv, Shared, Kept, ReturnedIsKept, NamesOf
<1> QED  BY <1>1, IInvInit, IInvStep, PTL DEF Spec

(* Where the root can be synced, a record whose removal has returned never  *)
(* comes back, unless it was an ack that found the record unlinked and not  *)
(* yet synced by another process (spool.py:135-144, 184-186).               *)
THEOREM RemovedRecordsStayGone ==
  ASSUME SyncWorks PROVE Spec => []RemovedStaysGone
<1>1. IInv => RemovedStaysGone
  BY DEF IInv, Shared, NoReturn, RemovedStaysGone, NamesOf
<1> QED  BY <1>1, IInvInit, IInvStep, PTL DEF Spec
=============================================================================
