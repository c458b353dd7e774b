---------------------------- MODULE LinuxInstall ----------------------------
(* The transaction of deploy/linux/install.sh: it snapshots what is there,  *)
(* stages the new files beside the old ones, backs these up, swaps, starts  *)
(* the service and commits; the EXIT trap undoes a failed installation.     *)
(* Any command may fail, also one of the rollback, and the script may be    *)
(* killed.  A killing signal counts as that too: bash runs the trap with    *)
(* the status of the last command, mostly 0, for which it does nothing.     *)
(* Definitions named Faulty are wrong variants of the next definition.      *)
EXTENDS Naturals, Sequences

CONSTANT MaxFaults   \* bound on commands that fail

ASSUME FaultAssumption == MaxFaults \in Nat

Files   == {"environment", "unit"}
Things  == Files \cup {"runtime"}

\* The managed directories below those every system has, in their order.
ManagedDirs == <<"config", "unit", "state">>
Dirs == {ManagedDirs[i] : i \in 1 .. Len(ManagedDirs)}

VARIABLES
  prior,         \* snapshot: what existed before and the state of the service
  live,          \* per thing: what its place holds
  stage, kept,   \* per thing: its staged new version, its backup
  dirs,          \* per managed directory: absent, as it was, or as managed
  transaction,   \* the transaction directory: unset, made or removed
  running,       \* the runtime the service runs
  enabled, loaded, \* the service is enabled; the unit the manager has read
  written,       \* the service has run and may have written its state
  had, armed,    \* the script's had_* and *_armed flags that are set
  committed, rollbackFailed,
  pc, faults,
  failedAt       \* history: the step whose failure started the trap

disk    == <<live, stage, kept, dirs, transaction>>
service == <<running, enabled, loaded, written>>
flags   == <<had, armed, committed, rollbackFailed>>
vars    == <<prior, disk, service, flags, pc, faults, failedAt>>

Contents == {"none", "partial", "old", "new"}

\* What a place held when the script started.
Before(t) == IF t \in prior.things THEN "old" ELSE "none"
DirBefore(d) == IF d \in prior.dirs THEN "prior" ELSE "none"

\* A system without the agent, with all of it, or what an interrupted
\* installation or an administrator left.  Files lie in their directories;
\* the manager knows a service by its unit.
Snapshots ==
  {s \in [things : SUBSET Things, dirs : SUBSET Dirs,
          active : BOOLEAN, enabled : BOOLEAN] :
     /\ "environment" \in s.things => "config" \in s.dirs
     /\ "unit" \in s.things => "unit" \in s.dirs
     /\ s.active \/ s.enabled => "unit" \in s.things}

Init ==
  /\ prior \in Snapshots
  /\ live = [t \in Things |-> Before(t)]
  /\ stage = [t \in Things |-> "none"] /\ kept = [t \in Things |-> "none"]
  /\ dirs = [d \in Dirs |-> DirBefore(d)]
  /\ transaction = "unset"
  /\ running = (IF prior.active THEN "old" ELSE "none")
  /\ enabled = prior.enabled /\ loaded = Before("unit") /\ written = FALSE
  /\ had = {} /\ armed = {} /\ committed = FALSE /\ rollbackFailed = FALSE
  /\ pc = "directories" /\ faults = 0 /\ failedAt = "nowhere"

At(step) == pc = step /\ prior' = prior
Then(next) == pc' = next /\ UNCHANGED <<faults, failedAt>>
Fault == faults < MaxFaults /\ faults' = faults + 1

\* A command fails, set -e or fail ends the script, the trap takes over.
Fail == Fault /\ pc' = "undo_environment" /\ failedAt' = pc

-----------------------------------------------------------------------------
(* The installation.                                                        *)

\* The first n managed directories exist.
Created(n) ==
  [d \in Dirs |-> IF dirs[d] = "none" /\ \E i \in 1 .. n : ManagedDirs[i] = d
                  THEN "managed" ELSE dirs[d]]

MakeDirectories ==
  /\ At("directories")
  /\ \/ Then("modes") /\ dirs' = Created(Len(ManagedDirs))
     \/ Fail /\ \E n \in 0 .. Len(ManagedDirs) - 1 : dirs' = Created(n)
  /\ UNCHANGED <<live, stage, kept, transaction, service, flags>>

SecureDirectories ==
  /\ At("modes")
  /\ \/ /\ Then("transaction")
        /\ dirs' = [dirs EXCEPT !["config"] = "managed", !["state"] = "managed"]
     \/ Fail /\ dirs' \in {dirs, [dirs EXCEPT !["config"] = "managed"]}
  /\ UNCHANGED <<live, stage, kept, transaction, service, flags>>

\* Sets staged_runtime too, before the directory of that name exists.
MakeTransaction ==
  /\ At("transaction")
  /\ \/ Then("staging") /\ transaction' = "made"
     \/ Fail /\ UNCHANGED transaction
  /\ UNCHANGED <<live, stage, kept, dirs, service, flags>>

MakeStaging ==
  /\ At("staging")
  /\ \/ Then("runtime") /\ stage' = [stage EXCEPT !["runtime"] = "partial"]
     \/ Fail /\ UNCHANGED stage
  /\ UNCHANGED <<live, kept, dirs, transaction, service, flags>>

\* The virtual environment, the locked requirements, the wheel, the README.
BuildRuntime ==
  /\ At("runtime")
  /\ \/ Then("stage_environment") /\ stage' = [stage EXCEPT !["runtime"] = "new"]
     \/ Fail /\ UNCHANGED stage
  /\ UNCHANGED <<live, kept, dirs, transaction, service, flags>>

StageFile(t, step, next) ==
  /\ At(step)
  /\ \/ Then(next) /\ stage' = [stage EXCEPT ![t] = "new"]
     \/ Fail /\ \E c \in {"none", "partial"} : stage' = [stage EXCEPT ![t] = c]
  /\ UNCHANGED <<live, kept, dirs, transaction, service, flags>>

BackUp(t, step, next) ==
  /\ At(step)
  /\ \/ live[t] = "none" /\ Then(next) /\ UNCHANGED <<had, kept>>
     \/ /\ live[t] # "none" /\ had' = had \cup {t}
        /\ \/ Then(next) /\ kept' = [kept EXCEPT ![t] = live[t]]
           \/ Fail /\ \E c \in {"none", "partial"} : kept' = [kept EXCEPT ![t] = c]
  /\ UNCHANGED <<live, stage, dirs, transaction, service,
                 armed, committed, rollbackFailed>>

\* The old runtime moves into the transaction directory.
SetAsideRuntime ==
  /\ At("set_aside")
  /\ \/ live["runtime"] = "none" /\ Then("publish_runtime") /\ UNCHANGED <<had, live, kept>>
     \/ /\ live["runtime"] # "none" /\ had' = had \cup {"runtime"}
        /\ \/ /\ Then("publish_runtime")
              /\ kept' = [kept EXCEPT !["runtime"] = live["runtime"]]
              /\ live' = [live EXCEPT !["runtime"] = "none"]
           \/ Fail /\ UNCHANGED <<live, kept>>
  /\ UNCHANGED <<stage, dirs, transaction, service, armed, committed, rollbackFailed>>

\* The staged version of t moves to its place, over what is there.
Publish(t) ==
  /\ live' = [live EXCEPT ![t] = stage[t]]
  /\ stage' = [stage EXCEPT ![t] = "none"]

PublishRuntime ==
  /\ At("publish_runtime")
  /\ \/ Then("publish_environment") /\ Publish("runtime")
     \/ Fail /\ UNCHANGED <<live, stage>>
  /\ UNCHANGED <<kept, dirs, transaction, service, flags>>

PublishFile(t, step, next) ==
  /\ At(step)
  /\ armed' = armed \cup {t}
  /\ \/ Then(next) /\ Publish(t)
     \/ Fail /\ UNCHANGED <<live, stage>>
  /\ UNCHANGED <<kept, dirs, transaction, service, had, committed, rollbackFailed>>

ReloadManager ==
  /\ At("reload")
  /\ armed' = armed \cup {"activation"}
  /\ \/ Then("enable") /\ loaded' = live["unit"]
     \/ Fail /\ UNCHANGED loaded
  /\ UNCHANGED <<disk, running, enabled, written, had, committed, rollbackFailed>>

\* A command may have its effect and fail all the same.
EnableService ==
  /\ At("enable")
  /\ \/ Then("restart") /\ enabled' = TRUE
     \/ Fail /\ enabled' \in {enabled, TRUE}
  /\ UNCHANGED <<disk, running, loaded, written, flags>>

RestartService ==
  /\ At("restart")
  /\ \/ Then("check") /\ running' = live["runtime"] /\ written' = TRUE
     \/ Fail /\ \/ running' = live["runtime"] /\ written' = TRUE
                \/ running' \in {running, "none"} /\ UNCHANGED written
  /\ UNCHANGED <<disk, enabled, loaded, flags>>

FaultyCheckActive ==
  /\ At("check")
  /\ Then("commit") /\ running' \in {running, "none"}
  /\ UNCHANGED <<disk, enabled, loaded, written, flags>>

\* The service may have ended at once.
CheckActive ==
  /\ At("check")
  /\ \/ running # "none" /\ Then("commit") /\ UNCHANGED running
     \/ Fail /\ running' \in {running, "none"}
  /\ UNCHANGED <<disk, enabled, loaded, written, flags>>

-----------------------------------------------------------------------------
(* The end of the installation, and of the rollback.                        *)

Backups == [runtime |-> "transaction_dir", environment |-> "environment_backup",
            unit |-> "unit_backup"]
Stages  == [runtime |-> "transaction_dir", environment |-> "environment_stage",
            unit |-> "unit_stage"]

\* The temporary files and directories that exist.
Artifacts ==
  {Stages[t] : t \in {u \in Things : stage[u] # "none"}}
    \cup {Backups[t] : t \in {u \in Things : kept[u] # "none"}}
    \cup (IF transaction = "made" THEN {"transaction_dir"} ELSE {})

\* cleanup_artifacts tries them all and could not remove those in left.
CleanUp(left) ==
  /\ stage' = [t \in Things |-> IF Stages[t] \in left THEN stage[t] ELSE "none"]
  /\ kept' = [t \in Things |-> IF Backups[t] \in left THEN kept[t] ELSE "none"]
  /\ transaction' = IF transaction = "made" /\ "transaction_dir" \notin left
                    THEN "removed" ELSE transaction

Commit ==
  /\ At("commit") /\ Then("finish") /\ committed' = TRUE
  /\ UNCHANGED <<disk, service, had, armed, rollbackFailed>>

\* After the commit a failing cleanup is a failure, but nothing is undone.
Finish ==
  /\ At("finish")
  /\ \/ Then("installed") /\ CleanUp({})
     \/ /\ Fault /\ pc' = "last_cleanup" /\ failedAt' = pc
        /\ \E left \in SUBSET Artifacts \ {{}} : CleanUp(left)
  /\ UNCHANGED <<live, dirs, service, flags>>

\* The trap of a failure after the commit tries once more.
LastCleanup ==
  /\ At("last_cleanup")
  /\ pc' = "failed" /\ UNCHANGED failedAt
  /\ \/ CleanUp({}) /\ UNCHANGED faults
     \/ Fault /\ \E left \in SUBSET Artifacts \ {{}} : CleanUp(left)
  /\ UNCHANGED <<live, dirs, service, flags>>

-----------------------------------------------------------------------------
(* The rollback: it goes on after a step that fails, and says so.           *)

Skips(next) == Then(next) /\ UNCHANGED <<live, kept, rollbackFailed>>
StepFails(next) ==
  Fault /\ pc' = next /\ rollbackFailed' = TRUE /\ UNCHANGED <<failedAt, kept>>

\* t goes back to its place, over what is there.
Restore(t) ==
  /\ live' = [live EXCEPT ![t] = kept[t]]
  /\ kept' = [kept EXCEPT ![t] = "none"]
  /\ UNCHANGED rollbackFailed

UndoFile(t, step, next) ==
  /\ At(step)
  /\ \/ t \notin armed /\ Skips(next)
     \/ t \in armed \cap had /\ kept[t] # "none" /\ Then(next) /\ Restore(t)
     \/ /\ t \in armed \cap had /\ kept[t] = "none" /\ Then(next)
        /\ rollbackFailed' = TRUE /\ UNCHANGED <<live, kept>>
     \/ /\ t \in armed \ had /\ Then(next)
        /\ live' = [live EXCEPT ![t] = "none"] /\ UNCHANGED <<kept, rollbackFailed>>
     \/ t \in armed /\ StepFails(next) /\ UNCHANGED live
  /\ UNCHANGED <<stage, dirs, transaction, service, had, armed, committed>>

RuntimeSetAside == "runtime" \in had /\ kept["runtime"] # "none"

\* staged_runtime is named and not there: the script takes it for published.
TakenForPublished ==
  "runtime" \notin had /\ transaction = "made" /\ stage["runtime"] = "none"

\* rm -rf of the runtime in place; when it fails, part of it may be gone.
UndoRuntime ==
  /\ At("undo_runtime")
  /\ \/ ~RuntimeSetAside /\ ~TakenForPublished /\ Skips("undo_service")
     \/ /\ RuntimeSetAside \/ TakenForPublished
        /\ live' = [live EXCEPT !["runtime"] = "none"]
        /\ Then(IF RuntimeSetAside THEN "undo_move" ELSE "undo_service")
        /\ UNCHANGED <<kept, rollbackFailed>>
     \/ /\ RuntimeSetAside \/ TakenForPublished
        /\ live["runtime"] # "none"
        /\ StepFails("undo_service")
        /\ live' \in {live, [live EXCEPT !["runtime"] = "partial"]}
  /\ UNCHANGED <<stage, dirs, transaction, service, had, armed, committed>>

MoveRuntimeBack ==
  /\ At("undo_move")
  /\ \/ Then("undo_service") /\ Restore("runtime")
     \/ StepFails("undo_service") /\ UNCHANGED live
  /\ UNCHANGED <<stage, dirs, transaction, service, had, armed, committed>>

Commands == {"reload", "enablement", "activity", "inspection"}

\* What restoring starts: the runtime in place, or nothing.
Wanted == IF prior.active THEN live["runtime"] ELSE "none"

\* restore_service_state runs all its commands; those outside ok fail.
RestoreCommands(ok) ==
  /\ IF ok = Commands THEN UNCHANGED faults ELSE Fault
  /\ loaded' = IF "reload" \in ok THEN live["unit"] ELSE loaded
  /\ enabled' \in IF "enablement" \in ok THEN {prior.enabled} ELSE {enabled, prior.enabled}
  /\ running' \in IF "activity" \in ok THEN {Wanted} ELSE {running, Wanted, "none"}
  /\ written' = (written \/ (prior.active /\ "activity" \in ok))

\* The service is as before as far as systemctl tells.
ObservedRestored ==
  (running' # "none") = prior.active /\ enabled' = prior.enabled

FaultyRestoreService ==
  /\ At("undo_service")
  /\ pc' = "undo_artifacts" /\ UNCHANGED failedAt
  /\ \/ "activation" \notin armed /\ UNCHANGED <<faults, service, rollbackFailed>>
     \/ /\ "activation" \in armed
        /\ \E ok \in SUBSET Commands :
             /\ RestoreCommands(ok)
             /\ rollbackFailed' = (rollbackFailed \/ ok # Commands)
  /\ UNCHANGED <<disk, had, armed, committed>>

RestoreService ==
  /\ At("undo_service")
  /\ pc' = "undo_artifacts" /\ UNCHANGED failedAt
  /\ \/ "activation" \notin armed /\ UNCHANGED <<faults, service, rollbackFailed>>
     \/ /\ "activation" \in armed
        /\ \E ok \in SUBSET Commands :
             /\ RestoreCommands(ok)
             /\ rollbackFailed' = (rollbackFailed \/ ok # Commands \/ ~ObservedRestored)
  /\ UNCHANGED <<disk, had, armed, committed>>

FaultyDropArtifacts ==
  /\ At("undo_artifacts")
  /\ Then("undo_directories") /\ CleanUp({})
  /\ UNCHANGED <<live, dirs, service, flags>>

\* Backups go only when nothing needs them any more.
DropArtifacts ==
  /\ At("undo_artifacts")
  /\ pc' = "undo_directories" /\ UNCHANGED failedAt
  /\ \/ rollbackFailed /\ UNCHANGED <<faults, stage, kept, transaction, rollbackFailed>>
     \/ ~rollbackFailed /\ CleanUp({}) /\ UNCHANGED <<faults, rollbackFailed>>
     \/ /\ ~rollbackFailed /\ Fault /\ rollbackFailed' = TRUE
        /\ \E left \in SUBSET Artifacts \ {{}} : CleanUp(left)
  /\ UNCHANGED <<live, dirs, service, had, armed, committed>>

\* What lies in a managed directory.
Holds(t) == live[t] # "none" \/ stage[t] # "none" \/ kept[t] # "none"
EmptyDir(d) ==
  CASE d = "config" -> ~Holds("environment")
    [] d = "unit"   -> ~Holds("unit")
    [] d = "state"  -> ~written

\* Directories that were there get their mode back, the others go if empty.
UndoDirectories ==
  /\ At("undo_directories")
  /\ pc' = "failed" /\ UNCHANGED failedAt
  /\ \E bad \in SUBSET {d \in Dirs : dirs[d] # "none"} :
       /\ IF bad = {} THEN UNCHANGED faults ELSE Fault
       /\ dirs' = [d \in Dirs |->
                    IF d \in bad THEN dirs[d]
                    ELSE IF d \in prior.dirs \/ EmptyDir(d) THEN DirBefore(d) ELSE dirs[d]]
       /\ rollbackFailed' =
            (rollbackFailed \/ bad # {} \/ \E d \in Dirs \ prior.dirs : dirs'[d] # "none")
  /\ UNCHANGED <<live, stage, kept, transaction, service, had, armed, committed>>

-----------------------------------------------------------------------------
Ended == pc \in {"installed", "failed", "killed"}

\* SIGKILL, loss of power after a sync, or a signal the trap ignores.
Killed == ~Ended /\ pc' = "killed" /\ UNCHANGED <<prior, disk, service, flags, faults, failedAt>>

Install ==
  \/ MakeDirectories \/ SecureDirectories \/ MakeTransaction \/ MakeStaging
  \/ BuildRuntime
  \/ StageFile("environment", "stage_environment", "stage_unit")
  \/ StageFile("unit", "stage_unit", "back_up_environment")
  \/ BackUp("environment", "back_up_environment", "back_up_unit")
  \/ BackUp("unit", "back_up_unit", "set_aside")
  \/ SetAsideRuntime \/ PublishRuntime
  \/ PublishFile("environment", "publish_environment", "publish_unit")
  \/ PublishFile("unit", "publish_unit", "reload")
  \/ ReloadManager \/ EnableService \/ RestartService \/ CheckActive
  \/ Commit \/ Finish \/ LastCleanup

Rollback ==
  \/ UndoFile("environment", "undo_environment", "undo_unit")
  \/ UndoFile("unit", "undo_unit", "undo_runtime")
  \/ UndoRuntime \/ MoveRuntimeBack \/ RestoreService \/ DropArtifacts
  \/ UndoDirectories

Next == Install \/ Rollback \/ Killed

Spec == Init /\ [][Next]_vars

-----------------------------------------------------------------------------
TypeOK ==
  /\ prior \in Snapshots
  /\ live \in [Things -> Contents] /\ stage \in [Things -> Contents]
  /\ kept \in [Things -> Contents]
  /\ dirs \in [Dirs -> {"none", "prior", "managed"}]
  /\ transaction \in {"unset", "made", "removed"}
  /\ running \in Contents /\ enabled \in BOOLEAN
  /\ loaded \in Contents /\ written \in BOOLEAN
  /\ had \subseteq Things /\ armed \subseteq Files \cup {"activation"}
  /\ committed \in BOOLEAN /\ rollbackFailed \in BOOLEAN
  /\ faults \in 0 .. MaxFaults

OldIsThere ==
  committed \/ \A t \in prior.things : live[t] = "old" \/ kept[t] = "old"

AsBefore ==
  /\ \A t \in Things : live[t] = Before(t)
  /\ \A d \in Dirs : dirs[d] = DirBefore(d)
  /\ enabled = prior.enabled /\ loaded = Before("unit")
  /\ running = IF prior.active THEN "old" ELSE "none"
  /\ Artifacts = {}

\* Every file of the old installation is in its place or in a backup until
\* the new one is committed, whatever fails or is killed, the rollback too
\* (install.sh:276-353).  One failure is excepted, see FailureRestores.
OldIsKept == failedAt = "staging" \/ OldIsThere

\* A failed installation that does not report a failed rollback has left
\* files, directories, artifacts and service as they were, with the old
\* runtime running (install.sh:276-353).  The same failure is excepted.
RestoredOrReported ==
  pc = "failed" /\ ~committed /\ ~rollbackFailed /\ failedAt # "staging" => AsBefore

\* From the commit on the new installation is complete, enabled and running,
\* and nothing that fails later touches it; a success leaves no artifacts
\* (install.sh:424-436).
CommittedIsNew ==
  /\ committed => /\ \A t \in Things : live[t] = "new"
                  /\ running = "new" /\ loaded = "new" /\ enabled
  /\ pc = "installed" => committed /\ Artifacts = {}

\* What tests/deploy/test_linux.py:1211 says: every failure restores.
FailureRestores == pc = "failed" /\ ~committed /\ ~rollbackFailed => AsBefore
=============================================================================
