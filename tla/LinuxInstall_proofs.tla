------------------------- MODULE LinuxInstall_proofs -------------------------
(* Theorems about LinuxInstall, for every system it starts on and every     *)
(* number of failing commands: the old installation is kept until the       *)
(* commit, a failure restores it or is reported, a commit is the new one.   *)
EXTENDS LinuxInstall, TLAPS

\* The steps at which a thing has been replaced, backed up, or staged.
Renewed == [
  runtime |-> {"publish_environment", "publish_unit", "reload", "enable",
               "restart", "check", "commit"},
  environment |-> {"publish_unit", "reload", "enable", "restart", "check",
                   "commit"},
  unit |-> {"reload", "enable", "restart", "check", "commit"}]

BackedUp == [
  runtime |-> Renewed.runtime \cup {"publish_runtime"},
  environment |-> Renewed.runtime \cup
                    {"back_up_unit", "set_aside", "publish_runtime"},
  unit |-> Renewed.runtime \cup {"set_aside", "publish_runtime"}]

BackingUp == {"back_up_environment", "back_up_unit", "set_aside"}

Staged == [
  runtime |-> BackingUp \cup {"stage_environment", "stage_unit",
                              "publish_runtime"},
  environment |-> BackingUp \cup {"stage_unit", "publish_runtime",
                                  "publish_environment"},
  unit |-> BackingUp \cup {"publish_runtime", "publish_environment",
                           "publish_unit"}]

InstallPCs ==
  {"directories", "modes", "transaction", "staging", "runtime",
   "stage_environment", "stage_unit"} \cup BackedUp.environment \cup BackingUp

Typed ==
  /\ prior \in Snapshots
  /\ live \in [Things -> Contents] /\ stage \in [Things -> Contents]
  /\ kept \in [Things -> Contents]
  /\ dirs \in [Dirs -> {"none", "prior", "managed"}]
  /\ committed \in BOOLEAN /\ rollbackFailed \in BOOLEAN

ServiceBefore ==
  /\ enabled = prior.enabled /\ loaded = Before("unit")
  /\ running = IF prior.active THEN "old" ELSE "none"

\* While it installs, what each place, backup and flag holds goes by the step.
InStep(t) ==
  /\ pc \in Renewed[t] => live[t] = "new" /\ stage[t] = "none"
  /\ pc \notin Renewed[t] =>
       \/ live[t] = Before(t)
       \/ t = "runtime" /\ pc = "publish_runtime" /\ live[t] = "none"
  /\ kept[t] = IF pc \in BackedUp[t] THEN Before(t) ELSE "none"
  /\ t \in had <=> pc \in BackedUp[t] /\ t \in prior.things
  /\ t \in armed <=> pc \in Renewed[t] /\ t \in Files
  /\ pc \in Staged[t] => stage[t] = "new"

Installing ==
  /\ ~committed /\ ~rollbackFailed /\ failedAt = "nowhere"
  /\ \A t \in Things : InStep(t)
  /\ transaction = "made" <=> pc \notin {"directories", "modes", "transaction"}
  /\ pc = "runtime" => stage["runtime"] = "partial"
  /\ "activation" \in armed <=> pc \in {"enable", "restart", "check", "commit"}
  /\ "activation" \notin armed => ServiceBefore
  /\ pc \in {"enable", "restart", "check", "commit"} => loaded = "new"
  /\ pc \in {"restart", "check", "commit"} => enabled
  /\ pc = "check" => running \in {"new", "none"}
  /\ pc = "commit" => running = "new"

\* A file the rollback has still to look at.
Pending(t) ==
  /\ t \notin armed => live[t] = Before(t)
  /\ t \in armed => kept[t] = Before(t) /\ (t \in had <=> t \in prior.things)

\* The script takes a runtime for published only where there was none before.
PendingRuntime ==
  /\ "runtime" \notin had =>
       IF TakenForPublished THEN "runtime" \notin prior.things
                            ELSE live["runtime"] = Before("runtime")
  /\ "runtime" \in had =>
       /\ "runtime" \in prior.things
       /\ \/ kept["runtime"] = "old"
          \/ kept["runtime"] = "none" /\ live["runtime"] = "old"

\* One the rollback is done with.
Restored(t) ==
  /\ rollbackFailed \/ live[t] = Before(t)
  /\ t \in prior.things => live[t] = "old" \/ kept[t] = "old"

UndoPCs == {"undo_environment", "undo_unit", "undo_runtime", "undo_move",
            "undo_service", "undo_artifacts", "undo_directories"}

Undoing ==
  /\ ~committed
  /\ IF pc = "undo_environment" THEN Pending("environment")
                                ELSE Restored("environment")
  /\ IF pc \in {"undo_environment", "undo_unit"} THEN Pending("unit")
                                                 ELSE Restored("unit")
  /\ CASE pc \in {"undo_environment", "undo_unit", "undo_runtime"} -> PendingRuntime
       [] pc = "undo_move" -> kept["runtime"] = "old" /\ "runtime" \in prior.things
       [] OTHER -> Restored("runtime")
  /\ \/ ServiceBefore
     \/ rollbackFailed
     \/ "activation" \in armed /\ pc \notin {"undo_artifacts", "undo_directories"}
  /\ pc = "undo_directories" => rollbackFailed \/ Artifacts = {}

Committed ==
  /\ committed /\ \A t \in Things : live[t] = "new"
  /\ running = "new" /\ loaded = "new" /\ enabled
  /\ pc = "installed" => Artifacts = {}

IInv ==
  /\ Typed
  /\ pc \in InstallPCs => Installing
  /\ pc \in {"finish", "last_cleanup", "installed"} => Committed
  /\ pc \in UndoPCs => failedAt = "staging" \/ Undoing
  /\ pc \in UndoPCs => ~committed
  /\ pc \in {"failed", "killed"} => Committed \/ ~committed
  /\ pc \in {"failed", "killed"} => OldIsKept
  /\ RestoredOrReported
  /\ pc \in InstallPCs \cup UndoPCs \cup
            {"finish", "last_cleanup", "installed", "failed", "killed"}

-----------------------------------------------------------------------------
\* The kinds of steps.

\* From one step of the installation to the next.
LEMMA OnwardStep ==
  ASSUME pc' \in InstallPCs, Typed', Installing'
  PROVE  IInv'
BY DEF IInv, InstallPCs, BackedUp, Renewed, BackingUp, UndoPCs, Installing,
       RestoredOrReported

LEMMA OnwardInit ==
  ASSUME pc \in InstallPCs, Typed, Installing
  PROVE  IInv
BY DEF IInv, InstallPCs, BackedUp, Renewed, BackingUp, UndoPCs, Installing,
       RestoredOrReported

LEMMA IInvInit == Init => IInv
<1> SUFFICES ASSUME Init PROVE IInv
  OBVIOUS
<1>1. Typed
  BY DEF Init, Typed, Before, DirBefore, Contents
<1>2. ASSUME NEW t \in Things PROVE InStep(t)
  BY DEF Init, InStep, Renewed, BackedUp, Staged, BackingUp, Things, Files
<1>3. Installing
  BY <1>2 DEF Init, Installing, ServiceBefore
<1> QED  BY <1>1, <1>3, OnwardInit DEF Init, InstallPCs

\* From the failure of a step, and from one step of the rollback to the next.
LEMMA UndoStep ==
  ASSUME pc' \in UndoPCs, Typed', ~committed', failedAt' = "staging" \/ Undoing'
  PROVE  IInv'
BY DEF IInv, InstallPCs, BackedUp, Renewed, BackingUp, UndoPCs,
       RestoredOrReported

\* The things in a step of the installation.
LEMMA AllInStep ==
  ASSUME Installing
  PROVE  InStep("runtime") /\ InStep("environment") /\ InStep("unit")
BY DEF Installing, Things, Files

-----------------------------------------------------------------------------
\* The steps of the installation.

\* What a step leaves alone stays as it should be.
LEMMA SameThing ==
  ASSUME NEW t \in Things, InStep(t),
         UNCHANGED <<prior, live[t], kept[t]>>,
         t \in had' <=> t \in had, t \in armed' <=> t \in armed,
         pc' \in Renewed[t] <=> pc \in Renewed[t],
         pc' \in BackedUp[t] <=> pc \in BackedUp[t],
         t = "runtime" => (pc' = "publish_runtime" <=> pc = "publish_runtime"),
         pc' \in Staged[t] => stage'[t] = "new",
         pc' \in Renewed[t] => stage'[t] = "none"
  PROVE  InStep(t)'
BY DEF InStep, Before

\* A runtime that was there before is set aside before a new one is in place.
LEMMA RuntimeIsPending ==
  ASSUME Installing, pc \in InstallPCs, pc # "staging",
         UNCHANGED <<prior, live, transaction, kept["runtime"], stage["runtime"]>>,
         "runtime" \in had' <=> "runtime" \in had
  PROVE  PendingRuntime'
<1>0. Before("runtime")' = Before("runtime")
  BY DEF Before
<1>1. InStep("runtime") /\ "runtime" \in Things
  BY AllInStep DEF Things
<1>2. CASE pc \in BackedUp["runtime"]
  <2>1. "runtime" \in had <=> "runtime" \in prior.things
    BY <1>1, <1>2 DEF InStep
  <2>2. kept["runtime"] = Before("runtime")
    BY <1>1, <1>2 DEF InStep
  <2>3. CASE pc = "publish_runtime"
    <3>1. stage["runtime"] = "new"
      BY <1>1, <2>3 DEF InStep, Staged
    <3>2. live["runtime"] = Before("runtime") \/ live["runtime"] = "none"
      BY <1>1, <2>3 DEF InStep, Renewed
    <3> QED  BY <1>0, <2>1, <2>2, <3>1, <3>2
             DEF PendingRuntime, TakenForPublished, Before
  <2>4. CASE pc \in Renewed["runtime"]
    <3>1. transaction = "made" /\ stage["runtime"] = "none"
      BY <1>1, <2>4 DEF InStep, Installing, Renewed
    <3> QED  BY <1>0, <2>1, <2>2, <3>1
             DEF PendingRuntime, TakenForPublished, Before
  <2> QED  BY <1>2, <2>3, <2>4 DEF BackedUp
<1>3. CASE pc \notin BackedUp["runtime"]
  <2>1. "runtime" \notin had /\ live["runtime"] = Before("runtime")
    BY <1>1, <1>3 DEF InStep, BackedUp
  <2>2. stage["runtime"] # "none" \/ transaction # "made"
    <3>1. pc \in {"directories", "modes", "transaction", "runtime"}
            \cup Staged["runtime"]
      BY <1>3 DEF InstallPCs, BackedUp, Renewed, Staged, BackingUp
    <3> QED  BY <1>1, <3>1 DEF InStep, Installing
  <2> QED  BY <1>0, <2>1, <2>2 DEF PendingRuntime, TakenForPublished
<1> QED  BY <1>2, <1>3

\* A step of the installation fails, and leaves every place alone.
LEMMA Failure ==
  ASSUME Installing, Typed', Fail, PendingRuntime',
         UNCHANGED <<prior, live, committed>>,
         \A t \in Files :
           \/ t \notin armed /\ t \notin armed'
           \/ /\ pc \in BackedUp[t] /\ kept'[t] = kept[t]
              /\ t \in had' <=> t \in had,
         \/ UNCHANGED <<running, enabled, loaded>>
         \/ "activation" \in armed',
         armed \subseteq armed'
  PROVE  IInv'
<1>0. \A t \in Things : Before(t)' = Before(t)
  BY DEF Before
<1>1. ASSUME NEW t \in Files PROVE Pending(t)'
  <2>1. InStep(t) /\ t \in Things /\ t # "runtime"
    BY DEF Installing, Things, Files
  <2>2. CASE t \notin armed /\ t \notin armed'
    BY <1>0, <2>1, <2>2 DEF InStep, Pending
  <2>3. CASE /\ pc \in BackedUp[t] /\ kept'[t] = kept[t]
             /\ t \in had' <=> t \in had
    <3>1. kept[t] = Before(t) /\ (t \in had <=> t \in prior.things)
      BY <2>1, <2>3 DEF InStep
    <3>2. live[t] = Before(t) \/ t \in armed'
      BY <2>1 DEF InStep
    <3> QED  BY <1>0, <2>1, <2>3, <3>1, <3>2 DEF Pending
  <2> QED  BY <2>2, <2>3
<1>2. ServiceBefore' \/ "activation" \in armed'
  BY DEF Installing, ServiceBefore, Before
<1>3. Undoing'
  BY <1>1, <1>2 DEF Undoing, Fail, Files, Installing
<1> QED  BY <1>3, UndoStep DEF Fail, UndoPCs, Undoing

LEMMA PlainFailure ==
  ASSUME Installing, Typed', pc \in InstallPCs, pc # "staging", Fail,
         UNCHANGED <<prior, live, kept, had, committed, transaction>>,
         stage'["runtime"] = stage["runtime"],
         armed' \in {armed, armed \cup {"activation"}},
         \/ UNCHANGED <<running, enabled, loaded>>
         \/ "activation" \in armed'
  PROVE  IInv'
<1>1. PendingRuntime'
  BY RuntimeIsPending
<1>2. ASSUME NEW t \in Files, t \in armed PROVE pc \in BackedUp[t]
  BY <1>2 DEF Installing, InStep, Renewed, BackedUp, Things, Files
<1>3. \A t \in Files : t \in armed' <=> t \in armed
  BY DEF Files
<1> QED  BY <1>1, <1>2, <1>3, Failure

\* A step that leaves every place and backup alone.
LEMMA PlainStep ==
  ASSUME Installing, Typed', pc' \in InstallPCs, failedAt' = failedAt,
         UNCHANGED <<prior, live, kept, had, committed, rollbackFailed>>,
         UNCHANGED <<enabled, loaded, running>> \/ "activation" \in armed',
         \A t \in Things :
           /\ t \in armed' <=> t \in armed
           /\ pc' \in Renewed[t] <=> pc \in Renewed[t]
           /\ pc' \in BackedUp[t] <=> pc \in BackedUp[t]
           /\ pc' \in Staged[t] => stage'[t] = "new"
           /\ pc' \in Renewed[t] => stage'[t] = "none",
         pc' = "publish_runtime" <=> pc = "publish_runtime",
         transaction' = "made" <=> pc' \notin {"directories", "modes", "transaction"},
         pc' = "runtime" => stage'["runtime"] = "partial",
         "activation" \in armed' <=> pc' \in {"enable", "restart", "check", "commit"},
         pc' \in {"enable", "restart", "check", "commit"} => loaded' = "new",
         pc' \in {"restart", "check", "commit"} => enabled',
         pc' = "check" => running' \in {"new", "none"},
         pc' = "commit" => running' = "new",
         "activation" \in armed => "activation" \in armed'
  PROVE  IInv'
<1>1. ASSUME NEW t \in Things PROVE InStep(t)'
  BY SameThing DEF Installing
<1>2. "activation" \notin armed' => ServiceBefore'
  BY DEF Installing, ServiceBefore, Before
<1> QED  BY <1>1, <1>2, OnwardStep DEF Installing

LEMMA Preparing ==
  ASSUME IInv, MakeDirectories \/ SecureDirectories \/ MakeTransaction
  PROVE  IInv'
<1>1. Installing /\ Typed /\ pc \in {"directories", "modes", "transaction"}
  BY DEF IInv, InstallPCs, MakeDirectories, SecureDirectories, MakeTransaction, At
<1>2. /\ UNCHANGED <<prior, live, stage, kept, service, flags>>
      /\ dirs' \in [Dirs -> {"none", "prior", "managed"}]
  BY <1>1 DEF MakeDirectories, SecureDirectories, MakeTransaction, At, Created,
              Typed, Dirs, ManagedDirs
<1>3. UNCHANGED <<live, stage, kept, had, armed, committed, rollbackFailed,
                  enabled, loaded, running>> /\ Typed'
  BY <1>1, <1>2 DEF service, flags, Typed
<1>4. \/ Fail /\ transaction' = transaction
      \/ /\ UNCHANGED failedAt
         /\ pc' \in {"modes", "transaction", "staging"}
         /\ transaction' = "made" <=> pc' = "staging"
  BY <1>1 DEF MakeDirectories, SecureDirectories, MakeTransaction, At, Then,
              Installing
<1>5. CASE Fail /\ transaction' = transaction
  BY <1>1, <1>2, <1>3, <1>5, PlainFailure DEF InstallPCs
<1>6. CASE /\ UNCHANGED failedAt
           /\ pc' \in {"modes", "transaction", "staging"}
           /\ transaction' = "made" <=> pc' = "staging"
  <2>1. \A t \in Things : /\ pc \notin Renewed[t] /\ pc' \notin Renewed[t]
                          /\ pc \notin BackedUp[t] /\ pc' \notin BackedUp[t]
                          /\ pc' \notin Staged[t]
    BY <1>1, <1>6 DEF Renewed, BackedUp, Staged, BackingUp, Things, Files
  <2>2. pc' \in InstallPCs
    BY <1>6 DEF InstallPCs
  <2> QED  BY <1>1, <1>2, <1>3, <1>6, <2>1, <2>2, PlainStep DEF Installing
<1> QED  BY <1>4, <1>5, <1>6

LEMMA StageRuntime ==
  ASSUME IInv, MakeStaging \/ BuildRuntime
  PROVE  IInv'
<1>1. Installing /\ Typed /\ pc \in {"staging", "runtime"}
  BY DEF IInv, InstallPCs, MakeStaging, BuildRuntime, At
<1>2. UNCHANGED <<prior, live, kept, dirs, transaction, had, armed, committed,
                  rollbackFailed, running, enabled, loaded>>
  BY DEF MakeStaging, BuildRuntime, At, service, flags
<1>3. Typed'
  BY <1>1, <1>2 DEF MakeStaging, BuildRuntime, Typed, Contents
<1>4. CASE Fail
  <2>1. stage' = stage /\ failedAt' = pc /\ pc' = "undo_environment"
    BY <1>4, <1>1 DEF MakeStaging, BuildRuntime, Fail, Then
  <2>2. CASE pc = "staging"
    BY <1>1, <1>2, <1>3, <2>1, <2>2, UndoStep DEF UndoPCs, Installing
  <2>3. CASE pc = "runtime"
    BY <1>1, <1>2, <1>3, <1>4, <2>1, <2>3, PlainFailure DEF InstallPCs
  <2> QED  BY <1>1, <2>2, <2>3
<1>5. ASSUME UNCHANGED failedAt,
             \/ /\ pc = "staging" /\ pc' = "runtime"
                /\ stage' = [stage EXCEPT !["runtime"] = "partial"]
             \/ /\ pc = "runtime" /\ pc' = "stage_environment"
                /\ stage' = [stage EXCEPT !["runtime"] = "new"]
      PROVE  IInv'
  <2>1. \A t \in Things : /\ pc \notin Renewed[t] /\ pc' \notin Renewed[t]
                          /\ pc \notin BackedUp[t] /\ pc' \notin BackedUp[t]
                          /\ pc' \in Staged[t] =>
                               t = "runtime" /\ pc' = "stage_environment"
    BY <1>5 DEF Renewed, BackedUp, Staged, BackingUp, Things, Files
  <2>2. /\ pc' = "runtime" => stage'["runtime"] = "partial"
        /\ pc' = "stage_environment" => stage'["runtime"] = "new"
    BY <1>5, <1>1 DEF Typed, Things
  <2>3. pc' \in InstallPCs
    BY <1>5 DEF InstallPCs
  <2> QED  BY <1>1, <1>2, <1>3, <1>5, <2>1, <2>2, <2>3, PlainStep DEF Installing
<1> QED  BY <1>4, <1>5 DEF MakeStaging, BuildRuntime, Then, At

LEMMA StageFiles ==
  ASSUME IInv, NEW t, NEW step, NEW next, StageFile(t, step, next),
         <<t, step, next>> \in
           {<<"environment", "stage_environment", "stage_unit">>,
            <<"unit", "stage_unit", "back_up_environment">>}
  PROVE  IInv'
<1>1. /\ Installing /\ Typed /\ t \in Files /\ pc = step
      /\ pc = "stage_environment" \/ pc = "stage_unit"
  BY DEF IInv, InstallPCs, BackingUp, StageFile, At, Files
<1>2. UNCHANGED <<prior, live, kept, dirs, transaction, had, armed, committed,
                  rollbackFailed, running, enabled, loaded>>
  BY DEF StageFile, At, service, flags
<1>3. \/ Then(next) /\ stage' = [stage EXCEPT ![t] = "new"]
      \/ Fail /\ \E c \in {"none", "partial"} : stage' = [stage EXCEPT ![t] = c]
  BY DEF StageFile, At
<1>4. Typed'
  BY <1>1, <1>2, <1>3 DEF Typed, Contents
<1>5. CASE Fail /\ \E c \in {"none", "partial"} : stage' = [stage EXCEPT ![t] = c]
  <2>1. stage'["runtime"] = stage["runtime"]
    BY <1>1, <1>5 DEF Typed, Files, Things
  <2> QED  BY <1>1, <1>2, <1>4, <1>5, <2>1, PlainFailure DEF InstallPCs
<1>6. CASE Then(next) /\ stage' = [stage EXCEPT ![t] = "new"]
  <2>1. /\ pc' = next /\ pc' \in InstallPCs /\ failedAt' = failedAt
        /\ pc' \in {"stage_unit", "back_up_environment"}
    BY <1>1, <1>6 DEF Then, InstallPCs, BackingUp
  <2>2. \A u \in Things : /\ pc \notin Renewed[u] /\ pc' \notin Renewed[u]
                          /\ pc \notin BackedUp[u] /\ pc' \notin BackedUp[u]
                          /\ pc' \in Staged[u] => u = t \/ pc \in Staged[u]
    BY <1>1, <2>1 DEF Renewed, BackedUp, Staged, BackingUp, Things, Files
  <2>3. \A u \in Things : pc' \in Staged[u] => stage'[u] = "new"
    BY <1>1, <1>6, <2>2 DEF Typed, Installing, InStep
  <2> QED  BY <1>1, <1>2, <1>4, <2>1, <2>2, <2>3, PlainStep DEF Installing
<1> QED  BY <1>3, <1>5, <1>6

\* A step that changes one thing.
LEMMA ThingStep ==
  ASSUME Installing, Typed', NEW t \in Things, InStep(t)',
         pc \in BackingUp \cup {"publish_runtime", "publish_environment",
                                "publish_unit"},
         pc' \in InstallPCs \ {"directories", "modes", "transaction",
           "runtime", "enable", "restart", "check", "commit"},
         UNCHANGED <<prior, committed, rollbackFailed, failedAt, transaction,
                     running, enabled, loaded>>,
         "activation" \notin armed',
         \A u \in Things \ {t} :
           /\ UNCHANGED <<live[u], kept[u], stage[u]>>
           /\ u \in had' <=> u \in had
           /\ u \in armed' <=> u \in armed
           /\ pc' \in Renewed[u] <=> pc \in Renewed[u]
           /\ pc' \in BackedUp[u] <=> pc \in BackedUp[u]
           /\ u = "runtime" => (pc' = "publish_runtime" <=> pc = "publish_runtime")
           /\ pc' \in Staged[u] => pc \in Staged[u]
  PROVE  IInv'
<1>1. ASSUME NEW u \in Things PROVE InStep(u)'
  <2>1. CASE u = t
    BY <2>1
  <2>2. CASE u # t
    <3>1. InStep(u)
      BY DEF Installing
    <3>2. /\ pc' \in Staged[u] => stage'[u] = "new"
          /\ pc' \in Renewed[u] => stage'[u] = "none"
      BY <2>2, <3>1 DEF InStep
    <3> QED  BY <2>2, <3>1, <3>2, SameThing
  <2> QED  BY <2>1, <2>2
<1>2. ServiceBefore'
  BY DEF Installing, ServiceBefore, Before, BackingUp
<1>3. /\ transaction = "made" /\ pc' \notin {"directories", "modes", "transaction"}
      /\ ~committed /\ ~rollbackFailed /\ failedAt = "nowhere"
  BY DEF Installing, BackingUp
<1> QED  BY <1>1, <1>2, <1>3, OnwardStep DEF Installing

LEMMA BackUpFiles ==
  ASSUME IInv, NEW t, NEW step, NEW next, BackUp(t, step, next),
         <<t, step, next>> \in
           {<<"environment", "back_up_environment", "back_up_unit">>,
            <<"unit", "back_up_unit", "set_aside">>}
  PROVE  IInv'
<1>1. /\ Installing /\ Typed /\ t \in Files /\ t \in Things
      /\ pc = step /\ pc \in InstallPCs
      /\ pc = "back_up_environment" \/ pc = "back_up_unit"
  BY DEF IInv, InstallPCs, BackingUp, BackUp, At, Files, Things
<1>2. UNCHANGED <<prior, live, stage, dirs, transaction, armed, committed,
                  rollbackFailed, running, enabled, loaded>>
  BY DEF BackUp, At, service
<1>3. \/ live[t] = "none" /\ Then(next) /\ UNCHANGED <<had, kept>>
      \/ /\ live[t] # "none" /\ had' = had \cup {t}
         /\ \/ Then(next) /\ kept' = [kept EXCEPT ![t] = live[t]]
            \/ Fail /\ \E c \in {"none", "partial"} : kept' = [kept EXCEPT ![t] = c]
  BY DEF BackUp, At
<1>4. Typed'
  BY <1>1, <1>2, <1>3 DEF Typed, Contents
<1>5. /\ InStep(t) /\ live[t] = Before(t) /\ t \notin armed
      /\ Before(t)' = Before(t)
  BY <1>1, <1>2 DEF Installing, InStep, Renewed, Files, Before
<1>6. CASE /\ Fail /\ live[t] # "none" /\ had' = had \cup {t}
           /\ \E c \in {"none", "partial"} : kept' = [kept EXCEPT ![t] = c]
  <2>1. PendingRuntime'
    <3>1. "runtime" # t /\ kept'["runtime"] = kept["runtime"]
      BY <1>1, <1>6 DEF Typed, Files, Things
    <3> QED  BY <1>1, <1>2, <1>6, <3>1, RuntimeIsPending
  <2>2. ASSUME NEW u \in Files, u \in armed PROVE FALSE
    BY <1>1, <2>2 DEF Installing, InStep, Renewed, Files, Things
  <2> QED  BY <1>1, <1>2, <1>4, <1>6, <2>1, <2>2, Failure
<1>7. CASE /\ Then(next)
           /\ \/ live[t] = "none" /\ UNCHANGED <<had, kept>>
              \/ /\ live[t] # "none" /\ had' = had \cup {t}
                 /\ kept' = [kept EXCEPT ![t] = live[t]]
  <2>1. /\ pc' = next /\ failedAt' = failedAt
        /\ pc' \in InstallPCs \ {"directories", "modes", "transaction",
             "runtime", "enable", "restart", "check", "commit"}
    BY <1>1, <1>7 DEF Then, InstallPCs, BackedUp, BackingUp
  <2>2. /\ pc \notin BackedUp[t] /\ pc' \in BackedUp[t] /\ pc' \in Staged[t]
        /\ pc \in Staged[t] /\ pc \notin Renewed[t] /\ pc' \notin Renewed[t]
    BY <1>1, <2>1 DEF Renewed, BackedUp, Staged, BackingUp
  <2>3. kept'[t] = Before(t) /\ (t \in had' <=> t \in prior.things)
    BY <1>1, <1>5, <1>7, <2>2 DEF Typed, InStep, Before
  <2>4. InStep(t)'
    BY <1>1, <1>2, <1>5, <2>2, <2>3 DEF InStep, Files
  <2>5. ASSUME NEW u \in Things \ {t}
        PROVE  /\ UNCHANGED <<live[u], kept[u], stage[u]>>
               /\ u \in had' <=> u \in had
               /\ pc' \in Renewed[u] <=> pc \in Renewed[u]
               /\ pc' \in BackedUp[u] <=> pc \in BackedUp[u]
               /\ pc' \in Staged[u] => pc \in Staged[u]
    <3>1. UNCHANGED <<live[u], kept[u], stage[u]>> /\ (u \in had' <=> u \in had)
      BY <1>1, <1>2, <1>7 DEF Typed
    <3> QED
      BY <1>1, <2>1, <3>1 DEF Renewed, BackedUp, Staged, BackingUp, Things, Files
  <2>6. /\ "activation" \notin armed' /\ pc \in BackingUp
        /\ pc # "publish_runtime" /\ pc' # "publish_runtime"
    BY <1>1, <1>2, <2>1 DEF Installing, BackingUp
  <2> QED  BY <1>1, <1>2, <1>4, <2>1, <2>4, <2>5, <2>6, ThingStep
<1> QED  BY <1>3, <1>6, <1>7

LEMMA SettingAside ==
  ASSUME IInv, SetAsideRuntime
  PROVE  IInv'
<1> DEFINE r == "runtime"
<1>1. Installing /\ Typed /\ pc = "set_aside" /\ pc \in InstallPCs /\ r \in Things
  BY DEF IInv, InstallPCs, BackingUp, SetAsideRuntime, At, Things
<1>2. UNCHANGED <<prior, stage, dirs, transaction, armed, committed,
                  rollbackFailed, running, enabled, loaded>>
  BY DEF SetAsideRuntime, At, service
<1>3. /\ InStep(r) /\ live[r] = Before(r) /\ kept[r] = "none" /\ r \notin had
      /\ Before(r)' = Before(r)
  BY <1>1, <1>2 DEF Installing, InStep, Renewed, BackedUp, Before
<1>4. \/ /\ live[r] = "none" /\ Then("publish_runtime")
         /\ UNCHANGED <<had, live, kept>>
      \/ /\ live[r] # "none" /\ had' = had \cup {r}
         /\ Then("publish_runtime")
         /\ kept' = [kept EXCEPT ![r] = live[r]]
         /\ live' = [live EXCEPT ![r] = "none"]
      \/ /\ live[r] # "none" /\ had' = had \cup {r}
         /\ Fail /\ UNCHANGED <<live, kept>>
  BY DEF SetAsideRuntime
<1>5. Typed'
  BY <1>1, <1>2, <1>4 DEF Typed, Contents
<1>6. CASE live[r] # "none" /\ had' = had \cup {r} /\ Fail /\ UNCHANGED <<live, kept>>
  <2>1. r \in prior.things /\ live[r] = "old"
    BY <1>3, <1>6 DEF Before
  <2>2. PendingRuntime'
    BY <1>2, <1>3, <1>6, <2>1 DEF PendingRuntime
  <2>3. ASSUME NEW u \in Files PROVE pc \in BackedUp[u] /\ (u \in had' <=> u \in had)
    BY <1>1, <1>6 DEF BackedUp, Files
  <2> QED  BY <1>1, <1>2, <1>5, <1>6, <2>2, <2>3, Failure
<1>7. CASE /\ Then("publish_runtime")
           /\ \/ live[r] = "none" /\ UNCHANGED <<had, live, kept>>
              \/ /\ live[r] # "none" /\ had' = had \cup {r}
                 /\ kept' = [kept EXCEPT ![r] = live[r]]
                 /\ live' = [live EXCEPT ![r] = "none"]
  <2>1. /\ pc' = "publish_runtime" /\ failedAt' = failedAt
        /\ pc' \in InstallPCs \ {"directories", "modes", "transaction",
             "runtime", "enable", "restart", "check", "commit"}
    BY <1>7 DEF Then, InstallPCs, BackedUp
  <2>2. /\ kept'[r] = Before(r) /\ (r \in had' <=> r \in prior.things)
        /\ live'[r] = "none"
    BY <1>1, <1>3, <1>7 DEF Typed, Before
  <2>3. /\ pc' \in BackedUp[r] /\ pc' \in Staged[r] /\ pc \in Staged[r]
        /\ pc \notin Renewed[r] /\ pc' \notin Renewed[r]
    BY <1>1, <2>1 DEF Renewed, BackedUp, Staged, BackingUp
  <2>4. InStep(r)'
    BY <1>2, <1>3, <2>1, <2>2, <2>3 DEF InStep, Files
  <2>5. ASSUME NEW u \in Things \ {r}
        PROVE  /\ UNCHANGED <<live[u], kept[u], stage[u]>>
               /\ u \in had' <=> u \in had
               /\ pc' \in Renewed[u] <=> pc \in Renewed[u]
               /\ pc' \in BackedUp[u] <=> pc \in BackedUp[u]
               /\ pc' \in Staged[u] => pc \in Staged[u]
    <3>1. UNCHANGED <<live[u], kept[u], stage[u]>> /\ (u \in had' <=> u \in had)
      BY <1>1, <1>2, <1>7 DEF Typed
    <3> QED
      BY <1>1, <2>1, <3>1 DEF Renewed, BackedUp, Staged, BackingUp, Things, Files
  <2>6. "activation" \notin armed' /\ pc \in BackingUp
    BY <1>1, <1>2 DEF Installing, BackingUp
  <2> QED  BY <1>1, <1>2, <1>5, <2>1, <2>4, <2>5, <2>6, ThingStep
<1> QED  BY <1>4, <1>6, <1>7

\* A staged version moves to its place.
LEMMA PublishStep ==
  ASSUME Installing, Typed, Typed', NEW t \in Things, NEW next, Then(next), Publish(t),
         <<t, pc, next>> \in
           {<<"runtime", "publish_runtime", "publish_environment">>,
            <<"environment", "publish_environment", "publish_unit">>,
            <<"unit", "publish_unit", "reload">>},
         armed' = armed \cup ({t} \cap Files),
         UNCHANGED <<prior, kept, had, committed, rollbackFailed, transaction,
                     running, enabled, loaded>>
  PROVE  IInv'
<1>1. /\ pc' = next /\ failedAt' = failedAt
      /\ pc' \in InstallPCs \ {"directories", "modes", "transaction",
             "runtime", "enable", "restart", "check", "commit"}
  BY DEF Then, InstallPCs, BackedUp, Renewed
<1>2. /\ pc \in BackedUp[t] /\ pc' \in BackedUp[t] /\ pc \in Staged[t]
      /\ pc' \notin Staged[t] /\ pc' \in Renewed[t]
  BY <1>1 DEF Renewed, BackedUp, Staged, BackingUp
<1>3. InStep(t) /\ Before(t)' = Before(t)
  BY DEF Installing, Before
<1>4. stage'[t] = "none" /\ live'[t] = "new"
  BY <1>2, <1>3 DEF Publish, Typed, InStep
<1>5. InStep(t)'
  BY <1>2, <1>3, <1>4 DEF InStep
<1>6. ASSUME NEW u \in Things \ {t}
      PROVE  /\ UNCHANGED <<live[u], kept[u], stage[u]>>
             /\ u \in armed' <=> u \in armed
             /\ pc' \in Renewed[u] <=> pc \in Renewed[u]
             /\ pc' \in BackedUp[u] <=> pc \in BackedUp[u]
             /\ u = "runtime" => (pc' = "publish_runtime" <=> pc = "publish_runtime")
             /\ pc' \in Staged[u] => pc \in Staged[u]
  <2>1. UNCHANGED <<live[u], kept[u], stage[u]>> /\ (u \in armed' <=> u \in armed)
    BY DEF Typed, Publish
  <2> QED  BY <1>1, <2>1 DEF Renewed, BackedUp, Staged, BackingUp, Things, Files
<1>7. "activation" \notin armed'
  BY DEF Installing, Files
<1> QED  BY <1>1, <1>5, <1>6, <1>7, ThingStep

LEMMA Publishing ==
  ASSUME IInv,
         \/ PublishRuntime
         \/ PublishFile("environment", "publish_environment", "publish_unit")
         \/ PublishFile("unit", "publish_unit", "reload")
  PROVE  IInv'
<1>1. Installing /\ Typed /\ pc \in InstallPCs
  BY DEF IInv, InstallPCs, BackedUp, Renewed, PublishRuntime, PublishFile, At
<1>2. UNCHANGED <<prior, kept, dirs, had, transaction, committed,
                  rollbackFailed, running, enabled, loaded>>
  BY DEF PublishRuntime, PublishFile, At, service, flags
<1>3. ASSUME NEW t \in Things, Publish(t), Typed,
             UNCHANGED <<prior, dirs, kept, committed, rollbackFailed>>
      PROVE  Typed'
  BY <1>3 DEF Publish, Typed, Contents
<1>4. CASE PublishRuntime
  <2>1. "runtime" \in Things /\ {"runtime"} \cap Files = {}
    BY DEF Things, Files
  <2>2. armed' = armed /\ pc = "publish_runtime"
    BY <1>4 DEF PublishRuntime, flags, At
  <2>3. CASE Then("publish_environment") /\ Publish("runtime")
    <3>1. armed' = armed \cup ({"runtime"} \cap Files)
      BY <2>1, <2>2
    <3> QED  BY <1>1, <1>2, <1>3, <2>1, <2>2, <2>3, <3>1, PublishStep
  <2>4. CASE Fail /\ UNCHANGED <<live, stage>>
    <3>1. Typed'
      BY <1>1, <1>2, <2>4 DEF Typed
    <3> QED  BY <1>1, <1>2, <2>2, <2>4, <3>1, PlainFailure
  <2> QED  BY <1>4, <2>3, <2>4 DEF PublishRuntime
<1>5. ASSUME NEW t, NEW step, NEW next, PublishFile(t, step, next),
             <<t, step, next>> \in
               {<<"environment", "publish_environment", "publish_unit">>,
                <<"unit", "publish_unit", "reload">>}
      PROVE  IInv'
  <2>1. t \in Files /\ t \in Things /\ t # "runtime"
    BY <1>5 DEF Things, Files
  <2>2. armed' = armed \cup {t} /\ pc = step
    BY <1>5 DEF PublishFile, At
  <2>3. CASE Then(next) /\ Publish(t)
    <3>1. armed' = armed \cup ({t} \cap Files)
      BY <2>1, <2>2
    <3> QED  BY <1>1, <1>2, <1>3, <1>5, <2>1, <2>2, <2>3, <3>1, PublishStep
  <2>4. CASE Fail /\ UNCHANGED <<live, stage>>
    <3>1. Typed'
      BY <1>1, <1>2, <2>4 DEF Typed
    <3>2. PendingRuntime'
      BY <1>1, <1>2, <1>5, <2>2, <2>4, RuntimeIsPending
    <3>3. \A u \in Files : pc \in BackedUp[u]
      BY <1>5, <2>2 DEF BackedUp, Renewed, Files
    <3> QED  BY <1>1, <1>2, <2>2, <2>4, <3>1, <3>2, <3>3, Failure
  <2> QED  BY <1>5, <2>3, <2>4 DEF PublishFile
<1> QED  BY <1>4, <1>5

\* Every thing is new from the reload of the service manager on.
LEMMA Activating ==
  ASSUME IInv, ReloadManager \/ EnableService \/ RestartService \/ CheckActive
  PROVE  IInv'
<1>1. /\ Installing /\ Typed /\ pc \in InstallPCs
      /\ pc \in {"reload", "enable", "restart", "check"}
  BY DEF IInv, InstallPCs, BackedUp, Renewed, ReloadManager, EnableService,
         RestartService, CheckActive, At
<1>2. /\ UNCHANGED <<prior, live, stage, kept, dirs, transaction, had,
                     committed, rollbackFailed>>
      /\ armed' \in {armed, armed \cup {"activation"}} /\ "activation" \in armed'
  BY <1>1 DEF ReloadManager, EnableService, RestartService, CheckActive, At,
              disk, flags, Installing
<1>3. Typed'
  BY <1>1, <1>2 DEF Typed
<1>4. CASE Fail
  BY <1>1, <1>2, <1>3, <1>4, PlainFailure
<1>5. ASSUME NEW next \in {"enable", "restart", "check", "commit"}, Then(next)
      PROVE  IInv'
  <2>1. pc' = next /\ failedAt' = failedAt
    BY <1>5 DEF Then
  <2>2. ASSUME NEW t \in Things
        PROVE  /\ pc' \in Renewed[t] /\ pc \in Renewed[t]
               /\ pc' \in BackedUp[t] /\ pc \in BackedUp[t]
               /\ pc' \notin Staged[t] /\ stage'[t] = "none" /\ live'[t] = "new"
    <3>1. /\ pc' \in Renewed[t] /\ pc \in Renewed[t]
          /\ pc' \in BackedUp[t] /\ pc \in BackedUp[t] /\ pc' \notin Staged[t]
      BY <1>1, <1>5, <2>1 DEF Renewed, BackedUp, Staged, BackingUp, Things, Files
    <3> QED  BY <1>1, <1>2, <3>1 DEF Installing, InStep
  <2>3. live["unit"] = "new" /\ live["runtime"] = "new"
    BY <1>2, <2>2 DEF Things, Files
  <2>4. /\ loaded' = "new"
        /\ next \in {"restart", "check", "commit"} => enabled'
        /\ next = "check" => running' \in {"new", "none"}
        /\ next = "commit" => running' = "new"
    <3>1. CASE ReloadManager
      BY <1>5, <2>3, <3>1 DEF ReloadManager, Then, At, Fail
    <3>2. CASE EnableService
      BY <1>1, <1>5, <2>3, <3>2 DEF EnableService, Then, At, Fail, Installing
    <3>3. CASE RestartService
      BY <1>1, <1>5, <2>3, <3>3 DEF RestartService, Then, At, Fail, Installing
    <3>4. CASE CheckActive
      BY <1>1, <1>5, <2>3, <3>4 DEF CheckActive, Then, At, Fail, Installing
    <3> QED  BY <3>1, <3>2, <3>3, <3>4
  <2>5. /\ pc' \in InstallPCs /\ pc' # "publish_runtime" /\ pc # "publish_runtime"
        /\ pc' \notin {"directories", "modes", "transaction", "runtime"}
        /\ transaction' = "made"
    BY <1>1, <1>2, <1>5, <2>1 DEF InstallPCs, BackedUp, Renewed, Installing
  <2>6. \A t \in Things : t \in armed' <=> t \in armed
    BY <1>2 DEF Things, Files
  <2> QED  BY <1>1, <1>2, <1>3, <1>5, <2>1, <2>2, <2>4, <2>5, <2>6, PlainStep
<1> QED
  BY <1>4, <1>5 DEF ReloadManager, EnableService, RestartService, CheckActive

-----------------------------------------------------------------------------
\* The commit and what follows it.

\* A cleanup removes stages and backups, not what is in its place.
LEMMA Cleaning ==
  ASSUME Typed, NEW left, CleanUp(left)
  PROVE  /\ stage' \in [Things -> Contents] /\ kept' \in [Things -> Contents]
         /\ \A t \in Things : kept'[t] \in {kept[t], "none"}
         /\ left = {} => Artifacts' = {}
<1>1. /\ stage' \in [Things -> Contents] /\ kept' \in [Things -> Contents]
      /\ \A t \in Things : kept'[t] \in {kept[t], "none"}
  BY DEF Typed, CleanUp, Contents
<1>2. ASSUME left = {} PROVE Artifacts' = {}
  <2>1. /\ \A t \in Things : stage'[t] = "none" /\ kept'[t] = "none"
        /\ transaction' # "made"
    BY <1>2 DEF CleanUp
  <2> QED  BY <2>1 DEF Artifacts
<1> QED  BY <1>1, <1>2

\* A step from the commit on.
LEMMA CommittedStep ==
  ASSUME Typed', Committed',
         pc' \in {"finish", "last_cleanup", "installed", "failed", "killed"},
         pc' = "failed" => committed'
  PROVE  IInv'
BY DEF IInv, InstallPCs, BackedUp, Renewed, BackingUp, UndoPCs, Committed,
       RestoredOrReported, OldIsKept, OldIsThere

LEMMA Committing ==
  ASSUME IInv, Commit \/ Finish \/ LastCleanup
  PROVE  IInv'
<1>1. Typed
  BY DEF IInv
<1>2. CASE Commit
  <2>1. Installing /\ pc = "commit" /\ pc' = "finish"
    BY <1>2 DEF IInv, InstallPCs, BackedUp, Renewed, Commit, At, Then
  <2>2. \A t \in Things : live[t] = "new"
    BY <2>1 DEF Installing, InStep, Renewed, Things, Files
  <2>3. Typed' /\ Committed'
    BY <1>1, <1>2, <2>1, <2>2 DEF Commit, At, disk, service, Typed, Committed,
       Installing
  <2> QED  BY <2>1, <2>3, CommittedStep
<1>3. CASE Finish \/ LastCleanup
  <2>1. Committed /\ UNCHANGED <<prior, live, dirs, running, enabled, loaded,
                                 committed, rollbackFailed>>
    BY <1>3 DEF IInv, Finish, LastCleanup, At, service, flags
  <2>2. PICK left : CleanUp(left) /\ (pc' = "installed" => left = {})
    BY <1>3 DEF Finish, LastCleanup, Then, At
  <2>3. pc' \in {"last_cleanup", "installed", "failed"}
    BY <1>3 DEF Finish, LastCleanup, Then
  <2>4. Typed' /\ Committed'
    BY <1>1, <2>1, <2>2, Cleaning DEF Typed, Committed
  <2> QED  BY <2>1, <2>3, <2>4, CommittedStep DEF Committed
<1> QED  BY <1>2, <1>3

-----------------------------------------------------------------------------
\* The steps of the rollback.

\* The rollback keeps to its steps, and to what the snapshot and the trap say.
LEMMA RollbackTyped ==
  ASSUME Typed, Rollback
  PROVE  /\ Typed' /\ UNCHANGED <<prior, committed, failedAt>>
         /\ pc \in UndoPCs /\ pc' \in UndoPCs \cup {"failed"}
         /\ rollbackFailed => rollbackFailed'
<1> USE DEF Things, Files
<1>1. ASSUME NEW t, NEW step, NEW next, UndoFile(t, step, next),
             <<t, step, next>> \in {<<"environment", "undo_environment", "undo_unit">>,
                                    <<"unit", "undo_unit", "undo_runtime">>}
      PROVE  /\ Typed' /\ UNCHANGED <<prior, committed, failedAt>>
             /\ pc \in UndoPCs /\ pc' \in UndoPCs \cup {"failed"}
             /\ rollbackFailed => rollbackFailed'
  <2>1. /\ pc = step /\ pc' = next
        /\ UNCHANGED <<prior, stage, dirs, committed, failedAt>>
    BY <1>1 DEF UndoFile, At, Then, Skips, StepFails, service
  <2>2. t \in Things
    BY <1>1
  <2>3. \/ UNCHANGED <<live, kept, rollbackFailed>>
        \/ Restore(t)
        \/ rollbackFailed' = TRUE /\ UNCHANGED <<live, kept>>
        \/ live' = [live EXCEPT ![t] = "none"] /\ UNCHANGED <<kept, rollbackFailed>>
    BY <1>1 DEF UndoFile, Skips, StepFails
  <2>4. Typed' /\ (rollbackFailed => rollbackFailed')
    <3>1. CASE Restore(t)
      BY <2>1, <2>2, <3>1 DEF Typed, Restore, Contents
    <3>2. CASE UNCHANGED <<live, kept, rollbackFailed>>
      BY <2>1, <3>2 DEF Typed
    <3>3. CASE rollbackFailed' = TRUE /\ UNCHANGED <<live, kept>>
      BY <2>1, <3>3 DEF Typed
    <3>4. CASE live' = [live EXCEPT ![t] = "none"] /\ UNCHANGED <<kept, rollbackFailed>>
      BY <2>1, <2>2, <3>4 DEF Typed, Contents
    <3> QED  BY <2>3, <3>1, <3>2, <3>3, <3>4
  <2> QED  BY <1>1, <2>1, <2>4 DEF UndoPCs
<1>2. CASE UndoRuntime
  <2>1. /\ pc = "undo_runtime" /\ pc' \in {"undo_move", "undo_service"}
        /\ UNCHANGED <<prior, kept, stage, dirs, committed, failedAt>>
        /\ rollbackFailed' = rollbackFailed \/ rollbackFailed' = TRUE
    BY <1>2 DEF UndoRuntime, At, Then, Skips, StepFails
  <2>2. \E c \in {"none", "partial"} :
          UNCHANGED live \/ live' = [live EXCEPT !["runtime"] = c]
    BY <1>2 DEF UndoRuntime, Skips
  <2>3. live' \in [Things -> Contents]
    BY <2>2 DEF Typed, Contents
  <2>4. rollbackFailed' \in BOOLEAN /\ (rollbackFailed => rollbackFailed')
    <3>1. CASE rollbackFailed' = rollbackFailed
      BY <3>1 DEF Typed
    <3>2. CASE rollbackFailed' = TRUE
      BY <3>2 DEF Typed
    <3> QED  BY <2>1, <3>1, <3>2
  <2>5. Typed'
    BY <2>1, <2>3, <2>4 DEF Typed
  <2> QED  BY <2>1, <2>4, <2>5 DEF UndoPCs
<1>3. CASE MoveRuntimeBack
  <2>1. /\ pc = "undo_move" /\ pc' = "undo_service"
        /\ UNCHANGED <<prior, stage, dirs, committed, failedAt>>
        /\ \/ Restore("runtime")
           \/ rollbackFailed' = TRUE /\ UNCHANGED <<live, kept>>
    BY <1>3 DEF MoveRuntimeBack, At, Then, StepFails
  <2>2. CASE Restore("runtime")
    BY <2>1, <2>2 DEF Restore, Typed, Contents, UndoPCs
  <2>3. CASE rollbackFailed' = TRUE /\ UNCHANGED <<live, kept>>
    BY <2>1, <2>3 DEF Typed, UndoPCs
  <2> QED  BY <2>1, <2>2, <2>3
<1>4. CASE RestoreService
  <2>1. rollbackFailed' \in BOOLEAN /\ (rollbackFailed => rollbackFailed')
    <3>1. CASE UNCHANGED rollbackFailed
      BY <3>1 DEF Typed
    <3>2. ASSUME NEW ok, rollbackFailed' =
                   (rollbackFailed \/ ok # Commands \/ ~ObservedRestored)
          PROVE  <2>1!:
      BY <3>2, Zenon DEF Typed
    <3> QED  BY <1>4, <3>1, <3>2 DEF RestoreService, service
  <2> QED  BY <1>4, <2>1 DEF RestoreService, At, disk, Typed, UndoPCs
<1>5. CASE DropArtifacts
  <2>1. /\ stage' \in [Things -> Contents] /\ kept' \in [Things -> Contents]
        /\ rollbackFailed' \in BOOLEAN /\ (rollbackFailed => rollbackFailed')
    <3>1. CASE /\ rollbackFailed
               /\ UNCHANGED <<faults, stage, kept, transaction, rollbackFailed>>
      BY <3>1 DEF Typed
    <3>2. ASSUME NEW left, CleanUp(left),
                 rollbackFailed' = rollbackFailed \/ rollbackFailed' = TRUE
          PROVE  <2>1!:
      <4>1. stage' \in [Things -> Contents] /\ kept' \in [Things -> Contents]
        BY <3>2, Cleaning
      <4>2. CASE rollbackFailed' = rollbackFailed
        BY <4>1, <4>2 DEF Typed
      <4>3. CASE rollbackFailed' = TRUE
        BY <4>1, <4>3 DEF Typed
      <4> QED  BY <3>2, <4>2, <4>3
    <3> QED  BY <1>5, <3>1, <3>2 DEF DropArtifacts
  <2> QED  BY <1>5, <2>1 DEF DropArtifacts, At, service, Typed, UndoPCs
<1>6. CASE UndoDirectories
  <2>1. /\ dirs' \in [Dirs -> {"none", "prior", "managed"}]
        /\ rollbackFailed' \in BOOLEAN /\ (rollbackFailed => rollbackFailed')
    BY <1>6 DEF UndoDirectories, Typed, DirBefore
  <2> QED  BY <1>6, <2>1 DEF UndoDirectories, At, service, Typed, UndoPCs
<1> QED  BY <1>1, <1>2, <1>3, <1>4, <1>5, <1>6 DEF Rollback

\* What the rollback is done with, or has not come to, stays as it is.
LEMMA SameRestored ==
  ASSUME NEW t \in Things, Restored(t), rollbackFailed => rollbackFailed',
         UNCHANGED <<prior, live[t], kept[t]>>
  PROVE  Restored(t)'
BY DEF Restored, Before

LEMMA SamePending ==
  ASSUME NEW t \in Things, UNCHANGED <<prior, live[t], kept[t], had, armed>>
  PROVE  Pending(t) => Pending(t)'
BY DEF Pending, Before

LEMMA SamePendingRuntime ==
  ASSUME PendingRuntime,
         UNCHANGED <<prior, live["runtime"], kept["runtime"],
                     stage["runtime"], had, transaction>>
  PROVE  PendingRuntime'
BY DEF PendingRuntime, TakenForPublished, Before

LEMMA UndoingFiles ==
  ASSUME Typed, Undoing, NEW t, NEW step, NEW next, UndoFile(t, step, next),
         <<t, step, next>> \in {<<"environment", "undo_environment", "undo_unit">>,
                                <<"unit", "undo_unit", "undo_runtime">>}
  PROVE  Undoing'
<1> USE DEF Things, Files
<1>1. /\ pc = step /\ pc' = next /\ Pending(t) /\ t \in Things /\ t # "runtime"
      /\ UNCHANGED <<prior, stage, dirs, transaction, running, enabled, loaded,
                     had, armed, committed>>
      /\ rollbackFailed => rollbackFailed'
  BY DEF UndoFile, At, Then, Skips, StepFails, Restore, Undoing, service
<1>2. \A u \in Things \ {t} : live'[u] = live[u] /\ kept'[u] = kept[u]
  BY DEF UndoFile, Skips, StepFails, Restore, Typed
<1>3. Restored(t)'
  <2>0. Before(t)' = Before(t)
    BY <1>1 DEF Before
  <2>1. CASE t \notin armed
    BY <1>1, <2>0, <2>1 DEF UndoFile, Skips, Pending, Restored, Before
  <2>2. CASE t \in armed /\ rollbackFailed' /\ kept'[t] = kept[t]
    BY <1>1, <2>0, <2>2 DEF Pending, Restored, Before
  <2>3. CASE t \in armed \cap had /\ kept[t] # "none" /\ Restore(t)
    BY <1>1, <2>0, <2>3 DEF Restore, Pending, Restored, Before, Typed
  <2>4. CASE t \in armed \ had /\ live' = [live EXCEPT ![t] = "none"]
    BY <1>1, <2>0, <2>4 DEF Pending, Restored, Before, Typed
  <2> QED  BY <2>1, <2>2, <2>3, <2>4 DEF UndoFile, StepFails
<1>4. Restored("environment")'
  BY <1>1, <1>2, <1>3, SameRestored DEF Undoing
<1>5. IF pc' = "undo_unit" THEN Pending("unit")' ELSE Restored("unit")'
  BY <1>1, <1>2, <1>3, SamePending DEF Undoing
<1>6. PendingRuntime'
  BY <1>1, <1>2, SamePendingRuntime DEF Undoing
<1>7. ServiceBefore' \/ rollbackFailed' \/ "activation" \in armed'
  BY <1>1 DEF Undoing, ServiceBefore, Before
<1> QED  BY <1>1, <1>4, <1>5, <1>6, <1>7 DEF Undoing

LEMMA UndoingRuntime ==
  ASSUME Typed, Undoing, UndoRuntime
  PROVE  Undoing'
<1> DEFINE r == "runtime"
<1> USE DEF Things, Files
<1>1. /\ pc = "undo_runtime" /\ PendingRuntime
      /\ pc' \in {"undo_move", "undo_service"}
      /\ UNCHANGED <<prior, kept, stage, dirs, transaction, running, enabled,
                     loaded, had, armed, committed>>
      /\ rollbackFailed => rollbackFailed'
      /\ Before(r)' = Before(r)
  BY DEF UndoRuntime, At, Then, Skips, StepFails, Undoing, service, Before
<1>2. \A u \in Files : live'[u] = live[u]
  BY DEF UndoRuntime, Skips, Typed
<1>3. Restored("environment")' /\ Restored("unit")'
  BY <1>1, <1>2, SameRestored DEF Undoing
<1>4. r \in prior.things => kept[r] = "old" \/ live'[r] = "old"
  BY <1>1 DEF PendingRuntime, UndoRuntime, RuntimeSetAside, TakenForPublished,
              Skips, Typed, Before
<1>5. pc' = "undo_move" => kept'[r] = "old" /\ r \in prior.things
  BY <1>1 DEF PendingRuntime, UndoRuntime, RuntimeSetAside, Skips, Then, StepFails
<1>6. pc' = "undo_service" => rollbackFailed' \/ live'[r] = Before(r)
  <2>1. CASE RuntimeSetAside
    BY <1>1, <2>1 DEF UndoRuntime, Then, StepFails
  <2>2. CASE ~RuntimeSetAside /\ TakenForPublished
    <3>1. r \notin prior.things
      BY <1>1, <2>2 DEF PendingRuntime, TakenForPublished
    <3> QED  BY <2>2, <3>1 DEF UndoRuntime, Then, StepFails, Typed, Before
  <2>3. CASE ~RuntimeSetAside /\ ~TakenForPublished
    <3>1. live[r] = Before(r)
      BY <1>1, <2>3 DEF PendingRuntime, RuntimeSetAside, Before
    <3> QED  BY <2>3, <3>1 DEF UndoRuntime, Skips
  <2> QED  BY <2>1, <2>2, <2>3
<1>7. pc' = "undo_service" => Restored(r)'
  BY <1>1, <1>4, <1>6 DEF Restored
<1>8. ServiceBefore' \/ rollbackFailed' \/ "activation" \in armed'
  BY <1>1 DEF Undoing, ServiceBefore, Before
<1> QED  BY <1>1, <1>3, <1>5, <1>7, <1>8 DEF Undoing

LEMMA MovingBack ==
  ASSUME Typed, Undoing, MoveRuntimeBack
  PROVE  Undoing'
<1> USE DEF Things, Files
<1>1. /\ pc = "undo_move" /\ pc' = "undo_service"
      /\ kept["runtime"] = "old" /\ "runtime" \in prior.things
      /\ UNCHANGED <<prior, stage, dirs, transaction, running, enabled,
                     loaded, had, armed, committed>>
      /\ rollbackFailed => rollbackFailed'
  BY DEF MoveRuntimeBack, At, Then, Restore, StepFails, Undoing, service
<1>2. \A u \in Files : live'[u] = live[u] /\ kept'[u] = kept[u]
  BY DEF MoveRuntimeBack, Restore, StepFails, Typed
<1>3. Restored("environment")' /\ Restored("unit")'
  BY <1>1, <1>2, SameRestored DEF Undoing
<1>4. Restored("runtime")'
  <2>1. CASE Restore("runtime")
    BY <1>1, <2>1 DEF Restore, Restored, Before, Typed
  <2>2. CASE rollbackFailed' /\ kept' = kept
    BY <1>1, <2>2 DEF Restored
  <2> QED  BY <2>1, <2>2 DEF MoveRuntimeBack, StepFails
<1>5. ServiceBefore' \/ rollbackFailed' \/ "activation" \in armed'
  BY <1>1 DEF Undoing, ServiceBefore, Before
<1> QED  BY <1>1, <1>3, <1>4, <1>5 DEF Undoing

\* What systemctl shows is trusted only when every command succeeded.
LEMMA RestoringService ==
  ASSUME Typed, Undoing, RestoreService
  PROVE  Undoing'
<1> USE DEF Things, Files
<1>1. /\ pc = "undo_service" /\ pc' = "undo_artifacts"
      /\ UNCHANGED <<prior, live, kept, stage, dirs, transaction, had, armed, committed>>
  BY DEF RestoreService, At, disk
<1>2. rollbackFailed => rollbackFailed'
  BY Zenon DEF RestoreService, service
<1>3. \A t \in Things : Restored(t)
  BY <1>1 DEF Undoing
<1>4. \A t \in Things : Restored(t)'
  BY <1>1, <1>2, <1>3, SameRestored
<1>5. ServiceBefore' \/ rollbackFailed'
  <2>1. CASE "activation" \notin armed /\ UNCHANGED <<faults, service, rollbackFailed>>
    BY <1>1, <2>1 DEF Undoing, ServiceBefore, Before, service
  <2>2. ASSUME NEW ok \in SUBSET Commands, RestoreCommands(ok),
               rollbackFailed' = (rollbackFailed \/ ok # Commands \/ ~ObservedRestored),
               ~rollbackFailed'
        PROVE  ServiceBefore'
    <3>1. ok = Commands /\ ObservedRestored /\ ~rollbackFailed
      BY <2>2, Zenon
    <3>2. live["runtime"] = Before("runtime") /\ live["unit"] = Before("unit")
      BY <1>3, <3>1 DEF Restored
    <3>3. /\ loaded' = live["unit"] /\ enabled' = prior.enabled /\ running' = Wanted
      BY <2>2, <3>1 DEF RestoreCommands, Commands
    <3>4. running' = IF prior.active THEN "old" ELSE "none"
      BY <3>1, <3>2, <3>3 DEF ObservedRestored, Wanted, Before
    <3> QED  BY <1>1, <3>2, <3>3, <3>4 DEF ServiceBefore, Before
  <2> QED  BY <2>1, <2>2 DEF RestoreService
<1> QED  BY <1>1, <1>4, <1>5 DEF Undoing

LEMMA DroppingArtifacts ==
  ASSUME Typed, Undoing, DropArtifacts
  PROVE  Undoing'
<1> USE DEF Things, Files
<1>1. /\ pc = "undo_artifacts" /\ pc' = "undo_directories"
      /\ UNCHANGED <<prior, live, dirs, running, enabled, loaded, had, armed, committed>>
      /\ rollbackFailed => rollbackFailed'
  BY DEF DropArtifacts, At, service
<1>2. \A t \in Things : Restored(t)
  BY <1>1 DEF Undoing
<1>3. ServiceBefore' \/ rollbackFailed'
  BY <1>1 DEF Undoing, ServiceBefore, Before
<1>4. CASE rollbackFailed /\ UNCHANGED <<faults, stage, kept, transaction, rollbackFailed>>
  <2>1. \A t \in Things : Restored(t)'
    BY <1>1, <1>2, <1>4, SameRestored
  <2> QED  BY <1>1, <1>3, <1>4, <2>1 DEF Undoing
<1>5. ASSUME ~rollbackFailed, NEW left, CleanUp(left),
             rollbackFailed' \/ left = {}
      PROVE  Undoing'
  <2>1. \A t \in Things : live[t] = Before(t)
    BY <1>2, <1>5 DEF Restored
  <2>2. \A t \in Things : Restored(t)'
    BY <1>1, <2>1 DEF Restored, Before
  <2>3. rollbackFailed' \/ Artifacts' = {}
    BY <1>5, Cleaning
  <2> QED  BY <1>1, <1>3, <2>2, <2>3 DEF Undoing
<1> QED  BY <1>4, <1>5 DEF DropArtifacts

\* The last step of the rollback ends in "failed".
LEMMA UndoingDirectories ==
  ASSUME Typed, Undoing, UndoDirectories
  PROVE  (rollbackFailed \/ AsBefore)' /\ OldIsThere'
<1> USE DEF Things, Files
<1>1. /\ pc = "undo_directories" /\ pc' = "failed" /\ ~committed
      /\ UNCHANGED <<prior, live, kept, stage, transaction, running, enabled,
                     loaded, committed>>
  BY DEF UndoDirectories, At, service, Undoing
<1>2. \A t \in Things : Restored(t)
  BY <1>1 DEF Undoing
<1>3. OldIsThere'
  <2>1. ASSUME NEW t \in prior.things PROVE live[t] = "old" \/ kept[t] = "old"
    <3>1. t \in Things
      BY DEF Typed, Snapshots
    <3> QED  BY <1>2, <3>1 DEF Restored
  <2> QED  BY <1>1, <2>1 DEF OldIsThere
<1>4. ASSUME ~rollbackFailed' PROVE AsBefore'
  <2>1. PICK bad \in SUBSET {d \in Dirs : dirs[d] # "none"} :
          /\ dirs' = [d \in Dirs |->
               IF d \in bad THEN dirs[d]
               ELSE IF d \in prior.dirs \/ EmptyDir(d) THEN DirBefore(d) ELSE dirs[d]]
          /\ rollbackFailed' =
               (rollbackFailed \/ bad # {} \/ \E d \in Dirs \ prior.dirs : dirs'[d] # "none")
    BY DEF UndoDirectories
  <2>2. ~rollbackFailed /\ bad = {} /\ \A d \in Dirs \ prior.dirs : dirs'[d] = "none"
    BY <1>4, <2>1, Zenon
  <2>3. \A d \in Dirs : dirs'[d] = DirBefore(d)
    BY <2>1, <2>2 DEF DirBefore
  <2>4. ServiceBefore /\ Artifacts = {} /\ \A t \in Things : live[t] = Before(t)
    BY <1>1, <1>2, <2>2 DEF Undoing, Restored
  <2>5. Artifacts' = {}
    BY <1>1, <2>4 DEF Artifacts
  <2> QED  BY <1>1, <2>3, <2>4, <2>5 DEF AsBefore, ServiceBefore, Before, DirBefore
<1> QED  BY <1>3, <1>4

\* A step of the rollback.
LEMMA RollingBack ==
  ASSUME IInv, Rollback
  PROVE  IInv'
<1>1. /\ Typed /\ Typed' /\ UNCHANGED <<prior, committed, failedAt>>
      /\ pc \in UndoPCs /\ pc' \in UndoPCs \cup {"failed"} /\ ~committed
      /\ failedAt = "staging" \/ Undoing
  BY RollbackTyped DEF IInv
<1>2. CASE pc' \in UndoPCs
  <2>1. ASSUME Undoing PROVE Undoing'
    BY <1>1, <1>2, <2>1, UndoingFiles, UndoingRuntime, MovingBack,
       RestoringService, DroppingArtifacts
       DEF Rollback, UndoDirectories, UndoPCs
  <2> QED  BY <1>1, <1>2, <2>1, UndoStep
<1>3. CASE pc' = "failed"
  <2>1. UndoDirectories
    BY <1>1, <1>3 DEF Rollback, UndoFile, UndoRuntime, MoveRuntimeBack,
       RestoreService, DropArtifacts, Skips, Then, StepFails, At
  <2>2. OldIsKept' /\ RestoredOrReported'
    BY <1>1, <2>1, UndoingDirectories DEF OldIsKept, RestoredOrReported
  <2> QED  BY <1>1, <1>3, <2>2 DEF IInv, InstallPCs, BackedUp, Renewed,
               BackingUp, UndoPCs
<1> QED  BY <1>1, <1>2, <1>3

-----------------------------------------------------------------------------
\* The invariant.

\* Whatever the step, the old installation is there until the commit.
LEMMA OldIsKeptThroughout == IInv => OldIsKept
<1> SUFFICES ASSUME IInv, failedAt # "staging", ~committed,
                    NEW t \in prior.things
             PROVE  live[t] = "old" \/ kept[t] = "old"
                    \/ pc \in {"failed", "killed"}
  BY DEF OldIsKept, OldIsThere, IInv
<1>1. t \in Things /\ Before(t) = "old"
  BY DEF IInv, Typed, Snapshots, Before
<1>2. CASE Installing
  <2>1. InStep(t)
    BY <1>1, <1>2 DEF Installing
  <2>2. /\ pc \in Renewed[t] => pc \in BackedUp[t]
        /\ pc = "publish_runtime" => pc \in BackedUp[t]
    BY <1>1 DEF Renewed, BackedUp, Things, Files
  <2> QED  BY <1>1, <2>1, <2>2 DEF InStep
<1>3. CASE Undoing
  <2>1. t \in Files => Restored(t) \/ Pending(t)
    BY <1>3 DEF Undoing, Files
  <2>2. t = "runtime" => PendingRuntime \/ Restored(t) \/ kept[t] = "old"
    BY <1>3 DEF Undoing
  <2> QED  BY <1>1, <2>1, <2>2
           DEF Restored, Pending, PendingRuntime, TakenForPublished, Before, Things
<1> QED  BY <1>2, <1>3 DEF IInv, Committed

LEMMA Killing ==
  ASSUME IInv, Killed
  PROVE  IInv'
<1>1. /\ pc' = "killed" /\ UNCHANGED <<prior, live, kept, stage, dirs, transaction,
                                       running, enabled, loaded, committed,
                                       rollbackFailed, failedAt>>
  BY DEF Killed, disk, service, flags
<1>2. OldIsKept' /\ RestoredOrReported'
  BY <1>1, OldIsKeptThroughout DEF OldIsKept, OldIsThere, RestoredOrReported
<1>3. committed => Committed'
  BY <1>1 DEF IInv, Installing, Committed, Ended, Killed
<1> QED  BY <1>1, <1>2, <1>3 DEF IInv, InstallPCs, BackedUp, Renewed, BackingUp,
              UndoPCs, Typed

LEMMA IInvStep == IInv /\ [Next]_vars => IInv'
<1> SUFFICES ASSUME IInv, [Next]_vars PROVE IInv'
  OBVIOUS
<1>1. CASE Install
  BY <1>1, Preparing, StageRuntime, StageFiles, BackUpFiles, SettingAside,
     Publishing, Activating, Committing DEF Install
<1>2. CASE UNCHANGED vars
  <2>1. /\ UNCHANGED <<prior, live, stage, kept, dirs, transaction>>
        /\ UNCHANGED <<running, enabled, loaded, had, armed>>
        /\ UNCHANGED <<committed, rollbackFailed, pc, failedAt>>
    BY <1>2 DEF vars, disk, service, flags
  <2>2. UNCHANGED <<ServiceBefore, Committed, Artifacts, AsBefore, OldIsThere>>
    BY <2>1 DEF ServiceBefore, Before, DirBefore, Committed, Artifacts, AsBefore,
                OldIsThere
  <2>3. Installing => Installing'
    BY <2>1, <2>2 DEF Installing, InStep, Before
  <2>4. Undoing => Undoing'
    BY <2>1, <2>2 DEF Undoing, Pending, PendingRuntime, TakenForPublished, Restored,
                      Before
  <2> QED  BY <2>1, <2>2, <2>3, <2>4 DEF IInv, Typed, OldIsKept, RestoredOrReported
<1> QED  BY <1>1, <1>2, RollingBack, Killing DEF Next

THEOREM Invariance == Spec => []IInv
BY IInvInit, IInvStep, PTL DEF Spec

(* Until the commit every file of the old installation is in its place or in *)
(* a backup, through failures, rollbacks and kills (install.sh:276-353).     *)
THEOREM OldInstallationIsKept == Spec => []OldIsKept
BY Invariance, OldIsKeptThroughout, PTL

(* A failed installation has restored the system, or it says that its        *)
(* rollback failed (install.sh:276-353).                                     *)
THEOREM FailuresAreUndoneOrReported == Spec => []RestoredOrReported
<1>1. IInv => RestoredOrReported
  BY DEF IInv
<1> QED  BY <1>1, Invariance, PTL

(* A committed installation is the new one, complete and running, and a      *)
(* success leaves nothing behind (install.sh:424-436).                       *)
THEOREM CommittedInstallationIsNew == Spec => []CommittedIsNew
<1>1. IInv => CommittedIsNew
  BY DEF IInv, Committed, CommittedIsNew, Installing
<1> QED  BY <1>1, Invariance, PTL
=============================================================================
