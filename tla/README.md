# TLA+ models of monitor-agent

The agent collects telemetry of one machine on a heartbeat, sends each event to a
collector over HTTPS, and keeps what it cannot deliver in a spool directory. This
directory holds TLA+ modules of the parts where order, concurrency, failure and time
matter, TLC configurations for small instances, and TLAPS proofs of every
safety property the runs check.
Paths below are relative to the repository; Python files named without a path are in
`src/monitor_agent/`, `install.sh` is `deploy/linux/install.sh`.

    tlc -workers 2 -config OneAgent.cfg MCAgentRuntime.tla     # a run of PROJECT.json
    tlapm AgentRuntime_proofs.tla                              # and the other *_proofs

`PROJECT.json` lists the runs, maps each definition to the lines it models, and names
for every checked property a wrong variant of a definition (`Faulty...` in the
modules) under which TLC finds the property violated.

## 1. The system

| Component | State it keeps | Operations | Talks to |
| --- | --- | --- | --- |
| runtime (`runtime.py` 63-113, 160-173) | the live event, the replay batch | `run_cycle`, `replay`, `_enqueue` | spool, transport, orchestrator by calls |
| loop (`runtime.py` 115-158, `cli.py` 199-208) | stop event, next deadline | `run`, `_run_loop`, `request_stop`; signal handlers | runtime; the operating system's signals |
| spool (`spool.py`) | files: records, staging files, reservations, locks, dead letters, markers | `enqueue`, `pending`, `load`, `ack`, `reject`, `enforce_retention`, `stats` | shared with other agent processes through the directory |
| transport (`transport.py`) | nothing between calls | `send` with retries | the collector |
| orchestrator (`orchestrator.py`) | a thread pool per cycle, leaked threads | `collect_all` | collectors, as futures |
| software inventory (`collectors/software.py`) | cache and lock shared by the threads | `collect` | package managers, slow |
| identity (`identity.py`) | the file `machine-id` | `resolve_machine_identity` | other processes that start, platform |
| payload, models | none | `build_payload` | runtime, command line |
| file audit (`collectors/file_audit.py`) | place in the walk, records, gaps | `collect` | files that change meanwhile |
| other collectors | none | `collect` | operating system |
| configuration (`config.py`) | none | `load_config` | environment |
| command line (`cli.py`) | exit code | `run`, `once`, `check-config`, `health` | all of the above |
| logging | log files | set up, redact, rotate | all |
| installers and launchers (`deploy/`) | service, runtime, files, backups | install, roll back, uninstall, start | service managers |

What is hard, and what makes each part right:

* **Runtime and spool.** Two processes may work on one spool (the service and
  `monitor-agent once`), any may be killed between two operations, an answer can be
  lost after the collector took the event. Right means: an event is in one place or
  has one fate, nothing is called delivered that the collector lacks, the oldest goes
  first, the size cap holds, "spooled" means queued, cycles end, backlogs drain.
* **Spool files.** A record becomes visible whole and once; a recovering process does
  not take a live staging file; leftovers of crashes go; what `enqueue` returned for
  survives a loss of power, and what was removed does not come back after one.
* **Dead letters.** A move across two directories with locks, markers and a
  two-step fallback must lose nothing, double nothing and be repeatable.
* **Loop.** A stop at any instant is seen, deadlines missed are skipped.
* **Transport.** A result reflects what the collector did, its wishes are heeded,
  the retry loop returns.
* **Orchestrator and cache.** A collector may hang for ever; the cycle must still end,
  and ask no unfinished future for its result; jobs that waited for the cache take no
  inventory past its term, and their refreshes do not overlap.
* **Identity.** Concurrent first starts agree on one fallback identity, and fail only for a cause.
* **Configuration, collectors, payload.** Nothing sensitive is read without consent,
  on any path through three commands; a collector without an answer says so; an audit of files that change keeps its limits; a command comes to an end.
* **Installers.** All new or all old, or an honest report and the backups kept, also
  when a step of the rollback fails.

`hazards` in `PROJECT.json` lists these at their lines, with the properties that
watch them, and a note where a property covers one only in part or not at all.

## 2. Modules and the code

    TelemetryDelivery          what is promised about one event (abstract)
          ^ implements
    AgentRuntime               cycles of several processes over one spool
      spool operations atomic  ->  SpoolFiles   (enqueue, recovery, at file level)
                                   DeadLetter   (reject / quarantine, at file level)
      send() atomic            ->  Transport
      collection is one step   ->  CollectionCycle   (threads and deadlines)
                                   Command           (what is collected)
      the loop around cycles   ->  RunLoop
      many cycles, with ages   ->  BacklogDrain
    Command                    one process, from environment to exit code
      EXTENDS Settings, Collectors, FileAudit
    Identity                   before the first cycle
    LinuxInstall               how the agent gets there (deploy/linux)

The arrows mean: the module on the right models the inside of what AgentRuntime takes
as one step. They are separate modules and not composed in one state machine, which
TLC could not explore (Command alone composes three); what each layer relies on is a
property of the layer below (ReturnedIsKept and OnlyCompleteRecords for enqueue,
NeverLost and OneCopy for reject, ResultIsEarned for send).

**AgentRuntime.** `pc[a]` is the point a process has reached in `run_cycle`/`replay`;
`live[a]` the payload in memory, `batch[a]` the list `records`, `spool` the pending
`*.json` files with the time in their names, `dead` the dead letters. One action per
spool operation and per answer of the transport. Retention is two passes, as in the
code: expiry, then a size pass over the records it listed, whose stat of a vanished
record raises and ends the process (`TrimRaises`). `Crash` may come anywhere, also
half way through either of its eviction loops (`CrashMidPass`). An exception inside
`replay` runs the retention of its `finally` clause before it ends the process
(`ReplayRaises`, `Abort`). `CollectorAccepts` is a step of its own: the
collector may take an event whose answer is lost. `bornAt` and `fate` are history.
`WallClock` is what the wall clock shows at each time: names and ages of records are
taken from it, and it may be set back, as `two_agents` has it. Ages are promised only
for a clock that runs on, because nothing in the code notices that it did not.

**BacklogDrain** tells records apart by their age and by whether `send` takes them, so
that it can run for ever: a cycle takes a batch, settles or fails each record, expires
and evicts, and adds its own event while any is left. A record without a field `send`
needs ends the cycle that meets it, until retention finds it too old.

**SpoolFiles.** Files have an identity, names are `staged`, `named[k]` and
`reserved`; `flock`, `spoolGuard` and `publishGuard` are the locks. Every system call
of `_write_staged`, `_publish_staged`, the reservation and the cleanup in `_prepare`
that another process can see is a step, `mkstemp` and the lock that follows included.
Both ways to publish are there: `renameat2(RENAME_NOREPLACE)` and the link/unlink
fallback. A write or a publication may fail and its exception path is an action.
`disk` and `ghosts` say what a loss of power may leave (below).
An `ack` that finds its record unlinked by another process returns at once, whether or
not that process has synced (`AckMissing`).
*Abstracted:* hash-slot guard files (a guard is taken or not), the validation of
owner, mode and inode, and names: a record's name differs only in its number.

**DeadLetter.** One record and everything that can happen to its move. `marker` is the
`.deadop` file per kind of move (`rejected`, `corrupt`), `opLock`, `sourceLock` and
`destLock` the locks, `leftover` the reservation files of crashed processes. A file
of other origin may take a destination's name. Record names contain the event id, so
nobody re-creates the source under its name while the move goes on. `disk` is what a
loss of power may leave of each name in the two directories and of the markers.

*Loss of power* ends all processes, and every name changed since its directory was
last synced may be what it was or what it is, each for itself. POSIX grants no more;
journaling file systems give more, and a rename across two directories is one
transaction there. The window in which `NeverLost` lets the record go (between the
move and the sync of the second directory) is therefore not listed as a disagreement.

*Directories that cannot be synced.* `_fsync_directory` returns without a word when the
directory cannot be opened or answers EINVAL, ENOTSUP or EOPNOTSUPP
(spool.py:1263-1277, `tests/test_spool.py:532`). `SyncWorks`, a constant of SpoolFiles
and DeadLetter, says whether directories can be synced; with FALSE every sync of the
model changes nothing. **All that is said of a loss of power assumes TRUE**: the runs
set it, and the theorems about `ReturnedIsKept`, `RemovedStaysGone`, `NeverLost`,
`OneCopy`, `CommittedIsMoved` and `RejectAnswersAgree` have it as a hypothesis. The
properties that do not depend on it (`OnlyCompleteRecords`, `StagingSurvives`,
`DestinationsStay`) are proved without. With FALSE, TLC finds a returned record lost
and a removed one back, `NeverLost`, `CommittedIsMoved` and `RejectAnswersAgree`
violated, and no violation of `OneCopy`.

**RunLoop.** The steps of `_run_loop` with `Event.wait` taken apart (lock, block,
wake), because the signal handler runs on the same thread and calls `Event.set`. A
cycle takes any time and may raise.

**CollectionCycle.** A job is a future; `pc` is the thread of the cycle in
`collect_all`. Threads of earlier cycles run on. The software job waits for its lock,
over as many cycles as another one holds it, reads the clock, answers from the cache or
runs its commands, which may never end, and stores what they say under the time of
then: each of these is a step, and cycles pass between them.

**Transport.** One call of `send`; time in half seconds, passing only in `_sleep`.
Statuses are representatives on both sides of every boundary in `_classify_status`,
the random factor is 0, 1/2 or 1 (all others are clamped or lie between).

**Identity.** The steps of `resolve_machine_identity` around `machine-id`; every start
of every process has its own UUID. Its content can be read once it is written, before
the fsync and chmod that follow; any operation on the file or its directory may fail,
which ends the start and leaves the file as it is (`Fails`).

**Command** is one process of the command line. `Settings` says which environments
`load_config` refuses; a value counts only as there, on, or wrong. `Collectors` says
what each collector asks the machine for, which failures it survives, and what its
status then says (`Outcome`): a source of the software that fails next to one that
answers leaves the status at success. Results are taken one by one, since collectors
share nothing. `FileAudit` is the exception: a walk whose every step may find a file
grown, gone, unreadable or replaced, and whose targets may come, go or become something
else between their check (file_audit.py:85) and the generator's second look (21-27),
which yields nothing, unsaid, for what is by then a link, missing, or neither file nor
directory (`PassTarget`). It goes on in its thread after the deadline. `done`, `status` and `data` are the results in the
order of the registry, `touched` the sources asked, `payload` what `build_payload`
took over, `exit` the code of `main`, after which the interpreter still waits for
threads (`joining`). `Transmit` and `Stats` stand for what AgentRuntime and the spool
do inside them. *Abstracted:* the argument parser, the probe file of the path checks,
all values inside a section, single records that a source leaves out.

**LinuxInstall.** One run of `install.sh` from its snapshot on: `live`, `stage` and
`kept` say what the place, the staged copy and the backup of runtime, environment file
and unit hold; `had` and `armed` are the script's flags. One action per group of
commands whose failure the trap cannot tell apart; a command may fail without effect,
with part of it, or after it. `Fail` is `set -e` or `fail` and enters the actions named
Undo, Restore and Drop, which follow `cleanup()` in order. The parents every system has
(`/opt`, `/etc`, ...) are left out of the managed directories. *Abstracted:* a second
writer of the same places, whose appearance the script turns into a failure.

External (behaviour taken from how the code uses it): the collector, the package
commands behind a collector's `collect`, process death, the file system and locks of
the operating system. A crash is the death of a process: what it had done to the file
system stays.

## 3. Runs

Each run is one component on an instance small enough to exhaust.

| Run | Bounds | What it shows |
| --- | --- | --- |
| `one_agent` | 4 events, batch 2, sizes 1 and 2 in a spool of 2, age 2, time 4 | order and limits of the backlog, the meaning of "spooled", and that a cycle ends: `OldestFirst`, `OvershootBounded`, `SpooledMeansQueued`, `CycleEnds` |
| `two_agents` | 2 processes, 3 events, batch 2, a spool of 2, time 2, a clock set back | every event accounted for, no false delivery, TelemetryDelivery implemented: `Accounted`, `DeliveredIsReceived`, `ImplementsDelivery` |
| `backlog_drains` | capacity 4, batch 2, age 6, unfit records | outages end in an empty spool: `BacklogDrains` |
| `spool_files` | 2 processes, 3 files, 2 numbers, 1 fault, directory syncs work | records whole and kept, staging safe, leftovers gone: `OnlyCompleteRecords`, `StagingSurvives`, `ReturnedIsKept`, `RemovedStaysGone`, `LeftoversGo` |
| `dead_letter` | 2 processes, both kinds of move, 2 names, 1 fault, 1 foreign file, directory syncs work | a move loses, doubles and replaces nothing and is repeatable: `NeverLost`, `OneCopy`, `CommittedIsMoved`, `RejectAnswersAgree`, `DestinationsStay`, `HalfMovesEndAlone` |
| `run_loop` | interval 2, delay 1, time 8 | a stop at any instant, no bursts: `StopIsPrompt`, `Paced`, `StopEnds` |
| `collection_cycles` | 2 collectors, 1 thread, 3 cycles, a cache that lives for two | futures, cache and end of the cycle: `ResultsAreThere`, `InventoryHasItsTerm`, `CyclesEnd` |
| `identity` | 3 processes, 2 starts each, 3 reads, 1 crash or failing operation | concurrent starts agree: `OneFallback`, `GivesUpForCause` |
| `transport` | 8 attempts; delays in the past, below and above the cap | `ResultIsEarned`, `CollectorIsHeeded`, `SendEnds` |
| `linux_install` | every snapshot, 2 failing commands, a kill anywhere | `OldIsKept`, `RestoredOrReported`, `CommittedIsNew` |
| `command` | 4 commands, each switch alone, none, all, with and without the notice, one wrong value, 2 faults, 2 audited targets, two files below one of them, limits of 1; no allowed audit without the other collectors | consent, gaps that are told, clean refusals, an end: `OnlyWithNotice`, `NothingHidden`, `RefusedIsClean`, `AuditBounded`, `AuditTellsGaps`, `CommandEnds` |
| `install_staging_fails` | 1 failing command | violates `FailureRestores` |

`one_agent` also checks `TypeOK`, which for AgentRuntime is a theorem. The `TypeOK` of
the other modules documents the variables; the proofs carry the part of it they need.

Why the bounds are enough to be interesting: one fault is a crash or a failing system
call at any step of any process, or a loss of power, followed by the recovery of both;
two record names are needed for a collision and for running out of names, three files to meet both in
one history; two events overflow the spool and a batch of two leaves one behind; eight
attempts let the doubling delay pass its cap of 30 s; three cycles let a job
wait for the lock of an earlier one while the term of the cache ends; two failing sources are two gaps in one event, and two files with a limit
of one are the audit that must stop early. A file and a target change at most once each
during an audit: what a second change brings about, the audit sees as the first. `TwoAgents.cfg` uses symmetry of the two
processes, for safety properties only. Larger instances were explored once and hold too: the safety of `dead_letter` with two
faults (3.2 million states), which is not part of the project because it takes several
minutes. `linux_install`
holds with four failing commands as well (226 thousand states); two are a failure and
one more in its rollback.

### A disagreement between code and documents

* `install_staging_fails`. `staged_runtime` is set (install.sh:367) before the
  directory exists. If creating it fails, the trap finds `had_runtime` 0, a name and no
  directory, takes the new runtime for published (install.sh:320) and removes
  `/opt/monitor-agent`, the old installation, without "rollback failed".
  `tests/deploy/test_linux.py:1211` says that every failure restores; its list of
  failing commands lacks this one. `OldIsKept` and `RestoredOrReported` hold for all
  others.

Met while modelling, without a run of their own:

* A record that alone exceeds `spool_max_bytes` is evicted inside its own `enqueue` and
  still reported as "spooled" (`SpooledMeansQueued` fails for such a size; `one_agent`
  has sizes up to the limit).
* With `replay_batch_size` 1, which `config.py` allows, a backlog never drains, since
  each cycle settles one record and adds one (`BacklogDrain` with `ReplayBatch = 1`
  shows it).
* A crash between creating and writing `machine-id` leaves an empty file, and from then
  on every start that needs it fails with "concurrent machine identity creation did not
  complete" although nothing is concurrent (`GivesUpForCause` says what holds).
* A platform identifier that cannot be read at one start (a slow `ioreg`) switches the
  machine to its fallback identity.
* A signal handled while `Event.wait` holds the event's lock blocks the loop's thread
  on itself (`SignalLocksUp`, state `stuck`).
* The pauses of one send (up to three minutes) can outlast `TimeoutStopSec=45` of the
  systemd unit.
* A crash between the link and the unlink of a fallback publication is finished by
  the next reject (`tests/test_spool.py:1272`). If another process had opened the
  record before the crash, its `_move_to_dead_letter` finds the destination taken,
  re-points the marker to a new name (spool.py:425) and raises on the link count. No
  marker names the pair then, and no later operation repairs it: `HalfMovesEndAlone`
  is what holds without that meeting.
* If ack or retention removes the source between the link and the unlink of a fallback
  publication, the move raises with its marker not yet committed, and a third process
  that had the record open may replace that marker. The dead letter stays, but a later
  reject can answer with another name (`RejectAnswersAgree` excepts it, see 5).
* A reject answered after a crash between a move and its syncs may, if the power then
  fails and takes the move back, differ from the destination of a later one
  (`RejectAnswersAgree` excepts it).
* A damaged operation marker makes every operation of the spool raise, since each
  begins with the recovery that decodes all markers (spool.py:744); one that is damaged
  after it raises `UnboundLocalError` from the `finally` at spool.py:503 in place of
  the error. Dead letters are never expired.
* An `ack` that finds its record unlinked by another process returns without a sync
  (spool.py:140): if the power fails before that process has synced, the record is back
  although its acknowledgement returned (`RemovedStaysGone` excepts exactly this). It is
  then delivered twice, which the collector has to expect anyway.
* `health` ends in a traceback if another process removes a record between the
  listing and its stat (spool.py:200).
* A damaged `machine-id` (identity.py:85) makes `once --no-transmit` report an invalid
  event name (cli.py:218), because both are a `ValueError`.
* Exit 3 of `once --no-transmit` ("all collectors failed") needs every collector to
  fail or time out; a disabled one is neither, so with any switch off it can come
  only from the common deadline.
* A collector that hangs, such as the audit of a directory with a named pipe, which
  blocks `open` (file_audit.py:47), keeps the interpreter from exiting; `CommandEnds`
  excepts it. An audit that stops at `audit_max_files` reports success.
* A target of the audit that is a pipe or a device, or a directory that is renamed
  between its check and its walk, or, from Python 3.14 on, one whose `is_file` and
  `is_dir` meet an error, has no record and no mark (file_audit.py:26;
  `AuditTellsGaps` excepts it).
* A source of the software that fails next to one that answers is not told
  (software.py:108-204); tests assert it
  (`test_macos_one_available_source_is_success`,
  `test_windows_succeeds_when_one_root_opens_and_others_fail`), so it counts as intended,
  and `NothingHidden` excepts it. A failing `dpkg-query` on a system where `rpm` answers
  nothing is a successful empty inventory and cached for a day. Network connections
  (network.py:98-110) and registry keys that cannot be read are skipped without a mark.
* A signal during `install.sh`, Ctrl-C and a closed terminal included, runs its trap
  with the status of the last completed command, mostly 0, so that nothing is undone
  and nothing said (bash 5.2; `OldIsKept` says that nothing is lost).

## 4. Fairness

* `AgentRuntime!FairSpec`: weak fairness of a process's steps inside a cycle. Spool
  operations end, and `send` returns (SendEnds), because every attempt has timeouts
  and their number is bounded. Nothing is assumed of the collector, of crashes or
  restarts.
* `BacklogDrain`: the loop goes on; `<>[]up` is a premise of the property.
* `SpoolFiles`, `DeadLetter`: a running process goes on, a crashed one is restarted
  (the unit has `Restart=on-failure`), and it keeps calling some operation, as
  `pending()` in each heartbeat does. Which operation is open. A lock is not granted
  fairly beyond that.
* `RunLoop`: the loop's thread runs and cycles end; no signal is assumed.
* `CollectionCycle`: the cycle's thread runs and its clock passes the deadline; no
  fairness of collector threads, they may hang.
* `Command`: the main thread and the audit's thread run on. The main thread may have
  to wait for its deadline, which passes; a collector owes nothing. A file that grows
  as it is read is not assumed to stop.
* `Identity` and `LinuxInstall` state safety only, without fairness.
* `Transport`: a call that has begun goes on; a request ends by its timeouts.
  (`read_timeout_sec` bounds each read, not the whole answer: a collector that
  trickles bytes is outside this assumption.)

## 5. Proofs

Every theorem is about `Spec` of its module (`LoopSpec` for RunLoop), for every value
of the constants that the assumptions named in the module admit: any number of
processes, events, records, names, collectors, attempts and faults. Those marked with *
have the hypothesis `SyncWorks`, that directories can be synced (section 2).

| Module | Theorem | Property |
| --- | --- | --- |
| AgentRuntime_proofs | `TypeCorrect` | `TypeOK` |
| | `EveryEventAccounted` | `Accounted` |
| | `DeliveredWasReceived` | `DeliveredIsReceived` |
| | `Implementation` | `ImplementsDelivery` (a refinement) |
| | `OldestGoesFirst` | `OldestFirst`, for one process with a right wall clock |
| | `SpooledIsQueued` | `SpooledMeansQueued` (an action property), for one process with a right wall clock and no event larger than the spool |
| | `OvershootIsOneRecord` | `OvershootBounded`, for one process and a finite set of events, with any clock |
| SpoolFiles_proofs | `RecordsAreComplete` | `OnlyCompleteRecords` |
| | `StagingIsKept` | `StagingSurvives` |
| | `ReturnedRecordsAreKept` * | `ReturnedIsKept` |
| | `RemovedRecordsStayGone` * | `RemovedStaysGone` |
| DeadLetter_proofs | `TheRecordIsKept` * | `NeverLost` |
| | `TheCopyIsOne` * | `OneCopy` |
| | `CommittedMarkersAreTrue` * | `CommittedIsMoved` |
| | `DestinationsAreKept` | `DestinationsStay` (an action property) |
| | `RejectIsIdempotent` * | `RejectAnswersAgree` |
| Transport_proofs | `ResultsAreEarned` | `ResultIsEarned` |
| | `TheCollectorIsHeeded` | `CollectorIsHeeded` |
| Identity_proofs | `FallbackIsOne` | `OneFallback` |
| | `GivingUpHasACause` | `GivesUpForCause` (an action property) |
| Cycles_proofs | `TheStopIsPrompt` | `StopIsPrompt` of RunLoop |
| | `HeartbeatsArePaced` | `Paced` of RunLoop (an action property) |
| | `ResultsAreAsked` | `ResultsAreThere` of CollectionCycle |
| | `InventoriesKeepTheirTerm` | `InventoryHasItsTerm` of CollectionCycle (an action property) |
| Command_proofs | `ConsentFirst` | `OnlyWithNotice` |
| | `RefusalsAreClean` | `RefusedIsClean` |
| | `NothingIsHidden` | `NothingHidden` |
| | `AuditKeepsLimits` | `AuditBounded` |
| | `AuditTells` | `AuditTellsGaps` |
| LinuxInstall_proofs | `OldInstallationIsKept` | `OldIsKept` |
| | `FailuresAreUndoneOrReported` | `RestoredOrReported` |
| | `CommittedInstallationIsNew` | `CommittedIsNew` |

None of these properties is inductive; what has to be added is the argument:

* *AgentRuntime.* `TypedPhases`: a process has a live event exactly while a cycle runs.
  `Accounted` needs that a record leaves the spool only with a mark or to the dead
  letters (`RecordsLeave`). `DeliveredIsReceived` needs that a process about to
  acknowledge has had a success answer for that event (`Network`, `AckJustified`); a
  second process may have removed the record meanwhile, which is why these speak of
  events and not of spool contents. The refinement takes `StatusOf` as mapping and
  shows, per action, which step of TelemetryDelivery it is; `StatusPlaces` says, under
  `Accounted`, that the five places partition the events.
* *AgentRuntime with one process.* `Clocks` and `Dated`: events are built one after
  the other and a record is older than every later event, so names and births sort
  the records alike; `Front`: what `replay` has listed is not younger than what it has
  left. `Kept` follows a queued event through the two retention passes to the end of
  its cycle: it is the youngest record, so only its age can evict it. `Within`: outside a
  retention pass the spool keeps its limit, and inside one the pass has listed all of it.
  `Bytes` is a recursion over a set; the proof counts it as a set of cells, one for each
  byte of each record, whose cardinality the library knows. An induction over finite
  sets is a smallest counterexample (`SmallestSet`, by the well-foundedness of `<`).
  The hypotheses are needed: a second process may evict or send what this one
  queued, and a clock set back sorts a new record before the old ones.
* *SpoolFiles.* `Shared`: what a loss of power may leave is as good as what is seen
  (each is complete and unique); where the directory can be synced, a returned record
  is certain and one whose removal has returned impossible, but for the early ack.
  `Own(p)`: the file a process works on
  is its own, locked, and not yet removed, at each of its steps. The steps fall into
  those that publish and remove nothing, and the few that do.
* *DeadLetter.* `OnDisk`: what is seen is possible after a loss of power, and no copy
  is possible that is not seen. `Mover(p)`: past the lock on the source there is one
  process, before its publication no copy exists, after it the destination is the
  record, after each sync the directory is certain. `Truthful`: a committed marker that
  is possible after a loss of power is of a move synced in both directories
  (`Settled`). Then the record has a certain name (`Durable`) unless a move is between
  its publication and its second sync, or was cut there.
* *DeadLetter, the answers.* `Announces`, `Marked`: the marker of a move names its
  destination, and only the holder of the lock on the source changes it. `Late`: a
  process that comes to a finished move finds its committed marker, because the move
  committed it before it let the lock go. `Answered`: who has an answer has that name.
* *Transport.* `AnswerKnown` relates the answer in hand to what the collector did; an
  attempt begins only without a verdict and not before `notBefore`.
* *Identity.* `Written`: what the file holds is nothing, empty, or the value of the
  one start that created it, which is also what that start goes by in the end; once a
  start goes by it, it stays.
  `Blamed`: a file without content has a writer, or a failure behind it.
* *CollectionCycle.* `Looked`: a future seen done stays done, which the code relies on
  after the wait. `Term`: who is between taking the lock and its answer holds it and is
  the only one, its clock is not older than its lock, and from its decision to run the
  commands until it stores their answer nobody else writes the cache.
* *RunLoop.* `Noted`, `Late`, `Waiting`: between a check that saw no stop and the next
  one at most one cycle starts, and a wait ends without one once the stop is set.
  `Timed`: deadlines are on a grid of whole intervals from the first one, and the last
  heartbeat began in an earlier interval than the deadline the loop waits for.
* *Command.* `Consented` follows a switch from the configuration through the registry
  to the source, `Clean` and `Turns` the exits. `HInv`: each result so far tells of all
  sources of its collector, and a payload exists only when all have been taken.
* *FileAudit.* `AInv`: an audit adds a record only after it found room at the same file.
  `Place`, `Passed`, `Told`: every file before the place of the walk has a record, has
  changed or has made the audit partial; a file is taken as the least of those left,
  so those behind the last record come later in the order of the walk. A target that was
  absent all along made the audit partial when it was checked; one that was there all
  along was walked, or its walk failed, which made the audit partial too.
* *LinuxInstall.* `Installing` ties what each place, staged copy and backup holds, and
  the flags, to the step of the script; `Undoing` says at each step of `cleanup()` which
  things are still to be restored and which have been. A restore that fails leaves
  `rollbackFailed` and the backup, which is all that `RestoredOrReported` and
  `OldIsKept` ask of it.

RunLoop and CollectionCycle share a proof module that extends both, which is why the
names of RunLoop's specification begin with `Loop` and its program counter is `at`. No
module uses RECURSIVE.

`OneCopy` is proved for directories that can be synced; for others it is only
model-checked, on the instance of `dead_letter` with `SyncWorks` FALSE.

Two properties were restated when their proofs failed. `RejectAnswersAgree` did not
say what three processes can do: ack or retention unlinks the source between the link
and the unlink of a move, so that its marker is never committed, and a process that
had the record open replaces the marker with another name. The instance of
`dead_letter` has two processes and cannot show it; the property now excepts a record
that was consumed. `AuditTellsGaps` now speaks of each target of an audit apart, since
the walk is ordered within a target and not across them.

Only model-checked: liveness (`CycleEnds`, `BacklogDrains`, `LeftoversGo`,
`HalfMovesEndAlone`, `StopEnds`, `CyclesEnd`, `SendEnds`, `CommandEnds`), because the
prover handles neither fairness nor ENABLED. BacklogDrain has no property of another
kind and therefore no proofs; `install_staging_fails` is a violation.

## 6. Not modelled, and why

* The values inside a payload: the parsing of what collectors read, the redaction of
  process command lines, the fields of records. Text and I/O, in which no step depends
  on an earlier one. `NothingHidden` says what becomes of whole sources; records that a
  collector drops within one (section 3) are not modelled.
* Logging: its redaction rewrites text before it is written, its rotation is that of
  the standard library. Neither changes what the agent does.
* `uninstall.sh`, a sequence of removals without rollback; the macOS installer, whose
  transaction is the Linux one on another service manager; the Windows installer,
  whose journal is about services and access lists the repository only calls.
* Windows and macOS variants of file operations in `spool.py` (marked as fallbacks in
  the code): the POSIX paths are modelled.
* Loss of power in `identity.py`: the content of `machine-id` is synced, its name is
  not, so a start after it may find no file and create another identity.
* A damaged marker of a dead letter: every operation that meets it raises.
* Nested signals: a second signal that interrupts `Event.set` in the handler of the
  first.

## 7. Plan

1. (done) TelemetryDelivery, AgentRuntime, BacklogDrain, SpoolFiles, DeadLetter,
   RunLoop, CollectionCycle, Identity, Transport, LinuxInstall; Settings, Collectors,
   FileAudit and Command; loss of power, clocks set back, unfit records; the theorems
   above.
2. The Linux uninstaller, then the macOS and Windows installers as far as they differ,
   under an abstract specification they share: old installation, new one, or a
   reported failure with the backups kept.
3. Proofs: the safety of AgentRuntime's order and limits for several processes, as far as
   it holds (a process keeps its own listing in order whatever the others do); the type
   invariants of the other modules; a shared abstract specification of the installers,
   implemented by LinuxInstall.
