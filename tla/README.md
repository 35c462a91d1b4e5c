# A TLA+ model of Saga Forge and of its feature workflow

The repository holds two programs. Saga Forge is a Java framework for long-running business processes (sagas): at
this commit annotations and their validation, the storage SPI with a PostgreSQL implementation that keeps a lifecycle
history, and an execution contract for the engine that is still to come, with a test harness that honours it. Beside
it, `.specify/extensions/companion` holds Python programs that hooks, an AI assistant and its workers call while a
feature is developed: they keep a lifecycle record, a task log, living specs, a registry and a run trace. This
directory models the parts of both in which order, concurrency and failure decide whether the program is right.

Check it with TLC (`tlc -config X.cfg M`) and TLAPS (`tlapm M.tla`). `PROJECT.json` maps every definition to the
lines it models and lists the runs, a mutant for each property, the findings and the hazards.

## 1. Inventory

Paths are shortened: `pg/` is `saga-forge-storage-postgres/.../storage/postgres/`, `core/` the main sources of
`saga-forge-core`, `harness/` its `core/execution/harness` test sources, `scripts/` is
`.specify/extensions/companion/scripts/`.

| Component | State it keeps | Operations | Hard behaviour | Correct when |
|---|---|---|---|---|
| Saga snapshot and `SagaLifecycle` (`core/spi/SagaInstance`, `core/lifecycle`, `harness/HarnessSagaLifecycle`) | an immutable snapshot: status, step records, outcome, failure, fields, associations | start, recordStepCompleted, advance, complete, fail | transitions computed from a snapshot that is stale when saved | terminal is final |
| Lifecycle history derivation (`pg/LifecycleHistoryDerivation`) | none: a function of previous and incoming snapshot | derive, requireForwardTransition | numbering several entries of one save; what counts as going backward | the history reconstructs the snapshot |
| PostgreSQL storage provider (`pg/PostgresStorageProvider`, `schema.sql`) | rows of three tables; one transaction per call | save, find, delete | several processes on one saga, row locks, READ COMMITTED, lost answers, retries | a save is atomic; no progress undone, no entry twice |
| Unit of work (contract `specs/002-.../saga-unit-of-work.md`, `harness/SagaTestHarness`, `HarnessUnitOfWork`) | stores, the active unit, the loops under way | deliver, publish, record, commit, roll back, dispatch, redeliver, resume | deliveries nested in dispatch loops, a failure after several steps, restarts | a unit of work is atomic; no saga starts twice |
| Command gateway, aggregate access, saga context (`core/command`, `core/lifecycle/SagaContext`, harness) | routes, aggregates, named values | send, load, save, put | a failure the step catches; context written at once, outside the transaction | the unit rolls back all the same; the context survives |
| Context record and lock (`scripts/spec_context.py`) | `.spec-context.json`, the lock file beside it | lock, reclaim, read, guard, publish, release | holders that die, hang or cannot be seen; waiters that give up | writers take turns; the history only grows; nobody waits for ever |
| Lifecycle record, tasks, append log (`scripts/write-context.py`, `task_sync.py`, `derive-from-files.py`) | status, step and history in the record, `tasks.md`, `.spec-context.events.jsonl` | start, complete, finish, advance, append, fold, sync, mark complete, derive | hooks late, twice or out of order; a crash between fold and completion | no finish lost, no boundary twice, no status dragged back |
| Living-spec fold and accounting (`scripts/spec_deltas.py`, `living_spec_fold.py`, `capture.py`, `record-living-specs.py`) | living specs, `livingSpecs` of the record | load, fold, skip, register | blocks that overlap, routing, a fold that stops half-way and is run again | what was asked lands where it is marked for, once |
| Resolver (`scripts/resolve-spec-paths.py`), validation (`living_validate.py`) | none | match files to capabilities, find tiers; check shapes | nested areas, old and new names | the most specific capability, the file that exists |
| Capability registry (`scripts/companion_config.py`, `register-capability.py`, `relocate-capability.py`) | `living-specs.yml`, an older block in `companion.yml`, spec and tier files | register, relocate, undo, run again | two configs at once, a failure or kill between moves and rewrites | config and disk agree, nothing is unregistered |
| Capture calls and run trace (`write-context.py`, `capture.py`, `run_trace.py`) | fields of the record, `.trace.jsonl`, `.trace-lost` | the capture flags, batches, verification runs; append, cap, note a loss | refusals and failures half-way, two calls that append and cut one file | ok means it landed; a trace that calls itself exact is complete |
| Code drift (`scripts/drift.py`) | none but the reviewed line in a spec; reads git, records, specs | report (committed, `--working`, `--since`), accept | shallow clones, shared globs, partial commits, records that outlive edits | a clean report means somebody looked |
| Not modelled (section 8): PostgreSQL context store, row mapping and JSON, domain event scope, annotation scanner, plan blocks, reports, example, empty modules | | | | |

How they interact. The engine resolves instances through `StorageProvider`, applies `SagaLifecycle` transitions (each
a load and a save), runs client steps that record events and send commands, and hands the remaining events to the
dispatcher after the commit; the provider derives history rows inside `save`. The workflow scripts are short-lived
processes that share files only: each takes the lock of the feature's record at its first read and lets go of it when it
exits; the fold reads the delta blocks of the feature's `spec.md`, the registry says which living specs there are, and
every call leaves one line in the run trace. The drift report reads git's history, the records of all runs and the
living specs, and tells the next fold which specs the code has left behind.

## 2. Modules

| Module | What it is |
|---|---|
| `SagaInstances` | the saga snapshot and the five lifecycle transitions |
| `LifecycleHistory` | history entries, `Derive`, `ForwardTransition`, `NextSequenceNumber` |
| `SagaStore` | abstract: one saga's row, associations and history change in atomic saves and deletes |
| `PostgresStorage` | the provider, one action per SQL statement, for a set of processes; implements `SagaStore` |
| `AtomicUnits` | abstract: a unit of work commits progress, aggregates and events at once, or records FAILED and nothing else |
| `SagaUnitOfWork` | the harness: delivery loops, units of work, rollback, dispatch; implements `AtomicUnits` |
| `SerialTurns` | abstract: writers take turns, a publish adds its part and drops nothing |
| `ContextLock` | the lock file and the operations it guards, one action per file operation; implements `SerialTurns` |
| `Replays` | a fold over a sequence of edits, used by the next four |
| `SpecRecord` | the lifecycle calls on record, task list and append log |
| `LivingSpecFold` | delta blocks, their fold into living specs, the accounting |
| `CapabilityRegistry` | registration and relocation, with failure, undoing and kill |
| `CaptureCalls` | the capture flags of a call in order, its outcome, and the run trace |
| `CodeDrift` | the drift report over a history that people, runs and commits change |
| `HandEdits` | `CodeDrift` beside a history of which changes a run made |
| `PostgresStorageProofs`, `SagaUnitOfWorkProofs`, `ContextLockProofs`, `SpecRecordProofs`, `LivingSpecFoldProofs`, `CapabilityRegistryProofs`, `CaptureCallsProofs`, `CodeDriftProofs` | theorems |
| `MC...` | constants of the TLC instances |

### PostgresStorage

`row`, `associations` and `history` are what is committed of one saga. One saga is enough: every statement of `save`
and `delete` names one `saga_id`, and no lock, key or constraint spans two. `locked` is the transaction that holds the
row. Each client has a program counter that names the next statement of `save` in the code's order: lock and compare
(`LockPrevious`, `LockNothing`, `RejectBackward`), `ReadNextSequenceNumber`, `UpsertInstance` (`RejectFirstSave`),
`ReplaceAssociations`, `InsertHistory`, `Commit`. What is assumed of PostgreSQL stands at the head of the module: READ
COMMITTED, row locks, key waits of upserts, atomic COMMIT; a waiting statement is a disabled action. Any statement may
fail and roll back (`FailStatement`), a COMMIT may take effect and its answer be lost (`LoseCommitAnswer`), and after an
exception the caller saves the same snapshot again (`Retry`) or forgets it (`GiveUp`, also a crash). The snapshot a client
loaded may be arbitrarily stale when it saves.

### SagaUnitOfWork

The harness is single-threaded, but its loops nest: `deliverAll` over saga types, `deliverTo` over the instances found,
`dispatchPending` over committed events, whose listener may call `deliverAll` again. `stack` holds these loops, the
innermost first; `unit` is the active `HarnessUnitOfWork`. Client code (step methods, command handlers, aggregates) is not
in the repository and is modelled by single effects: record an event, send a command that changes an aggregate, fail in a
way the step may catch, write the context. A step ends by returning (`ReachEnd`, `Wait`, `RunQueued`) or by throwing
(`RollBack`). A listener may deliver an event again or not, and `Resume` is a listener that captures `persistedState()` and
a new harness that goes on from it. Left out: publishing from inside a listener, the returned results, the event log.

### ContextLock

A process is one run of a writer script: `Create` (exclusive creation), `WriteToken`, then per publish `Read`,
`GuardAppendOnly`, `Publish`, and on exit `CheckRelease` and `Drop`. A waiter goes `ReadOwner`, `Decide`, `CheckOwner`,
`Unlink`: the two reads and the unlink are separate steps because they are separate system calls. `GrowOld` is the 30 s after
which nobody's touch counts, `RunLate` the 60 s after which a waiter writes without the lock. A crew chooses who runs, how
often, whose pids are visible (containers), who may crash or hang for ever. `RunLate` is possible only where the holder
does not end by itself: a working holder is assumed to be done within 60 s (see section 7 for the exception).

### SpecRecord

Because each operation that locks is a turn (`ContextLock`), such a call is one action: `StartStep`, `CompleteStep`,
`JournalFinish`, `JournalAdvance`, the task calls (`AppendTaskLog`, `CloseTask`, `JournalTaskFinish`, for any id, in `tasks.md` or
not), `MaterializeLog`, `SyncTasks` and `MarkComplete`, which publishes twice and may crash in between.
`derive-from-files.py` takes no lock, so `Derive` has phases, `DeriveRead`, `DeriveInfer`, `DeriveJournal` and `DerivePublish`, and turns
and edits come between them; one derive runs at a time. Its publish is not placed inside another call's turn, which would be one more way to
lose that call's field. The author writes and ticks tasks at any time (`WriteTask`, `Tick`). Two history variables:
`finished` is every task whose finish a call accepted, `overlapped` says that a call has had its turn while a derive ran.

### LivingSpecFold

A living spec is its sequence of requirements (heading, text, the files it `touches`, its `aligns` edges, and whether the
marker is `direct`ly under the heading, where the fold reads it, or further down, where only the resolver does); a glob is the
set of files it matches. `retiring` are the capabilities whose entry says that a fold may leave them empty. `Fold` is `fold_living_specs`: shapes are checked, each capability's blocks are chosen
(`_deltas_for`), applied in the code's order of verbs and written one spec after the other; `killed` stops it after some of
them. Bodies are compared, never parsed.

### CapabilityRegistry

`registry` and `legacy` are the two configs, `files` the spec and tier files by place and name, `job` the progress of a
relocation: `Move` one file at a time, `WriteRegistry`, `DropLegacy`, `Finish`; `Fail`, `FailMove` and interrupts lead to
`Undo` and `Restore`, which may be refused themselves (`FailUndo` for one file, `FailRestore` for the registry) or cut short
(`CutShort`); `Kill` leaves everything as it is and `Rerun` repeats the command. Two history variables: `owed` is what was
registered and not replaced since, `astray` the capabilities whose own files or entry a rollback could not put back, and those
killed between the move of a spec of the old name and the move of its tiers (`Stranded`).

### CaptureCalls

A call is a record from its flags to the publishes each asks for. `Begin` parses (`Invalid` refuses before anything is
written), `RunCommand` runs a verification before the record is read (`Resolved` puts its result into the
publish that carries it), `Publish` is one writer's turn, `EndWrites` computes
the outcome, then `OpenTrace`, `AppendLine`, `CheckCap`, `ReplaceTrace` are the trace's system calls. `FailPublish`,
`FailTrace` and `Kill` may come anywhere. The lock is here as `ContextLock` shows it with patient waiters: whoever publishes
first keeps the turn until it exits.

### CodeDrift

`commits` are trees (path to content), `work` is the working tree, and a *view* is what one report sees: the depth of the
clone, `--since`, `--working`. `Drifted` is the report for a capability, built from one operator per helper of `drift.py`;
`Checked` says it is not skipped. The report changes nothing, so the actions are those of the world around it (`HandEdit`,
`EditDoc`, `WriteSpec`, `RunEdit`, `RunAccounts`, `Commit` of any part) and `Accept`. `RenamedAway` is git's default rename detection, which `--name-only` shows
as the new name alone: a removed file is paired with one that came and is like it (`Likeness`; `Turn` decides who goes first). Markers may name any
file. Assumed: linear history, git answers, nothing staged but in a commit, every capability has a
spec path, specs are colocated (`<name>.spec.md`), records and specs are not deleted.

## 3. Runs

| Run | Checks | Instance |
|---|---|---|
| `pg_saves` | `TypeOK`, `HistoryAgreesWithRow`, `HistoryReconstructsRow`, `ProgressIsKept`, `HistoryIsAppendOnly` | 3 processes, 4 calls, 2 steps, 2 touch lists, no deletes |
| `pg_deletes` | `LockDiscipline`, `RowsBelongTogether`, `ImplementsStore`, `CallsReturn` | 3 processes that also delete, 3 calls, 2 association sets |
| `uow_runs` | `TypeOK`, `OneActivePerAssociation`, `UnitRunsOnActive`, `ContextsHaveSagas`, `DeliveriesReturn`, `EachEventGoesOneWay`, `ImplementsAtomicUnits` | two saga types that meet on an event, from nothing and from two correlated bookings; 2 events from outside, 2 effects |
| `lock_turns` | `HoldersOwnTheLock`, `ImplementsTurns`, `EveryWriterReturns` | 3 writers without a fault; 2 of which one crashes, visible or not, or hangs |
| `record_lifecycle` | `RepeatsAddNothing`, `NoFinishIsLost`, `FoldEqualsLive`, `StatusMovesForward`, `DoneSpecsShip` | steps tasks and implement; 2 tasks, in `tasks.md` or not; step calls and derives, overlapped or not, while the history is shorter than 2 |
| `fold_deltas` | `NoDuplicateHeadings`, `RefoldIsNoOp`, `DeltasLand`, `MarkersOnlyWiden`, `NothingBleeds`, `MarkedBlocksLand` | 2 nested capabilities, 6 pairs of living specs, every pair of blocks |
| `registry_moves` | `ConfigAndDiskAgree`, `NothingIsDropped`, `CallsTouchOnlyTheirOwn`, `KilledRelocationHeals` | 2 names; a new, an old, a mixed and a spelled-out project; failures and interrupts everywhere but where `registry_interrupt` has one; one kill not yet repeated; one of the two may go astray |
| `capture_calls` | `RepeatCompletes`, `OkMeansLanded`, `ExactIsComplete` | 2 callers, 2 and 1 calls of fourteen kinds, cap of 2 lines, one mishap |
| `code_drift` | `ShallowNeverMisleads`, `CleanMeansSeen`, `WorkingMissesNothing` | 2 capabilities that share a file and a directory, 1 run, 3 commits, 4 changes |
| `pg_renumbered`, `lock_orphan`, `registry_interrupt` | violations, section 6 | |

Why the bounds are enough.

- Storage: a race on one saga needs a transaction that read, one that wrote in between and, with deletes, one that
  removed; three processes give each a client of its own, and the known renumbering needs exactly three calls. The fourth
  call of `pg_saves` makes room for a start, two transitions from it and a retry. `MaxCalls` bounds calls, not statements.
  Clients are symmetric in `pg_saves`, not in `pg_deletes`, which checks liveness. `FirstNumbers` of `pg_deletes` says that a
  history may start above 0; `pg_saves`, without deletes, says it starts at 0.
- Unit of work: a start event that records an in-process event and an end event, with each delivered again in the nested
  loop, needs two deliveries and two effects; `Ids` is as large as the number of sagas those can start.
- Lock: the interesting orders need a holder, the waiter that reclaims and a publish of two parts; with a third writer
  the repository's code breaks (`lock_orphan`), so crashes are checked for two.
- Record: two step calls are a late call behind any other, and the task calls, folds, derives, the backstop and the completion add to the
  history beyond the bound; that longer orders of hooks do no harm is proved. Two tasks tell a batch from a single finish;
  nothing else tells them apart, so CONSTRAINT `FirstTaskFirst` has t1 written first.
  `OneLineAfterOverlap` lets two lines wait in the append log only until a call overlaps a derive; what the fold does with a batch does not
  depend on how the record came about, and is proved for all.
- Fold: blocks of one unit pair every verb with every verb on the same and on another heading, contradictory pairs included
  (one heading removed and modified, or renamed and modified under its old name): there `RefoldIsNoOp`, `DeltasLand` and `MarkersOnlyWiden`,
  whose premise `AsksOneThing` they fail, ask nothing, and the other three ask what they ask of all. The author
  writes one document (`MaxDrafts`), since a fold only sees the one that is there.
- Registry: one capability with a directory of its own and one in shared code; a spec of the old name has a tier beside it,
  so a kill may strand it, and one project spells out what a rewrite drops and one declares `retire`. `Writers` is one
  program at a time: nothing locks the registry (section 7). A relocation may fail or be interrupted at its moves, at each rewrite, behind
  the last one ("end") and in the rollback, but for one instant, which is `registry_interrupt`. CONSTRAINT `OnlyBillingAstray` stops
  where a rollback could not put back store, in shared code: the other may go astray in every way, and what that does to store is seen.
- Capture: the kinds of call contain every capture flag but `--fold-living-spec` (that is `LivingSpecFold`), a batch, and every way to be refused or declined; two lines and an
  earlier one make every append reach the cap, so cuts overlap; one mishap is a kill or failure at any step.

- Drift: a baseline, a commit after it and one more give every shallow depth; four changes are an edit, a spec, a record and
  a second edit. One capability claims everything and the other the shared file and its neighbour's spec, with and
  without markers, one of them for a file the other alone claims, one spec possibly not there yet. Two files of the same content are alike, so a removal
  and an addition are a rename.

`CHECK_DEADLOCK FALSE` is set in the storage, unit-of-work, record, fold, capture and drift runs, whose callers, hooks and authors may stop
calling; that nothing waits for ever is what `CallsReturn`, `DeliveriesReturn`, `DoneSpecsShip` and `MarkedBlocksLand` say. The lock and
registry runs check deadlock.

Fairness.

- `PostgresStorage`: the server answers each statement it can answer. Callers need not call or retry. Weak fairness is
  enough because the number of calls is bounded and a waiting statement stays enabled once nobody else wants the row.
- `SagaUnitOfWork`: the harness goes on with its loops and a step method returns or throws; one that blocks for ever
  blocks the harness's only thread.
- `ContextLock`: the scheduler runs every process, and time passes (`GrowOld`, `RunLate`). Crashes and hangs are not fair.
- `SpecRecord`: once every task is checked, the after-implement hook fires and the mark-complete command follows it; both
  are wired in the extension's manifest and commands. Nothing else need happen.
- `LivingSpecFold`: the fold is called once more undisturbed; the implement body and the mark-complete command both call it.
- `CapabilityRegistry`: a running program goes on, and the user repeats a relocation that was killed, before anything else.

## 4. Properties worth a remark

`ImplementsStore`, `ImplementsAtomicUnits` and `ImplementsTurns` are refinements: whatever races, fails or crashes, an
observer of the committed state sees atomic saves, atomic units of work, and turns. `RepeatCompletes` compares, in every
reachable record and for every call, a call cut short after any of its publishes and made again with one undisturbed call.
`FoldEqualsLive` compares two paths of the code that must agree, the batch fold of the append log and the live finish.
`DeltasLand` states what an author asked of each heading, not how the verbs are applied, and `NothingBleeds` says for every
text in a spec which block it may have come from. `NoFinishIsLost` and `NothingIsDropped` use history variables, so they
speak of every instant of a completion or relocation, not only of its end. `ShallowNeverMisleads` and `WorkingMissesNothing` compare
reports: of one history from clones of every depth, and from before and after a commit.

## 5. Proofs

TLAPS proves, for every value of the constants the assumptions allow:

| Theorem | States |
|---|---|
| `PostgresStorageProofs!TypeCorrect`, `Locking`, `Together` | `TypeOK`, `LockDiscipline`, `RowsBelongTogether` hold always |
| `Progress`, `AppendOnly` | the action properties `ProgressIsKept`, `HistoryIsAppendOnly` |
| `Agreement` | `HistoryAgreesWithRow` |
| `NoDuplicates` | `NoDuplicateEntries`: no transition is recorded twice, no number used twice |
| `Implements`, `ImplementsFromZero` | `ImplementsStore`: with deletes if histories may start at any number; without deletes with histories that start at 0 |
| `WithoutDeletes`, `Reconstruction` | without deletes the numbers are 0, 1, 2, ... and `HistoryReconstructsRow` |
| `SagaUnitOfWorkProofs!Typed`, `RunsOnActive`, `ContextsBelong` | `TypeOK`, `UnitRunsOnActive`, `ContextsHaveSagas` |
| `OneActive` | `OneActivePerAssociation`, if the storage a harness starts with satisfies it |
| `ImplementsUnits`, `OneWay` | the refinement `ImplementsAtomicUnits`, the action property `EachEventGoesOneWay` |
| `ContextLockProofs!HoldersOwn` | `HoldersOwnTheLock`, in crews without a crash and in crews of at most two |
| `TakesTurns` | the refinement `ImplementsTurns`, in crews without crash or hang and in crews of at most two |
| `SpecRecordProofs!NothingLost`, `RepeatsAdd`, `FoldsAgree` | `NoFinishIsLost`, `RepeatsAddNothing`, `FoldEqualsLive`, for any steps, substeps, tasks and order of calls, and histories and logs of any length; the first two as long as no call has overlapped a derive |
| `NeverDraggedBack` | `StatusMovesForward`, as long as no call has overlapped a derive and while the steps are those of `STEP_ORDER` |
| `LivingSpecFoldProofs!NoHeadingTwice`, `NothingBleedsAnywhere` | `NoDuplicateHeadings`, `NothingBleeds`, for any capabilities, globs, markers and drafts, half-way and repeated folds |
| `EveryDeltaLands`, `RefoldsChangeNothing`, `MarkersNeverNarrow` | `DeltasLand`, `RefoldIsNoOp`, `MarkersOnlyWiden`, for any drafts; the properties speak of those that ask one thing of each heading they modify |
| `CapabilityRegistryProofs!NothingDropped` | `NothingIsDropped`, while commands do not overlap and none is interrupted after the old block is gone |
| `OthersUntouched` | `CallsTouchOnlyTheirOwn`, under the same conditions and from configs with no name twice |
| `CaptureCallsProofs!Exact` | `ExactIsComplete`, for any callers, calls, cap, kills and failures |
| `Repeats`, `OkLanded` | `RepeatCompletes`, `OkMeansLanded`, for any calls of any publishes, any results, kills and failed writes |
| `CodeDriftProofs!NeverMisleads`, `CleanSeen`, `WorkingSees` | `ShallowNeverMisleads`, `CleanMeansSeen`, `WorkingMissesNothing`, for any capabilities, globs, markers, runs and clone depth, and histories of any length |

Assumptions: those of the modules, which TLC evaluates in every run. They say that the values that stand for "nothing"
(`None`, `NotRun`, `NoRow`, `NoClient`, `NoSaga`, `NoUnit`, `Missing`, `Blank`) are none of the values they stand beside, that
bounds are natural numbers, and what the code's own checks guarantee of its configuration: step numbers are finitely many
(`StepsAssumption`), an event type lists each step once (`StepsOnAssumption`), every step belongs to a saga type
(`TypesAssumption`), a task, a step and a status is something and
a substep is not a task (`NoneAssumption`, `SubstepsAssumption`), a capture call has the flags and batch keys the parser knows, each with
lists of entries (`CallsAssumption`). Some theorems have a hypothesis of their own:

- `Implements` needs `FirstNumbers = Nat` because a delete between the read of the last number and the upsert makes a
  first save start above 0 (the run `pg_renumbered`); `Reconstruction` and `ImplementsFromZero` need `Deleters = {}`, since a
  saga that was deleted is saved again by a client that still has its snapshot.
- `OneActive` asks that what the harness finds has no two active sagas of one type and one association map. Nothing in
  `InMemoryStorageProvider` prevents a test from preparing such a pair.
- `LockCrews` (`HoldersOwn`): nobody crashes, or there are at most two. With three and a crash the code breaks
  (`lock_orphan`). `TurnCrews` (`TakesTurns`) also asks that nobody hangs in a crew of more: a waiter that gave up after 60 s
  writes without the lock, and with a third writer its copy may then be stale.
- `NeverDraggedBack` asks that `Steps` has no step a project added. `_is_more_advanced` compares positions in `STEP_ORDER`, and a
  step without one protects nothing (section 7).
- `NothingDropped` and `OthersUntouched` ask that one command is at work at a time (`Alone`; nothing locks the registry, section
  7) and that none is interrupted between dropping the old block and the end of its guarded part (`GuardHolds`); the run
  `registry_interrupt` shows what happens otherwise. Any other interrupt, a kill, and a rollback that is refused in part or cut short may
  come anywhere. `OthersUntouched` starts from configs with no name twice (`SingleOrigins`), which the reader does not reject (section 7); entries may
  spell out what a rewrite drops and declare `retire`, and the property says what becomes of them.
- `InitialUnique` (all five theorems on the fold): the living specs start with no heading twice; people edit them, and the fold
  itself does not refuse one that has.

Storage. None of the properties is inductive: a commit publishes what statements before it have read. `IInv` is `TypeOK
/\ LockDiscipline /\ RowsBelongTogether /\ HistoryBounded`. `LockDiscipline` carries the reading forward: a transaction that
read a row, or has written, holds the row, and the committed row still is `previous`. `RowsBelongTogether` makes an absent
row mean an empty history, which the first save's entries need. `HistoryBounded` says that the numbers in use have a maximum,
without which `MAX(sequence_number) + 1` would not be above them all. `ProgressIsKept` and `HistoryIsAppendOnly` then follow for
each step, `HistoryAgreesWithRow` is inductive relative to `IInv`, and `NoDuplicateEntries` also needs `NumbersAreFree`: the
numbers a transaction has inserted stay free until it commits, although another may delete the saga in between or commit a
first save. For the refinement, `NextIsCurrent` says that the number a client read behind a row it found still is the next one
of the committed history; without deletes `NoDeletesInv` adds that histories start at 0 and have no gap, and that a client
never knows more progress than is committed. The facts about `Derive` are lemmas of their own, which count
ranks by cardinality.

Unit of work. `EngineInv` is `TypeOK /\ UnitInv /\ FrameInv /\ ContextInv`. `UnitInv` ties the active unit to the saga it found: that
one is stored, is active now and was when the unit began, only steps have been recorded on it since, and every other saga is as
the unit found it. `FrameInv` says of each loop on the stack that the sagas it has yet to visit are stored, whatever the units
run in between did, and that it has a step to look at them with.
`OneActivePerAssociation` needs one more fact of each step: a saga is created only where no active one of its type has the
association map, and no transition changes a map or makes a terminal saga active again. In the refinement a step that runs
inside a unit is a stutter, and exactly `ReachEnd`, `Wait`, `RunQueued` and `RollBack` commit or fail; the mapped events are what
`FlattenSeq` makes of the queues on the stack, and its recursion is proved to add one queue after the other (`FlattenRecursion`).

Lock. `LockInv` is `Types /\ CrewInv /\ FileInv /\ HolderInv /\ ReclaimInv`: there is at most one lock file, its token is its creator's
or not yet written, a process that believes it holds the lock created it, and who is about to remove a lock is alone or will
find that the token it saw is gone. The last is what fails with three. `TurnInv` adds the record: who writes without the
lock writes when every other process has stopped, a writer's copy is the record as it is now, and the record holds exactly what
was published.

Record. `RecordInv` is `Sound(ctx, tasks) /\ LogInv /\ HistoryInv /\ NoFinishIsLost`. `Sound` says that what the history says of a
task is its finish in the implement step and nothing else and that a task is listed once, `LogInv` that an append log has lines, and `HistoryInv`
that each boundary is in the history once, unless a call overlapped a derive. Of the derive that runs, `DeriveInv` says that what it is going to
publish extends the record it read, and without an overlap that record is still the one there. The actions fold sequences, so the proof first says what a fold does: `FoldLinesDoes` (the finishes of
its lines are added, no other entry, and the status only advances) and `JournalFreshDoes` (one finish for each box that has none) are
proved along the sequence, and `MaterializedDoes` adds ticks and close. `RepeatsAdd` holds because the second fold finds
every finish and box there, and whether the step closes depends on the history alone; `FoldsAgree` because the batch and the live call
tick the same boxes before they decide on the close, once each finished task of `tasks.md` is checked. For `StatusMovesForward`, `StatusInv` adds that a spec in flight has a status its step
may have (`Limit`): hooks are held back by the step they find, and only so is the status safe.

Fold. `FoldInv` says that no living spec has a heading twice and that the draft is one the author may write. It is inductive
because each edit keeps it (`RenameToDoes`, `RemoveHeadDoes`, `ReplaceBodyDoes`, `AddRequirementDoes`): a rename or an addition is made only
where the heading is not there yet. `apply_deltas` is cut into its stages, `Renamed`, `Removed`, `Replaced`, `Extended` and
`Promoted`. A set of specs that every edit of the deltas stays in (`Closed`) is one the fold stays in, which gives `NoHeadingTwice` and
`NothingBleedsAnywhere`; `Keeping`, the specs that still have what the fold reads of a requirement's marker and edges, gives `MarkersNeverNarrow`. `Landed` is what the
deltas leave: every addition is there, every modification has its text, nothing that was removed and not added again stands, and no
renamed heading stands without its new name. The stages together reach it from any spec (`FoldLands`), where it holds each of
them changes nothing (`LandedStays`), and it implies what the author asked for (`LandedHolds`); `EveryDeltaLands` and
`RefoldsChangeNothing` are these three.

Registry. What is owed must be found now and after whatever the program at work does next. `KeptInv` therefore says of a job that
what it is going to write has every owed name, that what it would give back has them as well while the old block stands, and that
the block is dropped only behind a registry. `ScopeInv` says the same of what the resolver reads: the config a job
will write and the one it started from agree on the capabilities it does not name (`AgreeOn`), and the files are those it found with
some of the moves made that were done so far or could not be undone, whichever they are (`Restorable`). Moves of one plan touch
different files (`PlanIsFit`), so undoing any of them, made or not, leaves the others' (`MadeLess`), and with none left only the files of
capabilities that went astray differ from those of the start. That a rewrite reads the same is `RewriteReads`, but for the entries that
spell out what it drops.

Trace. `ExactIsComplete` says nothing of calls that are under way, so `TraceInv` adds: while nothing has been rolled off no file
has replaced another (`NeverCut`), hence a call that opened the file appends to the one that is there; a call past its
append has its line in the file (`LineIsThere`); and a call about to replace the file read more lines than the cap
(`CutsSomething`), so the new file counts at least one line as gone. What the writers publish is left opaque: the proof
holds for any of it.

Captures. A put adds an entry under a new key or replaces one in its place, so a list only ever grows by keys (`Extends`).
`Repeats` runs a call's publishes to where it was cut short and then all of them again: at each place the second run has what the
first had there by then or what it had there in the end (`Behind`). Every put keeps this (`PutStaysBehind`), whatever list it goes to, and
at the cut the two records are the same. The theorem needs of a reachable record only that its fields are lists (`IsRecord`).
`OkMeansLanded` says nothing of calls that are writing; `PastIsDone` adds that each publish behind one was declined, or landed
with a value one of the publishes so far carried and the call has had the turn since. No other caller writes in between
(`OthersWait`), a later put of the same key brings a value this call was asked for (`PutHolds`), a command's result goes only
into publishes still to come (`ResultAside`), and a failed publish leaves an outcome ok only if it is the plan check, behind all
others (`PlanComesLast`).

Drift. Of the reachable states `ShallowNeverMisleads` needs only that the history is a sequence (`HistoryInv`), the other two that
commits and working tree are trees and that a spec, once there, stays (`TreesStay`). The report depends on the clone through
the baseline alone (`SameVerdict`), and above the edge both clones see the same commits touch a spec, so a baseline there is
the full clone's (`SameBaseline`). `CleanSeen` follows a file through the capabilities that yield it to each other: one of them
names it most precisely and has to answer for it. `WorkingSees` compares one baseline before and after the commit.

That a bounded set of numbers has a maximum, a nonempty one a minimum, and that a set closed under successors reaches `n`, is
taken from the well-foundedness of `<` (`LeastElement`, `UpTo`); equations of recursive functions come from
`FiniteNatInductiveDef`, for one operator at a time.

Only model-checked: everything about fairness (`CallsReturn`, `DeliveriesReturn`, `EveryWriterReturns`, `DoneSpecsShip`,
`MarkedBlocksLand`, `KilledRelocationHeals`), which needs `ENABLED`, and `ConfigAndDiskAgree`. Every other invariant, action property
and refinement that a passing run checks is also proved.

## 6. Findings

Three are runs TLC finds violated; `PROJECT.json` quotes the sentences.

- `pg_renumbered`: CREATED is not always number 0. The next number is read by a statement of its own after no row was
  found to lock; if another first save has committed by then, and its saga is deleted before the upsert, this save succeeds
  as a first save with a number above 0. The numbers are still distinct and increasing.
- `lock_orphan`: `_reclaim_lock` compares the token and unlinks in two calls. When a holder dies while two processes wait,
  one may reclaim and take the lock between them, and the other removes the new lock: two writers hold it.
- `registry_interrupt`: a relocation that moved the legacy block into a new registry and is interrupted before it returns
  rolls back the registry, but not the legacy block it has already removed: every capability is unregistered.

The others are sentences of the repository stated as properties that do not hold. They are no runs: each has a configuration
beside those, for which TLC prints the steps, as `tlc -config RecordFold.cfg MCSpecRecord`. The properties of the runs and the theorems
name the same cases as their exceptions.

- `RecordFold.cfg`, `FoldIsTheLiveCall`: a finish that is in the record before its task is in `tasks.md`, unchecked. The fold of
  another finish ticks its box before it decides on the close, the live call of that finish does not: one closes the step, the
  other leaves it open. Against task_sync.py:318-320: "the materialized `history`/`task_summaries` are byte-identical to what
  the live path would have produced".
- `RecordDerive.cfg`, `DeriveNeverDragsBack`: `derive-from-files.py` reads the record, a hook or a worker moves it on, and the
  derive publishes what it inferred from the old one. The status goes back, and with histories of one length the other's entries
  are lost. Against derive-from-files.py:11: "never drags a more-advanced spec backward (no-backward-clobber)".
- `FoldMarkers.cfg`, `EveryMarkerKept`: the fold reads a marker only on the line under the heading, the resolver also past blank
  lines. A modification with a marker replaces the one the fold does not see, and the requirement is no longer read for its
  files. Against living_spec_fold.py:44: "Carry a requirement's file marker across a fold, widened, never narrowed.".
- `FoldRenamed.cfg`, `ModificationsLand`: a modification under a heading the same draft renames finds the final name taken and
  is dropped without a note. Against living_spec_fold.py:244-247: "still lands instead of being silently dropped".
- `FoldTwice.cfg`, `AnyRefoldIsNoOp`: of two modifications of a heading that is not there, the first lands, and the next fold of
  the same draft replaces it by the second. Against living_spec_fold.py:249: "Re-applying a delta set to its own output is a
  no-op.".
- `RegistryUndo.cfg`, `NeverOutOfSync`: the registry cannot be written and one rename of the rollback is refused as well, which
  `_rollback` swallows: the registry names the old place, the file is at the new one, and nothing is reported. Against
  relocate-capability.py:13-14: "A failed config write rolls the moves back, so the config and the disk are never out of sync."
- `RegistryTiers.cfg`, `NeverOutOfSync`: a spec of the old central name is moved to the new one and the process killed before
  its tiers are. The resolver finds the moved spec at once, so the command run again has nothing to do, and no reader looks for
  the tiers. Against relocate-capability.py:8-9: "This helper does both halves as one deterministic, all-or-nothing operation."
- `RegistryRetire.cfg`, `PermissionsStay`: registering or relocating one capability rewrites all entries without `retire`.
  Against register-capability.py:22-23: "every existing capability and unrelated config is preserved".
- `CodeDrift_deletions.cfg`, `DeletionsAreListed`: a claimed file moved out of the globs, with its content, is no drift: git
  lists the new name only. Against drift.py:136-138: "folds in commits since, staged, unstaged, and deletions in one pass".
- `CodeDrift_names.cfg`, `NamingIsClaiming`: a requirement names a file that its capability's globs do not match. The capability
  that claims the file yields it, and the one that names it is never asked. Against drift.py:374-376: "The requirement that
  names the file is the claim; a glob with no requirement behind it yields to it".
- `HandEdits.cfg`, `HandEditsAreDrift`: a run's record that changes for any reason vouches for every file it ever listed, also
  for one that a hand changed since the spec was committed and the run long before. Against drift.py:203-207: "A file changed by
  hand, with no run behind it, still is".

## 7. Disagreements seen without a configuration

Storage and engine: a stale process may save FAILED over FAILED, which changes the row and not the entry (memory G-003-19);
stale fields and associations are overwritten silently (G-003-02); "nothing is written" does not hold when COMMIT took
effect and its answer was lost, though the retry is harmless; a listener that throws (`HarnessUnitOfWork.java:198`) ends
the dispatch loop and the committed events behind it are never dispatched.

Record: `plan-blocks.py` writes without the lock as well, so it can lose a field and, with another writer between its read and
its publish, shorten the history past the append-only guard (`spec_context.py:653`); a call that holds the lock from an
earlier flag runs its verification command for up to 900 s, longer than waiters wait; two concurrent verification runs may
publish the older result last; `--mark-complete` accepts the status implemented without reading `tasks.md` again
(`write-context.py:351`), so a task written since, or one never checked, is shipped open, against the promise of its lines
336-338; `write-context.py:176` lets a late start of the record's own step lower the status. Once a step the project added has
become the current one, `_is_more_advanced` finds no position for it (`spec_context.py:352`), so a late hook of any earlier step sets the
status back, against `write-context.py:175`, unless the status is already terminal.

Captures: a blank text, a declined part of a batch, `--set` of a protected key beside a lifecycle flag and a malformed
`--verify-run` are reported ok; a lifecycle flag beside a capture flag is skipped with a warning; `--tasks-file` calls
trace to the pointer's spec; the note that a trace line was lost may itself fail.

Living specs: `_accountability_gap` may name a capability the fold has covered (`living_spec_fold.py:112-121`); a heading a draft
removes and modifies is gone or not, depending on the order of the verbs; a requirement without a marker is read for every file and
narrows when a modification gives it one, which the fold does not count as narrowing; a spec is written
in place, so a crash may truncate it; the record of loaded requirements omits aligned ones.

Registry: nothing locks it, so two commands may drop each other's entry; `--replaces` of a name already registered reports
success and writes nothing; the path reported for a new capability is not always the one the resolver uses; an explicit empty `spec:` and one that spells
out the old central name are dropped as `retire` is when entries are normalised, after which
the resolver looks at the default path (`register-capability.py:52-63`); two entries of one name are accepted (`companion_config.py:600-634`) and the first is read; an `.arch.md` tier under its old name is not moved.

Drift: a `--since` without a merge base in the clone silently measures from each spec's own commit; the baseline of an
accepted spec is the commit that contains the reviewed line, not the commit the line names, so code committed with it is
taken as reviewed; in committed mode the records are read from the working tree, so an edit not yet committed may vouch. The
runs have no exempt globs.

## 8. What is left out, and the plan

Left out of the modelled parts: timestamps, wording, argument parsing, YAML and Markdown parsing, git's failures, reports printed;
`findHistory` and `findByAssociation` over several sagas; connection pooling. `PROJECT.json` says it for each component.

Not modelled: plan blocks and the doctor, coverage and status programs only read and print, or write as section 7
says; the example and the empty modules have nothing to execute. Next, in this order:

1. The PostgreSQL context store, in transactions of its own against the foreign key, then the unit of work over the
   PostgreSQL provider and it.
2. `DomainEventScope`, the command gateway's routes and resolvers, the cached copy in `SagaContext`.
3. The scanner's rules and the JSON mapping as functions over bounded values.
4. Two registry commands at once; a living-spec write that is cut short.
