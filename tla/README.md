# Formal models of the Sanka migration runtime

TLA+ models of the core of this repository, checked with TLC and, for the apply of
the migration engine, its run lifecycle, continuous execution, the Flow installation
lifecycle, the connector host, private storage and the hosted Code tasks, proved with
TLAPS. Paths below are relative to
`packages/sanka-cli/src/sanka/` of the repository unless they start with `docs/`
or another package (`sanka_connector/`, `sanka_extensions/`, `sanka_cli/`).

## 1. The system

Sanka moves the records of one business system into another (`runtime`),
reconstructs workflows in a target service (`runtime/flow`), runs third-party
connectors and extensions in processes of their own (`runtime/connector_*.py`,
`runtime/extensions`), and offers all of it as a command line, a terminal
interface and a cloud client (`cli`, `sanka_cli`).

| component | state it keeps | operations | with whom it interacts | what is hard |
|---|---|---|---|---|
| engine: apply (`runtime/engine.py`, `execution/routes.py`, `execution/scope.py`) | the snapshot of an execution: checkpoints, completed routes, counts, failed ids, parked links | `apply`, `_drive_apply`, `run_batch` | reads the source, writes the destination, ledger and journal | crashes between the destination write, the ledger upsert and the journal save; partial pages; forward references; a changing source; two processes |
| ledger and journal (`execution/local.py`) | `execution_results`, `execution_journal` | `upsert_results`, `terminal_destination_ids`, `load`, `save`, `claim` | one SQLite file shared by processes | monotone upserts, fencing, a cancellation that lands between two saves |
| report codec (`execution/report_codec.py`) | none | load, dump, move saved state to reviewed routes, progress | journal, continuous execution | keys of two generations, unknown keys, partial values |
| run lifecycle (`runtime/engine.py`, `runtime/state.py`, `cli`) | the `runs` table | `create`, `inspect`, `plan`, `apply`, `verify`, the commands that call them | the ledger and journal of each run | two commands at once; a plan replaced between review and apply; resuming under another plan |
| continuous execution (`execution/continuous.py`) | the journal entry of a long job | `ContinuousExecutor.run`, reopening, reconciliation | journal, fence, one batch step | attempts that supersede each other, frozen totals |
| Flow lifecycle (`flow/lifecycle.py`, `flow/sqlite.py`) | `flow_installations`, `flow_plans`, `flow_operations`, `flow_evidence` | `save_plan`, `construct`, `verify`, `activate`, `discard` | a target service that other users edit | leases that lapse at any await; lost responses; delayed mutations of an older attempt |
| Flow planning, SDK and evaluators (`flow/merge.py`, `flow/planner.py`, `flow/verification.py`, `flow/native_verification.py`, `sanka_extensions/flow`) | none | merge, plan, admit, generate, evaluate | Flow lifecycle | what a user edited; what a scenario leaves unasserted; paged evidence |
| connector host and client (`connector_client.py`, `connector_host.py`) | a child process, its request id, two output queues | `request`, `close`, `serve`, the wire encoding | pipes to the child | timeouts and late answers, exit and restart |
| extension store (`extensions/store.py`) | marketplaces, snapshots, lock file, installations, environments | add, remove, enable, disable, resolve, dispatch, marketplace changes | other processes through file locks | a crash between two files, removal during execution |
| application lifecycle (`extensions/lifecycle.py`, `code_lifecycle.py`, `code_repair.py`) | scan.json, plan.json, artifacts | scan, plan, apply, test, verify; hosted lifecycle, repair | the user's working tree, extension processes | stale fingerprints, plans beside each other |
| discovery and settings (`extensions/discovery.py`, `settings.py`) | none | fingerprint, match, recommend, settle | store, lifecycle | version ranges, dependent settings |
| mapping and planning (`planner.py`, `mapping/*`, `execution/validate.py`) | none | match fields, plan, dry run, freeze scopes | engine | the dry run must predict the batch |
| private storage (`safe_local_io.py`, `private_sqlite.py`) | one small file | replace, read | everything that persists | several writers, failures, power loss |
| terminal interface (`cli/tui`) | the session: busy, job, plan hash | screens, workers, cloud polls | engine, lifecycle, cloud | threads that outlive their screen |
| command line (`cli/__init__.py`) | presentation state | commands | engine | order of engine calls |
| cloud client (`sanka_cli`) | files it writes (archives, certificates, bundles) | cloud migrations, hosted runs, certificates, Custom Code functions | an HTTP service that is not in this repository | what was reviewed and confirmed is what is sent; answers that do not fit |

What makes each correct, in the order of the damage a mistake does:

* apply: a run is reported applied only when every approved record was migrated;
  no checkpoint passes a record that is not terminal; terminal records are not
  written again; the report counts each record once; every apply ends; a caller
  that keeps re-applying gets the run done.
* run lifecycle: nothing is written without an approved hash; `applied` and
  `verified` speak of the plan the operator reviewed.
* continuous execution: an older attempt never takes the journal back; a cancellation
  is final; a checkpoint passes nothing unmigrated; "completed" meets the frozen totals.
* Flow: the target holds exactly what the installation owns; an uncertain effect
  keeps its plan selected; only what was verified is activated; evidence is final;
  a merge keeps what a user edited; a verification tells a faulty executor.
* connectors: nobody is given another request's answer, no
  process is left behind, every request whose line was taken or fits the pipe returns;
  a value arrives as it was sent.
* store: its files stay readable and consistent over a crash; a pin resolves; a
  running dispatch keeps what it runs; what is installed is complete.
* lifecycle: a stage runs only what was reviewed, on the endpoints that were selected;
  a repair is proved by its checks.
* storage: a file is whole, and what was reported durable is.
* terminal: one local task at a time, with the hash the user chose, and never busy for good.
* cloud client: nothing is changed that was not asked for and confirmed; an apply names the
  hash the operator gave; what is downloaded or shipped is what its digest says.

`PROJECT.json` lists every component, modelled or not, and every hazard with the
line where it bites.

## 2. The modules

| module | models | builds on |
|---|---|---|
| `ExecutionLedger` | `execution_results`: statuses, the monotone upsert, terminal ids, coverage of the candidates | |
| `KeysetSource` | pages of a source read in identity order after a cursor that is a record id | |
| `ApplyEngine` | `apply` for one run: every step of `_drive_apply` and `run_batch`, any number of processes, crashes, faults, cancellation, source changes | both above |
| `ExactApply` | the promise of apply for one plan: write approved records, record them once migrated, be done when all are | |
| `ApplyRefinement` | the mapping under which `ApplyEngine` implements `ExactApply` | `ApplyEngine`, `ExactApply` |
| `ApplyEngineProofs` | theorems about `ApplyEngine`: types, coverage, the ledger | `ApplyEngine` |
| `ApplyProgressProofs` | theorems about `ApplyEngine`: checkpoints, counters, failures, relationships, the refinement | `ApplyEngineProofs`, `ApplyRefinement` |
| `MigrationRun` | the runs of one spec under concurrent commands and handles; the batches of apply are reduced to what `ExactApply` allows | `KeysetSource` |
| `MigrationRunProofs` | theorems about `MigrationRun` | `MigrationRun` |
| `ContinuousExecution` | the fenced batch loop of a queued job: claim, loop, stall reconciliation, reopening, failure marking, over the journal row | `ExecutionLedger`, `KeysetSource` |
| `ContinuousExecutionProofs` | theorems about `ContinuousExecution` | `ContinuousExecution` |
| `RunReport` | the report codec, the move of saved keys, manifests, the progress of a job | |
| `FlowInstallation` | construct, verify, activate, discard over the fenced ledger, and the target | |
| `FlowInstallationProofs` | theorems about `FlowInstallation` | `FlowInstallation` |
| `FlowReconciliation` | the three-way merge and the plan of operations | |
| `FlowBlueprint` | admission of a Blueprint, its build order, scenarios and their evaluation | `FlowReconciliation` |
| `FlowGeneration` | capability, request and bound answer of a generating extension | |
| `NativeBilling` | billing cases, coverage, pages and evidence of the native verification | |
| `ConnectorHost` | a client's threads, the host processes it starts, pipes and queues | |
| `ConnectorHostProofs` | theorem about `ConnectorHost` | `ConnectorHost` |
| `ConnectorProtocol` | descriptions, proxies, accepted calls, the encoding of values | |
| `RecordMapping`, `MigrationPlanning` | properties, owners, references and the dry run of a record; matching, routes, frozen scopes | |
| `ExtensionStore` | the store's files under its file locks, each step of each command | |
| `ExtensionState`, `ExtensionWheels`, `ExtensionCatalog`, `ExtensionSettings` | the store's records as written and read again; wheel closure and layout; discovery, catalogs, ranges, recommendations; settings | |
| `ApplicationLifecycle` | scan, plan, apply, test over tree, pin, plan and artifact | |
| `HostedCode` | the hosted five-stage lifecycle and one repair over the same tree | `ApplicationLifecycle` |
| `PrivateStorage` | replacement and reading of a private file over failures and power loss | |
| `StorageProofs` | theorems about the store and private files | `ExtensionStore`, `PrivateStorage` |
| `TerminalSession` | screens, worker threads and the session of the terminal interface | |
| `ApplicationProofs` | theorems about local and hosted tasks and the terminal session | `HostedCode`, `TerminalSession` |
| `CloudMigrate` | the scripts of the cloud migration commands over any answer of the service | |
| `CloudRuns` | hosted runs, scenarios, artifacts and certificates | `CloudMigrate` |
| `CodeFunctions` | bundles and the commands of Custom Code functions | `CloudMigrate` |
| `MC*` | model values, small inputs, symmetry; `MCAlgorithms` enumerates the inputs of the pure modules | |

### ApplyEngine

`source` and `candidates` are the live records and the ids the plan froze.
`ledger`, `journal` and `runStatus` are the three durable records of a run;
`writes` and `links` are what the destination got. `snap[p]` and `work[p]` are the
in-memory snapshot and the locals of a batch of process `p`; `Crash` forgets them.
A step ends where another process, the source or a crash can be told apart:

| actions | code |
|---|---|
| `Start`, `Load`, `Claim` | `engine.py` `apply`, `_drive_apply` up to the loop, with `_resume_exact_scope` |
| `SkipCompleted`, `CompleteEmpty`, `ReadPage`, `ReadFails` | the head of `run_batch`'s route loop and the page read |
| `WriteRecords`, `WriteFails`, `WriteRetried`, `LinkPage` | the write of records in one call or each on its own, `_with_retries`, the relationships |
| `Persist`, `PersistShort`, `CountResults`, `FinishRoute` | the upsert, counters and failed ids, checkpoint and route completion |
| `SaveBatch`, `SaveFailed`, `Report` | journal save, stall rule, failure, run status |
| `Crash`, `Cancel`, `SourceInsert`, `SourceDelete` | environment |

A record's fields are abstracted to the references and relations it holds. A
destination write is atomic; its outcome follows the conflict policy. Failures of
a single record, of a whole call, of the ledger and of the journal are separate
choices that share one budget.

### MigrationRun

`runs`, `journal`, `ledger` and `failed` are the tables; `job[c]` holds the locals
of the operation a caller is in. A plan is the set of (route, identity) pairs it
froze, and its hash is that set. `Invoke` is a command (it starts with `create`),
`UseHandle` a call with a run id kept from before. Two processes on one state file
go beyond the state store's own description ("Single-process local state store"),
but nothing in the command line prevents them. Run ids are created in the order
of `created_at`; two runs within one second, where a random id decides which is the
latest, are not modelled.

### FlowInstallation

`install`, `plans`, `intents`, `receipts` and `evidence` are the SQLite tables,
`target` the service: a revision that every change raises, the durable result of
each operation, activations, and the highest claim it has seen. Every caller passes
an attempt identity of its own, as the tests of the repository do. Each step is one
SQLite transaction or one target call, so a lease can lapse, another caller can
claim, a user can edit and a process can die between any two. The target follows
the contract in `flow/host.py`: a claim is a fencing token, a mutation names the
revision it expects and is deduplicated by its operation. Plans contain creations
and removals; updates and preserved resources take the same steps and are left out.
The list of scenarios is any number of runs whose outcome is passed or failed; what
decides it is in `FlowBlueprint` and `NativeBilling`, and how a plan came about in
`FlowReconciliation`.

### ContinuousExecution

`row` is the `execution_journal` row with the owner columns the fence compares
(attempt id, attempt number, job), `attempt[w]` the identity worker `w` was started
with, `work[w]` the locals of `run` and the entry the current step works on.

| actions | code (`execution/continuous.py`, `execution/local.py`) |
|---|---|
| `Enter`, `ClaimRefused`, `ClaimNothing`, `Claim` | the head of `ContinuousExecutor.run`, `claim`, `_validated_scope` |
| `LoopLimit`, `LoopHead` | the batch limit, the cancellation and attempt checks of each turn |
| `StepLoad`, `SkipRoute`, `ReadPage`, `PersistPage`, `StepRaises`, `StepSave` | one batch step |
| `Conclude` | stall rule, `reconcile_terminal_batch_pages`, `known_incomplete_route_keys`, `reopen_incomplete_routes`, the report's fields that steer a resume, `save` |
| `Fault`, `MarkLoad`, `MarkSave` | the exception handler and `mark_execution_failed` |
| `Crash`, `Cancel`, `Requeue`, `SourceDelete` | environment |

`save` and `claim` are one transaction each; everything between two of them can be
interleaved, so a step may finish on an entry that stopped being its own. The
reconciliation reads of `Conclude` are taken at the moment of its save: what another
worker does to the ledger between them it could as well have done after. The
batch step is the host's; the model takes the composition the protocol names and the
tests build (load, `run_batch`, save), with `apply_durable_route_results` before it,
and lets the step either obey a refused save or ignore it, as the scripted step of the
tests does. Here `run_batch` is reduced to pages, failures and counts: references,
links and retries are in `ApplyEngine`. Object pairs are unique to a route here; what routes that share a pair can and
cannot be given back is in `RunReport`.

### ConnectorHost and ConnectorProtocol

`caller[c]` is a thread's place in `request`, `current` the process the client owns,
`host[p]` the state, input, output pipe and reader queue of a process. `Request` takes
the client's lock; `Reuse`, `Spawn` and `Listen` are `_start`; `Prepare`, `Refuse` and
`Send` the identity, limits and the write, which for a line longer than the pipe lasts until
`ReadStdin` or `WriteBreaks`; `SpawnFails` a process that cannot be started; `Receive` and `TimeOut` the wait on the
queue with the checks that follow; `Close` ends the process. The host loads, handles
one line, prints a stray line, complains on its standard error, hangs or exits at any
step (`Misbehave`, `Exit`, `LoadFails`). `performed` counts the calls of the provider.
`ConnectorProtocol` takes a connector as the set of its methods, since the protocols
are structural, and an encoded value as a tree.

### ExtensionStore and its pure parts

The variables are the files the store keeps; `flock` its three kinds of lock. Each
action is one step a command takes between two file operations that another process
or a crash can tell apart:

| actions | code (`extensions/store.py`) |
|---|---|
| `BeginMarketplace`, `LockMarketplaces`, `LockProjectToo`, `StageSnapshot`, `PlaceSnapshot`, `WriteMarketplaces`, `RemoveMarketplace` | `add_marketplace`, upgrade, `remove_marketplace` |
| `EnsureLock`, `EnsureProject`, `EnsureOfficial` | `_ensure_official_marketplace` at the head of the other commands |
| `BeginExtension`, `LockInstallations`, `LockProject`, `Select`, `CacheWheels`, `ClearEnvironment`, `BuildEnvironment`, `RecordInstallation`, `Enable`, `Pin` | `add_extension`, enable |
| `RemoveEnvironment`, `RemoveWheels`, `ForgetInstallation`, `DisableDefault`, `Unpin`, `Disable` | `remove_extension`, disable |
| `BeginDispatch`, `Guard`, `ReadPin`, `Resolve`, `Lease`, `Finish` | `execution_guard`, `resolve_locked` and the run |
| `Crash`, `Publish`, `Tamper` | environment |

An artifact is an extension at a version, a wheel belongs to one artifact or is shared.
`ExtensionWheels` takes what `add_extension` checks of the wheels before it builds
(compatible choice, requirements closure with extras and markers, layout, entry points),
`ExtensionCatalog` the discovery of a project, the manifests of the marketplaces and
the recommendations, `ExtensionSettings` the configuration a plan ends with.
`ExtensionState` is the content of the store's files with every field the readers check:
each command is a function from the files to the files, so that sequences of four commands
over two marketplaces, two spellings of one source and four trees show that no command
writes what a later one refuses (`WrittenIsReadable`), that what resolved still resolves
unless it was removed (`ResolvedStays`), and that what carries the official identity comes
from the official place at its pinned commit (`TrustStays`). It assumes one interpreter
throughout: the preferred wheel of a distribution depends on it, and an installation made
under another one is not what a lock expects.

### ApplicationLifecycle and HostedCode

`source` has a text and an evidence: discovery fingerprints paths, declared dependencies
and imports, so an edit may leave the evidence as it was. `TakeFingerprint`,
`EnsureEnabled`, `Guard`, `ReuseScan`, `Scan`, `ResolveScope`, `RunPlan`, `AnswerInputs`,
`FailPlan`, `Attest`, `SavePlan` are `scan` and `plan` of `extensions/lifecycle.py`; `LoadPlan`,
`CheckSource`, `CheckLock`, `CheckArtifact`, `RunStage` are `apply` and `test`
(`verify` takes the same steps). `ResolveScope` is the first of two runs of the extension when
endpoints are named: it learns which there are, adds those the output directory retains to
the selection and runs the extension again; every run leaves an artifact, also one that is
refused. A selection is kept in the settings and taken over by later plans. Verification of the artifact digests, the retained files
and the saved configuration are guards of these. `HostedCode` composes the two tasks a
host runs by itself (`code_lifecycle.py`, `code_repair.py`) with the same tree; every check
of `unchanged` and of the snapshots is an action, so that anything can change
between a check and what follows it.

### PrivateStorage

The directory is the sequence of files a name has stood for. `Create`, `Fill`, `Flush`,
`Replace`, `Settle` are the steps of `safe_write_bytes_at` and of the store's
`_atomic_json`, which does not settle; `PowerLoss` keeps a prefix of the renames that
contains at least the settled ones and any part of content that was not flushed. A
reader compares the file it opened with the name it opened.

### TerminalSession

`stack` are the screens, `worker` the threads (a stage, an installation or a cloud poll),
the rest the session of `cli/tui/model.py`. `PressRun`, `Answer`, `PressInstall` start a
thread when `busy` allows it; `BeginWork`, `EndWork` run in the thread, `Finish`,
`Polled`, `GiveUp` on the event loop; `Leave`, `Detach`, `Back`, `Quit` are the keys of
the user. `stray` notes that a monitor was left while an answer was under way. A plan may
be on disk when the session begins; a process beside the terminal interface that replaces
`plan.json` while it runs is not modelled here (`ApplicationLifecycle` has commands beside
each other, and a stage there refuses a plan other than the one it was asked for).

### The pure modules

`RunReport`, `RecordMapping`, `MigrationPlanning`, `FlowReconciliation`, `FlowBlueprint`,
`FlowGeneration`, `NativeBilling`, `ConnectorProtocol`, the pure extension modules and
the three modules of the cloud client
have operators only: one per function of the code or per idea of it, with values reduced
to what the function tells apart (their headers name these values: a set on the wire has
atoms or a type without an order as members, the time of a billing delivery is a day). Each ends in the
properties it promises, which `MCAlgorithms` evaluates on every input of a bounded
set; it picks one input per behaviour so that a counterexample names it. A reference
definition is always of another shape than the algorithm: a merge is compared path by
path with who changed what, the closure with reachability, the dry run with the write.
A command of the cloud client is the script of its requests, prompts and files; a case
fixes what is given and what the service answers, so the properties are about the
order of the script: nothing is sent before it was checked and confirmed.

## 3. Runs

Every bound is a CONSTANT whose name starts with `Max` and is marked BOUND or commented
as a bound where it is declared. "distinct" counts distinct states.

| run | question | bounds | distinct |
|---|---|---|---|
| `apply_crash` | does apply of one process keep its promises over crashes, faults, short saves, cancellation and source changes, and implement `ExactApply`? | two routes, two identities each, every initial source, a forward reference, pages of one, one fault, crash, insertion, deletion | 602 k |
| `apply_pages` | do partial pages, repeated attempts and failing links lose anything? | pages of two of three records written in one call, links in both directions, one fault, crash, deletion | 750 k |
| `apply_two` | what stays true when two processes apply the same run? | one route of two records, one fault, crash, deletion, cancellation | 1.2 M |
| `apply_resume` | does every apply end, and does re-applying converge? | two routes, every source, pages of two, references inside a page and forward, two faults, one crash, no source change | 47 k |
| `run_race` | what do approvals and statuses mean under two callers? | two routes of two records, two plans, one run, one fault or crash, source change | 1.7 M |
| `flow_race` | do lapsing leases, lost responses, edits and crashes ever orphan an effect or activate something else? | two hosts, two plans of one creation and any removals, four generations, one mishap | 1.8 M |
| `continuous_race` | who owns the journal, and what may a resume rely on, when attempts overlap? | two workers as a retry or as twins, three calls, two batches, two records or none, one fault or crash, one deletion, cancellation, another job | 1.1 M |
| `connector_race` | can a request get another's answer, hang anywhere but in its write, or leave a process behind? | two threads, three requests, four processes, two misbehaviours | 198 k |
| `store_race` | what do a crash, a failed build and a second process leave of the store? | two processes, one project, three extensions of two systems, two snapshots, three commands, one fault | 518 k |
| `lifecycle_race` | does a stage run what was reviewed, while plans, edits and pins change? | two commands of three operations, one configuration, one endpoint to select or all, two versions, one edit, one fault | 1.3 M |
| `terminal_race` | can two local tasks run, the wrong plan be applied, or the session stay busy? | one cloud run, two plans, two threads, three screens | 373 k |
| `algorithms` | does every pure part do what it promises? | the sets of `MCAlgorithms`; two writers and a reader of one file of two parts | 823 k |

These bounds are the smallest at which the interesting cases occur: two pages and
two routes let a checkpoint be ahead of a failure and a reference point forward;
two processes are what a fence tells apart (three calls let a failed job be resumed
beside a worker that has not noticed, two batches reach the batch limit); two plans are
an installation and its successor; four generations are construct, verify, activate and a
competitor. Three requests let a late answer meet the next but one; four processes
are a restart after each of them. Three store commands are an upgrade or an addition, a
removal and a dispatch; the second snapshot republishes one extension and carries
the others along. Three lifecycle operations are a plan, its apply and a
competing plan. Each of the sets in `MCAlgorithms` holds the boundary values of its
algorithm: nothing, one, two that agree and two that clash.

For every property a mutant of the code (operators marked MUTANT) shows that
the run would find it broken. Properties that would be checked by the same run are
stated together as conjunctions of named parts (`ProgressTrue`, `CountsTrue`,
`PagesTrue`, `SharedRunTrue`, `OnlyApprovedRuns`, `LedgerKnows`, `RowBacked`, `RowFenced`,
`AnswersInStep`, `StoreWhole`, `StageAsReviewed`, `OneChosenStage`, the `...Faithful` of
`MCAlgorithms`), each part with a comment of its own.

### Fairness

`LiveSpec` of `ApplyEngine` assumes weak fairness of the steps of a process once it
has started: an asyncio task that is runnable is run, and every await in it returns
or raises. Nothing is assumed of crashes, faults, cancellations, source changes or
of a caller starting another apply. `ResumeSpec` adds weak fairness of `Start`: a
caller that keeps re-applying, as the failure message tells the operator to.
`ResumeConverges` further assumes that references resolve among the approved
records, none of them further ahead on its own route than one page reaches. `ConnectorHost` assumes weak fairness of a caller that holds the lock: its
waits for a new process, for a line and for the end of a process have time limits
(`queue.get(timeout=...)`, `process.wait(timeout=...)`). The write of a request has none
(`connector_client.py:206`): a line longer than the pipe waits until the host reads it, and
nothing is assumed of a host, so `RequestsReturn` excepts a caller in that write while the
process lives. Nothing is assumed of a caller waiting for the lock either. `ExtensionStore`
assumes strong fairness of the steps of a started command, though no property of its run
needs it: it states that flock is granted in the end. `TerminalSession` assumes
weak fairness of its threads and of the wait limit: requests and stages are bounded in
time and Textual's loop takes what `call_from_thread` hands it. Nothing is assumed of
the user or of the cloud service. The other modules state safety only.

`CHECK_DEADLOCK FALSE` is stated where the system may stop because calls, commands,
requests or inputs are bounded or the application was quit: `FlowInstallation`,
`ContinuousExecution`, `ConnectorHost`, `ExtensionStore`, `ApplicationLifecycle`,
`TerminalSession`, `MCAlgorithms`. In the runs of `ApplyEngine` and `MigrationRun`
deadlock is checked.

## 4. Where the code and its words part

Found while modelling. The properties of the runs are stated so that they hold of the
code as it is; the following is what they therefore do not say.

Migration engine:

* `engine.py:530` compares the progress marker with the previous batch's only. On a route
  of three or more pages whose candidate was deleted after planning the route is never covered,
  its checkpoint is dropped at the last page and set again from the first, so consecutive
  markers differ and the loop does not end, although `engine.py:461` says a batch without
  progress fails the run. `ApplyTerminates` is checked over an unchanging source.
* under the "create" policy a crash between a destination write (`routes.py:835`) and the
  ledger upsert creates the record again; `engine.py:18` says re-running converges
  instead of duplicating. `NoRewriteOfTerminal` speaks of records the ledger knows.
* `engine.py:465` answers a completed journal before it looks at the plan, so an applied
  run that is planned again is reported applied without executing the new plan, and a
  resume (`engine.py:583`) compares routes, not candidates. `AppliedRoutesCovered` and
  `FirstPlanCovered` say what is true: each route is that of an approved plan, and all of
  them when there was one plan.
* after a failed apply the command line creates an empty run (`create` reuses only
  runs that have not failed) and is refused, so the failed run can be resumed
  through a kept handle only, although the failure message says "re-apply to resume".
* a source identity 0 or with surrounding blanks is frozen with `str()` and `strip()` but
  looked up with `or ""`, so such a record can never be covered.
* the terminal ids of a page are read before its writes, and both processes of one
  run pass the claim, so a record another process recorded meanwhile is written again
  although `engine.py` says terminal records are skipped (`NoRewriteOfTerminal` and
  `ImplementsExactApply` speak of one process at a time).
* `routes.py:835` fails a page whose upsert saved fewer rows than it was given before any
  is counted; a ledger that kept some of them leaves rows that no counter counts, since the
  next attempt finds them terminal (`CountsExact` over pages of one; `WholePages` in section 5).
* a page in which a record waits for a later record of the same page is failed as stalled
  although a re-apply completes it (`ResumeConverges` covers the re-apply, over pages of two).
  A record that waits for one of a later page of its own route holds the checkpoint before
  it, so that page is never read and no re-apply completes the route (`ResumeConverges` supposes
  that references resolve within the page or towards another route).
* a link parked by the last page of a route towards a record that a later route of
  the same batch writes stays parked in a completed run (`LinksAccounted` shows it
  stays visible there).
* a host whose step saves "completed", as the steps of the tests do, leaves that
  status in the journal until the executor has compared the frozen totals; a call
  of `run` that begins in between, or after a crash there, returns "completed" without
  comparing them (`LoopReconciles` therefore speaks of runs that end in their loop).
* a worker that claimed while there was no row can, if a worker under the same
  identity claims the row later, save an entry that names a third attempt under
  number 0 (three workers and two identities are needed, more than the run has).
* a null `routeTotals` beside a manifest is dropped by a load and save although
  `report_codec.py:36` says that a key with an empty value rides along and that no key is dropped;
  `RoundTrip` names it as the one that goes.
* `prepare_route_state` notices two saved keys of one route only when the legacy key comes
  second; in the other order the later entry wins (`report_codec.py:398`).
* the dry run refuses a record made of references only, which the batch would write; a
  selection of blank names selects every route; an owner field with an empty source value
  blocks or takes the fallback even when it is not required.

Flow:

* `flow/lifecycle.py:341`: discard renews its claim before each question; when the lease
  lapsed in between, the new generation is taken and earlier answers are kept, although
  another attempt may have performed the operation. `docs/flow.md:113` says that every planned
  mutation was proved absent. `DiscardedWithoutEffect` holds for one generation.
* a plan with a merged user edit and no separate verification blueprint is blocked (v4);
  admission compares which fields and associations a scenario asserts, not their values, and
  evaluation does not notice extra ones; removal of an owned resource that is missing at the
  target is planned without a blocker.

Connectors and extensions:

* the write of a request has no time limit (`connector_client.py:206`; a request may have
  4 MiB, a pipe holds 64 KiB): a host that hangs before it reads keeps the caller there, and
  its lock keeps out every other caller and `close()`. `RequestsReturn` excepts this wait.
* when the host closed its input, `close()` in the handler flushes the buffered line once more
  (`connector_client.py:290`), which breaks again, so the caller is given a `BrokenPipeError` rather
  than `SANKA_CONNECTOR_EXIT`; the outcome BROKEN_PIPE of `Send` is this case.
* an object that also has a method of the other role is described with capabilities outside
  its role, and the client refuses the description for either role.
* `disabled.json` belongs to the user and the pins to a project: enabling in one
  project may put two connectors of one system beside each other in another; removing an
  extension in one project takes away an environment another project pins. The run has
  one project; `OneClaim` and `PinnedResolvable` are true there.
* a failed rebuild leaves a pin without its environment; `add` does not repair a recorded
  environment that an interpreter change altered; a crash between installations and lock leaves
  an installation nothing pins; crashes leave temporaries that nothing removes.
* `store.py:1268` takes the project lock exclusively while a dispatch of the same process
  holds it shared through another descriptor (`store.py:953`), so such a dispatch would
  wait for itself if the official marketplace were missing.
* `_atomic_json` does not make the directory durable as `safe_write_bytes_at` does, so a
  reported store write may be lost by a power loss (`Settling` in `PrivateStorage`).
* a fingerprint covers paths, declared dependencies and imports: an edit of a file's text
  alone leaves plans and scans valid; it is taken before the guard, plans that retain files
  are fingerprinted again after planning, and two plans may overwrite each other's
  artifacts (`NothingUnreviewed` and `ArtifactAsReviewed` name these exceptions).
* `<X` admits a pre-release of X; a listed and a recommended extension may differ in state
  when it is disabled; a dependent setting declared before its controller can leave a hidden
  leftover value; the terminal form judges visibility over hidden values too.

Cloud client:

* `functions rollback` without `--to` takes the second newest version
  (`sanka_cli/commands/functions.py:513`), which need not be earlier than the live one,
  although the command says "Move `live` back to an earlier version".

Terminal interface:

* a stage's history is written in its thread outside the handler of failures, before the
  loop is told that it ended: if that write raises, the session stays busy. `BusyClears` takes it to
  succeed.
* a poll that fails after its monitor was left clears `busy` under a running stage
  (`stray`), so a second one can be started and an apply may use a hash a finishing plan
  brought along; removal and marketplace workers do not take `busy`; the history file is
  replaced without a lock, so one of two entries may be lost.

## 5. Proofs

`ApplyEngineProofs` proves for every number of processes, routes, records and every
bound (the named ASSUMEs of `ApplyEngine`: finite sequence of route names, natural
bounds, total link functions, a known policy):

* `TypeCorrect`: `Spec => []TypeOK`.
* `RoutesCompleteOnlyCovered`: `Spec => []CompletedCovered`.
* `AppliedRunsAreCovered`: `Spec => []AppliedCovered`.
* `TerminalRowsStay`: `Spec => LedgerMonotone`.

The inductive invariant is `TypeOK /\ CompletedCovered /\ BatchCovered /\
AppliedCovered`. `AppliedCovered` alone is not inductive: the step that writes
"completed" looks only at what the batch says, so the batch must be known to say so
only when every route is completed in its snapshot (`BatchCovered`), and every
snapshot (in memory or in the journal, since a process can resume from either) must
call only covered routes completed (`CompletedCovered`). Coverage is read from the
ledger once and relied on later, by any process; that is sound because terminal rows
never cease to be terminal, which is what `Merge` guarantees and `TerminalRowsStay`
states. The proofs have one step per action; the lemmas about `PageOf`, `FirstOf`,
`LastOf` and `Merge` come first. `IInv`'s conjuncts are also invariants of
`apply_crash`.

`ApplyProgressProofs` proves the other safety properties of apply. Five invariants are
built on `IInv`, each for one subject, and each speaks of three views of the shared state:
the approved records the source still serves (`Served`, which only shrinks), those
with a terminal row (`Kept`) and those a write took effect for (`Hit`, both only grow).
What a process noted of them earlier therefore stays true while others run.

* For any number of processes: `CheckpointsAreSafe` (`ProgressTrue`), `SharedRunsStayTrue`
  (`SharedRunTrue`), `ReportsAreBacked` and `CompletedRunsReportNoStaleFailure` (two parts
  of `CountsTrue` and one of `PagesTrue`). `ProgressInv` says of every snapshot that its checkpoints
  pass only records with a terminal row and its counters count only such, and of a page in work what
  each of its places has established, up to the checkpoint the next save will store. `PageInv` adds
  that a reported failure lies ahead of every checkpoint and on a route that is not completed,
  because a page holds all that the source serves between the checkpoint and its last record.
* For one process at a time (`OneAtATime`: `Procs` has at most one member):
  `TerminalRecordsAreNotRewritten` (`NoRewriteOfTerminal`), `ApplyKeepsItsPromise`
  (`ImplementsExactApply`), `PagesLoseNothing` (`PagesTrue`). This is how the command line
  and the terminal interface use a run; two processes may both look a record up before
  either has recorded it, so the first two are false of them (section 4) and
  `apply_two` claims neither. `SoloInv` says that a page knows every row of its own records that the
  ledger holds, and that nobody works on a completed run; `LinksInv` that each relationship
  of a record behind a checkpoint is in the destination or parked.
* `ReportsCountTheLedger` (`CountsTrue`) takes one process at a time and `WholePages`: pages of one
  record, or a ledger that does not report a save short. If a page of several records was
  kept in part, the rows it kept are counted by nobody: the attempt that reports it fails
  without counting, and the next finds them terminal. `apply_crash` has pages of one and short saves,
  `apply_pages` pages of two and none. `CountsInv` says which rows are in the ledger and not counted
  yet, which is those of one page between `Persist` and `CountResults`.

The refinement is proved step by step: a write of `ApplyEngine` is `ExactApply`'s
`Write` of the records of that call, a `Persist` its `Record`, the save of the journal its `Finish`,
and every other step a stutter; the abstract guards are what `SoloInv` provides. TLC checked these
invariants on the constants of the apply runs before they were proved.

`StorageProofs` proves `PrivateFilesAreSafe`, `StorageSpec => []StorageSafe`, for any
writers, readers and file of at least one part (`StorageAssumption`, which also keeps
writers and readers apart). That a private file is never torn rests on the order
of the writer's steps: what was made durable is whole, and only durable files get the
name or are looked up by it (`WholeIsDurable`). That what was reported stays rests on the
directory sync: a returned writer that settles has its rename among the settled ones, which no
power loss takes away (`WritersKnow`). `StorageInv` says both and is inductive.

`StorageProofs` also proves the properties of the extension store for any number of processes,
extensions, marketplaces, snapshots, commands and faults: `StoreStaysWhole` (`StoreWhole`),
`EnabledPinsResolve` (`PinnedResolvable`), `RunsStayPinned` (`RunsWhatIsPinned`) and
`AddsResolve` (`AddMeansResolvable`), each as `Scope /\ Spec => ...`. `Scope` says that the user
has one project and that it did not begin with a lock somebody else committed: with two
projects an enabling here and a removal there break the first two (section 4), and a committed
lock pins what nobody has installed yet. `StoreInv` has four parts:

* `Typed`, and `Readable`, the consistency of the files;
* `Sound`, per process: which file locks it holds where it stands, and what it has
  established under them and relies on later. An add for instance knows, place by place, that its
  snapshot is in the history, that its wheels are cached, that its environment is sealed. This
  is where the locks earn their keep: a fact about a file survives the steps of
  others because those who write the file need the lock exclusively; one that is read under a
  shared lock, as a dispatch's installation is, survives because removers need it exclusively too;
* `Resolvable`: while nothing failed, an enabled pin resolves unless a process is in the
  middle of changing that very extension. The property, which speaks only of moments when no
  command is inside the store, is not inductive: it says nothing of the other extensions
  while one is changed.

The assumptions on the constants say that the files a run starts from were written by the
store (`PinnedAssumption`, `InstalledAssumption`), that each process works in a project
(`ProjectAssumption`), that there is a first commit and an official name (`SnapshotsAssumption`,
`OrderAssumption`) and that the value of a free lock is no process (`NobodyAssumption`). TLC
checked `StoreInv` on the constants of `store_race`.

`ApplicationProofs` proves `LifecyclesRunOneInput` and `RepairsAreProven` for any number of local
commands, edits and interferences (`NoFileAssumption`: the value that stands for no file
is not an artifact). Both tasks compare content before and after a step that anything may
run beside, so the argument is that content never comes back: `Seen` says that
whatever a task noted of the source is the source or older than it, and a check that finds
the first and the last state equal therefore finds everything between them equal
(`UnchangedSince`, `Unmoved`). `HostedInv` carries what each place of a task has noted.
In the code this is what hashes of content give as long as nobody restores an
earlier content between two checks; an edit and its exact undo around a stage are not
seen by the code, and the model's edits, which are always new, do not contain them.

`ApplicationProofs` further proves of the local commands `StagesRunWhatWasReviewed`
(`StageAsReviewed`) and `SelectionsAreHonored` (`SelectionHonored`), for any number of commands, edits,
extension versions, endpoints, inputs and faults (`SelectionsAssumption`, `BoundsAssumption`),
and of the specification that has the hosted tasks beside them. Evidence only
grows, so what a plan was fingerprinted with, what a command read and what the tree has now stand
in that order, and a command whose check found the first and the last equal has all three equal at
that moment (`Planning`, `Dispatching`); the pin is equal as long as a command holds a guard,
because whoever changes the pin needs the guard's lock exclusively; and a plan that runs while another
command is between its check and its stage, or its own run and the digest of it, marks that command
as disturbed, which is the exception `ArtifactAsReviewed` names. For a selection the invariant follows it through the two runs: once it
is in the settings it contains what was named, a plan gets past its last run only with an artifact
for exactly the selection (`Planning`), and a saved plan's artifact has what its settings have
(`PlanSound`), so the digest a stage compares carries the selection to it.

Of the terminal interface it proves `OneStageAtATime`, `SessionSpec => []OneChosenStage`, for any
number of threads, screens, plans and cloud runs. The types and the shape of the stack (a dialogue
stands on the stage it belongs to, on top) hold always; while no monitor was left with an answer under
way, `Quiet` adds that a local thread is alone and holds the session (`Flight`), that none runs beside a
monitor, whose answers are those of the screen on top (`Monitored`), that a stage's screen stays
beneath it (`OnItsScreen`), and that the hash of the session is that of the plan on disk except while
a plan just written is on its way to the loop (`OneHash`). The last is what makes a confirmed hash
still the hash the thread reads when it gets to run. TLC checked `LocalInv` and `SessionInv`
on the constants of `lifecycle_race` and `terminal_race`.

`ConnectorHostProofs` proves `CallersGetTheirOwnAnswers`, `Spec => []AnswersInStep`, for any
number of threads, requests, processes and misbehaviours (`CallersAssumption`: the value of a
free lock is no caller; natural bounds). `AnswersInStep` says that the process the client
owns holds nothing when nobody waits; the invariant adds where the one answer may be while
somebody does: the owned process holds the request of the waiting caller unanswered, or
one answer to it, in its pipe or in the reader's queue, and nothing else that could be taken for
an answer (`Owned`); every other process was never started or is closed (`NotOwned`).

`MigrationRunProofs` proves `RunsWriteApprovedPlans`, `AppliedMeansCovered` and
`VerifiedMeansMigrated` for any number of callers, runs, routes and records. The invariant has
one part per run and one per caller (`RunInv`, `CallerInv`): the ledger and the
failed rows of a run lie within plans approved for it, each route its journal calls completed
is covered, and what a caller carries between two awaits (the plan it was admitted with, the
routes it has passed) stays true after another caller re-planned the run, because approvals and
ledger rows are only ever added. That a verified run is
complete is a counting argument: the ledger lies within the one plan and
`verify` compares cardinalities. The proof assumes that at least one run may exist
(`MaxRuns >= 1`); callers create their own.

`FlowInstallationProofs` proves `NothingOrphaned`, `EffectsKnown`, `EvidenceFinal` and
`InstalledActivated` for any number of hosts, plans and operations (`FlowAssumption`). `FlowInv`
consists of the types, what holds of the installation, of the operations, of the
ledger and of the activations, and what each caller knows (`InstallInv`, `OpsInv`, `LedgerInv`,
`ActivationInv`, `CallerInv`); and, as long as every discard asked once, `EffectInv` and
`SendInv`. The heart is the last: a caller that may still send a mutation either works on the
selected plan, or on one that is built, or carries a generation older than one the target has
seen, which fences it. A discard that lost its lease between two questions breaks exactly this
(section 4), so these two parts carry the premise that no discard did, as the
properties they serve do. TLC checked `FlowInv` on the constants of `flow_race`.

`ContinuousExecutionProofs` proves for any number of workers, attempts, routes and records:

* `RowsAreBacked`: `Spec => []RowBacked`, and `LoopsReconcile`: `Spec => []LoopReconciles`.
  `BackedInv` says of the row and of every entry a worker holds that it counts only terminal
  records and passes over none that is not. Two facts carry it between the steps of a batch: the
  page in hand was not counted yet except for what was terminal when it was read
  (`PageInHand`), so another worker's upsert of the same records cannot make a count
  exceed the ledger; and a page that was read reaches from the checkpoint to its last
  record (`PageTrue`), so a checkpoint set from it passes nothing. Both stay true because the
  source only shrinks once it is frozen and terminal rows stay terminal.
* `RowKeepsItsOwner`: `Spec /\ FenceScope(row, attempt) => RowFenced`; its parts about
  cancellation and another job's row need no premise (`CancelledAndSupersededStay`).
  `FenceInv` says that a worker whose entry names somebody else has lost the row to
  a higher number, or is the only one under its identity, so that its save is refused. The
  premise is about the initial state: there is a row, or all workers carry one identity
  (`normalized_attempt_identity` gives every call of a job the same default), or each its
  own. What remains is three workers under two identities and no row, where the
  statement is false (section 4: a worker that claimed while there was no row). Every initial
  state of `continuous_race` satisfies it.

TLC checked both invariants on the constants of `continuous_race`.

Only model-checked:

* liveness (`ApplyTerminates`, `ResumeConverges`, `RequestsReturn`, `BusyClears`), which is
  outside what the prover does;
* what the pure modules compute for every input: `FlowReconciliation` and the modules on it
  use a recursive operator over JSON trees, as do `ConnectorProtocol` and `ExtensionWheels`,
  and the others need induction over sequences.

## 6. Not modelled

* The cloud service: an HTTP service that is not in this repository. The modules of the
  cloud client and `TerminalSession` take its answers as any answer. Of the client, the
  fleet, GitHub, fix, doctor, login and configuration commands are left out.
* `spec.py`, `registry.py`, `hashing.py`: parsing and content hashes; a hash stands for
  what it hashes.
* The process of a stage (`extensions/runner.py`): deadline, output limits and
  draining; a stage is one step with any outcome.
* Permissions, ownership and path checks of `safe_local_io.py` and `private_sqlite.py`.
* Presentation and argument parsing of the command line and the terminal interface, the
  history file, marketplace screens.
* Bounded reads and filtered routes of `run_batch`, which the local engine never requests.
* Times of day in the billing verification (a delivery is on a day); reading of verification
  artifacts under a claim is in `FlowInstallation` only.
* A selection of endpoints a caller writes into the configuration itself: it counts as one taken
  over from the plan before.
* Two projects of one user in `ExtensionStore`, whose exceptions section 4 names.

## 7. Plan

1. done: ledger, source, apply, its promise and refinement, with theorems for every safety
   property of apply.
2. done: run lifecycle; Flow installation; continuous execution and its report.
3. done: connector host and protocol; extension store, wheels, catalogs, settings;
   application lifecycle, hosted tasks; private storage; terminal session.
4. done: mapping, planning, Flow merge, blueprints, generation, billing evidence; the
   cloud commands.
5. done: theorems for every safety property of the modules with state; the pure modules and
   liveness stay with TLC (section 5).
6. Left: two projects of one user in the store; the runner's deadline.

## 8. Running

    tlc -workers 2 -config MCApplyEngine_crash.cfg MCApplyEngine.tla
    tlapm ApplyEngineProofs.tla
    tlapm ApplyProgressProofs.tla
    tlapm StorageProofs.tla
    tlapm ApplicationProofs.tla
    tlapm ConnectorHostProofs.tla
    tlapm MigrationRunProofs.tla
    tlapm FlowInstallationProofs.tla
    tlapm ContinuousExecutionProofs.tla

Every configuration is named after its MC module; `PROJECT.json` names the
properties of each. Its map gives the lines each definition stands for; notation that stands for
none (record shapes, names of absence, accessors, frames, most disjunctions of actions) is left out.
