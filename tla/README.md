# Epoch: formal models and proofs

Epoch runs an untrusted agent under a trusted supervisor that journals what the
agent does, checkpoints it, and mediates its external effects through
revocable capabilities. This directory holds TLA+ models of that runtime, the
TLC runs that check them on small instances, and TLAPS proofs of what holds for
every instance. Definitions are translated from the Rust and SQL sources;
`PROJECT.json` maps each of them to the lines it stands for.

## 1. Inventory

All durable state is one SQLite database (`epoch-storage`, WAL, foreign keys
on) plus a content-addressed blob directory. Every writing operation is an
immediate transaction, so writers of all threads and processes are serialised;
the hard cases are what happens *between* transactions, blob writes, provider
calls and file-system steps.

| Component | State | Operations | What is hard | What makes it correct |
|---|---|---|---|---|
| `epoch-capabilities` | capabilities, ancestry, policy revisions, authorizations, audit log | set policy revision, issue, attenuate, revoke, authorize-and-consume | delegation trees sharing counters, a clock that goes back, restored handles, several rows per decision | delegation never multiplies authority; dead authority stays dead; the audit is complete |
| `epoch-effects` | intents, attempts, two append-only histories, branch state, blobs | execute (find, authorize and persist, dispatch, resolve) | racing callers, crashes around the provider call, injected faults, two stores | at most one provider call; the record tells what happened; replays answer the record |
| authorizer (`CapabilityAuthorizer`) | none of its own | authorize inside the gateway's transaction | consumption and intent in one transaction, foreign keys | authority is consumed exactly for admitted operations |
| `epoch-supervisor` run | session and branch state, child process, reader threads, bounded channel | create, spawn, monitor, terminate, mark terminal | pipe readers against child exit and timeouts, failure of any step | every run ends in a terminal state; no process or thread is left; the journal holds every accepted record |
| `epoch-supervisor` recovery, forks | epochs, snapshot components, fork lineage | checkpoint, restore, activate, diff, fork, replay report, status | several reads before one transaction, crash between publish and record, name races | an epoch is of a completed run and one chain per branch; an activation on record took place; forks keep the lineage they were made with |
| `epoch-events` | events, per-branch sequence counter | append, query, page | concurrent appends, stale counter, payloads in the blob store | dense, unique sequences; append-only; paging misses nothing |
| `epoch-blob` | blob files, media-type sidecars, temporary files | put, read, cleanup | publish races, crash points between a link and its sync, cleanup by age | a name is bound to its content for ever; only what nobody has synced can be lost |
| `epoch-checkpoint` | none | capture, restore, validate | agreement of cursors, hashes and references | what is restored is what was captured |
| `epoch-workspace` | manifests and blobs, staging directory | snapshot, validate, restore | tree changing under the snapshot, racing restores, crash while restoring, read-only staging trees | no torn file is stored; restore publishes all or nothing; one restorer wins |
| `epoch-protocol` | stream validator cursors | accept record | sequences of records, completion, limits | only streams of the protocol reach the journal |
| `epoch-storage` | schema version | open, migrate | two processes migrating at once | one immediate transaction; left to SQLite |
| `epoch-proc` | none | collect a process tree | processes and threads appear and vanish while read | what is missing from a collected tree is said |
| `epoch-sandbox` | child, namespaces, scope unit | validate, discover, plan, launch, suspend, resume, terminate, clean up | set-up order, descendants that outlive the leader, a stopped child | nothing runs unconfined; a cleanup ends and leaves nothing |
| `epoch-diff` | none | compare two checkpoints | identifiers that look like paths | the changes determine the other side |
| `epoch-trajectory` | output file | export a session, write the file | states and events read at different moments, racing exports | labels and timelines agree; a recorded session can always be exported |
| `epoch-criu-compat` | rows, logs, evidence | run the scenario matrix, decide | any step of any row failing or timing out | support is earned (it need not be, see Findings), evidence is whole |
| `epoch-core` | lifecycles of sessions and branches | transition | called by none of the writers | every update is a permitted transition (it is not, see Findings) |
| CLI, dashboard, benches, ml, scripts | reports | read, format, measure | | not modelled, except the CLI's `ml export` |

Interactions: the gateway calls the authorizer inside its own transaction
(shared database); the gateway and the supervisor both update
`branches.state`; the gateway, the journal and recovery put blobs before the
rows that name them; recovery reads the frontiers of the capability and effect
tables into each epoch.

`PROJECT.json` lists the hazards of this code, each at its line, with the
properties that would catch it going wrong.

## 2. Plan

Order of work, most important behaviour first:

1. **Authority and effects** (done, proved): `CapabilityService`,
   `EffectLedger`, `EffectGateway`, `SecureGateway`.
2. **Durability below it** (done, proved): `BlobStore`, `EventJournal`.
3. **Supervisor** (done; `SupervisedRun` proved): `AgentStream`,
   `SupervisedRun`.
4. **Recovery** (done, proved): `ApplicationCheckpoint`, `Workspace`,
   `Recovery`.
5. **Around the runtime** (done, proved): `Sandbox`, `ProcCollector`,
   `SemanticDiff`, `TrajectoryExport`, `CriuCompat`; `AgentStream` of item 3 is
   proved with them.

Every invariant and every action property the runs check is also a theorem.
What is left open is liveness, which stays with TLC, and the components that
section 6 lists.

## 3. Modules

| Module | Models |
|---|---|
| `CapabilityService` | `crates/epoch-capabilities/src/lib.rs` and migration 0004 |
| `EffectLedger` | abstract specification of the gateway's promise |
| `EffectGateway` | `crates/epoch-effects/src/lib.rs`, migration 0003, and the supervisor's `mark_terminal` |
| `SecureGateway` | the two composed through `CapabilityAuthorizer` |
| `BlobStore` | `crates/epoch-blob/src/lib.rs` |
| `EventJournal` | `crates/epoch-events/src/lib.rs`, migration 0002, and the supervisor's `events` |
| `AgentStream` | the `StreamValidator` of `crates/epoch-protocol/src/lib.rs` |
| `SupervisedRun` | `run_manifest` and what it calls in `crates/epoch-supervisor`, with its reader threads |
| `ApplicationCheckpoint` | `crates/epoch-checkpoint/src/application.rs`, as operators over a blob store |
| `Workspace` | `crates/epoch-workspace/src/lib.rs` |
| `Recovery` | `crates/epoch-supervisor/src/recovery.rs`, `fork.rs` and migrations 0005, 0006; extends `ApplicationCheckpoint` |
| `Sandbox` | `crates/epoch-sandbox/src/lib.rs` and its init helper |
| `ProcCollector` | `crates/epoch-proc/src/collector.rs` |
| `SemanticDiff` | `crates/epoch-diff/src/lib.rs`; extends `ApplicationCheckpoint` |
| `TrajectoryExport` | `crates/epoch-trajectory/src/lib.rs` and `ml export` of the CLI, against a session that is being recorded |
| `CriuCompat` | `crates/epoch-criu-compat/src/lib.rs` and its fixture |
| `EffectGatewayProofs`, `BlobStoreProofs`, `EventJournalProofs`, `SupervisedRunProofs`, `WorkspaceProofs`, `RecoveryProofs` | inductive invariants, lemmas and theorems of the component they are named after |
| `SecureGatewayProofs` | the same for `CapabilityService` (part 1) and for its composition with the gateway (part 2) |
| `ComponentProofs` | the same for the six modules that stand alone: `AgentStream`, `Sandbox`, `CriuCompat`, `ProcCollector`, `SemanticDiff`, `TrajectoryExport` |
| `MC*` | instances for TLC; `MCComponents` is the sum of the six modules that stand alone and extends `MCCriu`, which has the instance of `criu_support` |

**CapabilityService.** One variable per table or group of columns: `policy`,
`grant` (immutable columns), `status`, `uses`, `budget`, `ancestry`,
`authorizations`, `decisions`. Each operation is one immediate transaction and
one action; a call that returns an error has changed nothing and has no action.
The order of denials in `evaluate_authority` is `Verdict`. A denial writes back
the status it found (`MarkDenied`), which is what makes expiry final under a
clock that goes back; `attenuate` makes the same checks but its transaction is
dropped on error, so it writes nothing. CHECK clauses that refuse an update
are guards (`now >= issued_at`). Abstractions: a handle is the capability it
hashes to; `Scope` is the session, subject, action and resource, only compared
for equality, so the four mismatch reasons are one.

**EffectGateway.** Callers of `execute` are processes with a program counter;
every transaction, blob write and provider call is a step, and a caller in
`Mortal` may die, or meet a storage error, before each. An operation stands for
the id derived from session, branch and replay key; inputs and results stand
for their bytes and hashes. The provider is outside `src/` and is modelled from
how the gateway uses it: keyed by operation id, it may act, repeat, or report a
failure after having acted or not. `MarkTerminal` is the supervisor's
unconditional update, the other writer of `branches.state`.

**EffectLedger** says what a user of the gateway may rely on: an operation is
decided once, called at most once and only after it was recorded as dispatched,
resolved at most once, and every answer is the recorded result. The refinement
mapping reads `phase` and `recorded` from the intent rows, `calls` from the
provider and `served` from the receipts.

**SecureGateway** extends the capability service and instantiates the gateway
(`Gw`, whose operations are the service's requests), and replaces the gateway's
free choice of authorization by the service's verdict, in one step with the
intent. The foreign key of `effect_intents` on capability
and branch decides whether a denied intent can be stored at all. The steps that
ask the authorizer nothing (`Advance`) and the administration of capabilities
(`Administer`) are those of the components.

**BlobStore.** Each file-system call of `put` that another process can observe is
one action: look, create the shard, sync its name, create and write the
temporary file, look again, link, sync, remove, and the same for the sidecar
(`slot` says which of the two is being published). A hash stands for its bytes;
`Corrupt` is what somebody else wrote, `Partial` an unfinished write. A
directory entry exists at once and is durable after its directory was synced;
`PowerLoss` keeps any selection of the others. Two history variables,
`leftEntries` and `leftShards`, keep what a put had made and not synced when it
was killed or failed, until somebody syncs that directory; a third, `acks`,
what was acknowledged and the power has not taken. `Open` lists `.tmp`, then
inspects the listed files one by one, and fails on one that has vanished.
`Mishaps` chooses what may go wrong in an instance: death, I/O errors, stalls
of 24 hours, tampering, power loss.

**EventJournal.** Recorders verify and write blobs, then validate, allocate and
insert in one transaction; an error, a fault or a death in between abandons the
append and leaves the blob. Initial states include counters behind the rows of
a trusted import, which `allocate_sequence` repairs. Readers follow
`next_offset`; `had`, `seen`, `repeated` and `missed` record what a walk met.

**AgentStream.** The validator's fields are the variables; each kind of record
has the condition under which it is accepted (`…OK`) and the action that
accepts it. `log` keeps the accepted records, and `WellFormed` says what a
stream may be from the records alone, without the validator's fields.

**SupervisedRun.** The supervisor's thread, two readers, the bounded channel,
the agent and its descendants interleave. A descendant of the group may close
its output and live on; one that left the group is out of the reach of the
signals. Records are classified by what becomes of them (`junk` is refused by
the decoder, `stray` by the validator), so the module does not repeat
`AgentStream`. Every storage step may fail, including the ones that record a
failure.

**Workspace.** A capture lists the tree and reads it file by file while another
process writes it; a read is two steps with the metadata compared before and
after, and `held` remembers every content a file had meanwhile. Restorers take
the lock file of their spelling of the target, validate, stage, set modes,
rename and sync, and may fail or be killed at every step; an operator removes
the lock of a killed one. Entries are records of kind, path, mode and content; a
name is compared, never parsed. A write changes size or modification time: what
`same_file` cannot see, a write of equal size within the clock's resolution, is
outside the model.

**Recovery.** One session whose run follows a script of events and ends
completed or failed, and processes that call `checkpoint`, `restore` (inspect
or activate) and `fork` at any moment, also before the run has ended. Every
call is split where the code leaves a transaction or touches another store, and
may die there. Around them the workspace is edited, capabilities and effects
advance the frontiers, an ambiguous effect suspends a branch, and stored blobs
are lost or damaged. The scripts contain each reason for which
`validate_capture` refuses a summary. `application_status`,
`inspect_fork_branch`, `replay_report` and `diff_application_epochs` read only
and are operators the properties use. `WorkspaceBackend` is represented by the
outcome of its calls; `Workspace` has its steps.

**Sandbox.** A request is validated, the host discovered, a plan made and
launched; the helper installs the filter and then executes the workload, which
forks, stops and exits when it likes. The owner calls the operations of either
backend in any order. systemd's scope and the PID namespace are external:
`systemctl stop` ends every process of the unit, the death of the namespace's
first process ends the others, and a scope without processes is collected.
`ShowMayFail` would let `systemctl show` fail while `cleanup` polls; see
Findings.

**ProcCollector.** The kernel's tree changes between any two reads: processes
exit and are reparented, threads exit and hand their children over, processes
fork. `stable` is the set of processes whose chain of parents held throughout.

**SemanticDiff.** A path is the sequence of its parts with the separators and
escapes as parts, so that escaping is modelled by what it does: `Replace` is
`str::replace` of one part by two, in closed form (part `i` moves to where the
parts replaced before it push it, `Moved`). The property looks the changes up by
their paths, as a reader would, and rebuilds the other side.

**TrajectoryExport.** The runtime's own writers (`append_event`, the failure
path, `mark_terminal`, `mark_unknown`, `record_activation`, forks) are the
environment of the exporter, each with the kinds, order and clock it really
writes; every query of the export is a step.

**CriuCompat.** One run over the matrix of scenarios; CRIU may succeed, fail,
say it is unsupported or time out at every command. The fixture writes the files
of its workspace (the heartbeat of each process, and the file of the scenario)
while they are read one at a time, for the snapshot and for every poll;
`fs::write` empties a file before it fills it, an appended one never is, and a
revision that is missing on both sides counts as advanced, as in the code. CRIU
freezes the tree at a moment of its own after the snapshot, and of a restored
tree any part may run. The history variables `ahead` and `resumed` keep which
files were past their snapshot when the tree was frozen and which ones the
restored tree touched. `RunFails` is an error of the laboratory itself, which
ends the run. A row whose cleanup failed leaves processes behind; they are not
followed into the next row, whose directories are its own.

Definitions whose names end in `_` and a word (`Expired_Late`,
`InitHelper_ExecFirst`, …) are mutants: the code with one plausible mistake.
Each property of a passing run is violated under its mutant.

## 4. Runs

| Run | Instance | Shows |
|---|---|---|
| `capability` | use limit 2, budget 3, charges 1 and 2, 2 requests, 2 decisions: 3 capabilities at one time and revision, or 2 with expiry at 1, times 0 and 1 in any order and 2 revisions | trees of delegation conserve uses and budget; final denials, lifetimes, shrinking authority |
| `gateway` | 2 callers, one of which may stop anywhere, 1 operation, 2 inputs, 2 results, all fault points, weak fairness | the safety properties, the refinement, and that calls return and dispatched effects are resolved |
| `secure_gateway` | 2 gateways with a root of one use and a second handle, 2 operations of one branch, a second branch, stops, a fault after the call | provider calls stay within the root's use count; consumption if and only if admission |
| `blob_store` | 2 writers and 1 opener of one content and shard, 2 media types; deaths, I/O errors, stalls, tampering, power loss | publication is complete and agreed on; the power takes only what its maker had not reached the sync of; sweeps spare living writers |
| `blob_shared_durability` | the same, power loss only | that `put` acknowledges what another writer has not synced, below |
| `journal` | 2 recorders, 1 reader, 2 branches, up to 1 imported row each, 3 rows, inline and large payloads, pages of 1 | dense sequences; walks miss nothing, and repeat nothing within a branch |
| `supervised_run` | 3 records, pipe of 2, channel of 1, every mishap, fair threads | what an outcome and a failure leave on record, what is left behind, and that a run that is to end returns |
| `recovery` | 2 processes, 4 calls, 9 scripts, 2 forks, 1 target, 2 outside events | epochs, activations and forks on record mean what they say |
| `workspace` | 5 entries, 2 writes, 2 restorers of one target, 1 lost blob, kills | snapshots are faithful and restorable, publication is whole, returns leave nothing |
| `components` | the sum of six modules: streams to sequence 5; 2 descendants and 4 operations of the sandbox; 3 scenarios of the laboratory, one of 2 processes and one with a second file, 4 outcomes of a command, 5 configurations, 3 machines, 2 writes of each file; trees of 4 processes; pairs of contexts differing in each section; an export, a rival, a fork and a restore | one property or more of each, and that cleanup returns |
| `criu_support` | an appended file, same bounds | support that the restored tree did not earn, below |
| `gateway_ambiguous_effect` | minimal | the disagreement with FR-035, below |

Bounds. Three capabilities allow a grandchild and two siblings, which is where
ancestor accounting differs from parent accounting; budget 3 with charges 1 and
2 gives a refusal by budget, an exact exhaustion and a partial one. Two
decisions suffice for pairs (denial, later allow), which is all `DenialIsFinal`
compares; `MaxDecisions` is the only bound that is not a set. Two times and an
expiry between them give before, at and after; the clock is not monotonic.
`capability` explores two parts of its instance (`TreesOrPairs`): trees of up to
three capabilities, each with a limit, at one time under one policy revision;
and pairs with a budget, at any time and revision. Counters and lifetimes are
checked by the same step for each capability of an ancestry, so that a deeper
tree under a moving clock shows what a pair shows; the proofs cover both at once.
Operations do not interact in the gateway except through `branches.state`, so
one operation with two callers is the interesting case: each may be owner,
racer or replayer, and calls again after it returned or stopped. The proofs
cover any number. `secure_gateway` starts with the root issued (`IssuedSpec`),
which leaves the steps of its issue to `capability`. Two writers of one content are a
winner and a loser of each race; a third would repeat the loser. Three rows on
two branches give a foreign parent, a stale counter and, with pages of one, a
row that moves across a page boundary. Streams of six records hold a context,
two interleaved requests with their answers and a safe point. Four calls of two
processes are a checkpoint, a restore or fork of it, and two that overlap them;
two outside events suffice for a blob lost between validation and use together
with a suspension or an edit. Two restorers are the winner and the loser, and
two writes during a capture make a torn file. Two descendants let one outlive
the leader while another is stopped. Identifiers `x`, `x/role`, `x~1role` and
`order` collide under every plausible mistake in escaping. Three
records, a pipe of two and a channel of one block the agent and both readers.
Two writers of one content, one shard and a power loss are the writer that has
made an entry and the one that relies on it; a retry of the same put is the
second writer after the first was killed or failed. `blob_store` explores states
with at most one file of a dead writer in `.tmp` and one tampered file
(`FewMishaps`): a sweep takes its files one by one, and a put that meets a file
of other content fails there. Two writes of each file
(`MaxTicks`) are one before the snapshot, without which no row gets as far, and
one that may fall between the snapshot and the freeze or after the restore.
Symmetry is used where identities
are only compared for equality, never in runs with temporal formulas about
progress.

Deadlock. `capability` ends when identities and the bounded log are used
up; a supervised run, a restore, a stream, a diff, an export and a collected
tree end when they return, and so does the matrix of the laboratory; and the
calls of `recovery` are bounded. These do not
check it; all others do.

Fairness. `gateway` assumes that a caller inside `execute` keeps taking steps.
The code waits only for the store's mutex and SQLite's write lock, both held for
one transaction, and for the provider, whose return is assumed. A caller that
dies has returned for `EveryCallReturns`; `DispatchedIsResolved` speaks of the
callers outside `Mortal`.
`supervised_run` assumes that the supervisor's thread and the two readers are
scheduled and that the drain timer runs. It assumes nothing of the agent, which
may run for ever (the code has no limit on the duration of a run), nor of its
descendants: the property speaks of runs whose agent has exited or wrote what it
may not, and there the group is killed if need be. What the code cannot reach, a
descendant outside the process group, is the hypothesis of `EveryRunReturns`: as
long as one keeps a pipe open, the drain timeout is detected but `join_reader`
waits for the reader that waits for the pipe, and `run_manifest` does not return.
`components` assumes that a call of the sandbox's owner goes on, that signals
are delivered, that the kernel reaps a namespace whose first process is gone and
that systemd stops and collects a scope (`SandboxFairness`); it assumes nothing
of the workload.

### Findings

1. *Ambiguous effects.* FR-035 says ambiguous effects suspend the branch. The
   code calls `mark_unknown` only for injected faults; after a real crash the
   row stays `dispatched`, later calls get `UnresolvedOperation`, and the
   branch is not suspended. (`docs/effect-gateway.md` lists reconciliation as
   not implemented.) The safety half holds: nothing is ever redispatched.

2. *Durability of what is found in place.* `epoch-blob/src/lib.rs:93` says the
   store durably pins one media type to each content hash. A `put` that finds
   the shard, the blob or an equal sidecar in place returns `Ok` without a sync
   of its own (lines 239, 242, 327). If the writer that made the entry has not
   synced it yet, or was killed or failed just before it did and `put` is only
   called again, a power loss takes what was acknowledged, and another media
   type can then be pinned (`blob_shared_durability`). What does hold, with any
   number of writers, is `OnlyUnsyncedIsLost`: what one put has synced stays.
3. *Support in the CRIU laboratory.* `docs/criu-compatibility.md:22` makes
   support depend on behaviour that advances after dump and restore. The
   snapshot it is compared with is read before `criu dump` is started
   (`epoch-criu-compat/src/lib.rs:841`) and the fixture runs until CRIU freezes
   it, so a restored tree of which nothing runs may pass (`criu_support`).
   `SupportIsSeen` is what a supported row does rest on.

The models contain more disagreements, which have no run of their own:

- *Lost denial.* A handle of another branch is denied, but the denied intent
  cannot be stored because of the foreign key on (capability, branch), and the
  audit record is rolled back with it; the caller sees a storage error.
  `docs/capability-service.md:21` says a denial appends its audit record.
- *Sandbox.* While `cleanup` waits for the unit to be collected, a `systemctl
  show` that runs, fails and prints nothing is taken for a unit that is gone
  (`epoch-sandbox/src/lib.rs:763`), and the cleanup reports success although the
  scope may still have processes: `CleanedLeavesNothing` fails with
  `ShowMayFail = TRUE`, and the run has it `FALSE`.
- *Lifecycle.* `mark_unknown` suspends a branch from `created` and from
  `completed`, which is no transition of `BranchState`; none of the writers of
  `branches.state` consults it. Nor does `mark_terminal`, which completes a
  branch that an effect has suspended; that is a transition of the lifecycle,
  and `EpochsAreSound` does not forbid an epoch of such a branch.
- *Blob store.* `open` fails when a temporary file vanishes between the listing
  and the inspection of `.tmp`.
- *Workspace.* The lock is named after the spelling of the target: two restorers
  that spell one target differently do not exclude each other, and `rename`
  replaces an empty directory. The run has one spelling.

## 5. Proofs

The theorems hold for all values of the constants, from the named assumptions of
the component modules, which TLC evaluates in every run. They say that limits,
charges and capacities are positive, that times and revisions are naturals and
that sentinels are not identities; further

- a database has finitely many branches and they are ordered (`BranchType`), and
  some payload is small enough to be kept inline (`LargeType`): `EventJournal`;
- paths are listed in an order without repetition and the limits of the backend
  are ones `validate_limits` admits: `Workspace`;
- stderr is recorded once, after every record of the agent, and a run records no
  activation (`ScriptsAssumption`): `Recovery`. `run_manifest` joins its readers
  before it appends `process.stderr`, and only `restore_application` records
  activations;
- the mark for "no context yet" is no hash (`NoHashType`): `AgentStream`;
- canonical paths are sequences of names (`PathAssumption`): `Sandbox`;
- the matrix has a scenario, and sizes and latencies are naturals
  (`LabAssumption`): `CriuCompat`;
- at the start every process below the root was forked by a thread of a process
  that is in the tree, and the root's parent is outside (`TreeAssumption`), and
  the collector's limits are naturals (`CollectorLimits`): `ProcCollector`;
- two identifiers are spelt differently, and those that a context holds have a
  spelling or are blank (`SpellingAssumption`): `SemanticDiff`;
- the kinds of the agent's own records are none of those that tell an outcome
  (`KindsAssumption`): `TrajectoryExport`.

The invariants named below were also checked by TLC on the instances of the
runs before they were proved. Two theorems have a hypothesis besides
(`OneRestorerPublishes`, `CleanupIsThorough`); each is a limit of the code and
is described with its module.

**SecureGatewayProofs, part 1: the capability service.** The inductive invariant
is built in three layers, each using the ones below.

- `Core` = `TypeOK`, `RowsOK`, `ConsumedIffExhausted`, `AuthorizationsOK`.
  `TypeOK` is not inductive by itself: a counter stays a natural because an
  allow found every charged row active, and an active row has no counter at
  zero (`ConsumedIffExhausted`). `RowsOK` says ancestries name issued rows only
  and that counters are below their limits.
- `Books` = the conservation laws (together `AllowanceIsConserved`), ancestry,
  narrowing and lifetimes. For an
  allow, the set charged to an ancestor grows by exactly the new authorization,
  which is new because the request was not authorized before; for a delegation,
  nobody has drawn on a row that is just being issued.
- `Audit` = `AllowsAreRecorded`, `DecisionsOK`, `DenialIsFinal`. `DecisionsOK`
  is the strengthening: the reason of each logged denial is still true
  (`Justified`), because every step only shrinks authority (`Shrinks`, proved
  as `ShrinkingAuthority`). A later allow would contradict it.

**SecureGatewayProofs, part 2: the composition.** Every step of the composition
is a step of the service or leaves its variables alone, and likewise for the
gateway (`ImplementsService`, `ImplementsGateway`), so the theorems about the
service hold of the composition (`AuthoritySurvivesComposition` cites them).
What is new is the agreement of the two tables. `SecureInv` adds to the
service's invariants that what is past admission has an admitted intent
(`PastAdmission`) and `TablesAgree`: intents let through and authorizations
consumed correspond one to one. `CallsStayWithinAuthority` follows by counting:
the called operations inject into the authorizations charged to the root, whose
number plus the uses left is the use count issued.

**EffectGatewayProofs.** `Inv` adds to the properties: `CallersCarryInputs`
(a caller past its first step carries an operation and an input whose blob is
stored), `RowMatchesHolder` (the row of an operation is in the state its
owner's program counter implies), `SoleHolder` (no two callers are past
admission for one operation) and `RowMatchesWorld` (row state against provider
calls and blobs). Sole ownership is what the second lookup under the write lock
establishes, and it gives at-most-once. `Refinement` maps every action to a
step of `EffectLedger` or a stutter. `DurableBeforeCall`, `KnownNotSent` and
`UnknownSuspendsBranch` are proved only: what they say of a small instance is part
of `ImplementsLedger` and `SummaryMatchesHistory` or of one transaction.

**BlobStoreProofs.** `PutInv` says of each caller what its program counter means
on disk: a file about to be linked was written in full (`FullBeforeLink`), and
only dead or stalled writers own old files (`WritersAreYoung`).
`SweepSparesLiveWriters` goes through the steps of all but the writer itself. For
`AcksAgreeWhileInPlace` the invariant is about *promises*: a media type that was
acknowledged, or that a live put has linked; the sidecar holds what was promised
or was tampered with, and there is never more than one promise for a content.
A power loss ends every put, and with a sidecar that it takes go the promises
that rested on it: a put that reads a sidecar its rival has linked but not synced
acknowledges what a power loss undoes (section 4).
`OnlyTheUnsyncedIsLost` has no hypothesis: writers race, die, fail and stall, and
the power fails at any moment. Its invariant `HeldInv` says that an entry, or a
shard directory, is durable, or its maker is at a step before its sync, or it is
among those left by a put that ended there; that a file has a shard directory;
and that a put past `mkdir` has one. The step that needs it is a sync: a put
syncs the whole directory, so it settles what others have left there too.

**EventJournalProofs.** A sequence counter is never ahead of the rows, and the
allocation repairs one that is behind, which gives density. A walk is faithful
because positions in the ordered result only grow: `WalkInv` says that what is
behind the offset of a walk was returned, and, within one branch, that what was
returned is behind the offset. Across branches a row may be inserted before the
offset, so a walk of a whole session may return a row twice; the property claims
no more.

**SupervisedRunProofs.** `RunInv` follows every record from the agent to the
journal. In the loop a record is in exactly one place: on record, in the channel,
in the hands of the reader, or in the pipe (`FlowInv`). `Message(w, k)` is the
k-th message `read_stdout` sends when the output is `w`; the channel holds a run
of these after the last one recorded, interleaved with at most one message of
`read_stderr` (`ChannelOK`), and the reader has sent no more than it has read
unless everybody has closed the pipe. So the end of stdout comes out of the
channel only after every record, with nobody left to write, and a failure comes
out at the record that caused it. `ProcessInv` says who may hold the pipes at
which step; the supervisor reaches its last steps through the kill, through the
end of both pipes, or without an agent. `OutcomeInv` carries what was learnt
there to the return. The journal is dealt with by positions: the records are the
events from the fourth on.

**WorkspaceProofs.** For the capture, the bytes read so far are a prefix of the
file as long as its stamp is the one seen at the start (`ReadInv`), and the stamp
is compared again at the end; so a stored file is one the source held, whatever
was written meanwhile. For restores, `RestoreInv` relates each restorer's step to
its staging tree, its lock and the target: what stands at the target is a whole
tree of a restorer that published (`TheTargetStaysWhole`, for any number of
spellings). That one restorer at most publishes needs that all spell the target
alike (`OneSpelling`), since the lock file is named after the spelling; then the
lock excludes, and the last look at the target is under it.

**RecoveryProofs.** A call reads the journal in one transaction and commits in
another. The key fact is that once the run has recorded its stderr nothing that a
checkpoint or a replay reads is recorded again (`ReadingStays`): activations are
the only events that follow, and they are not read. So what a call read stays
what every later call reads, and the calls' local values remain true while they
wait (`ProcInv`). `EpochInv` numbers the epochs in the order of their commits,
all on the root branch: a fork has no run of its own yet, so a checkpoint of it
is refused.
`ForkInv` ties a fork's row and the report its creator got to the epoch.
Positions of the journal replace the sorted lists of the code: a replay report
is the set of its events with their positions, which determines the list.

**ComponentProofs.** Six parts that share nothing but a few lemmas on sequences.

- *The validator.* `StreamInv` says that each field of the validator is a
  summary of the accepted records: the pending requests are those not answered
  since, the context hash is that of the last context update, and so on. A
  record looks only back (`GoodLooksBack`), so accepting one keeps the earlier
  ones well formed, and the condition under which `accept_claims` accepts a
  record is `GoodAt` of the log with that record appended. `ValidatorIsExact`
  has both directions: nothing ill-formed is accepted and nothing well-formed
  is refused.
- *The sandbox.* `CleanupInv` says what each stage of a cleanup has
  established: it polls only once the leader was reaped, it returns only when
  the unit was collected, and a unit is collected only when nobody in it is
  alive. `CleanupIsThorough` assumes that `systemctl show` does not fail
  quietly (`~ShowMayFail`, a finding of section 4). `LaunchInv` says what each
  phase of a launch has established: the plan is the one made from a request
  that was validated, on a host that has every facility, and a workload of the
  Linux backend has its filter.
- *The CRIU laboratory.* `CriuInv` = `StageInv` (what the stage of the run has
  checked), `NamesInv` (an artifact is of a row that is there or of a stage the
  next row has passed, none twice) and `RowsInv` (a row's measurements are of
  commands whose log is an artifact, and a supported row has two that succeeded
  and files that were all seen to move). `WatchInv` is what the last needs of the
  watched files: since the freeze a file is what it was then, unless the restored
  tree has touched it, so that one which a poll finds past its snapshot was
  `ahead` or is `resumed`. A decision to keep rests on `PercentileGate` and
  `PercentilePasses`: the 95th percentile of some values passes a gate exactly
  if at most one in twenty is above it, which is proved by counting.
- *The process collector.* `KernelInv`: the stable processes stay below the
  root, their parents are stable too and list them under a thread that exists.
  The proof speaks of what is below a process by the sets closed under the
  relation, which replaces induction. `CollectorInv` types the walk. `TiedInv`
  relates the two: each stable child of a process that was collected is in the
  queue, at hand, found, or covered by a diagnostic (`Accounted`); and while a
  process is at hand, each of its stable children was read, is still to be
  asked of the thread that lists it, or a thread to be asked is gone, which the
  collector will say (`ChildKept`).
- *The semantic diff.* `DiffInv` is small: both contexts restored, and the
  changes are those between them. What is hard is that no two changes have one
  path. The escaping is injective in both stages: what stands before the first
  difference of two spellings moves to the same place (`MovedStep`,
  `ReplacedAt`, `FirstDifference`, `ReplaceUndone`), and the second stage can
  be undone because the first leaves every tilde followed by a zero, never by a
  one (`TildeZero`). So the paths of two entities differ, and those of
  entities, fields, scalars and orders never coincide, except that of an entity
  called `order` with that of the order of its list; an order is reported only
  if no entity came or went, and then no entity is reported at its own path.
  Sections have different roots. The reading back then succeeds one section at a time.
- *The export.* `ExportInv` = `JournalInv` and `RunInv` (the outcome is at its
  first row, or was lost with the run, and the step of the run says which),
  `BranchInv` (a branch with a label has an outcome) and `CallsInv` (what an
  exporter has read so far agrees with what will be there when it reads on).
  `FileInv` says that a file has one writer, who is at it, died over it or has
  written all of it: creation is exclusive, and an export takes away only what
  it created.

**Only model-checked.** Liveness (`EveryCallReturns`, `DispatchedIsResolved`,
`EveryRunReturns`, `CleanupReturns`): it rests on the fairness of section 4,
and reasoning from fairness needs ENABLED, which the prover does not handle.
Theorems whose statement no run repeats (`TypeCorrect`, `UsesAreConserved`,
`BudgetIsConserved`, `ConsumedMeansExhausted`, `AncestryFollowsDelegation`,
`DelegationOnlyNarrows`, `AuditIsComplete`, `ReplayIsReadable`,
`PutKeepsItsFile`, `TheTargetStaysWhole`, and the two refinements of the
composition) hold for every instance and need none.

## 6. Not modelled

Text and formats (canonical JSON, hashing, handle encoding, CLI output, report
rendering, dashboard pages, `/proc` text), measurement harnesses, the Python
training code, migrations (one transaction of SQLite), and the kernel
mechanisms behind sandboxing and CRIU. Within modelled components: permission
and symlink checks of the blob store (they refuse, and change nothing), the
kind and sequence filters of journal queries, JSON decoding and
`StreamValidator::accept` (the supervisor uses `accept_claims`), a group signal
refused with EPERM, the exit of a leader thread whose process lives on and the
creation of threads (the collector's kernel only loses them), reading a
`children` file in parts, a host or files that change between `validate` and
`launch` (and `launch` does not look at the backend the plan was made for), the
death of the supervisor itself (nothing restarts its sessions), manifest
parsing and the seccomp program. `PROJECT.json` has the status of each
component.
