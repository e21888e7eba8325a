# Werkfaden: the Runtime Sync Workshop, formally

Werkfaden keeps a source corpus, its blueprints (documents that describe each
translation unit, with a mechanical ledger) and a SQLite projection of all
documents in step. The **Workshop** (`src/workshop/src/runtime_sync_workshop`) is
the only way to change them: a command-line tool whose commands are short-lived
processes that share files. **KAIROS** (`src/kairos/kairos_harness/kairos`) owns
the SQLite database, the documents and the permits under which documents may
change. This directory holds a TLA+ model of that protocol, the TLC runs that
check it, and proofs of its invariants that TLAPS checks.

## 1. Inventory

| Component | State it keeps | Operations | What makes it correct |
|---|---|---|---|
| Source transaction core (`_core_*.py`) | `transactions/<t>/state.json`, `baseline/`, `work/`, `review/`, `rollback/`; `seal.json`, `lease.json`, mirror objects | seal, checkout, include-documents, metadata-plan, prepare, metadata-check, verify, apply, abort, stale-abort, authority-recover, recover | one transaction changes the corpus at a time; what is sealed is what was reviewed and verified; a failed change is undone or keeps the workshop closed |
| Engine (`engine.py`) | terminal receipts; wraps every save and lease operation with outbox and Guardian | save, release, terminal receipt, recover routing, annotate, history, guardian-reconcile, runtime-policy transactions | a receipt is written once, after the postcheck, and acknowledged whatever crashes |
| Corpus manifest (`corpus.py`, `blueprint.py`) | none (reads everything) | build the manifest, verify ledgers and projection | "verified" means files, blueprints, managed copies and database rows agree |
| Context documents, metadata gate | selected documents and the audit inside a transaction | select, assert baseline, review, postcheck | an audit covers exactly the candidate it was drafted for |
| Lifecycle outbox (`tx_lifecycle.py`, `tx_documents.py`) | events in `state.json`, intents, marker, document, row, checkpoint | stage, persist, project, acknowledge, reconcile | every transition is documented exactly once, in order, across crashes |
| Retention and recycling (`tx_retention.py`, `tx_recycling.py`) | pool of work trees, archives, the retention lock, recycling decisions | compact, rehydrate, submit, drain, retire-orphan | nothing is deleted before its archive is verified; a bounded pool |
| Guardian (`guardian*.py`) | a session, its ledger, reserved and bound transactions, evidence | enter, advance, bind, patch, close, reconcile | no checkout without a reservation, no release without evidence |
| Migrations, repair, auxiliary | their own transactions under the same lease | plan, checkout, apply, recover | as for the core, over authority and machine files |
| KAIROS governance (`governance.py`) | permits, quarantine, phases (SQLite) | issue, consume, revoke, expire, attribute | a managed path changes only under one active permit |
| KAIROS heartbeat (`heartbeat.py`, `promoter.py`) | projection rows, event files | reconcile, promote, archive | the projection follows the files; promotion is idempotent |
| KAIROS loops (`loops.py`, `recovery.py`, `readiness.py`) | loop state, archives, the finalization ledger, transition receipts | close-task, finalize, kickoff, new-loop | a loop is sealed only in a settled workspace and opened once |
| KAIROS goals, bootstrap, backup content | goal files, backups | write goals, scaffold, back up, restore | a backup restores |
| JEV review (`src/review`, `jev_admission.py`) | attempt receipts, the bound receipt of a transaction, a tree of questions | review a candidate, look into a low attempt, bind, admit at apply | where the policy asks for it, only what Jev was shown and passed is applied |
| Scientific gate, intake, index scripts | none shared | survey, ask, generate | sequential; reports only |

**Interaction.** The commands call each other only through files. A command loads
`state.json`, requires that `lease.json` names its transaction, checks the live
corpus, works (copies, an isolated build and test run, a KAIROS heartbeat), and
saves. The lease names a *transaction*, not a process. KAIROS is called in-process
and commits its own SQLite transactions, which no rollback of the Workshop can
undo. The author edits the work directory with any tool at any time; other writers
of the workspace change managed documents; the operator may kill a command and may
repair live files by hand.

**What is hard.** Long windows between a check and its effect (a shadow build
between two hashes, a manifest and a mirror between the lease check and the seal);
a mutation of many files with a preimage for each; a point of no return in the
middle of `apply` (the heartbeat) after which the exception path changes; permits
with a life of their own; recovery that must be repeatable; a receipt that is four
separate writes. `PROJECT.json` lists the hazards at their lines.

## 2. Plan

| Module | Subject | State |
|---|---|---|
| `WorkshopTxn` | the whole life of a source transaction (section 3) | done |
| `SerialChange` | the abstract promise behind the lease; implemented by `WorkshopTxn` and by `MaintenanceTxn` (checked and proved) (section 4) | done |
| `TxOutbox` | the lifecycle events of a transaction through the six files that carry them, and the Guardian's record of the session (section 5) | done |
| `EventLog` | the abstract log `TxOutbox` implements | done |
| `TxRecycling` | review, archive and compaction of an ended transaction; extends `TxOutbox`, because its decisions are events (section 5) | done |
| `MaintenanceTxn` | policy, auxiliary, repair, universal and migration transactions (section 6) | done |
| `KairosGovernance` | permits, quarantine and the heartbeat of a governed KAIROS workspace (section 7) | done |
| `KairosLoop` | finalization of a loop and the opening of the next; extends `KairosGovernance` (section 7) | done |
| `GuardianSession` | Guardian sessions from the first hypothesis to the fresh run, and the transactions they admit (section 8) | done |
| `JevReview`, `JevTree` | the review of a candidate and its admission at apply; `JevReview` composes `GuardianSession` with `JevTree`, the tree of questions about a low attempt (section 8) | done |
| `*_proofs` | theorems (section 9) | see there |

Next: the choice of candidates by the recycling pool, and a composition of
`TxOutbox` with `WorkshopTxn`, whose saves it refines. Every safety and action property
of a passing run is stated by a theorem. Still worth proving: how far the theorems about
preimages and permits survive a foreign writer that stays off the files of the
transaction, and what of `EndedIsFinal` survives two commands on different transactions.

## 3. WorkshopTxn

### Correspondence

| Model | Code |
|---|---|
| `live` | runtime files, blueprints, managed copies and managed context documents |
| `db` | artifact rows and their projections in the KAIROS database |
| `seal`, `lease` | `seal.json`, `lease.json` (exclusive create, read, delete) |
| `txn[t]` | `state.json`; `pkg` = `baseline_package_sha256`, `copy` = `baseline/`, `prepared`, `checked`, `verified` = the three work-package hashes, `post` = `postcheck_package_sha256`, `receipt` = the `terminal_receipt` entry |
| `work[t]`, `audit[t]`, `rollback[t]` | `work/`, `review/`, `rollback/` |
| `permit[t]`, `receipt[t]` | the `action_permits` row, the file under `receipts/` |
| `proc[p]` | a running command: program counter, transaction, the record it loaded, the files left, the manifest it computed, whether a restore failed |

A command that reads, checks and saves without a long operation in between is one
action (`MetadataPlan`, `Prepare`, `MetadataCheck`, `IncludeDocuments`,
`RetireOrphan`). The others are split exactly where their own checks cannot see
what happens meanwhile:

- `seal` = `SealCheck`, `SealWrite`;
- `checkout` = `Checkout` (checks, manifest), `Acquire`, `Materialise` (copy files
  and save) or `CheckoutFails`;
- `verify` = `VerifyCheck`, `VerifySave`;
- `apply` = `ApplyCheck`, `Backup`, `IssuePermit`, `ApplyStart` (save APPLYING),
  `WriteFile` per file, `Heartbeat` or `HeartbeatFails`, `Postcheck`, `WriteSeal`,
  `SavePostcheck`, then the receipt; its exception path is `WriteFails`,
  `RollbackFile` per file, `RollbackDone`, `Revoke` or `RevokeFails`, `SaveEnd`,
  `Unlease`, or `SaveRecoveryRequired`;
- the receipt = `FinishCheck` (stage the payload), `WriteReceipt`,
  `CommitReceipt`, `ReleaseFinished`, all under the retention lock (`LockFree`);
- `recover` = `RecoverBaseline`, `RecoverTarget` or `RecoverReceipt`, each going
  on with the steps above; `abort`, `stale-abort` and `authority-recover` save and
  release in two steps.

The environment is part of the model: `EditWork` and `CompleteAudit` (the author),
`Drift` and `WorkspaceHeartbeat` (another authority of the workspace, whose
heartbeat also consumes a permit whose paths changed), `OperatorCopies` (repair by
hand of a transaction in recovery), `ExpirePermit` (the clock), `Crash` (a kill, or
an error no command catches, at any program counter).

### Abstractions

Bytes are model values plus `Torn`. A header is merged with its translation unit. A
blueprint is identified by the runtime bytes its ledger documents; edits of its
prose are part of what the audit reviews. `Doc` are context documents outside the
package hash. Topology, authority, machine and test companion files, the intake and
framework projections follow the same backup/copy/compare path as the files
modelled and are left out. The Guardian is off and no JEV review is required (both are
the subject of section 8); governance is in mode "required". Preimages are captured in
one step, since the only thing that could change between two captures is a foreign
writer that may as well come before both. The copy order is the code's up to the order of sources. A
busy retention lock is a guard; where the code raises instead of waiting, `Crash`
covers it. Transaction identities are used once.

### Bounds

`MaxEdits`, `MaxDrifts` and `MaxFaults` bound the environment (work edits, foreign
writes, failures of any kind). Two contents tell "baseline", "new" and `Torn`
apart; two sources are needed for a partly applied source change and for drift
outside the scope, two transactions for anything about handing over the lease, two
processes for races. Runs with one process represent the documented serial use;
kills, foreign writers and the author still interleave with every step.

`Txn_serial` has two transactions, two sources and a document, and asks two questions
that the constraint `SeveralOrDrift` keeps apart: both transactions over one source with
up to two edits and two failures, three in all, while nobody else writes (handing over the
lease, interrupted recoveries), or one transaction over any sources with one edit and two
foreign writes, of which a failure may take the place of one. Without the constraint the
product of the two does not finish.

### Runs

| Run | Question | Properties |
|---|---|---|
| `Txn_serial` | one operator: two transactions after one another with up to 2 edits and 2 failures (3 in all), or one transaction among foreign writes and foreign heartbeats | the type invariant; `UnfinishedHoldsLease` (no other transaction starts on a corpus in an unknown state); `PreimagesAreBaseline`; `NoPermitOutlivesApply`; `RolledBackIsNotTrusted`; `ReceiptsAreBacked` (a receipt names a result that was checked, and until it is acknowledged the seal is that result, under the transaction's own lease); `EndedAtBaseline`; `EndedIsFinal`; `ChangesSerially` (refinement of SerialChange); `SealedWasVerified` (what is sealed are the verified bytes) |
| `Txn_race` | two operators, any commands at once, an author who edits at any moment | `OneCheckoutAtATime`, `ApprovalsBindReview` |
| `Txn_live` | fair commands, fair operator, 2 failures | `CommandsEnd`, `PostcheckIsAcknowledged`, `CompletedTargetRecovers` |
| `Txn_author`, `Txn_writer`, `Txn_sealrace`, `Txn_stuck` | what the documentation says and the code does not do | see Findings |

`CHECK_DEADLOCK FALSE` is set everywhere: when edits, transactions and failures are
used up the system rests.

What holds only in part: with two commands on *one* transaction, a late save may
overwrite a finished transaction (there is no compare-and-swap on `state.json`), so
`EndedIsFinal` and `ReceiptsAreBacked` are statements about commands that take turns,
checked for one process, and `ApprovalsBindReview`, which survives it, for two.
`NoPermitOutlivesApply`, `PreimagesAreBaseline`, `EndedAtBaseline` and
`RolledBackIsNotTrusted` speak of behaviours in which nobody else has written a managed
file (`NobodyElseWrote`): when another authority happens to write the very bytes of the
package, the heartbeat finds nothing to reconcile and leaves the permit active until it
expires, and the code compares no live file before it captures or restores it. An apply
that was killed has not ended: its permit stays active until `recover` or until it
expires, and `NoPermitOutlivesApply` does not speak of it. The other properties of the
run hold under foreign writes as well.

### Fairness

`FairSpec` says that a started command keeps taking steps until it is killed (weak
fairness of `Step`; kills are bounded by `MaxFaults`), and that an operator who
finds a transaction to recover eventually runs `recover` at a moment when its
checks pass (strong fairness: other commands may run in between). Nothing is
assumed of the author, other writers, the clock, or of any other command.
`OPERATIONS.md` asks the operator for exactly that.

### Findings

1. `Txn_author`: the work directory is hashed before preimages, permit and copies;
   an edit of a selected document in that window is applied, compared with itself
   by the postcheck, sealed and acknowledged as the verified package.
2. `Txn_writer`: the lease does not tell two commands of one transaction apart. An
   `abort` that overlaps the beginning of `apply` releases the lease and `apply`
   goes on to write live files without it.
3. `Txn_sealrace`: `seal` looks for the lease long before it writes the seal.
4. `Txn_stuck`: a heartbeat that failed after it consumed the permit, followed by
   a restored baseline, can never be recovered: the recovery insists on revoking a
   permit that is no longer active. The same holds for an expired permit. The spent
   permit is also what keeps a *sealed* result whose save failed from being declared
   rolled back: `RolledBackIsNotTrusted` holds because of it, and the mutant
   `RecoverBaselineSpent` shows that simply skipping the revocation would break it.

## 4. SerialChange

The promise behind the lease: a transaction takes the lease, opens, mutates,
and is proved and acknowledged or undone, each step while it holds the lease; it
releases the lease only when nothing is pending. The refinement maps `holder` to
`lease` and the phase of a transaction to its `state.json` (`PhaseOf`). `GiveUp`
is there because the code may release the lease of a checkout after its state was
saved, which leaves an open transaction that only `Retire` can end.

## 5. TxOutbox, TxRecycling, EventLog

Every material save of `state.json` appends a lifecycle event, and the event has to
reach a KAIROS document, its SQLite row and a checkpoint. `TxOutbox` models one
transaction and the files its events travel through:

| Model | Code |
|---|---|
| `rec` | `state.json`: `log` is `tx_event_history` with `tx_event` at its end, `res` is `tx_event_resolutions` |
| `intents` | the write-ahead intents (`persist_event_intent`) and the review intent of `tx_recycling` |
| `marker` | the pending marker |
| `doc`, `sql`, `ckpt` | the event the document, its row and the projection checkpoint name |
| `guard` | the session ledger's record of this transaction: reserved, active, last observed event, scope still valid |
| `lease`, `seal`, `lock` | `lease.json`, `seal.json`, the flock of `_retention_lock` (dies with its process) |
| `proc[p]` | a running command: program counter, command, the state it loaded, the state it saves |
| `tree`, `vault`, `plan`, `slot` | the large directories, the archive, `compaction-plan.json`, `compaction-committed.json` |

A command is `Checkout` or `Load`, then `Stage` (read the fresh state, choose the
sequence number, persist the intent), `WriteMarker`, `Commit` (`state.json`),
`Observe` (Guardian), `WriteDocument`, `RunHeartbeat`, `WriteCheckpoint`,
`AckMarker`, `AckIntent`, and `Release`. `WriteFails` and `Crash` can strike at any
of them; where the code catches an exception and goes on (`update_document`), the
model goes on (`Swallows`). `ReconcileStart`, `RecoverReplay`, `RecoverDone` and
`LostCheckout` are `tx-reconcile`; `GuardReconcile` is the Guardian's repair, which
takes no lock. `OtherCheckout`, `OtherEnds`, `ForeignHeartbeat` and `Reseal` are the
rest of the workshop. Commands are records (`Commands`, `Outcomes`) that say from
which state they start, what they save, and whether they need the lease.

`TxRecycling` adds `Submit`, `Archive` and `Recheck` (take the inventory, archive, and
take it again, each a step of its own), `ResumeReview`, `Compact`, `Snapshot`, `WritePlan`, `MoveDir`, `Moved`, `FreeSlot`, `Collect` and
their resumptions, and an author who edits the candidate between any two of these steps,
and may change it back. `Recheck` and `WritePlan` compare the bytes that are there *after*
an archive was made, which says nothing of the bytes that were archived: a candidate
changed and changed back in between passes, and the vault has the other version. A
compaction repairs that for a review, because it archives once more; nothing repairs it
for the compaction itself, and from its snapshot to the moves nothing compares the
directory again (`tx_retention.py:275-334`). `DeletedBytesAreArchived` says as much: what is
deleted has an archive and a decision, and unless the candidate was edited after the
compaction's snapshot (`touched`), the deleted bytes are the archived and the reviewed
ones.

**Abstractions.** An event is a number, a state, facts and an identity that stands
for its hash. The document holds the last event only. The cap of 256 intents,
and legacy documents without events are left out; of the Guardian session only the
record of this transaction is here, the rest is in section 8.

**`Outbox_recycle`** (passes): one operator, one transaction from checkout to the
deletion of its directories, four events (the shortest complete life needs four:
checkout, end, review, compaction), two faults between any two writes, one manual
reseal, three edits of the candidate (there and back during one archive, and one more),
with and without Guardian. Two faults are what it takes to interrupt a recovery. It checks that a saved but unpublished event is
always covered by a marker or an intent (`ObligationCovered`), that no checkout runs
ahead of the document (`CheckoutFindsAcknowledged`), the recycling properties
(`OneReview`, `DeletedBytesAreArchived`, `NothingMovedUnplanned`), that the six files implement
`EventLog` (`KeepsOneLog`: an append-only log with a published prefix), and that without the
Guardian every interrupted save is eventually completed (`OutboxDrains`).

**Fairness.** A started command runs on until it dies; the operator repeats
`tx-reconcile` (strong fairness: other commands run in between), which is what every
refused checkout asks for; and a disk does not refuse for ever (strong fairness of
`Stage`). `OutboxDrains` excludes a manual reseal, after which the code refuses to
replay a lost checkout, and the end of the model's event supply. With the Guardian it
would not hold: a guarded checkout whose state write fails after its intent was
written cancels its session, and the recovery of that intent asks for the session.
The docstring of `stage_lifecycle_event` says so (it "can only overblock checkout").

One operator is not a simplification of convenience here. Two commands of one
transaction that loaded the same state each build the event history from their own
dict (`engine.py:247`), so the later save drops an event that the document, its row
and the checkpoint have acknowledged; nothing in this run would hold but
`NothingMovedUnplanned`, which is proved without that restriction. What survives
two operators is in `Txn_race`. Any number of processes that take turns is as good as
one: that is what the theorems of section 9 are about.

## 6. MaintenanceTxn

Five transactions share a skeleton (checkout under the lease, a verified candidate in
`work/`, preimages, live writes file by file, heartbeat, seal, receipt) and differ in
what they compare, what they undo and what `recover` accepts. The module has one
state machine and one variable `kind`; whatever differs is a definition per kind
(`PolicyResultHolds`, `RaiseAuxiliary`, `RepairUndone`, `MigrationRecovers`, ...), so
that each can be read against its class:

| `kind` | Code | Peculiarity |
|---|---|---|
| policy | `RuntimePolicyTransaction` (engine.py) | compares every file before it writes or restores it; records `HEARTBEAT_STARTED` as `crossed` |
| auxiliary | `auxiliary.py` | no heartbeat; undoes everything not sealed and seals its baseline again |
| repair | `repair.py` | stages a verified candidate at once; permit before preimages; recovers only `RECOVERY_REQUIRED` |
| universal | `universal_migration.py` | records failed checkouts, recovers orphans, compares sources only |
| migration | `migration.py` | metadata review; apply compares the topology only; recovers both ways |

Bytes are `base` (what checkout found), `v1`, `v2` (versions of `work/`) and `alien`
(a foreign edit that leaves a consistent corpus). One behaviour is one transaction of
one kind; a save may fail before or after `state.json` is replaced (`Save`), and the
process may die anywhere (`Kill`). `Edit`, `EditWork` and `Reseal` are the
environment.

**`Maintenance`** (passes): three units of which two are targets (a half-written
candidate, and a foreign edit outside it), three failures, two edits, one manual
reseal: enough for a failed apply, a failed recovery and a failed second recovery.
`CandidateIsOwned`: candidate bytes are live only under the lease or once
POSTCHECK_VERIFIED. `SealedIsVerified`: what a seal names was verified; universal and
migration are held to it only for recoveries, because their `apply` compares less.
`OnlyForwardAfterHeartbeat`: after a heartbeat on candidate bytes no command writes a
live file. `ImplementsSerialChange`: all five refine the same abstract specification
as the source transaction. `InterruptedApplyEnds`: `recover`, repeated, ends an
interrupted apply that nobody else touched - for all kinds when every file was
written, for policy also when some were. What this does **not** promise is as
instructive: an auxiliary, universal or migration apply killed in the middle of its
copies, a repair killed in APPLYING, and a policy apply with mixed files after its
boundary are accepted by no recovery; they keep the lease.

Fairness: a running command goes on (`WF` of `Run`) and the operator repeats
`recover` where it is accepted (`WF` of `Recover`; no other command runs in between,
since one process is modelled).

`OnlyForwardAfterHeartbeat` excepts policy while its boundary is not recorded. An apply
that dies after its files are written and before it recorded the boundary is taken
forward by `recover`, which runs the heartbeat without recording the boundary either
(`engine.py:1262`); if that run dies too and a target is edited by hand, the next
`recover` restores the preimages.

## 7. KairosGovernance and KairosLoop

The other half of the system: a KAIROS workspace with enforcement "required", from
one loop to the next. `KairosGovernance` has the commands, permits, quarantine and
the heartbeat; `KairosLoop` extends it with closing a task, `finalize`,
`project-kickoff` and `new-loop`.

| Model | Code |
|---|---|
| `file`, `man` | the managed documents (the task and the archive of each loop) and whether the manifest's stat signature is current |
| `row`, `event` | `artifacts.content_sha256` and `promotion_events` |
| `rs`, `cur` | `.kairos/runtime_state.json` and `current.json` |
| `permit`, `asked`, `stray` | ACTIVE external-edit permits; one the Workshop was allowed and has not inserted yet; an unconsumed permit of a command that died |
| `running`, `phase`, `quar` | `governed_action_receipts` in RUNNING, the current phase, quarantine entries |
| `marker`, `fins`, `trans` | the finalization markers, the ledger rows with their `finalization/<id>.json`, the transition receipts |
| `cmd` | the command that holds the workspace lock: its name, program counter and locals |

`cli.execute` runs every command under the workspace lock and inside one governed
action, so at most one command is under way (`Invoke` ... `Finish`); the lock dies
with its process, what it left RUNNING or ACTIVE stays (`Die`,
`DieBeforeConsuming`). Two kinds of actor do not take that lock: people, who edit
documents at any moment, and the Workshop, which asks for permits and revokes them in
SQLite transactions of its own (`WorkshopPermit`, `WorkshopInserts`,
`WorkshopRevokes`). A heartbeat is `Reconcile`, then the guard (`ConsumePermit`,
`AcceptEdit`, `NoMatch`, `Settle`), then per document `Stage` and
`Apply` or `ApplyFails`, then `Manifest`, `SaveState` and `SaveCurrent`; finalization and the kickoff are split
at each durable write, because they are resumed by being repeated.

Left out: goal files and goal JSON, derived documents, the content of a backup and the
promotion queue of documents other than tasks and archives. `CloseTask` writes its
document in one step. The five minutes after which a heartbeat is too old for
`evaluate_finalization_readiness` are an incident (`FinalizeBlocked`).

**`Kairos`** (passes): two loops, revisions up to three, one external permit at a
time, and two incidents (`calm` counts them down: an edit by hand, a kill, an expiry,
a promotion or backup that fails). Two incidents are what it takes to interrupt a
resumption, or to edit behind an interrupted command. The constraint `Calmer` allows
only one once the second loop is being opened; without it the state space is several
times larger. The properties:

- `SeenIsPromoted`: what the manifest calls unchanged was promoted, so no edit escapes
  the next reconciliation. Excepted are documents somebody edited while a heartbeat
  was reading (`raced`): the manifest then records the signature of the new file for
  the bytes of the old one, and the code cannot tell.
- `QuarantineHoldsBack`: quarantined bytes do not reach the database. `promote`, a
  documented bypass, and bytes swapped during a heartbeat are excepted: during the
  heartbeat that promotes them (`touched`), or during an earlier one, whose manifest
  then calls bytes unchanged that nobody stored (`raced`). Trying to prove the property
  without the second exception led to the behaviour behind it: bytes in quarantine,
  deleted and written again while an explicit heartbeat runs, are recorded as seen, and the
  next heartbeat promotes them. It takes one incident more than the run allows.
- `SealIsClosed`: what holds when a loop becomes FINALIZED, many writes after the gate
  looked. Excepted is a permit the Workshop inserted after its check (`apart`).
- `LoopsAdvance`: a kickoff repeated after a kill opens no loop twice.
- `ArchiveIsKept`: a promoted archive is never rewritten or deleted.

Deadlock is checked: some command is always possible. No liveness is claimed, because
the model shows resting places from which no command leads on: a kill between the
FINALIZED state and its `finalization/<id>.json` (the kickoff finds no predecessor); a
kickoff whose heartbeat stayed blocked (the state is BLOCKED, and the identical
kickoff is refused, `loops.py:345`, although `kairos_harness/docs/OPERATIONS.md:332`
says it is retried with the same arguments; `new-loop` resumes it); a RUNNING receipt
whose active task was cleared, which scopes no `recover-action`; and a pending event
of a killed promotion whose file then changed, which keeps every heartbeat BLOCKED. A
crash between the ledger row and the state gives the loop a second row.

## 8. GuardianSession, JevReview and JevTree

A Guardian session leads one problem from a hypothesis through gated evidence to a
proven scope, admits Workshop transactions inside that scope one at a time, and closes
after a fresh run. Session file, lease, `state.json` and seal are separate files written
one after the other by commands that may die in between; the lock of a session covers
one update of its file only.

| Model | Code |
|---|---|
| `sess[g]` | `guardian-v2/<id>.json`: `next` = `next_step`, `gate` = `active_gate` (`seen` is the evidence bound to it), `mapped` and `exact` = what MAP and EXACT_SOURCE recorded, `base` and `roll` = the baseline and rolling package, `patch` = the patch session, `closed` |
| `sess[g].patch` | `proven`, `avail`, `used` (the scope and its books), `active`, `resv`, `owned`, `ok` (transactions: active, reserved, ever bound, verified), `status` |
| `txn`, `lease`, `live`, `seal` | as in section 3, a package being a number in the order of existence and `Torn` while a transaction writes |
| `memory`, `task` | the canonical Memory and the active task, whose change stops a session (`SameMemory`, `SameScope`) |
| `proc[p]` | a running command: where it is, its transaction, the package it read, the receipts it was given |
| `receipt`, `evidence`, `bound` | the workflow receipt and the attempt review at an output path; `review/jev_workflow.json` of a transaction |
| `work`, `verified`, `rev`, `tree` | the candidate's version, `verified_work_package_sha256`, the running workflow, the running tomography |

`ReadPackage` is the beginning of every session command (verify the corpus, then wait
for the session's lock); `Enter`, `Inspect` (KAIROS binds its answer to the one open gate
it can be meant for) and `Advance` are the investigation, `Admissible` its evidence rules;
`Reserve`, `Manifest`, `Acquire`, `Bind`, `Materialise` are a guarded checkout, with
`CheckoutFails` and `Cancel`; `AssertRelease`, `Unlease`, `GuardRelease` and, for a stale
abort, `Invalidate` a release; `Reconcile` and its steps `guard-reconcile`; `Reframe`,
`PatchClose`, `FreshRun` the rest. `Kill`, `ForeignEdit` and `IdentityChanges` are the
environment.

`JevReview` puts the review beside it: `BeginReview`, `Gate`, `Answered`, `Weigh` and
`LowReceipt` are the attempt workflow, split at its two fingerprints of the candidate;
`BindReceipt` binds a passed receipt once; `AdmittedApply` is `Apply` behind
`require_candidate_jev_clearance` (`Clear`), `VerifyCandidate` the recording of what apply
compares; `Revise` is the author. `JevTree` is the work list of questions: take the worst,
look it up, ask again, split it, until depth, number or fan-out cut it off. A node carries
the question it asks (`q`) and each question has a kind: evidence, files, the regions of a
file and diagnostics are proposed for a node in the order of the code (`EvidenceChildren`,
`FileChildren`, `HunkChildren`, `DiagnosticChildren`), less those already asked anywhere
(`Unasked`), and of those the first up to the fan-out (`FirstOf`). An absent answer fails a
focused tree; one out of range is missing for the workflow and a number for the tree, so
the tree of such an attempt may also run (`Tomography`).

**Abstractions.** One kind of transaction and one kind of path; header and function
scopes, summaries, Memory passages and the hash chain of the ledger are left out. Of the
evidence, source inspections carry their package and paths; the other receipts are only
bound to their gate. A score is below or at the threshold (in the tree also an order
below it). One workflow runs at a time.

**`Guardian`** (passes) asks both questions in one run, told apart by the variable `about`
of `MCGuardianSession`: the Guardian from its beginning without the policy, with two
commands at once, two sessions, or two paths, and of the other two one; or the policy and
reviews of one candidate, from where one session has just checked out a transaction. Two
transactions are what books need to be wrong about; two packages beside the first allow a
second transaction on the result of the first, or a foreign edit between; one incident (a
kill, failure, foreign edit, or change of Memory or task) at any point. On the side of
the review, two output paths and two versions beside the checked-out one make a chain
with a revision; nine questions of every kind (`MCKind`) with limits of depth 2, nodes 5 and
children 2 make every limit bite. Sessions investigate one after the other.

- `ScopeConserved`: the books balance over any sequence of checkouts, failures and
  reconciliations, and no verified transaction is forgotten.
- `EvidenceFits`: a proven scope rests on lines read in its own package, and the session
  rolls on that package or on the result of a transaction of its own.
- `GuardedLiveTx`: a leased, unfinished transaction is the active one of exactly one
  session.
- `PublishedWasProven`: what apply publishes was proven by that session and not used up.
- `ClosedMeansDone`: a session closes on its last result, with nothing left behind.
- `AppliedWasReviewed`: under the policy, apply starts from a candidate that was verified
  and that Jev itself was shown and passed. Excepted is a candidate edited and edited back
  during one review, which two fingerprints cannot see.
- `ChainIsAuditable`: a continued attempt stays on disk, low, one iteration older, of the
  same transaction and of another candidate.
- `TreeAccounts`: a finished tree asks no question at two nodes; none it counts as asked is
  missing unless the fan-out cut it; a node that did not pass was split or is an open leaf
  with its reason, except children the node limit left no room for, which stay EXPAND.

All eight are also proved, for any values of the constants (section 9).

**`Guardian_limit`** (finding): `ADAPTIVE_PATCH_TOMOGRAPHY.md` ("Resource guard") wants a
result that a limit stopped to say `LIMIT_REACHED`. A child is queued only while the tree
is smaller than `max_nodes` (`jev_adaptive_patch_tree.py:1448`), and only what is queued is
marked at the end (1453-1456); when the last split fills the tree and nothing else waits,
no node says so. `LimitIsSaid` states the document's sentence, and the run shows it
violated.

What the run assumes, and the code does not enforce: a `guard-reconcile` starts when no
other command is half way (`ReconcileAfterCrash`; `GUARDIAN.md` keeps it for provable crash
windows). Started between the bind and the first save of a running checkout it takes the
binding of a live transaction away, after which every command of that transaction
refuses. What is reached and no property forbids: a kill between the two saves of a stale
abort leaves a session that can neither enter a gate nor reframe; a checkout refused after
its reservation leaves only a reframe; a bound receipt of a revised candidate cannot be
replaced, so that transaction can only be aborted; and Memory edited during an apply
leaves a published result in APPLYING until it is restored. A comment of the workflow
calls the reuse of the normal output path "safe continuation syntax"
(`jev_workshop_attempt_workflow.py:535`); a passing second attempt at a used path finds
its receipt in the way (`write_json` creates exclusively) and fails.
`CHECK_DEADLOCK FALSE`: an outdated session and used-up bounds leave nothing to do.

## 9. Proofs

`WorkshopTxn_proofs` proves `TypeCorrect`: `Spec => []TypeOK`. Types are not
inductive by themselves: including documents extends the baseline copy of a
transaction, and rollback and the operator read preimages, and both are "no value"
at first. The invariant adds `Backed`: a saved transaction has its baseline copy, a
process past `materialise` remembers one, and preimages exist from `permit` on and
in every transaction in APPLYING or RECOVERY_REQUIRED. A lemma for each form of
update carries the types; `CommandsTyped`, `StepTyped`, `EnvironmentTyped` and
their `Backed` counterparts have one step per action.

The same module proves `ApprovalsAlwaysBind`:
`Spec => []ApprovalsBindReview`, for any number of operators running any commands
at once. Because saves overwrite what others wrote, the inductive invariant
`Bound` speaks of every record that exists, saved or remembered by a process: a
verification names the prepared package, and that package was reviewed; a record
that is open again has no verification; a process in the shadow run remembers a
reviewed package; a process that applies remembers a verified record. The theorem
covers what the run `Txn_race` shows for two processes.

`MaintenanceTxn_proofs` proves, for all five kinds, any set of units, any targets
and any number of failures, edits and reseals: `MaintenanceTypes` (`TypeOK`),
`CandidatesAreOwned` (`CandidateIsOwned`), `SealsAreVerified` (`SealedIsVerified`),
`ForwardOnly` (`OnlyForwardAfterHeartbeat`) and `MaintenanceIsSerial`, the refinement of
`SerialChange`. None of the properties is inductive: what a step may do follows from
the place its command has reached *and* from what `state.json` says by then, since a
failed save leaves either the old or the new record. `Inv` is
`TypeOK /\ Control /\ Owned /\ Sealing`: `Steps` ties program counter, mode and saved
state, `Leased` and `Provided` say what a command holds at that place, `Boundary` that
nothing is written or undone after the heartbeat, `Owned` where candidate bytes may be,
`Sealing` what a package about to be sealed is. The proof has a lemma per part, one
step per action.

`TxRecycling_proofs` proves `MovesArePlanned`: `NothingMovedUnplanned`, for any number
of processes, directories, events, crashes and edits. The invariant is
`Processes /\ Planned`: `Processes` gives every command its shape (its steps come
with the records they use), and `Planned` says where a verified archive can be counted
on: for the subject of a process about to write its plan, and for the plan on disk
while a process moves directories. All steps that leave the archives, the plan and the
directories alone are dealt with by one lemma (`ElsewherePlanned`).

The other theorems of that module suppose `[]OneAtATime`: no process starts a command
while another is inside one. `ObligationsAreCovered`, `ReviewedOnce`, `DeletedIsArchived`
and `CheckoutsFindAcknowledged` state the properties of the run; `OutboxIsALog` is the
refinement of `EventLog`. The invariant `OInv` has four parts beside the first one: `History` (the
saved record and both sides of every intent are ordered histories of events minted so
far, an intent continues its prior state by one event, the checkpoint is in the log),
`OneDecision`, `Archives`, and `Fits`, which says for each place of a command what it can
rely on: that what it loaded is still what is saved, that the event it is about to commit is in an
intent that starts at the saved state, that a decision starts from a transaction with
nothing pending. A step then either leaves record and checkpoint, or extends the record by one
event, or moves the checkpoint to its end (`LogSteps`). That the next sequence number exists needs the greatest
element of a bounded set of numbers, which comes from the well-foundedness of `<`
(`HasLeast`, `HasMax`).

`GuardianSession_proofs` proves `EvidenceIsCurrent`: `Spec => []EvidenceFits`, for any
number of sessions, transactions, commands, paths and incidents, and without
`ReconcileAfterCrash`. Two orders carry it. Packages only get newer, and a command knows
no receipt younger than itself: a receipt it presents that is still current names the
package it read at its start (`LinesOfPackage`). And a verified transaction is never
written again, because every save starts from another state. The invariant `Inv` has six parts:
`Sessions` (each session file and its books), `Commands`, `Corpus` (a torn corpus leaves
room for one more package), `Transactions`, `Births` (one command brings a transaction to
life) and `Tearing` (one transaction tears the corpus, from the newest package). Lemmas
for each form of step (`Moves`, `Writes`, `Saves`, `Settles`, `Renews`) leave one short
lemma per action.

The other four suppose `[][ReconcileAfterCrash]_gvars`: `BooksBalance` (`ScopeConserved`),
`LiveIsGuarded` (`GuardedLiveTx`), `PublishesWhatWasProven` (`PublishedWasProven`) and
`ClosesWhenDone` (`ClosedMeansDone`). `Tidy` adds to `Inv` the balanced books (`Books`), that
whatever has been saved and has not ended is held by exactly one session and lies within what
that session has available (`Requests`), what every command half way counts on (`Places`:
who writes the first save still holds the transaction, a reservation that is still one's own
still covers the request, who releases a transaction knows that it ended) and that nobody
cancels what is about to be saved (`Apart`, the only part that needs the hypothesis).
`Closing` adds what a session that may close has behind it: no reservation outlives its
step, the lease is for what is active, a release comes after the lease is gone, and results
get newer, so the last one to be charged is the package the session rolls on.

`WorkshopSerial_proofs` proves about the lease. `CheckoutsExclude` (`OneCheckoutAtATime`)
holds for any number of operators. The others are for operators whose commands take turns,
`CommandsInTurn`: a process starts only while all others are idle. They are
`LeaseCoversMutation` (`UnfinishedHoldsLease`), `ReceiptsBacked` (`ReceiptsAreBacked`),
`WritersHoldLease` (`LiveWriterHoldsLease`, which the run `Txn_writer` refutes without the hypothesis), `EndIsFinal`
(`EndedIsFinal`) and `CommandsAreSerial`, the refinement of `SerialChange`
(`ChangesSerially`). Their invariant `InTurn` ties the record a process remembers to the
saved one, and both to the lease.

`WorkshopBaseline_proofs` goes on from there to the bytes, for commands in turn and an
author who edits only between them (`QuiescentAuthor`; without it `Txn_author` refutes
the first theorem).

- `SealsWhatWasVerified` (`SealedWasVerified`) needs no more than that: foreign writers
  and heartbeats may fall between any two steps. Its invariant `Steady` says that what a
  process remembers of baseline, scope and package is what is saved, that the work
  directory a process applies still is the verified package, that the hash about to be
  sealed is of those very bytes, and that a prepared package differs from the baseline in
  every file it names. The last part is why a postcheck cannot pass on a corpus that
  nothing was copied to.
- `PreimagesHold` (`PreimagesAreBaseline`), `PermitsEnd` (`NoPermitOutlivesApply`),
  `RolledBackUntrusted` (`RolledBackIsNotTrusted`) and `EndsOnlyAtBaseline`
  (`EndedAtBaseline`) also suppose `NobodyElseWrites`: live files change by commands and
  by the operator who repairs a recovery. The four need each other. A rollback is
  declared when corpus and projection equal the baseline *and* the permit could be
  revoked; a permit is spent by the heartbeat that promotes the first changed file; and
  only a result with a spent permit is sealed. So `Base` follows the owner of the
  lease: before apply, corpus and projection are the copied baseline; while it is
  APPLYING or in RECOVERY_REQUIRED the preimages are that baseline, files out of its
  targets are untouched and, as long as its permit is active, nothing has been promoted
  (`TxnBase`); `Ending` says what seals and final states exclude; `Works` says for
  each place of a command what is restored, written or clean by then; and when no
  mutation is unfinished, the corpus is clean and projected. The proof has a lemma per
  command, step and event of the environment (`CommandsBase`, `StepBase`, `NextBase`),
  on a few lemmas for the forms a step takes.

What a foreign writer would break is said in section 3: the code compares no live file
before it captures or restores it.

`JevReview_proofs` proves `AppliesWhatPassed` (`AppliedWasReviewed`), `ChainStays`
(`ChainIsAuditable`), `TreeIsAccounted` (`TreeAccounts`) and `ReviewImplements`, for
`ReviewSpec`, the composition from its beginning; the run starts its reviews from a
transaction just checked out. `ReviewImplements` says that `ReviewSpec` implements the
specification of `GuardianSession`, so the theorems about that module hold of it too. The
invariant of the tree says of every step what a finished tree promises - statuses, depths,
children and the work list agree - and that its nodes are named by different questions, all
of them among the asked ones (`Named`); `Grew` says what a split adds to both.

`KairosLoop_proofs` proves all five properties of the KAIROS run, for any number of loops,
revisions, permits and incidents, without the constraint `Calmer`: `SeenHasBeenPromoted`
(`SeenIsPromoted`), `QuarantineIsNotProjected` (`QuarantineHoldsBack`), `SealIsMadeClosed`
(`SealIsClosed`), `LoopsOnlyAdvance` (`LoopsAdvance`) and `ArchivesAreKept`
(`ArchiveIsKept`). The invariant is `TypeInv /\ Promotion /\ Sealing /\ Quarantined`.
`Promotion` follows bytes through a heartbeat, from the scan to the manifest, and says for
each place which documents are stored, read or raced; `Sealing` says what a
finalization knows at each of its durable writes and what survives its death; `Quarantined`
says that a decision of the guard in progress speaks of the bytes it saw. `ArchivesAreKept` adds
`Archives` and supposes `HandsOff`: people edit tasks, not archives (an archive somebody
edits by hand is quarantined and can be promoted over the old one).

Assumptions: `ConstantsOK`, `NoneIsNoPackage`, `NoneIsNoCopy` and `DocsApart` of WorkshopTxn, `MaintenanceConstants`
of MaintenanceTxn, `OutboxConstants` and `NoEventIsNone` of TxOutbox, `RecyclingConstants` of TxRecycling,
`KairosConstants` of KairosGovernance, and `GuardianConstants` and
`NoneIsNoPatch` of GuardianSession (the "no value" markers are
different from values, in `NoneIsNoCopy` from copies of the files, in `NoneIsNoPatch` from
patch sessions; a document is not a file of a source; bounds are naturals; the
steps of an investigation contain the four that gate the proof), which TLC evaluates on
every run.

The hypotheses on behaviours are not assumptions about the code. Without turns the
statements are false, as `Txn_race`, `Txn_writer` and section 5 say; the theorems show that overlapping commands
are the only reason.
Each inductive invariant was checked by TLC on its run before it was proved (`Steady` with and without
foreign writes); those of the outbox and the lease also with two processes in turn.

Only model-checked: liveness (`CommandsEnd`, `PostcheckIsAcknowledged`,
`CompletedTargetRecovers`, `OutboxDrains`, `InterruptedApplyEnds`), which is out of the
prover's reach.

## 10. Not modelled

The recycling pool's choice of candidates; KAIROS goals, bootstrap and the content of
backups; Guardian scopes finer than a path, its summaries and hash chain; the scientific
gate, transport and credentials of the JEV review. Left out for good: parsing and rendering
of documents, search, graph and health reports, the survey and index scripts, and what the
external model answers - sequential code or outside services whose results the modelled
checks consume as a verdict.
