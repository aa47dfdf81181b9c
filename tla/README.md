# Formal models of the FH2M driver project

This directory holds TLA+ models of the programs in this repository that carry
state across failures or between processes: the tools that generate, commit and
restore the project's evidence and vendor trees, the sessions that record what the
observation kernel does, the moves and deletions an operator approves, and the build
of the package from the vendor payload. The models are translated from the source, checked
with TLC on small instances, and the most important statements are proved with
TLAPS for every value of the constants.

`PROJECT.json` is the index: which component is modelled by which module, which
lines each definition stands for, what each run checks, which change of the code
each property would notice, the findings, the hazards and the theorems.

    tlc -workers 2 -config MCOStageCommit_faults.cfg MCOStageCommit
    tlapm OStageCommitProofs.tla

## 1. Inventory

The repository packages a proprietary GPU driver. Its own logic is in `tools/`: a
set of Python and shell programs that an operator runs one at a time on a Debian or
Gentoo machine. Few of them run concurrently; what is hard about them is what they
leave behind when they stop half way. They talk to each other through files: the F0
lock feeds the materialisation of the O stage; the payload integrity table vouches
for the vendor tree that the restore rebuilds; the observation kernel feeds the
measurement session, which writes a file that an upload service keeps.

### Commit engines

| Component | State | Operations | Interacts with |
|---|---|---|---|
| O-stage materialisation (`tools/materialize-o-stage.sh`) | five artifacts, each with a `.txn.tmp` and a `.bak.tmp`; `.materialize.journal`; `.materialize.lock` | build, stage, back up, commit, publish, clean up; recover by journal state; roll back | reads the F0 lock and the patch chain; the release build reads the artifacts |
| Payload integrity, `gen` (`tools/internal/r16-f-payload-integrity.py`) | manifest, sidecar and JSON table, backups, staging files, journal | recover residue, check, stage, back up, commit, clean; `verify` only reads | the table is what the restore checks the tree against |
| Payload integrity, `restore-fantgpu-payload` (same file) | current, transaction and old vendor tree, restore journal, restore lock | scan and resolve, extract, swap in, clean | reads the archived package, writes the tree the driver build reads |
| D-stage audit, snapshot (`tools/internal/d-stage-audit-gen.py`) | tarball and sidecar, `.txn` with journal, backups and staging, tombstone, lock | recover forwards, build, compare, back up, commit, self-check, clean; roll back | the D-stage manifest and audit tables come from the same tree |
| F0 lock (`tools/internal/o4-f0-lock-gen.py`) | snapshot and sidecar, their backups and staging files, genesis record, manifest | `manifest`, `snapshot`, `verify` | read by the O-stage materialisation |

The five solve the same problem in five ways: with a journal that is rolled back,
with one that is rolled back under validation, with a write-ahead truth table, with
one that is rolled forwards with fsync barriers, and with no journal at all. What
makes each correct:

* nobody can mistake a half-written set for a finished one;
* the previous generation is not lost before the next one is complete;
* whatever a failed or killed run leaves, the next run can explain, or it refuses
  and touches nothing;
* running the tool again succeeds in the end;
* what a run reports (published, rolled back, restored, recovered) is the case.

The hard behaviours are failing system calls in every step, in the rollback and in
the recovery included; kills between any two steps; residue a swallowed failure leaves
for a run much later; and, for the D stage, power loss on file systems that keep
more or less of the order of operations. Two runs at once are excluded by locks in
three of the five; `gen` and the F0 lock have none.

### Observation

| Component | State | Operations | Interacts with |
|---|---|---|---|
| Allocation meter, kernel side (`METER_SOURCE` in `tools/internal/prepare-r5-observation.py`) | ring of records, head, tail, sequence, lost counter, phase, active and finished flags, one opener | allocation events, also from an NMI; open, read, ioctl mark, release | read through a character device |
| `meter_session` (`tools/internal/r5-observation.py`) | current read, parts of a block, deadlines; a bounded queue; the writer thread's block; the output file | read, mark, queue, write, fsync, join with a deadline, verdict | operator at standard input, kernel device, disk |
| `meter_check`, analysis and budgets (same file) | none | replay of records, object and page bookkeeping, bounds on memory and events | reads the file |
| Kernel trace exporter (`EXPORT_MODULE` in `prepare-r5-observation.py`) | ring per CPU, packet under construction, loss counters | load, drain with quotas, statistics once a second, leave | sends numbered UDP packets |
| Receiver (`WINDOWS_RECEIVER`, same file) | open capture, budget, finished sessions | receive, flush, announce, stop | writes the capture that is checked and uploaded |
| Semantic emitter (`SEMANTIC_EMITTER` and its tables, same file) | census of the devices, dictionary, open calls, completion generations | census, invalidation, begin and end hooks, auxiliary records | called by the hooks the overlays put into the PM core |
| Checks of a capture (`check_stream`, `semantic_wire_check` in `r5-observation.py`) | none | order and completeness of packets; pairing of records | read the capture |
| Upload service (`tools/internal/r5-observation-upload.py`) | one attempt directory with capture and receipt | POST, judge, receipt, answer | stores what a session wrote |

What makes the session correct: a measurement that counts as complete has every event
between its first and last mark, a verdict is only given on bytes that are on the disk,
records are neither dropped nor repeated in silence, and the session ends even if the
operator is silent and the disk hangs. The hard part is concurrency: allocation on any
CPU and in NMIs against a read that leaves the lock in the middle, two threads with a
bounded queue between them, and a kill at any point.

What makes the trace correct: a capture is called complete only when it holds every
record that was produced, and a session nothing disturbed is called so; a receiver
announces only what is flushed; an upload that was answered 200 stays. For the semantic
records: the census that records refer to is current, a capture called
`SEMANTIC_RECORDS_PAIRED` left nothing out and attributes every wait to the right
completion, an undisturbed one gets that verdict, and no hook keeps a suspend cycle from
ending. Hard here: overwritten rings, lost and swapped datagrams, a topology that changes
in the middle of the census, asynchronous workers, a completion that is reset under a
wait, and an envelope that is used up between a begin and its end.

### Installation, storage, packaging

| Component | State | What makes it correct |
|---|---|---|
| DRI node repair installer (`tools/debian/install-dri-node-repair-service.sh`) | unit file, helper link, convenience link, enable state, backup | a failed installation leaves everything as it was, foreign files untouched |
| Hygon HDA audio installer (`tools/debian/install-hygon-hda-audio.sh`) | six files with backups, two units, a PipeWire file moved aside | as above; uninstall restores what was replaced |
| Storage moves (`tools/debian/r50-storage-task4.py`, `-task5.py`) | the objects on the disk, an inventory of them, the receipt of an approval, the hash record of a deletion | a migration that reports a pass has every object at its target as it was approved; a clean-up deletes only what was approved and recorded; both may be killed and repeated (they open the approved manifest twice, see section 5) |
| Payload manifest and materialisation (`tools/internal/gen-fantgpu-manifest.py`, `materialize-fantgpu-payload.py`, and the order in which `tools/debian/build-driver.sh` runs them) | audited list, manifest, vendor tree, snapshot of the kernel sources, patches of the checkout, package tree, trace of what was installed | the payload in a finished package is exactly what the manifest selects, and its sources are the reviewed ones with the patches that were compiled, whatever is replaced between the steps |
| Kernel module installation (`tools/debian/install-kernel-patches.sh`, `build-` and `rollback-linux-patched-modules.sh`) | modules, backups, DKMS state | rollback brings the distribution's module back |
| Package build and maintainer scripts (`tools/debian/build-driver.sh`, `generate-fantgpu-maintainer-scripts.sh`) | package tree, dpkg states | every state dpkg can call a script in is handled |
| Backport map, classification, gate (`tools/internal/r16-build-bc-map.py`, `r16-classify.py`, `r16-gate.py`) | tables | each patch is classified once, the gate agrees with the table |
| Payload integrity checks A to G, D-stage audit tables, licences, release archive, documentation checks | none kept between runs | set comparisons and digests |
| Probes, diagnosis scripts, Gentoo tools, suspend evidence, driver patches, desktop components | hardware, services | outside the sources, or single commands run by hand |

Hard here: each tool looks at the disk, asks, and acts on what it saw, with others
free to change it in between; the tools themselves take no lock against a second run.

`PROJECT.json` lists every component with its status and the reason where it is not
modelled, and under `hazards` what is hard to test, at its line.

## 2. The modules

| Module | Models | Extends / instantiates |
|---|---|---|
| `OStageCommit` | the five-artifact transaction and its recovery | instantiates `GenerationStore` |
| `LockFile` | flock on a lock file, under the two disciplines of the tools | |
| `PayloadRestore` | the swap of the vendor tree and its truth table | |
| `GenerationStore` | what a commit engine promises, as an abstract specification; four engines are shown to implement it | |
| `TrioCommit` | the three-artifact transaction of `gen` | instantiates `GenerationStore` |
| `DStageSnapshot` | the pair transaction with fsyncs and power loss | |
| `F0Snapshot` | the pair transaction without journal | |
| `MeterSession` | kernel journal, reader, writer, operator, verdict | |
| `TraceExport` | the exporter in the kernel: load, worker, leave | |
| `UploadService` | one upload, step by step, with kills and power losses | |
| `TraceStream` | network, receiver, check of a capture; the whole way of a record | extends `TraceExport`, `UploadService` |
| `SemanticCheck` | the verdict over the semantic records, as a fold | |
| `SemanticEmitter` | census, dictionary, hooks, completion generations | extends `SemanticCheck` |
| `SemanticFlow` | one suspend cycle of the PM core with the hooks in it | extends `SemanticEmitter` |
| `StorageApproval` | objects, inventory, receipt, what others change | |
| `StorageMove`, `StorageCleanup` | a run of task 4, a run of task 5 | extend `StorageApproval` |
| `StorageTasks` | both tasks, several runs at a time | extends `StorageMove`, `StorageCleanup` |
| `PayloadManifest` | audited list, generation of the manifest, what others replace | |
| `PayloadBuild` | one build of the package from validation to the last check | extends `PayloadManifest` |
| `MC<module>` | constants of a run, and for four runs the reductions or bounds of its own | its module |
| `OStageCommitProofs`, `TrioCommitProofs`, `F0SnapshotProofs`, `TraceStreamProofs`, `StorageTasksProofs` | inductive invariants, lemmas and theorems | the module named and TLAPS |
| `DStageSnapshotProofs` | the same for the D stage and its lock | `LockFile`, `DStageSnapshot`, TLAPS |
| `PayloadProofs` | the same for restore and build of the payload | `PayloadRestore`, `PayloadBuild`, TLAPS |
| `ObservationProofs` | the same for meter and semantic records | `MeterSession`, `SemanticFlow`, TLAPS |

Common to the commit engines: a *file* is abstracted to the generation its bytes
belong to, because the tools only ever ask whether bytes are equal or digests agree,
and their output is deterministic. `pc` is the place in the program; every system call
that changes the disk is a step of its own, so that a kill falls between any two.
A failing call is an action that does what the handler does. `faults` counts failures
and kills and bounds them; a *history* variable (marked as such) is not part of the
program but remembers something a property needs.

### OStageCommit

`dest[n]`, `bak[n]`, `txn[n]` are the three files of artifact `n`, `journal` the state
in `.materialize.journal`. `Start` to `Recover` is the entry (`MustRefuse` and `Route` are its
branches), `CleanTxn`, `CleanBak`, `Restore`, `FinishJournal` what recovery does,
`Begin` to `Commit` the transaction, `RollBack*` the failure handler, `Publish`, `Cleanup`,
`Drop` the end including the shell lines after the inline program. `had` is the code's
set of artifacts that existed before the backup. A torn staging file is `Torn`. `Store` is
the generation the directory stands for: what the running process, or the recovery of the next one, would make of
it. `harm` remembers what the code does not survive: a backup that could not be unlinked, a recovery
that failed, and a kill or a failed journal write where the process is `Exposed`, that is in the backup loop, before the first
new artifact is in place, before the rollback has its journal, and in the middle of a restoring recovery.

### LockFile

An inode and a path are different things: `path` is the inode the name refers to, `fd[p]`
what run `p` has open, `holder[i]` the run that has the kernel's lock of an inode, `phase[p]` the place of a run, `owner` the
run whose transaction the journal describes. `removing` chooses between the
discipline of `materialize-o-stage.sh` (journal and lock file are removed after the
unlock) and that of the other two (the lock file stays). A run may die anywhere.

### PayloadRestore

Three trees (`cur`, `txn`, `old`) that are absent, valid, drifted or partial, and a journal of
five states with the flag `pre_existing`. `Scan*` is `_restore_scan` with its truth table
(`InTable`, `PutBack`, `KeepCurrent`, `KeepNew`, `DropTxn`), which also runs inside the
failure handler (`inrun`). `Drift` damages a valid tree between runs, which is what the
restore is for. `Unresolved` is an interrupted transaction that rests on a tree that does not match the
manifest: the scan refuses it, run after run.

### TrioCommit and GenerationStore

`path`, `bak` are the formal files and backups, `temp`, `stray` the staging files of this run
and of earlier ones. `Recover` branches on the journal; `Settle*` finishes a committed
transaction, `Validate` and `Undo*` are `_restore_old_generation`, used by recovery and by
the failure handler. `Store` maps a state to the generation the directory stands for. `hurt` becomes true when
backups are left for a later transaction to meet (the code warns and goes on).

`GenerationStore` has the generation the directory stands for (`store`), the one the transaction under way has staged
(`target`) and `hurt`. Only `Publish` changes `store`, and only to `target`; failures, kills, recoveries and rollbacks are
stutters. Once `hurt`, anything may come back (`Lose`). With `Wrecks` the step that hurts may lose the generation at
once: `gen` does not need it, the other engines have windows that do (`harm`, `upset`, `scarred`).

### DStageSnapshot

The disk is two directories: OUT_DIR (`top`: the pair and whether `.txn` or its tombstone
exists) and `.txn` (`box`: backups, staging, journal). `disk` is what processes see, `lag` the set of disks
a power loss may leave. A change adds to `lag`; an fsync removes from it. On an
`"ordered"` file system `lag` is a suffix of what was done; on a `"torn"` one each directory
may be at a moment of its own. Bytes that have not been fsynced (`hard`) do not
survive. The tables `Persisting`, `SyncingTop`, `SyncingBox`, `Removing` are the order of the
code's steps, `Facts`, `Invariants`, `Fingerprint`, `Accepts` the checks recovery makes before it
acts, `Resume` where each journal state leads. `Damage` is a foreign writer.

### F0Snapshot

`formal`, `bak`, `tmp` hold the pair, its backups and its staging files, `genesis` the
snapshot the record names. `Plan` is `recover_interrupted`; the commit point is `Record`. `Open` and
`Rewrite` are what `manifest` and `verify` do to the record in place. `upset` remembers what the tool does not
claim to mend: a swallowed failure in the rollback, a failed undo, a record that
was rewritten, a kill outside `Mended`.

### MeterSession

The kernel's ring (`log`, `head`, `tail`), sequence and lost counters, and its flags;
`Emit` and `EmitInNmi` are allocation events; `Copy` and `Advance` are the two halves of
`r5m_read` around the copy to user space. `Loop`, `Put`, `Control`, `Join` are the reader, `Get`, `Write`, `Sync`,
`LastBlock`, `Final` the writer thread, `Enter` the operator. Sizes are counted in
records.

### TraceExport, TraceStream and UploadService

`ring`, `dropped` are the per-CPU buffers and their counters, `work` the counters of one pass of the
worker (`Burst`, `CpuBurst` and the empty visits bound it), `out` those of the stream, `net` the
packets under way, `sent` (history) every packet of a session in the order it was sent. `Load` is `export_init` with the conditions it admits; `DrainStart` to
`DrainStat` the worker; `Unload`, `Cancel`, `FinalStat`, `Count`, `End` are `export_exit`. `Emit`, `Toggle`, `Foreign`,
`Invalidate`, `Memory`, `Crash`, `Boot` are the kernel and the operator around it. A record is its number on
its CPU and whether it fits a packet; the clock is a choice.

In `TraceStream` the network loses, repeats and swaps (`Disturb`); `Receive`, `Deadline`, `Finally` and
`ReceiverDies` are the receiver; `Complete` is `check_stream`'s `transport_complete`, over the packets of a
capture. `UploadService` has `save_upload` and `durable_json` as one step per call that reaches the disk (`SyncRoot` to
`Acknowledge`); `durable` says which directory entries are sure to survive, `synced` how many blocks.

### SemanticEmitter, SemanticCheck and SemanticFlow

`state` is `r5_state`; the census is `EnterCensus`, three walks and `RejectCensus` or `AcceptCensus`, and
`Mutate` a change of the topology with the hooks before and after it. `Begin`, `Entered`, `End`, `AuxProgress`,
`AuxDecision` are the hooks; `gen` and `resetting` the completion generations. A call is named by
its task and the place of its begin hook, which stands for the ID of the atomic
counter. `SemanticCheck` keeps of a capture what the verdict needs at its end (`Entry`, `ExitRecord`,
`Auxiliary`, `Coverage`). `SemanticFlow` writes what the overlays make of the PM core as *programs*: sequences of hook
calls and completions per task (`Prepared`, `PhaseBody`, `WorkerPhase`, `MainProgram`), with asynchronous
workers, and a driver outside the cycle (`BystanderProgram`) that probes or waits. `omitted` and `unreal` are history.

### StorageApproval, StorageMove, StorageCleanup and StorageTasks

`disk` gives for each place its content, a set of files that stand for a name with
bytes and metadata. `Survey` reads one object at a time; `Confirm` writes the receipt; `Change`, `Upset`, `Rewrite` are
others. A run compares the digest of the manifest in `Admit`, `Audit` or `AdmitCleanup` and opens the file again in `ReadRows` or
`ReadCleanupRows`; from then on it goes by `read`, and `rewritten` (history) says whether somebody rewrote the manifest in
between. A run of task 4 looks at source and target, identifies, renames and
verifies in steps of their own; a run of task 5 compares, hashes, lists and unlinks file by
file. `late` (history) is what others put to a place after a run had compared it;
`recorded` is `deletion-files.sha256`; `strays` (history) what was deleted without right.

### PayloadManifest and PayloadBuild

A list, a manifest and a tree are functions from paths to contents; `Policy` is the classification
table and `Selection` the part of a manifest a preset gets. `CheckSidecar` to `ReplaceManifest` is the
generator. The build reads the manifest in `Census`, in `StartMaterialize` and in `VerifyTrace`, unpacks the snapshot in
`Compile` and again in `UnpackShipped`. Each of the two source trees goes through `Derive`, which compares digests before and after
(one patch, `Gated`, lies between them), and then gets the patches of `Late`, one by one, as they are in the checkout at that
moment (`PatchCompiled`, `PatchShipped`), with no digest behind them; `CheckCompiled` and `CheckShipped` search for the
marks of some. An edition of a patch may apply or not, build or not, and leave its marks or not. `Others` are a new
audit, a restore that moves the vendor tree away and in, an editor of the tree or of a patch, a new O stage. `edited`
(history) has the patches edited since the compiled tree got them.

## 3. What the runs check

| Run | States | Shows |
|---|---|---|
| `MCOStageCommit_faults` | 330,534 | five artifacts, two generations, three faults anywhere; refinement of `GenerationStore` |
| `MCLockFile_runs` | 1,303 (with symmetry) | three runs, both disciplines, kills and restarts |
| `MCPayloadRestore_faults` | 1,446 | any initial tree, drift, four faults |
| `MCTrioCommit_faults` | 12,968 | two generations, four faults; refinement of `GenerationStore` |
| `MCDStageSnapshot_faults` | 60,172 | both kinds of file system, four faults or power losses |
| `MCF0Snapshot_faults` | 5,588 | two snapshots, three faults or rewrites of the record |
| `MCMeterSession_runs` | 183,531 | ring of two, queue of one, two sessions |
| `MCTraceStream_runs` | 701,337 | two CPUs, two sessions, every fault of network, receiver and service |
| `MCSemanticFlow_runs` | 196,098 | a device and its asynchronous child, one disturbance anywhere |
| `MCStorageTasks_runs` | 347,468 | each task; two runs at a time and a kill or a change by others, or one run and two of these |
| `MCPayloadBuild_runs` | 606,695 | two presets, four lists, four editions of each patch, three changes and kills |
| `MCOStageCommit_lost` | | a promise of a document that the code does not keep (section 5) |

Properties, by module:

* **OStageCommit**: `SettledIsWhole` (no journal, or a committed one, means one generation or
  none), `HarmlessKeepsOldSet` (the old set survives every failure and kill that does no `harm`),
  `KeepsGeneration` (refinement), `SceneIsPreserved` (no later run touches a scene with a failed rollback), `Converges`.
* **LockFile**: `LocksExclude` (one run inside if the lock file stays, one per inode if it is
  removed), `KeptLockGuardsJournal` (with a file that stays the journal on disk is that of the run inside).
* **PayloadRestore**: `TreeSurvives`, `ScanExplainsScene` (the truth table is complete), `Converges` (runs end, over and over,
  with a pass and the manifest's tree, a drifted current tree replaced; only an `Unresolved` transaction stays).
* **TrioCommit**: `KeepsGeneration` (refinement), `SettledIsWhole`, `RecoveryExplains`, `Converges`.
* **DStageSnapshot**: `Explained` (what a power loss leaves, the next run accepts), `KeepsAPair` (a whole pair
  can be made from what a power loss leaves), `ReportIsDurable` (what exit 0 and exit 1 report
  outlives a power loss), `UnknownIsKept` (foreign content is never deleted, moved or
  overwritten), `Converges`.
* **F0Snapshot**: `EvidenceKept` (the snapshot that was last committed is never lost), `Converges`.
* **MeterSession**: `ReplayedIsComplete` (a journal that passes has every event between its marks),
  `VerdictIsDurable`, `Terminates`.
* **TraceStream**: `CompleteMeansAll` (a capture called complete holds every record of every CPU, once
  and in order), `CleanIsComplete` (an undisturbed session is called complete), `AnnouncedIsDurable`,
  `UploadIsKept` (what was answered 200 outlives kills and power losses), `ExitEnds` (rmmod ends).
* **SemanticFlow**: `CensusIsCurrent`, `PairedOmitsNothing`, `PairedIsReal` (a paired verdict has every boundary, and
  attributes each wait to its generation), `CleanIsPaired`, `CycleEnds`.
* **StorageTasks**: `PassMeansApproved` (a run that passes has every object at its target with the identity it has read, unless others
  changed it after the check, and has read what was approved, unless the manifest was rewritten between digest and reading),
  `DeletesApproved` (a clean-up deletes only what it has read and recorded, with the same exceptions), `MoveConverges`.
* **PayloadBuild**: `ShipsTheSelection` (the payload part of a finished package is what the manifest of its verification selects),
  `ShipsWhatWasCompiled` (its sources are the reviewed ones with the patches, in the editions that were compiled, unless a
  patch was edited between the two readings), `BuildConverges`.

The invariants of the proofs (`IInv` and its like) stand in the proof modules. TLC checked them with the constants of
these runs before they were proved, and so it checked the refinement of `GenerationStore` by `F0Snapshot` (three snapshots,
three faults) and `DStageSnapshot` (three snapshots, three faults, both file systems); the runs do not repeat them.

### Bounds, and why they are enough

*Generations*: two. The code compares generations for equality only, and a
run meets at most the generation in place and the one it builds; a third can only be
in a backup or a stray file, which two generations already make "other than both".
*Artifacts*: five, the code's number, and three and two in the other engines.
*Faults*: every interesting case is a failure or a kill followed by one in the
handling of it, and sometimes by one in the next run's recovery: three. `PayloadRestore`,
`TrioCommit` and `DStageSnapshot` are small enough for four. Runs are not bounded.
*Lock file*: three runs and four inodes (one more than the descriptors that can be
open), so that one run can hold the old inode, one the new and one start.
*Meter*: a ring of two records with reads of two makes overflow, a full batch and
wrap-around happen; one queued block makes the queue overflow with one block waiting
and one being written; marks M0, M1 and END are the first, a middle and the last;
two events are enough to lose one and keep one; a second session meets what the
first left in the kernel.
*Trace*: a ring of one record on two CPUs with two records is enough to overwrite one
and keep one; two records in a pass exhaust `Burst`, one `CpuBurst`. A second session that produces no
records is enough for two sessions to follow or meet each other. One fault: a breach of the
profile, a fault of the network or of the receiver. `MCTraceStream` orders steps that commute:
nothing the receiver does reaches the exporter and a packet waits as long as it takes, so the
exporter goes first, then the receiver; the upload comes last, from a complete capture.
*Semantic*: two devices, one the asynchronous child of the other, and one resume phase (the
phases before it differ in the direction of the waits only); two generations and two
prepares reach their limits. One disturbance per behaviour: a change of the topology, a
bystander, a full envelope or refusal, a repeated prepare. `MCSemanticFlow` keeps changes and
the end of the recording to the joints of the cycle (`Calm`), and takes at once the steps that
no other task can tell from the ones before (`Prompt`). The bystander comes in ordinary resume, in a
recording whose dictionary is on the wire.
*Storage*: two objects and an empty directory between them, or two candidates; two files
tell "all", "some" and "other" apart; two runs with one kill or one change at any step (in task 5 one of each, since kills leave a deletion half done), or one run with
both. A change of an object and a rewrite that hides it take two changes: `Within` of `MCStorageTasks` has them with one run
and no kill. One task per behaviour: the tasks share only the form of the approval.
*Payload*: a path of every policy, a forbidden one and an unclassified one; lists that differ in a path and in a
content; three changes are one between each pair of the three readings of the manifest. Three of the four patches behind the
gate: m-051 stands for m-036 too, no mark of which is searched for either; m-052 has a mark in the package only, m-054 in
both trees. Four editions: the reviewed one, another good one, one without the marks that does not build, one that does not
apply. `Within` of `MCPayloadBuild` admits three changes and kills together and counts the first edit of a patch twice: that leaves one before
each of the two readings. Edits come with the default preset only; nothing a preset chooses reaches the sources.

### Fairness, and why the code justifies it

* The commit engines assume `WF(Start \/ Run)` (`F0Snapshot`: of its steps and of the next
  run separately): a process that is not killed goes on, and the operator runs the tool again, as the
  messages of every tool ask him to. Faults are never fair, and finitely many
  (`MaxFaults`), so liveness says "once failures stop". `TrioCommit` adds `SF` on the checks
  passing: they depend on the source tree, which is outside the model.
* `MeterSession` assumes weak fairness of the reader (it is scheduled) and strong fairness of the deadline (the
  clock advances whenever the loop looks at it); the writer may hang for ever, the operator
  may be silent, the kernel may be busy.
* `TraceStream`: weak fairness of the worker and of `export_exit`, which the kernel schedules; the
  network, the receiver and the operator owe nothing.
* `SemanticFlow`: weak fairness of each task that can go on, of the loading of the
  emitter and of a change that has begun (its hooks stand in one function); nobody has to switch the recording. In the
  run it is enough that some such step is taken.
* `StorageTasks`: weak fairness of the steps of a run and of the operator's repeating a run that failed, strong
  fairness of his applying the approval (he may audit first, as often as he likes).
* `PayloadBuild`: weak fairness of build and generator and of repeating them; `BuildConverges` asks for a pass only
  when the inputs come to rest and agree.

`CHECK_DEADLOCK` is off in the last five, which end: after the last session, cycle, run or
build nothing is left to do. The runs of the commit engines and of the lock check for deadlock.

## 4. What is proved

Proved with TLAPS, from the assumptions named in the modules (the sentinels are no
generations, the bounds are naturals, there is at least one artifact):

| Theorem | Property | For every |
|---|---|---|
| `OStageCommitProofs!TypeCorrect` | `TypeOK` | number of artifacts, generations, faults |
| `OStageCommitProofs!SettledSetIsWhole` | `SettledIsWhole` | same |
| `OStageCommitProofs!RollbackSceneIsPreserved` | `SceneIsPreserved` | same |
| `OStageCommitProofs!FailedTransactionKeepsOldSet` | `HarmlessKeepsOldSet` | same |
| `OStageCommitProofs!ImplementsGenerationStore` | `KeepsGeneration` | same |
| `DStageSnapshotProofs!LocksExcludeRuns` | `LocksExclude` | set of runs and inodes |
| `DStageSnapshotProofs!KeptLockGuardsTheJournal` | `KeptLockGuardsJournal` | same |
| `DStageSnapshotProofs!UnknownIsNeverTouched` | `UnknownIsKept` | snapshots, failures, foreign writes |
| `DStageSnapshotProofs!EveryCrashIsExplained`, `EveryCrashKeepsAPair`, `ReportsAreDurable` | `Explained`, `KeepsAPair`, `ReportIsDurable` | snapshots, kills and power losses, both kinds of file system |
| `DStageSnapshotProofs!ImplementsGenerationStore` | refines `GenerationStore` | same |
| `PayloadProofs!VendorTreeSurvives`, `TableIsComplete`, `PassIsValid` | `TreeSurvives`, `ScanExplainsScene`; `PassMeansValid` | choice and number of faults |
| `TrioCommitProofs!SettledTrioIsWhole`, `ResidueIsExplained`, `RestoredIsWhatWas` | `SettledIsWhole`, `RecoveryExplains`; `RestoredWithoutResidue` | generations, faults |
| `TrioCommitProofs!ImplementsGenerationStore` | `KeepsGeneration` | same |
| `F0SnapshotProofs!TypeCorrect`, `CommittedSnapshotSurvives` | `TypeOK`, `EvidenceKept` | snapshots, faults |
| `F0SnapshotProofs!ImplementsGenerationStore` | refines `GenerationStore` | same |
| `ObservationProofs!VerdictsAreDurable` | `VerdictIsDurable` | sizes, scheduling |
| `ObservationProofs!ReplayedJournalsAreComplete` | `ReplayedIsComplete` | sizes, events, sessions, losses |
| `ObservationProofs!ReadyCensusIsCurrent` | `CensusIsCurrent` | devices, tasks, changes of the topology |
| `ObservationProofs!PairedCapturesOmitNothing` | `PairedOmitsNothing` | devices, tasks, envelopes |
| `ObservationProofs!PairedWaitsAreReal` | `PairedIsReal` | devices, tasks, interleavings; programs as `ProgramAssumption` says |
| `TraceStreamProofs!CompleteHoldsEverything` | `CompleteMeansAll` | CPUs, rings, records, sessions, faults |
| `TraceStreamProofs!CleanSessionsAreComplete` | `CleanIsComplete` | same |
| `TraceStreamProofs!AnnouncementsLast` | `AnnouncedIsDurable` | same |
| `TraceStreamProofs!AcknowledgedUploadsAreKept` | `UploadIsKept` | length, kills, restarts, power losses |
| `StorageTasksProofs!DeletesOnlyApproved` | `DeletesApproved` | candidates, runs, kills, changes |
| `StorageTasksProofs!PassedRunsMovedAll` | `PassMeansApproved` | plan, runs, kills, changes |
| `PayloadProofs!PackageIsTheSelection` | `ShipsTheSelection` | payload, policy, presets, changes |
| `PayloadProofs!ShippedIsCompiled` | `ShipsWhatWasCompiled` | sources, patches, editions, changes |

`PassMeansValid` (a restore that passes leaves the manifest's tree), `RestoredWithoutResidue` (a `gen` that reports the
previous generation restored has restored it, unless older backups were about), `SnapshotTypes` (the `TypeOK` of
`DStageSnapshot`), `JournalIsSteady` (`JournalInv`), the `TypeOK` of `OStageCommit` and of `F0Snapshot` and the refinements by
`F0Snapshot` and `DStageSnapshot` are statements no run lists.

The argument is the same each time: the property is not inductive, because it says
nothing of what the program relies on in the middle of a transaction. The invariant
adds that: which journal state belongs to which place in the program, how far the loop is, and where
the old generation is meanwhile.

* *OStageCommit*: `JournalOfPhase` and `CommitProgress`. `SettledIsWhole` can only break when the journal
  becomes "committed" or goes away; the loop's progress shows that the set is whole then. `OldSetInv` says, as long
  as no harm was done, where the artifacts published last are in each phase: in place (`AtRest`), split by the loop's
  counter between place and backup (`InForwardLoops`, `InRestore`), or still to be put back (`InRollBack`); and between runs that
  what the journal makes the next one do brings them back (`Recoverable`). `SafeIsRecoverable` is the step that carries kills:
  everywhere but where it is `Exposed` a process may die. The refinement follows from `Store = good` (`StoreIsGood`), where the one
  exception, a first publication whose rollback failed, stands for what it had staged or for nothing (`GivenUp`).
* *LockFile*: `KeptLock`: with the file kept, every open descriptor is the inode of the path,
  so the kernel's lock per inode is a lock per directory.
* *PayloadRestore*: `Scene` says of each journal state which trees exist (the truth table, derived
  rather than assumed), `Survival` that an old tree that is alone is complete, `Place` what
  the program knows where it stands.
* *TrioCommit*: `Progress` and `Transaction` hold whatever residue is about; `Undamaged` (`Scene`, `Place`) is
  what the code relies on while no older backups have been left. The refinement follows
  from `Store = before` at every place but the commit.
* *F0Snapshot*: `Places` says where the committed snapshot stands at each place in the
  program; `RecordIsSaved` that the record, when it names a snapshot, names that one, which is why
  removing the backups of a consistent pair loses nothing; `Staged` that what is
  moved into place is what is then recorded. `Store` is what record and files agree on; `RecordNames` makes it
  the snapshot committed last until the record is rewritten in a way the tool does not mend.
* *DStageSnapshot*: `Sound` needs no assumption on the disk and gives `UnknownIsKept`: a foreign file stays in every disk a
  power loss may leave. `Unscarred` is about a disk no foreign writer touched: `Progress` says for each state of the
  journal which of the pair is in place, away or replaced, and `Good` is what recovery accepts; `AtPhase` ties both to the
  place in the program. On an ordered file system all of `lag` is `Good` and stands for the same pair (`OrderedLag`).
  On a torn one it need not be: `TornLag` says which of the two directories an fsync has pinned down at each place, and
  that is enough at the barriers, where the properties are claimed.
  For the refinement a verified journal makes the new pair the one that is `Held`; `LagIsHeld` says that a power loss leaves the
  pair of before or the one held, so that recoveries, rollbacks and losses never change `Lasting`, and one durable step does.
* *MeterSession*: a verdict is only given after the join, when the writer's last block has been
  synced and no error was recorded. `JournalInv` adds what the END mark carries: the counters of the journal as they stay
  (`Observed`), in the ring, in the reader, in the queue, in the writer's block or in the file (`OnTheWay`), and `Ring`: while nothing
  is lost, the sequence counts events and marks. The lemma `MarksUpTo` grows by one at each mark turns the replay's check of the
  phases into "no mark twice", so the END in the file is the END of this journal.
* *TraceStream*: `Conserved`: a CPU that dropped nothing has in the stream and in its ring exactly what it
  produced; `DropsShow`: whatever it dropped is in a statistics packet that follows the last record or is still to
  come; `Numbered` and `Held` make the capture a choice of packets that were sent, by number. A complete capture then
  has every packet. `CleanInv` goes the other way: an undisturbed session leaves the rings empty when rmmod begins
  (`Tidy`), sends what the check asks for (`Spotless`), and the packets under way continue the file in order (`Carried`). `ReceiverInv`
  keeps an announced session apart from the open one; `HandedOver` with `UploadInv` follows the upload call by call.
* *SemanticFlow*: `CensusInv`: a census that no hook called off is current in what it has read; `OmissionInv`: what is left out
  leaves an invalid census, for good, and END says so. `RealInv` gives `PairedIsReal`: while the census holds, one task at a time
  resets a device (`ResetsApart`), its generation is the number of its resets, or one ahead between `Renew` and `Reinit`
  (`InStep`), and what a wait or completion noted belongs to the generation of its token unless that has moved on
  (`WaitsAreOwn`), which `Current` finds at its end. This rests on where the hooks stand in a program: a wait is begun, entered,
  awaited and ended without a branch into it, a reset is five steps in a row, every hook that uses a token finds one.
  `ProgramsShaped` states that of the programs of `SemanticFlow`. They are folds over devices and phases, so it cannot
  be proved for all of them (induction over data); it is the assumption `ProgramAssumption`, which TLC evaluates in
  every run of the module. `RealInv` held in all states of `MCSemanticFlow_runs` before it was proved.
* *StorageTasks*: `Knows` is what a run has established: every file at a candidate it has
  compared is approved (`Accounted`), and in the hash record once it has hashed it, or it came later. The
  other runs only take files away from a candidate, and the receipt never changes, so no
  step of another run disturbs it. `BoundIInv` ties the rows a run has read to the receipt: from the digest to the second opening
  the manifest is the approved one or was rewritten (`Bounded`). `MoveIInv` says the same of a run of task 4: a move it has come past is settled
  (`SettledSoFar`), unless others changed one of its ends after the look.
* *PayloadBuild*: `SourceInv` rests on the digest check after each of the two unpackings and on `Follows`: a patch on the
  compiled tree is the one in the checkout, and one on the shipped tree the one on the compiled tree, unless it was edited
  since; `Missing` is empty where the build goes on. `TraceInv` (the package
  has a file for each line of the trace and no other) turns the verification of the lines into
  one of the package, which is `SelectionInv`.

Only model-checked:

* all liveness (`Converges`, `Terminates`, `ExitEnds`, `CycleEnds`, `MoveConverges`, `BuildConverges`): the prover has no rule
  for fairness;
* `CleanIsPaired`: it is about a whole cycle, record by record; what the programs of `SemanticFlow` emit from their first
  place to their last is computed by folds over devices and phases.

## 5. Where code and documents disagree

One run is violated; `PROJECT.json` quotes the lines:

* `MCOStageCommit_lost`: after a kill in the backup loop of `materialize-o-stage.sh` recovery removes the backups, the only
  copy of the old generation, though the plan promises that the old artifacts stay.

Six more promises were found broken while the models were written. Their states are in the modules (the
properties above are stated around them), the runs are not kept. For the first two the promise is a definition that TLC finds violated
when it is put in the place of the invariants of the run named:

* `DriftIsRefused` (`MCStorageTasks_runs`): `r50-storage-task4.py` digests the manifest (:252) and opens it a second time for the rows (:254);
  task 5 does the same (:338, :340-343). Rows rewritten in between are acted on as root, and an object that drifted is moved with a
  pass if its row follows it, though `tools/README.md` says that a receipt is bound to the digests and drift is refused.
  `PassMeansApproved` and `DeletesApproved` show that this window is the only way in: they except `rewritten`, and nothing else
  of the approval.
* `PatchedStateIsLocked` (`MCPayloadBuild_runs`): `build-driver.sh` applies four patches behind the digest gate of
  `derive_fantgpu_source`, once to the tree it compiles (:207-214) and once to the one it ships (:319-326), each time read from
  `patches/` and never digested, though its comment (:166-168) says that there are no patches behind the trace and that a patched state is
  covered by locked evidence. `ShipsWhatWasCompiled` says what is left: the two trees agree in every patch that is not edited between the
  readings.
* `materialize-o-stage.sh`: a backup whose removal failed in silence (:541-542) outlives its journal (:654), and
  the rollback of a later run takes it for its own (:503) and reports "old set preserved". `harm`
  marks it, as it marks the kills where the process is `Exposed`, of which the run shows one.
* the same script: the lock file is removed after the unlock (:651-655), so two runs can be
  inside; a comment (:576) says it is never removed. `LocksExclude` claims one run per inode there.
* `restore-fantgpu-payload`: the handler of a failed restore insists that the tree it puts back matches the
  manifest and swallows its own exit (`r16-f-payload-integrity.py:1859-1863`); a drifted tree, the
  usual reason for a restore, stays moved away while the message says that it was recovered.
  `Converges` excepts it by name (`Unresolved`).
* `gen`: a stale backup left by two failed unlinks makes a later rollback bring back the
  generation before last and report "previous generation restored" (:1181, :1278, :1416). `hurt` marks it.

Observations that contradict no document:

* D stage: a recovery goes on from a journal state an earlier, killed run never fsynced (:1441), which matters on a
  file system without ordering only.
* F0: no lock (:294); `manifest` after a snapshot makes every later `snapshot` refuse; the verdict of `verify`
  stays in the record when the archive it was about is replaced (:475).
* O stage: a reader of the artifacts during a rollback sees mixed files (:504).
* `gen` takes no lock (:1950): one run recovers the journal of another's running transaction.
* The DRI (`install-dri-node-repair-service.sh:181`) and Hygon (`install-hygon-hda-audio.sh:157`) installers: a failed
  re-installation may not return to the unit and enable state before it.
* Task 4: `rename` replaces a target that appears after the look at it. With a source made anew between
  rename and verification, a second run that had looked before moves unapproved content onto the
  target; `PassMeansApproved` excepts what others made after a check.
* Task 5: files that come to a candidate after the comparison are deleted without a record; a
  clean-up that was killed cannot be resumed, because a candidate is missing then.
* Payload: the manifest is read again after the validation, so one generated meanwhile can let a package ship a name that the
  validation refuses.
* Trace: `r5_exported` is set before the rows of the dictionary, and marker and profile come in the order of
  the wire: a capture can be refused that nothing disturbed much, never accepted wrongly.

## 6. What is not modelled

* Power loss in `OStageCommit`, `TrioCommit`, `PayloadRestore`, `F0Snapshot`: a kill leaves what was done. The first fsyncs
  after each step, the last does not and does not claim to.
* Contents: the bytes, rows and digests of artifacts; the tools' own checks of them
  (Checks A to G, audit tables) are components of their own.
* In `OStageCommit` the rebuild of the work tree and the lock (`LockFile`); readers that look at the artifacts
  while a rollback is under way.
* In `DStageSnapshot` a build that fails after writing one staging file, and `.txn/staging` as a directory
  of its own: its entries are durable with `.txn`.
* In `F0Snapshot` the rows of the manifest, the verdict of `verify`, the second build of the
  determinism check, and commands at the same time.
* In `MeterSession` what a record says, and the replay of objects and pages in `meter_check`; the file's header.
* In `TraceExport` the layout of a packet, the length of the socket's queue, the formatting of a record; of the
  analysis the budgets and `check_bounds`.
* In `SemanticFlow` `device_complete` callbacks, the LOCK and UNLOCK records, pairs of notifier records, the wake
  note; the text anchors by which the overlays find their places.
* In the storage tasks the directories of the evidence, which two runs in the same second would share, and task 3, a
  list of commands.
* In the payload build the safe forms of names and link targets, the symlink boundary, and the comparison of the
  module ABI; steps of the build for the other branches.
* The generation of `list`: `TrioCommit` has how it is committed, not what it says.
* In the storage tasks a receipt that is exchanged: it is opened once for its digest and once for its answers
  (task 4 :245-247, task 5 :317-320), and a new one with its own sidecar is a new approval to both scripts.
* Components listed as `not_modelled`, with the reason.

Limits of properties that are checked:

* `ExitEnds`: a run produces at most `MaxEvents` records, so the empty visits that end a pass are exercised, and passes that end
  at their quotas, but not a worker that finds new records in every visit.
* `TraceExport`: another owner of the trace is an owner only; a `trace_pipe` reader would also consume records, and the
  exporter looks at `pipe_cpumask` at the start of a pass only (`prepare-r5-observation.py:327`).
* `UnknownIsKept`: foreign files come between runs and just before the self-check, not between a comparison and the
  rename or removal it allows (`d-stage-audit-gen.py:1523` and :1195, :1266 and :1280), where nothing would notice them.
* `LocksExclude`: for the lock file that is removed one run per inode is all it claims; that two runs can be inside is a
  broken promise (section 5), not something it would catch.
* `hurt` in `TrioCommit` exempts a transaction that meets older backups from every property.
* `ShipsTheSelection` is about the payload part of a package; the files other steps put there are left out.

## 7. Plan

Done, in this order: `OStageCommit`, `LockFile`, `PayloadRestore`, `TrioCommit` with `GenerationStore`, `MeterSession`, `DStageSnapshot`,
`F0Snapshot`; `TraceExport` with receiver, check and upload; the semantic records; the storage tasks; the payload build;
proofs of all safety properties but one; `GenerationStore` as the specification of four of the five engines.

Left, most important first:

1. `InstallDri` and `InstallHygon`: files, units and enable state before, during and after an
   installation that fails at any command.
2. `MeterReplay`: objects, pages and bounds of `meter_check` against a reference definition.
3. Two runs of `gen`, or of the F0 tool, at the same time.
