# TLA+ verification of nteract's daemon

nteract is a notebook system built around a daemon, `runtimed`.  The daemon
keeps a *room* per open notebook: an Automerge document that peers edit
together, a second Automerge document (`RuntimeStateDoc`) with everything the
runtime knows, the `.ipynb` file, and a *runtime agent*, a process of its own
that owns the Jupyter kernel.  This directory holds TLA+ models of the parts of
the daemon whose correctness depends on order: what happens when executions,
interrupts, restarts and kernel deaths cross, what a crash or a racing save does
to the file, what a launch leaves behind when it is cancelled or aborted halfway,
and who may stop a kernel or remove a room while peers come and go.

- [Inventory](#inventory) - the parts, their state, how they interact
- [KernelSession](#kernelsession), [FileCheckpoint](#filecheckpoint),
  [KernelLaunch](#kernellaunch) and [RoomEviction](#roomeviction) - the models
- [Runs](#runs), [Findings](#findings), [Proofs](#proofs)
- [What is not modelled](#what-is-not-modelled), [Plan](#plan)

Run a model with `tlc -config KernelSession.cfg KernelSession`, check proofs with
`tlapm KernelSession_proofs.tla`, and likewise for the six other `*_proofs` modules.

## Inventory

Paths are relative to `src/crates/runtimed/src/` unless they begin with a crate.

| Part | State it keeps | Operations | What makes it correct |
|---|---|---|---|
| Kernel session (`runtime_agent.rs`, `kernel_state.rs`) | kernel slot, interrupt handle, seen execution ids, queue, executing slot, interrupt gate | admit synced executions, launch, restart, interrupt, shutdown, lifecycle signals | an execution runs once per kernel, gets exactly one terminal status, and none is left running or queued with nobody to finish it |
| `RuntimeStateDoc` (`runtime-doc/src/doc.rs`) | executions, queue projection, kernel lifecycle, outputs, comms | `set_execution_done`, `set_queue`, `abort_inflight_executions`, ... | the projection clients read is what the agent does |
| Kernel tasks and committers (`jupyter_kernel.rs`, `output_committer.rs`, `stream_committer.rs`) | channels, pending commits | IOPub, watchers, ordered commits with a signal behind them | outputs and errors of an execution precede its completion |
| File checkpoints (`notebook_sync_server/file_checkpoint.rs`, `persist.rs`) | sequence numbers, ordering barrier, last checkpoint | claim, bind, write, prepare, replace, commit | an older save never replaces a newer file; a crash at any step is recoverable |
| Durability and journal (`notebook_sync_server/durability.rs`, `recovery.rs`) | manifest, durable snapshot, journal file, degradation | peer and source commits, checkpoint intents, recovery, archive | what was acknowledged survives; the journal explains the file |
| Room lifecycle (`notebook_sync_server/lifecycle.rs`, `load.rs`) | source state, availability, load generation | begin, publish, complete, fail, degrade, recover, reconcile | a stale load generation never changes the room |
| Launch gate and agent connection (`notebook_sync_server/room.rs`, `peer_runtime_agent.rs`, `requests/launch_kernel.rs`, `requests/shutdown_kernel.rs`) | launch generation, cancellation, expected agent | claim a launch, cancel, connect, disconnect | one launch at a time; cleanup of an old agent never hits a new one |
| Registry and eviction (`notebook_sync_server/registry.rs`, `peer_eviction.rs`) | rooms by id and path, peer counts, timers | get or create, disconnect, reap | no room is reaped under a peer, no path has two rooms |
| Peers (`notebook_sync_server/peer_writer.rs`, `peer_loop.rs`, `peer_session.rs`) | bounded outbound lanes, request worker, sync states | send, request, wait for heads | replies are ordered; a slow peer costs only itself |
| Requests (`requests/*`) | - | execute, run all, interrupt, save, shutdown | guards read the state they act on |
| Blobs (`blob_store.rs`, `notebook_sync_server/blob_upload.rs`) | content-addressed files, uploads | put, multipart, collect | no referenced blob is collected |
| Environment pools (`warm_env.rs`, `daemon.rs`) | warm environments, failures | take, refill, back off | an environment is handed out once |
| Clients, bindings, front ends, MCP servers | views | - | presentation over the documents |

The coordinator (the daemon) and the agent share `RuntimeStateDoc` through
Automerge sync: the coordinator creates execution entries as *queued*, the agent
is the one that starts and finishes them.  Requests (launch, restart, interrupt,
shutdown) travel as frames of the same connection.  Inside the agent one
`select!` loop owns all session state; the kernel's tasks talk to it only through
a lifecycle channel.  Inside the daemon, saves run concurrently in request and
autosave tasks and meet at a mutex, `CheckpointState`, and at the durability
mutex.  A launch is owned by a request's worker or by a task of its own, holds a
token of the launch gate, and touches slots of the room that each have a lock of
their own; agent connections, shutdown requests, the teardown of the last peer and
the reaper touch the same slots without the token.

What is hard to test there is listed in `PROJECT.json` under `hazards`: signals of
a dead kernel that arrive late, an interrupt that falls between two signals of
the same execution, partial failures of teardown sequences, a crash between a
rename and its journal record, continuations resuming out of order, a task aborted
between two locks, a decision taken on a counter that moved since.

## KernelSession

`KernelSession.tla` models the agent's session.  Correspondence:

| TLA+ | Code |
|---|---|
| `pc`, `todo` | where the loop's handler stands: `admitting` is `queue_synced_executions`, `launching`/`restarting` await `Kernel::launch` |
| `kernel`, `handle`, `seen` | `KernelSession`'s kernel, `interrupt_handle`, `seen_execution_ids` |
| `queue`, `executing`, `hadError`, `interruptPending`, `status` | the fields of `KernelState` |
| `execStatus`, `docQueue`, `lifecycle` | the agent's replica of `RuntimeStateDoc` |
| `shell`, `flushing`, `outCommits`, `doneCommits`, `signals` | requests with the kernel, the IOPub task waiting for the committers, the committers' queues, `lifecycle_rx` |
| `sent`, `raised`, `gateDropped` | history for the properties |
| `ProcessNext`, `Reset`, `Interrupt`, `Shutdown`, `Died` | the operations of `KernelState` |
| `ReceiveSync`, `AdmitNext`, `AdmitDone` | a `RuntimeStateSync` frame, one admission at a time, then the initial launch |
| `LaunchKernel`, `RestartKernel`, `KernelLaunched`, `LaunchFailed`, `InterruptExecution`, `ShutdownKernel` | the requests |
| `OnExecutionDone`, `OnKernelIdle`, `OnCellError`, `OnKernelDied` | `handle_lifecycle_signal` |
| `KernelRaises` ... `ReportDeath` | the kernel's tasks; the process itself (`KernelExits`) is external |

A handler is one action unless it awaits something another actor can interleave
with.  Failure of a doc write (`RuntimeStateHandle::with_doc` returning an error)
is a parameter of every handler that writes, drawn from the constant `DocWrites`.
The `biased` order of `select!` is abstracted to any order.  A launched kernel is
always one with an interrupt handle, as Jupyter kernels are.  Executions are
numbered in the order of their `seq` and arrive as prefixes, because the
coordinator is their only author.

`ExecutionLedger.tla` is the abstract specification of the execution entries: at
most one runs, they start in order, each goes from queued to running or straight
to a terminal status, and a terminal status is final.  `KernelSession` refines it
(`LedgerKept`).

The properties:

- `NoOrphanedRunning`, `NoForgottenQueued`, `QueueProjected`: the doc never shows
  an execution running, queued or waiting that the session does not hold, whatever
  teardown, failed restart or late signal came before;
- `OneRequestInKernel`: the interrupt gate holds the next request back until the
  interrupted one is idle (unless a second interrupt dropped the gate, see below);
- `ErrorNeverRecordedDone`: the two committers do not let a completion overtake
  its error;
- `SubmittedOncePerGeneration`: no kernel is sent an execution twice, even if doc
  writes fail and entries come back as queued;
- `AdmittedSettles`, `ExitIsNoticed`: progress.

Fairness: the loop handles what is ready and launches return (`WF Handler`); a
signal that keeps being available is taken (`SF OnSignal`: sync frames and
requests are not ready all the time, so the loop gets to the lifecycle arm); the
committers and the IOPub task run; the kernel finishes the request it runs or
exits; the process watcher reports an exit.  Nothing is assumed of requests, of
false death reports or of the kernel raising errors.

Bounds: two executions suffice for one behind the other, two generations for a
restart that meets signals of the old kernel, one death report per kernel for a
false or a late report.  With failing doc writes one execution and two
generations are checked (the entry may be re-admitted any number of times).

## FileCheckpoint

`FileCheckpoint.tla` models concurrent ordinary saves of a room to its bound path.

| TLA+ | Code |
|---|---|
| `reserved`, `barrier`, `checkpoint`, `lock` | `CheckpointState` and its mutex held through the replace section |
| `saver[s]` | a save: stage, `SaveSequenceClaim`, captured heads, `already_current` |
| `manifest`, `journal` | checkpoint fields of the in-memory `RecoveryManifest`, and of the last valid journal record |
| `known`, `baseline` | `last_known_disk_hash`, `primary_save_baseline_sequence` |
| `degraded` | the lifecycle availability the save guard reads |
| `Claim`, `CheckAvailability`, `CheckDisk`, `Capture` | `save_notebook_to_disk` up to the worker |
| `Bind`, `AlreadyCurrent`, `WriteTemp`, `TakeLock`, `Prepare`, `Replace`, `Abort`, `Commit` | `complete_reserved_with_durable_intent` and its callbacks |
| `CommitExisting`, `Finish` | what `save_notebook_to_disk` does with the outcome |
| `Edit`, `Restart` | `commit_peer_changes`; startup recovery of the room |

A revision number stands for heads and bytes together; 0 is the file as opened and
-1 the bytes of another program.  An append to the journal succeeds, fails, or
fails although its record is valid on disk (a flush that reports an error).  Which
I/O may fail is the constant `Faults`.  A crash loses everything but file, journal
and document; since nothing else happens while the daemon is down, crash and
restart are one action.  `Rest` lets a quiet room stutter, so that TLC's deadlock
check finds a save that is stuck.

Bounds: three savers with three sequence numbers give an already current save
between two writing ones; two revisions let a later save hold an older or a newer
one; one external edit and one crash each at any step.

The properties: `DiskNeverOlder` (supersession, also across restarts),
`JournalExplainsDisk` (at every moment a crash would be recoverable),
`ConflictHasCause` (a restart calls a conflict only if there is one),
`AckedIsDurable` (a save reported to a client survives), `BaselineSettles`
(continuations out of order do not leave a wrong staleness baseline) and
`NoLeakedIntent` (an intent, which blocks all other saves, has an owner).  They are
stated apart from the regression of the journal described under findings
(`regressed`), and without directory flush failures, the other finding.

## KernelLaunch

`KernelLaunch.tla` models how a room gets its kernel: the single-flight gate, the
two kinds of attempt (a `LaunchKernel` request and the automatic launch of a first
peer), the agent processes they spawn, the connections of those agents, and
`ShutdownKernel`.

| TLA+ | Code |
|---|---|
| `inFlight`, `source`, `cancelled`, `admitted`, `completed`, `cooldown`, `expected`, `connected` | `KernelLaunchGateState` |
| `currentId`, `handle`, `requestTx`, `pendingTx`, `agentGen`, `active` | the room's slots: `current_runtime_agent_id`, `runtime_agent_handle`, `runtime_agent_request_tx`, `pending_runtime_agent_connect_tx`, `runtime_agent_generation`, `active_kernel_launch` |
| `lifecycle` | `kernel.lifecycle` in the coordinator's replica of `RuntimeStateDoc` |
| `unsynced`, `committed` | an agent's lifecycle write the room has not merged yet; history: the room's own last write |
| `owner`, `ownerGen`, `ownerAgent`, `ownerNext`, `rpcTo`, `reply`, `signalled` | where the holder of the `KernelLaunchAttempt` stands |
| `cleanup`, `cleanupGen` | the task that `Drop` spawns, `cleanup_abandoned_launch` |
| `proc`, `inbox`, `kernel`, `conn`, `heldTx`, `discGen` | agent processes and their connection handlers (`peer_runtime_agent.rs`) |
| `asking`, `peer`, `FollowerWakes` | a first peer and the retry follower (`peer_connection.rs`); the follower keeps no state here |
| `OwnerBegins` ... `Commits` | `launch_kernel.rs`, `auto_launch_kernel_attempt`, in the order of the code |
| `Reset`, `ResetAgent`, `Discard`, `OwnerClears` | `reset_starting_state_with_outcome`, `discard_cancelled_runtime_agent` |
| `Drops`, `OwnerAborted`, `CleansUp` | `Drop` of the token, also when its task is aborted at an await |
| `HandlerMarks` ... `DisconnectDropsHandle` | a connection from its second look at the gate to the disconnect cleanup |
| `AgentServes`, `AgentReports` | `handle_runtime_agent_request` with the `record_kernel_...` writes; `set_activity` and `reassert_live_kernel_projection_if_needed` |
| `HandlerMerges` | the `RuntimeStateSync` arm of the connection handler |
| `ShutdownBegins`, `ShutdownSends` | `shutdown_kernel.rs` |

One action is one critical section with what follows it before the next await.
The manual and the automatic attempt share their steps where the two sources do
the same.  The phases from `Resolving` to `Connecting` are one value, `Starting`;
`requestTx` and `pendingTx` are cleared in one step, the gate and the lifecycle
section of a reset too; whether a cooldown has expired is left to chance.  Of the
agent's session (that is `KernelSession`) only what the launch sees is kept: requests
are served in order, a start succeeds or fails, a stop succeeds.

The lifecycle has two writers.  The room writes its replica under the gate; the agent
writes one of its own, `Launching` when a start begins, `Running`, `Error` or nothing
when it ends, `Shutdown` when it serves a stop, and `Running` again when its kernel
reports activity.  The agent answers a request before it sends the sync frame, and
the handler merges a frame without asking who the current agent is or what the gate
says.  Which of two concurrent writes of a key wins is Automerge's choice, so `HandlerMerges`
lets either of the two win: the agent's write or the room's last one (`committed`).
An agent's write beats its own earlier one, and may lose to one of another agent.  A
lifecycle other than `committed` is therefore an agent's.  The properties below that
speak of what the room promised are stated over `committed`: after a shutdown the document may well read
`Running` until the agent serves the stop, and for good if the agent is killed between
its `Running` and its stop and the merge prefers the agent.  That a shutdown "cannot be
overwritten by a late launch error or abort" (`room.rs:2633`) is so for the room's own
launch errors and aborts.

The properties are stated for the moments when nothing is under way (`Settled`),
or as what a step may never do:

- `GateIsOwned`, `NoLostWaiter`: a generation in flight always has somebody to end
  it, and whoever joined it gets an outcome;
- `SlotsAgree`: the slots, the gate and the processes name one agent, whatever was
  cancelled or aborted in between, and no process is left without its handle;
- `RunningHasAgent`: a `Running` the room wrote has its agent; violated, see the
  seventh finding;
- `NoKernelAfterShutdown`: a shutdown that meets a launch at any step wins, whatever
  the document came to read;
- `TerminalSticks`: neither an attempt that was overtaken by `Shutdown` or `Error`
  nor its cleanup writes progress again;
- `NewerAgentSurvives`: the cleanup of an old agent's disconnect does not kill a
  newer one;
- `GateReopens`: every attempt ends.

Fairness: only the owner and its cleanup task are assumed to run, which is what
the executor gives them, and each of their waits has a deadline in the code.
Agents, handlers, peers and requests owe nothing.

Bounds: two attempts, so that one meets the leftovers of another; one shutdown and
one fault, a crashed agent, a broken connection or an aborted owner, at any step.
Whether a room stops for good is up to its peers, so deadlock is not checked;
`GateReopens` is the progress property instead.

## RoomEviction

`RoomEviction.tla` models the idle end of a room: peers that find it, join and leave,
the teardown the last one schedules, and the reaper.

| TLA+ | Code |
|---|---|
| `activePeers`, `stamped`, `generation`, `latch` | `RoomConnections`: `active_peers`, `last_kernel_torn_down_at`, `connection_generation`, `kernel_teardown_destructive` |
| `Reserved` | `reservations`: a connection holds its guard until its handler returns |
| `resident`, `evicted`, `healthy` | the registry's entry, `is_evicted`, durability that needs no repair |
| `kernel`, `attempt`, `retry` | the agent in the slots, the launch in flight and its follower, in outline |
| `PeerFinds` ... `PeerSchedules` | `lookup_path`/`lookup_uuid`, `handle_notebook_sync_connection`, `handle_peer_disconnect` |
| `Attempt...`, `Follower...` | the automatic launch as far as it matters here |
| `Fence`, `Task...` | `teardown_fence_holds` and the steps of the teardown task |
| `Reaper...` | `ghost_room_reaper_sweep_with_cap` for this room |

One action is what a task does between two awaits; a closure under the registry
lock is one step although the connect path moves its atomics without that lock,
so preemption inside a closure is not explored.  Two consecutive evaluations of the
fence are one.  The wait for the initial load, the final save and the environment's
directory have no state here.  A peer counts itself and reads the count in two steps,
since another thread may count in between; then both read two and neither launches.
Counting, clearing the stamp and moving the generation stay one step.  The follower of
a launch waits for the attempt it followed (`due`), not for the gate: if the next
attempt is in flight by then it gives up, as the code does.  A room starts stamped, as `catalog.rs` leaves one
whose handshake may still fail.

- `RemovedIsUnused`: the reaper, which acts on a sample several awaits old, never
  removes a room somebody holds, counted or not, or one with a kernel;
- `StampedIsIdle`: the stamp that reaper and file-claim reconciler trust means that
  the teardown is over and nobody came back;
- `LatchCleared`: the destructive section ends;
- `KernelReclaimed`: a kernel everybody has left is stopped, although each
  reconnect makes the teardown before it stale and flushes fail.

Fairness: handshakes, launches and teardown tasks run when they can (each of their
waits has a deadline); peers need not come or leave, and the reaper need not sweep.

Bounds: two sessions of two peers give a reconnect at every step of a teardown; one
flush or journal barrier fails.  With three sessions and no fault the same
properties hold as well (1.37 million states), which is too slow to keep as a run.
`HandshakeFaults` is empty in the passing run, which is the handshake that has sent
its capabilities before (`OpenNotebook`, `CreateNotebook`).  With `"capabilities"` it
is the finding below; `"seed"`, a metadata seed that cannot be journaled, also leaves
a teardown stale with nobody to take over, and is in no run.

## Runs

| Run | Shows |
|---|---|
| `session` | all safety properties of `KernelSession`, the refinement of `ExecutionLedger`, and `AdmittedSettles` and `ExitIsNoticed` under the fairness above, with every request, signal order, launch failure, exit and death report (411 thousand states) |
| `session_doc_faults` | `SubmittedOncePerGeneration` with doc writes failing at any point |
| `checkpoint` | all properties of `FileCheckpoint` with failing temporary files, appends and renames |
| `launch` | all properties of `KernelLaunch` but `RunningHasAgent`, safety and `GateReopens`: two attempts, a shutdown and a fault at any step (1.27 million states, over three minutes) |
| `eviction` | all properties of `RoomEviction`, safety and liveness, with reconnects and a failing flush or barrier (62 thousand states) |
| `gate_dropped`, `stale_handle`, `gate_stuck`, `checkpoint_regress`, `checkpoint_dirsync`, `eviction_phantom_peer`, `launch_lookup_abort` | the findings |

Every property of a passing run has a mutant in `PROJECT.json`: a definition marked
`Mutation:` in the module, which replaces one modelled operation by a plausible
wrong one and makes TLC find the property violated.

## Findings

Each is a property the code's own comments or documents state, and a run in which
TLC finds it violated.

1. **A second interrupt drops the gate** (`gate_dropped`).  `KernelState::interrupt`
   assigns `interrupt_pending` from the executing slot, which the first interrupt
   emptied.  The next request is sent while the interrupted one still runs.
2. **The gate waits for an idle that was consumed** (`gate_stuck`).  `KernelIdle` of an
   execution is handled before its `ExecutionDone`.  An interrupt between the two
   closes the gate for an execution whose idle will not come again; the kernel then
   starts nothing until it is restarted or interrupted again.
3. **The interrupt handle outlives the kernel** (`stale_handle`).  After a kernel death
   the handle is not re-derived, so an interrupt records `Running` with no kernel.
4. **An already current save regresses the journal** (`checkpoint_regress`).  Its commit
   runs after the coordinator's lock was released and may put an older checkpoint
   over a newer one; a restart then reports a source conflict.  If the newer save
   has only prepared its intent, the same commit is refused and degrades the room.
5. **A failed directory flush aborts a replacement that happened**
   (`checkpoint_dirsync`).  The intent is dropped, and a restart reports a conflict.
6. **A broken handshake leaves a phantom peer** (`eviction_phantom_peer`).  The
   peer is counted before its capabilities are sent; if that send fails the handler
   returns without the disconnect, and the count never comes down.  The room's
   kernel is not stopped when everybody has left, and the room is never reaped.
7. **An aborted lookup takes the running kernel down** (`launch_lookup_abort`).  A
   `LaunchKernel` request holds a token while `existing_kernel_response` only asks
   whether a kernel runs.  If its peer disconnects at one of the awaits there, the
   cleanup of the dropped token kills the agent of the launch before it, and
   `finish_abandoned_launch`, which turns only the phases of a launch into `Error`,
   leaves `Running` in the document with no agent.

## Proofs

Every invariant and every action property that a passing run checks is a theorem,
for every value of the constants within the assumptions of the modules (the bounds
are naturals, at least one revision, `DocWrites` is a set of Booleans that contains
`TRUE`, ...); so is the refinement of `ExecutionLedger`.  The runs check the same
definitions on small instances, and TLC checked each part of the inductive invariants
before it was proved.  Two groups of theorems assume more than their module does; each
assumption is named below, with what happens without it.

Each proof shows `Init => Inv`, `Inv /\ [Next]_vars => Inv'` and `Inv => P`.  The
properties are seldom inductive, so the invariants are what is worth reading: they
say why the code is right.  A step is proved action by action; where several actions
touch the same few variables a lemma first sums up what the step does (`GateKept`,
`MoveStep`, the `...Effect` lemmas), and the invariant is shown from that.

| Module | Theorem | Property | Assumes |
|---|---|---|---|
| `KernelSession_proofs` | `TypeCorrect` | `TypeOK` | - |
| | `SubmittedOnce` | `SubmittedOncePerGeneration` | - |
| `KernelSessionDoc_proofs` | `RunningIsHeld` | `NoOrphanedRunning` | doc writes succeed |
| | `QueuedIsKept` | `NoForgottenQueued` | doc writes succeed |
| | `ProjectionAgrees` | `QueueProjected` | doc writes succeed |
| | `LedgerImplemented` | `LedgerKept` | doc writes succeed |
| `KernelSessionTasks_proofs` | `OneRequest` | `OneRequestInKernel` | - |
| | `ErrorsAreRecorded` | `ErrorNeverRecordedDone` | doc writes succeed |
| `FileCheckpoint_proofs` | `TypeCorrect` | `TypeOK` | - |
| | `JournalExplains` | `JournalExplainsDisk` | no directory flush fails |
| | `ConflictCause` | `ConflictHasCause` | no directory flush fails |
| `FileCheckpointSaves_proofs` | `IntentHasOwner` | `NoLeakedIntent` | - |
| | `AckedSurvives` | `AckedIsDurable` | - |
| | `FileOnlyMovesOn` | `DiskNeverOlder` | no directory flush fails |
| | `BaselineFollowsFile` | `BaselineSettles` | no directory flush fails |
| `KernelLaunch_proofs` | `TypeCorrect` | `TypeOK` | - |
| | `GateOwned` | `GateIsOwned` | - |
| | `NoWaiterLost` | `NoLostWaiter` | - |
| | `TerminalStays` | `TerminalSticks` | - |
| | `NewerSurvives` | `NewerAgentSurvives` | - |
| | `SlotsAgreeAlways` | `SlotsAgree` | - |
| | `ShutdownStops` | `NoKernelAfterShutdown` | - |
| `RoomEviction_proofs` | `TypeCorrect` | `TypeOK` | - |
| | `StampIsTrue` | `StampedIsIdle` | - |
| | `RemovedStaysUnused` | `RemovedIsUnused` | - |

### The kernel session

`TypeOK` is inductive.  `SubmittedOnce` rests on `SubmitInv`: that `sent[e] <= 1`
survives an admission depends on where `e` is.  The admission worklist is non-empty
only while the loop admits into a kernel (`AdmittingHasKernel`), and while a kernel is
in the slot, what was sent to it was seen, and what waits was seen, waits once and was
not sent (`Fresh`); nothing waits when the executing slot is empty and the gate open
(`IdleQueueEmpty`); the status is not `ShuttingDown`.  A launch resets `sent`, `queue`
and `seen` together, which is where the property would break if one of them were
forgotten.

The agreement of the document with the agent is `DocInv`.  With a kernel, the executing
slot holds the entry that runs and the queue the entries that wait, in the order they
were created, the rest of them being on the loop's worklist, behind (`InSlots`);
without one, whatever a restart left in slot and queue is settled in the document
(`OutSlots`).  Entries arrive in order (`Arrived`), a launch finds an empty slot and a
restart has swept the document (`LaunchesIntoEmpty`), and the projection is the queue
also in the middle of an admission (`Projected`).  The order in the queue is what makes
the refinement of `ExecutionLedger` go through: an entry that starts has no queued entry
before it.  These theorems assume `DocWrites = {TRUE}`, that `with_doc` succeeds.  A
write that fails is logged and not retried, so that the document then differs from the
agent; that is the code's choice.  The assumption is needed: with `DocWrites = {TRUE,
FALSE}` TLC refutes each of the five properties.  `SubmittedOnce` and `OneRequest` hold
without it.

`OneRequest` needs to follow a request out of the kernel: what was sent is with the
kernel, or on its way through the IOPub task, the stream committer and the lifecycle
channel, never both (`Tokens`), and what is with the kernel is what runs or what the gate
waits for (`OneAtATime`).  A late idle of the interrupted request then opens the gate only
when that request is gone.  `ErrorsAreRecorded` follows an error through the other
committer (`ErrorInv`): while an error waits in the output committer its execution has
not been handed to the stream committer (`CommitsOrdered`, the flush the IOPub task
awaits), and the error of the executing entry is recorded or ahead of its completion in
the lifecycle channel (`ErrorAhead`).

### File checkpoints

`TypeCorrect` needs `NumbersInv`: no save is numbered above `reserved`, otherwise a commit
could move the barrier past it.  Everything else rests on `RecoveryInv`, whose parts
follow the argument one would give for the code: the replace section is exclusive and
nobody in it is older than the barrier (`LockInv`); saves under way have distinct numbers,
none of them the checkpoint's until they commit (`SequenceInv`); an already current save
holds a checkpoint that was the last one once (`CurrentInv`); an intent is newer than the
record it stands in (`RecordInv`); coordinator and manifest agree on the checkpoint
(`AgreeInv`); between prepare and commit the intent is in memory and in the journal
(`IntentInv`); and file, manifest and journal are related at each stage (`FileInv`).
`RecoveryInv` holds for every set of faults: `RecordInv` and `AgreeInv` speak of histories
without a regressed checkpoint, and `FileInv` of those in which moreover nobody else wrote
the file and directory flushes succeed (`Clean`).

- `IntentHasOwner` needs that a room in conflict has no save past the availability check
  (`ConflictQuiet`), since `Finish` would lift a degradation.
- `AckedSurvives` needs the manifest too (`AckInv`): the journal is never behind it, and the
  next change of the document records it again.
- `FileOnlyMovesOn` is the longest argument (`DiskInv`).  Manifest and journal both know of
  the save the file holds, as a checkpoint or as an intent (`HoldsDisk`), also when another
  program's bytes have hidden it.  Either the barrier has passed that save, or is about
  to, and no save that may still replace the file has its number (`Ordered`); or a restart
  did not understand the file and numbers its saves below it, but then the room is degraded
  and none of its saves gets past the availability check (`Refusing`).  Only a save that
  finishes lifts a degradation, and in a refusing room there is none.
- `BaselineFollowsFile` (`BaseInv`): the baseline is the file's and no save that still has to
  report would change it, or the save the file holds has still to report and will (`SavedInv`
  has the order of baseline, barrier and file that this needs).

`"dirsync" \notin Faults` is needed in four theorems.  For `ConflictCause` the run
`checkpoint_dirsync` is the counterexample; the other three properties fail in the same way,
since the replacement is taken not to have happened: the intent is dropped although the
file is the new one, the baseline stays on the old file, and the barrier stays behind, so
that an earlier save passes the supersession check.

### The launch gate

The types depend on the gate: an outcome is recorded for a generation, which only an owner
or a cleanup has, exactly one of them while an attempt is in flight (`GateInv`).
`TerminalStays` needs that a cancelled attempt and a terminal lifecycle come together
(`CancelInv`), `NewerSurvives` that agents come in the order of their generations and that a
handler on its way out has read the generation of its own agent (`LineageInv`).

`SlotsAgreeAlways` says what several locks, one slot each, amount to.  A live process has a
handle or an owner about to store it (`ProcessInv`); a live agent never holds the connect
sender of another attempt (`SenderInv`), so that no attempt is told of a foreign agent
(`SignalInv`); while an uncancelled attempt brings up its agent the slots are filled as far
as the agent has come (`AttachInv`); and between attempts the agent in the slots is
connected, or the handler of its broken connection is about to empty them (`RootInv`).
`ShutdownStops` adds that once the shutdown's request is sent and the attempt it cancelled
has let go, the agent has no kernel, or a stop as the last request in its inbox, or a
connection that is gone (`ShutdownInv`).

The agents' writes and the merge touch only `lifecycle`, `unsynced` and the kernels, so
the theorems hold whichever write a merge prefers.  The other way round the merge may
put back `committed`, and `existing_kernel_response` and the cleanup read what it left.
`TerminalStays` is about the room's own writes, and says nothing of what an agent
reports late.  `RunningHasAgent` has no theorem: it does not hold.

### Eviction

`TypeOK` bounds the counters, so it needs what the handshakes still owe (`CountInv`): a
connection that found the room moves the generation twice and counts itself once, a counted
one counts itself out.  A handshake that fails after the count (the phantom peer) leaves the
count too high, never too low.  `StampIsTrue` rests on `FenceInv`: a teardown task whose
generation is still current has no counted peer after its fence, no starting attempt after it
cancelled one, and no kernel after it dropped the agent; any task that a peer overtook has a
stale generation and will not stamp.  `RemovedStaysUnused` needs that a removed room stays
stamped and unreserved and that only a resident room is swept (`GoneInv`).

### Only model-checked

Liveness, since fairness and `ENABLED` are outside the prover's reach: `AdmittedSettles` and
`ExitIsNoticed` of `KernelSession`, `GateReopens` of `KernelLaunch`, `LatchCleared` and
`KernelReclaimed` of `RoomEviction`.  The findings are counterexamples and are TLC's too.

## What is not modelled

- In `KernelSession`: activity and IOPub statuses other than idle (terminating,
  dead, restarting), `SyncEnvironment`, the best-effort work channel, completion,
  history and comm requests, extensions, transport reconnect, executions without a
  source, the generic interrupt path of test kernels, lifecycle writes by the
  coordinator, outputs themselves.  A send fails only to a kernel that has exited.  The
  code could also fail it with a live kernel (`jupyter_kernel.rs:3204`); nothing retries
  it then, and the entry stays in the slot until an interrupt or a restart, a case
  `AdmittedSettles` leaves out.
- In `FileCheckpoint`: Save As and promotion of untitled rooms, explicit
  reconciliation, the failed-load and eviction guards, the file watcher (an external
  edit is not merged), deletion of the file, source phases, torn tails and
  compaction inside the journal file, failures of the journal on peer changes.
  Exported heads are taken to be durable.
- In `KernelLaunch`: applying another environment to a running kernel (preserved
  kernels), the choice and preparation of an environment, the answers joined requests
  get.  The resends of `LaunchKernel` for a busy port and for a captured environment
  in need of repair (`runtime_bridge.rs:130-177`, `207-275`) are one request with one
  answer: all go to the same agent, from the same wait of the owner.  Resets by trust
  checks (`metadata.rs:111`, from `peer_connection.rs:313`) do not hold the token and
  invalidate the agent without cancelling the attempt; only after one can a commit be
  refused because its agent is missing, and the reset that answers this refusal is left
  out with them.  A kernel that dies inside a live agent is in `KernelSession` only.
- In `RoomEviction`: creation of rooms and path coalescing, Save As, file claims and
  their reconciler, `ShutdownNotebook`, hosted rooms, deletion of environments, a
  successor room of the same path, cooldown of the launch.
- Automerge itself, process and package-manager I/O, encoding of frames, the front
  ends and bindings.  `PROJECT.json` lists every component with its status.

## Plan

1. `KernelSession`, `ExecutionLedger`, `FileCheckpoint`, `KernelLaunch`, `RoomEviction`:
   modelled and checked, all their safety properties proved.
2. The composition of the last two: a teardown against the steps of a launch, with the
   latch two teardown tasks share.
3. `RoomLifecycle`: load generations, degrade, recover, reconcile, with stale
   completions; then composed with the save guard of `FileCheckpoint`.
4. `ExecutionPipeline`: the coordinator's replica, its terminal writes and the
   agent's session, over sync that delays and merges.
5. File claims and their reconciler against handshakes; peer lanes with bounded
   queues and required-heads waits; blob upload and collection; warm pool; as far as
   they have state worth checking.
