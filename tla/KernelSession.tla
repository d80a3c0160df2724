---------------------------- MODULE KernelSession ----------------------------
(***************************************************************************)
(* The kernel session of the runtime agent: the `select!` loop of          *)
(* runtime_agent.rs with its KernelSession slots, the execution state      *)
(* machine of kernel_state.rs, the agent's replica of RuntimeStateDoc, and *)
(* the tasks of one Jupyter kernel that report back on the session's       *)
(* lifecycle channel.                                                      *)
(*                                                                         *)
(* The loop handles one request, sync frame or signal at a time.  A        *)
(* handler that awaits (a launch, the admission of synced executions) is   *)
(* split at the await: `pc` says where the loop stands, and meanwhile only *)
(* the kernel's own tasks take steps.                                      *)
(*                                                                         *)
(* Executions are numbered in the order of their `seq`.  The coordinator   *)
(* is their only author and Automerge sync delivers a prefix of its        *)
(* changes, so the replica holds executions 1..n for some n.               *)
(***************************************************************************)
EXTENDS Integers, Sequences, Functions

CONSTANTS
  MaxExecs,        \* bound: executions the coordinator creates
  MaxGenerations,  \* bound: kernels launched by this agent
  MaxDeathReports, \* bound: KernelDied reports per kernel (watcher, heartbeat, IOPub)
  DocWrites        \* outcomes of RuntimeStateHandle::with_doc: {TRUE} or BOOLEAN

ASSUME BoundsAssumption ==
  /\ MaxExecs \in Nat
  /\ MaxGenerations \in Nat
  /\ MaxDeathReports \in Nat

ASSUME DocWritesAssumption ==
  DocWrites \subseteq BOOLEAN /\ TRUE \in DocWrites

Execs == 1 .. MaxExecs
None == 0        \* no execution; as a kernel: an empty slot

Terminal == {"done", "error", "cancelled"}
ExecStatuses == {"absent", "queued", "running"} \cup Terminal
SignalTypes == {"KernelIdle", "ExecutionDone", "CellError", "KernelDied"}
Signals == [type : SignalTypes, exec : Execs \cup {None}]
Signal(t, e) == [type |-> t, exec |-> e]
QueueProjections == [executing : Execs \cup {None}, queued : Seq(Execs)]

VARIABLES
  \* The agent loop and its KernelSession slots.
  pc,               \* "loop", "admitting", "launching" or "restarting"
  todo,             \* queued executions the loop is still to admit
  kernel,           \* generation in the kernel slot, None when empty
  handle,           \* is an interrupt_handle installed?
  seen,             \* seen_execution_ids
  pendingLaunch,    \* trigger of pending_initial_launch, or "none"
  \* KernelState.
  queue,            \* executions waiting for the kernel
  executing,        \* execution whose request was sent, or None
  hadError,         \* execution_had_error
  interruptPending, \* interrupted execution whose idle is awaited, or None
  status,           \* KernelStatus
  \* The agent's replica of RuntimeStateDoc.
  execStatus,       \* executions[e].status
  docQueue,         \* the `queue` projection clients read
  lifecycle,        \* kernel.lifecycle without its activity
  \* The current kernel, its tasks and the lifecycle channel.
  gen,              \* generations launched so far
  alive,            \* does the kernel process still run?
  shell,            \* requests sent and not yet reported idle
  flushing,         \* execution whose idle the IOPub task is flushing, or None
  outCommits,       \* errors in the output committer, CellError to follow
  doneCommits,      \* finals in the stream committer, ExecutionDone to follow
  deathReports,     \* KernelDied signals sent for this kernel
  signals,          \* content of lifecycle_rx
  \* History, never read by an action's guard except as a cap.
  sent,             \* execute requests per execution sent to this generation
  raised,           \* executions whose kernel published an error
  gateDropped       \* did an interrupt reset a closed interrupt gate?

loopVars   == <<pc, todo, pendingLaunch>>
slotVars   == <<kernel, handle, seen>>
stateVars  == <<queue, executing, hadError, interruptPending, status>>
docVars    == <<execStatus, docQueue, lifecycle>>
kernelVars == <<gen, alive, shell, flushing, outCommits, doneCommits, deathReports>>
ghostVars  == <<sent, raised, gateDropped>>
vars == <<loopVars, slotVars, stateVars, docVars, kernelVars, signals, ghostVars>>

-----------------------------------------------------------------------------
(* RuntimeStateDoc operations, as functions of the executions map.         *)

GetQueuedExecutions(st) == {e \in Execs : st[e] = "queued"}

\* Mutation: a status string no reader knows.
SetExecutionDoneMisspelt(st, e, success) ==
  [st EXCEPT ![e] = IF success THEN "success" ELSE "error"]

SetExecutionDone(st, e, success) ==
  [st EXCEPT ![e] = IF success THEN "done" ELSE "error"]

\* Mutation: entries dropped from the queue are not written.
SetCancelledForgotten(st, es) == st

SetCancelled(st, es) ==
  [e \in Execs |-> IF e \in es THEN "cancelled" ELSE st[e]]

AbortInflight(st) ==
  [e \in Execs |-> CASE st[e] = "running" -> "error"
                     [] st[e] = "queued"  -> "cancelled"
                     [] OTHER -> st[e]]

\* Mutation: only the entries that wait are resolved.
ResolveWaitingOnly(st, running, waiting) == SetCancelled(st, waiting)

\* What every teardown writes: the running execution failed, those behind it
\* never ran, and so for whatever else the doc still holds.  (The KernelDied
\* arm sweeps first and then writes the two; the outcome is the same.)
ResolveInflight(st, running, waiting) ==
  LET failed == IF running = None THEN st ELSE SetExecutionDone(st, running, FALSE)
  IN  AbortInflight(SetCancelled(failed, waiting))

EmptyQueue == [executing |-> None, queued |-> <<>>]

\* Mutation: the started execution is still shown waiting.
StartedQueueStale(q) == [executing |-> Head(q), queued |-> q]

\* The queue projection once the head of q was started.
StartedQueue(q) == [executing |-> Head(q), queued |-> Tail(q)]

-----------------------------------------------------------------------------
Init ==
  /\ pc = "loop" /\ todo = {} /\ pendingLaunch \in {"none", "OnAttach", "OnFirstExecution"}
  /\ kernel = None /\ handle = FALSE /\ seen = {}
  /\ queue = <<>> /\ executing = None /\ hadError = FALSE
  /\ interruptPending = None /\ status = "Starting"
  /\ execStatus = [e \in Execs |-> "absent"]
  /\ docQueue = EmptyQueue /\ lifecycle = "NotStarted"
  /\ gen = 0 /\ alive = FALSE /\ shell = <<>> /\ flushing = None
  /\ outCommits = <<>> /\ doneCommits = <<>> /\ deathReports = 0
  /\ signals = <<>>
  /\ sent = [e \in Execs |-> 0] /\ raised = {} /\ gateDropped = FALSE

-----------------------------------------------------------------------------
(* KernelState::process_next and KernelConnection::execute.                *)

\* A request reaches a live kernel.  To a dead one the send is lost or fails.
SendExecute(e, ok) ==
  /\ ok \/ ~alive
  /\ shell' = IF alive THEN Append(shell, e) ELSE shell
  /\ sent' = IF ok THEN [sent EXCEPT ![e] = @ + 1] ELSE sent

\* Mutation: an interrupt does not hold back the next request.
MayStartIgnoringGate(running, gate, q) == running = None /\ q # <<>>

\* Mutation: readiness is judged by the status, which is still the old one.
MayStartByStatus(running, gate, q) ==
  running = None /\ gate = None /\ q # <<>> /\ status # "Busy"

\* process_next starts something only with an empty slot and an open gate.
MayStart(running, gate, q) == running = None /\ gate = None /\ q # <<>>

\* KernelState after a handler left `running` in the slot, `q` waiting and
\* `base` as status, with `st` and `dq` in the doc: start the head of q unless
\* something runs or the interrupt gate is closed.  A send that fails leaves
\* the execution in the slot.
ProcessNext(running, q, gate, base, st, dq, write, ok) ==
  IF ~MayStart(running, gate, q)
  THEN /\ executing' = running /\ queue' = q /\ status' = base
       /\ execStatus' = st /\ docQueue' = dq
       /\ UNCHANGED <<shell, sent>>
  ELSE /\ executing' = Head(q) /\ queue' = Tail(q) /\ status' = "Busy"
       /\ execStatus' = IF write THEN [st EXCEPT ![Head(q)] = "running"] ELSE st
       /\ docQueue' = IF write THEN StartedQueue(q) ELSE dq
       /\ SendExecute(Head(q), ok)

-----------------------------------------------------------------------------
(* The other operations of KernelState, as changes of its variables.       *)

\* reset and set_idle, which a launch calls together.
Reset ==
  /\ queue' = <<>> /\ executing' = None /\ hadError' = FALSE
  /\ interruptPending' = None /\ status' = "Idle"

\* interrupt: the gate is for what ran, which is nothing if nothing did.
Interrupt ==
  /\ interruptPending' = executing
  /\ executing' = None /\ queue' = <<>> /\ hadError' = FALSE
  /\ status' = IF executing # None THEN "Busy" ELSE "Idle"

\* shutdown.
Shutdown ==
  /\ queue' = <<>> /\ executing' = None /\ hadError' = FALSE
  /\ interruptPending' = None /\ status' = "ShuttingDown"

\* kernel_died, which does nothing the second time or after a shutdown.
Died ==
  IF status \in {"Dead", "ShuttingDown"}
  THEN UNCHANGED stateVars
  ELSE /\ executing' = None /\ queue' = <<>> /\ status' = "Dead"
       /\ UNCHANGED <<hadError, interruptPending>>

-----------------------------------------------------------------------------
(* RuntimeStateSync frames: new executions arrive and are admitted.        *)

\* A sync message brings the executions up to n; the loop takes the queued
\* ones as its worklist (queue_synced_executions does nothing without a kernel).
ReceiveSync(n) ==
  /\ pc = "loop"
  /\ \A e \in Execs : execStatus[e] # "absent" => e <= n
  /\ execStatus' = [e \in Execs |->
       IF execStatus[e] = "absent" /\ e <= n THEN "queued" ELSE execStatus[e]]
  /\ todo' = IF kernel # None THEN GetQueuedExecutions(execStatus') ELSE {}
  /\ pc' = "admitting"
  /\ UNCHANGED <<pendingLaunch, slotVars, stateVars, docQueue, lifecycle,
                 kernelVars, signals, ghostVars>>

\* Mutation: the local queue decides what was handed over before.
HandedOverLocally(e) == e = executing \/ e \in Range(queue)

\* The submission guard of queue_synced_executions.
HandedOver(e) == e \in seen

\* One turn of queue_synced_executions: skip a seen id, otherwise queue_cell.
\* An id is marked seen only when queue_cell returned Ok.
AdmitNext(e, write, write2, ok) ==
  /\ pc = "admitting" /\ e \in todo /\ \A x \in todo : e <= x
  /\ todo' = todo \ {e}
  /\ IF HandedOver(e)
     THEN UNCHANGED <<seen, stateVars, docVars, shell, sent>>
     ELSE IF e = executing \/ e \in Range(queue)
     THEN /\ seen' = seen \cup {e}
          /\ UNCHANGED <<stateVars, docVars, shell, sent>>
     ELSE LET q == Append(queue, e)
              dq == IF write THEN [executing |-> executing, queued |-> q] ELSE docQueue
          IN  /\ ProcessNext(executing, q, interruptPending, status,
                             execStatus, dq, write2, ok)
              /\ seen' = IF ok \/ queue' = q THEN seen \cup {e} ELSE seen
              /\ UNCHANGED <<hadError, interruptPending, lifecycle>>
  /\ UNCHANGED <<pc, pendingLaunch, kernel, handle, gen, alive, flushing,
                 outCommits, doneCommits, deathReports, signals, raised, gateDropped>>

\* Does the frame trigger the launch the agent was started with?
ShouldApplyInitialLaunch ==
  \/ pendingLaunch = "OnAttach"
  \/ pendingLaunch = "OnFirstExecution" /\ kernel = None
       /\ GetQueuedExecutions(execStatus) # {}

\* The worklist is done: start the initial launch, or return to the loop.
AdmitDone(write) ==
  /\ pc = "admitting" /\ todo = {}
  /\ IF ShouldApplyInitialLaunch
     THEN /\ pc' = "launching" /\ pendingLaunch' = "none"
          /\ lifecycle' = IF write THEN "Launching" ELSE lifecycle
     ELSE /\ pc' = "loop" /\ UNCHANGED <<pendingLaunch, lifecycle>>
  /\ UNCHANGED <<todo, slotVars, stateVars, execStatus, docQueue, kernelVars,
                 signals, ghostVars>>

-----------------------------------------------------------------------------
(* Requests: LaunchKernel, RestartKernel, InterruptExecution, Shutdown.    *)

\* LaunchKernel; the coordinator sends it to an agent without a kernel and
\* RestartKernel otherwise.
LaunchKernel(write) ==
  /\ pc = "loop" /\ kernel = None
  /\ pc' = "launching"
  /\ lifecycle' = IF write THEN "Launching" ELSE lifecycle
  /\ UNCHANGED <<todo, pendingLaunch, slotVars, stateVars, execStatus, docQueue,
                 kernelVars, signals, ghostVars>>

\* RestartKernel up to the launch: the old kernel is shut down and its
\* executions resolved, but KernelState is left as it is.
RestartKernel(write, write2) ==
  /\ pc = "loop"
  /\ pc' = "restarting"
  /\ kernel' = None /\ seen' = {}
  /\ IF write
     THEN /\ execStatus' = ResolveInflight(execStatus, executing, Range(queue))
          /\ docQueue' = EmptyQueue
     ELSE UNCHANGED <<execStatus, docQueue>>
  /\ lifecycle' = IF write2 THEN "Launching" ELSE lifecycle
  /\ alive' = FALSE
  /\ UNCHANGED <<todo, pendingLaunch, handle, stateVars, gen, shell, flushing,
                 outCommits, doneCommits, deathReports, signals, ghostVars>>

\* Kernel::launch returned a kernel: reset and set_idle, record the launch,
\* install its channels (the old receiver is dropped with what it buffers).
\* LaunchKernel then admits the executions queued in the doc.
KernelLaunched(write) ==
  /\ pc \in {"launching", "restarting"} /\ gen < MaxGenerations
  /\ gen' = gen + 1 /\ kernel' = gen + 1 /\ handle' = TRUE /\ seen' = {}
  /\ Reset
  /\ lifecycle' = IF write THEN "Running" ELSE lifecycle
  /\ alive' = TRUE /\ shell' = <<>> /\ flushing' = None
  /\ outCommits' = <<>> /\ doneCommits' = <<>> /\ deathReports' = 0
  /\ signals' = <<>>
  /\ pendingLaunch' = "none"
  /\ IF pc = "launching"
     THEN pc' = "admitting" /\ todo' = GetQueuedExecutions(execStatus)
     ELSE pc' = "loop" /\ UNCHANGED todo
  /\ sent' = [e \in Execs |-> 0] /\ gateDropped' = FALSE
  /\ UNCHANGED <<execStatus, docQueue, raised>>

\* Kernel::launch failed.  A failure the coordinator may retry is not
\* recorded; the others record Error and resolve the doc's executions.
\* Either way the slot stays empty, KernelState is not reset, and the old
\* channel stays installed.
LaunchFailed(retryable, write) ==
  /\ pc \in {"launching", "restarting"}
  /\ pc' = "loop" /\ handle' = FALSE
  /\ IF retryable \/ ~write
     THEN UNCHANGED <<execStatus, lifecycle>>
     ELSE execStatus' = AbortInflight(execStatus) /\ lifecycle' = "Error"
  /\ UNCHANGED <<todo, pendingLaunch, kernel, seen, stateVars, docQueue,
                 kernelVars, signals, ghostVars>>

\* InterruptExecution through the interrupt handle, which is what the loop
\* takes whenever one is installed.  Without one and without a kernel the
\* request is refused and changes nothing.
InterruptExecution(write) ==
  /\ pc = "loop" /\ handle
  /\ Interrupt
  /\ IF write
     THEN /\ execStatus' = ResolveInflight(execStatus, executing, Range(queue))
          /\ docQueue' = EmptyQueue /\ lifecycle' = "Running"
     ELSE UNCHANGED docVars
  /\ gateDropped' = (gateDropped \/ (executing = None /\ interruptPending # None))
  /\ UNCHANGED <<loopVars, slotVars, kernelVars, signals, sent, raised>>

\* ShutdownKernel.
ShutdownKernel(write) ==
  /\ pc = "loop"
  /\ kernel' = None /\ handle' = FALSE /\ seen' = {} /\ alive' = FALSE
  /\ Shutdown
  /\ IF write
     THEN /\ execStatus' = ResolveInflight(execStatus, executing, Range(queue))
          /\ docQueue' = EmptyQueue /\ lifecycle' = "Shutdown"
     ELSE UNCHANGED docVars
  /\ UNCHANGED <<loopVars, gen, shell, flushing, outCommits, doneCommits,
                 deathReports, signals, ghostVars>>

-----------------------------------------------------------------------------
(* Lifecycle signals, taken from lifecycle_rx one at a time.               *)

Receives(t) ==
  /\ pc = "loop" /\ signals # <<>> /\ Head(signals).type = t
  /\ signals' = Tail(signals)

\* handle_lifecycle_signal, ExecutionDone: KernelState::execution_done.
OnExecutionDone(write, write2, ok) ==
  /\ Receives("ExecutionDone")
  /\ LET e == Head(signals).exec IN
     IF kernel # None /\ e = executing
     THEN /\ hadError' = FALSE
          /\ ProcessNext(None, queue, interruptPending, "Idle",
               IF write THEN SetExecutionDone(execStatus, e, ~hadError) ELSE execStatus,
               IF write THEN [executing |-> None, queued |-> queue] ELSE docQueue,
               write2, ok)
          /\ UNCHANGED <<interruptPending, lifecycle>>
     ELSE UNCHANGED <<stateVars, docVars, shell, sent>>
  /\ UNCHANGED <<loopVars, slotVars, gen, alive, flushing, outCommits,
                 doneCommits, deathReports, raised, gateDropped>>

\* KernelIdle: KernelState::kernel_idle opens the gate for the execution it
\* was closed for.
OnKernelIdle(write, ok) ==
  /\ Receives("KernelIdle")
  /\ IF kernel # None /\ interruptPending # None
          /\ interruptPending = Head(signals).exec
     THEN /\ interruptPending' = None
          /\ ProcessNext(executing, queue, None, "Idle", execStatus, docQueue, write, ok)
          /\ UNCHANGED <<hadError, lifecycle>>
     ELSE UNCHANGED <<stateVars, docVars, shell, sent>>
  /\ UNCHANGED <<loopVars, slotVars, gen, alive, flushing, outCommits,
                 doneCommits, deathReports, raised, gateDropped>>

\* CellError: an error of the running execution cancels those behind it.
OnCellError(write) ==
  /\ Receives("CellError")
  /\ IF Head(signals).exec = executing
     THEN /\ hadError' = TRUE /\ queue' = <<>>
          /\ IF write
             THEN /\ execStatus' = SetCancelled(execStatus, Range(queue))
                  /\ docQueue' = EmptyQueue
             ELSE UNCHANGED <<execStatus, docQueue>>
     ELSE UNCHANGED <<hadError, queue, execStatus, docQueue>>
  /\ UNCHANGED <<loopVars, slotVars, executing, interruptPending, status,
                 lifecycle, kernelVars, ghostVars>>

\* Mutation: a busy kernel cannot have died.
ExpectedExitWhenBusy == status \in {"ShuttingDown", "Busy"}

\* Is the exit the consequence of an intentional shutdown?
ExpectedExit == status = "ShuttingDown"

\* KernelDied, with handle_session_lifecycle_signal clearing the seen ids.
\* Ignored after an intentional shutdown; when already Dead,
\* KernelState::kernel_died returns nothing to resolve.  The interrupt handle stays installed.
OnKernelDied(write) ==
  /\ Receives("KernelDied")
  /\ seen' = {}
  /\ IF ExpectedExit
     THEN UNCHANGED <<kernel, alive, stateVars, docVars>>
     ELSE /\ kernel' = None /\ alive' = FALSE
          /\ Died
          /\ IF write
             THEN /\ execStatus' = IF status = "Dead" THEN AbortInflight(execStatus)
                       ELSE ResolveInflight(execStatus, executing, Range(queue))
                  /\ docQueue' = EmptyQueue /\ lifecycle' = "Error"
             ELSE UNCHANGED docVars
  /\ UNCHANGED <<loopVars, handle, gen, shell, flushing, outCommits,
                 doneCommits, deathReports, ghostVars>>

-----------------------------------------------------------------------------
(* The kernel process and its tasks.  Shutting a kernel down aborts the    *)
(* IOPub task and the watchers; its committers run on.                     *)

\* The kernel publishes an error for the request it runs; CellError goes
\* behind the outputs already handed to the output committer.
KernelRaises ==
  /\ kernel # None /\ shell # <<>> /\ flushing = None
  /\ Head(shell) \notin raised
  /\ raised' = raised \cup {Head(shell)}
  /\ outCommits' = Append(outCommits, Head(shell))
  /\ UNCHANGED <<loopVars, slotVars, stateVars, docVars, gen, alive, shell,
                 flushing, doneCommits, deathReports, signals, sent, gateDropped>>

\* status: idle on IOPub: KernelIdle at once, then the task waits for the
\* committers.
KernelReportsIdle ==
  /\ kernel # None /\ shell # <<>> /\ flushing = None
  /\ signals' = Append(signals, Signal("KernelIdle", Head(shell)))
  /\ flushing' = Head(shell) /\ shell' = Tail(shell)
  /\ UNCHANGED <<loopVars, slotVars, stateVars, docVars, gen, alive, outCommits,
                 doneCommits, deathReports, ghostVars>>

\* Mutation: completion does not wait for the output committer.
OutputsNeedNotFlush == TRUE

\* The output committer's acknowledgement: its queue is committed.
OutputsFlushed == outCommits = <<>>

\* flush_for_ordering of the output committer is acknowledged: the final
\* stream flush is handed over, with ExecutionDone behind it.
FlushedForOrdering ==
  /\ kernel # None /\ flushing # None /\ OutputsFlushed
  /\ doneCommits' = Append(doneCommits, flushing) /\ flushing' = None
  /\ UNCHANGED <<loopVars, slotVars, stateVars, docVars, gen, alive, shell,
                 outCommits, deathReports, signals, ghostVars>>

\* The output committer commits what precedes an error, then signals it.
CommitOutput ==
  /\ outCommits # <<>>
  /\ signals' = Append(signals, Signal("CellError", Head(outCommits)))
  /\ outCommits' = Tail(outCommits)
  /\ UNCHANGED <<loopVars, slotVars, stateVars, docVars, gen, alive, shell,
                 flushing, doneCommits, deathReports, ghostVars>>

\* The stream committer commits the final flush, then signals completion.
CommitStream ==
  /\ doneCommits # <<>>
  /\ signals' = Append(signals, Signal("ExecutionDone", Head(doneCommits)))
  /\ doneCommits' = Tail(doneCommits)
  /\ UNCHANGED <<loopVars, slotVars, stateVars, docVars, gen, alive, shell,
                 flushing, outCommits, deathReports, ghostVars>>

\* The kernel process exits.  Of the requests it was sent, the first k had
\* published their results and can still be read from the IOPub socket.
KernelExits(k) ==
  /\ kernel # None /\ alive /\ k <= Len(shell)
  /\ alive' = FALSE
  /\ shell' = SubSeq(shell, 1, k)
  /\ UNCHANGED <<loopVars, slotVars, stateVars, docVars, gen, flushing,
                 outCommits, doneCommits, deathReports, signals, ghostVars>>

\* The process watcher, the heartbeat or the IOPub task reports the kernel
\* dead; the last two may do so while the process still runs.
ReportDeath ==
  /\ kernel # None /\ deathReports < MaxDeathReports
  /\ signals' = Append(signals, Signal("KernelDied", None))
  /\ deathReports' = deathReports + 1
  /\ UNCHANGED <<loopVars, slotVars, stateVars, docVars, gen, alive, shell,
                 flushing, outCommits, doneCommits, ghostVars>>

-----------------------------------------------------------------------------
Handler ==
  \/ \E e \in Execs, w, w2 \in DocWrites, ok \in BOOLEAN : AdmitNext(e, w, w2, ok)
  \/ \E w \in DocWrites : AdmitDone(w)
  \/ \E w \in DocWrites : KernelLaunched(w)
  \/ \E w \in DocWrites, r \in BOOLEAN : LaunchFailed(r, w)

OnSignal ==
  \/ \E w, w2 \in DocWrites, ok \in BOOLEAN : OnExecutionDone(w, w2, ok)
  \/ \E w \in DocWrites, ok \in BOOLEAN : OnKernelIdle(w, ok)
  \/ \E w \in DocWrites : OnCellError(w)
  \/ \E w \in DocWrites : OnKernelDied(w)

Request ==
  \/ \E n \in 0 .. MaxExecs : ReceiveSync(n)
  \/ \E w \in DocWrites : LaunchKernel(w)
  \/ \E w, w2 \in DocWrites : RestartKernel(w, w2)
  \/ \E w \in DocWrites : InterruptExecution(w)
  \/ \E w \in DocWrites : ShutdownKernel(w)

KernelTask ==
  \/ KernelRaises
  \/ KernelReportsIdle
  \/ FlushedForOrdering
  \/ CommitOutput
  \/ CommitStream
  \/ \E k \in 0 .. MaxExecs : KernelExits(k)
  \/ ReportDeath

Next == Handler \/ OnSignal \/ Request \/ KernelTask

Spec == Init /\ [][Next]_vars

Ledger == INSTANCE ExecutionLedger WITH ledger <- execStatus

\* The execution entries of the doc live the life ExecutionLedger describes:
\* one runs at a time, they start in order, a terminal status is final.
LedgerKept == Ledger!Spec

-----------------------------------------------------------------------------
(* Fairness.  The loop handles what is ready and its launches return; the  *)
(* committers commit; the kernel finishes each request it runs or exits,   *)
(* and the process watcher reports an exit.                                *)

WatcherReportsExit == ~alive /\ deathReports = 0 /\ ReportDeath

Fairness ==
  /\ WF_vars(Handler)
  /\ SF_vars(OnSignal)
  /\ WF_vars(KernelReportsIdle)
  /\ WF_vars(FlushedForOrdering)
  /\ WF_vars(CommitOutput)
  /\ WF_vars(CommitStream)
  /\ WF_vars(WatcherReportsExit)

FairSpec == Spec /\ Fairness

-----------------------------------------------------------------------------
(* Invariants.                                                             *)

LoopTypeOK ==
  /\ pc \in {"loop", "admitting", "launching", "restarting"}
  /\ todo \subseteq Execs
  /\ pendingLaunch \in {"none", "OnAttach", "OnFirstExecution"}
  /\ kernel \in 0 .. MaxGenerations
  /\ handle \in BOOLEAN
  /\ seen \subseteq Execs

StateTypeOK ==
  /\ queue \in Seq(Execs)
  /\ executing \in Execs \cup {None}
  /\ hadError \in BOOLEAN
  /\ interruptPending \in Execs \cup {None}
  /\ status \in {"Starting", "Idle", "Busy", "Dead", "ShuttingDown"}

DocTypeOK ==
  /\ execStatus \in [Execs -> ExecStatuses]
  /\ docQueue \in QueueProjections
  /\ lifecycle \in {"NotStarted", "Launching", "Running", "Error", "Shutdown"}

KernelTypeOK ==
  /\ gen \in 0 .. MaxGenerations
  /\ alive \in BOOLEAN
  /\ shell \in Seq(Execs)
  /\ flushing \in Execs \cup {None}
  /\ outCommits \in Seq(Execs)
  /\ doneCommits \in Seq(Execs)
  /\ deathReports \in 0 .. MaxDeathReports
  /\ signals \in Seq(Signals)

HistoryTypeOK ==
  /\ sent \in [Execs -> Nat]
  /\ raised \subseteq Execs
  /\ gateDropped \in BOOLEAN

\* Types of the variables; signals carry the execution they are about.
TypeOK == LoopTypeOK /\ StateTypeOK /\ DocTypeOK /\ KernelTypeOK /\ HistoryTypeOK

\* No kernel is sent the same execution twice, whatever doc writes fail: the
\* seen ids of queue_synced_executions guard side effects within a generation.
SubmittedOncePerGeneration == \A e \in Execs : sent[e] <= 1

\* An execution the doc shows running is the one in the executing slot of a
\* kernel that exists: no teardown, failed restart or late signal leaves an
\* entry running that nothing will ever finish.
NoOrphanedRunning ==
  \A e \in Execs : execStatus[e] = "running" => kernel # None /\ executing = e

\* A queued entry of the doc that this generation has taken in is waiting in
\* KernelState: it is not dropped from the local queue and left queued.
NoForgottenQueued ==
  kernel # None => \A e \in seen : execStatus[e] = "queued" => e \in Range(queue)

\* An execution whose kernel published an error is never recorded as done:
\* its CellError is handled before its ExecutionDone (flush_for_ordering).
ErrorNeverRecordedDone == \A e \in raised : execStatus[e] # "done"

\* The queue clients see is the queue of KernelState.
QueueProjected ==
  kernel # None /\ pc = "loop" =>
    /\ docQueue.queued = queue
    /\ docQueue.executing \in {executing, None}
    /\ docQueue.executing = None => executing = None \/ hadError

\* One request is with the kernel at a time, also across interrupts: the next
\* one waits for the interrupted one's idle, unless a second interrupt
\* dropped the gate.
OneRequestInKernel == kernel # None /\ ~gateDropped => Len(shell) <= 1

\* The gate of a live kernel still has its idle to come, unless the idle was
\* handled before the interrupt closed the gate.
IdleOwed(e) ==
  \/ e \in Range(shell)
  \/ \E i \in 1 .. Len(signals) : signals[i] = Signal("KernelIdle", e)

GateStranded ==
  kernel # None /\ interruptPending # None /\ ~IdleOwed(interruptPending)

\* What the comment on KernelState::interrupt claims of the gate: no request is
\* sent to the kernel before the interrupted one is idle.
InterruptGateHolds == kernel # None => Len(shell) <= 1

\* What RuntimeStateDoc's readers rely on: a Running lifecycle has a kernel.
RunningHasKernel == lifecycle = "Running" => kernel # None

-----------------------------------------------------------------------------
(* What a step may never do, and what must eventually happen.              *)

\* An execution admitted to a kernel gets a terminal status, or the kernel
\* goes away, or the interrupt gate is stranded.
AdmittedSettles ==
  \A e \in Execs :
    (kernel # None /\ execStatus[e] \in {"queued", "running"} /\ e \in seen)
      ~> (execStatus[e] \in Terminal \/ kernel = None \/ GateStranded)

\* What the comment on KernelState::kernel_idle claims: the idle of the
\* interrupted execution opens the gate.
GateOpens ==
  (kernel # None /\ interruptPending # None)
    ~> (kernel = None \/ interruptPending = None)

\* A kernel whose process exited leaves the slot, so a new one can follow.
ExitIsNoticed == (kernel # None /\ ~alive) ~> (kernel = None \/ alive)

=============================================================================
