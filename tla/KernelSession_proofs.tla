------------------------ MODULE KernelSession_proofs ------------------------
(***************************************************************************)
(* Proofs about KernelSession, for every value of its constants.           *)
(***************************************************************************)
EXTENDS KernelSession, SequenceTheorems, TLAPS

-----------------------------------------------------------------------------
(* The operators the actions are built from.                               *)

\* None, which is 0, is not an execution.
LEMMA NoneIsNoExec == None \notin Execs
BY DEF None, Execs

\* set_execution_done keeps the executions map well formed.
LEMMA SetExecutionDoneType ==
  ASSUME NEW st \in [Execs -> ExecStatuses], NEW e \in Execs, NEW success \in BOOLEAN
  PROVE  SetExecutionDone(st, e, success) \in [Execs -> ExecStatuses]
BY DEF SetExecutionDone, ExecStatuses, Terminal

\* So does set_execution_cancelled.
LEMMA SetCancelledType ==
  ASSUME NEW st \in [Execs -> ExecStatuses], NEW es
  PROVE  SetCancelled(st, es) \in [Execs -> ExecStatuses]
BY DEF SetCancelled, ExecStatuses, Terminal

\* abort_inflight_executions keeps the map well formed and leaves nothing
\* queued or running.
LEMMA AbortInflightType ==
  ASSUME NEW st \in [Execs -> ExecStatuses]
  PROVE  /\ AbortInflight(st) \in [Execs -> ExecStatuses]
         /\ \A e \in Execs : AbortInflight(st)[e] \notin {"queued", "running"}
BY DEF AbortInflight, ExecStatuses, Terminal

\* What a teardown writes is well formed and settles every entry.
LEMMA ResolveInflightType ==
  ASSUME NEW st \in [Execs -> ExecStatuses], NEW running \in Execs \cup {None}, NEW es
  PROVE  /\ ResolveInflight(st, running, es) \in [Execs -> ExecStatuses]
         /\ \A e \in Execs : ResolveInflight(st, running, es)[e] \notin {"queued", "running"}
<1> DEFINE failed == IF running = None THEN st ELSE SetExecutionDone(st, running, FALSE)
<1>1. failed \in [Execs -> ExecStatuses]
  BY SetExecutionDoneType
<1>2. SetCancelled(failed, es) \in [Execs -> ExecStatuses]
  BY <1>1, SetCancelledType
<1> QED
  BY <1>2, AbortInflightType DEF ResolveInflight

\* The empty projection of the queue.
LEMMA EmptyQueueType == EmptyQueue \in QueueProjections
BY EmptySeq DEF EmptyQueue, QueueProjections

\* The projection of a queue whose head was started.
LEMMA StartedQueueType ==
  ASSUME NEW q \in Seq(Execs), q # <<>>
  PROVE  StartedQueue(q) \in QueueProjections
BY HeadTailProperties DEF StartedQueue, QueueProjections

\* Starting the head of a queue yields well-formed values.
LEMMA StartType ==
  ASSUME NEW q \in Seq(Execs), q # <<>>, NEW st \in [Execs -> ExecStatuses]
  PROVE  /\ Head(q) \in Execs /\ Tail(q) \in Seq(Execs)
         /\ StartedQueue(q) \in QueueProjections
         /\ [st EXCEPT ![Head(q)] = "running"] \in [Execs -> ExecStatuses]
<1>1. Head(q) \in Execs /\ Tail(q) \in Seq(Execs)
  BY HeadTailProperties
<1>2. [st EXCEPT ![Head(q)] = "running"] \in [Execs -> ExecStatuses]
  BY <1>1 DEF ExecStatuses
<1> QED
  BY <1>1, <1>2, StartedQueueType

\* Counting a request.
LEMMA SentType ==
  ASSUME NEW f \in [Execs -> Nat], NEW e \in Execs
  PROVE  [f EXCEPT ![e] = @ + 1] \in [Execs -> Nat]
OBVIOUS

-----------------------------------------------------------------------------
(* Type correctness.                                                       *)

\* A signal the channel holds is well formed.
LEMMA HeadSignal ==
  ASSUME KernelTypeOK, signals # <<>>
  PROVE  /\ Head(signals).exec \in Execs \cup {None}
         /\ Tail(signals) \in Seq(Signals)
<1>1. Head(signals) \in Signals /\ Tail(signals) \in Seq(Signals)
  BY HeadTailProperties DEF KernelTypeOK
<1> QED
  BY <1>1 DEF Signals

\* A signal is put at the end of the channel.
LEMMA AppendSignal ==
  ASSUME KernelTypeOK, NEW t \in SignalTypes, NEW e \in Execs \cup {None}
  PROVE  Append(signals, Signal(t, e)) \in Seq(Signals)
<1>1. Signal(t, e) \in Signals
  BY DEF Signals, Signal
<1> QED
  BY <1>1, AppendProperties DEF KernelTypeOK

\* What the admission of one execution does to the types.
LEMMA TypeAdmitNext ==
  ASSUME TypeOK, NEW e \in Execs, NEW w \in DocWrites, NEW w2 \in DocWrites,
         NEW ok \in BOOLEAN, AdmitNext(e, w, w2, ok)
  PROVE  TypeOK'
<1> USE DEF TypeOK
<1>1. /\ todo' \subseteq Execs /\ seen' \subseteq Execs
      /\ UNCHANGED <<pc, pendingLaunch, kernel, handle, gen, alive, flushing,
                     outCommits, doneCommits, deathReports, signals, raised, gateDropped>>
  BY DEF AdmitNext, LoopTypeOK
<1>2. LoopTypeOK'
  BY <1>1 DEF LoopTypeOK
<1>3. CASE HandedOver(e) \/ e = executing \/ e \in Range(queue)
  <2>1. UNCHANGED <<stateVars, docVars, shell, sent>>
    BY <1>3 DEF AdmitNext
  <2>2. StateTypeOK' /\ DocTypeOK'
    BY <2>1 DEF StateTypeOK, DocTypeOK, stateVars, docVars
  <2>3. KernelTypeOK' /\ HistoryTypeOK'
    BY <1>1, <2>1 DEF KernelTypeOK, HistoryTypeOK
  <2> QED
    BY <1>2, <2>2, <2>3
<1>4. CASE ~(HandedOver(e) \/ e = executing \/ e \in Range(queue))
  <2> DEFINE q == Append(queue, e)
             dq == IF w THEN [executing |-> executing, queued |-> q] ELSE docQueue
  <2>1. q \in Seq(Execs)
    BY AppendProperties DEF StateTypeOK
  <2>2. dq \in QueueProjections
    BY <2>1 DEF StateTypeOK, DocTypeOK, QueueProjections
  <2>3. ProcessNext(executing, q, interruptPending, status, execStatus, dq, w2, ok)
    BY <1>4 DEF AdmitNext
  <2>4. UNCHANGED <<hadError, interruptPending, lifecycle>>
    BY <1>4 DEF AdmitNext
  <2> HIDE DEF q, dq
  <2>5. /\ executing' \in Execs \cup {None} /\ queue' \in Seq(Execs)
        /\ status' \in {"Starting", "Idle", "Busy", "Dead", "ShuttingDown"}
        /\ execStatus' \in [Execs -> ExecStatuses] /\ docQueue' \in QueueProjections
        /\ shell' \in Seq(Execs) /\ sent' \in [Execs -> Nat]
    <3>1. CASE ~MayStart(executing, interruptPending, q)
      <4>1. /\ executing' = executing /\ queue' = q /\ status' = status
            /\ execStatus' = execStatus /\ docQueue' = dq
            /\ UNCHANGED <<shell, sent>>
        BY <2>3, <3>1 DEF ProcessNext
      <4> QED
        BY <2>1, <2>2, <4>1 DEF StateTypeOK, DocTypeOK, KernelTypeOK, HistoryTypeOK
    <3>2. CASE MayStart(executing, interruptPending, q)
      <4>1. /\ executing' = Head(q) /\ queue' = Tail(q) /\ status' = "Busy"
            /\ execStatus' \in {[execStatus EXCEPT ![Head(q)] = "running"], execStatus}
            /\ docQueue' \in {StartedQueue(q), dq}
            /\ shell' \in {Append(shell, Head(q)), shell}
            /\ sent' \in {[sent EXCEPT ![Head(q)] = @ + 1], sent}
        BY <2>3, <3>2 DEF ProcessNext, SendExecute
      <4>2. q # <<>>
        BY <3>2 DEF MayStart
      <4>3. /\ Head(q) \in Execs /\ Tail(q) \in Seq(Execs)
            /\ StartedQueue(q) \in QueueProjections
            /\ [execStatus EXCEPT ![Head(q)] = "running"] \in [Execs -> ExecStatuses]
        BY <2>1, <4>2, StartType DEF DocTypeOK
      <4>4. Append(shell, Head(q)) \in Seq(Execs)
        BY <4>3, AppendProperties DEF KernelTypeOK
      <4>5. [sent EXCEPT ![Head(q)] = @ + 1] \in [Execs -> Nat]
        BY <4>3, SentType DEF HistoryTypeOK
      <4> QED
        BY <2>2, <4>1, <4>3, <4>4, <4>5 DEF DocTypeOK, KernelTypeOK, HistoryTypeOK
    <3> QED
      BY <3>1, <3>2
  <2>6. StateTypeOK' /\ DocTypeOK'
    BY <2>4, <2>5 DEF StateTypeOK, DocTypeOK
  <2>7. KernelTypeOK' /\ HistoryTypeOK'
    BY <1>1, <2>5 DEF KernelTypeOK, HistoryTypeOK
  <2> QED
    BY <1>2, <2>6, <2>7
<1> QED
  BY <1>3, <1>4

\* A group of variables that does not change keeps its types.
LEMMA Frame ==
  ASSUME TypeOK
  PROVE  /\ UNCHANGED <<loopVars, slotVars>> => LoopTypeOK'
         /\ UNCHANGED stateVars => StateTypeOK'
         /\ UNCHANGED docVars => DocTypeOK'
         /\ UNCHANGED <<kernelVars, signals>> => KernelTypeOK'
         /\ UNCHANGED ghostVars => HistoryTypeOK'
<1>1. UNCHANGED <<loopVars, slotVars>> => LoopTypeOK'
  BY DEF TypeOK, LoopTypeOK, loopVars, slotVars
<1>2. UNCHANGED stateVars => StateTypeOK'
  BY DEF TypeOK, StateTypeOK, stateVars
<1>3. UNCHANGED docVars => DocTypeOK'
  BY DEF TypeOK, DocTypeOK, docVars
<1>4. UNCHANGED <<kernelVars, signals>> => KernelTypeOK'
  BY DEF TypeOK, KernelTypeOK, kernelVars
<1>5. UNCHANGED ghostVars => HistoryTypeOK'
  BY DEF TypeOK, HistoryTypeOK, ghostVars
<1> QED
  BY <1>1, <1>2, <1>3, <1>4, <1>5

\* The steps of the agent loop keep the types.
LEMMA TypeHandler ==
  ASSUME TypeOK, Handler
  PROVE  TypeOK'
<1> USE BoundsAssumption, DocWritesAssumption DEF TypeOK
<1>1. ASSUME NEW w \in DocWrites, AdmitDone(w)
      PROVE  TypeOK'
  <2>1. UNCHANGED <<stateVars, kernelVars, signals, ghostVars>>
    BY <1>1 DEF AdmitDone
  <2>2. LoopTypeOK'
    BY <1>1 DEF AdmitDone, LoopTypeOK, slotVars
  <2>3. DocTypeOK'
    BY <1>1 DEF AdmitDone, DocTypeOK
  <2> QED
    BY <2>1, <2>2, <2>3, Frame
<1>2. ASSUME NEW w \in DocWrites, KernelLaunched(w)
      PROVE  TypeOK'
  <2>1. LoopTypeOK'
    <3>1. handle' \in BOOLEAN /\ todo' \subseteq Execs
      BY <1>2 DEF KernelLaunched, Reset, LoopTypeOK, GetQueuedExecutions
    <3>2. kernel' \in 0 .. MaxGenerations
      BY <1>2 DEF KernelLaunched, Reset, KernelTypeOK
    <3> QED
      BY <1>2, <3>1, <3>2 DEF KernelLaunched, Reset, LoopTypeOK
  <2>2. StateTypeOK'
    <3>1. hadError' \in BOOLEAN /\ queue' \in Seq(Execs)
      BY <1>2, EmptySeq DEF KernelLaunched, Reset
    <3> QED
      BY <1>2, <3>1 DEF KernelLaunched, Reset, StateTypeOK, None
  <2>3. DocTypeOK'
    BY <1>2 DEF KernelLaunched, Reset, DocTypeOK
  <2>4. KernelTypeOK'
    <3>1. alive' \in BOOLEAN
      BY <1>2 DEF KernelLaunched, Reset
    <3>2. /\ shell' \in Seq(Execs) /\ outCommits' \in Seq(Execs)
          /\ doneCommits' \in Seq(Execs) /\ signals' \in Seq(Signals)
      BY <1>2, EmptySeq DEF KernelLaunched, Reset
    <3>3. gen' \in 0 .. MaxGenerations /\ deathReports' \in 0 .. MaxDeathReports
      BY <1>2 DEF KernelLaunched, Reset, KernelTypeOK
    <3>4. flushing' \in Execs \cup {None}
      BY <1>2 DEF KernelLaunched, Reset
    <3> QED
      BY <3>1, <3>2, <3>3, <3>4 DEF KernelTypeOK
  <2>5. HistoryTypeOK'
    <3>1. gateDropped' \in BOOLEAN
      BY <1>2 DEF KernelLaunched, Reset
    <3> QED
      BY <1>2, <3>1 DEF KernelLaunched, Reset, HistoryTypeOK
  <2> QED
    BY <2>1, <2>2, <2>3, <2>4, <2>5
<1>3. ASSUME NEW w \in DocWrites, NEW r \in BOOLEAN, LaunchFailed(r, w)
      PROVE  TypeOK'
  <2>1. UNCHANGED <<stateVars, kernelVars, signals, ghostVars>>
    BY <1>3 DEF LaunchFailed
  <2>2. LoopTypeOK'
    <3>1. handle' \in BOOLEAN
      BY <1>3 DEF LaunchFailed
    <3> QED
      BY <1>3, <3>1 DEF LaunchFailed, LoopTypeOK
  <2>3. DocTypeOK'
    BY <1>3, AbortInflightType DEF LaunchFailed, DocTypeOK
  <2> QED
    BY <2>1, <2>2, <2>3, Frame
<1> QED
  BY <1>1, <1>2, <1>3, TypeAdmitNext DEF Handler

\* The requests of the coordinator keep the types.
LEMMA TypeRequest ==
  ASSUME TypeOK, Request
  PROVE  TypeOK'
<1> USE BoundsAssumption, DocWritesAssumption DEF TypeOK
<1>1. ASSUME NEW n \in 0 .. MaxExecs, ReceiveSync(n)
      PROVE  TypeOK'
  <2>1. UNCHANGED <<stateVars, kernelVars, signals, ghostVars>>
    BY <1>1 DEF ReceiveSync
  <2>2. LoopTypeOK'
    BY <1>1 DEF ReceiveSync, LoopTypeOK, slotVars, GetQueuedExecutions
  <2>3. DocTypeOK'
    BY <1>1 DEF ReceiveSync, DocTypeOK, ExecStatuses
  <2> QED
    BY <2>1, <2>2, <2>3, Frame
<1>2. ASSUME NEW w \in DocWrites, LaunchKernel(w)
      PROVE  TypeOK'
  <2>1. UNCHANGED <<stateVars, kernelVars, signals, ghostVars>>
    BY <1>2 DEF LaunchKernel
  <2>2. LoopTypeOK'
    BY <1>2 DEF LaunchKernel, LoopTypeOK, slotVars
  <2>3. DocTypeOK'
    BY <1>2 DEF LaunchKernel, DocTypeOK
  <2> QED
    BY <2>1, <2>2, <2>3, Frame
<1>3. ASSUME NEW w \in DocWrites, NEW w2 \in DocWrites, RestartKernel(w, w2)
      PROVE  TypeOK'
  <2>1. UNCHANGED <<stateVars, ghostVars>>
    BY <1>3 DEF RestartKernel
  <2>2. LoopTypeOK'
    BY <1>3 DEF RestartKernel, LoopTypeOK, None
  <2>3. DocTypeOK'
    <3>1. /\ execStatus' \in {ResolveInflight(execStatus, executing, Range(queue)), execStatus}
          /\ docQueue' \in {EmptyQueue, docQueue}
          /\ lifecycle' \in {"Launching", lifecycle}
      BY <1>3 DEF RestartKernel
    <3>2. ResolveInflight(execStatus, executing, Range(queue)) \in [Execs -> ExecStatuses]
      BY ResolveInflightType DEF DocTypeOK, StateTypeOK
    <3> QED
      BY <3>1, <3>2, EmptyQueueType DEF DocTypeOK
  <2>4. KernelTypeOK'
    <3>1. alive' \in BOOLEAN
      BY <1>3 DEF RestartKernel
    <3> QED
      BY <1>3, <3>1 DEF RestartKernel, KernelTypeOK
  <2> QED
    BY <2>1, <2>2, <2>3, <2>4, Frame
<1>4. ASSUME NEW w \in DocWrites, InterruptExecution(w)
      PROVE  TypeOK'
  <2>1. UNCHANGED <<loopVars, slotVars, kernelVars, signals>>
    BY <1>4 DEF InterruptExecution, Interrupt
  <2>2. StateTypeOK'
    <3>1. hadError' \in BOOLEAN /\ queue' \in Seq(Execs)
      BY <1>4, EmptySeq DEF InterruptExecution, Interrupt
    <3> QED
      BY <1>4, <3>1 DEF InterruptExecution, Interrupt, StateTypeOK
  <2>3. DocTypeOK'
    <3>1. /\ execStatus' \in {ResolveInflight(execStatus, executing, Range(queue)), execStatus}
          /\ docQueue' \in {EmptyQueue, docQueue}
          /\ lifecycle' \in {"Running", lifecycle}
      BY <1>4 DEF InterruptExecution, Interrupt, docVars
    <3>2. ResolveInflight(execStatus, executing, Range(queue)) \in [Execs -> ExecStatuses]
      BY ResolveInflightType DEF DocTypeOK, StateTypeOK
    <3> QED
      BY <3>1, <3>2, EmptyQueueType DEF DocTypeOK
  <2>4. HistoryTypeOK'
    <3>1. gateDropped' \in BOOLEAN
      BY <1>4 DEF InterruptExecution, Interrupt
    <3> QED
      BY <1>4, <3>1 DEF InterruptExecution, Interrupt, HistoryTypeOK
  <2> QED
    BY <2>1, <2>2, <2>3, <2>4, Frame
<1>5. ASSUME NEW w \in DocWrites, ShutdownKernel(w)
      PROVE  TypeOK'
  <2>1. UNCHANGED ghostVars
    BY <1>5 DEF ShutdownKernel, Shutdown
  <2>2. LoopTypeOK'
    <3>1. handle' \in BOOLEAN
      BY <1>5 DEF ShutdownKernel, Shutdown
    <3> QED
      BY <1>5, <3>1 DEF ShutdownKernel, Shutdown, LoopTypeOK, loopVars, None
  <2>3. StateTypeOK'
    <3>1. hadError' \in BOOLEAN /\ queue' \in Seq(Execs)
      BY <1>5, EmptySeq DEF ShutdownKernel, Shutdown
    <3> QED
      BY <1>5, <3>1 DEF ShutdownKernel, Shutdown, StateTypeOK
  <2>4. DocTypeOK'
    <3>1. /\ execStatus' \in {ResolveInflight(execStatus, executing, Range(queue)), execStatus}
          /\ docQueue' \in {EmptyQueue, docQueue}
          /\ lifecycle' \in {"Shutdown", lifecycle}
      BY <1>5 DEF ShutdownKernel, Shutdown, docVars
    <3>2. ResolveInflight(execStatus, executing, Range(queue)) \in [Execs -> ExecStatuses]
      BY ResolveInflightType DEF DocTypeOK, StateTypeOK
    <3> QED
      BY <3>1, <3>2, EmptyQueueType DEF DocTypeOK
  <2>5. KernelTypeOK'
    <3>1. alive' \in BOOLEAN
      BY <1>5 DEF ShutdownKernel, Shutdown
    <3> QED
      BY <1>5, <3>1 DEF ShutdownKernel, Shutdown, KernelTypeOK
  <2> QED
    BY <2>1, <2>2, <2>3, <2>4, <2>5, Frame
<1> QED
  BY <1>1, <1>2, <1>3, <1>4, <1>5 DEF Request

\* Handling ExecutionDone keeps the types.
LEMMA TypeOnExecutionDone ==
  ASSUME TypeOK, NEW w \in DocWrites, NEW w2 \in DocWrites, NEW ok \in BOOLEAN,
         OnExecutionDone(w, w2, ok)
  PROVE  TypeOK'
<1> USE DEF TypeOK
<1> DEFINE e == Head(signals).exec
           st == IF w THEN SetExecutionDone(execStatus, e, ~hadError) ELSE execStatus
           dq == IF w THEN [executing |-> None, queued |-> queue] ELSE docQueue
<1>1. /\ UNCHANGED <<loopVars, slotVars>>
      /\ UNCHANGED <<gen, alive, flushing, outCommits, doneCommits, deathReports,
                     raised, gateDropped>>
  BY DEF OnExecutionDone
<1>2. signals # <<>> /\ signals' = Tail(signals)
  BY DEF OnExecutionDone, Receives
<1>3. signals' \in Seq(Signals)
  BY <1>2, HeadSignal
<1>4. CASE ~(kernel # None /\ e = executing)
  <2>1. UNCHANGED <<stateVars, docVars, shell, sent>>
    BY <1>4 DEF OnExecutionDone
  <2>2. KernelTypeOK' /\ HistoryTypeOK'
    BY <1>1, <1>3, <2>1 DEF KernelTypeOK, HistoryTypeOK
  <2> QED
    BY <1>1, <2>1, <2>2, Frame
<1>5. CASE kernel # None /\ e = executing
  <2>1. ProcessNext(None, queue, interruptPending, "Idle", st, dq, w2, ok)
    BY <1>5 DEF OnExecutionDone
  <2>2. UNCHANGED <<interruptPending, lifecycle>> /\ hadError' \in BOOLEAN
    BY <1>5 DEF OnExecutionDone
  <2>3. st \in [Execs -> ExecStatuses]
    <3>1. CASE e \in Execs
      BY <3>1, SetExecutionDoneType DEF StateTypeOK, DocTypeOK
    <3>2. CASE e \notin Execs
      <4>1. SetExecutionDone(execStatus, e, ~hadError) = execStatus
        BY <3>2 DEF SetExecutionDone, DocTypeOK
      <4> QED
        BY <4>1 DEF DocTypeOK
    <3> QED
      BY <3>1, <3>2
  <2>4. dq \in QueueProjections
    BY DEF StateTypeOK, DocTypeOK, QueueProjections
  <2> HIDE DEF st, dq
  <2>5. /\ executing' \in Execs \cup {None} /\ queue' \in Seq(Execs)
        /\ status' \in {"Starting", "Idle", "Busy", "Dead", "ShuttingDown"}
        /\ execStatus' \in [Execs -> ExecStatuses] /\ docQueue' \in QueueProjections
        /\ shell' \in Seq(Execs) /\ sent' \in [Execs -> Nat]
    <3>1. CASE ~MayStart(None, interruptPending, queue)
      <4>1. /\ executing' = None /\ queue' = queue /\ status' = "Idle"
            /\ execStatus' = st /\ docQueue' = dq
            /\ UNCHANGED <<shell, sent>>
        BY <2>1, <3>1 DEF ProcessNext
      <4> QED
        BY <2>3, <2>4, <4>1 DEF StateTypeOK, KernelTypeOK, HistoryTypeOK
    <3>2. CASE MayStart(None, interruptPending, queue)
      <4>1. /\ executing' = Head(queue) /\ queue' = Tail(queue) /\ status' = "Busy"
            /\ execStatus' \in {[st EXCEPT ![Head(queue)] = "running"], st}
            /\ docQueue' \in {StartedQueue(queue), dq}
            /\ shell' \in {Append(shell, Head(queue)), shell}
            /\ sent' \in {[sent EXCEPT ![Head(queue)] = @ + 1], sent}
        BY <2>1, <3>2 DEF ProcessNext, SendExecute
      <4>2. queue # <<>>
        BY <3>2 DEF MayStart
      <4>3. /\ Head(queue) \in Execs /\ Tail(queue) \in Seq(Execs)
            /\ StartedQueue(queue) \in QueueProjections
            /\ [st EXCEPT ![Head(queue)] = "running"] \in [Execs -> ExecStatuses]
        BY <2>3, <4>2, StartType DEF StateTypeOK
      <4>4. Append(shell, Head(queue)) \in Seq(Execs)
        BY <4>3, AppendProperties DEF KernelTypeOK
      <4>5. [sent EXCEPT ![Head(queue)] = @ + 1] \in [Execs -> Nat]
        BY <4>3, SentType DEF HistoryTypeOK
      <4> QED
        BY <2>3, <2>4, <4>1, <4>3, <4>4, <4>5 DEF KernelTypeOK, HistoryTypeOK
    <3> QED
      BY <3>1, <3>2
  <2>6. StateTypeOK' /\ DocTypeOK'
    BY <2>2, <2>5 DEF StateTypeOK, DocTypeOK
  <2>7. KernelTypeOK' /\ HistoryTypeOK'
    BY <1>1, <1>3, <2>5 DEF KernelTypeOK, HistoryTypeOK
  <2> QED
    BY <1>1, <2>6, <2>7, Frame
<1> QED
  BY <1>4, <1>5

\* Handling KernelIdle keeps the types.
LEMMA TypeOnKernelIdle ==
  ASSUME TypeOK, NEW w \in DocWrites, NEW ok \in BOOLEAN, OnKernelIdle(w, ok)
  PROVE  TypeOK'
<1> USE DEF TypeOK
<1> DEFINE opens == kernel # None /\ interruptPending # None
                      /\ interruptPending = Head(signals).exec
<1>1. /\ UNCHANGED <<loopVars, slotVars>>
      /\ UNCHANGED <<gen, alive, flushing, outCommits, doneCommits, deathReports,
                     raised, gateDropped>>
  BY DEF OnKernelIdle
<1>2. signals # <<>> /\ signals' = Tail(signals)
  BY DEF OnKernelIdle, Receives
<1>3. signals' \in Seq(Signals)
  BY <1>2, HeadSignal
<1>4. CASE ~opens
  <2>1. UNCHANGED <<stateVars, docVars, shell, sent>>
    BY <1>4 DEF OnKernelIdle
  <2>2. KernelTypeOK' /\ HistoryTypeOK'
    BY <1>1, <1>3, <2>1 DEF KernelTypeOK, HistoryTypeOK
  <2> QED
    BY <1>1, <2>1, <2>2, Frame
<1>5. CASE opens
  <2>1. ProcessNext(executing, queue, None, "Idle", execStatus, docQueue, w, ok)
    BY <1>5 DEF OnKernelIdle
  <2>2. UNCHANGED <<hadError, lifecycle>> /\ interruptPending' = None
    BY <1>5 DEF OnKernelIdle
  <2>3. /\ executing' \in Execs \cup {None} /\ queue' \in Seq(Execs)
        /\ status' \in {"Starting", "Idle", "Busy", "Dead", "ShuttingDown"}
        /\ execStatus' \in [Execs -> ExecStatuses] /\ docQueue' \in QueueProjections
        /\ shell' \in Seq(Execs) /\ sent' \in [Execs -> Nat]
    <3>1. CASE ~MayStart(executing, None, queue)
      <4>1. /\ executing' = executing /\ queue' = queue /\ status' = "Idle"
            /\ execStatus' = execStatus /\ docQueue' = docQueue
            /\ UNCHANGED <<shell, sent>>
        BY <2>1, <3>1 DEF ProcessNext
      <4> QED
        BY <4>1 DEF StateTypeOK, DocTypeOK, KernelTypeOK, HistoryTypeOK
    <3>2. CASE MayStart(executing, None, queue)
      <4>1. /\ executing' = Head(queue) /\ queue' = Tail(queue) /\ status' = "Busy"
            /\ execStatus' \in {[execStatus EXCEPT ![Head(queue)] = "running"], execStatus}
            /\ docQueue' \in {StartedQueue(queue), docQueue}
            /\ shell' \in {Append(shell, Head(queue)), shell}
            /\ sent' \in {[sent EXCEPT ![Head(queue)] = @ + 1], sent}
        BY <2>1, <3>2 DEF ProcessNext, SendExecute
      <4>2. queue # <<>>
        BY <3>2 DEF MayStart
      <4>3. /\ Head(queue) \in Execs /\ Tail(queue) \in Seq(Execs)
            /\ StartedQueue(queue) \in QueueProjections
            /\ [execStatus EXCEPT ![Head(queue)] = "running"] \in [Execs -> ExecStatuses]
        BY <4>2, StartType DEF StateTypeOK, DocTypeOK
      <4>4. Append(shell, Head(queue)) \in Seq(Execs)
        BY <4>3, AppendProperties DEF KernelTypeOK
      <4>5. [sent EXCEPT ![Head(queue)] = @ + 1] \in [Execs -> Nat]
        BY <4>3, SentType DEF HistoryTypeOK
      <4> QED
        BY <4>1, <4>3, <4>4, <4>5 DEF DocTypeOK, KernelTypeOK, HistoryTypeOK
    <3> QED
      BY <3>1, <3>2
  <2>4. StateTypeOK' /\ DocTypeOK'
    BY <2>2, <2>3 DEF StateTypeOK, DocTypeOK
  <2>5. KernelTypeOK' /\ HistoryTypeOK'
    BY <1>1, <1>3, <2>3 DEF KernelTypeOK, HistoryTypeOK
  <2> QED
    BY <1>1, <2>4, <2>5, Frame
<1> QED
  BY <1>4, <1>5

\* Handling any signal keeps the types.
LEMMA TypeOnSignal ==
  ASSUME TypeOK, OnSignal
  PROVE  TypeOK'
<1> USE DocWritesAssumption DEF TypeOK
<1>1. ASSUME NEW w \in DocWrites, OnCellError(w)
      PROVE  TypeOK'
  <2>1. /\ UNCHANGED <<loopVars, slotVars, ghostVars>>
        /\ UNCHANGED <<executing, interruptPending, status, lifecycle, kernelVars>>
    BY <1>1 DEF OnCellError
  <2>2. StateTypeOK'
    <3>1. hadError' \in BOOLEAN /\ queue' \in Seq(Execs)
      BY <1>1, EmptySeq DEF OnCellError, StateTypeOK
    <3> QED
      BY <2>1, <3>1 DEF StateTypeOK
  <2>3. DocTypeOK'
    <3>1. /\ execStatus' \in {SetCancelled(execStatus, Range(queue)), execStatus}
          /\ docQueue' \in {EmptyQueue, docQueue}
      BY <1>1 DEF OnCellError
    <3>2. SetCancelled(execStatus, Range(queue)) \in [Execs -> ExecStatuses]
      BY SetCancelledType DEF DocTypeOK
    <3> QED
      BY <2>1, <3>1, <3>2, EmptyQueueType DEF DocTypeOK
  <2>4. KernelTypeOK'
    <3>1. signals' \in Seq(Signals)
      BY <1>1, HeadSignal DEF OnCellError, Receives
    <3> QED
      BY <2>1, <3>1 DEF KernelTypeOK, kernelVars
  <2> QED
    BY <2>1, <2>2, <2>3, <2>4, Frame
<1>2. ASSUME NEW w \in DocWrites, OnKernelDied(w)
      PROVE  TypeOK'
  <2>1. /\ UNCHANGED <<loopVars, handle, gen, shell, flushing, outCommits,
                       doneCommits, deathReports>>
        /\ UNCHANGED ghostVars
    BY <1>2 DEF OnKernelDied, Died
  <2>2. LoopTypeOK'
    <3>1. kernel' \in {None, kernel} /\ seen' = {}
      BY <1>2 DEF OnKernelDied, Died
    <3> QED
      BY <2>1, <3>1, BoundsAssumption DEF LoopTypeOK, loopVars, None
  <2>3. StateTypeOK'
    <3>1. /\ executing' \in {None, executing} /\ queue' \in {<<>>, queue}
          /\ status' \in {"Dead", status} /\ UNCHANGED <<hadError, interruptPending>>
      BY <1>2 DEF OnKernelDied, Died, stateVars
    <3> QED
      BY <3>1, EmptySeq DEF StateTypeOK
  <2>4. DocTypeOK'
    <3> DEFINE resolved == ResolveInflight(execStatus, executing, Range(queue))
    <3>1. /\ execStatus' \in {AbortInflight(execStatus), resolved, execStatus}
          /\ docQueue' \in {EmptyQueue, docQueue} /\ lifecycle' \in {"Error", lifecycle}
      BY <1>2 DEF OnKernelDied, Died, docVars
    <3>2. AbortInflight(execStatus) \in [Execs -> ExecStatuses]
      BY AbortInflightType DEF DocTypeOK
    <3>3. resolved \in [Execs -> ExecStatuses]
      BY ResolveInflightType DEF DocTypeOK, StateTypeOK
    <3> QED
      BY <3>1, <3>2, <3>3, EmptyQueueType DEF DocTypeOK
  <2>5. KernelTypeOK'
    <3>1. signals' \in Seq(Signals)
      BY <1>2, HeadSignal DEF OnKernelDied, Died, Receives
    <3>2. alive' \in BOOLEAN
      BY <1>2 DEF OnKernelDied, Died, KernelTypeOK
    <3> QED
      BY <2>1, <3>1, <3>2 DEF KernelTypeOK
  <2> QED
    BY <2>1, <2>2, <2>3, <2>4, <2>5, Frame
<1> QED
  BY <1>1, <1>2, TypeOnExecutionDone, TypeOnKernelIdle DEF OnSignal

\* The kernel and its tasks keep the types.
LEMMA TypeKernelTask ==
  ASSUME TypeOK, KernelTask
  PROVE  TypeOK'
<1> USE BoundsAssumption DEF TypeOK
<1>1. ASSUME KernelRaises PROVE TypeOK'
  <2>1. UNCHANGED <<loopVars, slotVars, stateVars, docVars>>
    BY <1>1 DEF KernelRaises
  <2>2. Head(shell) \in Execs
    BY <1>1, HeadTailProperties DEF KernelRaises, KernelTypeOK
  <2>3. KernelTypeOK'
    <3>1. outCommits' \in Seq(Execs)
      BY <1>1, <2>2, AppendProperties DEF KernelRaises, KernelTypeOK
    <3> QED
      BY <1>1, <3>1 DEF KernelRaises, KernelTypeOK
  <2>4. HistoryTypeOK'
    BY <1>1, <2>2 DEF KernelRaises, HistoryTypeOK
  <2> QED
    BY <2>1, <2>3, <2>4, Frame
<1>2. ASSUME KernelReportsIdle PROVE TypeOK'
  <2>1. UNCHANGED <<loopVars, slotVars, stateVars, docVars, ghostVars>>
    BY <1>2 DEF KernelReportsIdle
  <2>2. Head(shell) \in Execs /\ Tail(shell) \in Seq(Execs)
    BY <1>2, HeadTailProperties DEF KernelReportsIdle, KernelTypeOK
  <2>3. signals' \in Seq(Signals)
    BY <1>2, <2>2, AppendSignal DEF KernelReportsIdle, SignalTypes
  <2>4. KernelTypeOK'
    BY <1>2, <2>2, <2>3 DEF KernelReportsIdle, KernelTypeOK
  <2> QED
    BY <2>1, <2>4, Frame
<1>3. ASSUME FlushedForOrdering PROVE TypeOK'
  <2>1. UNCHANGED <<loopVars, slotVars, stateVars, docVars, ghostVars>>
    BY <1>3 DEF FlushedForOrdering
  <2>2. doneCommits' \in Seq(Execs)
    BY <1>3, AppendProperties DEF FlushedForOrdering, KernelTypeOK
  <2>3. KernelTypeOK'
    BY <1>3, <2>2 DEF FlushedForOrdering, KernelTypeOK
  <2> QED
    BY <2>1, <2>3, Frame
<1>4. ASSUME CommitOutput PROVE TypeOK'
  <2>1. UNCHANGED <<loopVars, slotVars, stateVars, docVars, ghostVars>>
    BY <1>4 DEF CommitOutput
  <2>2. Head(outCommits) \in Execs /\ Tail(outCommits) \in Seq(Execs)
    BY <1>4, HeadTailProperties DEF CommitOutput, KernelTypeOK
  <2>3. signals' \in Seq(Signals)
    BY <1>4, <2>2, AppendSignal DEF CommitOutput, SignalTypes
  <2>4. KernelTypeOK'
    BY <1>4, <2>2, <2>3 DEF CommitOutput, KernelTypeOK
  <2> QED
    BY <2>1, <2>4, Frame
<1>5. ASSUME CommitStream PROVE TypeOK'
  <2>1. UNCHANGED <<loopVars, slotVars, stateVars, docVars, ghostVars>>
    BY <1>5 DEF CommitStream
  <2>2. Head(doneCommits) \in Execs /\ Tail(doneCommits) \in Seq(Execs)
    BY <1>5, HeadTailProperties DEF CommitStream, KernelTypeOK
  <2>3. signals' \in Seq(Signals)
    BY <1>5, <2>2, AppendSignal DEF CommitStream, SignalTypes
  <2>4. KernelTypeOK'
    BY <1>5, <2>2, <2>3 DEF CommitStream, KernelTypeOK
  <2> QED
    BY <2>1, <2>4, Frame
<1>6. ASSUME NEW k \in 0 .. MaxExecs, KernelExits(k) PROVE TypeOK'
  <2>1. UNCHANGED <<loopVars, slotVars, stateVars, docVars, ghostVars>>
    BY <1>6 DEF KernelExits
  <2>2. shell' \in Seq(Execs)
    <3>1. shell \in Seq(Execs) /\ k <= Len(shell) /\ shell' = SubSeq(shell, 1, k)
      BY <1>6 DEF KernelExits, KernelTypeOK
    <3> QED
      BY <3>1, SubSeqProperties
  <2>3. alive' \in BOOLEAN
    BY <1>6 DEF KernelExits
  <2>4. KernelTypeOK'
    BY <1>6, <2>2, <2>3 DEF KernelExits, KernelTypeOK
  <2> QED
    BY <2>1, <2>4, Frame
<1>7. ASSUME ReportDeath PROVE TypeOK'
  <2>1. UNCHANGED <<loopVars, slotVars, stateVars, docVars, ghostVars>>
    BY <1>7 DEF ReportDeath
  <2>2. signals' \in Seq(Signals)
    BY <1>7, AppendSignal DEF ReportDeath, SignalTypes
  <2>3. deathReports' \in 0 .. MaxDeathReports
    BY <1>7 DEF ReportDeath, KernelTypeOK
  <2>4. KernelTypeOK'
    BY <1>7, <2>2, <2>3 DEF ReportDeath, KernelTypeOK
  <2> QED
    BY <2>1, <2>4, Frame
<1> QED
  BY <1>1, <1>2, <1>3, <1>4, <1>5, <1>6, <1>7 DEF KernelTask

\* The initial state has the types.
LEMMA TypeInit == Init => TypeOK
<1> SUFFICES ASSUME Init PROVE TypeOK
  OBVIOUS
<1> USE BoundsAssumption
<1>1. LoopTypeOK
  <2>1. handle \in BOOLEAN
    BY DEF Init
  <2> QED
    BY <2>1 DEF Init, LoopTypeOK, None
<1>2. StateTypeOK
  <2>1. hadError \in BOOLEAN
    BY DEF Init
  <2> QED
    BY <2>1, EmptySeq DEF Init, StateTypeOK
<1>3. DocTypeOK
  BY EmptyQueueType DEF Init, DocTypeOK, ExecStatuses
<1>4. KernelTypeOK
  <2>1. alive \in BOOLEAN
    BY DEF Init
  <2> QED
    BY <2>1, EmptySeq DEF Init, KernelTypeOK
<1>5. HistoryTypeOK
  <2>1. gateDropped \in BOOLEAN
    BY DEF Init
  <2> QED
    BY <2>1 DEF Init, HistoryTypeOK
<1> QED
  BY <1>1, <1>2, <1>3, <1>4, <1>5 DEF TypeOK

\* The model of the agent loop, the execution state machine and the kernel
\* tasks is type correct: statuses, queues and signals stay well formed
\* through every interleaving, crash and failed write.
THEOREM TypeCorrect == Spec => []TypeOK
<1>1. TypeOK /\ [Next]_vars => TypeOK'
  <2> SUFFICES ASSUME TypeOK, [Next]_vars PROVE TypeOK'
    OBVIOUS
  <2>1. CASE UNCHANGED vars
    BY <2>1, Frame DEF vars, TypeOK
  <2> QED
    BY <2>1, TypeHandler, TypeOnSignal, TypeRequest, TypeKernelTask DEF Next
<1> QED
  BY <1>1, TypeInit, PTL DEF Spec

-----------------------------------------------------------------------------
(* No generation of the kernel is sent an execution twice.  What excludes  *)
(* it is spread over the loop: the seen ids, the local queue, and the      *)
(* executing slot with the interrupt gate.  SubmitInv relates the three.   *)

\* The bookkeeping for a queue q, the requests s already sent and the ids sn
\* already seen: what was sent was seen, and what waits was seen, waits once
\* and was not sent.
Fresh(q, s, sn) ==
  /\ \A e \in Execs : s[e] <= 1 /\ (s[e] > 0 => e \in sn)
  /\ \A i \in 1 .. Len(q) : q[i] \in sn /\ s[q[i]] = 0
  /\ \A i, j \in 1 .. Len(q) : i # j => q[i] # q[j]

\* The worklist is only non-empty while the loop admits into a kernel.
AdmittingHasKernel == todo # {} => kernel # None /\ pc = "admitting"

\* Nothing waits for a kernel that could take it.
IdleQueueEmpty == executing = None /\ interruptPending = None => queue = <<>>

\* SubmittedOncePerGeneration with what makes it inductive.
SubmitInv ==
  /\ SubmittedOncePerGeneration
  /\ AdmittingHasKernel
  /\ kernel # None => /\ Fresh(queue, sent, seen)
                      /\ IdleQueueEmpty
                      /\ status # "ShuttingDown"

\* An empty queue keeps the bookkeeping.
LEMMA FreshEmpty ==
  ASSUME NEW q, NEW s, NEW sn, Fresh(q, s, sn)
  PROVE  Fresh(<<>>, s, sn)
BY DEF Fresh

\* Sending the head of the queue, or failing to, keeps the bookkeeping for
\* the rest.
LEMMA FreshStart ==
  ASSUME NEW q \in Seq(Execs), q # <<>>, NEW s \in [Execs -> Nat], NEW sn,
         Fresh(q, s, sn), NEW t \in {[s EXCEPT ![Head(q)] = @ + 1], s}
  PROVE  Fresh(Tail(q), t, sn)
<1>1. /\ Head(q) = q[1] /\ Head(q) \in Execs /\ Len(q) \in Nat /\ 1 <= Len(q)
      /\ Len(Tail(q)) = Len(q) - 1
      /\ \A i \in 1 .. Len(Tail(q)) : Tail(q)[i] = q[i + 1]
  BY HeadTailProperties, EmptySeq, LenProperties
<1>2. \A i \in 1 .. Len(q) : q[i] \in Execs
  BY ElementOfSeq
<1>3. s[Head(q)] = 0 /\ Head(q) \in sn
  BY <1>1 DEF Fresh
<1>4. /\ \A e \in Execs : e # Head(q) => t[e] = s[e]
      /\ t[Head(q)] \in {0, 1}
  BY <1>1, <1>3
<1>5. \A e \in Execs : t[e] <= 1 /\ (t[e] > 0 => e \in sn)
  BY <1>3, <1>4 DEF Fresh
<1>6. ASSUME NEW i \in 1 .. Len(Tail(q))
      PROVE  Tail(q)[i] \in sn /\ t[Tail(q)[i]] = 0
  <2>1. i + 1 \in 1 .. Len(q) /\ i + 1 # 1 /\ 1 \in 1 .. Len(q)
    BY <1>1
  <2>2. q[i + 1] # q[1] /\ q[i + 1] \in sn /\ s[q[i + 1]] = 0
    BY <2>1 DEF Fresh
  <2> QED
    BY <1>1, <1>2, <1>4, <2>1, <2>2
<1>7. ASSUME NEW i \in 1 .. Len(Tail(q)), NEW j \in 1 .. Len(Tail(q)), i # j
      PROVE  Tail(q)[i] # Tail(q)[j]
  <2>1. i + 1 \in 1 .. Len(q) /\ j + 1 \in 1 .. Len(q) /\ i + 1 # j + 1
    BY <1>1, <1>7
  <2> QED
    BY <1>1, <2>1 DEF Fresh
<1> QED
  BY <1>5, <1>6, <1>7 DEF Fresh

\* Admitting an execution not seen before keeps the bookkeeping.
LEMMA FreshAppend ==
  ASSUME NEW q \in Seq(Execs), NEW s \in [Execs -> Nat], NEW sn,
         NEW e \in Execs, e \notin sn, Fresh(q, s, sn)
  PROVE  Fresh(Append(q, e), s, sn \cup {e})
<1>1. /\ Len(q) \in Nat /\ Len(Append(q, e)) = Len(q) + 1
      /\ \A i \in 1 .. Len(q) : Append(q, e)[i] = q[i]
      /\ Append(q, e)[Len(q) + 1] = e
  BY AppendProperties, LenProperties
<1>2. s[e] = 0
  BY DEF Fresh
<1>3. \A i \in 1 .. Len(q) : q[i] \in sn /\ q[i] # e
  BY DEF Fresh
<1>4. \A i \in 1 .. Len(Append(q, e)) : i \in 1 .. Len(q) \/ i = Len(q) + 1
  BY <1>1
<1>5. ASSUME NEW i \in 1 .. Len(Append(q, e))
      PROVE  Append(q, e)[i] \in sn \cup {e} /\ s[Append(q, e)[i]] = 0
  BY <1>1, <1>2, <1>4, <1>5 DEF Fresh
<1>6. ASSUME NEW i \in 1 .. Len(Append(q, e)), NEW j \in 1 .. Len(Append(q, e)), i # j
      PROVE  Append(q, e)[i] # Append(q, e)[j]
  BY <1>1, <1>3, <1>4, <1>6 DEF Fresh
<1> QED
  BY <1>5, <1>6 DEF Fresh

\* Marking one more id seen keeps the bookkeeping.
LEMMA FreshSeen ==
  ASSUME NEW q, NEW s, NEW sn, NEW e, Fresh(q, s, sn)
  PROVE  Fresh(q, s, sn \cup {e})
BY DEF Fresh

\* One turn of queue_synced_executions keeps SubmitInv.
LEMMA SubmitAdmitNext ==
  ASSUME TypeOK, SubmitInv, NEW e \in Execs, NEW w \in DocWrites,
         NEW w2 \in DocWrites, NEW ok \in BOOLEAN, AdmitNext(e, w, w2, ok)
  PROVE  SubmitInv'
<1>1. /\ kernel # None /\ pc = "admitting" /\ UNCHANGED <<kernel, pc>>
      /\ todo' = todo \ {e}
  BY DEF AdmitNext, SubmitInv, AdmittingHasKernel
<1>2. Fresh(queue, sent, seen) /\ IdleQueueEmpty /\ status # "ShuttingDown"
  BY <1>1 DEF SubmitInv
<1>3. AdmittingHasKernel'
  BY <1>1 DEF AdmittingHasKernel
<1>4. SUFFICES Fresh(queue', sent', seen') /\ IdleQueueEmpty' /\ status' # "ShuttingDown"
  BY <1>3, <1>4 DEF SubmitInv, SubmittedOncePerGeneration, Fresh
<1>5. CASE HandedOver(e) \/ e = executing \/ e \in Range(queue)
  <2>1. UNCHANGED <<stateVars, sent>> /\ seen' \in {seen, seen \cup {e}}
    BY <1>5 DEF AdmitNext
  <2>2. IdleQueueEmpty' /\ status' # "ShuttingDown"
    BY <1>2, <2>1 DEF stateVars, IdleQueueEmpty
  <2>3. Fresh(queue, sent, seen) /\ Fresh(queue, sent, seen \cup {e})
    BY <1>2, FreshSeen
  <2>4. queue' = queue /\ sent' = sent
    BY <2>1 DEF stateVars
  <2> QED
    BY <2>1, <2>2, <2>3, <2>4
<1>6. CASE ~(HandedOver(e) \/ e = executing \/ e \in Range(queue))
  <2> DEFINE q == Append(queue, e)
             dq == IF w THEN [executing |-> executing, queued |-> q] ELSE docQueue
  <2>1. /\ ProcessNext(executing, q, interruptPending, status, execStatus, dq, w2, ok)
        /\ seen' = IF ok \/ queue' = q THEN seen \cup {e} ELSE seen
        /\ interruptPending' = interruptPending
    BY <1>6 DEF AdmitNext
  <2>2. q \in Seq(Execs) /\ q # <<>>
    BY AppendProperties DEF TypeOK, StateTypeOK
  <2>3. Fresh(q, sent, seen \cup {e})
    BY <1>2, <1>6, FreshAppend DEF HandedOver, TypeOK, StateTypeOK, HistoryTypeOK
  <2>4. CASE ~MayStart(executing, interruptPending, q)
    <3>1. executing' = executing /\ queue' = q /\ status' = status /\ sent' = sent
      BY <2>1, <2>4 DEF ProcessNext
    <3>2. executing # None \/ interruptPending # None
      BY <2>2, <2>4 DEF MayStart
    <3> QED
      BY <1>2, <2>1, <2>3, <3>1, <3>2 DEF IdleQueueEmpty
  <2>5. CASE MayStart(executing, interruptPending, q)
    <3>1. queue = <<>>
      BY <1>2, <2>5 DEF MayStart, IdleQueueEmpty
    <3>2. q = <<e>> /\ Head(q) = e /\ Tail(q) = <<>>
      BY <3>1
    <3>3. /\ executing' = Head(q) /\ queue' = Tail(q) /\ status' = "Busy"
          /\ sent' = IF ok THEN [sent EXCEPT ![Head(q)] = @ + 1] ELSE sent
      BY <2>1, <2>5 DEF ProcessNext, SendExecute
    <3>4. Fresh(queue', sent', seen')
      <4>1. CASE ok
        <5>1. seen' = seen \cup {e} /\ sent' = [sent EXCEPT ![Head(q)] = @ + 1]
          BY <2>1, <3>3, <4>1
        <5>2. Fresh(Tail(q), sent', seen \cup {e})
          BY <2>2, <2>3, <5>1, FreshStart DEF TypeOK, HistoryTypeOK
        <5> QED
          BY <3>3, <5>1, <5>2
      <4>2. CASE ~ok
        <5>1. queue' = <<>> /\ sent' = sent /\ seen' \in {seen, seen \cup {e}}
          BY <2>1, <3>2, <3>3, <4>2
        <5>2. Fresh(<<>>, sent, seen) /\ Fresh(<<>>, sent, seen \cup {e})
          BY <1>2, <2>3, FreshEmpty
        <5> QED
          BY <5>1, <5>2
      <4> QED
        BY <4>1, <4>2
    <3> QED
      BY <3>2, <3>3, <3>4, NoneIsNoExec DEF IdleQueueEmpty
  <2> QED
    BY <2>4, <2>5
<1> QED
  BY <1>5, <1>6

\* Completion of the running execution starts the next one once.
LEMMA SubmitOnExecutionDone ==
  ASSUME TypeOK, SubmitInv, NEW w \in DocWrites, NEW w2 \in DocWrites,
         NEW ok \in BOOLEAN, OnExecutionDone(w, w2, ok)
  PROVE  SubmitInv'
<1> DEFINE e == Head(signals).exec
           st == IF w THEN SetExecutionDone(execStatus, e, ~hadError) ELSE execStatus
           dq == IF w THEN [executing |-> None, queued |-> queue] ELSE docQueue
<1>1. UNCHANGED <<loopVars, slotVars>>
  BY DEF OnExecutionDone
<1>2. AdmittingHasKernel'
  BY <1>1 DEF SubmitInv, AdmittingHasKernel, loopVars, slotVars
<1>3. CASE ~(kernel # None /\ e = executing)
  <2>1. UNCHANGED <<stateVars, sent>>
    BY <1>3 DEF OnExecutionDone
  <2> QED
    BY <1>1, <1>2, <2>1 DEF SubmitInv, SubmittedOncePerGeneration, Fresh, IdleQueueEmpty,
      stateVars, slotVars
<1>4. CASE kernel # None /\ e = executing
  <2>1. /\ ProcessNext(None, queue, interruptPending, "Idle", st, dq, w2, ok)
        /\ interruptPending' = interruptPending
    BY <1>4 DEF OnExecutionDone
  <2>2. Fresh(queue, sent, seen)
    BY <1>4 DEF SubmitInv
  <2>3. Fresh(queue', sent', seen) /\ IdleQueueEmpty' /\ status' # "ShuttingDown"
    <3>1. CASE ~MayStart(None, interruptPending, queue)
      <4>1. executing' = None /\ queue' = queue /\ status' = "Idle" /\ sent' = sent
        BY <2>1, <3>1 DEF ProcessNext
      <4> QED
        BY <2>1, <2>2, <3>1, <4>1 DEF MayStart, IdleQueueEmpty
    <3>2. CASE MayStart(None, interruptPending, queue)
      <4>1. /\ executing' = Head(queue) /\ queue' = Tail(queue) /\ status' = "Busy"
            /\ sent' \in {[sent EXCEPT ![Head(queue)] = @ + 1], sent}
        BY <2>1, <3>2 DEF ProcessNext, SendExecute
      <4>2. queue \in Seq(Execs) /\ queue # <<>> /\ Head(queue) \in Execs
        BY <3>2, HeadTailProperties DEF MayStart, TypeOK, StateTypeOK
      <4>3. Fresh(Tail(queue), sent', seen)
        BY <2>2, <4>1, <4>2, FreshStart DEF TypeOK, HistoryTypeOK
      <4> QED
        BY <4>1, <4>2, <4>3, NoneIsNoExec DEF IdleQueueEmpty
    <3> QED
      BY <3>1, <3>2
  <2>4. SubmittedOncePerGeneration'
    BY <2>3 DEF SubmittedOncePerGeneration, Fresh
  <2> QED
    BY <1>1, <1>2, <2>3, <2>4 DEF SubmitInv, slotVars
<1> QED
  BY <1>3, <1>4

\* So does the idle that opens the interrupt gate.
LEMMA SubmitOnKernelIdle ==
  ASSUME TypeOK, SubmitInv, NEW w \in DocWrites, NEW ok \in BOOLEAN,
         OnKernelIdle(w, ok)
  PROVE  SubmitInv'
<1> DEFINE opens == kernel # None /\ interruptPending # None
                      /\ interruptPending = Head(signals).exec
<1>1. UNCHANGED <<loopVars, slotVars>>
  BY DEF OnKernelIdle
<1>2. AdmittingHasKernel'
  BY <1>1 DEF SubmitInv, AdmittingHasKernel, loopVars, slotVars
<1>3. CASE ~opens
  <2>1. UNCHANGED <<stateVars, sent>>
    BY <1>3 DEF OnKernelIdle
  <2> QED
    BY <1>1, <1>2, <2>1 DEF SubmitInv, SubmittedOncePerGeneration, Fresh, IdleQueueEmpty,
      stateVars, slotVars
<1>4. CASE opens
  <2>1. ProcessNext(executing, queue, None, "Idle", execStatus, docQueue, w, ok)
    BY <1>4 DEF OnKernelIdle
  <2>2. Fresh(queue, sent, seen)
    BY <1>4 DEF SubmitInv
  <2>3. Fresh(queue', sent', seen) /\ IdleQueueEmpty' /\ status' # "ShuttingDown"
    <3>1. CASE ~MayStart(executing, None, queue)
      <4>1. executing' = executing /\ queue' = queue /\ status' = "Idle" /\ sent' = sent
        BY <2>1, <3>1 DEF ProcessNext
      <4> QED
        BY <2>2, <3>1, <4>1 DEF MayStart, IdleQueueEmpty
    <3>2. CASE MayStart(executing, None, queue)
      <4>1. /\ executing' = Head(queue) /\ queue' = Tail(queue) /\ status' = "Busy"
            /\ sent' \in {[sent EXCEPT ![Head(queue)] = @ + 1], sent}
        BY <2>1, <3>2 DEF ProcessNext, SendExecute
      <4>2. queue \in Seq(Execs) /\ queue # <<>> /\ Head(queue) \in Execs
        BY <3>2, HeadTailProperties DEF MayStart, TypeOK, StateTypeOK
      <4>3. Fresh(Tail(queue), sent', seen)
        BY <2>2, <4>1, <4>2, FreshStart DEF TypeOK, HistoryTypeOK
      <4> QED
        BY <4>1, <4>2, <4>3, NoneIsNoExec DEF IdleQueueEmpty
    <3> QED
      BY <3>1, <3>2
  <2>4. SubmittedOncePerGeneration'
    BY <2>3 DEF SubmittedOncePerGeneration, Fresh
  <2> QED
    BY <1>1, <1>2, <2>3, <2>4 DEF SubmitInv, slotVars
<1> QED
  BY <1>3, <1>4

\* Every other step keeps SubmitInv: it empties the queue, empties the kernel
\* slot, starts a generation from nothing, or touches none of this.
LEMMA SubmitOther ==
  ASSUME TypeOK, SubmitInv,
         \/ \E w \in DocWrites : AdmitDone(w)
         \/ \E w \in DocWrites : KernelLaunched(w)
         \/ \E w \in DocWrites, r \in BOOLEAN : LaunchFailed(r, w)
         \/ \E w \in DocWrites : OnCellError(w)
         \/ \E w \in DocWrites : OnKernelDied(w)
         \/ Request
         \/ KernelTask
         \/ UNCHANGED vars
  PROVE  SubmitInv'
<1> DEFINE same == UNCHANGED <<loopVars, slotVars, stateVars, sent>>
<1>1. ASSUME same PROVE SubmitInv'
  BY <1>1 DEF SubmitInv, SubmittedOncePerGeneration, AdmittingHasKernel, Fresh,
    IdleQueueEmpty, loopVars, slotVars, stateVars
<1> HIDE DEF same
<1>2. ASSUME kernel' = None, todo' = {}, sent' = sent PROVE SubmitInv'
  BY <1>2 DEF SubmitInv, SubmittedOncePerGeneration, AdmittingHasKernel
<1>3. pc # "admitting" => todo = {}
  BY DEF SubmitInv, AdmittingHasKernel
<1>4. ASSUME NEW w \in DocWrites, AdmitDone(w) PROVE SubmitInv'
  BY <1>4 DEF AdmitDone, SubmitInv, SubmittedOncePerGeneration, AdmittingHasKernel, Fresh,
    IdleQueueEmpty, slotVars, stateVars, ghostVars
<1>5. ASSUME NEW w \in DocWrites, KernelLaunched(w) PROVE SubmitInv'
  <2>1. kernel' # None
    BY <1>5 DEF KernelLaunched, Reset, None, TypeOK, KernelTypeOK
  <2>2. AdmittingHasKernel'
    BY <1>3, <1>5, <2>1 DEF KernelLaunched, Reset, AdmittingHasKernel
  <2>3. Fresh(<<>>, [e \in Execs |-> 0], {})
    BY DEF Fresh
  <2>4. queue' = <<>> /\ sent' = [e \in Execs |-> 0] /\ seen' = {} /\ status' = "Idle"
    BY <1>5 DEF KernelLaunched, Reset
  <2>5. Fresh(queue', sent', seen')
    BY <2>3, <2>4
  <2> QED
    BY <2>2, <2>4, <2>5 DEF SubmitInv, SubmittedOncePerGeneration, IdleQueueEmpty, Fresh
<1>6. ASSUME NEW w \in DocWrites, NEW r \in BOOLEAN, LaunchFailed(r, w) PROVE SubmitInv'
  BY <1>3, <1>6 DEF LaunchFailed, SubmitInv, SubmittedOncePerGeneration,
    AdmittingHasKernel, Fresh, IdleQueueEmpty, stateVars, ghostVars
<1>7. ASSUME NEW w \in DocWrites, OnCellError(w) PROVE SubmitInv'
  <2>1. /\ queue' \in {<<>>, queue}
        /\ UNCHANGED <<pc, todo, kernel, seen, executing, interruptPending, status, sent>>
    BY <1>7 DEF OnCellError, loopVars, slotVars, ghostVars
  <2>2. kernel # None => Fresh(queue, sent, seen) /\ Fresh(<<>>, sent, seen)
    BY FreshEmpty DEF SubmitInv
  <2>3. kernel' # None => Fresh(queue', sent', seen')
    BY <2>1, <2>2
  <2> QED
    BY <2>1, <2>3 DEF SubmitInv, SubmittedOncePerGeneration, AdmittingHasKernel, IdleQueueEmpty
<1>8. ASSUME NEW w \in DocWrites, OnKernelDied(w) PROVE SubmitInv'
  <2>1. todo' = {} /\ sent' = sent
    BY <1>3, <1>8 DEF OnKernelDied, Died, Receives, loopVars, ghostVars
  <2>2. kernel' = None
    BY <1>8 DEF OnKernelDied, Died, ExpectedExit, SubmitInv
  <2> QED
    BY <1>2, <2>1, <2>2
<1>9. ASSUME Request PROVE SubmitInv'
  <2>1. ASSUME NEW n \in 0 .. MaxExecs, ReceiveSync(n) PROVE SubmitInv'
    BY <2>1 DEF ReceiveSync, SubmitInv, SubmittedOncePerGeneration, AdmittingHasKernel,
      Fresh, IdleQueueEmpty, slotVars, stateVars, ghostVars
  <2>2. ASSUME NEW w \in DocWrites, LaunchKernel(w) PROVE SubmitInv'
    BY <1>3, <2>2 DEF LaunchKernel, SubmitInv, SubmittedOncePerGeneration,
      AdmittingHasKernel, slotVars, ghostVars
  <2>3. ASSUME NEW w \in DocWrites, NEW w2 \in DocWrites, RestartKernel(w, w2)
        PROVE  SubmitInv'
    BY <1>2, <1>3, <2>3 DEF RestartKernel, ghostVars
  <2>4. ASSUME NEW w \in DocWrites, InterruptExecution(w) PROVE SubmitInv'
    <3>1. /\ UNCHANGED <<pc, todo, kernel, seen, sent>> /\ queue' = <<>>
          /\ status' # "ShuttingDown"
      BY <2>4 DEF InterruptExecution, Interrupt, loopVars, slotVars
    <3>2. kernel # None => Fresh(<<>>, sent, seen)
      BY FreshEmpty DEF SubmitInv
    <3>3. kernel' # None => Fresh(queue', sent', seen')
      BY <3>1, <3>2
    <3> QED
      BY <3>1, <3>3 DEF SubmitInv, SubmittedOncePerGeneration, AdmittingHasKernel, IdleQueueEmpty
  <2>5. ASSUME NEW w \in DocWrites, ShutdownKernel(w) PROVE SubmitInv'
    BY <1>2, <1>3, <2>5 DEF ShutdownKernel, Shutdown, loopVars, ghostVars
  <2> QED
    BY <1>9, <2>1, <2>2, <2>3, <2>4, <2>5 DEF Request
<1>10. ASSUME KernelTask PROVE SubmitInv'
  <2>1. same
    BY <1>10 DEF same, KernelTask, KernelRaises, KernelReportsIdle, FlushedForOrdering,
      CommitOutput, CommitStream, KernelExits, ReportDeath, ghostVars
  <2> QED
    BY <1>1, <2>1
<1>11. ASSUME UNCHANGED vars PROVE SubmitInv'
  BY <1>1, <1>11 DEF same, vars, ghostVars
<1> QED
  BY <1>4, <1>5, <1>6, <1>7, <1>8, <1>9, <1>10, <1>11

\* Whatever document writes fail, whenever the kernel dies and however
\* signals, interrupts and requests interleave, no kernel is sent the same
\* execution twice: the seen ids of queue_synced_executions, the queue and
\* the interrupt gate of KernelState together keep side effects single.
THEOREM SubmittedOnce == Spec => []SubmittedOncePerGeneration
<1>1. Init => SubmitInv
  BY DEF Init, SubmitInv, SubmittedOncePerGeneration, AdmittingHasKernel
<1>2. TypeOK /\ SubmitInv /\ [Next]_vars => SubmitInv'
  BY SubmitAdmitNext, SubmitOnExecutionDone, SubmitOnKernelIdle, SubmitOther
    DEF Next, Handler, OnSignal
<1>3. SubmitInv => SubmittedOncePerGeneration
  BY DEF SubmitInv
<1> QED
  BY <1>1, <1>2, <1>3, TypeCorrect, PTL DEF Spec

=============================================================================
