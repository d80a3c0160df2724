---------------------- MODULE KernelSessionTasks_proofs ----------------------
(***************************************************************************)
(* Proofs about KernelSession: the requests that are with the kernel and   *)
(* what its tasks report of them.                                          *)
(***************************************************************************)
EXTENDS KernelSessionDoc_proofs

-----------------------------------------------------------------------------
(* A request leaves the shell channel when its idle is read, and is then on *)
(* its way through the IOPub task, the stream committer and the lifecycle   *)
(* channel.  Since a generation is sent each execution once, no execution   *)
(* is ever on both sides: what is reported is not with the kernel any more. *)

\* Executions with an idle or a completion in the lifecycle channel.
Reported ==
  {e \in Execs : \E i \in 1 .. Len(signals) :
     signals[i].type \in {"KernelIdle", "ExecutionDone"} /\ signals[i].exec = e}

\* Executions whose idle has been read.
Past == {e \in Execs : e = flushing} \cup Range(doneCommits) \cup Reported

Tokens ==
  /\ \A e \in Range(shell) : sent[e] >= 1 /\ e \notin Past
  /\ \A e \in Past : sent[e] >= 1
  /\ \A i, j \in 1 .. Len(shell) : i # j => shell[i] # shell[j]

\* Unless an interrupt dropped the gate, what is with the kernel is what runs or
\* what the gate waits for; only one of the two is ever there.
OneAtATime ==
  kernel # None =>
    /\ executing = None \/ interruptPending = None
    /\ ~gateDropped => Len(shell) <= 1 /\ Range(shell) \subseteq {executing, interruptPending}

RequestInv == Tokens /\ OneAtATime

\* The types this part needs.
LEMMA TaskTypes ==
  ASSUME TypeOK
  PROVE  /\ shell \in Seq(Execs) /\ doneCommits \in Seq(Execs) /\ outCommits \in Seq(Execs)
         /\ Range(shell) \subseteq Execs /\ Range(doneCommits) \subseteq Execs
         /\ Range(outCommits) \subseteq Execs
         /\ signals \in Seq(Signals) /\ flushing \in Execs \cup {None}
         /\ sent \in [Execs -> Nat] /\ executing \in Execs \cup {None}
         /\ interruptPending \in Execs \cup {None} /\ raised \subseteq Execs
         /\ Len(shell) \in Nat /\ Len(signals) \in Nat /\ Past \subseteq Execs
<1>1. /\ shell \in Seq(Execs) /\ doneCommits \in Seq(Execs) /\ outCommits \in Seq(Execs)
      /\ signals \in Seq(Signals) /\ flushing \in Execs \cup {None}
      /\ sent \in [Execs -> Nat] /\ executing \in Execs \cup {None}
      /\ interruptPending \in Execs \cup {None} /\ raised \subseteq Execs
  BY DEF TypeOK, KernelTypeOK, StateTypeOK, HistoryTypeOK
<1>2. /\ Range(shell) \subseteq Execs /\ Range(doneCommits) \subseteq Execs
      /\ Range(outCommits) \subseteq Execs
  BY <1>1, RangeType
<1>3. Len(shell) \in Nat /\ Len(signals) \in Nat
  BY <1>1, LenProperties
<1>4. Past \subseteq Execs
  BY <1>2 DEF Past, Reported
<1> QED
  BY <1>1, <1>2, <1>3, <1>4

\* A queue whose elements are all None has none, and an empty one has length 0.
LEMMA NoElements ==
  ASSUME NEW q \in Seq(Execs), Range(q) \subseteq {None}
  PROVE  q = <<>> /\ Len(q) = 0 /\ Range(q) = {}
<1>1. ASSUME q # <<>> PROVE FALSE
  <2>1. Head(q) \in Execs
    BY <1>1, HeadTailProperties
  <2>2. Head(q) \in Range(q)
    BY <1>1, <2>1, RangeFacts
  <2> QED
    BY <2>1, <2>2, NoneIsNoExec
<1> QED
  BY <1>1, RangeType, EmptySeq

\* Taking a signal reports nothing new; an idle or a completion that is taken was
\* reported.
LEMMA SignalTaken ==
  ASSUME TypeOK, NEW t, Receives(t)
  PROVE  /\ Reported' \subseteq Reported
         /\ t \in {"KernelIdle", "ExecutionDone"} /\ Head(signals).exec # None
              => Head(signals).exec \in Reported
<1>1. signals \in Seq(Signals) /\ signals # <<>> /\ signals' = Tail(signals)
      /\ Head(signals).type = t
  BY DEF Receives, TypeOK, KernelTypeOK
<1>2. /\ Head(signals) = signals[1] /\ Len(signals) \in Nat /\ 1 <= Len(signals)
      /\ Len(signals') = Len(signals) - 1
      /\ \A i \in 1 .. Len(signals') : signals'[i] = signals[i + 1]
  BY <1>1, HeadTailProperties, EmptySeq, LenProperties
<1>3. \A i \in 1 .. Len(signals') : i + 1 \in 1 .. Len(signals)
  BY <1>2
<1>4. Reported' \subseteq Reported
  BY <1>2, <1>3 DEF Reported
<1>5. Head(signals).exec \in Execs \cup {None}
  BY <1>1, HeadSignal DEF TypeOK
<1>6. 1 \in 1 .. Len(signals)
  BY <1>2
<1> QED
  BY <1>1, <1>2, <1>4, <1>5, <1>6 DEF Reported

\* A signal that is sent.
LEMMA SignalSent ==
  ASSUME TypeOK, NEW t \in SignalTypes, NEW e \in Execs \cup {None},
         signals' = Append(signals, Signal(t, e))
  PROVE  /\ Reported' = IF t \in {"KernelIdle", "ExecutionDone"}
                        THEN Reported \cup {x \in Execs : x = e} ELSE Reported
<1>1. Signal(t, e) \in Signals /\ Signal(t, e).type = t /\ Signal(t, e).exec = e
  BY DEF Signal, Signals
<1>2. signals \in Seq(Signals) /\ Len(signals) \in Nat
  BY TaskTypes
<1>3. /\ Len(signals') = Len(signals) + 1
      /\ \A i \in 1 .. Len(signals) : signals'[i] = signals[i]
      /\ signals'[Len(signals) + 1] = Signal(t, e)
  BY <1>1, <1>2, AppendProperties
<1>4. \A i \in 1 .. Len(signals) + 1 : i \in 1 .. Len(signals) \/ i = Len(signals) + 1
  BY <1>2
<1>5. /\ 1 .. Len(signals) \subseteq 1 .. Len(signals) + 1
      /\ Len(signals) + 1 \in 1 .. Len(signals) + 1
  BY <1>2
<1>6. Reported \subseteq Reported'
  BY <1>3, <1>5 DEF Reported
<1>7. t \in {"KernelIdle", "ExecutionDone"} /\ e \in Execs => e \in Reported'
  BY <1>1, <1>3, <1>5 DEF Reported
<1>8. \A x \in Reported' : x \in Reported \/ (t \in {"KernelIdle", "ExecutionDone"} /\ x = e)
  BY <1>1, <1>3, <1>4 DEF Reported
<1>9. Reported' \subseteq Execs
  BY DEF Reported
<1> QED
  BY <1>6, <1>7, <1>8, <1>9

\* A step that neither sends nor takes a request, and reports nothing new.
LEMMA TokensKept ==
  ASSUME TypeOK, Tokens, UNCHANGED <<shell, sent>>, Past' \subseteq Past
  PROVE  Tokens'
<1>1. \A e \in Range(shell) : sent[e] >= 1 /\ e \notin Past'
  BY DEF Tokens
<1> QED
  BY <1>1 DEF Tokens

\* An execute request goes out for an execution this generation was not sent.
LEMMA TokensSent ==
  ASSUME TypeOK, Tokens, NEW e \in Execs, sent[e] = 0, NEW ok \in BOOLEAN,
         SendExecute(e, ok), Past' \subseteq Past
  PROVE  /\ Tokens' /\ Range(shell') \subseteq Range(shell) \cup {e}
         /\ Len(shell') <= Len(shell) + 1
<1>1. /\ shell \in Seq(Execs) /\ Range(shell) \subseteq Execs /\ Len(shell) \in Nat
      /\ sent \in [Execs -> Nat] /\ Past \subseteq Execs
  BY TaskTypes
<1>2. \A x \in Execs : sent'[x] >= sent[x]
  BY <1>1 DEF SendExecute
<1>3. e \notin Past
  BY DEF Tokens
<1>4. \A x \in Past' : sent'[x] >= 1
  <2>1. \A x \in Past : sent[x] >= 1 /\ sent[x] \in Nat
    BY <1>1 DEF Tokens
  <2>2. \A x \in Execs : sent'[x] \in Nat
    BY <1>1 DEF SendExecute
  <2>3. \A x \in Past : sent'[x] >= 1
    BY <1>1, <1>2, <2>1, <2>2
  <2> QED
    BY <2>3
<1>5. CASE alive
  <2>1. ok /\ shell' = Append(shell, e) /\ sent' = [sent EXCEPT ![e] = @ + 1]
    BY <1>5 DEF SendExecute
  <2>2. Range(shell') = Range(shell) \cup {e} /\ Len(shell') = Len(shell) + 1
    BY <1>1, <2>1, RangeFacts, AppendProperties
  <2>3. sent'[e] = 1 /\ \A x \in Execs : x # e => sent'[x] = sent[x]
    BY <1>1, <2>1
  <2>4. \A x \in Range(shell') : sent'[x] >= 1 /\ x \notin Past'
    BY <1>1, <1>3, <2>2, <2>3 DEF Tokens
  <2>5. e \notin Range(shell)
    <3>1. ~(0 >= 1)
      OBVIOUS
    <3> QED
      BY <3>1 DEF Tokens
  <2>6. /\ \A i \in 1 .. Len(shell) : shell'[i] = shell[i] /\ shell[i] \in Range(shell)
        /\ shell'[Len(shell) + 1] = e
    <3>1. DOMAIN shell = 1 .. Len(shell)
      BY <1>1, LenProperties
    <3> QED
      BY <1>1, <2>1, <3>1, AppendProperties DEF Range
  <2>7. ASSUME NEW i \in 1 .. Len(shell'), NEW j \in 1 .. Len(shell'), i # j
        PROVE  shell'[i] # shell'[j]
    <3>1. /\ i \in 1 .. Len(shell) \/ i = Len(shell) + 1
          /\ j \in 1 .. Len(shell) \/ j = Len(shell) + 1
      BY <1>1, <2>2
    <3> QED
      BY <2>5, <2>6, <2>7, <3>1 DEF Tokens
  <2> QED
    BY <1>1, <1>4, <2>2, <2>4, <2>7 DEF Tokens
<1>6. CASE ~alive
  <2>1. shell' = shell
    BY <1>6 DEF SendExecute
  <2>2. \A x \in Range(shell) : sent'[x] >= 1 /\ x \notin Past'
    <3>1. \A x \in Execs : sent'[x] \in Nat /\ sent[x] \in Nat
      BY <1>1 DEF SendExecute
    <3> QED
      BY <1>1, <1>2, <3>1 DEF Tokens
  <2> QED
    BY <1>1, <1>4, <2>1, <2>2 DEF Tokens
<1> QED
  BY <1>5, <1>6
\* process_next, after a handler left `running` in the slot and `gate` as the
\* gate: it sends only when nothing can be with the kernel.
LEMMA RequestProcessNext ==
  ASSUME TypeOK, Tokens, UNCHANGED <<kernel, gateDropped>>, Past' \subseteq Past,
         NEW running \in Execs \cup {None}, NEW q \in Seq(Execs),
         NEW gate \in Execs \cup {None}, NEW base, NEW st, NEW dq,
         NEW w \in BOOLEAN, NEW ok \in BOOLEAN,
         ProcessNext(running, q, gate, base, st, dq, w, ok),
         q # <<>> => sent[Head(q)] = 0,
         interruptPending' = gate, running = None \/ gate = None,
         ~gateDropped => Len(shell) <= 1 /\ Range(shell) \subseteq {running, gate}
  PROVE  RequestInv'
<1>1. CASE ~MayStart(running, gate, q)
  <2>1. executing' = running /\ UNCHANGED <<shell, sent>>
    BY <1>1 DEF ProcessNext
  <2>2. Tokens'
    BY <2>1, TokensKept
  <2> QED
    BY <2>1, <2>2 DEF RequestInv, OneAtATime
<1>2. CASE MayStart(running, gate, q)
  <2>1. running = None /\ gate = None /\ q # <<>>
    BY <1>2 DEF MayStart
  <2>2. executing' = Head(q) /\ SendExecute(Head(q), ok)
    BY <1>2 DEF ProcessNext
  <2>3. Head(q) \in Execs /\ sent[Head(q)] = 0
    BY <2>1, HeadTailProperties
  <2>4. Tokens' /\ Range(shell') \subseteq Range(shell) \cup {Head(q)}
        /\ Len(shell') <= Len(shell) + 1
    BY <2>2, <2>3, TokensSent
  <2>5. ASSUME ~gateDropped PROVE Len(shell) = 0 /\ Range(shell) = {}
    <3>1. shell \in Seq(Execs) /\ Range(shell) \subseteq {None}
      BY <2>1, <2>5, TaskTypes
    <3> QED
      BY <3>1, NoElements
  <2>6. ~gateDropped => Len(shell') <= 1 /\ Range(shell') \subseteq {Head(q)}
    BY <2>4, <2>5
  <2> QED
    BY <2>1, <2>2, <2>4, <2>6 DEF RequestInv, OneAtATime
<1> QED
  BY <1>1, <1>2

\* A step that touches no request and at most empties the kernel slot.
LEMMA RequestFrame ==
  ASSUME TypeOK, RequestInv, UNCHANGED <<shell, sent>>, Past' \subseteq Past,
         \/ kernel' = None
         \/ UNCHANGED <<kernel, executing, interruptPending, gateDropped>>
  PROVE  RequestInv'
<1>1. Tokens'
  BY TokensKept DEF RequestInv
<1>2. OneAtATime'
  BY DEF RequestInv, OneAtATime
<1> QED
  BY <1>1, <1>2 DEF RequestInv

\* The steps of the loop.
LEMMA RequestHandler ==
  ASSUME TypeOK, TypeOK', SubmitInv, RequestInv, Handler
  PROVE  RequestInv'
<1>1. ASSUME NEW e \in Execs, NEW w \in DocWrites, NEW w2 \in DocWrites, NEW ok \in BOOLEAN,
             AdmitNext(e, w, w2, ok)
      PROVE  RequestInv'
  <2>1. /\ UNCHANGED <<kernel, gateDropped, flushing, doneCommits, signals>>
        /\ kernel # None
    BY <1>1 DEF AdmitNext, SubmitInv, AdmittingHasKernel
  <2>2. Past' \subseteq Past
    BY <2>1 DEF Past, Reported
  <2>3. CASE HandedOver(e) \/ e = executing \/ e \in Range(queue)
    <3>1. UNCHANGED <<stateVars, shell, sent>>
      BY <1>1, <2>3 DEF AdmitNext
    <3> QED
      BY <2>1, <2>2, <3>1, RequestFrame DEF stateVars
  <2>4. CASE ~(HandedOver(e) \/ e = executing \/ e \in Range(queue))
    <3> DEFINE q == Append(queue, e)
               dq == IF w THEN [executing |-> executing, queued |-> q] ELSE docQueue
    <3>1. /\ ProcessNext(executing, q, interruptPending, status, execStatus, dq, w2, ok)
          /\ interruptPending' = interruptPending
      BY <1>1, <2>4 DEF AdmitNext
    <3>2. w2 \in BOOLEAN /\ queue \in Seq(Execs)
      BY DocWritesAssumption DEF TypeOK, StateTypeOK
    <3>3. Fresh(queue, sent, seen) /\ sent \in [Execs -> Nat]
      BY <2>1, TaskTypes DEF SubmitInv
    <3>4. Fresh(q, sent, seen \cup {e}) /\ q \in Seq(Execs)
      BY <2>4, <3>2, <3>3, FreshAppend, AppendProperties DEF HandedOver
    <3>5. q # <<>> => sent[Head(q)] = 0
      <4> HIDE DEF q
      <4>1. q # <<>> => Head(q) = q[1] /\ 1 \in 1 .. Len(q)
        BY <3>4, HeadTailProperties, EmptySeq, LenProperties
      <4> QED
        BY <3>4, <4>1 DEF Fresh
    <3>6. /\ executing \in Execs \cup {None} /\ interruptPending \in Execs \cup {None}
          /\ executing = None \/ interruptPending = None
          /\ ~gateDropped => Len(shell) <= 1 /\ Range(shell) \subseteq {executing, interruptPending}
      BY <2>1, TaskTypes DEF RequestInv, OneAtATime
    <3> HIDE DEF q, dq
    <3> QED
      BY <2>1, <2>2, <3>1, <3>2, <3>4, <3>5, <3>6, RequestProcessNext DEF RequestInv
  <2> QED
    BY <2>3, <2>4
<1>2. ASSUME NEW w \in DocWrites, AdmitDone(w) PROVE RequestInv'
  <2>1. UNCHANGED <<shell, sent, flushing, doneCommits, signals, kernel, executing,
                    interruptPending, gateDropped>>
    BY <1>2 DEF AdmitDone, slotVars, stateVars, kernelVars, ghostVars
  <2>2. Past' \subseteq Past
    BY <2>1 DEF Past, Reported
  <2> QED
    BY <2>1, <2>2, RequestFrame
<1>3. ASSUME NEW w \in DocWrites, KernelLaunched(w) PROVE RequestInv'
  <2>1. /\ shell' = <<>> /\ doneCommits' = <<>> /\ signals' = <<>> /\ flushing' = None
        /\ executing' = None
    BY <1>3 DEF KernelLaunched, Reset
  <2>2. Range(<<>>) = {} /\ Len(<<>>) = 0
    BY EmptySeq DEF Range
  <2>3. Past' = {}
    BY <2>1, <2>2, NoneIsNoExec DEF Past, Reported
  <2>4. Tokens'
    BY <2>1, <2>2, <2>3 DEF Tokens
  <2> QED
    BY <2>1, <2>2, <2>4 DEF RequestInv, OneAtATime
<1>4. ASSUME NEW w \in DocWrites, NEW r \in BOOLEAN, LaunchFailed(r, w) PROVE RequestInv'
  <2>1. UNCHANGED <<shell, sent, flushing, doneCommits, signals, kernel, executing,
                    interruptPending, gateDropped>>
    BY <1>4 DEF LaunchFailed, stateVars, kernelVars, ghostVars
  <2>2. Past' \subseteq Past
    BY <2>1 DEF Past, Reported
  <2> QED
    BY <2>1, <2>2, RequestFrame
<1> QED
  BY <1>1, <1>2, <1>3, <1>4 DEF Handler

\* The requests: an interrupt hands what runs over to the gate.
LEMMA RequestRequest ==
  ASSUME TypeOK, TypeOK', RequestInv, Request
  PROVE  RequestInv'
<1>1. UNCHANGED <<shell, sent, flushing, doneCommits, signals>>
  BY DEF Request, ReceiveSync, LaunchKernel, RestartKernel, InterruptExecution,
    ShutdownKernel, kernelVars, ghostVars
<1>2. Past' \subseteq Past
  BY <1>1 DEF Past, Reported
<1>3. ASSUME NEW w \in DocWrites, InterruptExecution(w) PROVE RequestInv'
  <2>1. /\ interruptPending' = executing /\ executing' = None /\ UNCHANGED kernel
        /\ gateDropped' = (gateDropped \/ (executing = None /\ interruptPending # None))
    BY <1>3 DEF InterruptExecution, Interrupt, slotVars
  <2>2. Tokens'
    BY <1>1, <1>2, TokensKept DEF RequestInv
  <2>3. ASSUME kernel # None, ~gateDropped'
        PROVE  Len(shell) <= 1 /\ Range(shell) \subseteq {None, executing}
    <3>1. /\ executing = None \/ interruptPending = None
          /\ Len(shell) <= 1 /\ Range(shell) \subseteq {executing, interruptPending}
      BY <2>1, <2>3 DEF RequestInv, OneAtATime
    <3>2. interruptPending = None
      BY <2>1, <2>3, <3>1
    <3> QED
      BY <3>1, <3>2
  <2> QED
    BY <1>1, <2>1, <2>2, <2>3 DEF RequestInv, OneAtATime
<1>4. ASSUME \/ \E n \in 0 .. MaxExecs : ReceiveSync(n)
             \/ \E w \in DocWrites : LaunchKernel(w)
             \/ \E w, w2 \in DocWrites : RestartKernel(w, w2)
             \/ \E w \in DocWrites : ShutdownKernel(w)
      PROVE  RequestInv'
  <2>1. \/ kernel' = None
        \/ UNCHANGED <<kernel, executing, interruptPending, gateDropped>>
    BY <1>4 DEF ReceiveSync, LaunchKernel, RestartKernel, ShutdownKernel, slotVars, stateVars,
      ghostVars
  <2> QED
    BY <1>1, <1>2, <2>1, RequestFrame
<1> QED
  BY <1>3, <1>4 DEF Request

\* The signals: what is reported finished is not with the kernel, so the next
\* request finds it idle.
LEMMA RequestOnSignal ==
  ASSUME TypeOK, TypeOK', SubmitInv, RequestInv, OnSignal
  PROVE  RequestInv'
<1>1. /\ UNCHANGED <<flushing, doneCommits, gateDropped>>
      /\ \E t \in SignalTypes : Receives(t)
  BY DEF OnSignal, OnExecutionDone, OnKernelIdle, OnCellError, OnKernelDied, kernelVars,
    ghostVars, SignalTypes
<1>2. Past' \subseteq Past
  BY <1>1, SignalTaken DEF Past
<1>3. /\ executing \in Execs \cup {None} /\ interruptPending \in Execs \cup {None}
      /\ queue \in Seq(Execs) /\ Range(shell) \subseteq Execs
  BY TaskTypes DEF TypeOK, StateTypeOK
<1>4. kernel # None /\ queue # <<>> => sent[Head(queue)] = 0
  <2>1. kernel # None => Fresh(queue, sent, seen)
    BY DEF SubmitInv
  <2>2. queue # <<>> => Head(queue) = queue[1] /\ 1 \in 1 .. Len(queue)
    BY <1>3, HeadTailProperties, EmptySeq, LenProperties
  <2> QED
    BY <2>1, <2>2 DEF Fresh
<1>5. ASSUME NEW w \in DocWrites, NEW w2 \in DocWrites, NEW ok \in BOOLEAN,
             OnExecutionDone(w, w2, ok)
      PROVE  RequestInv'
  <2> DEFINE e == Head(signals).exec
             st == IF w THEN SetExecutionDone(execStatus, e, ~hadError) ELSE execStatus
             dq == IF w THEN [executing |-> None, queued |-> queue] ELSE docQueue
  <2>1. UNCHANGED kernel
    BY <1>5 DEF OnExecutionDone, slotVars
  <2>2. CASE ~(kernel # None /\ e = executing)
    <3>1. UNCHANGED <<stateVars, shell, sent>>
      BY <1>5, <2>2 DEF OnExecutionDone
    <3> QED
      BY <1>1, <1>2, <2>1, <3>1, RequestFrame DEF stateVars
  <2>3. CASE kernel # None /\ e = executing
    <3>1. /\ ProcessNext(None, queue, interruptPending, "Idle", st, dq, w2, ok)
          /\ interruptPending' = interruptPending
      BY <1>5, <2>3 DEF OnExecutionDone
    <3>2. Receives("ExecutionDone")
      BY <1>5 DEF OnExecutionDone
    <3>3. executing # None => executing \notin Range(shell)
      <4>1. executing # None => executing \in Past
        BY <2>3, <3>2, SignalTaken DEF Past
      <4> QED
        BY <4>1 DEF RequestInv, Tokens
    <3>4. ~gateDropped => Len(shell) <= 1 /\ Range(shell) \subseteq {None, interruptPending}
      BY <2>3, <3>3 DEF RequestInv, OneAtATime
    <3>5. w2 \in BOOLEAN /\ None \in Execs \cup {None}
      BY DocWritesAssumption
    <3> HIDE DEF st, dq, e
    <3> QED
      BY <1>1, <1>2, <1>3, <1>4, <2>1, <2>3, <3>1, <3>4, <3>5, RequestProcessNext DEF RequestInv
  <2> QED
    BY <2>2, <2>3
<1>6. ASSUME NEW w \in DocWrites, NEW ok \in BOOLEAN, OnKernelIdle(w, ok)
      PROVE  RequestInv'
  <2> DEFINE opens == kernel # None /\ interruptPending # None
                        /\ interruptPending = Head(signals).exec
  <2>1. UNCHANGED kernel
    BY <1>6 DEF OnKernelIdle, slotVars
  <2>2. CASE ~opens
    <3>1. UNCHANGED <<stateVars, shell, sent>>
      BY <1>6, <2>2 DEF OnKernelIdle
    <3> QED
      BY <1>1, <1>2, <2>1, <3>1, RequestFrame DEF stateVars
  <2>3. CASE opens
    <3>1. /\ ProcessNext(executing, queue, None, "Idle", execStatus, docQueue, w, ok)
          /\ interruptPending' = None
      BY <1>6, <2>3 DEF OnKernelIdle
    <3>2. Receives("KernelIdle")
      BY <1>6 DEF OnKernelIdle
    <3>3. interruptPending \notin Range(shell)
      <4>1. interruptPending \in Past
        BY <2>3, <3>2, SignalTaken DEF Past
      <4> QED
        BY <4>1 DEF RequestInv, Tokens
    <3>4. ~gateDropped => Len(shell) <= 1 /\ Range(shell) \subseteq {executing, None}
      BY <2>3, <3>3 DEF RequestInv, OneAtATime
    <3>5. w \in BOOLEAN
      BY DocWritesAssumption
    <3>6. queue # <<>> => sent[Head(queue)] = 0
      BY <1>4, <2>3
    <3> DEFINE gate == None
    <3>7. /\ gate \in Execs \cup {None} /\ (executing = None \/ gate = None)
          /\ interruptPending' = gate
          /\ ProcessNext(executing, queue, gate, "Idle", execStatus, docQueue, w, ok)
          /\ ~gateDropped => Len(shell) <= 1 /\ Range(shell) \subseteq {executing, gate}
      BY <3>1, <3>4
    <3>8. Tokens
      BY DEF RequestInv
    <3> HIDE DEF gate
    <3> QED
      BY <1>1, <1>2, <1>3, <2>1, <3>5, <3>6, <3>7, <3>8, RequestProcessNext
  <2> QED
    BY <2>2, <2>3
<1>7. ASSUME \/ \E w \in DocWrites : OnCellError(w)
             \/ \E w \in DocWrites : OnKernelDied(w)
      PROVE  RequestInv'
  <2>1. /\ UNCHANGED <<shell, sent>>
        /\ kernel' = None \/ UNCHANGED <<kernel, executing, interruptPending, gateDropped>>
    BY <1>7 DEF OnCellError, OnKernelDied, kernelVars, ghostVars, slotVars, stateVars
  <2> QED
    BY <1>2, <2>1, RequestFrame
<1> QED
  BY <1>5, <1>6, <1>7 DEF OnSignal

\* The tasks of the kernel.
LEMMA RequestKernelTask ==
  ASSUME TypeOK, TypeOK', RequestInv, KernelTask
  PROVE  RequestInv'
<1>1. UNCHANGED <<kernel, executing, interruptPending, gateDropped, sent>>
  BY DEF KernelTask, KernelRaises, KernelReportsIdle, FlushedForOrdering, CommitOutput,
    CommitStream, KernelExits, ReportDeath, slotVars, stateVars, ghostVars
<1>2. /\ shell \in Seq(Execs) /\ doneCommits \in Seq(Execs) /\ flushing \in Execs \cup {None}
      /\ Range(shell) \subseteq Execs /\ Len(shell) \in Nat /\ outCommits \in Seq(Execs)
      /\ DOMAIN shell = 1 .. Len(shell)
  BY TaskTypes, LenProperties
<1>3. CASE KernelReportsIdle
  <2> DEFINE e == Head(shell)
  <2>1. /\ shell # <<>> /\ flushing = None /\ shell' = Tail(shell) /\ flushing' = e
        /\ signals' = Append(signals, Signal("KernelIdle", e)) /\ UNCHANGED doneCommits
    BY <1>3 DEF KernelReportsIdle
  <2>2. /\ e \in Execs /\ Range(shell) = {e} \cup Range(Tail(shell)) /\ e = shell[1]
        /\ Tail(shell) \in Seq(Execs) /\ Len(Tail(shell)) = Len(shell) - 1
        /\ \A i \in 1 .. Len(Tail(shell)) : Tail(shell)[i] = shell[i + 1]
    <3>1. e \in Execs
      BY <1>2, <2>1, HeadTailProperties
    <3> QED
      BY <1>2, <2>1, <3>1, HeadTailProperties, RangeFacts
  <2>3. "KernelIdle" \in SignalTypes
    BY DEF SignalTypes
  <2> HIDE DEF e
  <2>4. Reported' = Reported \cup {x \in Execs : x = e}
    BY <2>1, <2>2, <2>3, SignalSent
  <2>5. Past' = Past \cup {e}
    BY <2>1, <2>2, <2>4, NoneIsNoExec DEF Past
  <2>6. \A i \in 1 .. Len(Tail(shell)) : i + 1 \in 1 .. Len(shell) /\ i + 1 # 1
    BY <1>2, <2>2
  <2>7. e \notin Range(Tail(shell))
    <3>1. DOMAIN Tail(shell) = 1 .. Len(Tail(shell)) /\ 1 \in 1 .. Len(shell)
      BY <1>2, <2>1, <2>2, LenProperties, EmptySeq
    <3>2. \A i \in 1 .. Len(Tail(shell)) : Tail(shell)[i] # e
      BY <2>2, <2>6, <3>1 DEF RequestInv, Tokens
    <3> QED
      BY <3>1, <3>2 DEF Range
  <2>8. \A x \in Range(Tail(shell)) : sent[x] >= 1 /\ x \notin Past'
    BY <2>2, <2>5, <2>7 DEF RequestInv, Tokens
  <2>9. \A x \in Past' : sent[x] >= 1
    BY <2>2, <2>5 DEF RequestInv, Tokens
  <2>10. ASSUME NEW i \in 1 .. Len(Tail(shell)), NEW j \in 1 .. Len(Tail(shell)), i # j
         PROVE  Tail(shell)[i] # Tail(shell)[j]
    <3>1. i + 1 \in 1 .. Len(shell) /\ j + 1 \in 1 .. Len(shell) /\ i + 1 # j + 1
      BY <1>2, <2>2, <2>10
    <3> QED
      BY <2>2, <3>1 DEF RequestInv, Tokens
  <2>11. Tokens'
    BY <1>1, <2>1, <2>8, <2>9, <2>10 DEF Tokens
  <2>12. Len(Tail(shell)) <= Len(shell) /\ Len(Tail(shell)) \in Nat
    BY <1>2, <2>2, LenProperties
  <2>13. OneAtATime'
    <3>1. ASSUME kernel # None, ~gateDropped
          PROVE  Len(shell') <= 1 /\ Range(shell') \subseteq {executing, interruptPending}
      <4>1. Len(shell) <= 1 /\ Range(shell) \subseteq {executing, interruptPending}
        BY <3>1 DEF RequestInv, OneAtATime
      <4> QED
        BY <1>2, <2>1, <2>2, <2>12, <4>1
    <3> QED
      BY <1>1, <3>1 DEF RequestInv, OneAtATime
  <2> QED
    BY <2>11, <2>13 DEF RequestInv
<1>4. CASE \E k \in 0 .. MaxExecs : KernelExits(k)
  <2>1. PICK k \in 0 .. MaxExecs : KernelExits(k)
    BY <1>4
  <2>2. /\ k <= Len(shell) /\ shell' = SubSeq(shell, 1, k)
        /\ UNCHANGED <<flushing, doneCommits, signals>>
    BY <2>1 DEF KernelExits
  <2>3. k \in Nat /\ 1 .. k \subseteq 1 .. Len(shell)
    BY <1>2, <2>2, BoundsAssumption
  <2>4. /\ shell' \in Seq(Execs) /\ Len(shell') = k
        /\ \A i \in 1 .. k : shell'[i] = shell[i]
    <3>1. \A i \in 1 .. k : shell[i] \in Execs
      BY <1>2, <2>3, ElementOfSeq
    <3>2. /\ Len(shell') = IF 1 <= k THEN k - 1 + 1 ELSE 0
          /\ \A i \in 1 .. k - 1 + 1 : shell'[i] = shell[1 + i - 1]
      BY <2>2, <2>3, <3>1, SubSeqProperties
    <3>3. shell' \in Seq(Execs)
      BY TaskTypes, TypeOK' DEF TypeOK, KernelTypeOK
    <3> QED
      BY <2>3, <3>2, <3>3
  <2>5. Range(shell') \subseteq Range(shell)
    <3>1. DOMAIN shell' = 1 .. k
      BY <2>4, LenProperties
    <3> QED
      BY <1>2, <2>3, <2>4, <3>1 DEF Range
  <2>6. Past' = Past
    BY <2>2 DEF Past, Reported
  <2>7. Tokens'
    BY <1>1, <2>3, <2>4, <2>5, <2>6 DEF RequestInv, Tokens
  <2>8. OneAtATime'
    <3>1. ASSUME kernel # None, ~gateDropped
          PROVE  Len(shell') <= 1 /\ Range(shell') \subseteq {executing, interruptPending}
      <4>1. Len(shell) <= 1 /\ Range(shell) \subseteq {executing, interruptPending}
        BY <3>1 DEF RequestInv, OneAtATime
      <4> QED
        BY <1>2, <2>2, <2>3, <2>4, <2>5, <4>1
    <3> QED
      BY <1>1, <3>1 DEF RequestInv, OneAtATime
  <2> QED
    BY <2>7, <2>8 DEF RequestInv
<1>5. CASE FlushedForOrdering
  <2>1. /\ flushing # None /\ doneCommits' = Append(doneCommits, flushing) /\ flushing' = None
        /\ UNCHANGED <<shell, signals>>
    BY <1>5 DEF FlushedForOrdering
  <2>2. Range(doneCommits') = Range(doneCommits) \cup {flushing}
    BY <1>2, <2>1, RangeFacts
  <2>3. Past' \subseteq Past
    BY <1>2, <2>1, <2>2, NoneIsNoExec DEF Past, Reported
  <2> QED
    BY <1>1, <2>1, <2>3, RequestFrame
<1>6. CASE CommitStream
  <2> DEFINE e == Head(doneCommits)
  <2>1. /\ doneCommits # <<>> /\ doneCommits' = Tail(doneCommits)
        /\ signals' = Append(signals, Signal("ExecutionDone", e))
        /\ UNCHANGED <<shell, flushing>>
    BY <1>6 DEF CommitStream
  <2>2. e \in Execs
    BY <1>2, <2>1, HeadTailProperties
  <2>3. Range(doneCommits) = {e} \cup Range(doneCommits')
    BY <1>2, <2>1, <2>2, RangeFacts
  <2>4. "ExecutionDone" \in SignalTypes
    BY DEF SignalTypes
  <2> HIDE DEF e
  <2>5. Reported' = Reported \cup {x \in Execs : x = e}
    BY <2>1, <2>2, <2>4, SignalSent
  <2>6. Past' \subseteq Past
    BY <2>1, <2>3, <2>5 DEF Past
  <2> QED
    BY <1>1, <2>1, <2>6, RequestFrame
<1>7. CASE CommitOutput \/ ReportDeath
  <2>1. /\ UNCHANGED <<shell, flushing, doneCommits>>
        /\ \E t \in {"CellError", "KernelDied"}, e \in Execs \cup {None} :
             signals' = Append(signals, Signal(t, e))
    BY <1>2, <1>7, HeadTailProperties DEF CommitOutput, ReportDeath
  <2>2. Reported' = Reported
    BY <2>1, SignalSent DEF SignalTypes
  <2>3. Past' \subseteq Past
    BY <2>1, <2>2 DEF Past
  <2> QED
    BY <1>1, <2>1, <2>3, RequestFrame
<1>8. CASE KernelRaises
  <2>1. UNCHANGED <<shell, flushing, doneCommits, signals>>
    BY <1>8 DEF KernelRaises
  <2>2. Past' \subseteq Past
    BY <2>1 DEF Past, Reported
  <2> QED
    BY <1>1, <2>1, <2>2, RequestFrame
<1> QED
  BY <1>3, <1>4, <1>5, <1>6, <1>7, <1>8 DEF KernelTask

\* The invariant is inductive.
LEMMA RequestStep ==
  ASSUME TypeOK, TypeOK', SubmitInv, RequestInv, [Next]_vars
  PROVE  RequestInv'
<1>1. CASE UNCHANGED vars
  <2>1. UNCHANGED <<shell, sent, flushing, doneCommits, signals, kernel, executing,
                    interruptPending, gateDropped>>
    BY <1>1 DEF vars, slotVars, stateVars, kernelVars, ghostVars
  <2>2. Past' \subseteq Past
    BY <2>1 DEF Past, Reported
  <2> QED
    BY <2>1, <2>2, RequestFrame
<1> QED
  BY <1>1, RequestHandler, RequestRequest, RequestOnSignal, RequestKernelTask DEF Next

\* It holds in every reachable state.
LEMMA RequestAlways == Spec => []RequestInv
<1>1. Init => RequestInv
  <2> SUFFICES ASSUME Init PROVE RequestInv
    OBVIOUS
  <2>1. Range(<<>>) = {} /\ Len(<<>>) = 0
    BY EmptySeq DEF Range
  <2>2. Past = {}
    BY <2>1, NoneIsNoExec DEF Init, Past, Reported
  <2> QED
    BY <2>1, <2>2 DEF Init, RequestInv, Tokens, OneAtATime
<1>2. TypeOK /\ TypeOK' /\ SubmitInv /\ RequestInv /\ [Next]_vars => RequestInv'
  BY RequestStep
<1> QED
  BY <1>1, <1>2, SubmitAlways, TypeCorrect, PTL DEF Spec

\* The kernel has one request at a time, whatever document writes fail, unless an
\* interrupt replaced a gate that was still closed: completion, the idle that
\* opens the gate and an interrupt all leave it with nothing but what runs or
\* what the gate waits for (KernelState::process_next, interrupt, kernel_idle).
THEOREM OneRequest == Spec => []OneRequestInKernel
<1>1. RequestInv => OneRequestInKernel
  BY DEF RequestInv, OneAtATime, OneRequestInKernel
<1> QED
  BY <1>1, RequestAlways, PTL

-----------------------------------------------------------------------------
(* What becomes of an error the kernel publishes.  It waits in the output  *)
(* committer, then in the lifecycle channel ahead of the completion of the  *)
(* same execution, until CellError sets execution_had_error.                *)

Completes(e, s) == \E i \in 1 .. Len(s) : s[i] = Signal("ExecutionDone", e)

\* The channel holds the error of e ahead of every completion of e.
ErrorFirst(e, s) ==
  \E i \in 1 .. Len(s) :
    /\ s[i] = Signal("CellError", e)
    /\ \A j \in 1 .. Len(s) : s[j] = Signal("ExecutionDone", e) => i < j

\* An execution with an error in the output committer has not completed.
CommitsOrdered ==
  \A e \in Range(outCommits) : e \notin Range(doneCommits) /\ ~Completes(e, signals)

\* The error of the execution in the slot is recorded or still ahead.
ErrorAhead ==
  kernel # None /\ executing \in raised /\ ~hadError =>
    executing \in Range(outCommits) \/ ErrorFirst(executing, signals)

Unfinished(e) == execStatus[e] \notin {"absent", "queued", "done"}

\* What raised an error, and what is with the kernel, was started and is not done.
RaisedStarted == \A e \in raised : Unfinished(e)
SentStarted == \A e \in Range(shell) : Unfinished(e)

ErrorInv == CommitsOrdered /\ ErrorAhead /\ RaisedStarted /\ SentStarted

\* Taking a signal.
LEMMA ChannelTail ==
  ASSUME NEW s \in Seq(Signals), s # <<>>, NEW e
  PROVE  /\ Completes(e, Tail(s)) => Completes(e, s)
         /\ ErrorFirst(e, s) /\ Head(s) # Signal("CellError", e) => ErrorFirst(e, Tail(s))
         /\ ErrorFirst(e, s) => Head(s) # Signal("ExecutionDone", e)
         /\ Head(s) = Signal("ExecutionDone", e) => Completes(e, s)
<1>1. /\ Head(s) = s[1] /\ Len(s) \in Nat /\ 1 <= Len(s) /\ Len(Tail(s)) = Len(s) - 1
      /\ \A i \in 1 .. Len(Tail(s)) : Tail(s)[i] = s[i + 1]
  BY HeadTailProperties, EmptySeq, LenProperties
<1>2. \A i \in 1 .. Len(Tail(s)) : i + 1 \in 1 .. Len(s)
  BY <1>1
<1>3. 1 \in 1 .. Len(s)
  BY <1>1
<1>4. Completes(e, Tail(s)) => Completes(e, s)
  BY <1>1, <1>2 DEF Completes
<1>5. Head(s) = Signal("ExecutionDone", e) => Completes(e, s)
  BY <1>1, <1>3 DEF Completes
<1>6. ErrorFirst(e, s) => Head(s) # Signal("ExecutionDone", e)
  <2> SUFFICES ASSUME ErrorFirst(e, s), Head(s) = Signal("ExecutionDone", e) PROVE FALSE
    OBVIOUS
  <2>1. PICK i \in 1 .. Len(s) :
          \A j \in 1 .. Len(s) : s[j] = Signal("ExecutionDone", e) => i < j
    BY DEF ErrorFirst
  <2>2. i < 1
    BY <1>1, <1>3, <2>1
  <2> QED
    BY <1>1, <2>2
<1>7. ErrorFirst(e, s) /\ Head(s) # Signal("CellError", e) => ErrorFirst(e, Tail(s))
  <2> SUFFICES ASSUME ErrorFirst(e, s), Head(s) # Signal("CellError", e)
               PROVE  ErrorFirst(e, Tail(s))
    OBVIOUS
  <2>1. PICK i \in 1 .. Len(s) :
          /\ s[i] = Signal("CellError", e)
          /\ \A j \in 1 .. Len(s) : s[j] = Signal("ExecutionDone", e) => i < j
    BY DEF ErrorFirst
  <2>2. i # 1
    BY <1>1, <2>1
  <2>3. i - 1 \in 1 .. Len(Tail(s)) /\ (i - 1) + 1 = i
    BY <1>1, <2>2
  <2>4. Tail(s)[i - 1] = Signal("CellError", e)
    BY <1>1, <2>1, <2>3
  <2>5. ASSUME NEW j \in 1 .. Len(Tail(s)), Tail(s)[j] = Signal("ExecutionDone", e)
        PROVE  i - 1 < j
    <3>1. i < j + 1
      BY <1>1, <1>2, <2>1, <2>5
    <3> QED
      BY <1>1, <2>3, <3>1
  <2> QED
    BY <2>3, <2>4, <2>5 DEF ErrorFirst
<1> QED
  BY <1>4, <1>5, <1>6, <1>7

\* Sending one.
LEMMA ChannelAppend ==
  ASSUME NEW s \in Seq(Signals), NEW m \in Signals, NEW e
  PROVE  /\ Completes(e, Append(s, m)) => Completes(e, s) \/ m = Signal("ExecutionDone", e)
         /\ ErrorFirst(e, s) => ErrorFirst(e, Append(s, m))
         /\ ~Completes(e, s) /\ m = Signal("CellError", e) => ErrorFirst(e, Append(s, m))
<1> DEFINE a == Append(s, m)
           n == Len(s)
<1>1. n \in Nat /\ Len(a) = n + 1 /\ (\A i \in 1 .. n : a[i] = s[i]) /\ a[n + 1] = m
  BY AppendProperties, LenProperties
<1>2. /\ \A i \in 1 .. Len(a) : i \in 1 .. n \/ i = n + 1
      /\ \A i \in 1 .. n : i \in 1 .. Len(a) /\ i < n + 1
      /\ n + 1 \in 1 .. Len(a)
  BY <1>1
<1> HIDE DEF a, n
<1>3. n = Len(s)
  BY DEF n
<1>4. Completes(e, a) => Completes(e, s) \/ m = Signal("ExecutionDone", e)
  BY <1>1, <1>2, <1>3 DEF Completes
<1>5. ErrorFirst(e, s) => ErrorFirst(e, a)
  <2> SUFFICES ASSUME ErrorFirst(e, s) PROVE ErrorFirst(e, a)
    OBVIOUS
  <2>1. PICK i \in 1 .. n :
          /\ s[i] = Signal("CellError", e)
          /\ \A j \in 1 .. n : s[j] = Signal("ExecutionDone", e) => i < j
    BY <1>3 DEF ErrorFirst
  <2>2. i \in 1 .. Len(a) /\ a[i] = Signal("CellError", e)
    BY <1>1, <1>2, <2>1
  <2>3. \A j \in 1 .. Len(a) : a[j] = Signal("ExecutionDone", e) => i < j
    BY <1>1, <1>2, <2>1
  <2> QED
    BY <2>2, <2>3 DEF ErrorFirst
<1>6. ~Completes(e, s) /\ m = Signal("CellError", e) => ErrorFirst(e, a)
  <2> SUFFICES ASSUME ~Completes(e, s), m = Signal("CellError", e) PROVE ErrorFirst(e, a)
    OBVIOUS
  <2>1. Signal("CellError", e) # Signal("ExecutionDone", e)
    <3>1. Signal("CellError", e).type = "CellError" /\ Signal("ExecutionDone", e).type = "ExecutionDone"
      BY DEF Signal
    <3> QED
      BY <3>1
  <2>2. \A j \in 1 .. Len(a) : a[j] # Signal("ExecutionDone", e)
    BY <1>1, <1>2, <1>3, <2>1 DEF Completes
  <2> QED
    BY <1>1, <1>2, <2>2 DEF ErrorFirst
<1> QED
  BY <1>4, <1>5, <1>6 DEF a

\* A signal is known by its type and its execution.
LEMMA SignalIs ==
  ASSUME TypeOK, NEW t, Receives(t)
  PROVE  Head(signals) = Signal(t, Head(signals).exec) /\ signals # <<>>
         /\ signals \in Seq(Signals) /\ signals' = Tail(signals)
<1>1. signals \in Seq(Signals) /\ signals # <<>> /\ signals' = Tail(signals)
  BY DEF Receives, TypeOK, KernelTypeOK
<1>2. Head(signals) \in Signals /\ Head(signals).type = t
  BY <1>1, HeadTailProperties DEF Receives
<1> QED
  BY <1>1, <1>2 DEF Signals, Signal

\* Only the completion of the execution in the slot, without an error recorded,
\* writes "done".
LEMMA NewlyDone ==
  ASSUME TypeOK, DocInv, SubmitInv, DocWrites = {TRUE}, [Next]_vars,
         NEW e \in Execs, execStatus[e] # "done", execStatus'[e] = "done"
  PROVE  /\ Receives("ExecutionDone") /\ Head(signals).exec = e
         /\ kernel # None /\ executing = e /\ ~hadError
<1>1. /\ execStatus \in [Execs -> ExecStatuses] /\ queue \in Seq(Execs)
      /\ executing \in Execs \cup {None} /\ hadError \in BOOLEAN
  BY DEF TypeOK, DocTypeOK, StateTypeOK
<1>2. AbortInflight(execStatus)[e] # "done"
  BY <1>1 DEF AbortInflight
<1>3. ResolveInflight(execStatus, executing, Range(queue)) = AbortInflight(execStatus)
  BY TeardownSweeps
<1>4. execStatus' # execStatus /\ execStatus' # AbortInflight(execStatus)
  BY <1>2
<1>5. ASSUME NEW r \in Execs \cup {None}, NEW q \in Seq(Execs), NEW g, NEW b,
             NEW st \in [Execs -> ExecStatuses], NEW dq, NEW w, NEW ok,
             ProcessNext(r, q, g, b, st, dq, w, ok), st[e] # "done"
      PROVE  FALSE
  <2>1. execStatus' = st \/ (q # <<>> /\ execStatus' = [st EXCEPT ![Head(q)] = "running"])
    BY <1>5 DEF ProcessNext, MayStart
  <2>2. q # <<>> => Head(q) \in Execs
    BY <1>5, HeadTailProperties
  <2> QED
    BY <1>5, <2>1, <2>2
<1>6. ASSUME NEW x \in Execs, NEW w \in DocWrites, NEW w2 \in DocWrites, NEW ok \in BOOLEAN,
             AdmitNext(x, w, w2, ok)
      PROVE  FALSE
  <2> DEFINE q == Append(queue, x)
             dq == IF w THEN [executing |-> executing, queued |-> q] ELSE docQueue
  <2>1. UNCHANGED docVars
        \/ ProcessNext(executing, q, interruptPending, status, execStatus, dq, w2, ok)
    BY <1>6 DEF AdmitNext
  <2>2. q \in Seq(Execs)
    BY <1>1, AppendProperties
  <2> HIDE DEF q, dq
  <2> QED
    BY <1>1, <1>4, <1>5, <2>1, <2>2 DEF docVars
<1>7. ASSUME NEW w \in DocWrites, NEW ok \in BOOLEAN, OnKernelIdle(w, ok)
      PROVE  FALSE
  <2> DEFINE g == None
             b == "Idle"
  <2>1. UNCHANGED docVars \/ ProcessNext(executing, queue, g, b, execStatus, docQueue, w, ok)
    BY <1>7 DEF OnKernelIdle
  <2> HIDE DEF g, b
  <2> QED
    BY <1>1, <1>4, <1>5, <2>1 DEF docVars
<1>8. ASSUME NEW w \in DocWrites, NEW w2 \in DocWrites, NEW ok \in BOOLEAN,
             OnExecutionDone(w, w2, ok)
      PROVE  /\ Receives("ExecutionDone") /\ Head(signals).exec = e
             /\ kernel # None /\ executing = e /\ ~hadError
  <2> DEFINE x == Head(signals).exec
             r == None
             b == "Idle"
             st == SetExecutionDone(execStatus, x, ~hadError)
             dq == [executing |-> None, queued |-> queue]
  <2>1. w = TRUE /\ Receives("ExecutionDone")
    BY <1>8 DEF OnExecutionDone
  <2>2. CASE ~(kernel # None /\ x = executing)
    BY <1>4, <1>8, <2>2 DEF OnExecutionDone, docVars
  <2>3. CASE kernel # None /\ x = executing
    <3>1. ProcessNext(r, queue, interruptPending, b, st, dq, w2, ok)
      BY <1>8, <2>1, <2>3 DEF OnExecutionDone
    <3>2. CASE executing = None
      <4>1. st = execStatus
        BY <1>1, <2>3, <3>2, NoneIsNoExec DEF SetExecutionDone
      <4> HIDE DEF st, r, b, dq
      <4>2. r \in Execs \cup {None}
        BY DEF r
      <4> QED
        BY <1>1, <1>5, <3>1, <4>1, <4>2
    <3>3. CASE executing # None
      <4>1. x \in Execs
        BY <1>1, <2>3, <3>3
      <4>2. st \in [Execs -> ExecStatuses]
        BY <1>1, <4>1, SetExecutionDoneType
      <4>3. st[e] = "done" => e = x /\ ~hadError
        BY <1>1, <4>1 DEF SetExecutionDone
      <4>4. r \in Execs \cup {None}
        OBVIOUS
      <4> HIDE DEF st, r, b, dq
      <4>5. st[e] = "done"
        BY <1>1, <1>5, <3>1, <4>2, <4>4
      <4> QED
        BY <2>1, <2>3, <4>3, <4>5
    <3> QED
      BY <3>2, <3>3
  <2> QED
    BY <2>2, <2>3
<1>9. ASSUME \/ \E n \in 0 .. MaxExecs : ReceiveSync(n)
             \/ \E w \in DocWrites : OnCellError(w)
      PROVE  FALSE
  <2>1. \/ execStatus' = SetCancelled(execStatus, Range(queue))
        \/ \E n \in 0 .. MaxExecs :
             execStatus' = [x \in Execs |->
               IF execStatus[x] = "absent" /\ x <= n THEN "queued" ELSE execStatus[x]]
    BY <1>4, <1>9 DEF ReceiveSync, OnCellError
  <2> QED
    BY <1>1, <2>1 DEF SetCancelled
<1>10. ASSUME \/ KernelTask \/ UNCHANGED vars
              \/ \E w \in DocWrites : AdmitDone(w)
              \/ \E w \in DocWrites : KernelLaunched(w)
              \/ \E w \in DocWrites : LaunchKernel(w)
       PROVE  FALSE
  <2>1. UNCHANGED execStatus
    BY <1>10 DEF KernelTask, KernelRaises, KernelReportsIdle, FlushedForOrdering, CommitOutput,
      CommitStream, KernelExits, ReportDeath, vars, docVars, AdmitDone, KernelLaunched, LaunchKernel
  <2> QED
    BY <1>4, <2>1
<1>11. ASSUME \/ \E w \in DocWrites, r \in BOOLEAN : LaunchFailed(r, w)
              \/ \E w, w2 \in DocWrites : RestartKernel(w, w2)
              \/ \E w \in DocWrites : InterruptExecution(w)
              \/ \E w \in DocWrites : ShutdownKernel(w)
              \/ \E w \in DocWrites : OnKernelDied(w)
       PROVE  FALSE
  <2>1. \/ UNCHANGED execStatus \/ execStatus' = AbortInflight(execStatus)
        \/ execStatus' = ResolveInflight(execStatus, executing, Range(queue))
    BY <1>11 DEF LaunchFailed, RestartKernel, InterruptExecution, ShutdownKernel, OnKernelDied,
      docVars
  <2> QED
    BY <1>3, <1>4, <2>1
<1> QED
  BY <1>6, <1>7, <1>8, <1>9, <1>10, <1>11 DEF Next, Handler, OnSignal, Request

\* What a step does to the slot, the errors and the requests.
LEMMA SlotStep ==
  ASSUME TypeOK, TypeOK', SubmitInv, [Next]_vars
  PROVE  /\ kernel' = None \/ kernel' = kernel \/ executing' = None
         /\ raised' = raised \/ KernelRaises
         /\ \/ Range(shell') \subseteq Range(shell)
            \/ /\ kernel' # None /\ executing' \in Execs
               /\ Range(shell') \subseteq Range(shell) \cup {executing'}
<1>1. /\ shell \in Seq(Execs) /\ queue \in Seq(Execs) /\ Range(<<>>) = {}
      /\ shell' \in Seq(Execs)
  BY RangeType DEF TypeOK, KernelTypeOK, StateTypeOK
<1>2. ASSUME NEW r, NEW q \in Seq(Execs), NEW g, NEW b, NEW st, NEW dq, NEW w, NEW ok,
             ProcessNext(r, q, g, b, st, dq, w, ok)
      PROVE  \/ Range(shell') \subseteq Range(shell)
             \/ executing' \in Execs /\ Range(shell') \subseteq Range(shell) \cup {executing'}
  <2>1. \/ shell' = shell
        \/ q # <<>> /\ executing' = Head(q) /\ shell' = Append(shell, Head(q))
    BY <1>2 DEF ProcessNext, MayStart, SendExecute
  <2>2. q # <<>> => Head(q) \in Execs
    BY <1>2, HeadTailProperties
  <2>3. q # <<>> => Range(Append(shell, Head(q))) = Range(shell) \cup {Head(q)}
    BY <1>1, <2>2, RangeFacts
  <2> QED
    BY <2>1, <2>2, <2>3
<1>3. ASSUME NEW e \in Execs, NEW w \in DocWrites, NEW w2 \in DocWrites, NEW ok \in BOOLEAN,
             AdmitNext(e, w, w2, ok)
      PROVE  /\ UNCHANGED <<kernel, raised>>
             /\ \/ Range(shell') \subseteq Range(shell)
                \/ /\ kernel' # None /\ executing' \in Execs
                   /\ Range(shell') \subseteq Range(shell) \cup {executing'}
  <2> DEFINE q == Append(queue, e)
             dq == IF w THEN [executing |-> executing, queued |-> q] ELSE docQueue
  <2>1. UNCHANGED shell
        \/ ProcessNext(executing, q, interruptPending, status, execStatus, dq, w2, ok)
    BY <1>3 DEF AdmitNext
  <2>2. q \in Seq(Execs)
    BY <1>1, AppendProperties
  <2>3. UNCHANGED <<kernel, raised>> /\ kernel # None
    BY <1>3 DEF AdmitNext, SubmitInv, AdmittingHasKernel
  <2> HIDE DEF q, dq
  <2> QED
    BY <1>2, <2>1, <2>2, <2>3
<1>4. ASSUME NEW w \in DocWrites, NEW ok \in BOOLEAN, OnKernelIdle(w, ok)
      PROVE  /\ UNCHANGED <<kernel, raised>>
             /\ \/ Range(shell') \subseteq Range(shell)
                \/ /\ kernel' # None /\ executing' \in Execs
                   /\ Range(shell') \subseteq Range(shell) \cup {executing'}
  <2> DEFINE g == None
             b == "Idle"
  <2>1. \/ UNCHANGED shell
        \/ kernel # None /\ ProcessNext(executing, queue, g, b, execStatus, docQueue, w, ok)
    BY <1>4 DEF OnKernelIdle
  <2>2. UNCHANGED <<kernel, raised>>
    BY <1>4 DEF OnKernelIdle, slotVars
  <2> HIDE DEF g, b
  <2> QED
    BY <1>1, <1>2, <2>1, <2>2
<1>5. ASSUME NEW w \in DocWrites, NEW w2 \in DocWrites, NEW ok \in BOOLEAN,
             OnExecutionDone(w, w2, ok)
      PROVE  /\ UNCHANGED <<kernel, raised>>
             /\ \/ Range(shell') \subseteq Range(shell)
                \/ /\ kernel' # None /\ executing' \in Execs
                   /\ Range(shell') \subseteq Range(shell) \cup {executing'}
  <2> DEFINE e == Head(signals).exec
             r == None
             b == "Idle"
             st == IF w THEN SetExecutionDone(execStatus, e, ~hadError) ELSE execStatus
             dq == IF w THEN [executing |-> None, queued |-> queue] ELSE docQueue
  <2>1. \/ UNCHANGED shell
        \/ kernel # None /\ ProcessNext(r, queue, interruptPending, b, st, dq, w2, ok)
    BY <1>5 DEF OnExecutionDone
  <2>2. UNCHANGED <<kernel, raised>>
    BY <1>5 DEF OnExecutionDone, slotVars
  <2> HIDE DEF e, r, b, st, dq
  <2> QED
    BY <1>1, <1>2, <2>1, <2>2
<1>6. ASSUME NEW w \in DocWrites, KernelLaunched(w)
      PROVE  executing' = None /\ UNCHANGED raised /\ Range(shell') \subseteq Range(shell)
  BY <1>1, <1>6 DEF KernelLaunched, Reset
<1>7. ASSUME KernelTask
      PROVE  /\ UNCHANGED kernel /\ (raised' = raised \/ KernelRaises)
             /\ Range(shell') \subseteq Range(shell)
  <2>1. UNCHANGED kernel /\ (raised' = raised \/ KernelRaises)
    BY <1>7 DEF KernelTask, KernelReportsIdle, FlushedForOrdering, CommitOutput, CommitStream,
      KernelExits, ReportDeath, KernelRaises, slotVars, ghostVars
  <2>2. CASE KernelReportsIdle
    <3>1. shell # <<>> /\ shell' = Tail(shell)
      BY <2>2 DEF KernelReportsIdle
    <3>2. Head(shell) \in Execs
      BY <1>1, <3>1, HeadTailProperties
    <3>3. Range(Tail(shell)) \subseteq Range(shell)
      BY <1>1, <3>1, <3>2, RangeFacts
    <3> QED
      BY <2>1, <3>1, <3>3
  <2>3. CASE \E k \in 0 .. MaxExecs : KernelExits(k)
    <3>1. PICK k \in 0 .. MaxExecs : KernelExits(k)
      BY <2>3
    <3>2. k <= Len(shell) /\ shell' = SubSeq(shell, 1, k)
      BY <3>1 DEF KernelExits
    <3>3. k \in Nat /\ Len(shell) \in Nat /\ 1 .. k \subseteq 1 .. Len(shell)
      BY <1>1, <3>2, LenProperties, BoundsAssumption
    <3>4. \A i \in 1 .. k : shell[i] \in Execs
      BY <1>1, <3>3, ElementOfSeq
    <3>5. /\ Len(shell') = IF 1 <= k THEN k - 1 + 1 ELSE 0
          /\ \A i \in 1 .. k - 1 + 1 : shell'[i] = shell[1 + i - 1]
      BY <3>2, <3>3, <3>4, SubSeqProperties
    <3>6. Len(shell') = k /\ \A i \in 1 .. k : shell'[i] = shell[i]
      BY <3>3, <3>5
    <3>7. DOMAIN shell' = 1 .. k /\ DOMAIN shell = 1 .. Len(shell)
      BY <1>1, <3>6, LenProperties
    <3>8. Range(shell') \subseteq Range(shell)
      BY <3>3, <3>6, <3>7 DEF Range
    <3> QED
      BY <2>1, <3>8
  <2>4. CASE KernelRaises \/ FlushedForOrdering \/ CommitOutput \/ CommitStream \/ ReportDeath
    BY <2>1, <2>4 DEF KernelRaises, FlushedForOrdering, CommitOutput, CommitStream, ReportDeath
  <2> QED
    BY <1>7, <2>2, <2>3, <2>4 DEF KernelTask
<1>8. ASSUME \/ UNCHANGED vars \/ Request
             \/ \E w \in DocWrites : AdmitDone(w)
             \/ \E w \in DocWrites, r \in BOOLEAN : LaunchFailed(r, w)
             \/ \E w \in DocWrites : OnCellError(w)
             \/ \E w \in DocWrites : OnKernelDied(w)
      PROVE  (kernel' = None \/ kernel' = kernel) /\ UNCHANGED <<raised, shell>>
  BY <1>8 DEF vars, Request, ReceiveSync, LaunchKernel, RestartKernel, InterruptExecution,
    ShutdownKernel, AdmitDone, LaunchFailed, OnCellError, OnKernelDied, slotVars, kernelVars,
    ghostVars
<1> QED
  BY <1>3, <1>4, <1>5, <1>6, <1>7, <1>8 DEF Next, Handler, OnSignal

\* What enters the slot was queued, and what the slot of a kernel holds runs.
LEMMA NewlyStarted ==
  ASSUME TypeOK, TypeOK', DocInv, DocInv', LedgerStep, kernel # None, kernel' # None,
         executing' \in Execs
  PROVE  /\ execStatus'[executing'] = "running"
         /\ executing' # executing => execStatus[executing'] = "queued"
<1>1. executing' # None
  BY NoneIsNoExec
<1>2. execStatus'[executing'] = "running"
  BY <1>1 DEF DocInv, SlotsMatch, InSlots
<1>3. executing' # executing => execStatus[executing'] # "running"
  BY DEF DocInv, SlotsMatch, InSlots
<1> QED
  BY <1>2, <1>3 DEF LedgerStep, LegalStep, Arrives, Legal

\* What raised an error, and what is with the kernel, stays started and not done.
LEMMA StartedStep ==
  ASSUME TypeOK, TypeOK', SubmitInv, DocInv, DocInv', LedgerStep, RequestInv, ErrorInv,
         DocWrites = {TRUE}, [Next]_vars
  PROVE  RaisedStarted' /\ SentStarted'
<1>1. /\ Range(shell) \subseteq Execs /\ Range(shell') \subseteq Execs /\ shell \in Seq(Execs)
      /\ raised \subseteq Execs /\ raised' \subseteq Execs
  BY TaskTypes, RangeType DEF TypeOK, KernelTypeOK, HistoryTypeOK
<1>2. ASSUME NEW e \in Execs, execStatus[e] \notin {"absent", "queued"}
      PROVE  execStatus'[e] \notin {"absent", "queued"}
  BY <1>2 DEF LedgerStep, LegalStep, Arrives, Legal
<1>3. ASSUME NEW e \in raised \cup Range(shell) PROVE Unfinished(e)'
  <2>1. e \in Execs /\ execStatus[e] \notin {"absent", "queued", "done"}
    BY <1>1, <1>3 DEF ErrorInv, RaisedStarted, SentStarted, Unfinished
  <2>2. ASSUME execStatus'[e] = "done" PROVE FALSE
    <3>1. /\ Receives("ExecutionDone") /\ Head(signals).exec = e
          /\ kernel # None /\ executing = e /\ ~hadError
      BY <2>1, <2>2, NewlyDone
    <3>2. Head(signals) = Signal("ExecutionDone", e) /\ signals # <<>> /\ signals \in Seq(Signals)
      BY <3>1, SignalIs
    <3>3. Completes(e, signals) /\ ~ErrorFirst(e, signals)
      BY <3>2, ChannelTail
    <3>4. e \notin raised
      BY <3>1, <3>3 DEF ErrorInv, ErrorAhead, CommitsOrdered
    <3>5. e \in Past
      BY <2>1, <3>1, SignalTaken, NoneIsNoExec DEF Past
    <3>6. e \notin Range(shell)
      BY <3>5 DEF RequestInv, Tokens
    <3> QED
      BY <1>3, <3>4, <3>6
  <2> QED
    BY <1>2, <2>1, <2>2 DEF Unfinished
<1>4. ASSUME NEW e \in raised' PROVE Unfinished(e)'
  <2>1. raised' = raised \/ KernelRaises
    BY SlotStep
  <2>2. CASE KernelRaises
    <3>1. shell # <<>> /\ raised' = raised \cup {Head(shell)}
      BY <2>2 DEF KernelRaises
    <3>2. Head(shell) \in Execs
      BY <1>1, <3>1, HeadTailProperties
    <3>3. Head(shell) \in Range(shell)
      BY <1>1, <3>1, <3>2, RangeFacts
    <3> QED
      BY <1>3, <1>4, <3>1, <3>3
  <2> QED
    BY <1>3, <1>4, <2>1, <2>2
<1>5. ASSUME NEW e \in Range(shell') PROVE Unfinished(e)'
  <2>1. CASE e \in Range(shell)
    BY <1>3, <2>1
  <2>2. CASE e \notin Range(shell)
    <3>1. kernel' # None /\ executing' \in Execs /\ e = executing'
      BY <1>5, <2>2, SlotStep
    <3>2. executing' # None
      BY <3>1, NoneIsNoExec
    <3>3. execStatus'[executing'] = "running"
      BY <3>1, <3>2 DEF DocInv, SlotsMatch, InSlots
    <3> QED
      BY <3>1, <3>3 DEF Unfinished
  <2> QED
    BY <2>1, <2>2
<1> QED
  BY <1>4, <1>5 DEF RaisedStarted, SentStarted

\* An error enters the output committer before the idle that precedes completion
\* is read, and completion waits until the committer is empty.
LEMMA CommitsOrderedStep ==
  ASSUME TypeOK, TypeOK', RequestInv, CommitsOrdered, [Next]_vars
  PROVE  CommitsOrdered'
<1>1. /\ shell \in Seq(Execs) /\ doneCommits \in Seq(Execs) /\ outCommits \in Seq(Execs)
      /\ signals \in Seq(Signals) /\ flushing \in Execs \cup {None}
      /\ Range(outCommits) \subseteq Execs /\ Range(outCommits') \subseteq Execs
      /\ Range(<<>>) = {}
  BY TaskTypes, RangeType DEF TypeOK, KernelTypeOK
<1>2. CASE Handler \/ OnSignal \/ Request \/ UNCHANGED vars
  <2>1. \/ outCommits' = <<>>
        \/ /\ UNCHANGED <<outCommits, doneCommits>>
           /\ signals' = signals \/ (signals # <<>> /\ signals' = Tail(signals))
    BY <1>2 DEF Handler, OnSignal, Request, AdmitNext, AdmitDone, KernelLaunched, LaunchFailed,
      OnExecutionDone, OnKernelIdle, OnCellError, OnKernelDied, Receives, ReceiveSync,
      LaunchKernel, RestartKernel, InterruptExecution, ShutdownKernel, vars, kernelVars
  <2>2. CASE outCommits' = <<>>
    BY <1>1, <2>2 DEF CommitsOrdered
  <2>3. CASE UNCHANGED <<outCommits, doneCommits>>
             /\ (signals' = signals \/ (signals # <<>> /\ signals' = Tail(signals)))
    <3>1. \A e : Completes(e, signals') => Completes(e, signals)
      BY <1>1, <2>3, ChannelTail
    <3> QED
      BY <2>3, <3>1 DEF CommitsOrdered
  <2> QED
    BY <2>1, <2>2, <2>3
<1>3. CASE KernelRaises
  <2> DEFINE e == Head(shell)
  <2>1. shell # <<>> /\ outCommits' = Append(outCommits, e) /\ UNCHANGED <<doneCommits, signals>>
    BY <1>3 DEF KernelRaises
  <2>2. e \in Execs
    BY <1>1, <2>1, HeadTailProperties
  <2>3. Range(outCommits') = Range(outCommits) \cup {e} /\ e \in Range(shell)
    BY <1>1, <2>1, <2>2, RangeFacts
  <2>4. e \notin Past
    BY <2>3 DEF RequestInv, Tokens
  <2>5. Completes(e, signals) => e \in Reported
    BY <2>2 DEF Completes, Reported, Signal
  <2>6. e \notin Range(doneCommits) /\ ~Completes(e, signals)
    BY <2>4, <2>5 DEF Past
  <2> HIDE DEF e
  <2> QED
    BY <2>1, <2>3, <2>6 DEF CommitsOrdered
<1>4. CASE FlushedForOrdering
  <2>1. outCommits' = <<>>
    BY <1>4 DEF FlushedForOrdering, OutputsFlushed
  <2> QED
    BY <1>1, <2>1 DEF CommitsOrdered
<1>5. CASE KernelReportsIdle \/ CommitOutput \/ ReportDeath
  <2>1. /\ Range(outCommits') \subseteq Range(outCommits) /\ UNCHANGED doneCommits
        /\ \E t \in {"KernelIdle", "CellError", "KernelDied"}, x \in Execs \cup {None} :
             signals' = Append(signals, Signal(t, x))
    <3>1. CASE KernelReportsIdle
      BY <1>1, <3>1, HeadTailProperties DEF KernelReportsIdle
    <3>2. CASE ReportDeath
      BY <3>2 DEF ReportDeath
    <3>3. CASE CommitOutput
      <4>1. /\ outCommits # <<>> /\ outCommits' = Tail(outCommits) /\ UNCHANGED doneCommits
            /\ signals' = Append(signals, Signal("CellError", Head(outCommits)))
        BY <3>3 DEF CommitOutput
      <4>2. Head(outCommits) \in Execs
        BY <1>1, <4>1, HeadTailProperties
      <4>3. Range(Tail(outCommits)) \subseteq Range(outCommits)
        BY <1>1, <4>1, <4>2, RangeFacts
      <4> QED
        BY <4>1, <4>2, <4>3
    <3> QED
      BY <1>5, <3>1, <3>2, <3>3
  <2>2. PICK t \in {"KernelIdle", "CellError", "KernelDied"}, x \in Execs \cup {None} :
          signals' = Append(signals, Signal(t, x))
    BY <2>1
  <2>3. Signal(t, x) \in Signals /\ \A e : Signal(t, x) # Signal("ExecutionDone", e)
    <3>1. Signal(t, x).type = t /\ \A e : Signal("ExecutionDone", e).type = "ExecutionDone"
      BY DEF Signal
    <3> QED
      BY <3>1 DEF Signal, Signals, SignalTypes
  <2>4. \A e : Completes(e, signals') => Completes(e, signals)
    BY <1>1, <2>2, <2>3, ChannelAppend
  <2> QED
    BY <2>1, <2>4 DEF CommitsOrdered
<1>6. CASE CommitStream
  <2> DEFINE x == Head(doneCommits)
  <2>1. /\ doneCommits # <<>> /\ doneCommits' = Tail(doneCommits) /\ UNCHANGED outCommits
        /\ signals' = Append(signals, Signal("ExecutionDone", x))
    BY <1>6 DEF CommitStream
  <2>2. x \in Execs
    BY <1>1, <2>1, HeadTailProperties
  <2>3. Range(doneCommits) = {x} \cup Range(doneCommits')
    BY <1>1, <2>1, <2>2, RangeFacts
  <2> HIDE DEF x
  <2>4. /\ Signal("ExecutionDone", x) \in Signals
        /\ \A e : Signal("ExecutionDone", x) = Signal("ExecutionDone", e) => e = x
    <3>1. \A e : Signal("ExecutionDone", e).exec = e
      BY DEF Signal
    <3> QED
      BY <2>2, <3>1 DEF Signal, Signals, SignalTypes
  <2>5. \A e : Completes(e, signals') => Completes(e, signals) \/ e = x
    BY <1>1, <2>1, <2>4, ChannelAppend
  <2> QED
    BY <2>1, <2>3, <2>5 DEF CommitsOrdered
<1>7. CASE \E k \in 0 .. MaxExecs : KernelExits(k)
  <2>1. UNCHANGED <<outCommits, doneCommits, signals>>
    BY <1>7 DEF KernelExits
  <2> QED
    BY <2>1 DEF CommitsOrdered
<1> QED
  BY <1>2, <1>3, <1>4, <1>5, <1>6, <1>7 DEF Next, KernelTask

\* The error of the execution in the slot stays ahead of its completion until
\* CellError records it.
LEMMA ErrorAheadStep ==
  ASSUME TypeOK, TypeOK', SubmitInv, DocInv, DocInv', LedgerStep, ErrorInv, [Next]_vars
  PROVE  ErrorAhead'
<1> SUFFICES ASSUME kernel' # None, executing' \in raised', ~hadError'
             PROVE  executing' \in Range(outCommits') \/ ErrorFirst(executing', signals')
  BY DEF ErrorAhead
<1>1. /\ shell \in Seq(Execs) /\ doneCommits \in Seq(Execs) /\ outCommits \in Seq(Execs)
      /\ signals \in Seq(Signals) /\ queue \in Seq(Execs) /\ Range(outCommits) \subseteq Execs
      /\ raised' \subseteq Execs /\ hadError \in BOOLEAN
  BY TaskTypes DEF TypeOK, HistoryTypeOK, StateTypeOK
<1>2. executing' \in Execs /\ executing' # None /\ kernel' = kernel /\ kernel # None
  BY <1>1, SlotStep, NoneIsNoExec
<1>3. executing' = executing
  <2>1. ASSUME executing' # executing PROVE FALSE
    <3>1. execStatus[executing'] = "queued"
      BY <1>2, <2>1, NewlyStarted
    <3>2. executing' \notin raised
      BY <3>1 DEF ErrorInv, RaisedStarted, Unfinished
    <3>3. KernelRaises
      BY <3>2, SlotStep
    <3> QED
      BY <2>1, <3>3 DEF KernelRaises, stateVars
  <2> QED
    BY <2>1
<1>4. CASE KernelRaises
  <2>1. /\ shell # <<>> /\ outCommits' = Append(outCommits, Head(shell))
        /\ raised' = raised \cup {Head(shell)} /\ UNCHANGED <<signals, hadError>>
    BY <1>4 DEF KernelRaises, stateVars
  <2>2. Head(shell) \in Execs
    BY <1>1, <2>1, HeadTailProperties
  <2>3. Range(outCommits') = Range(outCommits) \cup {Head(shell)}
    BY <1>1, <2>1, <2>2, RangeFacts
  <2> QED
    BY <1>2, <1>3, <2>1, <2>3 DEF ErrorInv, ErrorAhead
<1>5. CASE ~KernelRaises
  <2>1. executing \in raised
    BY <1>3, <1>5, SlotStep
  <2>2. ~hadError
    <3>1. ASSUME hadError PROVE FALSE
      <4>1. ASSUME NEW w \in DocWrites, NEW w2 \in DocWrites, NEW ok \in BOOLEAN,
                   OnExecutionDone(w, w2, ok)
            PROVE  FALSE
        <5>1. executing' = None \/ (queue # <<>> /\ executing' = Head(queue))
          BY <3>1, <4>1 DEF OnExecutionDone, ProcessNext, MayStart, stateVars
        <5>2. queue # <<>> /\ executing = Head(queue)
          BY <1>2, <1>3, <5>1
        <5>3. executing \in Range(queue)
          BY <1>1, <1>2, <1>3, <5>2, RangeFacts
        <5>4. execStatus[executing] = "queued" /\ execStatus[executing] = "running"
          BY <1>2, <1>3, <5>3 DEF DocInv, SlotsMatch, InSlots
        <5> QED
          BY <5>4
      <4>2. executing' = None \/ UNCHANGED hadError \/ hadError'
        BY <4>1 DEF Next, Handler, OnSignal, Request, KernelTask, AdmitNext, AdmitDone,
          KernelLaunched, Reset, LaunchFailed, OnKernelIdle, OnCellError, OnKernelDied, Died,
          ReceiveSync, LaunchKernel, RestartKernel, InterruptExecution, Interrupt,
          ShutdownKernel, Shutdown, KernelRaises, KernelReportsIdle, FlushedForOrdering,
          CommitOutput, CommitStream, KernelExits, ReportDeath, vars, stateVars
      <4> QED
        BY <1>2, <3>1, <4>2
    <3> QED
      BY <3>1
  <2>3. executing \in Range(outCommits) \/ ErrorFirst(executing, signals)
    BY <1>2, <2>1, <2>2 DEF ErrorInv, ErrorAhead
  <2>4. CASE Handler \/ Request \/ UNCHANGED vars
    <3>1. executing' = None \/ UNCHANGED <<outCommits, signals>>
      BY <2>4 DEF Handler, Request, AdmitNext, AdmitDone, KernelLaunched, Reset, LaunchFailed,
        ReceiveSync, LaunchKernel, RestartKernel, InterruptExecution, ShutdownKernel, vars,
        kernelVars
    <3> QED
      BY <1>2, <1>3, <2>3, <3>1
  <2>5. CASE OnSignal
    <3>1. UNCHANGED outCommits /\ \E t \in SignalTypes : Receives(t)
      BY <2>5 DEF OnSignal, OnExecutionDone, OnKernelIdle, OnCellError, OnKernelDied, kernelVars,
        SignalTypes
    <3>2. signals # <<>> /\ signals' = Tail(signals)
      BY <3>1 DEF Receives
    <3>3. Head(signals) # Signal("CellError", executing)
      <4>1. ASSUME Head(signals) = Signal("CellError", executing) PROVE FALSE
        <5>1. Head(signals).type = "CellError" /\ Head(signals).exec = executing
          BY <4>1 DEF Signal
        <5>2. \E w \in DocWrites : OnCellError(w)
          BY <2>5, <5>1 DEF OnSignal, OnExecutionDone, OnKernelIdle, OnKernelDied, Receives
        <5> QED
          BY <5>1, <5>2 DEF OnCellError
      <4> QED
        BY <4>1
    <3>4. ErrorFirst(executing, signals) => ErrorFirst(executing, Tail(signals))
      BY <1>1, <3>2, <3>3, ChannelTail
    <3> QED
      BY <1>3, <2>3, <3>1, <3>2, <3>4
  <2>6. CASE CommitOutput
    <3> DEFINE x == Head(outCommits)
    <3>1. /\ outCommits # <<>> /\ outCommits' = Tail(outCommits)
          /\ signals' = Append(signals, Signal("CellError", x))
      BY <2>6 DEF CommitOutput
    <3>2. x \in Execs
      BY <1>1, <3>1, HeadTailProperties
    <3>3. Range(outCommits) = {x} \cup Range(outCommits') /\ x \in Range(outCommits)
      BY <1>1, <3>1, <3>2, RangeFacts
    <3>4. ~Completes(x, signals)
      BY <3>3 DEF ErrorInv, CommitsOrdered
    <3> HIDE DEF x
    <3>5. Signal("CellError", x) \in Signals
      BY <3>2 DEF Signal, Signals, SignalTypes
    <3>6. ErrorFirst(x, signals')
      BY <1>1, <3>1, <3>4, <3>5, ChannelAppend
    <3>7. ErrorFirst(executing, signals) => ErrorFirst(executing, signals')
      BY <1>1, <3>1, <3>5, ChannelAppend
    <3> QED
      BY <1>3, <2>3, <3>3, <3>6, <3>7
  <2>7. CASE KernelReportsIdle \/ FlushedForOrdering \/ CommitStream \/ ReportDeath
             \/ \E k \in 0 .. MaxExecs : KernelExits(k)
    <3>1. /\ UNCHANGED outCommits
          /\ \/ UNCHANGED signals
             \/ \E m \in Signals : signals' = Append(signals, m)
      <4>1. CASE KernelReportsIdle
        <5>1. Head(shell) \in Execs
          BY <1>1, <4>1, HeadTailProperties DEF KernelReportsIdle
        <5>2. Signal("KernelIdle", Head(shell)) \in Signals
          BY <5>1 DEF Signal, Signals, SignalTypes
        <5> QED
          BY <4>1, <5>2 DEF KernelReportsIdle
      <4>2. CASE CommitStream
        <5>1. Head(doneCommits) \in Execs
          BY <1>1, <4>2, HeadTailProperties DEF CommitStream
        <5>2. Signal("ExecutionDone", Head(doneCommits)) \in Signals
          BY <5>1 DEF Signal, Signals, SignalTypes
        <5> QED
          BY <4>2, <5>2 DEF CommitStream
      <4>3. CASE ReportDeath
        <5>1. Signal("KernelDied", None) \in Signals
          BY DEF Signal, Signals, SignalTypes
        <5> QED
          BY <4>3, <5>1 DEF ReportDeath
      <4>4. CASE FlushedForOrdering \/ \E k \in 0 .. MaxExecs : KernelExits(k)
        BY <4>4 DEF FlushedForOrdering, KernelExits
      <4> QED
        BY <2>7, <4>1, <4>2, <4>3, <4>4
    <3>2. ErrorFirst(executing, signals) => ErrorFirst(executing, signals')
      BY <1>1, <3>1, ChannelAppend
    <3> QED
      BY <1>3, <2>3, <3>1, <3>2
  <2> QED
    BY <1>5, <2>4, <2>5, <2>6, <2>7 DEF Next, KernelTask
<1> QED
  BY <1>4, <1>5

\* The invariant is inductive, and holds at the start.
LEMMA ErrorAlways ==
  ASSUME DocWrites = {TRUE}
  PROVE  Spec => []ErrorInv
<1>1. Init => ErrorInv
  <2> SUFFICES ASSUME Init PROVE ErrorInv
    OBVIOUS
  <2>1. Range(<<>>) = {}
    BY DEF Range
  <2> QED
    BY <2>1 DEF Init, ErrorInv, CommitsOrdered, ErrorAhead, RaisedStarted, SentStarted
<1>2. /\ TypeOK /\ TypeOK' /\ SubmitInv /\ DocInv /\ DocInv' /\ RequestInv /\ ErrorInv
      /\ [Next]_vars
      => ErrorInv'
  <2> SUFFICES ASSUME TypeOK, TypeOK', SubmitInv, DocInv, DocInv', RequestInv, ErrorInv,
                      [Next]_vars
               PROVE  ErrorInv'
    OBVIOUS
  <2>1. LedgerStep
    BY DocStep
  <2>2. CommitsOrdered'
    BY CommitsOrderedStep DEF ErrorInv
  <2>3. ErrorAhead'
    BY <2>1, ErrorAheadStep
  <2>4. RaisedStarted' /\ SentStarted'
    BY <2>1, StartedStep
  <2> QED
    BY <2>2, <2>3, <2>4 DEF ErrorInv
<1> QED
  BY <1>1, <1>2, SubmitAlways, TypeCorrect, DocAlways, RequestAlways, PTL DEF Spec

\* An execution whose kernel published an error is never recorded as done: the
\* error goes through the output committer, whose flush the IOPub task awaits
\* before it hands the completion on (flush_for_ordering), and no kernel is sent
\* an execution again that an earlier one raised an error for.
THEOREM ErrorsAreRecorded ==
  ASSUME DocWrites = {TRUE}
  PROVE  Spec => []ErrorNeverRecordedDone
<1>1. ErrorInv => ErrorNeverRecordedDone
  BY DEF ErrorInv, RaisedStarted, Unfinished, ErrorNeverRecordedDone
<1> QED
  BY <1>1, ErrorAlways, PTL

=============================================================================
