----------------------- MODULE KernelSessionDoc_proofs -----------------------
(***************************************************************************)
(* Proofs about KernelSession: what RuntimeStateDoc shows of executions    *)
(* agrees with the agent's own state, and its entries live the life that   *)
(* ExecutionLedger describes.  For every bound, and for documents whose    *)
(* writes succeed: DocWrites = {TRUE} says that RuntimeStateHandle's       *)
(* with_doc returns Ok, as it does unless its lock is poisoned or Automerge *)
(* rejects the change.                                                      *)
(***************************************************************************)
EXTENDS KernelSession_proofs

-----------------------------------------------------------------------------
(* The operators.                                                          *)

\* The elements of a queue are executions.
LEMMA RangeType ==
  ASSUME NEW q \in Seq(Execs)
  PROVE  Range(q) \subseteq Execs /\ Range(<<>>) = {}
<1>1. DOMAIN q = 1 .. Len(q) /\ \A i \in 1 .. Len(q) : q[i] \in Execs
  BY LenProperties, ElementOfSeq
<1> QED
  BY <1>1 DEF Range

\* The elements of a queue that grows at its end and loses its head.
LEMMA RangeFacts ==
  ASSUME NEW q \in Seq(Execs), NEW e \in Execs
  PROVE  /\ Range(<<>>) = {} /\ Range(q) \subseteq Execs
         /\ Range(Append(q, e)) = Range(q) \cup {e}
         /\ q # <<>> => /\ Range(q) = {Head(q)} \cup Range(Tail(q))
                        /\ Head(q) \in Range(q)
<1>1. Range(<<>>) = {}
  BY DEF Range
<1>2. DOMAIN q = 1 .. Len(q) /\ Len(q) \in Nat /\ \A i \in 1 .. Len(q) : q[i] \in Execs
  BY LenProperties, ElementOfSeq
<1>3. Range(q) \subseteq Execs
  BY <1>2 DEF Range
<1>4. Range(Append(q, e)) = Range(q) \cup {e}
  <2>1. /\ Len(Append(q, e)) = Len(q) + 1 /\ Append(q, e) \in Seq(Execs)
        /\ \A i \in 1 .. Len(q) : Append(q, e)[i] = q[i]
        /\ Append(q, e)[Len(q) + 1] = e
    BY AppendProperties
  <2>2. DOMAIN Append(q, e) = 1 .. Len(q) + 1
    BY <2>1, LenProperties
  <2>3. \A i \in 1 .. Len(q) + 1 : i \in 1 .. Len(q) \/ i = Len(q) + 1
    BY <1>2
  <2>4. 1 .. Len(q) \subseteq 1 .. Len(q) + 1 /\ Len(q) + 1 \in 1 .. Len(q) + 1
    BY <1>2
  <2> QED
    BY <1>2, <2>1, <2>2, <2>3, <2>4 DEF Range
<1>5. ASSUME q # <<>>
      PROVE  Range(q) = {Head(q)} \cup Range(Tail(q)) /\ Head(q) \in Range(q)
  <2>1. /\ Head(q) = q[1] /\ 1 <= Len(q) /\ Tail(q) \in Seq(Execs)
        /\ Len(Tail(q)) = Len(q) - 1
        /\ \A i \in 1 .. Len(Tail(q)) : Tail(q)[i] = q[i + 1]
    BY <1>2, <1>5, HeadTailProperties, EmptySeq
  <2>2. DOMAIN Tail(q) = 1 .. Len(q) - 1
    BY <2>1, LenProperties
  <2>3. \A i \in 1 .. Len(q) : i = 1 \/ (i - 1 \in 1 .. Len(q) - 1 /\ (i - 1) + 1 = i)
    BY <1>2
  <2>4. \A i \in 1 .. Len(q) - 1 : i + 1 \in 1 .. Len(q)
    BY <1>2
  <2>5. 1 \in 1 .. Len(q)
    BY <1>2, <2>1
  <2>6. Head(q) \in Range(q)
    BY <1>2, <2>1, <2>5 DEF Range
  <2>7. Range(Tail(q)) \subseteq Range(q)
    BY <1>2, <2>1, <2>2, <2>4 DEF Range
  <2>8. ASSUME NEW i \in 1 .. Len(q) PROVE q[i] \in {Head(q)} \cup Range(Tail(q))
    <3>1. CASE i = 1
      BY <2>1, <3>1
    <3>2. CASE i - 1 \in 1 .. Len(q) - 1 /\ (i - 1) + 1 = i
      <4>1. Tail(q)[i - 1] = q[i]
        BY <2>1, <3>2
      <4> QED
        BY <2>2, <3>2, <4>1 DEF Range
    <3> QED
      BY <2>3, <3>1, <3>2
  <2> QED
    BY <1>2, <2>6, <2>7, <2>8 DEF Range
<1> QED
  BY <1>1, <1>3, <1>4, <1>5

\* A queue in the order in which the executions were created.
Sorted(q) == \A i, j \in 1 .. Len(q) : i < j => q[i] < q[j]

\* It stays so when a later one is added or its head is taken.
LEMMA SortedFacts ==
  ASSUME NEW q \in Seq(Execs), Sorted(q), NEW e \in Execs
  PROVE  /\ Sorted(<<>>)
         /\ (\A y \in Range(q) : y < e) => Sorted(Append(q, e))
         /\ q # <<>> => Sorted(Tail(q)) /\ \A y \in Range(Tail(q)) : Head(q) < y
<1>1. Sorted(<<>>)
  BY DEF Sorted
<1>2. DOMAIN q = 1 .. Len(q) /\ Len(q) \in Nat /\ \A i \in 1 .. Len(q) : q[i] \in Execs
  BY LenProperties, ElementOfSeq
<1>3. ASSUME \A y \in Range(q) : y < e PROVE Sorted(Append(q, e))
  <2>1. /\ Len(Append(q, e)) = Len(q) + 1
        /\ \A i \in 1 .. Len(q) : Append(q, e)[i] = q[i]
        /\ Append(q, e)[Len(q) + 1] = e
    BY AppendProperties
  <2>2. \A i \in 1 .. Len(q) : q[i] < e
    BY <1>2, <1>3 DEF Range
  <2>3. ASSUME NEW i \in 1 .. Len(q) + 1, NEW j \in 1 .. Len(q) + 1, i < j
        PROVE  Append(q, e)[i] < Append(q, e)[j]
    <3>1. i \in 1 .. Len(q) /\ (j \in 1 .. Len(q) \/ j = Len(q) + 1)
      BY <1>2, <2>3
    <3> QED
      BY <2>1, <2>2, <2>3, <3>1 DEF Sorted
  <2> QED
    BY <2>1, <2>3 DEF Sorted
<1>4. ASSUME q # <<>>
      PROVE  Sorted(Tail(q)) /\ \A y \in Range(Tail(q)) : Head(q) < y
  <2>1. /\ Head(q) = q[1] /\ 1 <= Len(q) /\ Tail(q) \in Seq(Execs)
        /\ Len(Tail(q)) = Len(q) - 1
        /\ \A i \in 1 .. Len(Tail(q)) : Tail(q)[i] = q[i + 1]
    BY <1>2, <1>4, HeadTailProperties, EmptySeq
  <2>2. DOMAIN Tail(q) = 1 .. Len(q) - 1
    BY <2>1, LenProperties
  <2>3. ASSUME NEW i \in 1 .. Len(Tail(q)), NEW j \in 1 .. Len(Tail(q)), i < j
        PROVE  Tail(q)[i] < Tail(q)[j]
    <3>1. i + 1 \in 1 .. Len(q) /\ j + 1 \in 1 .. Len(q) /\ i + 1 < j + 1
      BY <1>2, <2>1, <2>3
    <3> QED
      BY <2>1, <3>1 DEF Sorted
  <2>4. ASSUME NEW i \in 1 .. Len(q) - 1 PROVE Head(q) < Tail(q)[i]
    <3>1. 1 \in 1 .. Len(q) /\ i + 1 \in 1 .. Len(q) /\ 1 < i + 1 /\ i \in 1 .. Len(Tail(q))
      BY <1>2, <2>1
    <3> QED
      BY <2>1, <3>1 DEF Sorted
  <2> QED
    BY <2>2, <2>3, <2>4 DEF Sorted, Range
<1> QED
  BY <1>1, <1>3, <1>4

\* What a writer may do to an entry that is there, and to one that is not yet.
Legal(a, b) ==
  \/ a = b
  \/ a = "queued" /\ b \in {"running", "cancelled"}
  \/ a = "running" /\ b \in {"done", "error"}

\* abort_inflight_executions moves entries legally and leaves the settled ones.
LEMMA AbortFacts ==
  ASSUME NEW st \in [Execs -> ExecStatuses], NEW e \in Execs
  PROVE  /\ Legal(st[e], AbortInflight(st)[e])
         /\ AbortInflight(st)[e] \notin {"queued", "running"}
         /\ st[e] = "running" => AbortInflight(st)[e] = "error"
         /\ st[e] = "queued" => AbortInflight(st)[e] = "cancelled"
         /\ st[e] \notin {"queued", "running"} => AbortInflight(st)[e] = st[e]
BY DEF AbortInflight, Legal

\* What a teardown writes is what the sweep alone would write, as long as the
\* slot and the queue agree with the doc: the sweep is a safety net.
LEMMA ResolveIsAbort ==
  ASSUME NEW st \in [Execs -> ExecStatuses], NEW running \in Execs \cup {None}, NEW es,
         running # None => st[running] \in {"running", "error"},
         \A e \in es : st[e] \in {"queued", "cancelled"}
  PROVE  ResolveInflight(st, running, es) = AbortInflight(st)
<1> DEFINE failed == IF running = None THEN st ELSE SetExecutionDone(st, running, FALSE)
           swept == SetCancelled(failed, es)
<1>1. failed \in [Execs -> ExecStatuses]
  BY SetExecutionDoneType
<1>2. \A e \in Execs : failed[e] = IF e = running THEN "error" ELSE st[e]
  BY NoneIsNoExec DEF SetExecutionDone
<1>3. swept \in [Execs -> ExecStatuses]
  BY <1>1, SetCancelledType
<1>4. \A e \in Execs : swept[e] = IF e \in es THEN "cancelled" ELSE failed[e]
  BY DEF SetCancelled
<1>5. ResolveInflight(st, running, es) = AbortInflight(swept)
  BY DEF ResolveInflight
<1> HIDE DEF failed, swept
<1>6. ASSUME NEW e \in Execs PROVE AbortInflight(swept)[e] = AbortInflight(st)[e]
  <2>1. CASE e \in es
    <3>1. swept[e] = "cancelled" /\ st[e] \in {"queued", "cancelled"}
      BY <1>4, <2>1
    <3> QED
      BY <1>3, <3>1, AbortFacts
  <2>2. CASE e \notin es /\ e = running
    <3>1. swept[e] = "error" /\ st[e] \in {"running", "error"}
      BY <1>2, <1>4, <2>2, NoneIsNoExec
    <3> QED
      BY <1>3, <3>1, AbortFacts
  <2>3. CASE e \notin es /\ e # running
    <3>1. swept[e] = st[e]
      BY <1>2, <1>4, <2>3
    <3> QED
      BY <3>1 DEF AbortInflight
  <2> QED
    BY <2>1, <2>2, <2>3
<1>7. AbortInflight(swept) \in [Execs -> ExecStatuses] /\ AbortInflight(st) \in [Execs -> ExecStatuses]
  BY <1>3, AbortInflightType
<1> QED
  BY <1>5, <1>6, <1>7

-----------------------------------------------------------------------------
(* The invariant.                                                          *)

\* While a kernel is there: the slot holds the entry that runs, the queue holds
\* entries that wait, in order, and every entry that waits is in the queue or
\* still on the loop's worklist, behind those in the queue.
InSlots(ex, q, st, td) ==
  /\ ex # None => st[ex] = "running"
  /\ \A e \in Execs : st[e] = "running" => ex = e
  /\ \A e \in Range(q) : st[e] = "queued"
  /\ Sorted(q)
  /\ \A e \in Execs : st[e] = "queued" => e \in Range(q) \cup td
  /\ \A e \in td : st[e] = "queued"
  /\ \A x \in td \ Range(q), y \in Range(q) : y < x

\* While there is none: what a restart left in the slot and the queue is settled.
OutSlots(ex, q, st) ==
  /\ ex # None => st[ex] = "error"
  /\ \A e \in Execs : st[e] # "running"
  /\ \A e \in Range(q) : st[e] = "cancelled"

SlotsMatch ==
  /\ kernel # None => InSlots(executing, queue, execStatus, todo)
  /\ kernel = None => OutSlots(executing, queue, execStatus)

\* Entries arrive in order, and only entries that have arrived are seen.
Arrived ==
  /\ \A d, e \in Execs : d < e /\ execStatus[e] # "absent" => execStatus[d] # "absent"
  /\ \A e \in seen : execStatus[e] # "absent"

\* The loop launches into an empty slot only, and a restart has swept the doc.
LaunchesIntoEmpty ==
  /\ kernel # None => pendingLaunch = "none" /\ status \in {"Idle", "Busy"}
  /\ pc \in {"launching", "restarting"} => kernel = None
  /\ pc = "restarting" => \A e \in Execs : execStatus[e] # "queued"

\* QueueProjected also while the loop admits, and an empty projection without a
\* kernel.
Projected ==
  /\ kernel = None => docQueue = EmptyQueue
  /\ kernel # None => /\ docQueue.queued = queue
                      /\ docQueue.executing \in {executing, None}
                      /\ docQueue.executing = None => executing = None \/ hadError

DocInv == SlotsMatch /\ Arrived /\ LaunchesIntoEmpty /\ Projected /\ NoForgottenQueued

\* What a step may do to the entries.
Turn ==
  \A e \in Execs : execStatus[e] # "running" /\ execStatus'[e] = "running" =>
    \A d \in Execs : /\ d < e => execStatus'[d] \notin {"absent", "queued"}
                     /\ d # e => execStatus'[d] # "running"
LegalStep == \A e \in Execs : Legal(execStatus[e], execStatus'[e])
Arrives == \A e \in Execs : \/ execStatus'[e] = execStatus[e]
                            \/ execStatus[e] = "absent" /\ execStatus'[e] = "queued"
LedgerStep == Turn /\ (LegalStep \/ Arrives)
-----------------------------------------------------------------------------
(* What the steps share.                                                   *)

\* Entries that move legally stay in the order they arrived in.
LEMMA ArrivedKept ==
  ASSUME Arrived, LegalStep, TypeOK, TypeOK',
         \A e \in seen' : e \in seen \/ execStatus[e] # "absent"
  PROVE  Arrived'
<1>1. \A e \in Execs : execStatus'[e] = "absent" <=> execStatus[e] = "absent"
  BY DEF LegalStep, Legal
<1>2. seen' \subseteq Execs
  BY DEF TypeOK, LoopTypeOK
<1>3. \A e \in seen' : execStatus[e] # "absent"
  BY DEF Arrived
<1>4. \A d, e \in Execs : d < e /\ execStatus'[e] # "absent" => execStatus'[d] # "absent"
  BY <1>1 DEF Arrived
<1> QED
  BY <1>1, <1>2, <1>3, <1>4 DEF Arrived

\* A step that writes no entry.
LEMMA Unwritten ==
  ASSUME UNCHANGED execStatus
  PROVE  Turn /\ LegalStep
BY DEF Turn, LegalStep, Legal

\* The sweep.
LEMMA SweepStep ==
  ASSUME TypeOK, execStatus' = AbortInflight(execStatus)
  PROVE  /\ Turn /\ LegalStep
         /\ \A e \in Execs : execStatus'[e] \notin {"queued", "running"}
         /\ \A e \in Execs : execStatus[e] \in {"running", "error"} => execStatus'[e] = "error"
         /\ \A e \in Execs : execStatus[e] \in {"queued", "cancelled"}
                               => execStatus'[e] = "cancelled"
<1>1. execStatus \in [Execs -> ExecStatuses]
  BY DEF TypeOK, DocTypeOK
<1>2. ASSUME NEW e \in Execs
      PROVE  /\ Legal(execStatus[e], execStatus'[e])
             /\ execStatus'[e] \notin {"queued", "running"}
             /\ execStatus[e] \in {"running", "error"} => execStatus'[e] = "error"
             /\ execStatus[e] \in {"queued", "cancelled"} => execStatus'[e] = "cancelled"
  BY <1>1, AbortFacts
<1> QED
  BY <1>2 DEF Turn, LegalStep

\* Every teardown amounts to the sweep.
LEMMA TeardownSweeps ==
  ASSUME TypeOK, DocInv
  PROVE  ResolveInflight(execStatus, executing, Range(queue)) = AbortInflight(execStatus)
<1>1. /\ execStatus \in [Execs -> ExecStatuses] /\ executing \in Execs \cup {None}
  BY DEF TypeOK, DocTypeOK, StateTypeOK
<1>2. executing # None => execStatus[executing] \in {"running", "error"}
  BY DEF DocInv, SlotsMatch, InSlots, OutSlots
<1>3. \A e \in Range(queue) : execStatus[e] \in {"queued", "cancelled"}
  BY DEF DocInv, SlotsMatch, InSlots, OutSlots
<1> QED
  BY <1>1, <1>2, <1>3, ResolveIsAbort

\* The head of the queue is started: it is the first that waits.
LEMMA StartHead ==
  ASSUME NEW q \in Seq(Execs), q # <<>>, NEW st \in [Execs -> ExecStatuses],
         NEW td \in SUBSET Execs, Head(q) \notin td, InSlots(None, q, st, td),
         \A d, e \in Execs : d < e /\ st[e] # "absent" => st[d] # "absent",
         NEW t \in {[st EXCEPT ![Head(q)] = "running"]}
  PROVE  /\ Head(q) \in Execs /\ st[Head(q)] = "queued"
         /\ InSlots(Head(q), Tail(q), t, td)
         /\ \A d \in Execs : /\ d < Head(q) => t[d] \notin {"absent", "queued"}
                             /\ d # Head(q) => t[d] # "running" /\ t[d] = st[d]
<1>1. /\ Head(q) \in Execs /\ Range(q) \subseteq Execs /\ Head(q) \in Range(q)
      /\ Range(q) = {Head(q)} \cup Range(Tail(q))
  BY HeadTailProperties, RangeFacts
<1>2. st[Head(q)] = "queued" /\ Sorted(q)
  BY <1>1 DEF InSlots
<1>3. Sorted(Tail(q)) /\ \A y \in Range(Tail(q)) : Head(q) < y
  BY <1>1, <1>2, SortedFacts
<1>4. Head(q) \notin Range(Tail(q)) /\ \A y \in Range(q) : ~(y < Head(q))
  <2>1. \A x, y \in Execs : x < y => x # y /\ ~(y < x)
    BY DEF Execs
  <2>2. ~(Head(q) < Head(q))
    BY <1>1, <2>1
  <2> QED
    BY <1>1, <1>3, <2>1, <2>2
<1>5. t[Head(q)] = "running" /\ \A d \in Execs : d # Head(q) => t[d] = st[d]
  BY <1>1
<1>6. \A d \in Execs : d # Head(q) => t[d] # "running"
  BY <1>5, NoneIsNoExec DEF InSlots
<1>7. \A d \in Execs : d < Head(q) => t[d] \notin {"absent", "queued"}
  <2> SUFFICES ASSUME NEW d \in Execs, d < Head(q)
               PROVE  st[d] # "absent" /\ st[d] # "queued" /\ d # Head(q)
    BY <1>5
  <2>1. d # Head(q)
    BY <1>1 DEF Execs
  <2>2. st[d] # "absent"
    BY <1>1, <1>2
  <2>3. ASSUME st[d] = "queued" PROVE FALSE
    <3>1. d \in Range(q) \/ d \in td \ Range(q)
      BY <2>3 DEF InSlots
    <3>2. CASE d \in Range(q)
      BY <1>4, <3>2
    <3>3. CASE d \in td \ Range(q)
      <4>1. Head(q) < d
        BY <1>1, <3>3 DEF InSlots
      <4> QED
        BY <1>1, <4>1 DEF Execs
    <3> QED
      BY <3>1, <3>2, <3>3
  <2> QED
    BY <2>1, <2>2, <2>3
<1>8. InSlots(Head(q), Tail(q), t, td)
  <2>1. \A e \in Range(Tail(q)) : t[e] = "queued"
    BY <1>1, <1>4, <1>5 DEF InSlots
  <2>2. \A e \in Execs : t[e] = "queued" => e \in Range(Tail(q)) \cup td
    BY <1>1, <1>5 DEF InSlots
  <2>3. \A e \in td : t[e] = "queued"
    BY <1>5 DEF InSlots
  <2>4. \A x \in td \ Range(Tail(q)), y \in Range(Tail(q)) : y < x
    BY <1>1 DEF InSlots
  <2> QED
    BY <1>3, <1>5, <1>6, <2>1, <2>2, <2>3, <2>4 DEF InSlots
<1> QED
  BY <1>1, <1>2, <1>5, <1>6, <1>7, <1>8

\* Nothing of this is touched by the kernel's tasks.
LEMMA DocQuiet ==
  ASSUME TypeOK, DocInv, UNCHANGED <<loopVars, slotVars, stateVars, docVars>>
  PROVE  DocInv' /\ LedgerStep
<1> USE DEF loopVars, slotVars, stateVars, docVars
<1>1. SlotsMatch'
  BY DEF DocInv, SlotsMatch
<1>2. Arrived'
  BY DEF DocInv, Arrived
<1>3. LaunchesIntoEmpty' /\ Projected'
  BY DEF DocInv, LaunchesIntoEmpty, Projected
<1>4. NoForgottenQueued'
  BY DEF DocInv, NoForgottenQueued
<1> QED
  BY <1>1, <1>2, <1>3, <1>4, Unwritten DEF DocInv, LedgerStep
-----------------------------------------------------------------------------
(* The steps that start an execution.                                      *)

\* One turn of queue_synced_executions.
LEMMA DocAdmitNext ==
  ASSUME TypeOK, TypeOK', SubmitInv, DocInv, NEW e \in Execs, NEW ok \in BOOLEAN,
         AdmitNext(e, TRUE, TRUE, ok)
  PROVE  DocInv' /\ LedgerStep
<1>1. /\ pc = "admitting" /\ e \in todo /\ \A x \in todo : e <= x
      /\ todo' = todo \ {e} /\ kernel # None
      /\ UNCHANGED <<pc, pendingLaunch, kernel, handle>>
  BY DEF AdmitNext, SubmitInv, AdmittingHasKernel
<1>2. InSlots(executing, queue, execStatus, todo) /\ execStatus[e] = "queued"
  BY <1>1 DEF DocInv, SlotsMatch, InSlots
<1>3. /\ queue \in Seq(Execs) /\ todo \subseteq Execs /\ seen \subseteq Execs
      /\ execStatus \in [Execs -> ExecStatuses] /\ executing \in Execs \cup {None}
      /\ Range(queue) \subseteq Execs
  BY RangeType DEF TypeOK, StateTypeOK, LoopTypeOK, DocTypeOK
<1>4. /\ \A x \in Execs : execStatus[x] = "queued" /\ x \in seen => x \in Range(queue)
      /\ docQueue.queued = queue /\ docQueue.executing \in {executing, None}
      /\ docQueue.executing = None => executing = None \/ hadError
      /\ pendingLaunch = "none" /\ status \in {"Idle", "Busy"}
  BY <1>1 DEF DocInv, NoForgottenQueued, Projected, LaunchesIntoEmpty
<1>5. CASE HandedOver(e) \/ e = executing \/ e \in Range(queue)
  <2>1. UNCHANGED <<stateVars, docVars>> /\ seen' \in {seen, seen \cup {e}}
    BY <1>5 DEF AdmitNext
  <2>2. UNCHANGED <<queue, executing, hadError, status, execStatus, docQueue>>
    BY <2>1 DEF stateVars, docVars
  <2>3. e # executing
    BY <1>2, NoneIsNoExec DEF InSlots
  <2>4. e \in Range(queue)
    BY <1>2, <1>4, <1>5, <2>3 DEF HandedOver
  <2>5. InSlots(executing, queue, execStatus, todo \ {e})
    BY <1>2, <2>4 DEF InSlots
  <2>6. SlotsMatch'
    BY <1>1, <2>2, <2>5 DEF SlotsMatch
  <2>7. Arrived'
    BY <1>2, <2>1, <2>2, Unwritten, ArrivedKept DEF DocInv
  <2>8. LaunchesIntoEmpty' /\ Projected'
    BY <1>1, <1>4, <2>2 DEF LaunchesIntoEmpty, Projected
  <2>9. NoForgottenQueued'
    BY <1>1, <1>3, <1>4, <2>1, <2>2, <2>4 DEF NoForgottenQueued
  <2> QED
    BY <2>2, <2>6, <2>7, <2>8, <2>9, Unwritten DEF DocInv, LedgerStep
<1>6. CASE ~(HandedOver(e) \/ e = executing \/ e \in Range(queue))
  <2> DEFINE q == Append(queue, e)
             dq == [executing |-> executing, queued |-> q]
             td == todo \ {e}
  <2>1. /\ ProcessNext(executing, q, interruptPending, status, execStatus, dq, TRUE, ok)
        /\ seen' = IF ok \/ queue' = q THEN seen \cup {e} ELSE seen
        /\ UNCHANGED <<hadError, interruptPending, lifecycle>>
    BY <1>6 DEF AdmitNext
  <2>2. q \in Seq(Execs) /\ q # <<>> /\ Range(q) = Range(queue) \cup {e}
    BY <1>3, AppendProperties, RangeFacts
  <2>3. \A y \in Range(queue) : y < e
    BY <1>1, <1>2, <1>6 DEF InSlots
  <2>4. Sorted(q)
    BY <1>2, <1>3, <2>3, SortedFacts DEF InSlots
  <2>5. InSlots(executing, q, execStatus, td)
    <3>1. \A x \in td \ Range(q), y \in Range(q) : y < x
      <4>1. ASSUME NEW x \in td \ Range(q) PROVE e < x
        <5>1. e <= x /\ e # x /\ x \in Execs
          BY <1>1, <1>3
        <5> QED
          BY <5>1 DEF Execs
      <4> QED
        BY <1>2, <2>2, <4>1 DEF InSlots
    <3>2. \A x \in Range(q) : execStatus[x] = "queued"
      BY <1>2, <2>2 DEF InSlots
    <3>3. \A x \in Execs : execStatus[x] = "queued" => x \in Range(q) \cup td
      BY <1>2, <2>2 DEF InSlots
    <3> QED
      BY <1>2, <2>4, <3>1, <3>2, <3>3 DEF InSlots
  <2>6. seen' \subseteq seen \cup {e}
    BY <2>1
  <2>7. CASE ~MayStart(executing, interruptPending, q)
    <3>1. /\ executing' = executing /\ queue' = q /\ status' = status
          /\ execStatus' = execStatus /\ docQueue' = dq
      BY <2>1, <2>7 DEF ProcessNext
    <3>2. SlotsMatch'
      BY <1>1, <2>5, <3>1 DEF SlotsMatch
    <3>3. Arrived'
      BY <1>2, <2>6, <3>1, Unwritten, ArrivedKept DEF DocInv
    <3>4. LaunchesIntoEmpty' /\ Projected'
      BY <1>1, <1>4, <3>1 DEF LaunchesIntoEmpty, Projected
    <3>5. NoForgottenQueued'
      BY <1>3, <1>4, <2>2, <2>6, <3>1 DEF NoForgottenQueued
    <3> QED
      BY <3>1, <3>2, <3>3, <3>4, <3>5, Unwritten DEF DocInv, LedgerStep
  <2>8. CASE MayStart(executing, interruptPending, q)
    <3>1. executing = None /\ queue = <<>>
      BY <1>1, <2>8 DEF MayStart, SubmitInv, IdleQueueEmpty
    <3>2. Head(q) = e /\ Tail(q) = <<>> /\ q = <<e>>
      BY <3>1
    <3>3. /\ executing' = Head(q) /\ queue' = Tail(q) /\ status' = "Busy"
          /\ execStatus' = [execStatus EXCEPT ![Head(q)] = "running"]
          /\ docQueue' = StartedQueue(q)
      BY <2>1, <2>8 DEF ProcessNext
    <3>4. td \in SUBSET Execs /\ Head(q) \notin td
      BY <1>3, <3>2
    <3>5. InSlots(None, q, execStatus, td)
      BY <2>5, <3>1
    <3>6. \A c, d \in Execs : c < d /\ execStatus[d] # "absent" => execStatus[c] # "absent"
      BY DEF DocInv, Arrived
    <3> HIDE DEF q, td, dq
    <3>7. /\ Head(q) \in Execs /\ execStatus[Head(q)] = "queued"
          /\ InSlots(Head(q), Tail(q), execStatus', td)
          /\ \A d \in Execs :
               /\ d < Head(q) => execStatus'[d] \notin {"absent", "queued"}
               /\ d # Head(q) => execStatus'[d] # "running" /\ execStatus'[d] = execStatus[d]
      <4>1. execStatus' \in {[execStatus EXCEPT ![Head(q)] = "running"]}
        BY <3>3
      <4> QED
        BY <1>3, <2>2, <3>4, <3>5, <3>6, <4>1, StartHead
    <3>8. execStatus'[e] = "running"
      BY <1>3, <3>2, <3>3
    <3>9. LegalStep
      BY <3>2, <3>7, <3>8 DEF LegalStep, Legal
    <3>10. Turn
      BY <3>7 DEF Turn
    <3>11. SlotsMatch'
      BY <1>1, <3>3, <3>7 DEF SlotsMatch, td
    <3>12. Arrived'
      BY <1>2, <2>6, <3>9, ArrivedKept DEF DocInv
    <3>13. LaunchesIntoEmpty' /\ Projected'
      BY <1>1, <1>4, <3>3 DEF LaunchesIntoEmpty, Projected, StartedQueue
    <3>14. NoForgottenQueued'
      BY <1>3, <1>4, <2>6, <3>1, <3>2, <3>7, <3>8, RangeFacts DEF NoForgottenQueued
    <3> QED
      BY <3>9, <3>10, <3>11, <3>12, <3>13, <3>14 DEF DocInv, LedgerStep
  <2> QED
    BY <2>7, <2>8
<1> QED
  BY <1>5, <1>6

\* process_next on behalf of a handler of the loop, which has settled the doc to
\* st: nothing starts, or the head of the queue does.
LEMMA DocProcessNext ==
  ASSUME TypeOK, TypeOK', DocInv, kernel # None, pc = "loop", todo = {},
         NEW running \in Execs \cup {None}, NEW gate, NEW base \in {"Idle", "Busy"},
         NEW st \in [Execs -> ExecStatuses], NEW dq, NEW ok \in BOOLEAN,
         ProcessNext(running, queue, gate, base, st, dq, TRUE, ok),
         UNCHANGED <<pc, todo, pendingLaunch, kernel, seen>>,
         InSlots(running, queue, st, {}),
         \A e \in Execs : Legal(execStatus[e], st[e]),
         \A e \in Execs : st[e] = "queued" => execStatus[e] = "queued",
         \A e \in Execs : st[e] = "running" => execStatus[e] = "running",
         dq.queued = queue, dq.executing \in {running, None},
         dq.executing = None => running = None \/ hadError'
  PROVE  DocInv' /\ LedgerStep
<1>1. /\ queue \in Seq(Execs) /\ seen \subseteq Execs
      /\ execStatus \in [Execs -> ExecStatuses] /\ Range(queue) \subseteq Execs
  BY RangeType DEF TypeOK, StateTypeOK, LoopTypeOK, DocTypeOK
<1>2. /\ \A x \in Execs : execStatus[x] = "queued" /\ x \in seen => x \in Range(queue)
      /\ pendingLaunch = "none"
  BY DEF DocInv, NoForgottenQueued, LaunchesIntoEmpty
<1>3. CASE ~MayStart(running, gate, queue)
  <2>1. /\ executing' = running /\ queue' = queue /\ status' = base
        /\ execStatus' = st /\ docQueue' = dq
    BY <1>3 DEF ProcessNext
  <2>2. LegalStep /\ Turn
    BY <2>1 DEF LegalStep, Turn
  <2>3. SlotsMatch'
    BY <2>1 DEF SlotsMatch
  <2>4. Arrived'
    BY <2>2, ArrivedKept DEF DocInv
  <2>5. LaunchesIntoEmpty' /\ Projected'
    BY <1>2, <2>1 DEF LaunchesIntoEmpty, Projected
  <2>6. NoForgottenQueued'
    BY <1>1, <1>2, <2>1 DEF NoForgottenQueued
  <2> QED
    BY <2>2, <2>3, <2>4, <2>5, <2>6 DEF DocInv, LedgerStep
<1>4. CASE MayStart(running, gate, queue)
  <2>1. running = None /\ queue # <<>>
    BY <1>4 DEF MayStart
  <2>2. /\ executing' = Head(queue) /\ queue' = Tail(queue) /\ status' = "Busy"
        /\ execStatus' = [st EXCEPT ![Head(queue)] = "running"]
        /\ docQueue' = StartedQueue(queue)
    BY <1>4 DEF ProcessNext
  <2>3. \A c, d \in Execs : c < d /\ st[d] # "absent" => st[c] # "absent"
    <3>1. \A e \in Execs : st[e] = "absent" <=> execStatus[e] = "absent"
      BY DEF Legal
    <3> QED
      BY <3>1 DEF DocInv, Arrived
  <2>4. /\ Head(queue) \in Execs /\ st[Head(queue)] = "queued"
        /\ InSlots(Head(queue), Tail(queue), execStatus', {})
        /\ \A d \in Execs :
             /\ d < Head(queue) => execStatus'[d] \notin {"absent", "queued"}
             /\ d # Head(queue) => execStatus'[d] # "running" /\ execStatus'[d] = st[d]
    <3>1. InSlots(None, queue, st, {}) /\ {} \in SUBSET Execs /\ Head(queue) \notin {}
      BY <2>1
    <3>2. execStatus' \in {[st EXCEPT ![Head(queue)] = "running"]}
      BY <2>2
    <3> DEFINE td == {}
    <3>3. td \in SUBSET Execs /\ Head(queue) \notin td /\ InSlots(None, queue, st, td)
      BY <3>1
    <3> HIDE DEF td
    <3>4. /\ Head(queue) \in Execs /\ st[Head(queue)] = "queued"
          /\ InSlots(Head(queue), Tail(queue), execStatus', td)
          /\ \A d \in Execs :
               /\ d < Head(queue) => execStatus'[d] \notin {"absent", "queued"}
               /\ d # Head(queue) => execStatus'[d] # "running" /\ execStatus'[d] = st[d]
      BY <1>1, <2>1, <2>3, <3>2, <3>3, StartHead
    <3> QED
      BY <3>4 DEF td
  <2>5. execStatus'[Head(queue)] = "running"
    BY <2>2, <2>4
  <2>6. LegalStep
    <3>1. execStatus[Head(queue)] = "queued"
      BY <2>4
    <3> QED
      BY <2>4, <2>5, <3>1 DEF LegalStep, Legal
  <2>7. Turn
    BY <2>4 DEF Turn
  <2>8. SlotsMatch'
    BY <2>2, <2>4 DEF SlotsMatch
  <2>9. Arrived'
    BY <2>6, ArrivedKept DEF DocInv
  <2>10. LaunchesIntoEmpty' /\ Projected'
    BY <1>2, <2>2 DEF LaunchesIntoEmpty, Projected, StartedQueue
  <2>11. NoForgottenQueued'
    <3>1. Range(queue) = {Head(queue)} \cup Range(Tail(queue))
      BY <1>1, <2>1, <2>4, RangeFacts
    <3> QED
      BY <1>1, <1>2, <2>2, <2>4, <2>5, <3>1 DEF NoForgottenQueued
  <2> QED
    BY <2>6, <2>7, <2>8, <2>9, <2>10, <2>11 DEF DocInv, LedgerStep
<1> QED
  BY <1>3, <1>4
\* Completion of the running execution.
LEMMA DocOnExecutionDone ==
  ASSUME TypeOK, TypeOK', SubmitInv, DocInv, NEW ok \in BOOLEAN,
         OnExecutionDone(TRUE, TRUE, ok)
  PROVE  DocInv' /\ LedgerStep
<1> DEFINE e == Head(signals).exec
           st == SetExecutionDone(execStatus, e, ~hadError)
           dq == [executing |-> None, queued |-> queue]
<1>1. UNCHANGED <<loopVars, slotVars>> /\ pc = "loop"
  BY DEF OnExecutionDone, Receives
<1>2. CASE ~(kernel # None /\ e = executing)
  <2>1. UNCHANGED <<stateVars, docVars>>
    BY <1>2 DEF OnExecutionDone
  <2> QED
    BY <1>1, <2>1, DocQuiet
<1>3. CASE kernel # None /\ e = executing
  <2>1. ProcessNext(None, queue, interruptPending, "Idle", st, dq, TRUE, ok)
    BY <1>3 DEF OnExecutionDone
  <2>2. /\ UNCHANGED <<pc, todo, pendingLaunch, kernel, seen>> /\ todo = {}
    BY <1>1 DEF loopVars, slotVars, SubmitInv, AdmittingHasKernel
  <2>3. /\ execStatus \in [Execs -> ExecStatuses] /\ executing \in Execs \cup {None}
        /\ queue \in Seq(Execs) /\ hadError \in BOOLEAN /\ Range(queue) \subseteq Execs
    BY RangeType DEF TypeOK, DocTypeOK, StateTypeOK
  <2>4. InSlots(executing, queue, execStatus, {})
    BY <1>3, <2>2 DEF DocInv, SlotsMatch
  <2>5. /\ st \in [Execs -> ExecStatuses]
        /\ \A x \in Execs : x # executing => st[x] = execStatus[x]
        /\ executing # None => st[executing] \in {"done", "error"}
    <3>1. CASE executing = None
      <4>1. st = [execStatus EXCEPT ![None] = IF ~hadError THEN "done" ELSE "error"]
        BY <1>3, <3>1 DEF SetExecutionDone
      <4>2. None \notin Execs
        BY NoneIsNoExec
      <4>3. st = execStatus
        BY <2>3, <4>1, <4>2
      <4> QED
        BY <2>3, <3>1, <4>3
    <3>2. CASE executing # None
      <4>1. st = [execStatus EXCEPT ![executing] = IF ~hadError THEN "done" ELSE "error"]
        BY <1>3 DEF SetExecutionDone
      <4>2. executing \in Execs
        BY <2>3, <3>2
      <4> QED
        BY <2>3, <4>1, <4>2 DEF ExecStatuses, Terminal
    <3> QED
      BY <3>1, <3>2
  <2> HIDE DEF st
  <2>6. executing # None => executing \in Execs /\ execStatus[executing] = "running"
    BY <2>3, <2>4 DEF InSlots
  <2>7. \A x \in Execs : Legal(execStatus[x], st[x])
    BY <2>5, <2>6, NoneIsNoExec DEF Legal
  <2>8. \A x \in Execs : st[x] # "running"
    BY <2>4, <2>5, NoneIsNoExec DEF InSlots
  <2>9. \A x \in Execs : st[x] = "queued" <=> execStatus[x] = "queued"
    BY <2>5, <2>6, NoneIsNoExec
  <2>10. InSlots(None, queue, st, {})
    BY <2>3, <2>4, <2>8, <2>9 DEF InSlots
  <2>11. dq.queued = queue /\ dq.executing = None
    OBVIOUS
  <2> HIDE DEF dq
  <2> QED
    BY <1>1, <1>3, <2>1, <2>2, <2>5, <2>7, <2>8, <2>9, <2>10, <2>11, DocProcessNext
<1> QED
  BY <1>2, <1>3

\* The idle that opens the gate.
LEMMA DocOnKernelIdle ==
  ASSUME TypeOK, TypeOK', SubmitInv, DocInv, NEW ok \in BOOLEAN, OnKernelIdle(TRUE, ok)
  PROVE  DocInv' /\ LedgerStep
<1> DEFINE opens == kernel # None /\ interruptPending # None
                      /\ interruptPending = Head(signals).exec
<1>1. UNCHANGED <<loopVars, slotVars>> /\ pc = "loop"
  BY DEF OnKernelIdle, Receives
<1>2. CASE ~opens
  <2>1. UNCHANGED <<stateVars, docVars>>
    BY <1>2 DEF OnKernelIdle
  <2> QED
    BY <1>1, <2>1, DocQuiet
<1>3. CASE opens
  <2>1. /\ ProcessNext(executing, queue, None, "Idle", execStatus, docQueue, TRUE, ok)
        /\ hadError' = hadError
    BY <1>3 DEF OnKernelIdle
  <2>2. /\ UNCHANGED <<pc, todo, pendingLaunch, kernel, seen>> /\ todo = {}
    BY <1>1 DEF loopVars, slotVars, SubmitInv, AdmittingHasKernel
  <2>3. /\ execStatus \in [Execs -> ExecStatuses] /\ executing \in Execs \cup {None}
    BY DEF TypeOK, DocTypeOK, StateTypeOK
  <2>4. InSlots(executing, queue, execStatus, {})
    BY <1>3, <2>2 DEF DocInv, SlotsMatch
  <2>5. /\ docQueue.queued = queue /\ docQueue.executing \in {executing, None}
        /\ docQueue.executing = None => executing = None \/ hadError'
    BY <1>3, <2>1 DEF DocInv, Projected
  <2>6. \A x \in Execs : Legal(execStatus[x], execStatus[x])
    BY DEF Legal
  <2> QED
    BY <1>1, <1>3, <2>1, <2>2, <2>3, <2>4, <2>5, <2>6, DocProcessNext
<1> QED
  BY <1>2, <1>3

-----------------------------------------------------------------------------
(* The steps that sweep the doc, and the others.                           *)

\* A teardown that empties the kernel slot: whatever it leaves in KernelState is
\* settled in the doc.
LEMMA DocTeardown ==
  ASSUME TypeOK, TypeOK', SubmitInv, DocInv,
         execStatus' = AbortInflight(execStatus), docQueue' = EmptyQueue,
         kernel' = None, executing' \in {executing, None}, queue' \in {queue, <<>>},
         seen' = {}
  PROVE  DocInv' /\ LedgerStep
<1>1. /\ Turn /\ LegalStep
      /\ \A e \in Execs : execStatus'[e] \notin {"queued", "running"}
      /\ \A e \in Execs : execStatus[e] \in {"running", "error"} => execStatus'[e] = "error"
      /\ \A e \in Execs : execStatus[e] \in {"queued", "cancelled"}
                            => execStatus'[e] = "cancelled"
  BY SweepStep
<1>2. executing \in Execs \cup {None} /\ queue \in Seq(Execs) /\ Range(queue) \subseteq Execs
  BY RangeType DEF TypeOK, StateTypeOK
<1>3. executing # None => execStatus'[executing] = "error"
  <2>1. executing # None => execStatus[executing] \in {"running", "error"}
    BY DEF DocInv, SlotsMatch, InSlots, OutSlots
  <2> QED
    BY <1>1, <1>2, <2>1
<1>4. \A e \in Range(queue') : execStatus'[e] = "cancelled"
  <2>1. \A e \in Range(queue) : execStatus[e] \in {"queued", "cancelled"}
    BY DEF DocInv, SlotsMatch, InSlots, OutSlots
  <2>2. Range(queue') \subseteq Range(queue)
    BY <1>2, RangeType
  <2> QED
    BY <1>1, <1>2, <2>1, <2>2
<1>5. OutSlots(executing', queue', execStatus')
  BY <1>1, <1>3, <1>4 DEF OutSlots
<1>6. SlotsMatch' /\ Projected' /\ NoForgottenQueued'
  BY <1>5 DEF SlotsMatch, Projected, NoForgottenQueued
<1>7. Arrived'
  BY <1>1, ArrivedKept DEF DocInv
<1>8. LaunchesIntoEmpty'
  BY <1>1 DEF LaunchesIntoEmpty
<1> QED
  BY <1>1, <1>6, <1>7, <1>8 DEF DocInv, LedgerStep

\* The requests.
LEMMA DocRequest ==
  ASSUME TypeOK, TypeOK', SubmitInv, DocInv, DocWrites = {TRUE}, Request
  PROVE  DocInv' /\ LedgerStep
<1>0. ResolveInflight(execStatus, executing, Range(queue)) = AbortInflight(execStatus)
  BY TeardownSweeps
<1>1. pc = "loop" => todo = {}
  BY DEF SubmitInv, AdmittingHasKernel
<1>2. /\ execStatus \in [Execs -> ExecStatuses] /\ queue \in Seq(Execs)
      /\ Range(queue) \subseteq Execs /\ seen \subseteq Execs
      /\ executing \in Execs \cup {None}
  BY RangeType DEF TypeOK, DocTypeOK, StateTypeOK, LoopTypeOK
<1>3. ASSUME NEW n \in 0 .. MaxExecs, ReceiveSync(n) PROVE DocInv' /\ LedgerStep
  <2>1. /\ pc = "loop" /\ pc' = "admitting"
        /\ \A e \in Execs : execStatus[e] # "absent" => e <= n
        /\ execStatus' = [e \in Execs |->
             IF execStatus[e] = "absent" /\ e <= n THEN "queued" ELSE execStatus[e]]
        /\ todo' = IF kernel # None THEN GetQueuedExecutions(execStatus') ELSE {}
        /\ UNCHANGED <<pendingLaunch, kernel, handle, seen, docQueue>>
        /\ UNCHANGED <<queue, executing, hadError, interruptPending, status>>
    BY <1>3 DEF ReceiveSync, slotVars, stateVars
  <2>2. \A e \in Execs : execStatus'[e] =
          IF execStatus[e] = "absent" /\ e <= n THEN "queued" ELSE execStatus[e]
    BY <2>1
  <2>3. Arrives
    BY <2>2 DEF Arrives
  <2>4. Turn
    BY <2>2 DEF Turn
  <2>5. Arrived'
    <3>1. \A d, e \in Execs : d < e /\ execStatus'[e] # "absent" => execStatus'[d] # "absent"
      <4> SUFFICES ASSUME NEW d \in Execs, NEW e \in Execs, d < e, execStatus'[e] # "absent"
                   PROVE  execStatus'[d] # "absent"
        OBVIOUS
      <4>1. e <= n
        BY <2>1, <2>2
      <4>2. d <= n
        BY <4>1 DEF Execs
      <4> QED
        BY <2>2, <4>2
    <3>2. \A e \in seen : execStatus'[e] # "absent"
      BY <1>2, <2>2 DEF DocInv, Arrived
    <3> QED
      BY <2>1, <3>1, <3>2 DEF Arrived
  <2>6. SlotsMatch'
    <3>1. CASE kernel # None
      <4>1. InSlots(executing, queue, execStatus, {})
        BY <1>1, <2>1, <3>1 DEF DocInv, SlotsMatch
      <4>2. todo' = {e \in Execs : execStatus'[e] = "queued"}
        BY <2>1, <3>1 DEF GetQueuedExecutions
      <4>3. ASSUME NEW x \in todo' \ Range(queue), NEW y \in Range(queue)
            PROVE  y < x
        <5>1. x \in Execs /\ y \in Execs /\ execStatus[y] = "queued"
          BY <1>2, <4>1, <4>2 DEF InSlots
        <5>2. execStatus[x] = "absent"
          <6>1. execStatus'[x] = "queued"
            BY <4>2
          <6>2. execStatus[x] # "queued"
            BY <4>1, <5>1 DEF InSlots
          <6> QED
            BY <2>2, <5>1, <6>1, <6>2
        <5>3. ~(x < y) /\ x # y
          BY <5>1, <5>2 DEF DocInv, Arrived
        <5> QED
          BY <5>1, <5>3 DEF Execs
      <4>4. executing # None => execStatus'[executing] = "running"
        BY <1>2, <2>2, <4>1 DEF InSlots
      <4>5. \A e \in Range(queue) : execStatus'[e] = "queued"
        BY <1>2, <2>2, <4>1 DEF InSlots
      <4>6. \A e \in Execs : execStatus'[e] = "running" => executing = e
        BY <2>2, <4>1 DEF InSlots
      <4>7. InSlots(executing, queue, execStatus', todo')
        BY <4>1, <4>2, <4>3, <4>4, <4>5, <4>6 DEF InSlots
      <4> QED
        BY <2>1, <3>1, <4>7 DEF SlotsMatch
    <3>2. CASE kernel = None
      <4>1. OutSlots(executing, queue, execStatus)
        BY <3>2 DEF DocInv, SlotsMatch
      <4>2. OutSlots(executing, queue, execStatus')
        BY <1>2, <2>2, <4>1 DEF OutSlots
      <4> QED
        BY <2>1, <3>2, <4>2 DEF SlotsMatch
    <3> QED
      BY <3>1, <3>2
  <2>7. LaunchesIntoEmpty' /\ Projected'
    BY <2>1 DEF DocInv, LaunchesIntoEmpty, Projected
  <2>8. NoForgottenQueued'
    <3>1. \A e \in seen : execStatus'[e] = execStatus[e]
      BY <1>2, <2>2 DEF DocInv, Arrived
    <3> QED
      BY <2>1, <3>1 DEF DocInv, NoForgottenQueued
  <2> QED
    BY <2>3, <2>4, <2>5, <2>6, <2>7, <2>8 DEF DocInv, LedgerStep
<1>4. ASSUME LaunchKernel(TRUE) PROVE DocInv' /\ LedgerStep
  <2>1. /\ kernel = None /\ pc' = "launching"
        /\ UNCHANGED <<todo, pendingLaunch, kernel, seen, execStatus, docQueue>>
        /\ UNCHANGED <<queue, executing, hadError, status>>
    BY <1>4 DEF LaunchKernel, slotVars, stateVars
  <2>2. SlotsMatch'
    BY <2>1 DEF DocInv, SlotsMatch
  <2>3. Arrived'
    BY <2>1 DEF DocInv, Arrived
  <2>4. LaunchesIntoEmpty' /\ Projected' /\ NoForgottenQueued'
    BY <2>1 DEF DocInv, LaunchesIntoEmpty, Projected, NoForgottenQueued
  <2> QED
    BY <2>1, <2>2, <2>3, <2>4, Unwritten DEF DocInv, LedgerStep
<1>5. ASSUME RestartKernel(TRUE, TRUE) PROVE DocInv' /\ LedgerStep
  <2>1. /\ execStatus' = AbortInflight(execStatus) /\ docQueue' = EmptyQueue
        /\ kernel' = None /\ executing' = executing /\ queue' = queue /\ seen' = {}
    BY <1>0, <1>5 DEF RestartKernel, stateVars
  <2> QED
    BY <2>1, DocTeardown
<1>6. ASSUME ShutdownKernel(TRUE) PROVE DocInv' /\ LedgerStep
  <2>1. /\ execStatus' = AbortInflight(execStatus) /\ docQueue' = EmptyQueue
        /\ kernel' = None /\ executing' = None /\ queue' = <<>> /\ seen' = {}
    BY <1>0, <1>6 DEF ShutdownKernel, Shutdown
  <2> QED
    BY <2>1, DocTeardown
<1>7. ASSUME InterruptExecution(TRUE) PROVE DocInv' /\ LedgerStep
  <2>1. /\ execStatus' = AbortInflight(execStatus) /\ docQueue' = EmptyQueue
        /\ executing' = None /\ queue' = <<>> /\ status' \in {"Busy", "Idle"}
        /\ pc = "loop" /\ UNCHANGED <<pc, todo, pendingLaunch, kernel, seen>>
    BY <1>0, <1>7 DEF InterruptExecution, Interrupt, loopVars, slotVars
  <2>2. /\ Turn /\ LegalStep
        /\ \A e \in Execs : execStatus'[e] \notin {"queued", "running"}
    BY <2>1, SweepStep
  <2>3. Range(<<>>) = {} /\ Sorted(<<>>)
    BY <1>2, RangeType DEF Sorted
  <2>4. todo' = {}
    BY <1>1, <2>1
  <2>5. InSlots(None, <<>>, execStatus', {}) /\ OutSlots(None, <<>>, execStatus')
    BY <2>2, <2>3 DEF InSlots, OutSlots
  <2>6. SlotsMatch'
    BY <2>1, <2>4, <2>5 DEF SlotsMatch
  <2>7. Arrived'
    BY <2>1, <2>2, ArrivedKept DEF DocInv
  <2>8. LaunchesIntoEmpty' /\ Projected'
    BY <2>1, <2>2 DEF DocInv, LaunchesIntoEmpty, Projected, EmptyQueue
  <2>9. NoForgottenQueued'
    BY <1>2, <2>1, <2>2 DEF NoForgottenQueued
  <2> QED
    BY <2>2, <2>6, <2>7, <2>8, <2>9 DEF DocInv, LedgerStep
<1> QED
  BY <1>3, <1>4, <1>5, <1>6, <1>7 DEF Request
\* The loop's own steps besides the admission.
LEMMA DocHandler ==
  ASSUME TypeOK, TypeOK', SubmitInv, DocInv, DocWrites = {TRUE}, Handler
  PROVE  DocInv' /\ LedgerStep
<1>1. pc # "admitting" => todo = {}
  BY DEF SubmitInv, AdmittingHasKernel
<1>2. /\ execStatus \in [Execs -> ExecStatuses] /\ queue \in Seq(Execs)
      /\ Range(queue) \subseteq Execs /\ seen \subseteq Execs
      /\ executing \in Execs \cup {None}
  BY RangeType DEF TypeOK, DocTypeOK, StateTypeOK, LoopTypeOK
<1>3. ASSUME AdmitDone(TRUE) PROVE DocInv' /\ LedgerStep
  <2>1. /\ pc' \in {"launching", "loop"} /\ pendingLaunch' \in {"none", pendingLaunch}
        /\ pc' = "launching" => ShouldApplyInitialLaunch
        /\ UNCHANGED <<todo, kernel, seen, execStatus, docQueue>>
        /\ UNCHANGED <<queue, executing, hadError, status>>
    BY <1>3 DEF AdmitDone, slotVars, stateVars
  <2>2. pc' = "launching" => kernel = None
    BY <2>1 DEF DocInv, LaunchesIntoEmpty, ShouldApplyInitialLaunch
  <2>3. SlotsMatch'
    BY <2>1 DEF DocInv, SlotsMatch
  <2>4. Arrived'
    BY <2>1 DEF DocInv, Arrived
  <2>5. LaunchesIntoEmpty'
    BY <2>1, <2>2 DEF DocInv, LaunchesIntoEmpty
  <2>6. Projected' /\ NoForgottenQueued'
    BY <2>1 DEF DocInv, Projected, NoForgottenQueued
  <2> QED
    BY <2>1, <2>3, <2>4, <2>5, <2>6, Unwritten DEF DocInv, LedgerStep
<1>4. ASSUME KernelLaunched(TRUE) PROVE DocInv' /\ LedgerStep
  <2>1. /\ pc \in {"launching", "restarting"} /\ kernel' # None /\ seen' = {}
        /\ queue' = <<>> /\ executing' = None /\ status' = "Idle"
        /\ pendingLaunch' = "none" /\ UNCHANGED <<execStatus, docQueue>>
    BY <1>4 DEF KernelLaunched, Reset, None, TypeOK, KernelTypeOK
  <2>2. kernel = None
    BY <2>1 DEF DocInv, LaunchesIntoEmpty
  <2>3. OutSlots(executing, queue, execStatus) /\ docQueue = EmptyQueue
    BY <2>2 DEF DocInv, SlotsMatch, Projected
  <2>4. pc' \in {"admitting", "loop"} /\ todo' = GetQueuedExecutions(execStatus)
    <3>1. CASE pc = "launching"
      BY <1>4, <3>1 DEF KernelLaunched
    <3>2. CASE pc = "restarting"
      <4>1. pc' = "loop" /\ todo' = todo
        BY <1>4, <3>2 DEF KernelLaunched
      <4>2. GetQueuedExecutions(execStatus) = {}
        BY <3>2 DEF DocInv, LaunchesIntoEmpty, GetQueuedExecutions
      <4> QED
        BY <1>1, <3>2, <4>1, <4>2
    <3> QED
      BY <2>1, <3>1, <3>2
  <2>5. InSlots(None, <<>>, execStatus, todo')
    <3>1. Range(<<>>) = {} /\ Sorted(<<>>)
      BY <1>2, RangeType DEF Sorted
    <3> QED
      BY <2>3, <2>4, <3>1 DEF InSlots, OutSlots, GetQueuedExecutions
  <2>6. SlotsMatch'
    BY <2>1, <2>5 DEF SlotsMatch
  <2>7. Arrived'
    BY <2>1 DEF DocInv, Arrived
  <2>8. LaunchesIntoEmpty' /\ NoForgottenQueued'
    BY <2>1, <2>4 DEF LaunchesIntoEmpty, NoForgottenQueued
  <2>9. Projected'
    BY <2>1, <2>3 DEF Projected, EmptyQueue
  <2> QED
    BY <2>1, <2>6, <2>7, <2>8, <2>9, Unwritten DEF DocInv, LedgerStep
<1>5. ASSUME NEW r \in BOOLEAN, LaunchFailed(r, TRUE) PROVE DocInv' /\ LedgerStep
  <2>1. /\ pc \in {"launching", "restarting"} /\ pc' = "loop"
        /\ execStatus' \in {execStatus, AbortInflight(execStatus)}
        /\ UNCHANGED <<todo, pendingLaunch, kernel, seen, docQueue>>
        /\ UNCHANGED <<queue, executing, hadError, status>>
    BY <1>5 DEF LaunchFailed, stateVars
  <2>2. kernel = None
    BY <2>1 DEF DocInv, LaunchesIntoEmpty
  <2>3. OutSlots(executing, queue, execStatus) /\ docQueue = EmptyQueue
    BY <2>2 DEF DocInv, SlotsMatch, Projected
  <2>4. Turn /\ LegalStep
    BY <2>1, SweepStep, Unwritten
  <2>5. OutSlots(executing, queue, execStatus')
    <3>1. CASE execStatus' = execStatus
      BY <2>3, <3>1
    <3>2. CASE execStatus' = AbortInflight(execStatus)
      <4>1. /\ \A e \in Execs : execStatus'[e] \notin {"queued", "running"}
            /\ \A e \in Execs : execStatus[e] \in {"running", "error"}
                                  => execStatus'[e] = "error"
            /\ \A e \in Execs : execStatus[e] \in {"queued", "cancelled"}
                                  => execStatus'[e] = "cancelled"
        BY <3>2, SweepStep
      <4> QED
        BY <1>2, <2>3, <4>1 DEF OutSlots
    <3> QED
      BY <2>1, <3>1, <3>2
  <2>6. SlotsMatch' /\ Projected' /\ NoForgottenQueued'
    BY <2>1, <2>2, <2>3, <2>5 DEF SlotsMatch, Projected, NoForgottenQueued
  <2>7. Arrived'
    BY <2>1, <2>4, ArrivedKept DEF DocInv
  <2>8. LaunchesIntoEmpty'
    BY <2>1, <2>2 DEF LaunchesIntoEmpty
  <2> QED
    BY <2>4, <2>6, <2>7, <2>8 DEF DocInv, LedgerStep
<1> QED
  BY <1>3, <1>4, <1>5, DocAdmitNext DEF Handler

\* The signals.
LEMMA DocOnSignal ==
  ASSUME TypeOK, TypeOK', SubmitInv, DocInv, DocWrites = {TRUE}, OnSignal
  PROVE  DocInv' /\ LedgerStep
<1>1. pc = "loop" => todo = {}
  BY DEF SubmitInv, AdmittingHasKernel
<1>2. /\ execStatus \in [Execs -> ExecStatuses] /\ queue \in Seq(Execs)
      /\ Range(queue) \subseteq Execs /\ seen \subseteq Execs
      /\ executing \in Execs \cup {None}
  BY RangeType DEF TypeOK, DocTypeOK, StateTypeOK, LoopTypeOK
<1>3. ASSUME OnCellError(TRUE) PROVE DocInv' /\ LedgerStep
  <2>1. /\ pc = "loop"
        /\ UNCHANGED <<pc, todo, pendingLaunch, kernel, handle, seen>>
        /\ UNCHANGED <<executing, interruptPending, status, lifecycle>>
    BY <1>3 DEF OnCellError, Receives, loopVars, slotVars
  <2>2. CASE Head(signals).exec # executing
    <3>1. UNCHANGED <<hadError, queue, execStatus, docQueue>>
      BY <1>3, <2>2 DEF OnCellError
    <3> QED
      BY <2>1, <3>1, DocQuiet DEF loopVars, slotVars, stateVars, docVars
  <2>3. CASE Head(signals).exec = executing
    <3>1. /\ hadError' = TRUE /\ queue' = <<>> /\ docQueue' = EmptyQueue
          /\ execStatus' = SetCancelled(execStatus, Range(queue))
      BY <1>3, <2>3 DEF OnCellError
    <3>2. \A e \in Execs : execStatus'[e] =
            IF e \in Range(queue) THEN "cancelled" ELSE execStatus[e]
      BY <3>1 DEF SetCancelled
    <3>3. \A e \in Range(queue) : execStatus[e] \in {"queued", "cancelled"}
      BY DEF DocInv, SlotsMatch, InSlots, OutSlots
    <3>4. Turn /\ LegalStep
      BY <3>2, <3>3 DEF Turn, LegalStep, Legal
    <3>5. executing # None => execStatus'[executing] = execStatus[executing]
      <4>1. executing # None => execStatus[executing] \in {"running", "error"}
        BY DEF DocInv, SlotsMatch, InSlots, OutSlots
      <4> QED
        BY <1>2, <3>2, <3>3, <4>1
    <3>6. Range(<<>>) = {} /\ Sorted(<<>>)
      BY <1>2, RangeType DEF Sorted
    <3>7. SlotsMatch'
      <4>1. CASE kernel # None
        <5>1. InSlots(executing, queue, execStatus, {}) /\ todo' = {}
          BY <1>1, <2>1, <4>1 DEF DocInv, SlotsMatch
        <5>2. InSlots(executing, <<>>, execStatus', {})
          BY <3>2, <3>5, <3>6, <5>1 DEF InSlots
        <5> QED
          BY <2>1, <3>1, <4>1, <5>1, <5>2 DEF SlotsMatch
      <4>2. CASE kernel = None
        <5>1. OutSlots(executing, queue, execStatus)
          BY <4>2 DEF DocInv, SlotsMatch
        <5>2. OutSlots(executing, <<>>, execStatus')
          BY <3>2, <3>5, <3>6, <5>1 DEF OutSlots
        <5> QED
          BY <2>1, <3>1, <4>2, <5>2 DEF SlotsMatch
      <4> QED
        BY <4>1, <4>2
    <3>8. Arrived'
      BY <2>1, <3>4, ArrivedKept DEF DocInv
    <3>9. LaunchesIntoEmpty'
      BY <2>1 DEF DocInv, LaunchesIntoEmpty
    <3>10. Projected'
      BY <2>1, <3>1 DEF Projected, EmptyQueue
    <3>11. NoForgottenQueued'
      BY <1>2, <2>1, <3>2 DEF DocInv, NoForgottenQueued
    <3> QED
      BY <3>4, <3>7, <3>8, <3>9, <3>10, <3>11 DEF DocInv, LedgerStep
  <2> QED
    BY <2>2, <2>3
<1>4. ASSUME OnKernelDied(TRUE) PROVE DocInv' /\ LedgerStep
  <2>1. CASE ExpectedExit
    <3>1. /\ pc = "loop" /\ seen' = {}
          /\ UNCHANGED <<pc, todo, pendingLaunch, kernel>>
          /\ UNCHANGED <<queue, executing, hadError, status, execStatus, docQueue>>
      BY <1>4, <2>1 DEF OnKernelDied, Receives, loopVars, stateVars, docVars
    <3>2. SlotsMatch'
      BY <3>1 DEF DocInv, SlotsMatch
    <3>3. Arrived' /\ NoForgottenQueued'
      BY <3>1 DEF DocInv, Arrived, NoForgottenQueued
    <3>4. LaunchesIntoEmpty' /\ Projected'
      BY <3>1 DEF DocInv, LaunchesIntoEmpty, Projected
    <3> QED
      BY <3>1, <3>2, <3>3, <3>4, Unwritten DEF DocInv, LedgerStep
  <2>2. CASE ~ExpectedExit
    <3>1. ResolveInflight(execStatus, executing, Range(queue)) = AbortInflight(execStatus)
      BY TeardownSweeps
    <3>2. /\ execStatus' = AbortInflight(execStatus) /\ docQueue' = EmptyQueue
          /\ kernel' = None /\ seen' = {}
      BY <1>4, <2>2, <3>1 DEF OnKernelDied
    <3>3. executing' \in {executing, None} /\ queue' \in {queue, <<>>}
      BY <1>4, <2>2 DEF OnKernelDied, Died, stateVars
    <3> QED
      BY <3>2, <3>3, DocTeardown
  <2> QED
    BY <2>1, <2>2
<1> QED
  BY <1>3, <1>4, DocOnExecutionDone, DocOnKernelIdle DEF OnSignal

\* The invariant is inductive, and every step is one of the ledger's.
LEMMA DocStep ==
  ASSUME TypeOK, TypeOK', SubmitInv, DocInv, DocWrites = {TRUE}, [Next]_vars
  PROVE  DocInv' /\ LedgerStep
<1>1. CASE KernelTask
  <2>1. UNCHANGED <<loopVars, slotVars, stateVars, docVars>>
    BY <1>1 DEF KernelTask, KernelRaises, KernelReportsIdle, FlushedForOrdering,
      CommitOutput, CommitStream, KernelExits, ReportDeath
  <2> QED
    BY <2>1, DocQuiet
<1>2. CASE UNCHANGED vars
  BY <1>2, DocQuiet DEF vars
<1> QED
  BY <1>1, <1>2, DocHandler, DocOnSignal, DocRequest DEF Next

\* A new agent satisfies it.
LEMMA DocInit == Init => DocInv
<1> SUFFICES ASSUME Init PROVE DocInv
  OBVIOUS
<1>1. Range(<<>>) = {}
  BY DEF Range
<1>2. SlotsMatch
  BY <1>1 DEF Init, SlotsMatch, OutSlots
<1>3. Arrived
  BY DEF Init, Arrived
<1>4. LaunchesIntoEmpty /\ Projected /\ NoForgottenQueued
  BY DEF Init, LaunchesIntoEmpty, Projected, NoForgottenQueued
<1> QED
  BY <1>2, <1>3, <1>4 DEF DocInv

\* The bookkeeping of submissions holds in every reachable state.
LEMMA SubmitAlways == Spec => []SubmitInv
<1>1. Init => SubmitInv
  BY DEF Init, SubmitInv, SubmittedOncePerGeneration, AdmittingHasKernel
<1>2. TypeOK /\ SubmitInv /\ [Next]_vars => SubmitInv'
  BY SubmitAdmitNext, SubmitOnExecutionDone, SubmitOnKernelIdle, SubmitOther
    DEF Next, Handler, OnSignal
<1> QED
  BY <1>1, <1>2, TypeCorrect, PTL DEF Spec

\* So does the agreement of doc and agent.
LEMMA DocAlways ==
  ASSUME DocWrites = {TRUE}
  PROVE  Spec => []DocInv
<1>1. TypeOK /\ TypeOK' /\ SubmitInv /\ DocInv /\ [Next]_vars => DocInv'
  BY DocStep
<1> QED
  BY <1>1, DocInit, SubmitAlways, TypeCorrect, PTL DEF Spec

-----------------------------------------------------------------------------
(* The theorems.                                                           *)

\* An entry the doc shows running is the one in the executing slot of a kernel
\* that exists: completions, interrupts, restarts that fail, deaths and late
\* signals leave no entry running that nothing will finish.
THEOREM RunningIsHeld ==
  ASSUME DocWrites = {TRUE}
  PROVE  Spec => []NoOrphanedRunning
<1>1. DocInv => NoOrphanedRunning
  BY DEF DocInv, SlotsMatch, InSlots, OutSlots, NoOrphanedRunning
<1> QED
  BY <1>1, DocAlways, PTL

\* A queued entry that the generation has taken in waits in KernelState's queue:
\* it is never dropped there and left queued in the doc.
THEOREM QueuedIsKept ==
  ASSUME DocWrites = {TRUE}
  PROVE  Spec => []NoForgottenQueued
<1>1. DocInv => NoForgottenQueued
  BY DEF DocInv
<1> QED
  BY <1>1, DocAlways, PTL

\* The queue clients read is the queue of KernelState whenever the loop is at
\* rest, through admissions, starts, errors and interrupts.
THEOREM ProjectionAgrees ==
  ASSUME DocWrites = {TRUE}
  PROVE  Spec => []QueueProjected
<1>1. DocInv => QueueProjected
  BY DEF DocInv, Projected, QueueProjected
<1> QED
  BY <1>1, DocAlways, PTL

\* The agent implements the ledger: entries appear queued in order, start in
\* order and one at a time, and no terminal status is ever overwritten.
THEOREM LedgerImplemented ==
  ASSUME DocWrites = {TRUE}
  PROVE  Spec => LedgerKept
<1>1. Init => Ledger!Init
  BY DEF Init, Ledger!Init, Ledger!Entries, Execs
<1>2. ASSUME TypeOK, TypeOK', SubmitInv, DocInv, [Next]_vars
      PROVE  [Ledger!Next]_execStatus
  <2>1. LedgerStep
    BY <1>2, DocStep
  <2>2. execStatus' \in [Ledger!Entries ->
          {"absent", "queued", "running", "done", "error", "cancelled"}]
    BY <1>2 DEF TypeOK, DocTypeOK, ExecStatuses, Terminal, Ledger!Entries, Execs
  <2>3. Ledger!MovesOnly
    BY <2>1 DEF LedgerStep, LegalStep, Arrives, Legal, Ledger!MovesOnly, Ledger!Moves,
      Ledger!Entries, Execs
  <2>4. Ledger!StartsInTurn
    BY <2>1 DEF LedgerStep, Turn, Ledger!StartsInTurn, Ledger!Starts, Ledger!Entries, Execs
  <2> QED
    BY <2>2, <2>3, <2>4 DEF Ledger!Next
<1> QED
  BY <1>1, <1>2, DocAlways, SubmitAlways, TypeCorrect, PTL DEF Spec, LedgerKept, Ledger!Spec

=============================================================================
