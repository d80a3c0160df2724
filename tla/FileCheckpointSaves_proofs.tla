---------------------- MODULE FileCheckpointSaves_proofs ----------------------
(***************************************************************************)
(* Proofs about FileCheckpoint: what clients, other saves and the room may *)
(* rely on.  An intent never outlives its save, what was acknowledged is   *)
(* durable, the file never goes back to an older save, and the staleness   *)
(* baseline settles on the file.                                           *)
(***************************************************************************)
EXTENDS FileCheckpoint_proofs

\* The invariant of FileCheckpoint_proofs holds in every reachable state.
LEMMA RecoveryAlways == Spec => [](TypeOK /\ RecoveryInv)
<1>1. Init => TypeOK /\ NumbersInv /\ RecoveryInv
  BY TypeInit, RecoveryInit
<1>2. TypeOK /\ NumbersInv /\ RecoveryInv /\ [Next]_vars => (TypeOK /\ NumbersInv /\ RecoveryInv)'
  BY TypeStep, RecoveryStep
<1> QED
  BY <1>1, <1>2, PTL DEF Spec

-----------------------------------------------------------------------------
(* The steps of a save, by what they touch.                                *)

\* A save moves between the stages outside the replace section, or ends there,
\* and at most moves the barrier on.
MoveStep(s) ==
  /\ saver[s].stage \notin {"idle", "prepared", "replaced", "aborting", "saved"}
  /\ \A t \in Savers : t # s => saver'[t] = saver[t]
  /\ \/ saver'[s].stage = "idle"
     \/ /\ saver'[s].seq = saver[s].seq
        /\ saver'[s].stage \notin {"idle", "claimed", "prepared", "replaced", "aborting", "saved"}
        /\ saver[s].stage = "claimed" => degraded = "no"
  /\ saver'[s].rev \in {saver[s].rev, doc, Original}
  /\ saver'[s].current \in {saver[s].current, checkpoint, NoTarget}
  /\ barrier <= barrier'
  /\ UNCHANGED <<disk, reserved, checkpoint, manifest, journal, journalFailed, known, baseline,
                 degraded, diskSeq, acked, external, regressed>>

\* The steps before the replace section are of this kind.
LEMMA MoveSteps ==
  ASSUME TypeOK, NEW s \in Savers,
         \/ CheckAvailability(s) \/ CheckDisk(s) \/ Capture(s) \/ Bind(s)
         \/ AlreadyCurrent(s) \/ TakeLock(s) \/ \E ok \in BOOLEAN : WriteTemp(s, ok)
  PROVE  MoveStep(s)
<1>1. /\ saver \in [Savers -> SaverRecords] /\ barrier \in Nat /\ saver[s].seq \in Nat
      /\ saver[s].seq \in 0 .. MaxSaves /\ saver[s].rev \in Contents /\ checkpoint \in Targets
      /\ doc \in Contents /\ NoTarget \in Targets
  BY BoundsAssumption DEF TypeOK, SaverRecords, Contents, NoTarget, Targets, Original
<1>2. UNCHANGED <<disk, reserved, checkpoint, manifest, journal, journalFailed, known, baseline,
                  degraded, diskSeq, acked, external, regressed>>
  BY DEF CheckAvailability, CheckDisk, Capture, Bind, AlreadyCurrent, TakeLock, WriteTemp,
    coordinatorVars, journalVars, roomVars, historyVars
<1>3. barrier <= barrier'
  <2>1. barrier' = barrier \/ (barrier' = saver[s].seq /\ ~Superseded(s))
    BY DEF CheckAvailability, CheckDisk, Capture, Bind, AlreadyCurrent, TakeLock, WriteTemp,
      coordinatorVars
  <2> QED
    BY <1>1, <2>1 DEF Superseded
<1>4. saver[s].stage \notin {"idle", "prepared", "replaced", "aborting", "saved"}
  BY DEF CheckAvailability, CheckDisk, Capture, Bind, AlreadyCurrent, TakeLock, WriteTemp, At
<1>5. \/ Return(s)
      \/ /\ saver[s].stage = "claimed" => degraded = "no"
         /\ \/ \E stage \in {"available", "fresh", "writing", "current", "locked", "written"} :
                 Goto(s, stage)
            \/ Hold(s, "captured", saver[s].seq, doc, NoTarget)
            \/ Hold(s, "bound", saver[s].seq, saver[s].rev, checkpoint)
  <2>1. CASE CheckAvailability(s) \/ CheckDisk(s) \/ Capture(s) \/ Bind(s)
    BY <2>1 DEF CheckAvailability, CheckDisk, Capture, Bind, At
  <2>2. CASE AlreadyCurrent(s) \/ TakeLock(s) \/ \E ok \in BOOLEAN : WriteTemp(s, ok)
    BY <2>2 DEF AlreadyCurrent, TakeLock, Enter, WriteTemp, At
  <2> QED
    BY <2>1, <2>2
<1>6. CASE Return(s)
  BY <1>1, <1>2, <1>3, <1>4, <1>6, ReturnFacts DEF MoveStep, IdleSaver
<1>7. CASE /\ saver[s].stage = "claimed" => degraded = "no"
           /\ \E stage \in {"available", "fresh", "writing", "current", "locked", "written"} :
                Goto(s, stage)
  <2>1. PICK stage \in {"available", "fresh", "writing", "current", "locked", "written"} :
          Goto(s, stage)
    BY <1>7
  <2>2. stage \in Stages
    BY DEF Stages
  <2>3. /\ \A t \in Savers : t # s => saver'[t] = saver[t]
        /\ saver'[s].stage = stage /\ saver'[s].seq = saver[s].seq
        /\ saver'[s].rev = saver[s].rev /\ saver'[s].current = saver[s].current
    BY <1>1, <2>1, <2>2, GotoFacts
  <2> QED
    BY <1>2, <1>3, <1>4, <1>7, <2>3 DEF MoveStep
<1>8. CASE /\ saver[s].stage = "claimed" => degraded = "no"
           /\ \/ Hold(s, "captured", saver[s].seq, doc, NoTarget)
              \/ Hold(s, "bound", saver[s].seq, saver[s].rev, checkpoint)
  <2>1. /\ \A t \in Savers : t # s => saver'[t] = saver[t]
        /\ saver'[s].stage \in {"captured", "bound"} /\ saver'[s].seq = saver[s].seq
        /\ saver'[s].rev \in {saver[s].rev, doc}
        /\ saver'[s].current \in {checkpoint, NoTarget}
    BY <1>1, <1>8, HoldFacts DEF Stages
  <2> QED
    BY <1>2, <1>3, <1>4, <1>8, <2>1 DEF MoveStep
<1> QED
  BY <1>5, <1>6, <1>7, <1>8

-----------------------------------------------------------------------------
(* No intent is left behind.                                               *)

\* While a room is in conflict no save gets past the availability check.
ConflictQuiet ==
  degraded = "conflict" => \A s \in Savers : saver[s].stage \in {"idle", "claimed"}

\* The save an intent belongs to.
Owner(s) ==
  /\ saver[s].stage \in {"prepared", "replaced", "aborting"}
  /\ Target(s) = manifest.pending

\* A step that touches neither the intent nor the owner of one.
LEMMA LeakFrame ==
  ASSUME TypeOK, ConflictQuiet, NoLeakedIntent, UNCHANGED <<manifest, journalFailed>>,
         degraded' = degraded \/ \E s \in Savers : saver[s].stage \notin {"idle", "claimed"},
         \A s \in Savers : Owner(s) => saver'[s] = saver[s]
  PROVE  NoLeakedIntent'
<1>1. degraded = "conflict" => degraded' = "conflict"
  BY DEF ConflictQuiet
<1>2. ASSUME NEW s \in Savers, Owner(s) PROVE Owner(s)'
  BY <1>2 DEF Owner, Target
<1> QED
  BY <1>1, <1>2 DEF NoLeakedIntent, Owner

\* Every step keeps both.
LEMMA LeakStep ==
  ASSUME TypeOK, TypeOK', ConflictQuiet, NoLeakedIntent, [Next]_vars
  PROVE  ConflictQuiet' /\ NoLeakedIntent'
<1>1. saver \in [Savers -> SaverRecords] /\ manifest \in Manifests
  BY DEF TypeOK
<1>2. ASSUME NEW s \in Savers, MoveStep(s) PROVE ConflictQuiet' /\ NoLeakedIntent'
  <2>1. ConflictQuiet'
    BY <1>2 DEF MoveStep, ConflictQuiet
  <2>2. \A t \in Savers : Owner(t) => saver'[t] = saver[t]
    BY <1>2 DEF MoveStep, Owner
  <2>3. UNCHANGED <<manifest, journalFailed, degraded>>
    BY <1>2 DEF MoveStep
  <2> QED
    BY <2>1, <2>2, <2>3, LeakFrame
<1>3. ASSUME NEW s \in Savers, Claim(s) PROVE ConflictQuiet' /\ NoLeakedIntent'
  <2>1. /\ saver[s].stage = "idle" /\ UNCHANGED <<manifest, journalFailed, degraded>>
    BY <1>3 DEF Claim, At, journalVars
  <2>2. /\ \A t \in Savers : t # s => saver'[t] = saver[t]
        /\ saver'[s].stage = "claimed"
    <3>1. reserved + 1 \in 0 .. MaxSaves /\ Original \in Contents /\ NoTarget \in Targets
      BY <1>3, BoundsAssumption DEF Claim, TypeOK, Original, Contents, NoTarget, Targets
    <3> QED
      BY <1>1, <1>3, <3>1, HoldFacts DEF Claim, Stages
  <2>3. ConflictQuiet'
    BY <2>1, <2>2 DEF ConflictQuiet
  <2>4. \A t \in Savers : Owner(t) => saver'[t] = saver[t]
    BY <2>1, <2>2 DEF Owner
  <2> QED
    BY <2>1, <2>3, <2>4, LeakFrame
<1>5. ASSUME NEW s \in Savers, NEW o \in AppendOutcomes, Prepare(s, o)
      PROVE  ConflictQuiet' /\ NoLeakedIntent'
  <2>1. saver[s].stage = "locked" /\ (degraded' = degraded \/ degraded' = "degraded")
    BY <1>5 DEF Prepare, At, Degrade
  <2>2. ConflictQuiet' /\ degraded # "conflict" /\ degraded' # "conflict"
    BY <2>1 DEF ConflictQuiet
  <2>3. \A t \in Savers : t # s => saver'[t] = saver[t]
    BY <1>1, <1>5, GotoFacts, ReturnFacts DEF Prepare, Stages
  <2>4. CASE UNCHANGED journalVars
    <3>1. \A t \in Savers : Owner(t) => saver'[t] = saver[t]
      BY <2>1, <2>3 DEF Owner
    <3> QED
      BY <2>1, <2>2, <2>4, <3>1, LeakFrame DEF journalVars
  <2>5. CASE manifest.pending.seq = 0 /\ o # "ok"
    BY <1>5, <2>2, <2>5 DEF Prepare, JournalAppend, NoLeakedIntent
  <2>6. CASE manifest.pending.seq = 0 /\ o = "ok"
    <3>1. manifest' = WithIntent(manifest, Target(s)) /\ Goto(s, "prepared")
      BY <1>5, <2>6 DEF Prepare, JournalAppend
    <3>2. /\ saver'[s].stage = "prepared" /\ saver'[s].seq = saver[s].seq
          /\ saver'[s].rev = saver[s].rev
      BY <1>1, <3>1, GotoFacts DEF Stages
    <3>3. manifest'.pending = Target(s) /\ Target(s)' = Target(s)
      BY <1>1, <3>1, <3>2, TargetType, ManifestFields DEF Target
    <3> QED
      BY <2>2, <3>2, <3>3 DEF NoLeakedIntent
  <2> QED
    BY <1>5, <2>4, <2>5, <2>6 DEF Prepare
<1>6. ASSUME NEW s \in Savers, NEW r \in {"ok", "rename", "dirsync"}, Replace(s, r)
      PROVE  ConflictQuiet' /\ NoLeakedIntent'
  <2>1. saver[s].stage = "prepared" /\ UNCHANGED <<manifest, journalFailed, degraded>>
    BY <1>6 DEF Replace, At, journalVars
  <2>2. /\ \A t \in Savers : t # s => saver'[t] = saver[t]
        /\ saver'[s].stage \in {"replaced", "aborting"} /\ saver'[s].seq = saver[s].seq
        /\ saver'[s].rev = saver[s].rev
    BY <1>1, <1>6, GotoFacts DEF Replace, Stages
  <2>3. ConflictQuiet' /\ degraded # "conflict"
    BY <2>1 DEF ConflictQuiet
  <2>4. \A t \in Savers : Owner(t) => Owner(t)'
    BY <2>1, <2>2 DEF Owner, Target
  <2> QED
    BY <2>1, <2>3, <2>4 DEF NoLeakedIntent, Owner
<1>7. ASSUME NEW s \in Savers, NEW o \in AppendOutcomes,
             Abort(s, o) \/ Commit(s, o) \/ CommitExisting(s, o)
      PROVE  ConflictQuiet' /\ NoLeakedIntent'
  <2>1. /\ saver[s].stage \in {"aborting", "replaced", "current"}
        /\ degraded' = degraded \/ degraded' = "degraded"
    BY <1>7 DEF Abort, Commit, CommitExisting, At, Degrade
  <2>2. ConflictQuiet' /\ degraded # "conflict" /\ degraded' # "conflict"
    BY <2>1 DEF ConflictQuiet
  <2>3. \A t \in Savers : t # s => saver'[t] = saver[t]
    BY <1>1, <1>7, GotoFacts, ReturnFacts DEF Abort, Commit, CommitExisting, Stages
  <2>4. \/ UNCHANGED <<manifest, journalFailed>> /\ ~Owner(s)
        \/ \E m \in {DroppingIntent(manifest), CommittedManifest(Target(s)),
                     CommittedManifest(saver[s].current)} : JournalAppend(m, o)
    <3>1. CASE Abort(s, o)
      <4>1. CASE manifest.pending.seq # saver[s].seq
        BY <1>1, <3>1, <4>1, TargetType DEF Abort, journalVars, Owner
      <4>2. CASE manifest.pending.seq = saver[s].seq
        BY <3>1, <4>2 DEF Abort
      <4> QED
        BY <4>1, <4>2
    <3>2. CASE Commit(s, o)
      <4>1. CASE IntentMismatch(Target(s))
        BY <3>2, <4>1 DEF Commit, journalVars, Owner, IntentMismatch
      <4>2. CASE ~IntentMismatch(Target(s))
        BY <3>2, <4>2 DEF Commit
      <4> QED
        BY <4>1, <4>2
    <3>3. CASE CommitExisting(s, o)
      <4>1. ~Owner(s)
        BY <3>3 DEF CommitExisting, At, Owner
      <4> QED
        BY <3>3, <4>1 DEF CommitExisting, journalVars
    <3> QED
      BY <1>7, <3>1, <3>2, <3>3
  <2>5. CASE UNCHANGED <<manifest, journalFailed>> /\ ~Owner(s)
    <3>1. \A t \in Savers : Owner(t) => saver'[t] = saver[t]
      BY <2>3, <2>5
    <3> QED
      BY <2>1, <2>2, <2>5, <3>1, LeakFrame
  <2>6. CASE \E m \in {DroppingIntent(manifest), CommittedManifest(Target(s)),
                       CommittedManifest(saver[s].current)} : JournalAppend(m, o)
    <3>1. PICK m \in {DroppingIntent(manifest), CommittedManifest(Target(s)),
                      CommittedManifest(saver[s].current)} : JournalAppend(m, o)
      BY <2>6
    <3>2. m.pending = NoTarget /\ NoTarget.seq = 0
      BY <3>1 DEF DroppingIntent, CommittedManifest, NoTarget, TypeOK, Manifests
    <3>3. manifest' = m \/ journalFailed'
      BY <3>1 DEF JournalAppend
    <3> QED
      BY <2>2, <3>2, <3>3 DEF NoLeakedIntent
  <2> QED
    BY <2>4, <2>5, <2>6
<1>8. ASSUME NEW s \in Savers, Finish(s) PROVE ConflictQuiet' /\ NoLeakedIntent'
  <2>1. /\ saver[s].stage = "saved" /\ UNCHANGED <<manifest, journalFailed>>
        /\ degraded' = IF degraded = "conflict" THEN degraded ELSE "no"
    BY <1>8 DEF Finish, At, journalVars
  <2>2. \A t \in Savers : t # s => saver'[t] = saver[t]
    BY <1>1, <1>8, ReturnFacts DEF Finish
  <2>3. ConflictQuiet'
    BY <2>1 DEF ConflictQuiet
  <2>4. \A t \in Savers : Owner(t) => saver'[t] = saver[t]
    BY <2>1, <2>2 DEF Owner
  <2> QED
    BY <2>1, <2>3, <2>4, LeakFrame
<1>9. ASSUME NEW o \in AppendOutcomes, Restart(o) PROVE ConflictQuiet' /\ NoLeakedIntent'
  <2>1. \A s \in Savers : saver'[s].stage = "idle"
    BY <1>9 DEF Restart, IdleSaver
  <2>2. ConflictQuiet'
    BY <2>1 DEF ConflictQuiet
  <2>3. CASE o # "ok"
    BY <1>9, <2>2, <2>3 DEF Restart, NoLeakedIntent
  <2>4. CASE o = "ok" /\ journal.pending.seq = 0
    BY <1>9, <2>2, <2>4 DEF Restart, NoLeakedIntent
  <2>5. CASE o = "ok" /\ journal.pending.seq # 0 /\ Explains(journal, disk)
    <3>1. manifest' = Resolved(journal)
      BY <1>9, <2>5 DEF Restart
    <3>2. journal \in Manifests /\ journal.pending \in Targets
      BY DEF TypeOK, Manifests
    <3>3. Resolved(journal).pending = NoTarget /\ NoTarget.seq = 0
      BY <3>2, ManifestFields DEF Resolved
    <3> QED
      BY <2>2, <3>1, <3>3 DEF NoLeakedIntent
  <2>6. CASE ~Explains(journal, disk)
    BY <1>9, <2>2, <2>6 DEF Restart, NoLeakedIntent
  <2> QED
    BY <2>3, <2>4, <2>5, <2>6
<1>10. ASSUME Edit \/ ExternalEdit \/ UNCHANGED vars PROVE ConflictQuiet' /\ NoLeakedIntent'
  <2>1. UNCHANGED <<manifest, journalFailed, degraded, saver>>
    BY <1>10 DEF Edit, ExternalEdit, vars, journalVars
  <2>2. ConflictQuiet'
    BY <2>1 DEF ConflictQuiet
  <2> QED
    BY <2>1, <2>2, LeakFrame
<1> QED
  BY <1>2, <1>3, <1>5, <1>6, <1>7, <1>8, <1>9, <1>10, MoveSteps DEF Next, Save, Rest

\* An intent that is in the manifest blocks every other save of the room.  For
\* every set of faults, it belongs to a save that will still drop or commit it,
\* unless an append failed in this daemon's life or the restart found a conflict
\* (prepare_file_checkpoint, abort_file_checkpoint, commit_file_checkpoint).
THEOREM IntentHasOwner == Spec => []NoLeakedIntent
<1>1. Init => ConflictQuiet /\ NoLeakedIntent
  BY DEF Init, ConflictQuiet, NoLeakedIntent, NoTarget
<1>2. TypeOK /\ TypeOK' /\ ConflictQuiet /\ NoLeakedIntent /\ [Next]_vars
        => ConflictQuiet' /\ NoLeakedIntent'
  BY LeakStep
<1> QED
  BY <1>1, <1>2, TypeCorrect, PTL DEF Spec

-----------------------------------------------------------------------------
(* What the other steps touch.                                             *)

\* A new save.
LEMMA ClaimEffect ==
  ASSUME TypeOK, NEW s \in Savers, Claim(s)
  PROVE  /\ saver[s].stage = "idle" /\ saver'[s].stage = "claimed"
         /\ saver'[s].seq = reserved + 1 /\ reserved' = reserved + 1
         /\ saver'[s].rev = Original /\ saver'[s].current = NoTarget
         /\ \A t \in Savers : t # s => saver'[t] = saver[t]
         /\ UNCHANGED <<disk, barrier, checkpoint, manifest, journal, journalFailed, known,
                        baseline, degraded, diskSeq, acked, external, regressed>>
<1>1. reserved + 1 \in 0 .. MaxSaves /\ Original \in Contents /\ NoTarget \in Targets
      /\ saver \in [Savers -> SaverRecords]
  BY BoundsAssumption DEF Claim, TypeOK, Original, Contents, NoTarget, Targets
<1>2. /\ \A t \in Savers : t # s => saver'[t] = saver[t]
      /\ saver'[s].stage = "claimed" /\ saver'[s].seq = reserved + 1
      /\ saver'[s].rev = Original /\ saver'[s].current = NoTarget
  BY <1>1, HoldFacts DEF Claim, Stages
<1> QED
  BY <1>2 DEF Claim, At, journalVars, roomVars, historyVars

\* An intent is recorded, or the save is refused.
LEMMA PrepareEffect ==
  ASSUME TypeOK, NEW s \in Savers, NEW o \in AppendOutcomes, Prepare(s, o)
  PROVE  /\ saver[s].stage = "locked" /\ degraded' \in {degraded, "degraded"}
         /\ \A t \in Savers : t # s => saver'[t] = saver[t]
         /\ \/ saver'[s] = IdleSaver /\ saver'[s].stage = "idle"
            \/ /\ saver'[s].stage = "prepared" /\ saver'[s].seq = saver[s].seq
               /\ saver'[s].rev = saver[s].rev /\ saver'[s].current = saver[s].current
         /\ \/ UNCHANGED <<manifest, journal>>
            \/ /\ manifest.pending.seq = 0
               /\ manifest' \in {manifest, WithIntent(manifest, Target(s))}
               /\ journal' = WithIntent(manifest, Target(s))
         /\ UNCHANGED <<disk, reserved, barrier, checkpoint, known, baseline, diskSeq, acked,
                        external, regressed>>
<1>1. saver \in [Savers -> SaverRecords]
  BY DEF TypeOK
<1>2. Goto(s, "prepared") \/ Return(s)
  BY DEF Prepare
<1>3. /\ \A t \in Savers : t # s => saver'[t] = saver[t]
      /\ \/ saver'[s] = IdleSaver /\ saver'[s].stage = "idle"
         \/ /\ saver'[s].stage = "prepared" /\ saver'[s].seq = saver[s].seq
            /\ saver'[s].rev = saver[s].rev /\ saver'[s].current = saver[s].current
  BY <1>1, <1>2, GotoFacts, ReturnFacts DEF Stages
<1>4. \/ UNCHANGED <<manifest, journal>>
      \/ /\ manifest.pending.seq = 0
         /\ manifest' \in {manifest, WithIntent(manifest, Target(s))}
         /\ journal' = WithIntent(manifest, Target(s))
  BY DEF Prepare, JournalAppend, journalVars
<1> QED
  BY <1>3, <1>4 DEF Prepare, At, Degrade, coordinatorVars, roomVars, historyVars

\* The file is replaced, or the save turns to abort.
LEMMA ReplaceEffect ==
  ASSUME TypeOK, NEW s \in Savers, NEW r \in {"ok", "rename", "dirsync"}, Replace(s, r)
  PROVE  /\ saver[s].stage = "prepared"
         /\ \A t \in Savers : t # s => saver'[t] = saver[t]
         /\ saver'[s].seq = saver[s].seq /\ saver'[s].rev = saver[s].rev
         /\ saver'[s].current = saver[s].current
         /\ \/ r = "rename" /\ saver'[s].stage = "aborting" /\ UNCHANGED <<disk, diskSeq>>
            \/ /\ r \in {"ok", "dirsync"} /\ disk' = saver[s].rev /\ diskSeq' = saver[s].seq
               /\ r = "ok" => saver'[s].stage = "replaced"
         /\ r = "dirsync" => "dirsync" \in Faults
         /\ UNCHANGED <<reserved, barrier, checkpoint, manifest, journal, journalFailed, known,
                        baseline, degraded, acked, external, regressed>>
<1>1. saver \in [Savers -> SaverRecords]
  BY DEF TypeOK
<1>2. /\ r = "ok" => Goto(s, "replaced")
      /\ r # "ok" => Goto(s, "aborting")
  BY DEF Replace
<1>3. /\ \A t \in Savers : t # s => saver'[t] = saver[t]
      /\ saver'[s].seq = saver[s].seq /\ saver'[s].rev = saver[s].rev
      /\ saver'[s].current = saver[s].current
      /\ r = "ok" => saver'[s].stage = "replaced"
      /\ r # "ok" => saver'[s].stage = "aborting"
  BY <1>1, <1>2, GotoFacts DEF Stages
<1> QED
  BY <1>3 DEF Replace, At, coordinatorVars, journalVars, roomVars

\* A save drops its own intent.
LEMMA AbortEffect ==
  ASSUME TypeOK, NEW s \in Savers, NEW o \in AppendOutcomes, Abort(s, o)
  PROVE  /\ saver[s].stage = "aborting" /\ degraded' \in {degraded, "degraded"}
         /\ \A t \in Savers : t # s => saver'[t] = saver[t]
         /\ saver'[s] = IdleSaver /\ saver'[s].stage = "idle"
         /\ \/ UNCHANGED <<manifest, journal>>
            \/ /\ manifest.pending.seq = saver[s].seq
               /\ manifest' \in {manifest, DroppingIntent(manifest)}
               /\ journal' = DroppingIntent(manifest)
         /\ UNCHANGED <<disk, reserved, barrier, checkpoint, known, baseline, diskSeq, acked,
                        external, regressed>>
<1>1. saver \in [Savers -> SaverRecords]
  BY DEF TypeOK
<1>2. /\ \A t \in Savers : t # s => saver'[t] = saver[t]
      /\ saver'[s] = IdleSaver /\ saver'[s].stage = "idle"
  BY <1>1, ReturnFacts DEF Abort
<1>3. \/ UNCHANGED <<manifest, journal>>
      \/ /\ manifest.pending.seq = saver[s].seq
         /\ manifest' \in {manifest, DroppingIntent(manifest)}
         /\ journal' = DroppingIntent(manifest)
  BY DEF Abort, JournalAppend, journalVars
<1> QED
  BY <1>2, <1>3 DEF Abort, At, Degrade, coordinatorVars, roomVars, historyVars

\* The checkpoint is recorded, in memory only if the save succeeds.
LEMMA CommitEffect ==
  ASSUME TypeOK, RecoveryInv, NEW s \in Savers, NEW o \in AppendOutcomes, Commit(s, o)
  PROVE  /\ saver[s].stage = "replaced" /\ degraded' \in {degraded, "degraded"}
         /\ saver[s].seq >= barrier /\ barrier' = saver[s].seq
         /\ \A t \in Savers : t # s => saver'[t] = saver[t]
         /\ \/ /\ saver'[s].stage = "saved" /\ saver'[s].seq = saver[s].seq
               /\ saver'[s].rev = saver[s].rev /\ saver'[s].current = saver[s].current
               /\ manifest' = CommittedManifest(Target(s)) /\ journal' = manifest'
               /\ checkpoint' = Target(s)
            \/ /\ saver'[s] = IdleSaver /\ saver'[s].stage = "idle" /\ journalFailed'
               /\ manifest' = manifest /\ journal' \in {journal, CommittedManifest(Target(s))}
               /\ UNCHANGED checkpoint
         /\ manifest.pending = Target(s) /\ journal.pending = Target(s)
         /\ UNCHANGED <<disk, reserved, known, baseline, diskSeq, acked, external, regressed>>
<1>1. saver \in [Savers -> SaverRecords]
  BY DEF TypeOK
<1>2. saver[s].stage = "replaced" /\ saver[s].seq >= barrier
      /\ manifest.pending = Target(s) /\ journal.pending = Target(s)
  BY DEF Commit, At, RecoveryInv, LockInv, IntentInv
<1>3. ~IntentMismatch(Target(s))
  BY <1>2 DEF IntentMismatch
<1>4. JournalAppend(CommittedManifest(Target(s)), o)
  BY <1>3 DEF Commit
<1>5. CASE o = "ok"
  <2>1. Goto(s, "saved") /\ checkpoint' = Target(s) /\ UNCHANGED degraded
    BY <1>3, <1>5 DEF Commit, CommitReports
  <2>2. /\ \A t \in Savers : t # s => saver'[t] = saver[t]
        /\ saver'[s].stage = "saved" /\ saver'[s].seq = saver[s].seq
        /\ saver'[s].rev = saver[s].rev /\ saver'[s].current = saver[s].current
    BY <1>1, <2>1, GotoFacts DEF Stages
  <2>3. manifest' = CommittedManifest(Target(s)) /\ journal' = manifest'
    BY <1>4, <1>5 DEF JournalAppend
  <2> QED
    BY <1>2, <2>1, <2>2, <2>3 DEF Commit, roomVars, historyVars
<1>6. CASE o # "ok"
  <2>1. Return(s) /\ Degrade /\ UNCHANGED checkpoint
    BY <1>6 DEF Commit, CommitReports
  <2>2. /\ \A t \in Savers : t # s => saver'[t] = saver[t]
        /\ saver'[s] = IdleSaver /\ saver'[s].stage = "idle"
    BY <1>1, <2>1, ReturnFacts
  <2>3. manifest' = manifest /\ journal' \in {journal, CommittedManifest(Target(s))} /\ journalFailed'
    BY <1>4, <1>6 DEF JournalAppend
  <2> QED
    BY <1>2, <2>1, <2>2, <2>3 DEF Commit, Degrade, roomVars, historyVars
<1> QED
  BY <1>5, <1>6

\* An already current save commits its checkpoint again, if no intent stands in
\* the way, and acknowledges what the manifest then says.
LEMMA CommitExistingEffect ==
  ASSUME TypeOK, TypeOK', NEW s \in Savers, NEW o \in AppendOutcomes, CommitExisting(s, o)
  PROVE  /\ saver[s].stage = "current" /\ degraded' \in {degraded, "degraded"}
         /\ \A t \in Savers : t # s => saver'[t] = saver[t]
         /\ saver'[s] = IdleSaver /\ saver'[s].stage = "idle"
         /\ \/ UNCHANGED <<manifest, journal>>
            \/ /\ ~IntentMismatch(saver[s].current)
               /\ manifest' \in {manifest, CommittedManifest(saver[s].current)}
               /\ journal' = CommittedManifest(saver[s].current)
               /\ ~regressed' => saver[s].current.seq >= manifest.seq
         /\ acked' = acked \/ (acked' = saver[s].current.seq /\ acked' = manifest'.seq)
         /\ regressed => regressed'
         /\ UNCHANGED <<disk, reserved, barrier, checkpoint, known, baseline, diskSeq, external>>
<1> DEFINE target == saver[s].current
           m == CommittedManifest(target)
<1>1. /\ saver \in [Savers -> SaverRecords] /\ target \in Targets /\ manifest \in Manifests
      /\ target.seq \in Nat /\ manifest.seq \in Nat
      /\ regressed \in BOOLEAN /\ regressed' \in BOOLEAN
  BY DEF TypeOK, SaverRecords, Targets, Manifests
<1>2. /\ \A t \in Savers : t # s => saver'[t] = saver[t]
      /\ saver'[s] = IdleSaver /\ saver'[s].stage = "idle"
  BY <1>1, ReturnFacts DEF CommitExisting
<1>3. m.seq = target.seq
  BY <1>1, ManifestFields
<1>4. /\ acked' = acked \/ (acked' = target.seq /\ ~IntentMismatch(target) /\ o = "ok")
      /\ degraded' \in {degraded, "degraded"}
  BY DEF CommitExisting, Degrade
<1>5. UNCHANGED <<disk, reserved, barrier, checkpoint, known, baseline, diskSeq, external>>
      /\ saver[s].stage = "current"
  BY DEF CommitExisting, At, coordinatorVars, roomVars
<1>6. CASE manifest = m \/ IntentMismatch(target)
  <2>1. UNCHANGED <<manifest, journal, regressed>>
    BY <1>6 DEF CommitExisting, journalVars
  <2> QED
    BY <1>2, <1>3, <1>4, <1>5, <1>6, <2>1
<1>7. CASE ~(manifest = m \/ IntentMismatch(target))
  <2>1. /\ JournalAppend(m, o)
        /\ regressed' = (regressed \/ (o # "lost" /\ target.seq < manifest.seq))
    BY <1>7 DEF CommitExisting
  <2>2. regressed => regressed'
    BY <1>1, <2>1
  <2>3. CASE o = "lost"
    BY <1>2, <1>4, <1>5, <2>1, <2>2, <2>3 DEF JournalAppend
  <2>4. CASE o # "lost"
    <3>1. manifest' \in {manifest, m} /\ journal' = m /\ (o = "ok" => manifest' = m)
      BY <2>1, <2>4 DEF JournalAppend
    <3>2. ~regressed' => target.seq >= manifest.seq
      <4>1. target.seq < manifest.seq => regressed'
        BY <2>1, <2>4, Zenon
      <4> QED
        BY <1>1, <4>1
    <3> QED
      BY <1>2, <1>3, <1>4, <1>5, <1>7, <2>2, <3>1, <3>2
  <2> QED
    BY <2>3, <2>4
<1> QED
  BY <1>6, <1>7

\* A save that succeeded ends.
LEMMA FinishEffect ==
  ASSUME TypeOK, NEW s \in Savers, Finish(s)
  PROVE  /\ saver[s].stage = "saved"
         /\ \A t \in Savers : t # s => saver'[t] = saver[t]
         /\ saver'[s] = IdleSaver /\ saver'[s].stage = "idle"
         /\ acked' = acked \/ acked' = saver[s].seq
         /\ NoteBaseline(saver[s].seq, saver[s].rev)
         /\ degraded' = IF degraded = "conflict" THEN degraded ELSE "no"
         /\ UNCHANGED <<disk, reserved, barrier, checkpoint, manifest, journal, journalFailed,
                        diskSeq, external, regressed>>
<1>1. saver \in [Savers -> SaverRecords]
  BY DEF TypeOK
<1>2. /\ \A t \in Savers : t # s => saver'[t] = saver[t]
      /\ saver'[s] = IdleSaver /\ saver'[s].stage = "idle"
  BY <1>1, ReturnFacts DEF Finish
<1> QED
  BY <1>2 DEF Finish, At, coordinatorVars, journalVars

\* A restarted daemon has no saves under way; it takes the journal's record, with
\* an intent that accounts for the file resolved.
LEMMA RestartEffect ==
  ASSUME TypeOK, NEW o \in AppendOutcomes, Restart(o)
  PROVE  /\ \A s \in Savers : saver'[s] = IdleSaver /\ saver'[s].stage = "idle"
         /\ barrier' = manifest'.seq /\ checkpoint'.seq = manifest'.seq
         /\ known' = disk /\ baseline' = manifest'.seq
         /\ \/ UNCHANGED journal /\ manifest' = journal
            \/ /\ journal.pending.seq # 0 /\ Explains(journal, disk)
               /\ manifest' \in {journal, Resolved(journal)} /\ journal' = Resolved(journal)
         /\ degraded' = "no" =>
              /\ Explains(journal, disk)
              /\ journal.pending.seq # 0 => manifest' = Resolved(journal)
         /\ UNCHANGED <<disk, diskSeq, acked, external, regressed>>
<1>1. IdleSaver.stage = "idle"
  BY DEF IdleSaver
<1> QED
  BY <1>1 DEF Restart

-----------------------------------------------------------------------------
(* What was acknowledged is durable.                                       *)

\* As long as no checkpoint was put back: memory has every acknowledged save and
\* every save about to be, and the journal is never behind memory.  Memory is
\* needed too, since the next change of the document records the manifest again.
AckInv ==
  ~regressed =>
    /\ acked <= manifest.seq /\ manifest.seq <= journal.seq
    /\ \A s \in Savers : At(s, "saved") => saver[s].seq <= manifest.seq

\* Numbers.
LEMMA NumberTypes ==
  ASSUME TypeOK
  PROVE  /\ acked \in Nat /\ manifest.seq \in Nat /\ journal.seq \in Nat /\ barrier \in Nat
         /\ checkpoint.seq \in Nat /\ diskSeq \in Nat /\ baseline \in Nat /\ reserved \in Nat
         /\ manifest.pending.seq \in Nat /\ journal.pending.seq \in Nat
         /\ \A s \in Savers : saver[s].seq \in Nat /\ saver[s].current.seq \in Nat
         /\ regressed \in BOOLEAN /\ barrier <= reserved
         /\ manifest \in Manifests /\ journal \in Manifests
         /\ manifest.pending \in Targets /\ journal.pending \in Targets
         /\ \A s \in Savers : saver[s].current \in Targets
BY DEF TypeOK, Targets, Manifests, SaverRecords

\* Every step keeps it.
LEMMA AckStep ==
  ASSUME TypeOK, TypeOK', RecoveryInv, AckInv, [Next]_vars
  PROVE  AckInv'
<1> USE NumberTypes
<1>1. ASSUME UNCHANGED <<manifest, journal, acked, regressed>>,
             \A s \in Savers : At(s, "saved")' => saver'[s] = saver[s]
      PROVE  AckInv'
  BY <1>1 DEF AckInv, At
<1>2. ASSUME NEW s \in Savers, MoveStep(s) PROVE AckInv'
  <2>1. \A t \in Savers : At(t, "saved")' => saver'[t] = saver[t]
    BY <1>2 DEF MoveStep, At
  <2> QED
    BY <1>1, <1>2, <2>1 DEF MoveStep
<1>3. ASSUME NEW s \in Savers, Claim(s) PROVE AckInv'
  <2>1. \A t \in Savers : At(t, "saved")' => saver'[t] = saver[t]
    BY <1>3, ClaimEffect DEF At
  <2> QED
    BY <1>1, <1>3, <2>1, ClaimEffect
<1>4. ASSUME NEW s \in Savers, NEW o \in AppendOutcomes, Prepare(s, o) \/ Abort(s, o)
      PROVE  AckInv'
  <2>1. /\ WithIntent(manifest, Target(s)).seq = manifest.seq
        /\ DroppingIntent(manifest).seq = manifest.seq
    <3>1. Target(s) \in Targets
      BY TargetType DEF TypeOK
    <3> QED
      BY <3>1, ManifestFields
  <2>2. /\ manifest'.seq = manifest.seq /\ journal'.seq \in {journal.seq, manifest.seq}
        /\ UNCHANGED <<acked, regressed>>
        /\ \A t \in Savers : At(t, "saved")' => saver'[t] = saver[t]
    <3>1. CASE Prepare(s, o)
      BY <2>1, <3>1, PrepareEffect DEF At
    <3>2. CASE Abort(s, o)
      BY <2>1, <3>2, AbortEffect DEF At
    <3> QED
      BY <1>4, <3>1, <3>2
  <2> QED
    BY <2>2 DEF AckInv, At
<1>5. ASSUME NEW s \in Savers, NEW r \in {"ok", "rename", "dirsync"}, Replace(s, r)
      PROVE  AckInv'
  <2>1. saver'[s].stage # "saved"
    BY <1>5, GotoFacts DEF Replace, TypeOK, Stages
  <2>2. \A t \in Savers : At(t, "saved")' => saver'[t] = saver[t]
    BY <1>5, <2>1, ReplaceEffect DEF At
  <2> QED
    BY <1>1, <1>5, <2>2, ReplaceEffect
<1>6. ASSUME NEW s \in Savers, NEW o \in AppendOutcomes, Commit(s, o) PROVE AckInv'
  <2> DEFINE m == CommittedManifest(Target(s))
  <2>1. m.seq = saver[s].seq
    <3>1. Target(s) \in Targets /\ Target(s).seq = saver[s].seq
      BY TargetType DEF TypeOK
    <3> QED
      BY <3>1, ManifestFields
  <2>2. ~regressed => manifest.seq <= saver[s].seq
    <3>1. saver[s].seq >= barrier
      BY <1>6, CommitEffect
    <3>2. checkpoint.seq <= barrier /\ (~regressed => checkpoint.seq = manifest.seq)
      BY DEF RecoveryInv, SequenceInv, AgreeInv
    <3> QED
      BY <3>1, <3>2
  <2>3. CASE saver'[s].stage = "saved"
    <3>1. /\ manifest' = m /\ journal' = m /\ saver'[s].seq = saver[s].seq
          /\ UNCHANGED <<acked, regressed>> /\ \A t \in Savers : t # s => saver'[t] = saver[t]
      BY <1>6, <2>3, CommitEffect DEF IdleSaver
    <3> HIDE DEF m
    <3> QED
      BY <2>1, <2>2, <3>1 DEF AckInv, At
  <2>4. CASE saver'[s].stage # "saved"
    <3>1. /\ manifest' = manifest /\ journal' \in {journal, m}
          /\ UNCHANGED <<acked, regressed>> /\ \A t \in Savers : t # s => saver'[t] = saver[t]
      BY <1>6, <2>4, CommitEffect
    <3> HIDE DEF m
    <3> QED
      BY <2>1, <2>2, <2>4, <3>1 DEF AckInv, At
  <2> QED
    BY <2>3, <2>4
<1>7. ASSUME NEW s \in Savers, NEW o \in AppendOutcomes, CommitExisting(s, o) PROVE AckInv'
  <2> DEFINE target == saver[s].current
             m == CommittedManifest(target)
  <2>1. m.seq = target.seq
    BY ManifestFields
  <2>2. /\ acked' = acked \/ acked' = manifest'.seq
        /\ \A t \in Savers : At(t, "saved")' => saver'[t] = saver[t]
        /\ regressed => regressed'
    BY <1>7, CommitExistingEffect DEF At
  <2>3. CASE UNCHANGED <<manifest, journal>>
    BY <2>2, <2>3 DEF AckInv, At
  <2>4. CASE ~UNCHANGED <<manifest, journal>>
    <3>1. /\ manifest' \in {manifest, m} /\ journal' = m
          /\ ~regressed' => target.seq >= manifest.seq
      BY <1>7, <2>4, CommitExistingEffect
    <3>2. target.seq \in Nat /\ manifest'.seq \in Nat
      BY DEF TypeOK, Manifests
    <3> HIDE DEF m, target
    <3>3. ASSUME ~regressed'
          PROVE  manifest'.seq >= manifest.seq /\ manifest'.seq <= journal'.seq
      <4>1. target.seq >= manifest.seq
        BY <3>1, <3>3
      <4> QED
        BY <2>1, <3>1, <3>2, <4>1
    <3>4. ~regressed' => ~regressed
      BY <2>2
    <3> SUFFICES ASSUME ~regressed'
                 PROVE  /\ acked' <= manifest'.seq /\ manifest'.seq <= journal'.seq
                        /\ \A t \in Savers : At(t, "saved")' => saver'[t].seq <= manifest'.seq
      BY DEF AckInv
    <3>5. acked <= manifest.seq /\ \A t \in Savers : At(t, "saved") => saver[t].seq <= manifest.seq
      BY <3>4 DEF AckInv
    <3>6. acked' <= manifest'.seq
      BY <2>2, <3>2, <3>3, <3>5
    <3>7. \A t \in Savers : At(t, "saved")' => saver'[t].seq <= manifest'.seq
      BY <2>2, <3>2, <3>3, <3>5 DEF At
    <3> QED
      BY <3>3, <3>6, <3>7
  <2> QED
    BY <2>3, <2>4
<1>8. ASSUME NEW s \in Savers, Finish(s) PROVE AckInv'
  <2>1. \A t \in Savers : At(t, "saved")' => saver'[t] = saver[t]
    BY <1>8, FinishEffect DEF At
  <2>2. /\ acked' = acked \/ acked' = saver[s].seq
        /\ At(s, "saved") /\ UNCHANGED <<manifest, journal, regressed>>
    BY <1>8, FinishEffect DEF At
  <2> QED
    BY <2>1, <2>2 DEF AckInv, At
<1>9. ASSUME NEW o \in AppendOutcomes, Restart(o) PROVE AckInv'
  <2>1. /\ \A s \in Savers : saver'[s].stage = "idle"
        /\ UNCHANGED <<acked, regressed>>
    BY <1>9, RestartEffect
  <2>2. Resolved(journal).seq \in {journal.seq, journal.pending.seq}
    BY ManifestFields DEF Resolved
  <2>3. \/ UNCHANGED journal /\ manifest' = journal
        \/ /\ journal.pending.seq # 0 /\ journal' = Resolved(journal)
           /\ manifest' \in {journal, Resolved(journal)}
    BY <1>9, RestartEffect
  <2>4. ~regressed /\ journal.pending.seq # 0 => journal.pending.seq > journal.seq
    BY DEF RecoveryInv, RecordInv
  <2>5. ~regressed => journal.seq <= manifest'.seq /\ manifest'.seq <= journal'.seq
    BY <2>2, <2>3, <2>4
  <2>6. manifest'.seq \in Nat /\ journal'.seq \in Nat
    BY DEF TypeOK, Manifests
  <2>7. ~regressed => acked <= journal.seq
    BY DEF AckInv
  <2>8. ~regressed' => acked' <= manifest'.seq /\ manifest'.seq <= journal'.seq
    BY <2>1, <2>5, <2>6, <2>7
  <2> QED
    BY <2>1, <2>8 DEF AckInv, At
<1>10. CASE Edit
  <2>1. UNCHANGED <<manifest, acked, regressed, saver>> /\ journal' = manifest
    BY <1>10 DEF Edit, historyVars
  <2> QED
    BY <2>1 DEF AckInv, At
<1>11. CASE ExternalEdit \/ UNCHANGED vars
  <2>1. UNCHANGED <<manifest, journal, acked, regressed, saver>>
    BY <1>11 DEF ExternalEdit, vars, journalVars, historyVars
  <2> QED
    BY <1>1, <2>1
<1> QED
  BY <1>2, <1>3, <1>4, <1>5, <1>6, <1>7, <1>8, <1>9, <1>10, <1>11, MoveSteps DEF Next, Save, Rest

\* What a client was told is saved is in the journal, as that checkpoint or a
\* newer one, at every moment at which the daemon can die, for every set of
\* faults and through restarts and edits by other programs; only a checkpoint
\* that an already current save put back can lose it.
THEOREM AckedSurvives == Spec => []AckedIsDurable
<1>1. Init => AckInv
  BY DEF Init, AckInv, At, IdleSaver
<1>2. TypeOK /\ TypeOK' /\ RecoveryInv /\ AckInv /\ [Next]_vars => AckInv'
  BY AckStep
<1>3. TypeOK /\ AckInv => AckedIsDurable
  <2> SUFFICES ASSUME TypeOK, AckInv, ~regressed PROVE acked <= journal.seq
    BY DEF AckedIsDurable
  <2> QED
    BY NumberTypes DEF AckInv
<1> QED
  BY <1>1, <1>2, <1>3, RecoveryAlways, PTL DEF Spec
-----------------------------------------------------------------------------
(* The file never goes back.                                               *)

\* Only saves name revisions, so none is another program's bytes.
OwnRevs(m) == m.source # External /\ m.pending.rev # External
RevsInv ==
  /\ OwnRevs(manifest) /\ OwnRevs(journal) /\ checkpoint.rev # External
  /\ \A s \in Savers : saver[s].rev # External /\ saver[s].current.rev # External

\* Every step keeps it.
LEMMA RevsStep ==
  ASSUME TypeOK, TypeOK', RecoveryInv, RevsInv, [Next]_vars
  PROVE  RevsInv'
<1>1. /\ doc # External /\ Original # External /\ NoTarget.rev # External
      /\ IdleSaver.rev = Original /\ IdleSaver.current = NoTarget
  BY DEF TypeOK, External, Original, NoTarget, IdleSaver
<1>2. ASSUME OwnRevs(manifest'), OwnRevs(journal'), checkpoint'.rev # External,
             \A s \in Savers :
               /\ saver'[s].rev \in {saver[s].rev, doc, Original}
               /\ saver'[s].current \in {saver[s].current, checkpoint, NoTarget}
      PROVE  RevsInv'
  BY <1>1, <1>2 DEF RevsInv, OwnRevs
<1>3. /\ OwnRevs(manifest) /\ OwnRevs(journal) /\ checkpoint.rev # External
      /\ manifest \in Manifests /\ journal \in Manifests /\ journal.pending \in Targets
      /\ \A s \in Savers : saver[s].rev # External /\ saver[s].current.rev # External
      /\ \A s \in Savers : /\ Target(s) \in Targets /\ Target(s).rev = saver[s].rev
                           /\ saver[s].current \in Targets
  BY TargetType, NumberTypes DEF RevsInv, TypeOK
<1>4. ASSUME NEW s \in Savers
      PROVE  /\ OwnRevs(WithIntent(manifest, Target(s)))
             /\ OwnRevs(DroppingIntent(manifest))
             /\ OwnRevs(CommittedManifest(Target(s)))
             /\ OwnRevs(CommittedManifest(saver[s].current))
             /\ Target(s).rev # External
  <2>1. /\ OwnRevs(WithIntent(manifest, Target(s))) /\ OwnRevs(DroppingIntent(manifest))
        /\ OwnRevs(CommittedManifest(Target(s)))
    BY <1>1, <1>3, ManifestFields DEF OwnRevs
  <2>2. OwnRevs(CommittedManifest(saver[s].current))
    BY <1>1, <1>3, ManifestFields DEF OwnRevs
  <2> QED
    BY <1>3, <2>1, <2>2
<1>5. ASSUME NEW s \in Savers, MoveStep(s) PROVE RevsInv'
  BY <1>2, <1>3, <1>5 DEF MoveStep
<1>6. ASSUME NEW s \in Savers, Claim(s) PROVE RevsInv'
  BY <1>2, <1>3, <1>6, ClaimEffect
<1>7. ASSUME NEW s \in Savers, NEW o \in AppendOutcomes, Prepare(s, o) PROVE RevsInv'
  <2>1. OwnRevs(manifest') /\ OwnRevs(journal')
    BY <1>3, <1>4, <1>7, PrepareEffect
  <2> QED
    BY <1>1, <1>2, <1>3, <1>7, <2>1, PrepareEffect
<1>8. ASSUME NEW s \in Savers, NEW r \in {"ok", "rename", "dirsync"}, Replace(s, r)
      PROVE  RevsInv'
  BY <1>2, <1>3, <1>8, ReplaceEffect
<1>9. ASSUME NEW s \in Savers, NEW o \in AppendOutcomes, Abort(s, o) PROVE RevsInv'
  <2>1. OwnRevs(manifest') /\ OwnRevs(journal')
    BY <1>3, <1>4, <1>9, AbortEffect
  <2> QED
    BY <1>1, <1>2, <1>3, <1>9, <2>1, AbortEffect
<1>10. ASSUME NEW s \in Savers, NEW o \in AppendOutcomes, Commit(s, o) PROVE RevsInv'
  <2>1. OwnRevs(manifest') /\ OwnRevs(journal') /\ checkpoint'.rev # External
    BY <1>3, <1>4, <1>10, CommitEffect
  <2> QED
    BY <1>1, <1>2, <1>3, <1>10, <2>1, CommitEffect
<1>11. ASSUME NEW s \in Savers, NEW o \in AppendOutcomes, CommitExisting(s, o) PROVE RevsInv'
  <2>1. OwnRevs(manifest') /\ OwnRevs(journal')
    BY <1>3, <1>4, <1>11, CommitExistingEffect
  <2> QED
    BY <1>1, <1>2, <1>3, <1>11, <2>1, CommitExistingEffect
<1>12. ASSUME NEW s \in Savers, Finish(s) PROVE RevsInv'
  BY <1>1, <1>2, <1>3, <1>12, FinishEffect
<1>13. ASSUME NEW o \in AppendOutcomes, Restart(o) PROVE RevsInv'
  <2>1. OwnRevs(Resolved(journal))
    BY <1>1, <1>3, ManifestFields DEF OwnRevs, Resolved
  <2>2. OwnRevs(manifest') /\ OwnRevs(journal')
    BY <1>3, <1>13, <2>1, RestartEffect
  <2>3. checkpoint'.rev # External
    <3>1. checkpoint'.rev \in {Original, manifest'.source}
      BY <1>13 DEF Restart
    <3> QED
      BY <1>1, <2>2, <3>1 DEF OwnRevs
  <2> QED
    BY <1>1, <1>2, <1>13, <2>2, <2>3, RestartEffect
<1>14. CASE Edit \/ ExternalEdit \/ UNCHANGED vars
  <2>1. UNCHANGED <<manifest, checkpoint, saver>> /\ journal' \in {journal, manifest}
    BY <1>14 DEF Edit, ExternalEdit, vars, coordinatorVars, journalVars
  <2> QED
    BY <1>2, <1>3, <2>1
<1> QED
  BY <1>5, <1>6, <1>7, <1>8, <1>9, <1>10, <1>11, <1>12, <1>13, <1>14, MoveSteps
    DEF Next, Save, Rest
\* The file was last replaced by the save that is about to commit.
ReplacedInv == \A s \in Savers : At(s, "replaced") => diskSeq = saver[s].seq

\* A record knows of the save the file holds: it has that checkpoint or a newer
\* one, or the intent of just that save with nothing but another program's
\* bytes in its place.
HoldsDisk(m) ==
  diskSeq <= m.seq \/ (m.pending.seq = diskSeq /\ disk \in {m.pending.rev, External})

\* A degraded room without a save past the availability check: no save of it
\* gets to the file before a restart.
Refusing == degraded # "no" /\ \A s \in Savers : saver[s].stage \in {"idle", "claimed"}

\* The barrier has passed the save the file holds, or is about to, and no save
\* that may still replace the file has that number.
Ordered ==
  /\ diskSeq <= barrier \/ \E s \in Savers : At(s, "replaced")
  /\ \A s \in Savers :
       saver[s].stage \notin {"idle", "replaced", "saved"} => saver[s].seq # diskSeq

\* A restart that does not understand the file may number its saves below what
\* the file holds; it is then degraded, and Refusing.
DiskInv == ~regressed => HoldsDisk(manifest) /\ HoldsDisk(journal) /\ (Refusing \/ Ordered)

\* Every step keeps the first part.
LEMMA ReplacedStep ==
  ASSUME TypeOK, TypeOK', RecoveryInv, ReplacedInv, [Next]_vars
  PROVE  ReplacedInv'
<1>1. ASSUME UNCHANGED diskSeq, \A s \in Savers : At(s, "replaced")' => saver'[s] = saver[s]
      PROVE  ReplacedInv'
  BY <1>1 DEF ReplacedInv, At
<1>2. ASSUME NEW s \in Savers, NEW r \in {"ok", "rename", "dirsync"}, Replace(s, r)
      PROVE  ReplacedInv'
  <2>1. \A t \in Savers : t # s => saver[t].stage # "replaced" /\ saver'[t] = saver[t]
    <3>1. saver[s].stage = "prepared" /\ LockInv
      BY <1>2, ReplaceEffect DEF RecoveryInv
    <3>2. \A t \in Savers : t # s => saver[t].stage # "replaced"
      BY <3>1, SectionExclusive
    <3> QED
      BY <1>2, <3>2, ReplaceEffect
  <2>2. saver'[s].stage = "replaced" => diskSeq' = saver'[s].seq
    BY <1>2, ReplaceEffect
  <2> QED
    BY <2>1, <2>2 DEF ReplacedInv, At
<1>3. ASSUME NEW s \in Savers, MoveStep(s) PROVE ReplacedInv'
  BY <1>1, <1>3 DEF MoveStep, At
<1>4. ASSUME NEW s \in Savers, Claim(s) PROVE ReplacedInv'
  BY <1>1, <1>4, ClaimEffect DEF At
<1>5. ASSUME NEW s \in Savers, NEW o \in AppendOutcomes, Prepare(s, o) PROVE ReplacedInv'
  BY <1>1, <1>5, PrepareEffect DEF At
<1>6. ASSUME NEW s \in Savers, NEW o \in AppendOutcomes, Abort(s, o) PROVE ReplacedInv'
  BY <1>1, <1>6, AbortEffect DEF At
<1>7. ASSUME NEW s \in Savers, NEW o \in AppendOutcomes, Commit(s, o) PROVE ReplacedInv'
  BY <1>1, <1>7, CommitEffect DEF At
<1>8. ASSUME NEW s \in Savers, NEW o \in AppendOutcomes, CommitExisting(s, o)
      PROVE  ReplacedInv'
  BY <1>1, <1>8, CommitExistingEffect DEF At
<1>9. ASSUME NEW s \in Savers, Finish(s) PROVE ReplacedInv'
  BY <1>1, <1>9, FinishEffect DEF At
<1>10. ASSUME NEW o \in AppendOutcomes, Restart(o) PROVE ReplacedInv'
  BY <1>1, <1>10, RestartEffect DEF At
<1>11. CASE Edit \/ ExternalEdit \/ UNCHANGED vars
  <2>1. UNCHANGED <<diskSeq, saver>>
    BY <1>11 DEF Edit, ExternalEdit, vars, historyVars
  <2> QED
    BY <1>1, <2>1
<1> QED
  BY <1>2, <1>3, <1>4, <1>5, <1>6, <1>7, <1>8, <1>9, <1>10, <1>11, MoveSteps
    DEF Next, Save, Rest

\* The file's save is never one still to be numbered.
LEMMA DiskNumbered ==
  ASSUME TypeOK, RecoveryInv, ReplacedInv, Ordered
  PROVE  diskSeq <= reserved
<1>1. CASE diskSeq <= barrier
  BY <1>1, NumberTypes
<1>2. CASE \E s \in Savers : At(s, "replaced")
  <2>1. PICK s \in Savers : At(s, "replaced")
    BY <1>2
  <2>2. saver[s].seq \in 1 .. reserved /\ diskSeq = saver[s].seq
    BY <2>1 DEF RecoveryInv, SequenceInv, ReplacedInv, At
  <2> QED
    BY <2>2, NumberTypes
<1> QED
  BY <1>1, <1>2 DEF Ordered

\* Saves that leave the file alone keep the order: the barrier only rises, and a
\* save between stages keeps its number.
LEMMA OrderFrame ==
  ASSUME TypeOK, TypeOK', Ordered, NEW s \in Savers,
         UNCHANGED diskSeq, barrier <= barrier',
         \A t \in Savers : t # s => saver'[t] = saver[t],
         \/ saver'[s].stage \in {"idle", "saved"}
         \/ /\ saver[s].stage \notin {"idle", "replaced", "saved"}
            /\ saver'[s].seq = saver[s].seq,
         saver[s].stage = "replaced" => diskSeq <= barrier'
  PROVE  Ordered'
<1>1. barrier \in Nat /\ barrier' \in Nat /\ diskSeq \in Nat
  BY NumberTypes DEF TypeOK
<1>2. \A t \in Savers :
        saver'[t].stage \notin {"idle", "replaced", "saved"} => saver'[t].seq # diskSeq
  BY DEF Ordered
<1>3. diskSeq <= barrier' \/ \E t \in Savers : saver'[t].stage = "replaced"
  <2>1. CASE diskSeq <= barrier
    BY <1>1, <2>1
  <2>2. CASE \E t \in Savers : At(t, "replaced")
    <3>1. PICK t \in Savers : At(t, "replaced")
      BY <2>2
    <3> QED
      BY <3>1 DEF At
  <2> QED
    BY <2>1, <2>2 DEF Ordered
<1> QED
  BY <1>2, <1>3 DEF Ordered, At
\* Every step keeps a room ordered, or leaves it refusing.
LEMMA OrderStep ==
  ASSUME TypeOK, TypeOK', RecoveryInv, ReplacedInv, "dirsync" \notin Faults,
         ~regressed, HoldsDisk(journal), RevsInv, Refusing \/ Ordered, [Next]_vars
  PROVE  Refusing' \/ Ordered'
<1> USE NumberTypes
<1>a. barrier' \in Nat /\ diskSeq' \in Nat
  BY DEF TypeOK
<1>1. ASSUME NEW s \in Savers, MoveStep(s) PROVE Refusing' \/ Ordered'
  <2>1. CASE Refusing
    <3>1. saver'[s].stage = "idle" /\ degraded' # "no"
      BY <1>1, <2>1 DEF MoveStep, Refusing
    <3>2. \A t \in Savers : saver'[t].stage \in {"idle", "claimed"}
      BY <1>1, <2>1, <3>1 DEF MoveStep, Refusing
    <3> QED
      BY <3>1, <3>2 DEF Refusing
  <2>2. CASE Ordered
    BY <1>1, <2>2, OrderFrame DEF MoveStep
  <2> QED
    BY <2>1, <2>2
<1>2. ASSUME NEW s \in Savers, Claim(s) PROVE Refusing' \/ Ordered'
  <2>1. CASE Refusing
    BY <1>2, <2>1, ClaimEffect DEF Refusing
  <2>2. CASE Ordered
    <3>1. saver'[s].seq # diskSeq
      BY <1>2, <2>2, ClaimEffect, DiskNumbered
    <3>2. \A t \in Savers :
            saver'[t].stage \notin {"idle", "replaced", "saved"} => saver'[t].seq # diskSeq
      BY <1>2, <2>2, <3>1, ClaimEffect DEF Ordered
    <3>3. \A t \in Savers : At(t, "replaced") => saver'[t].stage = "replaced"
      BY <1>2, ClaimEffect DEF At
    <3>4. diskSeq' <= barrier' \/ \E t \in Savers : saver'[t].stage = "replaced"
      BY <1>2, <2>2, <3>3, ClaimEffect DEF Ordered
    <3>5. UNCHANGED diskSeq
      BY <1>2, ClaimEffect
    <3> QED
      BY <3>2, <3>4, <3>5 DEF Ordered, At
  <2> QED
    BY <2>1, <2>2
<1>3. ASSUME NEW s \in Savers, saver[s].stage \notin {"idle", "claimed"} PROVE Ordered
  BY <1>3 DEF Refusing
<1>4. ASSUME NEW s \in Savers, NEW o \in AppendOutcomes, Prepare(s, o) PROVE Ordered'
  <2>1. Ordered
    BY <1>3, <1>4, PrepareEffect
  <2> QED
    BY <1>4, <2>1, PrepareEffect, OrderFrame
<1>5. ASSUME NEW s \in Savers, NEW r \in {"ok", "rename", "dirsync"}, Replace(s, r)
      PROVE  Ordered'
  <2>1. Ordered /\ saver[s].stage = "prepared"
    BY <1>3, <1>5, ReplaceEffect
  <2>2. CASE r = "rename"
    <3>1. UNCHANGED <<diskSeq, barrier>> /\ saver'[s].seq = saver[s].seq
          /\ \A t \in Savers : t # s => saver'[t] = saver[t]
      BY <1>5, <2>2, ReplaceEffect
    <3> QED
      BY <2>1, <3>1, OrderFrame
  <2>3. CASE r = "ok"
    <3>1. /\ saver'[s].stage = "replaced" /\ diskSeq' = saver[s].seq
          /\ \A t \in Savers : t # s => saver'[t] = saver[t]
      BY <1>5, <2>3, ReplaceEffect
    <3>2. \A t \in Savers : t # s /\ ~At(t, "idle") => saver[t].seq # saver[s].seq
      BY <2>1 DEF RecoveryInv, SequenceInv, At
    <3> QED
      BY <3>1, <3>2 DEF Ordered, At
  <2> QED
    BY <1>5, <2>2, <2>3, ReplaceEffect
<1>6. ASSUME NEW s \in Savers, NEW o \in AppendOutcomes, Abort(s, o) PROVE Ordered'
  <2>1. Ordered
    BY <1>3, <1>6, AbortEffect
  <2> QED
    BY <1>6, <2>1, AbortEffect, OrderFrame
<1>7. ASSUME NEW s \in Savers, NEW o \in AppendOutcomes, Commit(s, o) PROVE Ordered'
  <2>1. Ordered
    BY <1>3, <1>7, CommitEffect
  <2>2. diskSeq = saver[s].seq /\ barrier' = saver[s].seq /\ barrier <= barrier'
    BY <1>7, CommitEffect DEF ReplacedInv, At
  <2>3. /\ \A t \in Savers : t # s => saver'[t] = saver[t]
        /\ UNCHANGED diskSeq /\ saver'[s].stage \in {"idle", "saved"}
    BY <1>7, CommitEffect
  <2> QED
    BY <2>1, <2>2, <2>3, OrderFrame
<1>8. ASSUME NEW s \in Savers, NEW o \in AppendOutcomes, CommitExisting(s, o) PROVE Ordered'
  <2>1. Ordered
    BY <1>3, <1>8, CommitExistingEffect
  <2> QED
    BY <1>8, <2>1, CommitExistingEffect, OrderFrame
<1>9. ASSUME NEW s \in Savers, Finish(s) PROVE Ordered'
  <2>1. Ordered
    BY <1>3, <1>9, FinishEffect
  <2> QED
    BY <1>9, <2>1, FinishEffect, OrderFrame
<1>10. ASSUME NEW o \in AppendOutcomes, Restart(o) PROVE Refusing' \/ Ordered'
  <2>1. /\ \A s \in Savers : saver'[s].stage = "idle"
        /\ barrier' = manifest'.seq /\ UNCHANGED diskSeq
    BY <1>10, RestartEffect
  <2>2. CASE degraded' # "no"
    BY <2>1, <2>2 DEF Refusing
  <2>3. CASE degraded' = "no"
    <3>1. /\ Explains(journal, disk)
          /\ journal.pending.seq = 0 => manifest' = journal
          /\ journal.pending.seq # 0 => manifest' = Resolved(journal)
      BY <1>10, <2>3, RestartEffect
    <3>2. disk # External
      BY <3>1 DEF Explains, RevsInv, OwnRevs
    <3>3. diskSeq <= manifest'.seq
      <4>1. CASE journal.pending.seq = 0
        BY <3>1, <4>1 DEF HoldsDisk
      <4>2. CASE journal.pending.seq # 0 /\ disk = journal.pending.rev
        <5>1. manifest'.seq = journal.pending.seq
          BY <3>1, <4>2, ManifestFields DEF Resolved
        <5>2. journal.pending.seq > journal.seq
          BY <4>2 DEF RecoveryInv, RecordInv
        <5> QED
          BY <5>1, <5>2 DEF HoldsDisk
      <4>3. CASE journal.pending.seq # 0 /\ disk # journal.pending.rev
        <5>1. manifest'.seq = journal.seq
          BY <3>1, <4>3, ManifestFields DEF Resolved
        <5> QED
          BY <3>2, <4>3, <5>1 DEF HoldsDisk
      <4> QED
        BY <4>1, <4>2, <4>3
    <3> QED
      BY <2>1, <3>3 DEF Ordered, At
  <2> QED
    BY <2>2, <2>3
<1>11. CASE Edit \/ ExternalEdit \/ UNCHANGED vars
  <2>1. UNCHANGED <<diskSeq, saver, barrier, degraded>>
    BY <1>11 DEF Edit, ExternalEdit, vars, historyVars, coordinatorVars
  <2> QED
    BY <2>1 DEF Refusing, Ordered, At
<1> QED
  BY <1>1, <1>2, <1>4, <1>5, <1>6, <1>7, <1>8, <1>9, <1>10, <1>11, MoveSteps
    DEF Next, Save, Rest

\* Every step leaves memory and journal knowing of the file's save.
LEMMA HoldsStep ==
  ASSUME TypeOK, TypeOK', RecoveryInv, ReplacedInv, "dirsync" \notin Faults,
         ~regressed', ~regressed, HoldsDisk(manifest), HoldsDisk(journal), RevsInv,
         Refusing \/ Ordered, [Next]_vars
  PROVE  HoldsDisk(manifest)' /\ HoldsDisk(journal)'
<1> USE NumberTypes
<1>a. ASSUME UNCHANGED <<disk, diskSeq>>,
             manifest' = manifest \/ diskSeq <= manifest'.seq,
             journal' = journal \/ journal' = manifest \/ diskSeq <= journal'.seq
      PROVE  HoldsDisk(manifest)' /\ HoldsDisk(journal)'
  BY <1>a DEF HoldsDisk
<1>b. manifest.pending.seq = 0 => diskSeq <= manifest.seq
  BY DEF HoldsDisk
<1>1. ASSUME NEW s \in Savers, MoveStep(s) PROVE HoldsDisk(manifest)' /\ HoldsDisk(journal)'
  BY <1>1, <1>a DEF MoveStep
<1>2. ASSUME NEW s \in Savers, Claim(s) \/ Finish(s)
      PROVE  HoldsDisk(manifest)' /\ HoldsDisk(journal)'
  BY <1>2, <1>a, ClaimEffect, FinishEffect
<1>3. ASSUME NEW s \in Savers, NEW o \in AppendOutcomes, Prepare(s, o)
      PROVE  HoldsDisk(manifest)' /\ HoldsDisk(journal)'
  <2>1. WithIntent(manifest, Target(s)).seq = manifest.seq
    <3>1. Target(s) \in Targets
      BY TargetType DEF TypeOK
    <3> QED
      BY <3>1, ManifestFields
  <2>2. /\ manifest' = manifest \/ diskSeq <= manifest'.seq
        /\ journal' = journal \/ diskSeq <= journal'.seq
    BY <1>3, <1>b, <2>1, PrepareEffect
  <2> QED
    BY <1>3, <1>a, <2>2, PrepareEffect
<1>4. ASSUME NEW s \in Savers, NEW r \in {"ok", "rename", "dirsync"}, Replace(s, r)
      PROVE  HoldsDisk(manifest)' /\ HoldsDisk(journal)'
  <2>1. CASE r = "rename"
    BY <1>4, <1>a, <2>1, ReplaceEffect
  <2>2. CASE r = "ok"
    <3>1. disk' = saver[s].rev /\ diskSeq' = saver[s].seq /\ UNCHANGED <<manifest, journal>>
      BY <1>4, <2>2, ReplaceEffect
    <3>2. manifest.pending = Target(s) /\ journal.pending = Target(s)
      BY <1>4, ReplaceEffect DEF RecoveryInv, IntentInv
    <3> QED
      BY <3>1, <3>2 DEF HoldsDisk, Target
  <2> QED
    BY <1>4, <2>1, <2>2, ReplaceEffect
<1>5. ASSUME NEW s \in Savers, NEW o \in AppendOutcomes, Abort(s, o)
      PROVE  HoldsDisk(manifest)' /\ HoldsDisk(journal)'
  <2>1. saver[s].seq # diskSeq
    BY <1>5, AbortEffect DEF Refusing, Ordered
  <2>2. manifest.pending.seq = saver[s].seq => diskSeq <= manifest.seq
    BY <2>1 DEF HoldsDisk
  <2>3. DroppingIntent(manifest).seq = manifest.seq
    BY ManifestFields
  <2>4. /\ manifest' = manifest \/ diskSeq <= manifest'.seq
        /\ journal' = journal \/ diskSeq <= journal'.seq
    BY <1>5, <2>2, <2>3, AbortEffect
  <2> QED
    BY <1>5, <1>a, <2>4, AbortEffect
<1>6. ASSUME NEW s \in Savers, NEW o \in AppendOutcomes, Commit(s, o)
      PROVE  HoldsDisk(manifest)' /\ HoldsDisk(journal)'
  <2>1. CommittedManifest(Target(s)).seq = saver[s].seq
    <3>1. Target(s) \in Targets /\ Target(s).seq = saver[s].seq
      BY TargetType DEF TypeOK
    <3> QED
      BY <3>1, ManifestFields
  <2>2. saver[s].seq = diskSeq
    BY <1>6, CommitEffect DEF ReplacedInv, At
  <2>3. /\ manifest' = manifest \/ diskSeq <= manifest'.seq
        /\ journal' = journal \/ diskSeq <= journal'.seq
    BY <1>6, <2>1, <2>2, CommitEffect
  <2> QED
    BY <1>6, <1>a, <2>3, CommitEffect
<1>7. ASSUME NEW s \in Savers, NEW o \in AppendOutcomes, CommitExisting(s, o)
      PROVE  HoldsDisk(manifest)' /\ HoldsDisk(journal)'
  <2> DEFINE target == saver[s].current
             m == CommittedManifest(target)
  <2>1. CASE UNCHANGED <<manifest, journal>>
    BY <1>7, <1>a, <2>1, CommitExistingEffect
  <2>2. CASE ~UNCHANGED <<manifest, journal>>
    <3>1. /\ manifest' \in {manifest, m} /\ journal' = m
          /\ target.seq >= manifest.seq /\ ~IntentMismatch(target)
      BY <1>7, <2>2, CommitExistingEffect
    <3>2. m.seq = target.seq
      BY ManifestFields
    <3>3. target.seq <= manifest.seq
      BY <1>7, CommitExistingEffect DEF RecoveryInv, CurrentInv, AgreeInv
    <3>4. manifest.pending.seq = 0
      BY <3>1, <3>3 DEF RecoveryInv, RecordInv, IntentMismatch
    <3>5. diskSeq <= m.seq
      BY <1>b, <3>1, <3>2, <3>4
    <3> HIDE DEF m
    <3> QED
      BY <1>7, <1>a, <3>1, <3>5, CommitExistingEffect
  <2> QED
    BY <2>1, <2>2
<1>8. ASSUME NEW o \in AppendOutcomes, Restart(o)
      PROVE  HoldsDisk(manifest)' /\ HoldsDisk(journal)'
  <2>1. UNCHANGED <<disk, diskSeq>>
    BY <1>8, RestartEffect
  <2>2. CASE UNCHANGED journal /\ manifest' = journal
    BY <2>1, <2>2 DEF HoldsDisk
  <2>3. CASE /\ journal.pending.seq # 0 /\ Explains(journal, disk)
             /\ manifest' \in {journal, Resolved(journal)} /\ journal' = Resolved(journal)
    <3>1. disk # External
      BY <2>3 DEF Explains, RevsInv, OwnRevs
    <3>2. journal.pending.seq > journal.seq
      BY <2>3 DEF RecoveryInv, RecordInv
    <3>3. diskSeq <= Resolved(journal).seq
      <4>1. CASE disk = journal.pending.rev
        <5>1. Resolved(journal).seq = journal.pending.seq
          BY <4>1, ManifestFields DEF Resolved
        <5> QED
          BY <3>2, <5>1 DEF HoldsDisk
      <4>2. CASE disk # journal.pending.rev
        <5>1. Resolved(journal).seq = journal.seq
          BY <4>2, ManifestFields DEF Resolved
        <5> QED
          BY <3>1, <4>2, <5>1 DEF HoldsDisk
      <4> QED
        BY <4>1, <4>2
    <3> QED
      BY <2>1, <2>3, <3>3 DEF HoldsDisk
  <2> QED
    BY <1>8, <2>2, <2>3, RestartEffect
<1>9. CASE Edit \/ UNCHANGED vars
  <2>1. UNCHANGED <<disk, diskSeq, manifest>> /\ journal' \in {journal, manifest}
    BY <1>9 DEF Edit, vars, historyVars, journalVars
  <2> QED
    BY <1>a, <2>1
<1>10. CASE ExternalEdit
  BY <1>10 DEF ExternalEdit, HoldsDisk, journalVars
<1> QED
  BY <1>1, <1>2, <1>3, <1>4, <1>5, <1>6, <1>7, <1>8, <1>9, <1>10, MoveSteps
    DEF Next, Save, Rest
\* A checkpoint that was put back stays noted.
LEMMA RegressedStays ==
  ASSUME TypeOK, TypeOK', RecoveryInv, [Next]_vars
  PROVE  ~regressed' => ~regressed
<1>1. ASSUME NEW s \in Savers, MoveStep(s) PROVE UNCHANGED regressed
  BY <1>1 DEF MoveStep
<1>2. ASSUME NEW s \in Savers, Claim(s) \/ Finish(s) PROVE UNCHANGED regressed
  BY <1>2, ClaimEffect, FinishEffect
<1>3. ASSUME NEW s \in Savers, NEW o \in AppendOutcomes,
             Prepare(s, o) \/ Abort(s, o) \/ Commit(s, o)
      PROVE  UNCHANGED regressed
  BY <1>3, PrepareEffect, AbortEffect, CommitEffect
<1>4. ASSUME NEW s \in Savers, NEW r \in {"ok", "rename", "dirsync"}, Replace(s, r)
      PROVE  UNCHANGED regressed
  BY <1>4, ReplaceEffect
<1>5. ASSUME NEW s \in Savers, NEW o \in AppendOutcomes, CommitExisting(s, o)
      PROVE  ~regressed' => ~regressed
  BY <1>5, CommitExistingEffect
<1>6. ASSUME NEW o \in AppendOutcomes, Restart(o) PROVE UNCHANGED regressed
  BY <1>6, RestartEffect
<1>7. CASE Edit \/ ExternalEdit \/ UNCHANGED vars
  BY <1>7 DEF Edit, ExternalEdit, vars, historyVars
<1> QED
  BY <1>1, <1>2, <1>3, <1>4, <1>5, <1>6, <1>7, MoveSteps DEF Next, Save, Rest

\* Where a replacement happens, the file holds an older save.
LEMMA ReplaceOnward ==
  ASSUME TypeOK, RecoveryInv, DiskInv, ~regressed, NEW s \in Savers, At(s, "prepared")
  PROVE  diskSeq <= saver[s].seq
<1>1. Ordered
  BY DEF DiskInv, Refusing, At
<1>2. ~\E t \in Savers : At(t, "replaced")
  <2>1. LockInv /\ saver[s].stage = "prepared"
    BY DEF RecoveryInv, At
  <2> QED
    BY <2>1, SectionExclusive DEF At
<1>3. saver[s].seq >= barrier
  BY DEF RecoveryInv, LockInv, At
<1> QED
  BY <1>1, <1>2, <1>3, NumberTypes DEF Ordered

\* Only a replacement moves the file on.
LEMMA DiskMoves ==
  ASSUME TypeOK, TypeOK', RecoveryInv, [Next]_vars
  PROVE  \/ UNCHANGED diskSeq
         \/ \E s \in Savers : At(s, "prepared") /\ diskSeq' = saver[s].seq
<1>1. ASSUME NEW s \in Savers, MoveStep(s) PROVE UNCHANGED diskSeq
  BY <1>1 DEF MoveStep
<1>2. ASSUME NEW s \in Savers, Claim(s) \/ Finish(s) PROVE UNCHANGED diskSeq
  BY <1>2, ClaimEffect, FinishEffect
<1>3. ASSUME NEW s \in Savers, NEW o \in AppendOutcomes,
             Prepare(s, o) \/ Abort(s, o) \/ Commit(s, o) \/ CommitExisting(s, o)
      PROVE  UNCHANGED diskSeq
  BY <1>3, PrepareEffect, AbortEffect, CommitEffect, CommitExistingEffect
<1>4. ASSUME NEW s \in Savers, NEW r \in {"ok", "rename", "dirsync"}, Replace(s, r)
      PROVE  UNCHANGED diskSeq \/ (At(s, "prepared") /\ diskSeq' = saver[s].seq)
  BY <1>4, ReplaceEffect DEF At
<1>5. ASSUME NEW o \in AppendOutcomes, Restart(o) PROVE UNCHANGED diskSeq
  BY <1>5, RestartEffect
<1>6. CASE Edit \/ ExternalEdit \/ UNCHANGED vars
  BY <1>6 DEF Edit, ExternalEdit, vars, historyVars
<1> QED
  BY <1>1, <1>2, <1>3, <1>4, <1>5, <1>6, MoveSteps DEF Next, Save, Rest

\* The invariant of the order of saves in the file.
FileOrderInv == RevsInv /\ ReplacedInv /\ DiskInv

\* Every step keeps it.
LEMMA FileOrderStep ==
  ASSUME TypeOK, TypeOK', RecoveryInv, "dirsync" \notin Faults, FileOrderInv, [Next]_vars
  PROVE  FileOrderInv'
<1>1. RevsInv' /\ ReplacedInv'
  BY RevsStep, ReplacedStep DEF FileOrderInv
<1>2. ASSUME ~regressed'
      PROVE  (HoldsDisk(manifest) /\ HoldsDisk(journal) /\ (Refusing \/ Ordered))'
  <2>1. ~regressed
    BY <1>2, RegressedStays
  <2>2. /\ RevsInv /\ ReplacedInv
        /\ HoldsDisk(manifest) /\ HoldsDisk(journal) /\ (Refusing \/ Ordered)
    BY <2>1 DEF FileOrderInv, DiskInv
  <2> QED
    BY <1>2, <2>1, <2>2, HoldsStep, OrderStep
<1> QED
  BY <1>1, <1>2 DEF FileOrderInv, DiskInv

\* It holds in every reachable state.
LEMMA FileOrderAlways ==
  ASSUME "dirsync" \notin Faults
  PROVE  Spec => []FileOrderInv
<1>1. Init => FileOrderInv
  <2> SUFFICES ASSUME Init PROVE FileOrderInv
    OBVIOUS
  <2>1. TypeOK
    BY TypeInit
  <2>2. RevsInv
    BY DEF Init, RevsInv, OwnRevs, NoTarget, IdleSaver, Original, External
  <2>3. \A s \in Savers : saver[s].stage = "idle"
    BY DEF Init, IdleSaver
  <2>4. /\ diskSeq = 0 /\ barrier = 0 /\ manifest.seq = 0 /\ journal = manifest
    BY DEF Init
  <2> QED
    BY <2>2, <2>3, <2>4 DEF FileOrderInv, ReplacedInv, DiskInv, HoldsDisk, Ordered, At
<1>2. TypeOK /\ TypeOK' /\ RecoveryInv /\ FileOrderInv /\ [Next]_vars => FileOrderInv'
  BY FileOrderStep
<1> QED
  BY <1>1, <1>2, RecoveryAlways, PTL DEF Spec

\* No save replaces the file once a save claimed after it has, whatever the order
\* in which their temporary files became ready, and a restart never numbers its
\* saves so that it could: for every number of saves, edits by other programs,
\* restarts and failing appends and renames, until an already current save puts
\* an older checkpoint back.  The flush of the directory must report no error for
\* a rename that took place: after such an error the barrier stays behind the
\* file, and an earlier save passes the supersession check.
THEOREM FileOnlyMovesOn ==
  ASSUME "dirsync" \notin Faults
  PROVE  Spec => DiskNeverOlder
<1>1. TypeOK /\ TypeOK' /\ RecoveryInv /\ FileOrderInv /\ [Next]_vars
        => [regressed \/ diskSeq' >= diskSeq]_vars
  <2> SUFFICES ASSUME TypeOK, TypeOK', RecoveryInv, FileOrderInv, [Next]_vars, ~regressed
               PROVE  diskSeq' >= diskSeq
    OBVIOUS
  <2>1. diskSeq \in Nat /\ diskSeq' \in Nat /\ \A s \in Savers : saver[s].seq \in Nat
    BY NumberTypes DEF TypeOK
  <2>2. CASE UNCHANGED diskSeq
    BY <2>1, <2>2
  <2>3. ASSUME NEW s \in Savers, At(s, "prepared"), diskSeq' = saver[s].seq
        PROVE  diskSeq' >= diskSeq
    BY <2>1, <2>3, ReplaceOnward DEF FileOrderInv
  <2> QED
    BY <2>2, <2>3, DiskMoves
<1> QED
  BY <1>1, RecoveryAlways, FileOrderAlways, PTL DEF Spec, DiskNeverOlder
-----------------------------------------------------------------------------
(* The staleness baseline.                                                 *)

\* The baseline is behind the barrier, and a save that committed is behind both
\* the barrier and the file.
SavedInv ==
  /\ baseline <= barrier
  /\ \A s \in Savers : At(s, "saved") => saver[s].seq <= barrier /\ saver[s].seq <= diskSeq
  /\ \A s \in Savers : At(s, "replaced") /\ external = 0 => disk = saver[s].rev

\* The save the file holds will still set the baseline.
Announces(s) ==
  /\ saver[s].stage \in {"replaced", "saved"}
  /\ saver[s].seq = diskSeq /\ saver[s].rev = disk /\ baseline <= saver[s].seq

\* The baseline is the file's, and no save that has yet to report would change it.
Settled == known = disk /\ \A s \in Savers : At(s, "saved") => saver[s].seq < baseline

BaseInv == external = 0 /\ ~journalFailed => Settled \/ \E s \in Savers : Announces(s)

\* Every step keeps the numbers in order.
LEMMA SavedStep ==
  ASSUME TypeOK, TypeOK', RecoveryInv, ReplacedInv, SavedInv, [Next]_vars
  PROVE  SavedInv'
<1> USE NumberTypes
<1>a. /\ barrier' \in Nat /\ baseline' \in Nat /\ diskSeq' \in Nat
      /\ \A s \in Savers : saver'[s].seq \in Nat
  BY DEF TypeOK, SaverRecords
<1>1. ASSUME barrier <= barrier', UNCHANGED <<baseline, diskSeq, disk, external>>,
             \A s \in Savers : saver'[s].stage \in {"replaced", "saved"} => saver'[s] = saver[s]
      PROVE  SavedInv'
  BY <1>1, <1>a DEF SavedInv, At
<1>2. ASSUME NEW s \in Savers, MoveStep(s) PROVE SavedInv'
  <2>1. \A t \in Savers : saver'[t].stage \in {"replaced", "saved"} => saver'[t] = saver[t]
    BY <1>2 DEF MoveStep
  <2> QED
    BY <1>1, <1>2, <2>1 DEF MoveStep
<1>3. ASSUME NEW s \in Savers, Claim(s) PROVE SavedInv'
  <2>1. \A t \in Savers : saver'[t].stage \in {"replaced", "saved"} => saver'[t] = saver[t]
    BY <1>3, ClaimEffect
  <2> QED
    BY <1>1, <1>3, <2>1, ClaimEffect
<1>4. ASSUME NEW s \in Savers, NEW o \in AppendOutcomes,
             Prepare(s, o) \/ Abort(s, o) \/ CommitExisting(s, o)
      PROVE  SavedInv'
  <2>1. \A t \in Savers : saver'[t].stage \in {"replaced", "saved"} => saver'[t] = saver[t]
    BY <1>4, PrepareEffect, AbortEffect, CommitExistingEffect
  <2>2. UNCHANGED <<barrier, baseline, diskSeq, disk, external>>
    BY <1>4, PrepareEffect, AbortEffect, CommitExistingEffect
  <2> QED
    BY <1>1, <2>1, <2>2
<1>5. ASSUME NEW s \in Savers, NEW r \in {"ok", "rename", "dirsync"}, Replace(s, r)
      PROVE  SavedInv'
  <2>1. /\ saver[s].stage = "prepared" /\ \A t \in Savers : t # s => saver'[t] = saver[t]
        /\ UNCHANGED <<barrier, baseline, external>>
    BY <1>5, ReplaceEffect
  <2>2. CASE r = "rename"
    <3>1. UNCHANGED <<disk, diskSeq>> /\ saver'[s].stage = "aborting"
      BY <1>5, <2>2, ReplaceEffect
    <3> QED
      BY <1>1, <2>1, <3>1
  <2>3. CASE r # "rename"
    <3>1. disk' = saver[s].rev /\ diskSeq' = saver[s].seq /\ saver'[s].rev = saver[s].rev
      BY <1>5, <2>3, ReplaceEffect
    <3>2. saver[s].seq >= barrier /\ \A t \in Savers : t # s => saver[t].stage # "replaced"
      <4>1. LockInv
        BY DEF RecoveryInv
      <4>2. \A t \in Savers : t # s => saver[t].stage # "replaced"
        BY <2>1, <4>1, SectionExclusive
      <4> QED
        BY <2>1, <4>1, <4>2 DEF LockInv
    <3>3. saver'[s].stage # "saved"
      BY <1>5, GotoFacts DEF Replace, TypeOK, Stages
    <3>4. \A t \in Savers : saver'[t].stage = "saved" =>
            t # s /\ saver'[t].seq <= barrier' /\ saver'[t].seq <= diskSeq'
      BY <2>1, <3>1, <3>2, <3>3 DEF SavedInv, At
    <3>5. \A t \in Savers : saver'[t].stage = "replaced" => disk' = saver'[t].rev
      BY <2>1, <3>1, <3>2
    <3> QED
      BY <2>1, <3>4, <3>5 DEF SavedInv, At
  <2> QED
    BY <2>2, <2>3
<1>6. ASSUME NEW s \in Savers, NEW o \in AppendOutcomes, Commit(s, o) PROVE SavedInv'
  <2>1. /\ \A t \in Savers : t # s => saver'[t] = saver[t]
        /\ barrier' = saver[s].seq /\ saver[s].seq >= barrier
        /\ UNCHANGED <<baseline, diskSeq, disk, external>>
        /\ saver'[s].stage \in {"idle", "saved"}
        /\ saver'[s].stage = "saved" => saver'[s].seq = saver[s].seq
    BY <1>6, CommitEffect
  <2>2. diskSeq = saver[s].seq
    BY <1>6, CommitEffect DEF ReplacedInv, At
  <2>3. \A t \in Savers : saver'[t].stage = "saved" =>
          saver'[t].seq <= barrier' /\ saver'[t].seq <= diskSeq'
    BY <2>1, <2>2 DEF SavedInv, At
  <2>4. \A t \in Savers : saver'[t].stage = "replaced" /\ external' = 0 => disk' = saver'[t].rev
    BY <2>1 DEF SavedInv, At
  <2>5. baseline' <= barrier'
    BY <2>1 DEF SavedInv
  <2> QED
    BY <2>3, <2>4, <2>5 DEF SavedInv, At
<1>7. ASSUME NEW s \in Savers, Finish(s) PROVE SavedInv'
  <2>1. /\ saver[s].stage = "saved" /\ saver'[s].stage = "idle"
        /\ \A t \in Savers : t # s => saver'[t] = saver[t]
        /\ UNCHANGED <<disk, barrier, diskSeq, external>>
        /\ baseline' \in {baseline, saver[s].seq}
    BY <1>7, FinishEffect DEF NoteBaseline, roomVars
  <2>2. baseline' <= barrier'
    BY <2>1 DEF SavedInv, At
  <2> QED
    BY <2>1, <2>2 DEF SavedInv, At
<1>8. ASSUME NEW o \in AppendOutcomes, Restart(o) PROVE SavedInv'
  BY <1>8, <1>a, RestartEffect DEF SavedInv, At
<1>9. CASE Edit \/ UNCHANGED vars
  <2>1. UNCHANGED <<barrier, baseline, diskSeq, disk, external, saver>>
    BY <1>9 DEF Edit, vars, historyVars, coordinatorVars, roomVars
  <2> QED
    BY <1>1, <2>1
<1>10. CASE ExternalEdit
  <2>1. UNCHANGED <<barrier, baseline, diskSeq, saver>> /\ external' # 0
    BY <1>10 DEF ExternalEdit, coordinatorVars, roomVars, TypeOK
  <2> QED
    BY <2>1 DEF SavedInv, At
<1> QED
  BY <1>2, <1>3, <1>4, <1>5, <1>6, <1>7, <1>8, <1>9, <1>10, MoveSteps DEF Next, Save, Rest

\* A failed append stays noted for this daemon's life.
LEMMA FailureStays ==
  ASSUME TypeOK, NEW s \in Savers, NEW o \in AppendOutcomes,
         Prepare(s, o) \/ Abort(s, o) \/ Commit(s, o) \/ CommitExisting(s, o)
  PROVE  journalFailed => journalFailed'
<1>1. UNCHANGED journalFailed \/ journalFailed' = (journalFailed \/ o # "ok")
  <2>1. CASE Prepare(s, o) \/ Abort(s, o)
    BY <2>1 DEF Prepare, Abort, JournalAppend, journalVars
  <2>2. CASE Commit(s, o) \/ CommitExisting(s, o)
    BY <2>2 DEF Commit, CommitExisting, JournalAppend, journalVars
  <2> QED
    BY <2>1, <2>2
<1> QED
  BY <1>1, Zenon
\* Every step keeps the baseline settled, or a save under way that settles it.
LEMMA BaseStep ==
  ASSUME TypeOK, TypeOK', RecoveryInv, ReplacedInv, SavedInv, BaseInv,
         "dirsync" \notin Faults, [Next]_vars
  PROVE  BaseInv'
<1> USE NumberTypes
<1>a. /\ baseline' \in Nat /\ diskSeq' \in Nat
      /\ \A s \in Savers : saver'[s].seq \in Nat
  BY DEF TypeOK, SaverRecords
<1>1. ASSUME UNCHANGED <<known, baseline, diskSeq, disk, external>>,
             ~journalFailed' => ~journalFailed,
             \A s \in Savers :
               \/ saver'[s] = saver[s]
               \/ /\ saver[s].stage \notin {"replaced", "saved"}
                  /\ saver'[s].stage \notin {"replaced", "saved"}
      PROVE  BaseInv'
  <2>1. Settled => Settled'
    BY <1>1 DEF Settled, At
  <2>2. \A s \in Savers : Announces(s) => Announces(s)'
    BY <1>1 DEF Announces
  <2> QED
    BY <1>1, <2>1, <2>2 DEF BaseInv
<1>2. ASSUME NEW s \in Savers, MoveStep(s) PROVE BaseInv'
  BY <1>1, <1>2 DEF MoveStep
<1>3. ASSUME NEW s \in Savers, Claim(s) PROVE BaseInv'
  BY <1>1, <1>3, ClaimEffect
<1>4. ASSUME NEW s \in Savers, NEW o \in AppendOutcomes,
             Prepare(s, o) \/ Abort(s, o) \/ CommitExisting(s, o)
      PROVE  BaseInv'
  <2>1. \A t \in Savers :
          \/ saver'[t] = saver[t]
          \/ /\ saver[t].stage \notin {"replaced", "saved"}
             /\ saver'[t].stage \notin {"replaced", "saved"}
    BY <1>4, PrepareEffect, AbortEffect, CommitExistingEffect
  <2>2. UNCHANGED <<known, baseline, diskSeq, disk, external>>
    BY <1>4, PrepareEffect, AbortEffect, CommitExistingEffect
  <2> QED
    BY <1>1, <1>4, <2>1, <2>2, FailureStays
<1>5. ASSUME NEW s \in Savers, NEW r \in {"ok", "rename", "dirsync"}, Replace(s, r)
      PROVE  BaseInv'
  <2>1. CASE r = "rename"
    BY <1>1, <1>5, <2>1, ReplaceEffect
  <2>2. CASE r = "ok"
    <3>1. /\ saver'[s].stage = "replaced" /\ saver'[s].seq = saver[s].seq
          /\ saver'[s].rev = saver[s].rev /\ disk' = saver[s].rev /\ diskSeq' = saver[s].seq
          /\ UNCHANGED baseline
      BY <1>5, <2>2, ReplaceEffect
    <3>2. baseline <= saver[s].seq
      <4>1. saver[s].seq >= barrier
        BY <1>5, ReplaceEffect DEF RecoveryInv, LockInv
      <4> QED
        BY <4>1 DEF SavedInv
    <3> QED
      BY <3>1, <3>2 DEF BaseInv, Announces
  <2> QED
    BY <1>5, <2>1, <2>2, ReplaceEffect
<1>6. ASSUME NEW s \in Savers, NEW o \in AppendOutcomes, Commit(s, o) PROVE BaseInv'
  <2>1. CASE saver'[s].stage = "saved"
    <3>1. /\ saver'[s].seq = saver[s].seq /\ saver'[s].rev = saver[s].rev
          /\ saver[s].seq >= barrier /\ saver[s].stage = "replaced"
          /\ UNCHANGED <<disk, diskSeq, baseline, external>>
      BY <1>6, <2>1, CommitEffect DEF IdleSaver
    <3>2. diskSeq = saver[s].seq /\ (external = 0 => disk = saver[s].rev)
      BY <3>1 DEF ReplacedInv, SavedInv, At
    <3>3. baseline <= saver[s].seq
      BY <3>1 DEF SavedInv
    <3> QED
      BY <2>1, <3>1, <3>2, <3>3 DEF BaseInv, Announces
  <2>2. CASE saver'[s].stage # "saved"
    BY <1>6, <2>2, CommitEffect DEF BaseInv
  <2> QED
    BY <2>1, <2>2
<1>7. ASSUME NEW s \in Savers, Finish(s) PROVE BaseInv'
  <2>1. /\ saver[s].stage = "saved" /\ saver'[s].stage = "idle"
        /\ \A t \in Savers : t # s => saver'[t] = saver[t]
        /\ UNCHANGED <<disk, diskSeq, external, journalFailed>>
    BY <1>7, FinishEffect
  <2>2. /\ baseline > saver[s].seq => UNCHANGED <<known, baseline>>
        /\ baseline <= saver[s].seq => known' = saver[s].rev /\ baseline' = saver[s].seq
    BY <1>7, FinishEffect DEF NoteBaseline, roomVars
  <2>3. CASE Settled
    <3>1. saver[s].seq < baseline
      BY <2>1, <2>3 DEF Settled, At
    <3>2. UNCHANGED <<known, baseline>>
      BY <2>2, <3>1
    <3>3. Settled'
      BY <2>1, <2>3, <3>2 DEF Settled, At
    <3> QED
      BY <3>3 DEF BaseInv
  <2>4. CASE Announces(s)
    <3>1. known' = disk' /\ baseline' = diskSeq /\ saver[s].seq = diskSeq
      BY <2>1, <2>2, <2>4 DEF Announces
    <3>2. \A t \in Savers : saver'[t].stage = "saved" => saver'[t].seq < baseline'
      <4> TAKE t \in Savers
      <4> HAVE saver'[t].stage = "saved"
      <4>1. t # s /\ saver'[t] = saver[t] /\ saver[t].seq <= diskSeq
        BY <2>1 DEF SavedInv, At
      <4>2. saver[t].seq # saver[s].seq
        BY <2>1, <4>1 DEF RecoveryInv, SequenceInv, At
      <4> QED
        BY <3>1, <4>1, <4>2
    <3> QED
      BY <3>1, <3>2 DEF BaseInv, Settled, At
  <2>5. ASSUME NEW t \in Savers, t # s, Announces(t) PROVE BaseInv'
    <3>1. saver[s].seq <= diskSeq
      BY <2>1 DEF SavedInv, At
    <3>2. baseline' <= saver[t].seq
      BY <2>2, <2>5, <3>1 DEF Announces
    <3> QED
      BY <2>1, <2>5, <3>2 DEF BaseInv, Announces
  <2> QED
    BY <2>1, <2>3, <2>4, <2>5 DEF BaseInv
<1>8. ASSUME NEW o \in AppendOutcomes, Restart(o) PROVE BaseInv'
  BY <1>8, RestartEffect DEF BaseInv, Settled, At
<1>9. CASE Edit \/ UNCHANGED vars
  <2>1. UNCHANGED <<known, baseline, diskSeq, disk, external, journalFailed, saver>>
    BY <1>9 DEF Edit, vars, historyVars, journalVars, roomVars
  <2> QED
    BY <1>1, <2>1
<1>10. CASE ExternalEdit
  <2>1. external' # 0
    BY <1>10 DEF ExternalEdit, TypeOK
  <2> QED
    BY <2>1 DEF BaseInv
<1> QED
  BY <1>2, <1>3, <1>4, <1>5, <1>6, <1>7, <1>8, <1>9, <1>10, MoveSteps DEF Next, Save, Rest

\* Once no save is under way, the hash the room compares with the file is the
\* file's, so its next save does not take its own bytes for another program's:
\* for every number of saves, whose continuations run in any order after the
\* lock is given back, and also where an older checkpoint was put back.  As in
\* FileOnlyMovesOn, a rename that took place must not be reported as failed.
THEOREM BaselineFollowsFile ==
  ASSUME "dirsync" \notin Faults
  PROVE  Spec => []BaselineSettles
<1>1. Init => SavedInv /\ BaseInv
  <2> SUFFICES ASSUME Init PROVE SavedInv /\ BaseInv
    OBVIOUS
  <2>1. \A s \in Savers : saver[s].stage = "idle"
    BY DEF Init, IdleSaver
  <2>2. baseline = 0 /\ barrier = 0 /\ known = disk
    BY DEF Init
  <2> QED
    BY <2>1, <2>2 DEF SavedInv, BaseInv, Settled, At
<1>2. /\ TypeOK /\ TypeOK' /\ RecoveryInv /\ FileOrderInv /\ SavedInv /\ BaseInv
      /\ [Next]_vars
      => SavedInv' /\ BaseInv'
  BY SavedStep, BaseStep DEF FileOrderInv
<1>3. BaseInv => BaselineSettles
  BY DEF BaseInv, BaselineSettles, Settled, Announces, At
<1> QED
  BY <1>1, <1>2, <1>3, RecoveryAlways, FileOrderAlways, PTL DEF Spec

=============================================================================
