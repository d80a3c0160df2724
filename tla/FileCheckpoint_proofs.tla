------------------------ MODULE FileCheckpoint_proofs ------------------------
(***************************************************************************)
(* Proofs about FileCheckpoint, for every set of savers and every bound.   *)
(* The recovery argument rests on one assumption about the file system:    *)
(* a directory flush after a successful rename does not fail.              *)
(***************************************************************************)
EXTENDS FileCheckpoint, TLAPS

-----------------------------------------------------------------------------
(* The operators the actions are built from.                               *)

\* A saver that has not started is a saver.
LEMMA IdleSaverType == IdleSaver \in SaverRecords
BY BoundsAssumption DEF IdleSaver, SaverRecords, Stages, Targets, NoTarget, Contents, Original

\* What moving a saver to another stage changes.
LEMMA GotoFacts ==
  ASSUME saver \in [Savers -> SaverRecords], NEW s \in Savers, NEW stage \in Stages,
         Goto(s, stage)
  PROVE  /\ saver' \in [Savers -> SaverRecords]
         /\ \A t \in Savers : t # s => saver'[t] = saver[t]
         /\ saver'[s].stage = stage
         /\ saver'[s].seq = saver[s].seq
         /\ saver'[s].rev = saver[s].rev
         /\ saver'[s].current = saver[s].current
BY DEF Goto, SaverRecords

\* What moving a saver with new values changes.
LEMMA HoldFacts ==
  ASSUME saver \in [Savers -> SaverRecords], NEW s \in Savers, NEW stage \in Stages,
         NEW seq \in 0 .. MaxSaves, NEW rev \in Contents, NEW current \in Targets,
         Hold(s, stage, seq, rev, current)
  PROVE  /\ saver' \in [Savers -> SaverRecords]
         /\ \A t \in Savers : t # s => saver'[t] = saver[t]
         /\ saver'[s].stage = stage
         /\ saver'[s].seq = seq
         /\ saver'[s].rev = rev
         /\ saver'[s].current = current
BY DEF Hold, SaverRecords

\* What ending a save changes.
LEMMA ReturnFacts ==
  ASSUME saver \in [Savers -> SaverRecords], NEW s \in Savers, Return(s)
  PROVE  /\ saver' \in [Savers -> SaverRecords]
         /\ \A t \in Savers : t # s => saver'[t] = saver[t]
         /\ saver'[s] = IdleSaver
         /\ saver'[s].stage = "idle"
BY IdleSaverType DEF Return, IdleSaver

\* A save's target has the type of a checkpoint.
LEMMA TargetType ==
  ASSUME saver \in [Savers -> SaverRecords], NEW s \in Savers
  PROVE  /\ Target(s) \in Targets
         /\ Target(s).rev = saver[s].rev
         /\ Target(s).seq = saver[s].seq
BY DEF Target, Targets, SaverRecords

\* The three changes of the manifest yield manifests.
LEMMA ManifestTypes ==
  ASSUME NEW m \in Manifests, NEW target \in Targets
  PROVE  /\ WithIntent(m, target) \in Manifests
         /\ DroppingIntent(m) \in Manifests
         /\ CommittedManifest(target) \in Manifests
BY BoundsAssumption DEF WithIntent, DroppingIntent, CommittedManifest, Manifests, Targets,
   NoTarget, Contents, Original

\* An append leaves manifests in memory and on disk.
LEMMA JournalAppendType ==
  ASSUME manifest \in Manifests, journal \in Manifests, journalFailed \in BOOLEAN,
         NEW m \in Manifests, NEW o \in AppendOutcomes, JournalAppend(m, o)
  PROVE  /\ manifest' \in Manifests /\ journal' \in Manifests
         /\ journalFailed' \in BOOLEAN
BY DEF JournalAppend, AppendOutcomes

-----------------------------------------------------------------------------
(* Types.  That the barrier stays below the reserved numbers needs the     *)
(* numbers of the saves under way.                                         *)

\* The numbers a save may hold.
NumbersInv == \A s \in Savers : saver[s].seq <= reserved

\* The steps of a save before the blocking worker.
LEMMA TypeBeforeWorker ==
  ASSUME TypeOK, NumbersInv, NEW s \in Savers,
         Claim(s) \/ CheckAvailability(s) \/ CheckDisk(s) \/ Capture(s)
  PROVE  TypeOK'
<1> saver \in [Savers -> SaverRecords]
  BY DEF TypeOK
<1>1. CASE Claim(s)
  <2>1. saver' \in [Savers -> SaverRecords]
    <3>1. reserved + 1 \in 0 .. MaxSaves /\ Original \in Contents /\ NoTarget \in Targets
      BY <1>1, BoundsAssumption DEF Claim, TypeOK, Original, Contents, NoTarget, Targets
    <3> QED
      BY <1>1, <3>1, HoldFacts DEF Claim, Stages
  <2> QED
    BY <1>1, <2>1, BoundsAssumption DEF Claim, TypeOK, coordinatorVars, journalVars, roomVars, historyVars
<1>2. CASE CheckAvailability(s) \/ CheckDisk(s)
  <2>1. saver' \in [Savers -> SaverRecords]
    BY <1>2, GotoFacts, ReturnFacts DEF CheckAvailability, CheckDisk, Stages
  <2> QED
    BY <1>2, <2>1 DEF CheckAvailability, CheckDisk, TypeOK, coordinatorVars, journalVars, roomVars, historyVars
<1>3. CASE Capture(s)
  <2>1. saver' \in [Savers -> SaverRecords]
    <3>1. /\ saver[s].seq \in 0 .. MaxSaves /\ doc \in Contents
          /\ NoTarget \in Targets
      BY BoundsAssumption DEF TypeOK, SaverRecords, Original, Contents, NoTarget, Targets
    <3> QED
      BY <1>3, <3>1, HoldFacts DEF Capture, Stages
  <2> QED
    BY <1>3, <2>1 DEF Capture, TypeOK, coordinatorVars, journalVars, roomVars, historyVars
<1> QED
  BY <1>1, <1>2, <1>3

\* The steps of the worker up to the replace section.
LEMMA TypeUpToLock ==
  ASSUME TypeOK, NumbersInv, NEW s \in Savers,
         Bind(s) \/ AlreadyCurrent(s) \/ (\E ok \in BOOLEAN : WriteTemp(s, ok)) \/ TakeLock(s)
  PROVE  TypeOK'
<1> saver \in [Savers -> SaverRecords]
  BY DEF TypeOK
<1>1. CASE Bind(s)
  <2>1. saver' \in [Savers -> SaverRecords]
    <3>1. saver[s].seq \in 0 .. MaxSaves /\ saver[s].rev \in Contents /\ checkpoint \in Targets
      BY DEF TypeOK, SaverRecords
    <3> QED
      BY <1>1, <3>1, HoldFacts, GotoFacts DEF Bind, Stages
  <2> QED
    BY <1>1, <2>1 DEF Bind, TypeOK, coordinatorVars, journalVars, roomVars, historyVars
<1>2. CASE AlreadyCurrent(s)
  <2>1. saver' \in [Savers -> SaverRecords]
    BY <1>2, GotoFacts, ReturnFacts DEF AlreadyCurrent, Stages
  <2>2. barrier' \in 0 .. reserved
    BY <1>2 DEF AlreadyCurrent, TypeOK, NumbersInv, SaverRecords
  <2> QED
    BY <1>2, <2>1, <2>2 DEF AlreadyCurrent, TypeOK, journalVars, roomVars, historyVars
<1>3. CASE \E ok \in BOOLEAN : WriteTemp(s, ok)
  <2>1. saver' \in [Savers -> SaverRecords]
    BY <1>3, GotoFacts, ReturnFacts DEF WriteTemp, Stages
  <2> QED
    BY <1>3, <2>1 DEF WriteTemp, TypeOK, coordinatorVars, journalVars, roomVars, historyVars
<1>4. CASE TakeLock(s)
  <2>1. saver' \in [Savers -> SaverRecords]
    BY <1>4, GotoFacts, ReturnFacts DEF TakeLock, Enter, Stages
  <2> QED
    BY <1>4, <2>1 DEF TakeLock, Enter, TypeOK, coordinatorVars, journalVars, roomVars, historyVars
<1> QED
  BY <1>1, <1>2, <1>3, <1>4

\* The replace section and the abort.
LEMMA TypeReplaceSection ==
  ASSUME TypeOK, NumbersInv, NEW s \in Savers,
         \/ \E o \in AppendOutcomes : Prepare(s, o) \/ Abort(s, o) \/ Commit(s, o)
         \/ \E r \in {"ok", "rename", "dirsync"} : Replace(s, r)
  PROVE  TypeOK'
<1> saver \in [Savers -> SaverRecords]
  BY DEF TypeOK
<1>1. ASSUME NEW o \in AppendOutcomes, Prepare(s, o) PROVE TypeOK'
  <2>1. saver' \in [Savers -> SaverRecords]
    BY <1>1, GotoFacts, ReturnFacts DEF Prepare, Stages
  <2>2. manifest' \in Manifests /\ journal' \in Manifests /\ journalFailed' \in BOOLEAN
    BY <1>1, JournalAppendType, ManifestTypes, TargetType DEF Prepare, TypeOK, journalVars
  <2> QED
    BY <1>1, <2>1, <2>2 DEF Prepare, Degrade, TypeOK, coordinatorVars, roomVars, historyVars
<1>2. ASSUME NEW o \in AppendOutcomes, Abort(s, o) PROVE TypeOK'
  <2>1. saver' \in [Savers -> SaverRecords]
    BY <1>2, ReturnFacts DEF Abort
  <2>2. manifest' \in Manifests /\ journal' \in Manifests /\ journalFailed' \in BOOLEAN
    BY <1>2, JournalAppendType, ManifestTypes, TargetType DEF Abort, TypeOK, journalVars
  <2> QED
    BY <1>2, <2>1, <2>2 DEF Abort, Degrade, TypeOK, coordinatorVars, roomVars, historyVars
<1>3. ASSUME NEW o \in AppendOutcomes, Commit(s, o) PROVE TypeOK'
  <2>1. saver' \in [Savers -> SaverRecords]
    BY <1>3, GotoFacts, ReturnFacts DEF Commit, Stages
  <2>2. manifest' \in Manifests /\ journal' \in Manifests /\ journalFailed' \in BOOLEAN
    BY <1>3, JournalAppendType, ManifestTypes, TargetType DEF Commit, TypeOK, journalVars
  <2>3. barrier' \in 0 .. reserved
    BY <1>3 DEF Commit, TypeOK, NumbersInv, SaverRecords
  <2> QED
    BY <1>3, <2>1, <2>2, <2>3, TargetType DEF Commit, Degrade, TypeOK, roomVars, historyVars
<1>4. ASSUME NEW r \in {"ok", "rename", "dirsync"}, Replace(s, r) PROVE TypeOK'
  <2>1. saver' \in [Savers -> SaverRecords]
    BY <1>4, GotoFacts DEF Replace, Stages
  <2>2. disk' \in Contents /\ diskSeq' \in 0 .. MaxSaves
    BY <1>4 DEF Replace, TypeOK, SaverRecords
  <2> QED
    BY <1>4, <2>1, <2>2 DEF Replace, TypeOK, coordinatorVars, journalVars, roomVars
<1> QED
  BY <1>1, <1>2, <1>3, <1>4

\* What follows the worker.
LEMMA TypeAfterWorker ==
  ASSUME TypeOK, NEW s \in Savers,
         (\E o \in AppendOutcomes : CommitExisting(s, o)) \/ Finish(s)
  PROVE  TypeOK'
<1> saver \in [Savers -> SaverRecords]
  BY DEF TypeOK
<1>1. ASSUME NEW o \in AppendOutcomes, CommitExisting(s, o) PROVE TypeOK'
  <2>0. saver[s].current \in Targets
    BY DEF SaverRecords
  <2>1. saver' \in [Savers -> SaverRecords]
    BY <1>1, ReturnFacts DEF CommitExisting
  <2>2. manifest' \in Manifests /\ journal' \in Manifests /\ journalFailed' \in BOOLEAN
    BY <1>1, <2>0, JournalAppendType, ManifestTypes DEF CommitExisting, TypeOK, journalVars
  <2>3. acked' \in 0 .. MaxSaves /\ regressed' \in BOOLEAN
    BY <1>1, <2>0 DEF CommitExisting, TypeOK, Targets
  <2> QED
    BY <1>1, <2>1, <2>2, <2>3 DEF CommitExisting, Degrade, TypeOK, coordinatorVars, roomVars
<1>2. CASE Finish(s)
  <2>1. saver' \in [Savers -> SaverRecords]
    BY <1>2, ReturnFacts DEF Finish
  <2>2. acked' \in 0 .. MaxSaves /\ known' \in Contents /\ baseline' \in 0 .. MaxSaves
    BY <1>2 DEF Finish, NoteBaseline, roomVars, TypeOK, SaverRecords
  <2> QED
    BY <1>2, <2>1, <2>2 DEF Finish, TypeOK, coordinatorVars, journalVars
<1> QED
  BY <1>1, <1>2

\* The room around the saves.
LEMMA TypeRoom ==
  ASSUME TypeOK,
         Edit \/ ExternalEdit \/ (\E o \in AppendOutcomes : Restart(o)) \/ Rest
  PROVE  TypeOK'
<1>1. CASE Edit
  BY <1>1, BoundsAssumption DEF Edit, TypeOK, coordinatorVars, roomVars, historyVars
<1>2. CASE ExternalEdit
  BY <1>2, BoundsAssumption DEF ExternalEdit, External, Contents, TypeOK, coordinatorVars, journalVars, roomVars
<1>3. ASSUME NEW o \in AppendOutcomes, Restart(o) PROVE TypeOK'
  <2>1. saver' \in [Savers -> SaverRecords]
    BY <1>3, IdleSaverType DEF Restart
  <2>2. journal.pending \in Targets /\ Resolved(journal) \in Manifests
    BY ManifestTypes DEF TypeOK, Resolved, Manifests
  <2>3. manifest' \in Manifests /\ journal' \in Manifests
    BY <1>3, <2>2 DEF Restart, TypeOK
  <2>4. manifest'.seq \in 0 .. MaxSaves /\ manifest'.source \in Contents
    BY <2>3 DEF Manifests
  <2>5. checkpoint' \in Targets
    BY <1>3, <2>4, BoundsAssumption DEF Restart, Targets, Original, Contents
  <2>6. degraded' \in {"no", "degraded", "conflict"} /\ journalFailed' \in BOOLEAN
    BY <1>3 DEF Restart
  <2>7. reserved' \in 0 .. MaxSaves /\ barrier' \in 0 .. reserved'
    BY <1>3, <2>4 DEF Restart, RestoredSequence
  <2> QED
    BY <1>3, <2>1, <2>3, <2>4, <2>5, <2>6, <2>7, BoundsAssumption DEF Restart, TypeOK
<1>4. CASE Rest
  BY <1>4 DEF Rest, vars, TypeOK, coordinatorVars, journalVars, roomVars, historyVars
<1> QED
  BY <1>1, <1>2, <1>3, <1>4

\* Numbers only grow with reserved, and a restart has no save under way.
LEMMA NumbersStep ==
  ASSUME TypeOK, NumbersInv, Next
  PROVE  NumbersInv'
<1> USE DEF NumbersInv
<1> saver \in [Savers -> SaverRecords] /\ reserved \in 0 .. MaxSaves /\ MaxSaves \in Nat
  BY BoundsAssumption DEF TypeOK
<1>a. \A s \in Savers : saver[s].seq \in 0 .. MaxSaves
  BY DEF SaverRecords
<1>b. IdleSaver.seq = 0
  BY DEF IdleSaver
<1>1. ASSUME NEW s \in Savers, Claim(s) PROVE NumbersInv'
  <2>1. reserved + 1 \in 0 .. MaxSaves /\ Original \in Contents /\ NoTarget \in Targets
    BY <1>1, BoundsAssumption DEF Claim, TypeOK, Original, Contents, NoTarget, Targets
  <2>2. /\ \A t \in Savers : t # s => saver'[t] = saver[t]
        /\ saver'[s].seq = reserved + 1
    BY <1>1, <2>1, HoldFacts DEF Claim, Stages
  <2> QED
    BY <1>1, <1>a, <2>2 DEF Claim
<1>2. ASSUME NEW s \in Savers, Save(s), ~Claim(s) PROVE NumbersInv'
  <2>1. reserved' = reserved
    BY <1>2 DEF Save, Claim, CheckAvailability, CheckDisk, Capture, Bind, AlreadyCurrent, WriteTemp,
       TakeLock, Prepare, Replace, Abort, Commit, CommitExisting, Finish, coordinatorVars
  <2>2. /\ \A t \in Savers : t # s => saver'[t] = saver[t]
        /\ saver'[s].seq \in {0, saver[s].seq}
    <3>1. \/ \E stage \in Stages : Goto(s, stage)
          \/ Return(s) \/ Capture(s) \/ Bind(s)
      BY <1>2 DEF Save, CheckAvailability, CheckDisk, AlreadyCurrent, WriteTemp,
         TakeLock, Enter, Prepare, Replace, Abort, Commit, CommitExisting, Finish, Stages
    <3>2. CASE \E stage \in Stages : Goto(s, stage)
      BY <3>2, GotoFacts
    <3>3. CASE Return(s)
      BY <3>3, <1>b, ReturnFacts
    <3>4. CASE Capture(s)
      <4>1. doc \in Contents /\ NoTarget \in Targets
        BY BoundsAssumption DEF TypeOK, Original, Contents, NoTarget, Targets
      <4> QED
        BY <3>4, <4>1, <1>a, HoldFacts DEF Capture, Stages
    <3>5. CASE Bind(s)
      <4>1. saver[s].rev \in Contents /\ checkpoint \in Targets
        BY DEF TypeOK, SaverRecords
      <4> QED
        BY <3>5, <4>1, <1>a, HoldFacts, GotoFacts DEF Bind, Stages
    <3> QED
      BY <3>1, <3>2, <3>3, <3>4, <3>5
  <2> QED
    BY <1>a, <2>1, <2>2
<1>3. ASSUME NEW o \in AppendOutcomes, Restart(o) PROVE NumbersInv'
  <2>1. \A s \in Savers : saver'[s].seq = 0
    BY <1>3, <1>b DEF Restart
  <2>2. reserved' \in 0 .. MaxSaves
    BY <1>3, TypeRoom DEF TypeOK
  <2> QED
    BY <2>1, <2>2
<1>4. CASE Edit \/ ExternalEdit \/ Rest
  BY <1>4 DEF Edit, ExternalEdit, Rest, vars, coordinatorVars
<1> QED
  BY <1>1, <1>2, <1>3, <1>4 DEF Next, Save

\* Every step keeps the types and the numbers.
LEMMA TypeStep ==
  ASSUME TypeOK, NumbersInv, [Next]_vars
  PROVE  TypeOK' /\ NumbersInv'
<1>1. CASE Next
  <2>1. TypeOK'
    BY <1>1, TypeBeforeWorker, TypeUpToLock, TypeReplaceSection, TypeAfterWorker, TypeRoom
       DEF Next, Save
  <2> QED
    BY <1>1, <2>1, NumbersStep
<1>2. CASE UNCHANGED vars
  BY <1>2 DEF vars, TypeOK, NumbersInv, coordinatorVars, journalVars, roomVars, historyVars
<1> QED
  BY <1>1, <1>2

\* The initial state has its types.
LEMMA TypeInit ==
  ASSUME Init
  PROVE  TypeOK /\ NumbersInv
<1>1. \A s \in Savers : saver[s] = IdleSaver
  BY DEF Init
<1>2. saver \in [Savers -> SaverRecords]
  BY IdleSaverType DEF Init
<1>3. checkpoint \in Targets /\ manifest \in Manifests /\ journal \in Manifests
  BY BoundsAssumption DEF Init, Targets, Manifests, NoTarget, Contents, Original
<1>4. TypeOK
  <2>1. /\ doc = 1 /\ disk = 0 /\ known = 0 /\ reserved = 0 /\ barrier = 0 /\ baseline = 0
        /\ diskSeq = 0 /\ acked = 0 /\ external = 0 /\ crashes = 0
    BY DEF Init, Original
  <2>2. /\ lock = NoSaver /\ degraded = "no"
        /\ journalFailed \in BOOLEAN /\ regressed \in BOOLEAN
    BY DEF Init
  <2> QED
    BY <1>2, <1>3, <2>1, <2>2, BoundsAssumption DEF TypeOK, Contents
<1>5. NumbersInv
  <2>1. IdleSaver.seq <= reserved
    BY DEF Init, IdleSaver
  <2> QED
    BY <1>1, <2>1 DEF NumbersInv
<1> QED
  BY <1>4, <1>5

\* Every variable keeps its type: in particular no save is numbered beyond the
\* reserved numbers and the barrier never passes them.
THEOREM TypeCorrect == Spec => []TypeOK
<1>1. Init => TypeOK /\ NumbersInv
  BY TypeInit
<1>2. TypeOK /\ NumbersInv /\ [Next]_vars => (TypeOK /\ NumbersInv)'
  BY TypeStep
<1> QED
  BY <1>1, <1>2, PTL DEF Spec

-----------------------------------------------------------------------------
(* The invariant behind recovery.                                          *)

\* Nothing but this room's saves, in order, touched file and journal, and a save
\* that replaced the file was told so.
Clean == external = 0 /\ ~regressed /\ "dirsync" \notin Faults

\* The replace section is exclusive, and no newer save passed its owner.
LockInv ==
  \A s \in Savers : saver[s].stage \in {"locked", "prepared", "replaced"} =>
    lock = s /\ saver[s].seq >= barrier

\* Saves under way have sequence numbers of their own, and until a save
\* commits, its number is not the checkpoint's.
SequenceInv ==
  /\ checkpoint.seq <= barrier
  /\ \A s \in Savers : ~At(s, "idle") => saver[s].seq \in 1 .. reserved
  /\ \A s, t \in Savers :
       s # t /\ ~At(s, "idle") /\ ~At(t, "idle") => saver[s].seq # saver[t].seq
  /\ \A s \in Savers :
       saver[s].stage \notin {"idle", "saved"} => saver[s].seq # checkpoint.seq

\* A save found current holds a checkpoint that was the last one once.
CurrentInv ==
  \A s \in Savers : saver[s].stage \in {"bound", "current"} =>
    /\ saver[s].current.seq # 0
    /\ saver[s].current.seq <= checkpoint.seq
    /\ saver[s].current.seq = checkpoint.seq => saver[s].current = checkpoint

\* A record without an intent has none, one with an intent is older than it.
RecordInv(m) ==
  /\ m.pending.seq = 0 => m.pending = NoTarget
  /\ ~regressed /\ m.pending.seq # 0 => m.pending.seq > m.seq

\* The coordinator's checkpoint is the manifest's.
AgreeInv ==
  ~regressed => /\ checkpoint.seq = manifest.seq
                /\ checkpoint.seq # 0 => checkpoint.rev = manifest.source

\* From its intent to its commit a save has its intent in memory and on disk.
IntentInv ==
  \A s \in Savers : saver[s].stage \in {"prepared", "replaced"} =>
    manifest.pending = Target(s) /\ journal.pending = Target(s)

\* Where the content of the file comes from, seen from each stage.
FileInv ==
  Clean => /\ Explains(journal, disk) /\ Explains(manifest, disk)
           /\ \A s \in Savers :
                /\ At(s, "prepared") => disk = manifest.source
                /\ At(s, "replaced") => disk = saver[s].rev
                /\ At(s, "aborting") /\ manifest.pending.seq = saver[s].seq
                     => disk = manifest.source

RecoveryInv ==
  /\ LockInv /\ SequenceInv /\ CurrentInv
  /\ RecordInv(manifest) /\ RecordInv(journal)
  /\ AgreeInv /\ IntentInv /\ FileInv

-----------------------------------------------------------------------------
(* Steps that leave file, journal and coordinator alone.                   *)

\* A save ends, or moves between stages that the invariant does not speak of.
QuietStep(s) ==
  /\ \A t \in Savers : t # s => saver'[t] = saver[t]
  /\ \/ saver'[s].stage = "idle"
     \/ /\ saver[s].stage \notin {"idle", "saved"} /\ saver'[s].seq = saver[s].seq
        /\ saver'[s].stage \in {"available", "fresh", "captured", "writing", "written"}
  /\ lock' = lock \/ lock = s
  /\ UNCHANGED <<disk, reserved, barrier, checkpoint, manifest, journal, external, regressed>>

\* Such a step keeps the invariant.
LEMMA QuietKeeps ==
  ASSUME TypeOK, RecoveryInv, NEW s \in Savers, QuietStep(s)
  PROVE  RecoveryInv'
<1> USE DEF RecoveryInv, QuietStep
<1>1. LockInv'
  BY DEF LockInv
<1>2. SequenceInv'
  BY DEF SequenceInv, At
<1>3. CurrentInv'
  BY DEF CurrentInv
<1>4. RecordInv(manifest)' /\ RecordInv(journal)'
  BY DEF RecordInv, Clean
<1>5. AgreeInv'
  BY DEF AgreeInv, Clean
<1>6. IntentInv'
  BY DEF IntentInv, Clean, Target
<1>7. FileInv'
  BY DEF FileInv, Clean, Explains, At
<1> QED
  BY <1>1, <1>2, <1>3, <1>4, <1>5, <1>6, <1>7

\* The steps before the worker that do not claim a number.
LEMMA QuietBeforeWorker ==
  ASSUME TypeOK, NEW s \in Savers, CheckAvailability(s) \/ CheckDisk(s) \/ Capture(s)
  PROVE  QuietStep(s)
<1> saver \in [Savers -> SaverRecords]
  BY DEF TypeOK
<1>1. CASE CheckAvailability(s) \/ CheckDisk(s)
  BY <1>1, GotoFacts, ReturnFacts
     DEF CheckAvailability, CheckDisk, At, QuietStep, Stages, coordinatorVars, journalVars, historyVars
<1>2. CASE Capture(s)
  <2>1. /\ saver[s].seq \in 0 .. MaxSaves /\ doc \in Contents
        /\ NoTarget \in Targets
    BY BoundsAssumption DEF TypeOK, SaverRecords, Original, Contents, NoTarget, Targets
  <2>2. /\ \A t \in Savers : t # s => saver'[t] = saver[t]
        /\ saver'[s].stage = "captured" /\ saver'[s].seq = saver[s].seq
    BY <1>2, <2>1, HoldFacts DEF Capture, Stages
  <2> QED
    BY <1>2, <2>2 DEF Capture, At, QuietStep, coordinatorVars, journalVars, historyVars
<1> QED
  BY <1>1, <1>2

-----------------------------------------------------------------------------
(* Steps that read or move the coordinator.                                *)

\* A new save gets a number that no save under way and no checkpoint has.
LEMMA ClaimKeeps ==
  ASSUME TypeOK, RecoveryInv, NEW s \in Savers, Claim(s)
  PROVE  RecoveryInv'
<1> USE DEF RecoveryInv
<1> saver \in [Savers -> SaverRecords] /\ reserved \in Nat /\ barrier \in 0 .. reserved
  BY BoundsAssumption DEF TypeOK
<1>a. reserved + 1 \in 0 .. MaxSaves /\ Original \in Contents /\ NoTarget \in Targets
  BY BoundsAssumption DEF Claim, TypeOK, Original, Contents, NoTarget, Targets
<1>b. /\ \A t \in Savers : t # s => saver'[t] = saver[t]
      /\ saver'[s].stage = "claimed" /\ saver'[s].seq = reserved + 1
  BY <1>a, HoldFacts DEF Claim, Stages
<1>c. UNCHANGED <<disk, barrier, checkpoint, lock, manifest, journal, external, regressed>>
  BY DEF Claim, journalVars, historyVars
<1>1. LockInv'
  BY <1>b, <1>c DEF LockInv
<1>2. SequenceInv'
  <2>1. reserved' = reserved + 1
    BY DEF Claim
  <2>2. checkpoint.seq \in Nat /\ \A t \in Savers : saver[t].seq \in Nat
    BY DEF TypeOK, Targets, SaverRecords
  <2> QED
    BY <1>b, <1>c, <2>1, <2>2 DEF SequenceInv, At
<1>3. CurrentInv'
  BY <1>b, <1>c DEF CurrentInv
<1>4. RecordInv(manifest)' /\ RecordInv(journal)' /\ AgreeInv'
  BY <1>c DEF RecordInv, AgreeInv, Clean
<1>5. IntentInv'
  BY <1>b, <1>c DEF IntentInv, Clean, Target
<1>6. FileInv'
  BY <1>b, <1>c DEF FileInv, Clean, Explains, At
<1> QED
  BY <1>1, <1>2, <1>3, <1>4, <1>5, <1>6

\* A save whose revision is the checkpoint's remembers that checkpoint.
LEMMA BindKeeps ==
  ASSUME TypeOK, RecoveryInv, NEW s \in Savers, Bind(s)
  PROVE  RecoveryInv'
<1> USE DEF RecoveryInv
<1> saver \in [Savers -> SaverRecords]
  BY DEF TypeOK
<1>a. saver[s].seq \in 0 .. MaxSaves /\ saver[s].rev \in Contents /\ checkpoint \in Targets
  BY DEF TypeOK, SaverRecords
<1>b. UNCHANGED <<disk, reserved, barrier, checkpoint, lock, manifest, journal, external, regressed>>
  BY DEF Bind, coordinatorVars, journalVars, historyVars
<1>c. saver[s].stage = "captured"
  BY DEF Bind, At
<1>1. CASE Goto(s, "writing")
  BY <1>1, <1>b, <1>c, GotoFacts, QuietKeeps DEF QuietStep, Stages
<1>2. CASE checkpoint.seq # 0 /\ Hold(s, "bound", saver[s].seq, saver[s].rev, checkpoint)
  <2>1. /\ \A t \in Savers : t # s => saver'[t] = saver[t]
        /\ saver'[s].stage = "bound" /\ saver'[s].seq = saver[s].seq
        /\ saver'[s].current = checkpoint
    BY <1>2, <1>a, HoldFacts DEF Stages
  <2>2. LockInv'
    BY <1>b, <2>1 DEF LockInv
  <2>3. SequenceInv'
    BY <1>b, <1>c, <2>1 DEF SequenceInv, At
  <2>4. CurrentInv'
    BY <1>2, <1>a, <1>b, <2>1 DEF CurrentInv, Targets
  <2>5. RecordInv(manifest)' /\ RecordInv(journal)' /\ AgreeInv'
    BY <1>b DEF RecordInv, AgreeInv, Clean
  <2>6. IntentInv'
    BY <1>b, <2>1 DEF IntentInv, Clean, Target
  <2>7. FileInv'
    BY <1>b, <2>1 DEF FileInv, Clean, Explains, At
  <2> QED
    BY <2>2, <2>3, <2>4, <2>5, <2>6, <2>7
<1> QED
  BY <1>1, <1>2 DEF Bind

\* An already current save moves the barrier, never back, while nobody is in
\* the replace section.
LEMMA AlreadyCurrentKeeps ==
  ASSUME TypeOK, RecoveryInv, NEW s \in Savers, AlreadyCurrent(s)
  PROVE  RecoveryInv'
<1> USE DEF RecoveryInv
<1> saver \in [Savers -> SaverRecords]
  BY DEF TypeOK
<1>a. saver[s].stage = "bound" /\ lock = NoSaver
  BY DEF AlreadyCurrent, At
<1>b. UNCHANGED <<disk, reserved, checkpoint, lock, manifest, journal, external, regressed>>
  BY DEF AlreadyCurrent, journalVars, historyVars
<1>1. CASE (Return(s) \/ Goto(s, "writing")) /\ UNCHANGED barrier
  BY <1>1, <1>a, <1>b, GotoFacts, ReturnFacts, QuietKeeps DEF QuietStep, Stages
<1>2. CASE ~Superseded(s) /\ Goto(s, "current") /\ barrier' = saver[s].seq
  <2>1. /\ \A t \in Savers : t # s => saver'[t] = saver[t]
        /\ saver'[s].stage = "current" /\ saver'[s].seq = saver[s].seq
        /\ saver'[s].current = saver[s].current
    BY <1>2, GotoFacts DEF Stages
  <2>2. LockInv'
    BY <1>a, <1>b, <2>1, NoSaverAssumption DEF LockInv
  <2>3. SequenceInv'
    <3>1. barrier <= barrier' /\ barrier \in Nat /\ barrier' \in Nat /\ checkpoint.seq \in Nat
      BY <1>2 DEF Superseded, TypeOK, SaverRecords, Targets
    <3> QED
      BY <1>a, <1>b, <2>1, <3>1 DEF SequenceInv, At
  <2>4. CurrentInv'
    BY <1>a, <1>b, <2>1 DEF CurrentInv
  <2>5. RecordInv(manifest)' /\ RecordInv(journal)' /\ AgreeInv'
    BY <1>b DEF RecordInv, AgreeInv, Clean
  <2>6. IntentInv'
    BY <1>b, <2>1 DEF IntentInv, Clean, Target
  <2>7. FileInv'
    BY <1>b, <2>1 DEF FileInv, Clean, Explains, At
  <2> QED
    BY <2>2, <2>3, <2>4, <2>5, <2>6, <2>7
<1> QED
  BY <1>1, <1>2 DEF AlreadyCurrent

\* A save that no newer one passed enters the empty replace section.
LEMMA TakeLockKeeps ==
  ASSUME TypeOK, RecoveryInv, NEW s \in Savers, TakeLock(s)
  PROVE  RecoveryInv'
<1> USE DEF RecoveryInv
<1> saver \in [Savers -> SaverRecords]
  BY DEF TypeOK
<1>a. saver[s].stage = "written" /\ lock = NoSaver
  BY DEF TakeLock, At
<1>b. UNCHANGED <<disk, reserved, barrier, checkpoint, manifest, journal, external, regressed>>
  BY DEF TakeLock, coordinatorVars, journalVars, historyVars
<1>1. CASE Return(s) /\ UNCHANGED lock
  BY <1>1, <1>b, ReturnFacts, QuietKeeps DEF QuietStep
<1>2. CASE ~Superseded(s) /\ Goto(s, "locked") /\ lock' = s
  <2>1. /\ \A t \in Savers : t # s => saver'[t] = saver[t]
        /\ saver'[s].stage = "locked" /\ saver'[s].seq = saver[s].seq
    BY <1>2, GotoFacts DEF Stages
  <2>2. LockInv'
    <3>1. saver[s].seq >= barrier
      BY <1>2 DEF Superseded, TypeOK, SaverRecords
    <3> QED
      BY <1>2, <1>a, <1>b, <2>1, <3>1, NoSaverAssumption DEF LockInv
  <2>3. SequenceInv'
    BY <1>a, <1>b, <2>1 DEF SequenceInv, At
  <2>4. CurrentInv'
    BY <1>b, <2>1 DEF CurrentInv
  <2>5. RecordInv(manifest)' /\ RecordInv(journal)' /\ AgreeInv'
    BY <1>b DEF RecordInv, AgreeInv, Clean
  <2>6. IntentInv'
    BY <1>b, <2>1 DEF IntentInv, Clean, Target
  <2>7. FileInv'
    BY <1>b, <2>1 DEF FileInv, Clean, Explains, At
  <2> QED
    BY <2>2, <2>3, <2>4, <2>5, <2>6, <2>7
<1> QED
  BY <1>1, <1>2 DEF TakeLock, Enter

-----------------------------------------------------------------------------
(* The replace section.                                                    *)

\* The fields of a changed manifest.
LEMMA ManifestFields ==
  ASSUME NEW m \in Manifests, NEW target \in Targets
  PROVE  /\ WithIntent(m, target).pending = target
         /\ WithIntent(m, target).source = m.source /\ WithIntent(m, target).seq = m.seq
         /\ DroppingIntent(m).pending = NoTarget
         /\ DroppingIntent(m).source = m.source /\ DroppingIntent(m).seq = m.seq
         /\ CommittedManifest(target).pending = NoTarget
         /\ CommittedManifest(target).source = target.rev
         /\ CommittedManifest(target).seq = target.seq
         /\ NoTarget.seq = 0
BY DEF WithIntent, DroppingIntent, CommittedManifest, Manifests, NoTarget

\* Only one save is between its lock and its commit.
LEMMA SectionExclusive ==
  ASSUME LockInv, NEW s \in Savers, NEW t \in Savers, s # t,
         saver[s].stage \in {"locked", "prepared", "replaced"}
  PROVE  saver[t].stage \notin {"locked", "prepared", "replaced"}
BY DEF LockInv

\* The intent is recorded while the file still is what the manifest says.
LEMMA PrepareKeeps ==
  ASSUME TypeOK, RecoveryInv, NEW s \in Savers, NEW o \in AppendOutcomes, Prepare(s, o)
  PROVE  RecoveryInv'
<1> USE DEF RecoveryInv
<1> DEFINE m == WithIntent(manifest, Target(s))
<1> saver \in [Savers -> SaverRecords] /\ manifest \in Manifests
  BY DEF TypeOK
<1>a. saver[s].stage = "locked" /\ lock = s /\ saver[s].seq >= barrier
  BY DEF Prepare, At, LockInv
<1>b. UNCHANGED <<disk, reserved, barrier, checkpoint, external, regressed>>
  BY DEF Prepare, coordinatorVars, historyVars
<1>c. m.pending = Target(s) /\ m.source = manifest.source /\ m.seq = manifest.seq
  BY TargetType, ManifestFields
<1>d. Target(s).rev = saver[s].rev /\ Target(s).seq = saver[s].seq
  BY TargetType
<1>e. saver[s].seq \in 1 .. reserved /\ saver[s].seq # checkpoint.seq /\ checkpoint.seq <= barrier
  BY <1>a DEF SequenceInv, At
<1>f. \A t \in Savers : t # s => saver[t].stage \notin {"locked", "prepared", "replaced"}
  BY <1>a, SectionExclusive
<1>n. reserved \in Nat /\ barrier \in Nat /\ checkpoint.seq \in Nat /\ manifest.seq \in Nat
      /\ saver[s].seq \in Nat
  BY DEF TypeOK, Targets, Manifests, SaverRecords
<1>1. CASE Return(s) /\ UNCHANGED <<manifest, journal>>
  BY <1>1, <1>a, <1>b, ReturnFacts, QuietKeeps DEF QuietStep
<1>g. RecordInv(m)
  <2>1. ~regressed => saver[s].seq > manifest.seq
    BY <1>a, <1>e, <1>n DEF AgreeInv
  <2> QED
    BY <1>c, <1>d, <1>e, <1>n, <2>1 DEF RecordInv
<1>2. CASE Goto(s, "prepared") /\ lock' = lock /\ manifest.pending.seq = 0 /\ manifest' = m /\ journal' = m
  <2>1. /\ \A t \in Savers : t # s => saver'[t] = saver[t]
        /\ saver'[s].stage = "prepared" /\ saver'[s].seq = saver[s].seq
        /\ saver'[s].rev = saver[s].rev
    BY <1>2, GotoFacts DEF Stages
  <2>2. LockInv'
    BY <1>2, <1>a, <1>b, <2>1 DEF LockInv
  <2>3. SequenceInv'
    BY <1>a, <1>b, <2>1 DEF SequenceInv, At
  <2>4. CurrentInv'
    BY <1>b, <2>1 DEF CurrentInv
  <2>5. RecordInv(manifest)' /\ RecordInv(journal)'
    BY <1>2, <1>b, <1>g DEF RecordInv, Clean
  <2>6. AgreeInv'
    BY <1>2, <1>b, <1>c DEF AgreeInv, Clean
  <2>7. IntentInv'
    <3>1. Target(s)' = Target(s)
      BY <2>1 DEF Target
    <3> QED
      BY <1>2, <1>c, <1>f, <2>1, <3>1 DEF IntentInv
  <2>8. FileInv'
    <3>1. Clean => disk = manifest.source
      BY <1>2 DEF FileInv, Explains
    <3>2. \A t \in Savers : t # s /\ saver[t].stage = "aborting" => saver[t].seq # saver[s].seq
      BY <1>a DEF SequenceInv, At
    <3> QED
      BY <1>2, <1>b, <1>c, <1>d, <1>f, <2>1, <3>1, <3>2 DEF FileInv, Clean, Explains, At
  <2> QED
    BY <2>2, <2>3, <2>4, <2>5, <2>6, <2>7, <2>8
<1>3. CASE Return(s) /\ lock' = NoSaver /\ manifest.pending.seq = 0 /\ manifest' = manifest /\ journal' = m
  <2>1. /\ \A t \in Savers : t # s => saver'[t] = saver[t]
        /\ saver'[s].stage = "idle"
    BY <1>3, ReturnFacts
  <2>2. LockInv'
    BY <1>a, <1>b, <1>f, <2>1 DEF LockInv
  <2>3. SequenceInv'
    BY <1>b, <2>1 DEF SequenceInv, At
  <2>4. CurrentInv'
    BY <1>b, <2>1 DEF CurrentInv
  <2>5. RecordInv(manifest)' /\ RecordInv(journal)'
    BY <1>3, <1>b, <1>g DEF RecordInv, Clean
  <2>6. AgreeInv'
    BY <1>3, <1>b DEF AgreeInv, Clean
  <2>7. IntentInv'
    BY <1>f, <2>1 DEF IntentInv
  <2>8. FileInv'
    BY <1>3, <1>b, <1>c, <1>f, <2>1 DEF FileInv, Clean, Explains, At
  <2> QED
    BY <2>2, <2>3, <2>4, <2>5, <2>6, <2>7, <2>8
<1> QED
  BY <1>1, <1>2, <1>3 DEF Prepare, JournalAppend, journalVars, AppendOutcomes

\* The file is replaced by what the recorded intent names, or not at all.
LEMMA ReplaceKeeps ==
  ASSUME TypeOK, RecoveryInv, NEW s \in Savers, NEW r \in {"ok", "rename", "dirsync"}, Replace(s, r)
  PROVE  RecoveryInv'
<1> USE DEF RecoveryInv
<1> saver \in [Savers -> SaverRecords]
  BY DEF TypeOK
<1>a. saver[s].stage = "prepared" /\ lock = s
  BY DEF Replace, At, LockInv
<1>b. UNCHANGED <<reserved, barrier, checkpoint, manifest, journal, external, regressed>>
  BY DEF Replace, coordinatorVars, journalVars
<1>c. manifest.pending = Target(s) /\ journal.pending = Target(s)
  BY <1>a DEF IntentInv
<1>d. Target(s).rev = saver[s].rev /\ Target(s).seq = saver[s].seq
  BY TargetType
<1>e. saver[s].seq # 0
  BY <1>a DEF SequenceInv, At
<1>f. \A t \in Savers : t # s => saver[t].stage \notin {"locked", "prepared", "replaced"}
  BY <1>a, SectionExclusive
<1>g. \A t \in Savers : t # s /\ saver[t].stage = "aborting" => saver[t].seq # saver[s].seq
  BY <1>a DEF SequenceInv, At
<1>h. Goto(s, "replaced") \/ Goto(s, "aborting")
  BY DEF Replace
<1>i. /\ \A t \in Savers : t # s => saver'[t] = saver[t]
      /\ saver'[s].stage \in {"replaced", "aborting"} /\ saver'[s].seq = saver[s].seq
      /\ saver'[s].rev = saver[s].rev
  BY <1>h, GotoFacts DEF Stages
<1>1. SequenceInv'
  BY <1>a, <1>b, <1>i DEF SequenceInv, At
<1>2. CurrentInv'
  BY <1>b, <1>i DEF CurrentInv
<1>3. RecordInv(manifest)' /\ RecordInv(journal)' /\ AgreeInv'
  BY <1>b DEF RecordInv, AgreeInv, Clean
<1>4. IntentInv'
  <2>1. Target(s)' = Target(s)
    BY <1>i DEF Target
  <2> QED
    BY <1>b, <1>c, <1>f, <1>i, <2>1 DEF IntentInv, Clean
<1>5. CASE r = "ok"
  <2>1. disk' = saver[s].rev /\ lock' = lock /\ saver'[s].stage = "replaced"
    BY <1>5, GotoFacts DEF Replace, Stages
  <2>2. LockInv'
    BY <1>a, <1>b, <1>i, <2>1 DEF LockInv
  <2>3. FileInv'
    BY <1>b, <1>c, <1>d, <1>e, <1>f, <1>g, <1>i, <2>1 DEF FileInv, Clean, Explains, At
  <2> QED
    BY <1>1, <1>2, <1>3, <1>4, <2>2, <2>3
<1>6. CASE r = "rename"
  <2>1. disk' = disk /\ saver'[s].stage = "aborting"
    BY <1>6, GotoFacts DEF Replace, Stages
  <2>2. LockInv'
    BY <1>b, <1>f, <1>i, <2>1 DEF LockInv
  <2>3. FileInv'
    BY <1>a, <1>b, <1>c, <1>d, <1>f, <1>g, <1>i, <2>1 DEF FileInv, Clean, Explains, At
  <2> QED
    BY <1>1, <1>2, <1>3, <1>4, <2>2, <2>3
<1>7. CASE r = "dirsync"
  <2>1. saver'[s].stage = "aborting" /\ "dirsync" \in Faults
    BY <1>7, GotoFacts DEF Replace, Stages
  <2>2. LockInv'
    BY <1>b, <1>f, <1>i, <2>1 DEF LockInv
  <2>3. FileInv'
    BY <2>1 DEF FileInv, Clean
  <2> QED
    BY <1>1, <1>2, <1>3, <1>4, <2>2, <2>3
<1> QED
  BY <1>5, <1>6, <1>7

\* A save that could not replace the file drops its own intent, if it is there.
LEMMA AbortKeeps ==
  ASSUME TypeOK, RecoveryInv, NEW s \in Savers, NEW o \in AppendOutcomes, Abort(s, o)
  PROVE  RecoveryInv'
<1> USE DEF RecoveryInv
<1> DEFINE m == DroppingIntent(manifest)
<1> saver \in [Savers -> SaverRecords] /\ manifest \in Manifests
  BY DEF TypeOK
<1>a. saver[s].stage = "aborting"
  BY DEF Abort, At
<1>b. UNCHANGED <<disk, reserved, barrier, checkpoint, lock, external, regressed>>
  BY DEF Abort, coordinatorVars, historyVars
<1>c. m.pending = NoTarget /\ m.source = manifest.source /\ m.seq = manifest.seq /\ NoTarget.seq = 0
  BY TargetType, ManifestFields
<1>d. /\ \A t \in Savers : t # s => saver'[t] = saver[t]
      /\ saver'[s].stage = "idle"
  BY ReturnFacts DEF Abort
<1>1. CASE UNCHANGED <<manifest, journal>>
  BY <1>1, <1>b, <1>d, QuietKeeps DEF QuietStep
<1>2. CASE manifest.pending.seq = saver[s].seq /\ manifest' \in {m, manifest} /\ journal' = m
  <2>1. LockInv'
    BY <1>b, <1>d DEF LockInv
  <2>2. SequenceInv'
    BY <1>b, <1>d DEF SequenceInv, At
  <2>3. CurrentInv'
    BY <1>b, <1>d DEF CurrentInv
  <2>4. RecordInv(manifest)' /\ RecordInv(journal)'
    BY <1>2, <1>b, <1>c DEF RecordInv, Clean
  <2>5. AgreeInv'
    BY <1>2, <1>b, <1>c DEF AgreeInv, Clean
  <2>6. \A t \in Savers : t # s => saver[t].stage \notin {"prepared", "replaced"}
    <3>1. ASSUME NEW t \in Savers, t # s, saver[t].stage \in {"prepared", "replaced"}
          PROVE  FALSE
      <4>1. manifest.pending.seq = saver[t].seq
        BY <3>1, TargetType DEF IntentInv
      <4>2. saver[t].seq # saver[s].seq
        BY <3>1, <1>a DEF SequenceInv, At
      <4> QED
        BY <1>2, <4>1, <4>2
    <3> QED
      BY <3>1
  <2>7. IntentInv'
    BY <1>b, <1>d, <2>6 DEF IntentInv, Clean
  <2>8. FileInv'
    <3>1. Clean => disk = manifest.source
      BY <1>2, <1>a DEF FileInv, At
    <3> QED
      BY <1>2, <1>b, <1>c, <1>d, <2>6, <3>1 DEF FileInv, Clean, Explains, At
  <2> QED
    BY <2>1, <2>2, <2>3, <2>4, <2>5, <2>7, <2>8
<1> QED
  BY <1>1, <1>2 DEF Abort, JournalAppend, journalVars, AppendOutcomes

\* The checkpoint of a replaced file is newer than the one before.
LEMMA CommitKeeps ==
  ASSUME TypeOK, RecoveryInv, NEW s \in Savers, NEW o \in AppendOutcomes, Commit(s, o)
  PROVE  RecoveryInv'
<1> USE DEF RecoveryInv
<1> DEFINE target == Target(s)
<1> DEFINE m == CommittedManifest(target)
<1> saver \in [Savers -> SaverRecords] /\ manifest \in Manifests /\ target \in Targets
  BY TargetType DEF TypeOK
<1>a. saver[s].stage = "replaced" /\ lock = s /\ saver[s].seq >= barrier
  BY DEF Commit, At, LockInv
<1>b. UNCHANGED <<disk, reserved, external, regressed>> /\ barrier' = saver[s].seq /\ lock' = NoSaver
  BY DEF Commit, historyVars
<1>c. m.pending = NoTarget /\ m.source = target.rev /\ m.seq = target.seq /\ NoTarget.seq = 0
  BY ManifestFields
<1>d. target.rev = saver[s].rev /\ target.seq = saver[s].seq
  BY TargetType
<1>e. saver[s].seq \in 1 .. reserved /\ saver[s].seq # checkpoint.seq /\ checkpoint.seq <= barrier
  BY <1>a DEF SequenceInv, At
<1>f. \A t \in Savers : t # s => saver[t].stage \notin {"locked", "prepared", "replaced"}
  BY <1>a, SectionExclusive
<1>g. \A t \in Savers : t # s /\ saver[t].stage # "idle" => saver[t].seq # saver[s].seq
  BY <1>a DEF SequenceInv, At
<1>n. reserved \in Nat /\ barrier \in Nat /\ checkpoint.seq \in Nat /\ saver[s].seq \in Nat
  BY DEF TypeOK, Targets, SaverRecords
<1>h. /\ \A t \in Savers : t # s => saver'[t] = saver[t]
      /\ saver'[s].stage \in {"idle", "saved"}
      /\ saver'[s].stage = "saved" => saver'[s].seq = saver[s].seq
  BY GotoFacts, ReturnFacts DEF Commit, Stages
<1>i. /\ Clean => disk = saver[s].rev
      /\ ~IntentMismatch(target) /\ manifest.pending = target /\ journal.pending = target
  BY <1>a DEF IntentInv, FileInv, IntentMismatch, At
<1>j. checkpoint' = checkpoint \/ checkpoint' = target
  BY DEF Commit
<1>1. LockInv'
  BY <1>f, <1>h DEF LockInv
<1>2. SequenceInv'
  BY <1>a, <1>b, <1>d, <1>e, <1>g, <1>h, <1>j, <1>n DEF SequenceInv, At
<1>3. CurrentInv'
  <2>1. ASSUME NEW t \in Savers, saver'[t].stage \in {"bound", "current"}
        PROVE  /\ saver'[t].current.seq # 0
               /\ saver'[t].current.seq <= checkpoint'.seq
               /\ saver'[t].current.seq = checkpoint'.seq => saver'[t].current = checkpoint'
    <3>1. t # s /\ saver'[t] = saver[t]
      BY <2>1, <1>h
    <3>2. /\ saver[t].current.seq # 0 /\ saver[t].current.seq <= checkpoint.seq
          /\ saver[t].current.seq = checkpoint.seq => saver[t].current = checkpoint
      BY <2>1, <3>1 DEF CurrentInv
    <3>3. saver[t].current.seq \in Nat
      BY DEF SaverRecords, Targets
    <3> QED
      BY <3>1, <3>2, <3>3, <1>a, <1>d, <1>e, <1>j, <1>n
  <2> QED
    BY <2>1 DEF CurrentInv
<1>k. /\ manifest' = m \/ manifest' = manifest
      /\ journal' = m \/ journal' = journal
  BY DEF Commit, JournalAppend, journalVars
<1>4. RecordInv(manifest)' /\ RecordInv(journal)'
  BY <1>b, <1>c, <1>k DEF RecordInv, Clean
<1>l. \/ checkpoint' = target /\ manifest' = m /\ journal' = m
      \/ checkpoint' = checkpoint /\ manifest' = manifest
  BY <1>i DEF Commit, CommitReports, JournalAppend
<1>5. AgreeInv'
  BY <1>b, <1>c, <1>l DEF AgreeInv, Clean
<1>6. IntentInv'
  BY <1>b, <1>f, <1>h DEF IntentInv, Clean
<1>7. FileInv'
  <2>1. Clean => Explains(manifest, disk)' /\ Explains(journal, disk)'
    BY <1>b, <1>c, <1>d, <1>e, <1>i, <1>k DEF Explains
  <2>2. ASSUME Clean, NEW t \in Savers, saver'[t].stage \in {"prepared", "replaced", "aborting"}
        PROVE  saver'[t].stage = "aborting" /\ manifest'.pending.seq # saver'[t].seq
    <3>1. t # s /\ saver'[t] = saver[t] /\ saver[t].stage = "aborting"
      BY <2>2, <1>h, <1>f
    <3>2. saver[t].seq # saver[s].seq /\ saver[t].seq # 0
      BY <3>1, <1>g DEF SequenceInv, At
    <3> QED
      BY <3>1, <3>2, <2>2, <1>c, <1>d, <1>i, <1>k
  <2> QED
    BY <2>1, <2>2, <1>b DEF FileInv, Clean, At
<1> QED
  BY <1>1, <1>2, <1>3, <1>4, <1>5, <1>6, <1>7

-----------------------------------------------------------------------------
(* After the worker, and the room around the saves.                        *)

\* Until a checkpoint is put back, the one an already current save commits again
\* is the recorded one; a step that records an older one is remembered in
\* regressed.  No intent of another save is in its way.
LEMMA CommitExistingKeeps ==
  ASSUME TypeOK, RecoveryInv, NEW s \in Savers, NEW o \in AppendOutcomes, CommitExisting(s, o)
  PROVE  RecoveryInv'
<1> USE DEF RecoveryInv
<1> DEFINE target == saver[s].current
<1> DEFINE m == CommittedManifest(target)
<1> saver \in [Savers -> SaverRecords] /\ manifest \in Manifests /\ target \in Targets
  BY DEF TypeOK, SaverRecords
<1>a. saver[s].stage = "current"
  BY DEF CommitExisting, At
<1>b. UNCHANGED <<disk, reserved, barrier, checkpoint, lock, external>>
  BY DEF CommitExisting, coordinatorVars
<1>c. m.pending = NoTarget /\ m.source = target.rev /\ m.seq = target.seq /\ NoTarget.seq = 0
  BY ManifestFields
<1>d. /\ \A t \in Savers : t # s => saver'[t] = saver[t]
      /\ saver'[s].stage = "idle"
  BY ReturnFacts DEF CommitExisting
<1>e. regressed \in BOOLEAN /\ regressed' \in BOOLEAN
  BY TypeAfterWorker DEF TypeOK
<1>1. CASE UNCHANGED <<manifest, journal, regressed>>
  BY <1>1, <1>b, <1>d, QuietKeeps DEF QuietStep
<1>2. CASE /\ manifest # m /\ ~IntentMismatch(target) /\ JournalAppend(m, o)
           /\ regressed' = (regressed \/ (o # "lost" /\ target.seq < manifest.seq))
  <2>1. ~regressed => target.seq < manifest.seq
    <3> HAVE ~regressed
    <3>1. /\ target.seq <= checkpoint.seq /\ target.seq # 0
          /\ target.seq = checkpoint.seq => target = checkpoint
      BY <1>a DEF CurrentInv
    <3>2. /\ checkpoint.seq = manifest.seq
          /\ checkpoint.seq # 0 => checkpoint.rev = manifest.source
      BY DEF AgreeInv
    <3>3. target.seq \in Nat /\ manifest.seq \in Nat /\ manifest.pending.seq \in Nat
      BY DEF Targets, Manifests
    <3>4. SUFFICES ASSUME target.seq = manifest.seq PROVE FALSE
      BY <3>1, <3>2, <3>3
    <3>5. manifest.pending # NoTarget
      <4>1. manifest.source = target.rev /\ manifest.seq = target.seq
        BY <3>1, <3>2, <3>4
      <4>2. manifest.pending = NoTarget => manifest = m
        BY <4>1 DEF CommittedManifest, Manifests
      <4> QED
        BY <4>2, <1>2
    <3>6. manifest.pending.seq # 0 /\ manifest.pending.seq > manifest.seq
      BY <3>5, <3>3 DEF RecordInv
    <3>7. manifest.pending = target
      BY <3>6, <1>2 DEF IntentMismatch
    <3> QED
      BY <3>3, <3>4, <3>6, <3>7
  <2>2. CASE o = "lost"
    <3>1. UNCHANGED <<manifest, journal>>
      BY <1>2, <2>2 DEF JournalAppend
    <3>2. regressed' = regressed
      BY <1>2, <2>2, <1>e
    <3> QED
      BY <1>1, <3>1, <3>2
  <2>3. CASE o # "lost"
    <3>1. regressed' /\ ~Clean'
      BY <1>2, <2>1, <2>3, <1>e DEF Clean
    <3>2. LockInv'
      BY <1>b, <1>d DEF LockInv
    <3>3. SequenceInv'
      BY <1>b, <1>d DEF SequenceInv, At
    <3>4. CurrentInv'
      BY <1>b, <1>d DEF CurrentInv
    <3>5. /\ manifest' = m \/ manifest' = manifest
          /\ journal' = m
      BY <1>2, <2>3 DEF JournalAppend
    <3>6. RecordInv(manifest)' /\ RecordInv(journal)'
      BY <3>1, <3>5, <1>c DEF RecordInv
    <3>7. ASSUME NEW t \in Savers, saver[t].stage \in {"prepared", "replaced"} PROVE FALSE
      <4>1. manifest.pending = Target(t) /\ Target(t).seq = saver[t].seq /\ saver[t].seq # 0
        BY <3>7, TargetType DEF IntentInv, SequenceInv, At
      <4>2. saver[t].seq = target.seq
        BY <1>2, <4>1 DEF IntentMismatch
      <4>3. /\ target.seq <= checkpoint.seq /\ checkpoint.seq <= barrier
            /\ saver[t].seq >= barrier /\ saver[t].seq # checkpoint.seq
        BY <1>a, <3>7 DEF CurrentInv, SequenceInv, LockInv
      <4>4. target.seq \in Nat /\ checkpoint.seq \in Nat /\ barrier \in Nat
        BY DEF TypeOK, Targets
      <4> QED
        BY <4>2, <4>3, <4>4
    <3>8. IntentInv'
      BY <1>d, <3>7 DEF IntentInv
    <3> QED
      BY <3>1, <3>2, <3>3, <3>4, <3>6, <3>8 DEF AgreeInv, FileInv
  <2> QED
    BY <2>2, <2>3
<1> QED
  BY <1>1, <1>2 DEF CommitExisting, journalVars

\* The steps that only end or advance a save.
LEMMA QuietSteps ==
  ASSUME TypeOK, NEW s \in Savers, (\E ok \in BOOLEAN : WriteTemp(s, ok)) \/ Finish(s)
  PROVE  QuietStep(s)
<1> saver \in [Savers -> SaverRecords]
  BY DEF TypeOK
<1>1. CASE \E ok \in BOOLEAN : WriteTemp(s, ok)
  BY <1>1, GotoFacts, ReturnFacts
     DEF WriteTemp, At, QuietStep, Stages, coordinatorVars, journalVars, historyVars
<1>2. CASE Finish(s)
  BY <1>2, ReturnFacts DEF Finish, QuietStep, coordinatorVars, journalVars
<1> QED
  BY <1>1, <1>2

\* Every step of a save keeps the invariant.
LEMMA SaveKeeps ==
  ASSUME TypeOK, RecoveryInv, NEW s \in Savers, Save(s)
  PROVE  RecoveryInv'
<1>1. CASE CheckAvailability(s) \/ CheckDisk(s) \/ Capture(s)
  BY <1>1, QuietBeforeWorker, QuietKeeps
<1>2. CASE (\E ok \in BOOLEAN : WriteTemp(s, ok)) \/ Finish(s)
  BY <1>2, QuietSteps, QuietKeeps
<1>3. CASE \E r \in {"ok", "rename", "dirsync"} : Replace(s, r)
  BY <1>3, ReplaceKeeps
<1> QED
  BY <1>1, <1>2, <1>3, ClaimKeeps, BindKeeps, AlreadyCurrentKeeps, TakeLockKeeps, PrepareKeeps,
     AbortKeeps, CommitKeeps, CommitExistingKeeps DEF Save

\* A record of the current manifest explains the file as the manifest does.
LEMMA EditKeeps ==
  ASSUME RecoveryInv, Edit
  PROVE  RecoveryInv'
<1> USE DEF RecoveryInv
<1>1. /\ UNCHANGED <<disk, reserved, barrier, checkpoint, lock, saver, manifest, external, regressed>>
      /\ journal' = manifest
  BY DEF Edit, coordinatorVars, historyVars
<1>2. LockInv' /\ SequenceInv' /\ CurrentInv'
  BY <1>1 DEF LockInv, SequenceInv, CurrentInv, At
<1>3. RecordInv(manifest)' /\ RecordInv(journal)' /\ AgreeInv'
  BY <1>1 DEF RecordInv, AgreeInv, Clean
<1>4. IntentInv'
  BY <1>1 DEF IntentInv, Clean, Target
<1>5. FileInv'
  BY <1>1 DEF FileInv, Clean, Explains, At
<1> QED
  BY <1>2, <1>3, <1>4, <1>5

\* After an external edit the history is not clean.
LEMMA ExternalEditKeeps ==
  ASSUME TypeOK, RecoveryInv, ExternalEdit
  PROVE  RecoveryInv'
<1> USE DEF RecoveryInv
<1>1. UNCHANGED <<reserved, barrier, checkpoint, lock, saver, manifest, journal, regressed>>
  BY DEF ExternalEdit, coordinatorVars, journalVars
<1>2. ~Clean'
  BY BoundsAssumption DEF ExternalEdit, Clean, TypeOK
<1>3. LockInv' /\ SequenceInv' /\ CurrentInv'
  BY <1>1 DEF LockInv, SequenceInv, CurrentInv, At
<1>4. RecordInv(manifest)' /\ RecordInv(journal)'
  BY <1>1 DEF RecordInv
<1>5. AgreeInv' /\ IntentInv'
  BY <1>1 DEF AgreeInv, IntentInv, Target
<1> QED
  BY <1>2, <1>3, <1>4, <1>5 DEF FileInv

\* What a restart makes of the journal accounts for the file again.
LEMMA RestartKeeps ==
  ASSUME TypeOK, RecoveryInv, NEW o \in AppendOutcomes, Restart(o)
  PROVE  RecoveryInv'
<1> USE DEF RecoveryInv
<1> DEFINE resolvable == journal.pending.seq # 0 /\ Explains(journal, disk)
<1> DEFINE m == IF resolvable THEN Resolved(journal) ELSE journal
<1> journal \in Manifests /\ journal.pending \in Targets
  BY DEF TypeOK, Manifests
<1>a. UNCHANGED <<disk, external, regressed>>
  BY DEF Restart
<1>b. \A s \in Savers : saver'[s].stage = "idle"
  <2>1. IdleSaver.stage = "idle"
    BY DEF IdleSaver
  <2> QED
    BY <2>1 DEF Restart
<1>c. manifest' \in {m, journal} /\ journal' \in {m, journal}
  BY DEF Restart
<1>d. /\ checkpoint'.seq = manifest'.seq
      /\ checkpoint'.seq # 0 => checkpoint'.rev = manifest'.source
      /\ barrier' = manifest'.seq
  BY DEF Restart
<1>e. RecordInv(m)
  <2>1. CASE resolvable
    <3>1. m.pending = NoTarget /\ NoTarget.seq = 0
      BY <2>1, ManifestFields DEF Resolved
    <3> QED
      BY <3>1 DEF RecordInv
  <2>2. CASE ~resolvable
    BY <2>2
  <2> QED
    BY <2>1, <2>2
<1>f. Clean => Explains(m, disk)
  <2>1. CASE resolvable
    BY <2>1, ManifestFields DEF Resolved, Explains
  <2>2. CASE ~resolvable
    BY <2>2 DEF FileInv
  <2> QED
    BY <2>1, <2>2
<1>1. LockInv' /\ CurrentInv'
  BY <1>b DEF LockInv, CurrentInv
<1>2. SequenceInv'
  <2>1. checkpoint'.seq <= barrier'
    <3>1. barrier' \in 0 .. reserved' /\ reserved' \in 0 .. MaxSaves
      BY TypeRoom DEF TypeOK
    <3> QED
      BY <1>d, <3>1
  <2> QED
    BY <1>b, <2>1 DEF SequenceInv, At
<1>3. RecordInv(manifest)' /\ RecordInv(journal)'
  BY <1>a, <1>c, <1>e DEF RecordInv, Clean
<1>4. AgreeInv'
  BY <1>d DEF AgreeInv
<1>5. IntentInv'
  BY <1>b DEF IntentInv
<1>6. FileInv'
  <2>1. Clean => Explains(manifest, disk)' /\ Explains(journal, disk)'
    BY <1>a, <1>c, <1>f DEF FileInv, Explains
  <2> QED
    BY <1>a, <1>b, <2>1 DEF FileInv, Clean, At
<1> QED
  BY <1>1, <1>2, <1>3, <1>4, <1>5, <1>6

-----------------------------------------------------------------------------
(* The theorems about recovery.                                            *)

\* The initial state satisfies the invariant.
LEMMA RecoveryInit ==
  ASSUME Init
  PROVE  RecoveryInv
<1>1. \A s \in Savers : saver[s].stage = "idle"
  <2>1. \A s \in Savers : saver[s] = IdleSaver
    BY DEF Init
  <2>2. IdleSaver.stage = "idle"
    BY DEF IdleSaver
  <2> QED
    BY <2>1, <2>2
<1>2. /\ manifest.pending = NoTarget /\ manifest.source = disk /\ manifest.seq = 0
      /\ journal = manifest /\ checkpoint.seq = 0 /\ barrier = 0 /\ NoTarget.seq = 0
  BY DEF Init, NoTarget
<1>3. LockInv /\ SequenceInv /\ CurrentInv
  BY <1>1, <1>2 DEF LockInv, SequenceInv, CurrentInv, At
<1>4. RecordInv(manifest) /\ RecordInv(journal) /\ AgreeInv
  BY <1>2 DEF RecordInv, AgreeInv
<1>5. IntentInv /\ FileInv
  BY <1>1, <1>2 DEF IntentInv, FileInv, Explains, At
<1> QED
  BY <1>3, <1>4, <1>5 DEF RecoveryInv

\* Every step keeps the invariant.
LEMMA RecoveryStep ==
  ASSUME TypeOK, RecoveryInv, [Next]_vars
  PROVE  RecoveryInv'
<1>1. ASSUME NEW s \in Savers, Save(s) PROVE RecoveryInv'
  BY <1>1, SaveKeeps
<1>2. CASE UNCHANGED vars
  <2>1. UNCHANGED <<disk, reserved, barrier, checkpoint, lock, saver, manifest, journal,
                    external, regressed>>
    BY <1>2 DEF vars, coordinatorVars, journalVars, historyVars
  <2>2. LockInv' /\ SequenceInv' /\ CurrentInv'
    BY <2>1 DEF RecoveryInv, LockInv, SequenceInv, CurrentInv, At
  <2>3. RecordInv(manifest)' /\ RecordInv(journal)' /\ AgreeInv'
    BY <2>1 DEF RecoveryInv, RecordInv, AgreeInv, Clean
  <2>4. IntentInv' /\ FileInv'
    BY <2>1 DEF RecoveryInv, IntentInv, FileInv, Clean, Target, Explains, At
  <2> QED
    BY <2>2, <2>3, <2>4 DEF RecoveryInv
<1>3. ASSUME NEW o \in AppendOutcomes, Restart(o) PROVE RecoveryInv'
  BY <1>3, RestartKeeps
<1> QED
  BY <1>1, <1>2, <1>3, EditKeeps, ExternalEditKeeps DEF Next, Rest

\* A conflict is declared by a restart only, against a file that the journal
\* does not explain, and its causes are never forgotten.
LEMMA ConflictStep ==
  ASSUME "dirsync" \notin Faults, TypeOK, TypeOK', RecoveryInv, ConflictHasCause, [Next]_vars
  PROVE  ConflictHasCause'
<1>a. /\ external \in Nat /\ external' \in Nat
      /\ regressed \in BOOLEAN /\ regressed' \in BOOLEAN
  BY DEF TypeOK
<1>1. ASSUME NEW s \in Savers, Save(s) PROVE ConflictHasCause'
  <2>1. degraded' = "conflict" => degraded = "conflict"
    BY <1>1 DEF Save, Claim, CheckAvailability, CheckDisk, Capture, Bind, AlreadyCurrent, WriteTemp,
       TakeLock, Prepare, Replace, Abort, Commit, CommitExisting, Finish, Degrade
  <2>2. external' = external
    BY <1>1 DEF Save, Claim, CheckAvailability, CheckDisk, Capture, Bind, AlreadyCurrent, WriteTemp,
       TakeLock, Prepare, Replace, Abort, Commit, CommitExisting, Finish, historyVars
  <2>3. regressed => regressed'
    BY <1>1, <1>a DEF Save, Claim, CheckAvailability, CheckDisk, Capture, Bind, AlreadyCurrent,
       WriteTemp, TakeLock, Prepare, Replace, Abort, Commit, CommitExisting, Finish, historyVars
  <2> QED
    BY <2>1, <2>2, <2>3 DEF ConflictHasCause
<1>2. ASSUME NEW o \in AppendOutcomes, Restart(o) PROVE ConflictHasCause'
  <2>1. degraded' = "conflict" => ~Explains(journal, disk)
    BY <1>2 DEF Restart
  <2>2. ~Explains(journal, disk) => ~Clean
    BY DEF RecoveryInv, FileInv
  <2>3. UNCHANGED <<external, regressed>>
    BY <1>2 DEF Restart
  <2> QED
    BY <1>a, <2>1, <2>2, <2>3 DEF ConflictHasCause, Clean
<1>3. CASE Edit
  BY <1>3 DEF Edit, ConflictHasCause, historyVars
<1>4. CASE ExternalEdit
  BY <1>4, <1>a DEF ExternalEdit, ConflictHasCause
<1>5. CASE UNCHANGED vars
  BY <1>5 DEF vars, ConflictHasCause, historyVars
<1> QED
  BY <1>1, <1>2, <1>3, <1>4, <1>5 DEF Next, Rest

\* With a directory flush that does not fail, file and journal agree at every
\* moment at which the daemon can die, whatever saves are under way: the
\* intent is recorded before, and the checkpoint after, the file is replaced.
THEOREM JournalExplains ==
  ASSUME "dirsync" \notin Faults
  PROVE  Spec => []JournalExplainsDisk
<1>1. Init => TypeOK /\ NumbersInv /\ RecoveryInv
  BY TypeInit, RecoveryInit
<1>2. TypeOK /\ NumbersInv /\ RecoveryInv /\ [Next]_vars => (TypeOK /\ NumbersInv /\ RecoveryInv)'
  BY TypeStep, RecoveryStep
<1>3. RecoveryInv => JournalExplainsDisk
  BY DEF RecoveryInv, FileInv, Clean, JournalExplainsDisk
<1> QED
  BY <1>1, <1>2, <1>3, PTL DEF Spec

\* Under the same assumption a restarted room reports a source conflict only
\* after another program wrote the file or a checkpoint was put back.
THEOREM ConflictCause ==
  ASSUME "dirsync" \notin Faults
  PROVE  Spec => []ConflictHasCause
<1> DEFINE Inv == TypeOK /\ NumbersInv /\ RecoveryInv /\ ConflictHasCause
<1>1. Init => Inv
  <2>1. Init => ConflictHasCause
    BY DEF Init, ConflictHasCause
  <2> QED
    BY <2>1, TypeInit, RecoveryInit
<1>2. Inv /\ [Next]_vars => Inv'
  BY TypeStep, RecoveryStep, ConflictStep
<1> QED
  BY <1>1, <1>2, PTL DEF Spec

=============================================================================
