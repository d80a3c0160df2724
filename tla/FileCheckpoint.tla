---------------------------- MODULE FileCheckpoint ----------------------------
(***************************************************************************)
(* Saves of one notebook room to its .ipynb file: the coordinator of       *)
(* file_checkpoint.rs, the save procedure of persist.rs, the checkpoint    *)
(* records that durability.rs keeps in the recovery journal, and what a    *)
(* restarted daemon makes of file and journal.                             *)
(*                                                                         *)
(* Several saves (autosave, peers' requests) run at once.  Each claims a   *)
(* sequence number, captures a revision of the document, writes it to a    *)
(* temporary file, and only then takes the coordinator's lock to record an *)
(* intent in the journal, replace the file and record the checkpoint.      *)
(*                                                                         *)
(* The content of a file is the revision it exports.  A revision stands    *)
(* for the pair of heads and bytes that matches_checkpoint compares.       *)
(***************************************************************************)
EXTENDS Integers

CONSTANTS
  Savers,        \* concurrent saves
  NoSaver,       \* holder of a free lock
  MaxSaves,      \* bound: save sequence numbers
  MaxRevisions,  \* bound: revisions of the document
  MaxExternal,   \* bound: edits of the file by other programs
  MaxCrashes,    \* bound: daemon restarts
  Faults         \* I/O that may fail: "temp", "append", "rename", "dirsync"

ASSUME BoundsAssumption ==
  /\ MaxSaves \in Nat
  /\ MaxRevisions \in Nat \ {0}
  /\ MaxExternal \in Nat
  /\ MaxCrashes \in Nat

ASSUME NoSaverAssumption == NoSaver \notin Savers

ASSUME FaultsAssumption == Faults \subseteq {"temp", "append", "rename", "dirsync"}

Original == 0       \* the file as it was opened
External == -1      \* bytes another program wrote
Contents == -1 .. MaxRevisions

\* A revision at a save sequence: a FileCheckpoint, a PendingFileCheckpoint.
Targets == [rev : Contents, seq : 0 .. MaxSaves]
NoTarget == [rev |-> Original, seq |-> 0]
Manifests == [source : Contents, seq : 0 .. MaxSaves, pending : Targets]

Stages == {"idle", "claimed", "available", "fresh", "captured", "bound", "writing",
           "written", "locked", "prepared", "replaced", "aborting", "current", "saved"}
SaverRecords == [stage : Stages, seq : 0 .. MaxSaves, rev : Contents, current : Targets]
IdleSaver == [stage |-> "idle", seq |-> 0, rev |-> Original, current |-> NoTarget]

VARIABLES
  doc,          \* revision of the document
  disk,         \* content of the .ipynb
  \* CheckpointState and its mutex.
  reserved,     \* latest_reserved_sequence
  barrier,      \* latest_barrier_sequence
  checkpoint,   \* the last checkpoint, or NoTarget
  lock,         \* the save inside the replace section, or NoSaver
  saver,        \* where each save stands and what it holds
  \* RoomDurability and its journal.
  manifest,     \* checkpoint part of the in-memory manifest
  journal,      \* checkpoint part of the last valid journal record
  \* Room state.
  known,        \* last_known_disk_hash
  baseline,     \* primary_save_baseline_sequence
  degraded,     \* "no", "degraded" or "conflict": may an ordinary save start?
  \* History, read by no guard except as a cap.
  diskSeq,      \* sequence of the last save that replaced the file
  acked,        \* highest sequence reported to a client as saved
  external,     \* edits by other programs
  crashes,      \* restarts
  journalFailed,\* did an append report an error in this daemon's life?
  regressed     \* did a commit put an older checkpoint over a newer one?

coordinatorVars == <<reserved, barrier, checkpoint>>
journalVars == <<manifest, journal, journalFailed>>
roomVars    == <<known, baseline>>
historyVars == <<diskSeq, acked, external, crashes, regressed>>
vars == <<doc, disk, coordinatorVars, lock, saver, journalVars, roomVars, degraded,
          historyVars>>

Init ==
  /\ doc = 1 /\ disk = Original
  /\ reserved = 0 /\ barrier = 0 /\ checkpoint = NoTarget /\ lock = NoSaver
  /\ saver = [s \in Savers |-> IdleSaver]
  /\ manifest = [source |-> Original, seq |-> 0, pending |-> NoTarget]
  /\ journal = manifest
  /\ known = Original /\ baseline = 0 /\ degraded = "no"
  /\ diskSeq = 0 /\ acked = 0 /\ external = 0 /\ crashes = 0
  /\ journalFailed = FALSE /\ regressed = FALSE

-----------------------------------------------------------------------------
(* Stages of a save.                                                       *)

At(s, stage) == saver[s].stage = stage
Goto(s, stage) == saver' = [saver EXCEPT ![s].stage = stage]
Hold(s, stage, seq, rev, current) ==
  saver' = [saver EXCEPT ![s] =
              [stage |-> stage, seq |-> seq, rev |-> rev, current |-> current]]
Return(s) == saver' = [saver EXCEPT ![s] = IdleSaver]
Target(s) == [rev |-> saver[s].rev, seq |-> saver[s].seq]
Superseded(s) == barrier > saver[s].seq

\* degrade_file_checkpoint.
Degrade == degraded' = "degraded"

-----------------------------------------------------------------------------
(* RecoveryJournal::append and the manifest changes of RoomDurability.     *)

AppendOutcomes == {"ok", "lost", "kept"}

\* An append that fails leaves the old manifest in memory; its record may be
\* lost, or valid although the flush reported an error.
JournalAppend(m, outcome) ==
  /\ outcome = "ok" \/ "append" \in Faults
  /\ manifest' = IF outcome = "ok" THEN m ELSE manifest
  /\ journal' = IF outcome = "lost" THEN journal ELSE m
  /\ journalFailed' = (journalFailed \/ outcome # "ok")

\* Mutation: the intent is not in the record.
WithoutIntent(m, target) == m

WithIntent(m, target) == [m EXCEPT !.pending = target]

\* Mutation: the record keeps the intent it was to drop.
KeepingIntent(m) == m

DroppingIntent(m) == [m EXCEPT !.pending = NoTarget]

CommittedManifest(target) ==
  [source |-> target.rev, seq |-> target.seq, pending |-> NoTarget]

\* Does a prepared intent of another save stand in the way of this commit?
IntentMismatch(target) == manifest.pending.seq # 0 /\ manifest.pending # target

-----------------------------------------------------------------------------
(* save_notebook_to_disk up to the blocking worker.                        *)

Claim(s) ==
  /\ At(s, "idle") /\ reserved < MaxSaves
  /\ reserved' = reserved + 1
  /\ Hold(s, "claimed", reserved + 1, Original, NoTarget)
  /\ UNCHANGED <<doc, disk, barrier, checkpoint, lock, journalVars, roomVars,
                 degraded, historyVars>>

\* A degraded room refuses ordinary saves to its own path.
CheckAvailability(s) ==
  /\ At(s, "claimed")
  /\ IF degraded # "no" THEN Return(s) ELSE Goto(s, "available")
  /\ UNCHANGED <<doc, disk, coordinatorVars, lock, journalVars, roomVars,
                 degraded, historyVars>>

\* The staleness guard: the file must be what this daemon last read or wrote.
CheckDisk(s) ==
  /\ At(s, "available")
  /\ IF disk # known THEN Return(s) ELSE Goto(s, "fresh")
  /\ UNCHANGED <<doc, disk, coordinatorVars, lock, journalVars, roomVars,
                 degraded, historyVars>>

\* Cells and heads are read from the document under its lock.
Capture(s) ==
  /\ At(s, "fresh")
  /\ Hold(s, "captured", saver[s].seq, doc, NoTarget)
  /\ UNCHANGED <<doc, disk, coordinatorVars, lock, journalVars, roomVars,
                 degraded, historyVars>>

-----------------------------------------------------------------------------
(* FileCheckpointCoordinator::complete_reserved_with_durable_intent.       *)

Bind(s) ==
  /\ At(s, "captured") /\ lock = NoSaver
  /\ IF checkpoint.seq # 0 /\ checkpoint.rev = saver[s].rev
     THEN Hold(s, "bound", saver[s].seq, saver[s].rev, checkpoint)
     ELSE Goto(s, "writing")
  /\ UNCHANGED <<doc, disk, coordinatorVars, lock, journalVars, roomVars,
                 degraded, historyVars>>

\* The captured revision is the checkpoint's, if that is still the last one.
AlreadyCurrent(s) ==
  /\ At(s, "bound") /\ lock = NoSaver
  /\ IF Superseded(s)
     THEN Return(s) /\ UNCHANGED barrier
     ELSE IF checkpoint = saver[s].current
     THEN Goto(s, "current") /\ barrier' = saver[s].seq
     ELSE Goto(s, "writing") /\ UNCHANGED barrier
  /\ UNCHANGED <<doc, disk, reserved, checkpoint, lock, journalVars, roomVars,
                 degraded, historyVars>>

\* The temporary file is created, written and flushed without the lock.
WriteTemp(s, ok) ==
  /\ At(s, "writing") /\ (ok \/ "temp" \in Faults)
  /\ IF ok THEN Goto(s, "written") ELSE Return(s)
  /\ UNCHANGED <<doc, disk, coordinatorVars, lock, journalVars, roomVars,
                 degraded, historyVars>>

\* Mutation: what was true before the temporary file was written still is.
EnterUnchecked(s) == Goto(s, "locked") /\ lock' = s

\* The second supersession check, under the lock that is then kept.
Enter(s) ==
  IF Superseded(s)
  THEN Return(s) /\ UNCHANGED lock
  ELSE Goto(s, "locked") /\ lock' = s

TakeLock(s) ==
  /\ At(s, "written") /\ lock = NoSaver
  /\ Enter(s)
  /\ UNCHANGED <<doc, disk, coordinatorVars, journalVars, roomVars,
                 degraded, historyVars>>

\* prepare_file_checkpoint: the intent goes into the journal first.
Prepare(s, outcome) ==
  /\ At(s, "locked")
  /\ IF manifest.pending.seq # 0
     THEN outcome = "ok" /\ UNCHANGED journalVars
     ELSE JournalAppend(WithIntent(manifest, Target(s)), outcome)
  /\ IF manifest.pending.seq = 0 /\ outcome = "ok"
     THEN Goto(s, "prepared") /\ UNCHANGED <<lock, degraded>>
     ELSE Return(s) /\ lock' = NoSaver /\ Degrade
  /\ UNCHANGED <<doc, disk, coordinatorVars, roomVars, historyVars>>

\* replace_temp: a rename, then a flush of the directory.  An error of either
\* gives the lock back and has the intent aborted.
Replace(s, result) ==
  /\ At(s, "prepared") /\ result \in {"ok"} \cup (Faults \cap {"rename", "dirsync"})
  /\ IF result = "rename"
     THEN UNCHANGED <<disk, diskSeq>>
     ELSE disk' = saver[s].rev /\ diskSeq' = saver[s].seq
  /\ IF result = "ok"
     THEN Goto(s, "replaced") /\ UNCHANGED lock
     ELSE Goto(s, "aborting") /\ lock' = NoSaver
  /\ UNCHANGED <<doc, coordinatorVars, journalVars, roomVars, degraded,
                 acked, external, crashes, regressed>>

\* abort_file_checkpoint, after the lock was given back.
Abort(s, outcome) ==
  /\ At(s, "aborting")
  /\ IF manifest.pending.seq # saver[s].seq
     THEN outcome = "ok" /\ UNCHANGED journalVars
     ELSE JournalAppend(DroppingIntent(manifest), outcome)
  /\ IF outcome # "ok" \/ manifest.pending.seq \notin {0, saver[s].seq}
     THEN Degrade ELSE UNCHANGED degraded
  /\ Return(s)
  /\ UNCHANGED <<doc, disk, coordinatorVars, lock, roomVars, historyVars>>

\* Mutation: the save succeeds although its record failed.
CommitReportsAnyway(outcome) == TRUE

CommitReports(outcome) == outcome = "ok"

\* commit_file_checkpoint inside the replace section.  The barrier moves in
\* any case: the new file is visible.
Commit(s, outcome) ==
  /\ At(s, "replaced")
  /\ barrier' = saver[s].seq /\ lock' = NoSaver
  /\ IF IntentMismatch(Target(s))
     THEN outcome = "ok" /\ UNCHANGED journalVars
     ELSE JournalAppend(CommittedManifest(Target(s)), outcome)
  /\ IF CommitReports(outcome) /\ ~IntentMismatch(Target(s))
     THEN Goto(s, "saved") /\ checkpoint' = Target(s) /\ UNCHANGED degraded
     ELSE Return(s) /\ Degrade /\ UNCHANGED checkpoint
  /\ UNCHANGED <<doc, disk, reserved, roomVars, historyVars>>

-----------------------------------------------------------------------------
(* What follows the blocking worker.                                       *)

\* An already current save commits its checkpoint again, outside the lock.
CommitExisting(s, outcome) ==
  /\ At(s, "current")
  /\ LET target == saver[s].current
         reflected == manifest = CommittedManifest(target)
         refused == IntentMismatch(target)
     IN  /\ IF reflected \/ refused
            THEN outcome = "ok" /\ UNCHANGED <<journalVars, regressed>>
            ELSE /\ JournalAppend(CommittedManifest(target), outcome)
                 /\ regressed' = (regressed \/ (outcome # "lost" /\ target.seq < manifest.seq))
         /\ IF refused \/ outcome # "ok"
            THEN Degrade /\ UNCHANGED acked
            ELSE /\ UNCHANGED degraded
                 /\ acked' = IF target.seq > acked THEN target.seq ELSE acked
  /\ Return(s)
  /\ UNCHANGED <<doc, disk, coordinatorVars, lock, roomVars, diskSeq, external, crashes>>

\* Mutation: the last continuation to run sets the baseline.
NoteBaselineLast(seq, rev) == known' = rev /\ baseline' = seq

\* note_primary_save_baseline.
NoteBaseline(seq, rev) ==
  IF baseline > seq THEN UNCHANGED roomVars ELSE known' = rev /\ baseline' = seq

\* The rest of a save that succeeded: mark_load_recovered lifts a degradation
\* that is not a source conflict, the watcher baseline follows the file, and
\* the client is answered.
Finish(s) ==
  /\ At(s, "saved")
  /\ degraded' = IF degraded = "conflict" THEN degraded ELSE "no"
  /\ NoteBaseline(saver[s].seq, saver[s].rev)
  /\ acked' = IF saver[s].seq > acked THEN saver[s].seq ELSE acked
  /\ Return(s)
  /\ UNCHANGED <<doc, disk, coordinatorVars, lock, journalVars, diskSeq,
                 external, crashes, regressed>>

-----------------------------------------------------------------------------
(* The room around the saves.                                              *)

\* A peer's change is made durable with a record of the current manifest.
Edit ==
  /\ degraded = "no" /\ doc < MaxRevisions
  /\ doc' = doc + 1
  /\ journal' = manifest
  /\ UNCHANGED <<disk, coordinatorVars, lock, saver, manifest, journalFailed,
                 roomVars, degraded, historyVars>>

\* Another program writes the file.
ExternalEdit ==
  /\ external < MaxExternal
  /\ disk' = External /\ external' = external + 1
  /\ UNCHANGED <<doc, coordinatorVars, lock, saver, journalVars, roomVars,
                 degraded, diskSeq, acked, crashes, regressed>>

\* resolve_recovered_file_checkpoint: the file tells whether it was replaced.
Resolved(m) ==
  IF disk = m.pending.rev THEN CommittedManifest(m.pending) ELSE DroppingIntent(m)

\* Mutation: the intent is not consulted.
ExplainsBySource(m, content) == content = m.source

\* Does the record account for the content of the file?  RecoveryJournal::load.
Explains(m, content) ==
  content = m.source \/ (m.pending.seq # 0 /\ content = m.pending.rev)

\* Mutation: a restarted room numbers its saves from the start.
ReservedFromZero(m) == 0

\* restore: sequence numbers continue behind the recorded checkpoint.
RestoredSequence(m) == m.seq

\* The daemon dies and a new one opens the room: the journal's last record is
\* the manifest, an intent in it is resolved with an append of its own, and
\* the coordinator continues from the recorded checkpoint.
Restart(outcome) ==
  /\ crashes < MaxCrashes
  /\ crashes' = crashes + 1
  /\ LET resolvable == journal.pending.seq # 0 /\ Explains(journal, disk)
         m == IF resolvable THEN Resolved(journal) ELSE journal
     IN  /\ outcome = "ok" \/ (resolvable /\ "append" \in Faults)
         /\ manifest' = IF outcome = "ok" THEN m ELSE journal
         /\ journal' = IF outcome = "lost" THEN journal ELSE m
         /\ degraded' = IF ~Explains(journal, disk) THEN "conflict"
                        ELSE IF outcome = "ok" THEN "no" ELSE "degraded"
  /\ journalFailed' = (outcome # "ok")
  /\ reserved' = RestoredSequence(manifest') /\ barrier' = manifest'.seq
  /\ checkpoint' = [rev |-> IF manifest'.seq = 0 THEN Original ELSE manifest'.source,
                    seq |-> manifest'.seq]
  /\ known' = disk /\ baseline' = manifest'.seq
  /\ saver' = [s \in Savers |-> IdleSaver] /\ lock' = NoSaver
  /\ UNCHANGED <<doc, disk, diskSeq, acked, external, regressed>>

\* Nothing is being saved.
Rest == (\A s \in Savers : At(s, "idle")) /\ UNCHANGED vars

-----------------------------------------------------------------------------
Save(s) ==
  \/ Claim(s)
  \/ CheckAvailability(s)
  \/ CheckDisk(s)
  \/ Capture(s)
  \/ Bind(s)
  \/ AlreadyCurrent(s)
  \/ \E ok \in BOOLEAN : WriteTemp(s, ok)
  \/ TakeLock(s)
  \/ \E o \in AppendOutcomes : Prepare(s, o)
  \/ \E r \in {"ok", "rename", "dirsync"} : Replace(s, r)
  \/ \E o \in AppendOutcomes : Abort(s, o)
  \/ \E o \in AppendOutcomes : Commit(s, o)
  \/ \E o \in AppendOutcomes : CommitExisting(s, o)
  \/ Finish(s)

Next ==
  \/ \E s \in Savers : Save(s)
  \/ Edit
  \/ ExternalEdit
  \/ \E o \in AppendOutcomes : Restart(o)
  \/ Rest

Spec == Init /\ [][Next]_vars

-----------------------------------------------------------------------------
(* Properties.                                                             *)

\* Types of the variables.
TypeOK ==
  /\ doc \in 1 .. MaxRevisions /\ disk \in Contents
  /\ reserved \in 0 .. MaxSaves /\ barrier \in 0 .. reserved
  /\ checkpoint \in Targets /\ lock \in Savers \cup {NoSaver}
  /\ saver \in [Savers -> SaverRecords]
  /\ manifest \in Manifests /\ journal \in Manifests
  /\ known \in Contents /\ baseline \in 0 .. MaxSaves
  /\ degraded \in {"no", "degraded", "conflict"}
  /\ diskSeq \in 0 .. MaxSaves /\ acked \in 0 .. MaxSaves
  /\ external \in 0 .. MaxExternal /\ crashes \in 0 .. MaxCrashes
  /\ journalFailed \in BOOLEAN /\ regressed \in BOOLEAN

\* The file is never replaced by a save claimed before the one it holds, also
\* across restarts: the second supersession check of complete_with_callbacks.
\* (A regressed journal makes a restart reuse sequence numbers.)
DiskNeverOlder == [][regressed \/ diskSeq' >= diskSeq]_vars

\* At every moment, so also at a crash, the last journal record accounts for
\* the content of the file by its source or its intent, unless another program
\* wrote the file or an already current save put an older checkpoint back.
JournalExplainsDisk ==
  external = 0 /\ ~regressed => Explains(journal, disk)

\* A restart declares a source conflict only if there was an external edit, or
\* after such a checkpoint regression.
ConflictHasCause == degraded = "conflict" => external > 0 \/ regressed

\* What a client was told is saved survives every crash: the journal has that
\* checkpoint or a newer one.
AckedIsDurable == regressed \/ acked <= journal.seq

\* When no save is under way and the journal never failed, the staleness
\* baseline is the file: continuations that run out of order cannot leave the
\* room refusing its own bytes as an external change.
BaselineSettles ==
  (\A s \in Savers : At(s, "idle")) /\ external = 0 /\ ~journalFailed => known = disk

\* An intent blocks every other save, so one always belongs to a save that will
\* drop or commit it, unless the journal failed or the restart found a conflict.
NoLeakedIntent ==
  manifest.pending.seq = 0 \/ journalFailed \/ degraded = "conflict"
    \/ \E s \in Savers : /\ saver[s].stage \in {"prepared", "replaced", "aborting"}
                         /\ Target(s) = manifest.pending

\* What the documentation of complete_reserved_with_durable_intent claims: no
\* conflict is manufactured at a restart when nobody else wrote the file.
ConflictIsReal == degraded = "conflict" => external > 0

=============================================================================
