----------------------------- MODULE RoomEviction -----------------------------
(***************************************************************************)
(* The idle end of a notebook room's life: peers that find the room in the *)
(* registry, join and leave it (peer_connection.rs), the teardown task     *)
(* that the last one to leave schedules (peer_eviction.rs), the automatic  *)
(* launch and its follower as far as they touch the room's kernel, and the *)
(* reaper that removes an idle room (daemon.rs).                           *)
(*                                                                         *)
(* What keeps them apart is a handful of counters: a peer takes its        *)
(* reservation under the registry lock, but counts itself, moves the       *)
(* connection generation and clears the teardown stamp without it; the     *)
(* teardown and the reaper read all of them under that lock and act on     *)
(* what they read.  One action is what a task does between two awaits.     *)
(*                                                                         *)
(* KernelLaunch has the launch itself; here the kernel is there or not,    *)
(* and an attempt runs, or is cancelled and has to settle.                 *)
(***************************************************************************)
EXTENDS Integers, Sequences

CONSTANTS
  Peers,           \* connections that come and go, one session at a time each
  MaxSessions,     \* bound: sessions
  MaxFaults,       \* bound: flushes and journal barriers that fail
  HandshakeFaults  \* what may fail after the room is found: "seed", "capabilities"

ASSUME BoundsAssumption ==
  /\ MaxSessions \in Nat \ {0} /\ MaxFaults \in Nat
  /\ HandshakeFaults \subseteq {"seed", "capabilities"}

SessionSteps == {"out", "found", "entered", "counted", "first", "greeting", "in", "left"}
TaskSteps == {"delay", "flush", "fence", "cancel", "agent", "drop", "settle",
              "load", "env", "stamp", "done"}
AttemptSteps == {"none", "asked", "releasing", "starting", "cancelled"}
ReaperSteps == {"idle", "kernel", "barrier", "flush", "remove", "autosave"}

VARIABLES
  \* RoomConnections, atomics.
  activePeers,  \* active_peers
  stamped,      \* last_kernel_torn_down_at is set
  generation,   \* connection_generation
  latch,        \* kernel_teardown_destructive
  \* The room.
  resident,     \* the registry has it
  evicted,      \* is_evicted
  healthy,      \* its durability needs no repair
  kernel,       \* runtime_agent_handle holds a live agent
  attempt,      \* where the launch in flight stands, "none" if there is none
  retry,        \* the follower of a launch: "none", "waiting", "due" or "sawPeer"
  \* The tasks.
  session,      \* where each peer's connection stands
  tasks,        \* the teardown tasks, in the order they were spawned
  reaper,       \* [at, gen]: where the sweep stands, and the generation it sampled
  \* Bounds.
  sessions, faults

connections == <<activePeers, stamped, generation, latch>>
launch == <<kernel, attempt, retry>>
place == <<resident, evicted, healthy>>
bounds == <<sessions, faults>>
vars == <<connections, place, launch, session, tasks, reaper, bounds>>

\* A task that has returned, and a sweep that is over, have forgotten the
\* generation they read.
Done == [at |-> "done", gen |-> 0, waits |-> FALSE]
Idle == [at |-> "idle", gen |-> 0]

Init ==
  /\ activePeers = 0 /\ stamped = TRUE /\ generation = 0 /\ latch = FALSE
  /\ resident = TRUE /\ evicted = FALSE /\ healthy = TRUE
  /\ kernel = FALSE /\ attempt = "none" /\ retry = "none"
  /\ session = [p \in Peers |-> "out"]
  /\ tasks = <<>>
  /\ reaper = Idle
  /\ sessions = 0 /\ faults = 0

\* reservations: each connection holds its guard until its handler returns.
Reserved == \E p \in Peers : session[p] # "out"

At(p, from, to) == session[p] = from /\ session' = [session EXCEPT ![p] = to]

----------------------------------------------------------------------------
(***************************************************************************)
(* A peer's connection.                                                    *)
(***************************************************************************)

\* lookup_path, lookup_uuid: the room and a reservation, under the registry lock.
PeerFinds(p) ==
  /\ resident /\ sessions < MaxSessions
  /\ At(p, "out", "found")
  /\ sessions' = sessions + 1
  /\ UNCHANGED <<connections, place, launch, tasks, reaper, faults>>

\* The connection claims the room before its first await.
PeerEnters(p) ==
  /\ At(p, "found", "entered")
  /\ generation' = generation + 1
  /\ stamped' = FALSE
  /\ UNCHANGED <<activePeers, latch, place, launch, tasks, reaper, bounds>>

\* It seeds the metadata, and returns if that cannot be journaled; otherwise it
\* counts itself.
PeerCounts(p) ==
  \E seeded \in {TRUE} \cup {fault # "seed" : fault \in HandshakeFaults} :
    /\ activePeers' = IF seeded THEN activePeers + 1 ELSE activePeers
    /\ stamped' = (stamped /\ ~seeded)
    /\ generation' = IF seeded THEN generation + 1 ELSE generation
    /\ At(p, "entered", IF seeded THEN "counted" ELSE "out")
    /\ UNCHANGED <<latch, place, launch, tasks, reaper, bounds>>

\* The count is read in an atomic of its own, another thread's counting between
\* the two; the peer that reads itself alone goes on to the kernel.
PeerReadsCount(p) ==
  /\ At(p, "counted", IF activePeers = 1 THEN "first" ELSE "greeting")
  /\ UNCHANGED <<connections, place, launch, tasks, reaper, bounds>>

\* try_begin_auto_launch: one attempt at a time; whoever finds one in flight
\* leaves a follower, unless there is one.
AskForKernel ==
  IF attempt = "none" THEN attempt' = "asked" /\ UNCHANGED retry
  ELSE retry' = (IF retry = "none" THEN "waiting" ELSE retry) /\ UNCHANGED attempt

\* The first peer launches a kernel unless there is one that is not being torn
\* down, or the notebook is hosted or not trusted.
PeerDecides(p) ==
  /\ At(p, "first", "greeting")
  /\ \/ (~kernel \/ latch) /\ AskForKernel
     \/ UNCHANGED <<attempt, retry>>
  /\ UNCHANGED <<connections, place, kernel, tasks, reaper, bounds>>

\* The capabilities go out unless the handshake already sent them; a peer that
\* has gone away makes the handler return.
PeerGreets(p) ==
  /\ \E sent \in {TRUE} \cup {fault # "capabilities" : fault \in HandshakeFaults} :
       At(p, "greeting", IF sent THEN "in" ELSE "out")
  /\ UNCHANGED <<connections, place, launch, tasks, reaper, bounds>>

\* handle_peer_disconnect: the last one reads the eviction delay, an await.
PeerLeaves(p) ==
  /\ At(p, "in", IF activePeers = 1 THEN "left" ELSE "out")
  /\ activePeers' = activePeers - 1
  /\ UNCHANGED <<stamped, generation, latch, place, launch, tasks, reaper, bounds>>

\* Mutation: the peer is counted out a second time.
PeerSchedulesTwice(p) ==
  /\ At(p, "left", "out")
  /\ activePeers' = activePeers - 1
  /\ tasks' = Append(tasks, [at |-> "delay", gen |-> generation, waits |-> FALSE])
  /\ UNCHANGED <<stamped, generation, latch, place, launch, reaper, bounds>>

\* It snapshots the generation and spawns the teardown.
PeerSchedules(p) ==
  /\ At(p, "left", "out")
  /\ tasks' = Append(tasks, [at |-> "delay", gen |-> generation, waits |-> FALSE])
  /\ UNCHANGED <<connections, place, launch, reaper, bounds>>

----------------------------------------------------------------------------
(***************************************************************************)
(* The automatic launch (KernelLaunch in outline).                         *)
(***************************************************************************)

\* An attempt has an outcome: whoever waits for it goes on.
Settled(ts) == [i \in DOMAIN ts |-> [ts[i] EXCEPT !.waits = FALSE]]
AttemptEnds ==
  /\ tasks' = Settled(tasks)
  /\ retry' = IF retry = "waiting" THEN "due" ELSE retry

\* auto_launch_kernel_attempt gives up when the peers have left ...
AttemptBegins ==
  /\ attempt = "asked"
  /\ attempt' = IF activePeers = 0 THEN "releasing" ELSE "starting"
  /\ UNCHANGED <<connections, place, kernel, retry, session, tasks, reaper, bounds>>

\* ... resets the room, its agent included, and lets go of the gate, or is
\* readmitted for a peer that is back.
AttemptReleases ==
  /\ attempt = "releasing"
  /\ attempt' = IF activePeers = 0 THEN "none" ELSE "asked"
  /\ kernel' = FALSE
  /\ AttemptEnds
  /\ UNCHANGED <<connections, place, session, reaper, bounds>>

\* It waits for the latch, for ten seconds at most, and is skipped if there
\* still is an agent; otherwise the kernel comes up, or fails to.
AttemptRuns ==
  /\ attempt = "starting"
  /\ kernel' \in (IF kernel THEN {TRUE} ELSE BOOLEAN)
  /\ attempt' = "none"
  /\ AttemptEnds
  /\ UNCHANGED <<connections, place, session, reaper, bounds>>

\* A cancelled attempt gets to its next checkpoint, or is dropped: its agent,
\* or whichever is in the slot, goes with it.
AttemptSettles ==
  /\ attempt = "cancelled"
  /\ attempt' = "none"
  /\ kernel' = FALSE
  /\ AttemptEnds
  /\ UNCHANGED <<connections, place, session, reaper, bounds>>

\* The follower waits for the attempt it followed, whatever is in flight by then,
\* and for the latch, for ten seconds at most, and looks for a peer ...
FollowerLooks ==
  /\ retry = "due"
  /\ retry' = IF latch \/ activePeers = 0 THEN "none" ELSE "sawPeer"
  /\ UNCHANGED <<connections, place, kernel, attempt, session, tasks, reaper, bounds>>

\* ... and, awaits later, asks if there is no kernel and no attempt.
FollowerAsks ==
  /\ retry = "sawPeer"
  /\ retry' = "none"
  /\ attempt' = IF attempt = "none" /\ ~kernel THEN "asked" ELSE attempt
  /\ UNCHANGED <<connections, place, kernel, session, tasks, reaper, bounds>>

----------------------------------------------------------------------------
(***************************************************************************)
(* The teardown task.                                                      *)
(***************************************************************************)

Goes(i, from, to) ==
  /\ tasks[i].at = from
  /\ tasks' = [tasks EXCEPT ![i] = IF to = "done" THEN Done ELSE [tasks[i] EXCEPT !.at = to]]

\* teardown_fence_holds, read inside serialize_with.
Fence(i) == activePeers = 0 /\ generation = tasks[i].gen /\ ~evicted

\* The delay is over: a peer that is back cancels the teardown.
TaskWakes(i) ==
  /\ Goes(i, "delay", IF activePeers > 0 THEN "done" ELSE "flush")
  /\ UNCHANGED <<connections, place, launch, session, reaper, bounds>>

\* Mutation: a flush that fails ends the teardown.
TaskFlushesOnce(i) ==
  /\ \/ Goes(i, "flush", "fence") /\ UNCHANGED faults
     \/ Goes(i, "flush", "done") /\ faults < MaxFaults /\ faults' = faults + 1
  /\ UNCHANGED <<connections, place, launch, session, reaper, sessions>>

\* The flush of the persist debouncer; one that fails backs off and is retried.
TaskFlushes(i) ==
  /\ \/ Goes(i, "flush", "fence") /\ UNCHANGED faults
     \/ Goes(i, "flush", "delay") /\ faults < MaxFaults /\ faults' = faults + 1
  /\ UNCHANGED <<connections, place, launch, session, reaper, sessions>>

\* The fence, twice in a row; with the second the latch, in one section.
TaskLatches(i) ==
  /\ Goes(i, "fence", IF Fence(i) THEN "cancel" ELSE "done")
  /\ latch' = (latch \/ Fence(i))
  /\ UNCHANGED <<activePeers, stamped, generation, place, launch, session,
                 reaper, bounds>>

\* begin_teardown cancels the attempt in flight, to be waited for below.
TaskCancels(i) ==
  /\ tasks[i].at = "cancel"
  /\ tasks' = [tasks EXCEPT ![i] = [at |-> "agent", gen |-> tasks[i].gen,
                                    waits |-> attempt # "none"]]
  /\ attempt' = IF attempt = "none" THEN "none" ELSE "cancelled"
  /\ UNCHANGED <<connections, place, kernel, retry, session, reaper, bounds>>

\* An agent to shut down gets the ShutdownKernel request.
TaskLooksForAgent(i) ==
  /\ Goes(i, "agent", IF kernel THEN "drop" ELSE "settle")
  /\ UNCHANGED <<connections, place, launch, session, reaper, bounds>>

\* Answered or timed out, the handle and the request channel are dropped.
TaskDropsAgent(i) ==
  /\ Goes(i, "drop", "settle")
  /\ kernel' = FALSE
  /\ UNCHANGED <<connections, place, attempt, retry, session, reaper, bounds>>

\* Mutation: the latch is not cleared when a peer has come back.
TaskKeepsLatch(i) ==
  /\ ~tasks[i].waits
  /\ Goes(i, "settle", "load")
  /\ latch' = (latch /\ ~Fence(i))
  /\ UNCHANGED <<activePeers, stamped, generation, place, launch, session,
                 reaper, bounds>>

\* The cancelled attempt is waited for, and aborted if it is too slow; then the
\* destructive section is over.
TaskReleasesLatch(i) ==
  /\ ~tasks[i].waits
  /\ Goes(i, "settle", "load")
  /\ latch' = FALSE
  /\ UNCHANGED <<activePeers, stamped, generation, place, launch, session,
                 reaper, bounds>>

\* The initial load has settled or timed out: fence, then the final save.
TaskSaves(i) ==
  /\ Goes(i, "load", IF Fence(i) THEN "env" ELSE "done")
  /\ UNCHANGED <<connections, place, launch, session, reaper, bounds>>

\* Fence, then the environment is deleted.
TaskCleansEnv(i) ==
  /\ Goes(i, "env", IF Fence(i) THEN "stamp" ELSE "done")
  /\ UNCHANGED <<connections, place, launch, session, reaper, bounds>>

\* Mutation: the stamp is not fenced.
TaskStampsAnyway(i) ==
  /\ Goes(i, "stamp", "done")
  /\ stamped' = TRUE
  /\ UNCHANGED <<activePeers, generation, latch, place, launch, session,
                 reaper, bounds>>

\* The stamp that lets the reaper find the room, behind the fence.
TaskStamps(i) ==
  /\ Goes(i, "stamp", "done")
  /\ stamped' = (stamped \/ Fence(i))
  /\ UNCHANGED <<activePeers, generation, latch, place, launch, session,
                 reaper, bounds>>

----------------------------------------------------------------------------
(***************************************************************************)
(* The reaper, for this room.                                              *)
(***************************************************************************)

Sweeps(from, to) ==
  /\ reaper.at = from
  /\ reaper' = IF to = "idle" THEN Idle ELSE [reaper EXCEPT !.at = to]

\* The room is a candidate: stamped long enough ago, or one too many.
ReaperSamples ==
  /\ reaper.at = "idle" /\ resident
  /\ stamped /\ activePeers = 0 /\ healthy
  /\ reaper' = [at |-> "kernel", gen |-> generation]
  /\ UNCHANGED <<connections, place, launch, session, tasks, bounds>>

\* A kernel keeps the room.
ReaperChecksKernel ==
  /\ Sweeps("kernel", IF kernel THEN "idle" ELSE "barrier")
  /\ UNCHANGED <<connections, place, launch, session, tasks, bounds>>

\* The journal barrier for the heads the document has now; a failure degrades
\* the room and keeps it.
ReaperCommits ==
  /\ \/ Sweeps("barrier", "flush") /\ UNCHANGED <<healthy, faults>>
     \/ /\ Sweeps("barrier", "idle") /\ faults < MaxFaults /\ faults' = faults + 1
        /\ healthy' = FALSE
  /\ UNCHANGED <<connections, resident, evicted, launch, session, tasks, sessions>>

\* The flush of the persist debouncer; the next sweep tries again.
ReaperFlushes ==
  /\ \/ Sweeps("flush", "remove") /\ UNCHANGED faults
     \/ Sweeps("flush", "idle") /\ faults < MaxFaults /\ faults' = faults + 1
  /\ UNCHANGED <<connections, place, launch, session, tasks, sessions>>

\* Mutation: a handshake in progress does not count.
IdleUnlessCounted ==
  activePeers = 0 /\ generation = reaper.gen /\ stamped /\ healthy

\* The predicate of remove_if, under the registry lock.
StillIdle ==
  /\ activePeers = 0 /\ ~Reserved
  /\ generation = reaper.gen
  /\ stamped /\ healthy

ReaperRemoves ==
  /\ Sweeps("remove", IF StillIdle THEN "autosave" ELSE "idle")
  /\ resident' = ~StillIdle
  /\ UNCHANGED <<connections, evicted, healthy, launch, session, tasks, bounds>>

\* The autosave task has saved and stopped, or timed out; the room hands over
\* its path.
ReaperEvicts ==
  /\ Sweeps("autosave", "idle")
  /\ evicted' = TRUE
  /\ UNCHANGED <<connections, resident, healthy, launch, session, tasks, bounds>>

----------------------------------------------------------------------------
Handshakes == \E p \in Peers :
  \/ PeerEnters(p) \/ PeerCounts(p) \/ PeerReadsCount(p) \/ PeerDecides(p) \/ PeerGreets(p)
  \/ PeerSchedules(p)
Launches ==
  AttemptBegins \/ AttemptReleases \/ AttemptRuns \/ AttemptSettles \/ FollowerLooks \/ FollowerAsks
TearsDown == \E i \in DOMAIN tasks :
  \/ TaskWakes(i) \/ TaskFlushes(i) \/ TaskLatches(i) \/ TaskCancels(i)
  \/ TaskLooksForAgent(i) \/ TaskDropsAgent(i) \/ TaskReleasesLatch(i)
  \/ TaskSaves(i) \/ TaskCleansEnv(i) \/ TaskStamps(i)
Reaps == ReaperSamples \/ ReaperChecksKernel \/ ReaperCommits \/ ReaperFlushes
         \/ ReaperRemoves \/ ReaperEvicts
Visits == \E p \in Peers : PeerFinds(p) \/ PeerLeaves(p)

Next == Handshakes \/ Launches \/ TearsDown \/ Reaps \/ Visits

\* The executor runs every task that can go on, and every wait of a handshake,
\* a launch or a teardown has a deadline.  Peers and the reaper owe nothing.
Spec == Init /\ [][Next]_vars /\ WF_vars(Handshakes \/ Launches \/ TearsDown)

----------------------------------------------------------------------------
(***************************************************************************)
(* Properties.                                                             *)
(***************************************************************************)

\* The room's counters and slots, and the tasks, have values the code can hold.
TypeOK ==
  /\ activePeers \in 0 .. MaxSessions /\ generation \in 0 .. 2 * MaxSessions
  /\ stamped \in BOOLEAN /\ latch \in BOOLEAN
  /\ resident \in BOOLEAN /\ evicted \in BOOLEAN /\ healthy \in BOOLEAN
  /\ kernel \in BOOLEAN
  /\ attempt \in AttemptSteps /\ retry \in {"none", "waiting", "due", "sawPeer"}
  /\ session \in [Peers -> SessionSteps]
  /\ tasks \in Seq([at : TaskSteps, gen : 0 .. 2 * MaxSessions, waits : BOOLEAN])
  /\ reaper \in [at : ReaperSteps, gen : 0 .. 2 * MaxSessions]
  /\ sessions \in 0 .. MaxSessions /\ faults \in 0 .. MaxFaults

\* A room the reaper has removed is nobody's: no connection holds it, not even
\* one whose handshake has just begun, and it has no kernel, which no teardown
\* would ever stop: "A peer that reconnects between the snapshot pass and the
\* remove pass keeps its room" (daemon.rs, ghost_room_reaper_loop).
RemovedIsUnused == ~resident => ~Reserved /\ ~kernel

\* The stamp says that the teardown is over: no peer is counted, no kernel runs
\* and no launch is about to start one.  The reaper and the file-claim
\* reconciler take it for that (last_kernel_torn_down_at).
StampedIsIdle == stamped => activePeers = 0 /\ ~kernel /\ attempt # "starting"

\* The destructive latch is always cleared in the end, whatever comes back, or
\* every later connect would launch over a live kernel (peer_eviction.rs).
LatchCleared == latch ~> ~latch

\* The kernel of a room that everyone has left is stopped in the end, unless
\* somebody comes back: a stale generation stops a teardown only if a later one
\* takes over ("Without this, kernels would leak indefinitely", peer_eviction.rs).
KernelReclaimed == (kernel /\ ~Reserved) ~> (~kernel \/ Reserved)

=============================================================================
