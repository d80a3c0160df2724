------------------------- MODULE RoomEviction_proofs -------------------------
(***************************************************************************)
(* Proofs about RoomEviction, for every set of peers, every bound and      *)
(* every set of handshake faults.                                          *)
(***************************************************************************)
EXTENDS RoomEviction, FiniteSetTheorems, SequenceTheorems, TLAPS

-----------------------------------------------------------------------------
(* The counters.  A type invariant that bounds them has to know what the    *)
(* handshakes still owe: a connection that has found the room will move the *)
(* generation twice and count itself once, and one that is counted will     *)
(* count itself out.                                                        *)

\* The peers whose connection stands at one of the steps S.
AtSteps(S) == {p \in Peers : session[p] \in S}
Found == AtSteps({"found"})
Entered == AtSteps({"entered"})
Counted == AtSteps({"counted", "first", "greeting", "in"})

CountInv ==
  /\ IsFiniteSet(Found) /\ IsFiniteSet(Entered) /\ IsFiniteSet(Counted)
  /\ Cardinality(Counted) <= activePeers
  /\ activePeers + Cardinality(Found) + Cardinality(Entered) <= sessions
  /\ generation + 2 * Cardinality(Found) + Cardinality(Entered) <= 2 * sessions

TaskType == [at : TaskSteps, gen : 0 .. 2 * MaxSessions, waits : BOOLEAN]

\* The types, variable group by variable group.
CountersType ==
  /\ activePeers \in 0 .. MaxSessions /\ generation \in 0 .. 2 * MaxSessions
  /\ sessions \in 0 .. MaxSessions
FlagsType == stamped \in BOOLEAN /\ latch \in BOOLEAN
PlaceType == resident \in BOOLEAN /\ evicted \in BOOLEAN /\ healthy \in BOOLEAN
LaunchType ==
  /\ kernel \in BOOLEAN
  /\ attempt \in AttemptSteps /\ retry \in {"none", "waiting", "due", "sawPeer"}
SessionType == session \in [Peers -> SessionSteps]
TasksType == tasks \in Seq(TaskType)
ReaperType == reaper \in [at : ReaperSteps, gen : 0 .. 2 * MaxSessions]
FaultsType == faults \in 0 .. MaxFaults

\* The groups together are the type invariant, before a step and after it.
LEMMA TypeGroups ==
  /\ TypeOK <=> /\ CountersType /\ FlagsType /\ PlaceType /\ LaunchType
                /\ SessionType /\ TasksType /\ ReaperType /\ FaultsType
  /\ TypeOK' <=> /\ CountersType' /\ FlagsType' /\ PlaceType' /\ LaunchType'
                 /\ SessionType' /\ TasksType' /\ ReaperType' /\ FaultsType'
BY DEF TypeOK, CountersType, FlagsType, PlaceType, LaunchType, SessionType,
       TasksType, ReaperType, FaultsType, TaskType

\* One connection moves: a set of steps loses it or gains it.
LEMMA MoveCounts ==
  ASSUME NEW S, NEW p \in Peers, NEW to, SessionType,
         session' = [session EXCEPT ![p] = to], IsFiniteSet(AtSteps(S))
  PROVE  /\ IsFiniteSet(AtSteps(S)')
         /\ Cardinality(AtSteps(S)) \in Nat /\ Cardinality(AtSteps(S)') \in Nat
         /\ Cardinality(AtSteps(S)') =
              Cardinality(AtSteps(S)) - (IF session[p] \in S THEN 1 ELSE 0)
                                      + (IF to \in S THEN 1 ELSE 0)
         /\ session[p] \in S => Cardinality(AtSteps(S)) > 0
<1> DEFINE rest == AtSteps(S) \ {p}
<1>1. IsFiniteSet(rest) /\ Cardinality(AtSteps(S)) \in Nat
      /\ Cardinality(rest) = IF session[p] \in S THEN Cardinality(AtSteps(S)) - 1
                             ELSE Cardinality(AtSteps(S))
  <2>1. p \in AtSteps(S) <=> session[p] \in S
    BY DEF AtSteps
  <2> QED BY <2>1, FS_RemoveElement, FS_CardinalityType
<1>2. Cardinality(rest) \in Nat
  BY <1>1, FS_CardinalityType
<1>3. CASE to \in S
  <2>1. AtSteps(S)' = rest \cup {p}
    BY <1>3 DEF AtSteps, SessionType
  <2>2. p \notin rest
    OBVIOUS
  <2>3. IsFiniteSet(rest \cup {p}) /\ Cardinality(rest \cup {p}) = Cardinality(rest) + 1
    BY <1>1, <2>2, FS_AddElement
  <2> QED BY <1>1, <1>2, <1>3, <2>1, <2>3
<1>4. CASE to \notin S
  <2>1. AtSteps(S)' = rest
    BY <1>4 DEF AtSteps, SessionType
  <2> QED BY <1>1, <1>2, <1>4, <2>1
<1> QED BY <1>3, <1>4

\* What the three counts become when one connection moves.
LEMMA MoveClaims ==
  ASSUME NEW p \in Peers, NEW from, NEW to, SessionType, CountInv, At(p, from, to)
  PROVE  /\ IsFiniteSet(Found') /\ IsFiniteSet(Entered') /\ IsFiniteSet(Counted')
         /\ Cardinality(Found) \in Nat /\ Cardinality(Entered) \in Nat
         /\ Cardinality(Counted) \in Nat
         /\ Cardinality(Found') = Cardinality(Found) - (IF from = "found" THEN 1 ELSE 0)
                                  + (IF to = "found" THEN 1 ELSE 0)
         /\ Cardinality(Entered') = Cardinality(Entered) - (IF from = "entered" THEN 1 ELSE 0)
                                    + (IF to = "entered" THEN 1 ELSE 0)
         /\ Cardinality(Counted')
              = Cardinality(Counted)
                - (IF from \in {"counted", "first", "greeting", "in"} THEN 1 ELSE 0)
                + (IF to \in {"counted", "first", "greeting", "in"} THEN 1 ELSE 0)
         /\ from \in {"counted", "first", "greeting", "in"} => Cardinality(Counted) > 0
<1>1. session[p] = from /\ session' = [session EXCEPT ![p] = to]
  BY DEF At
<1>2. IsFiniteSet(Found) /\ IsFiniteSet(Entered) /\ IsFiniteSet(Counted)
  BY DEF CountInv
<1>3. /\ IsFiniteSet(Found') /\ Cardinality(Found) \in Nat
      /\ Cardinality(Found') = Cardinality(Found) - (IF from \in {"found"} THEN 1 ELSE 0)
                                  + (IF to \in {"found"} THEN 1 ELSE 0)
  BY <1>1, <1>2, MoveCounts DEF Found
<1>4. /\ IsFiniteSet(Entered') /\ Cardinality(Entered) \in Nat
      /\ Cardinality(Entered') = Cardinality(Entered) - (IF from \in {"entered"} THEN 1 ELSE 0)
                                  + (IF to \in {"entered"} THEN 1 ELSE 0)
  BY <1>1, <1>2, MoveCounts DEF Entered
<1>5. /\ IsFiniteSet(Counted') /\ Cardinality(Counted) \in Nat
      /\ Cardinality(Counted')
              = Cardinality(Counted)
                - (IF from \in {"counted", "first", "greeting", "in"} THEN 1 ELSE 0)
                + (IF to \in {"counted", "first", "greeting", "in"} THEN 1 ELSE 0)
      /\ from \in {"counted", "first", "greeting", "in"} => Cardinality(Counted) > 0
  BY <1>1, <1>2, MoveCounts DEF Counted
<1> QED BY <1>3, <1>4, <1>5

\* The invariant leaves the counters within their bounds.
LEMMA CountBounds ==
  ASSUME CountInv', activePeers' \in Nat, generation' \in Nat, sessions' \in 0 .. MaxSessions
  PROVE  CountersType'
<1>1. Cardinality(Found') \in Nat /\ Cardinality(Entered') \in Nat
  BY FS_CardinalityType DEF CountInv
<1>2. MaxSessions \in Nat
  BY BoundsAssumption
<1>3. sessions' \in Nat /\ sessions' <= MaxSessions
  BY <1>2
<1>4. /\ activePeers' + Cardinality(Found') + Cardinality(Entered') <= sessions'
      /\ generation' + 2 * Cardinality(Found') + Cardinality(Entered') <= 2 * sessions'
  BY DEF CountInv
<1>5. \A a, f, e, s \in Nat : a + f + e <= s => a <= s
  OBVIOUS
<1>6. \A g, f, e, s \in Nat : g + 2 * f + e <= 2 * s => g <= 2 * s
  OBVIOUS
<1>7. activePeers' <= sessions'
  BY <1>1, <1>3, <1>4, <1>5
<1>8. generation' <= 2 * sessions'
  BY <1>1, <1>3, <1>4, <1>6
<1>9. activePeers' \in 0 .. MaxSessions
  BY <1>2, <1>3, <1>7
<1>10. \A g, s, m \in Nat : s <= m /\ g <= 2 * s => g \in 0 .. 2 * m
  OBVIOUS
<1>11. generation' \in 0 .. 2 * MaxSessions
  BY <1>2, <1>3, <1>8, <1>10
<1> QED BY <1>9, <1>11 DEF CountersType

\* Whatever leaves the connections and their counters alone keeps the counts.
LEMMA CountKept ==
  ASSUME CountInv, CountersType, SessionType,
         UNCHANGED <<activePeers, generation, session, sessions>>
  PROVE  CountInv' /\ CountersType' /\ SessionType'
BY DEF CountInv, CountersType, SessionType, Found, Entered, Counted, AtSteps

\* A connection's steps keep the counts: what it owes is paid as it goes.
LEMMA CountMoves ==
  ASSUME CountInv, CountersType, SessionType, NEW p \in Peers,
         \/ PeerFinds(p) \/ PeerEnters(p) \/ PeerCounts(p) \/ PeerReadsCount(p) \/ PeerDecides(p)
         \/ PeerGreets(p) \/ PeerLeaves(p) \/ PeerSchedules(p)
  PROVE  CountInv' /\ CountersType' /\ SessionType'
<1> USE DEF CountersType
<1>0. /\ activePeers \in Nat /\ generation \in Nat /\ sessions \in Nat
      /\ MaxSessions \in Nat
      /\ Cardinality(Found) \in Nat /\ Cardinality(Entered) \in Nat
      /\ Cardinality(Counted) \in Nat
      /\ Cardinality(Counted) <= activePeers
      /\ activePeers + Cardinality(Found) + Cardinality(Entered) <= sessions
      /\ generation + 2 * Cardinality(Found) + Cardinality(Entered) <= 2 * sessions
  BY FS_CardinalityType, BoundsAssumption DEF CountInv
<1>1. CASE PeerFinds(p)
  <2>1. At(p, "out", "found") /\ sessions' = sessions + 1 /\ sessions < MaxSessions
        /\ UNCHANGED <<activePeers, generation>>
    BY <1>1 DEF PeerFinds, connections
  <2>2. CountInv'
    BY <1>0, <2>1, MoveClaims DEF CountInv
  <2>3. SessionType'
    BY <2>1 DEF SessionType, At, SessionSteps
  <2> QED BY <1>0, <2>1, <2>2, <2>3, CountBounds
<1>2. CASE PeerEnters(p)
  <2>1. At(p, "found", "entered") /\ generation' = generation + 1
        /\ UNCHANGED <<activePeers, sessions>>
    BY <1>2 DEF PeerEnters, bounds
  <2>2. CountInv'
    BY <1>0, <2>1, MoveClaims DEF CountInv
  <2>3. SessionType'
    BY <2>1 DEF SessionType, At, SessionSteps
  <2> QED BY <1>0, <2>1, <2>2, <2>3, CountBounds
<1>3. CASE PeerCounts(p)
  <2>1. UNCHANGED sessions
    BY <1>3 DEF PeerCounts, bounds
  <2>2. CASE At(p, "entered", "out") /\ UNCHANGED <<activePeers, generation>>
    <3>1. CountInv'
      BY <1>0, <2>1, <2>2, MoveClaims DEF CountInv
    <3>2. SessionType'
      BY <2>2 DEF SessionType, At, SessionSteps
    <3> QED BY <1>0, <2>1, <2>2, <3>1, <3>2, CountBounds
  <2>3. CASE /\ At(p, "entered", "counted")
             /\ activePeers' = activePeers + 1 /\ generation' = generation + 1
    <3>1. CountInv'
      BY <1>0, <2>1, <2>3, MoveClaims DEF CountInv
    <3>2. SessionType'
      BY <2>3 DEF SessionType, At, SessionSteps
    <3> QED BY <1>0, <2>1, <2>3, <3>1, <3>2, CountBounds
  <2>4. \/ At(p, "entered", "out") /\ UNCHANGED <<activePeers, generation>>
        \/ /\ At(p, "entered", "counted")
           /\ activePeers' = activePeers + 1 /\ generation' = generation + 1
    BY <1>3 DEF PeerCounts
  <2> QED BY <2>2, <2>3, <2>4
<1>4. CASE PeerDecides(p)
  <2>1. At(p, "first", "greeting") /\ UNCHANGED <<activePeers, generation, sessions>>
    BY <1>4 DEF PeerDecides, bounds, connections
  <2>2. CountInv'
    BY <1>0, <2>1, MoveClaims DEF CountInv
  <2>3. SessionType'
    BY <2>1 DEF SessionType, At, SessionSteps
  <2> QED BY <1>0, <2>1, <2>2, <2>3, CountBounds
<1>5. CASE PeerGreets(p)
  <2>1. PICK to \in {"in", "out"} : At(p, "greeting", to)
    BY <1>5 DEF PeerGreets
  <2>2. UNCHANGED <<activePeers, generation, sessions>>
    BY <1>5 DEF PeerGreets, bounds, connections
  <2>3. CountInv'
    BY <1>0, <2>1, <2>2, MoveClaims DEF CountInv
  <2>4. SessionType'
    BY <2>1 DEF SessionType, At, SessionSteps
  <2> QED BY <1>0, <2>2, <2>3, <2>4, CountBounds
<1>6. CASE PeerLeaves(p)
  <2>1. PICK to \in {"left", "out"} : At(p, "in", to)
    BY <1>6 DEF PeerLeaves
  <2>2. activePeers' = activePeers - 1 /\ UNCHANGED <<generation, sessions>>
    BY <1>6 DEF PeerLeaves, bounds
  <2>3. CountInv' /\ Cardinality(Counted) > 0
    BY <1>0, <2>1, <2>2, MoveClaims DEF CountInv
  <2>4. SessionType'
    BY <2>1 DEF SessionType, At, SessionSteps
  <2>5. activePeers' \in Nat
    BY <1>0, <2>2, <2>3
  <2> QED BY <1>0, <2>2, <2>3, <2>4, <2>5, CountBounds
<1>7. CASE PeerSchedules(p)
  <2>1. At(p, "left", "out") /\ UNCHANGED <<activePeers, generation, sessions>>
    BY <1>7 DEF PeerSchedules, bounds, connections
  <2>2. CountInv'
    BY <1>0, <2>1, MoveClaims DEF CountInv
  <2>3. SessionType'
    BY <2>1 DEF SessionType, At, SessionSteps
  <2> QED BY <1>0, <2>1, <2>2, <2>3, CountBounds
<1>8. CASE PeerReadsCount(p)
  <2>1. PICK to \in {"first", "greeting"} : At(p, "counted", to)
    BY <1>8 DEF PeerReadsCount
  <2>2. UNCHANGED <<activePeers, generation, sessions>>
    BY <1>8 DEF PeerReadsCount, bounds, connections
  <2>3. CountInv'
    BY <1>0, <2>1, <2>2, MoveClaims DEF CountInv
  <2>4. SessionType'
    BY <2>1 DEF SessionType, At, SessionSteps
  <2> QED BY <1>0, <2>2, <2>3, <2>4, CountBounds
<1> QED BY <1>1, <1>2, <1>3, <1>4, <1>5, <1>6, <1>7, <1>8

-----------------------------------------------------------------------------
(* The teardown tasks.                                                     *)

\* One task moves: it keeps its generation unless it is over, and the others
\* stand where they stood.
LEMMA GoesFacts ==
  ASSUME TasksType, NEW i \in DOMAIN tasks, NEW from, NEW to \in TaskSteps,
         Goes(i, from, to)
  PROVE  /\ TasksType' /\ DOMAIN tasks' = DOMAIN tasks
         /\ tasks[i].at = from
         /\ tasks'[i].at = to
         /\ to # "done" => tasks'[i].gen = tasks[i].gen /\ tasks'[i].waits = tasks[i].waits
         /\ to = "done" => tasks'[i].gen = 0
         /\ \A j \in DOMAIN tasks : j # i => tasks'[j] = tasks[j]
<1> DEFINE e == IF to = "done" THEN Done ELSE [tasks[i] EXCEPT !.at = to]
<1>1. DOMAIN tasks = 1 .. Len(tasks) /\ tasks[i] \in TaskType
  BY LenProperties, ElementOfSeq DEF TasksType
<1>2. MaxSessions \in Nat
  BY BoundsAssumption
<1>3. e \in TaskType
  BY <1>1, <1>2 DEF TaskType, Done, TaskSteps
<1>4. tasks' = [tasks EXCEPT ![i] = e] /\ tasks[i].at = from
  BY DEF Goes
<1>5. /\ tasks' \in Seq(TaskType) /\ Len(tasks') = Len(tasks)
      /\ \A j \in 1 .. Len(tasks) : tasks'[j] = IF j = i THEN e ELSE tasks[j]
  BY <1>1, <1>3, <1>4, ExceptSeq DEF TasksType
<1>6. DOMAIN tasks' = 1 .. Len(tasks')
  BY <1>5, LenProperties
<1>7. tasks'[i] = e /\ \A j \in DOMAIN tasks : j # i => tasks'[j] = tasks[j]
  BY <1>1, <1>5
<1>8. e.at = to /\ (to = "done" => e.gen = 0)
      /\ (to # "done" => e.gen = tasks[i].gen /\ e.waits = tasks[i].waits)
  BY <1>1 DEF Done, TaskType
<1> HIDE DEF e
<1> QED BY <1>1, <1>4, <1>5, <1>6, <1>7, <1>8 DEF TasksType

\* An outcome leaves every task where it is.
LEMMA SettledFacts ==
  ASSUME TasksType, tasks' = Settled(tasks)
  PROVE  /\ TasksType' /\ DOMAIN tasks' = DOMAIN tasks
         /\ \A j \in DOMAIN tasks : tasks'[j].at = tasks[j].at /\ tasks'[j].gen = tasks[j].gen
<1>1. DOMAIN tasks = 1 .. Len(tasks) /\ Len(tasks) \in Nat
  BY LenProperties DEF TasksType
<1>2. \A j \in 1 .. Len(tasks) : tasks[j] \in TaskType
  BY ElementOfSeq DEF TasksType
<1>3. \A j \in 1 .. Len(tasks) : [tasks[j] EXCEPT !.waits = FALSE] \in TaskType
  BY <1>2 DEF TaskType
<1>4. tasks' = [j \in 1 .. Len(tasks) |-> [tasks[j] EXCEPT !.waits = FALSE]]
  BY <1>1 DEF Settled
<1>5. tasks' \in Seq(TaskType)
  BY <1>1, <1>3, <1>4, IsASeq
<1> QED BY <1>1, <1>2, <1>4, <1>5 DEF TasksType, TaskType

\* A new task is the last one, and starts with its delay.
LEMMA SpawnFacts ==
  ASSUME TasksType, CountersType,
         tasks' = Append(tasks, [at |-> "delay", gen |-> generation, waits |-> FALSE])
  PROVE  /\ TasksType' /\ DOMAIN tasks \subseteq DOMAIN tasks'
         /\ \A j \in DOMAIN tasks : tasks'[j] = tasks[j]
         /\ \A j \in DOMAIN tasks' \ DOMAIN tasks :
              tasks'[j].at = "delay" /\ tasks'[j].gen = generation
<1> DEFINE e == [at |-> "delay", gen |-> generation, waits |-> FALSE]
<1>1. e \in TaskType
  BY DEF TaskType, TaskSteps, CountersType
<1>2. DOMAIN tasks = 1 .. Len(tasks) /\ Len(tasks) \in Nat
  BY LenProperties DEF TasksType
<1>3. /\ tasks' \in Seq(TaskType) /\ Len(tasks') = Len(tasks) + 1
      /\ \A j \in 1 .. Len(tasks) : tasks'[j] = tasks[j]
      /\ tasks'[Len(tasks) + 1] = e
  BY <1>1, AppendProperties DEF TasksType
<1>4. DOMAIN tasks' = 1 .. Len(tasks) + 1
  BY <1>3, LenProperties
<1> QED BY <1>2, <1>3, <1>4 DEF TasksType

\* The cancellation moves its task like any other step.
LEMMA CancelFacts ==
  ASSUME TasksType, NEW i \in DOMAIN tasks, TaskCancels(i)
  PROVE  /\ TasksType' /\ DOMAIN tasks' = DOMAIN tasks
         /\ tasks[i].at = "cancel" /\ tasks'[i].at = "agent"
         /\ tasks'[i].gen = tasks[i].gen
         /\ \A j \in DOMAIN tasks : j # i => tasks'[j] = tasks[j]
<1> DEFINE e == [at |-> "agent", gen |-> tasks[i].gen, waits |-> attempt # "none"]
<1>1. DOMAIN tasks = 1 .. Len(tasks) /\ tasks[i] \in TaskType
  BY LenProperties, ElementOfSeq DEF TasksType
<1>2. e \in TaskType
  BY <1>1 DEF TaskType, TaskSteps
<1>3. tasks' = [tasks EXCEPT ![i] = e] /\ tasks[i].at = "cancel"
  BY DEF TaskCancels
<1>4. e.at = "agent" /\ e.gen = tasks[i].gen
  OBVIOUS
<1> HIDE DEF e
<1>5. /\ tasks' \in Seq(TaskType) /\ Len(tasks') = Len(tasks)
      /\ \A j \in 1 .. Len(tasks) : tasks'[j] = IF j = i THEN e ELSE tasks[j]
  BY <1>1, <1>2, <1>3, ExceptSeq DEF TasksType
<1>6. DOMAIN tasks' = 1 .. Len(tasks')
  BY <1>5, LenProperties
<1> QED BY <1>1, <1>3, <1>4, <1>5, <1>6 DEF TasksType
-----------------------------------------------------------------------------
(* The types.                                                              *)

\* What a connection's step leaves alone, and the types of what it sets.
LEMMA TypePeer ==
  ASSUME TypeOK, CountInv, NEW p \in Peers,
         \/ PeerFinds(p) \/ PeerEnters(p) \/ PeerCounts(p) \/ PeerReadsCount(p) \/ PeerDecides(p)
         \/ PeerGreets(p) \/ PeerLeaves(p) \/ PeerSchedules(p)
  PROVE  TypeOK' /\ CountInv'
<1> USE DEF connections, launch, place, bounds
<1>1. CountInv' /\ CountersType' /\ SessionType'
  BY CountMoves, TypeGroups
<1>2. FlagsType'
  <2>1. UNCHANGED latch /\ (stamped' \in BOOLEAN \/ UNCHANGED stamped)
    BY DEF PeerFinds, PeerEnters, PeerCounts, PeerReadsCount, PeerDecides, PeerGreets,
         PeerLeaves, PeerSchedules
  <2> QED BY <2>1, TypeGroups DEF FlagsType
<1>3. UNCHANGED <<resident, evicted, healthy, reaper, faults, kernel>>
  BY DEF PeerFinds, PeerEnters, PeerCounts, PeerReadsCount, PeerDecides, PeerGreets,
         PeerLeaves, PeerSchedules
<1>4. attempt' \in {attempt, "asked"} /\ retry' \in {retry, "waiting"}
  BY DEF PeerFinds, PeerEnters, PeerCounts, PeerReadsCount, PeerDecides, PeerGreets, PeerLeaves,
         PeerSchedules, AskForKernel
<1>5. TasksType'
  <2>1. CASE PeerSchedules(p)
    BY <2>1, TypeGroups, SpawnFacts DEF PeerSchedules
  <2>2. CASE ~PeerSchedules(p)
    <3>1. UNCHANGED tasks
      BY <2>2 DEF PeerFinds, PeerEnters, PeerCounts, PeerReadsCount, PeerDecides, PeerGreets, PeerLeaves
    <3> QED BY <3>1, TypeGroups DEF TasksType
  <2> QED BY <2>1, <2>2
<1> QED BY <1>1, <1>2, <1>3, <1>4, <1>5, TypeGroups
        DEF PlaceType, LaunchType, ReaperType, FaultsType, AttemptSteps

\* The launches touch the kernel, the attempt, its follower and the waits.
LEMMA TypeLaunch ==
  ASSUME TypeOK, CountInv, Launches
  PROVE  TypeOK' /\ CountInv'
<1> USE DEF connections, launch, place, bounds, Launches, AttemptEnds
<1>1. UNCHANGED <<activePeers, generation, session, sessions>>
  BY DEF AttemptBegins, AttemptReleases, AttemptRuns, AttemptSettles, FollowerLooks, FollowerAsks
<1>2. UNCHANGED <<stamped, latch, resident, evicted, healthy, reaper, faults>>
  BY DEF AttemptBegins, AttemptReleases, AttemptRuns, AttemptSettles, FollowerLooks, FollowerAsks
<1>3. CountInv' /\ CountersType' /\ SessionType'
  BY <1>1, CountKept, TypeGroups
<1>4. /\ attempt' \in {attempt, "none", "asked", "releasing", "starting"}
      /\ retry' \in {retry, "none", "due", "sawPeer"}
  BY DEF AttemptBegins, AttemptReleases, AttemptRuns, AttemptSettles, FollowerLooks, FollowerAsks
<1>5. kernel' \in BOOLEAN
  <2>1. kernel \in BOOLEAN
    BY DEF TypeOK
  <2> QED BY <2>1 DEF AttemptBegins, AttemptReleases, AttemptRuns, AttemptSettles,
                      FollowerLooks, FollowerAsks
<1>6. TasksType'
  <2>1. UNCHANGED tasks \/ tasks' = Settled(tasks)
    BY DEF AttemptBegins, AttemptReleases, AttemptRuns, AttemptSettles, FollowerLooks, FollowerAsks
  <2>2. CASE UNCHANGED tasks
    BY <2>2, TypeGroups DEF TasksType
  <2>3. CASE tasks' = Settled(tasks)
    BY <2>3, TypeGroups, SettledFacts
  <2> QED BY <2>1, <2>2, <2>3
<1> QED BY <1>2, <1>3, <1>4, <1>5, <1>6, TypeGroups
        DEF FlagsType, PlaceType, LaunchType, ReaperType, FaultsType, AttemptSteps

\* Where a task's step takes it.
TaskGoes(i) ==
  \/ \E from \in TaskSteps, to \in TaskSteps : Goes(i, from, to)
  \/ TaskCancels(i)

\* A teardown step moves one task; beyond it, it may set the latch, the stamp,
\* the attempt, the kernel and the fault count.
LEMMA TypeTask ==
  ASSUME TypeOK, CountInv, NEW i \in DOMAIN tasks,
         \/ TaskWakes(i) \/ TaskFlushes(i) \/ TaskLatches(i) \/ TaskCancels(i)
         \/ TaskLooksForAgent(i) \/ TaskDropsAgent(i) \/ TaskReleasesLatch(i)
         \/ TaskSaves(i) \/ TaskCleansEnv(i) \/ TaskStamps(i)
  PROVE  TypeOK' /\ CountInv'
<1> USE DEF connections, launch, place, bounds
<1>1. UNCHANGED <<activePeers, generation, session, sessions>>
  BY DEF TaskWakes, TaskFlushes, TaskLatches, TaskCancels, TaskLooksForAgent, TaskDropsAgent,
         TaskReleasesLatch, TaskSaves, TaskCleansEnv, TaskStamps
<1>2. UNCHANGED <<resident, evicted, healthy, reaper, retry>>
  BY DEF TaskWakes, TaskFlushes, TaskLatches, TaskCancels, TaskLooksForAgent, TaskDropsAgent,
         TaskReleasesLatch, TaskSaves, TaskCleansEnv, TaskStamps
<1>3. CountInv' /\ CountersType' /\ SessionType'
  BY <1>1, CountKept, TypeGroups
<1>4. attempt' \in {attempt, "none", "cancelled"}
  BY DEF TaskWakes, TaskFlushes, TaskLatches, TaskCancels, TaskLooksForAgent, TaskDropsAgent,
         TaskReleasesLatch, TaskSaves, TaskCleansEnv, TaskStamps
<1>5. kernel' \in BOOLEAN
  <2>1. kernel \in BOOLEAN
    BY DEF TypeOK
  <2>2. UNCHANGED kernel \/ kernel' = FALSE
    BY DEF TaskWakes, TaskFlushes, TaskLatches, TaskCancels, TaskLooksForAgent, TaskDropsAgent,
           TaskReleasesLatch, TaskSaves, TaskCleansEnv, TaskStamps
  <2> QED BY <2>1, <2>2
<1>6. latch' \in BOOLEAN /\ stamped' \in BOOLEAN
  <2>1. latch \in BOOLEAN /\ stamped \in BOOLEAN
    BY DEF TypeOK
  <2>2. UNCHANGED latch \/ latch' = (latch \/ Fence(i)) \/ latch' = FALSE
    BY DEF TaskWakes, TaskFlushes, TaskLatches, TaskCancels, TaskLooksForAgent, TaskDropsAgent,
           TaskReleasesLatch, TaskSaves, TaskCleansEnv, TaskStamps
  <2>3. UNCHANGED stamped \/ stamped' = (stamped \/ Fence(i))
    BY DEF TaskWakes, TaskFlushes, TaskLatches, TaskCancels, TaskLooksForAgent, TaskDropsAgent,
           TaskReleasesLatch, TaskSaves, TaskCleansEnv, TaskStamps
  <2> QED BY <2>1, <2>2, <2>3
<1>7. faults' \in 0 .. MaxFaults
  <2>1. UNCHANGED faults \/ (faults < MaxFaults /\ faults' = faults + 1)
    BY DEF TaskWakes, TaskFlushes, TaskLatches, TaskCancels, TaskLooksForAgent, TaskDropsAgent,
           TaskReleasesLatch, TaskSaves, TaskCleansEnv, TaskStamps
  <2>2. MaxFaults \in Nat /\ faults \in 0 .. MaxFaults
    BY BoundsAssumption DEF TypeOK
  <2> QED BY <2>1, <2>2
<1>8. TasksType'
  <2>1. TaskGoes(i)
    BY DEF TaskWakes, TaskFlushes, TaskLatches, TaskLooksForAgent, TaskDropsAgent,
           TaskReleasesLatch, TaskSaves, TaskCleansEnv, TaskStamps, TaskGoes, TaskSteps
  <2> QED BY <2>1, TypeGroups, GoesFacts, CancelFacts DEF TaskGoes
<1> QED BY <1>2, <1>3, <1>4, <1>5, <1>6, <1>7, <1>8, TypeGroups
        DEF FlagsType, PlaceType, LaunchType, ReaperType, FaultsType, AttemptSteps

\* The reaper's steps.
LEMMA TypeReap ==
  ASSUME TypeOK, CountInv, Reaps
  PROVE  TypeOK' /\ CountInv'
<1> USE DEF connections, launch, place, bounds, Reaps
<1>1. UNCHANGED <<activePeers, generation, session, sessions>>
  BY DEF ReaperSamples, ReaperChecksKernel, ReaperCommits, ReaperFlushes, ReaperRemoves,
         ReaperEvicts
<1>2. UNCHANGED <<stamped, latch, kernel, attempt, retry, tasks>>
  BY DEF ReaperSamples, ReaperChecksKernel, ReaperCommits, ReaperFlushes, ReaperRemoves,
         ReaperEvicts
<1>3. CountInv' /\ CountersType' /\ SessionType'
  BY <1>1, CountKept, TypeGroups
<1>4. PlaceType'
  <2>1. resident \in BOOLEAN /\ evicted \in BOOLEAN /\ healthy \in BOOLEAN
    BY DEF TypeOK
  <2>2. UNCHANGED resident \/ resident' = ~StillIdle
    BY DEF ReaperSamples, ReaperChecksKernel, ReaperCommits, ReaperFlushes, ReaperRemoves,
           ReaperEvicts
  <2>3. UNCHANGED evicted \/ evicted' = TRUE
    BY DEF ReaperSamples, ReaperChecksKernel, ReaperCommits, ReaperFlushes, ReaperRemoves,
           ReaperEvicts
  <2>4. UNCHANGED healthy \/ healthy' = FALSE
    BY DEF ReaperSamples, ReaperChecksKernel, ReaperCommits, ReaperFlushes, ReaperRemoves,
           ReaperEvicts
  <2> QED BY <2>1, <2>2, <2>3, <2>4 DEF PlaceType
<1>5. faults' \in 0 .. MaxFaults
  <2>1. UNCHANGED faults \/ (faults < MaxFaults /\ faults' = faults + 1)
    BY DEF ReaperSamples, ReaperChecksKernel, ReaperCommits, ReaperFlushes, ReaperRemoves,
           ReaperEvicts
  <2>2. MaxFaults \in Nat /\ faults \in 0 .. MaxFaults
    BY BoundsAssumption DEF TypeOK
  <2> QED BY <2>1, <2>2
<1>6. ReaperType'
  <2>1. reaper \in [at : ReaperSteps, gen : 0 .. 2 * MaxSessions]
        /\ generation \in 0 .. 2 * MaxSessions /\ 0 \in 0 .. 2 * MaxSessions
    BY BoundsAssumption DEF TypeOK
  <2>2. \/ reaper' = Idle \/ reaper' = [at |-> "kernel", gen |-> generation]
        \/ \E to \in ReaperSteps : reaper' = [reaper EXCEPT !.at = to]
    BY DEF ReaperSamples, ReaperChecksKernel, ReaperCommits, ReaperFlushes, ReaperRemoves,
           ReaperEvicts, Sweeps, ReaperSteps
  <2> QED BY <2>1, <2>2 DEF ReaperType, Idle, ReaperSteps
<1> QED BY <1>2, <1>3, <1>4, <1>5, <1>6, TypeGroups
        DEF FlagsType, LaunchType, TasksType, FaultsType

\* The counts hold at the start: nobody is there.
LEMMA InitCounts == Init => TypeOK /\ CountInv
<1> SUFFICES ASSUME Init PROVE TypeOK /\ CountInv
  OBVIOUS
<1>1. Found = {} /\ Entered = {} /\ Counted = {}
  BY DEF Init, Found, Entered, Counted, AtSteps
<1>2. CountInv
  BY <1>1, FS_EmptySet DEF Init, CountInv
<1>3. TasksType
  BY EmptySeq DEF Init, TasksType
<1>4. MaxSessions \in Nat /\ MaxFaults \in Nat
  BY BoundsAssumption
<1>5. CountersType /\ FaultsType /\ ReaperType
  BY <1>4 DEF Init, CountersType, FaultsType, ReaperType, Idle, ReaperSteps
<1>6. FlagsType /\ PlaceType /\ LaunchType /\ SessionType
  BY DEF Init, FlagsType, PlaceType, LaunchType, SessionType, SessionSteps, AttemptSteps
<1> QED BY <1>2, <1>3, <1>5, <1>6, TypeGroups

\* The next-state relation, peer by peer and task by task.
LEMMA NextCases ==
  ASSUME Next
  PROVE  \/ \E p \in Peers :
              \/ PeerFinds(p) \/ PeerEnters(p) \/ PeerCounts(p) \/ PeerReadsCount(p) \/ PeerDecides(p)
              \/ PeerGreets(p) \/ PeerLeaves(p) \/ PeerSchedules(p)
         \/ Launches
         \/ \E i \in DOMAIN tasks :
              \/ TaskWakes(i) \/ TaskFlushes(i) \/ TaskLatches(i) \/ TaskCancels(i)
              \/ TaskLooksForAgent(i) \/ TaskDropsAgent(i) \/ TaskReleasesLatch(i)
              \/ TaskSaves(i) \/ TaskCleansEnv(i) \/ TaskStamps(i)
         \/ Reaps
BY DEF Next, Handshakes, TearsDown, Visits

\* The types and the counts are inductive together.
LEMMA TypeStep ==
  ASSUME TypeOK, CountInv, [Next]_vars
  PROVE  TypeOK' /\ CountInv'
<1>1. CASE Next
  BY <1>1, NextCases, TypePeer, TypeLaunch, TypeTask, TypeReap
<1>2. CASE UNCHANGED vars
  <2>1. /\ UNCHANGED <<activePeers, generation, session, sessions>>
        /\ UNCHANGED <<stamped, latch, resident, evicted, healthy, kernel, attempt, retry>>
        /\ UNCHANGED <<tasks, reaper, faults>>
    BY <1>2 DEF vars, connections, place, launch, bounds
  <2>2. CountInv' /\ CountersType' /\ SessionType'
    BY <2>1, CountKept, TypeGroups
  <2> QED BY <2>1, <2>2, TypeGroups
          DEF FlagsType, PlaceType, LaunchType, TasksType, ReaperType, FaultsType
<1> QED BY <1>1, <1>2

\* The counters of a room keep their types and bounds: the count of active peers
\* never goes below zero, whatever handshake fails, and no session moves the
\* generation more than twice (peer_connection.rs, handle_peer_disconnect).
THEOREM TypeCorrect == Spec => []TypeOK
<1>1. Init => TypeOK /\ CountInv
  BY InitCounts
<1>2. TypeOK /\ CountInv /\ [Next]_vars => TypeOK' /\ CountInv'
  BY TypeStep
<1> QED BY <1>1, <1>2, PTL DEF Spec
-----------------------------------------------------------------------------
(* What a teardown task may rely on.  It reads the counters behind the      *)
(* fence and acts awaits later.  The invariant says what the generation it  *)
(* carries is worth meanwhile: as long as it is the room's, nobody has been *)
(* counted since the fence, so that no attempt can have started since the   *)
(* cancellation and no kernel can have come up since the agent was dropped. *)

PastFence == {"cancel", "agent", "drop", "settle", "load", "env", "stamp"}
PastCancel == PastFence \ {"cancel"}
PastAgent == PastCancel \ {"agent", "drop"}

\* The fence still stands for task i.
FenceStands(i) ==
  tasks[i].gen = generation =>
    /\ tasks[i].at \in PastFence => activePeers = 0
    /\ tasks[i].at \in PastCancel => attempt # "starting"
    /\ tasks[i].at \in PastAgent => ~kernel

FenceInv == \A i \in DOMAIN tasks : FenceStands(i) /\ tasks[i].gen <= generation

\* A room that has been removed stays as the reaper found it, and only a room
\* that is in the registry is swept.
GoneInv ==
  /\ ~resident => stamped /\ ~Reserved
  /\ reaper.at \in {"kernel", "barrier", "flush", "remove"} => resident

IdleInv == TypeOK /\ CountInv /\ FenceInv /\ StampedIsIdle /\ GoneInv

\* A step in which nobody counts itself, no attempt starts without a peer and no
\* kernel comes up but from an attempt.
Quiet ==
  /\ generation' = generation
  /\ activePeers = 0 => activePeers' = 0
  /\ activePeers = 0 /\ attempt' = "starting" => attempt = "starting"
  /\ kernel' => kernel \/ attempt = "starting"

\* A quiet step leaves the fence standing for every task it does not move.
LEMMA QuietKeepsFence ==
  ASSUME FenceInv, Quiet, NEW j \in DOMAIN tasks,
         tasks'[j].at = tasks[j].at, tasks'[j].gen = tasks[j].gen
  PROVE  FenceStands(j)' /\ (tasks[j].gen <= generation)'
<1>1. FenceStands(j) /\ tasks[j].gen <= generation
  BY DEF FenceInv
<1>2. CASE tasks[j].gen = generation
  <2>1. tasks[j].at \in PastCancel => tasks[j].at \in PastFence
    BY DEF PastCancel
  <2>2. tasks[j].at \in PastAgent => tasks[j].at \in PastCancel
    BY DEF PastAgent
  <2> QED BY <1>1, <1>2, <2>1, <2>2 DEF FenceStands, Quiet
<1>3. CASE tasks[j].gen # generation
  BY <1>1, <1>3 DEF FenceStands, Quiet
<1> QED BY <1>2, <1>3

\* A step that moves the generation leaves every task behind.
LEMMA BumpPassesFence ==
  ASSUME TypeOK, FenceInv, UNCHANGED tasks, generation' = generation + 1
  PROVE  FenceInv'
<1>1. generation \in Nat
  BY BoundsAssumption DEF TypeOK
<1>2. ASSUME NEW j \in DOMAIN tasks
      PROVE  tasks[j].gen \in Nat /\ tasks[j].gen <= generation
  <2>1. tasks \in Seq(TaskType)
    BY TypeGroups DEF TasksType
  <2>2. tasks[j] \in TaskType
    BY <2>1, LenProperties, ElementOfSeq
  <2> QED BY <2>2 DEF TaskType, FenceInv
<1>3. ASSUME NEW j \in DOMAIN tasks
      PROVE  tasks[j].gen # generation + 1 /\ tasks[j].gen <= generation + 1
  BY <1>1, <1>2
<1> QED BY <1>3 DEF FenceInv, FenceStands

\* A quiet step that does not stamp leaves a stamped room idle.
LEMMA QuietKeepsStamp ==
  ASSUME StampedIsIdle, Quiet, stamped' => stamped
  PROVE  StampedIsIdle'
BY DEF StampedIsIdle, Quiet

\* A connection's steps.
LEMMA IdlePeer ==
  ASSUME IdleInv, NEW p \in Peers,
         \/ PeerFinds(p) \/ PeerEnters(p) \/ PeerCounts(p) \/ PeerReadsCount(p) \/ PeerDecides(p)
         \/ PeerGreets(p) \/ PeerLeaves(p) \/ PeerSchedules(p)
  PROVE  FenceInv' /\ StampedIsIdle' /\ GoneInv'
<1> USE DEF connections, launch, place, bounds, IdleInv
<1>1. GoneInv'
  <2>1. resident
    BY DEF GoneInv, Reserved, PeerFinds, PeerEnters, PeerCounts, PeerReadsCount, PeerDecides, PeerGreets,
           PeerLeaves, PeerSchedules, At
  <2>2. UNCHANGED <<resident, reaper>>
    BY DEF PeerFinds, PeerEnters, PeerCounts, PeerReadsCount, PeerDecides, PeerGreets,
         PeerLeaves, PeerSchedules
  <2> QED BY <2>1, <2>2 DEF GoneInv
<1>2. CASE PeerEnters(p)
  <2>1. FenceInv'
    BY <1>2, BumpPassesFence DEF PeerEnters
  <2>2. StampedIsIdle'
    BY <1>2 DEF PeerEnters, StampedIsIdle
  <2> QED BY <1>1, <2>1, <2>2
<1>3. CASE PeerCounts(p)
  <2>1. PICK seeded \in {TRUE} \cup {fault # "seed" : fault \in HandshakeFaults} :
          /\ activePeers' = IF seeded THEN activePeers + 1 ELSE activePeers
          /\ stamped' = (stamped /\ ~seeded)
          /\ generation' = IF seeded THEN generation + 1 ELSE generation
          /\ UNCHANGED <<latch, place, launch, tasks, reaper, bounds>>
    BY <1>3 DEF PeerCounts
  <2>2. CASE seeded
    <3>1. FenceInv'
      BY <2>1, <2>2, BumpPassesFence
    <3>2. StampedIsIdle'
      BY <2>1, <2>2 DEF StampedIsIdle
    <3> QED BY <1>1, <3>1, <3>2
  <2>3. CASE ~seeded
    <3>1. Quiet /\ (stamped' => stamped) /\ UNCHANGED tasks
      BY <2>1, <2>3 DEF Quiet
    <3>2. FenceInv'
      BY <3>1, QuietKeepsFence DEF FenceInv
    <3> QED BY <1>1, <3>1, <3>2, QuietKeepsStamp
  <2> QED BY <2>2, <2>3
<1>4. CASE PeerSchedules(p)
  <2>1. Quiet /\ UNCHANGED stamped
    BY <1>4 DEF Quiet, PeerSchedules
  <2>2. FenceInv'
    <3>1. /\ DOMAIN tasks \subseteq DOMAIN tasks'
          /\ \A j \in DOMAIN tasks : tasks'[j] = tasks[j]
          /\ \A j \in DOMAIN tasks' \ DOMAIN tasks :
               tasks'[j].at = "delay" /\ tasks'[j].gen = generation
      BY <1>4, TypeGroups, SpawnFacts DEF PeerSchedules
    <3>2. ASSUME NEW j \in DOMAIN tasks
          PROVE  FenceStands(j)' /\ (tasks[j].gen <= generation)'
      BY <2>1, <3>1, QuietKeepsFence
    <3>3. ASSUME NEW j \in DOMAIN tasks' \ DOMAIN tasks
          PROVE  FenceStands(j)' /\ (tasks[j].gen <= generation)'
      <4>1. "delay" \notin PastFence /\ "delay" \notin PastCancel /\ "delay" \notin PastAgent
        BY DEF PastFence, PastCancel, PastAgent
      <4>2. generation \in Nat /\ generation' = generation
        BY <2>1, BoundsAssumption DEF TypeOK, Quiet
      <4> QED BY <3>1, <4>1, <4>2 DEF FenceStands
    <3> QED BY <3>2, <3>3 DEF FenceInv
  <2> QED BY <1>1, <2>1, <2>2, QuietKeepsStamp
<1>5. CASE PeerFinds(p) \/ PeerReadsCount(p) \/ PeerDecides(p) \/ PeerGreets(p)
  <2>0. /\ UNCHANGED <<activePeers, generation, kernel, stamped, tasks>>
        /\ attempt' \in {attempt, "asked"}
    BY <1>5 DEF PeerFinds, PeerReadsCount, PeerDecides, PeerGreets, AskForKernel
  <2>1. Quiet /\ UNCHANGED <<stamped, tasks>>
    BY <2>0 DEF Quiet
  <2>2. FenceInv'
    BY <2>1, QuietKeepsFence DEF FenceInv
  <2> QED BY <1>1, <2>1, <2>2, QuietKeepsStamp
<1>6. CASE PeerLeaves(p)
  <2>1. activePeers # 0
    <3>1. PICK to \in {"left", "out"} : At(p, "in", to)
      BY <1>6 DEF PeerLeaves
    <3>2. Cardinality(Counted) > 0 /\ Cardinality(Counted) \in Nat
      BY <3>1, MoveClaims, TypeGroups
    <3>3. Cardinality(Counted) <= activePeers /\ activePeers \in Nat
      BY BoundsAssumption DEF CountInv, TypeOK
    <3> QED BY <3>2, <3>3
  <2>2. Quiet /\ UNCHANGED <<stamped, tasks>>
    BY <1>6, <2>1 DEF Quiet, PeerLeaves
  <2>3. FenceInv'
    BY <2>2, QuietKeepsFence DEF FenceInv
  <2> QED BY <1>1, <2>2, <2>3, QuietKeepsStamp
<1> QED BY <1>2, <1>3, <1>4, <1>5, <1>6

\* The launches: no attempt starts while no peer is counted.
LEMMA IdleLaunch ==
  ASSUME IdleInv, Launches
  PROVE  FenceInv' /\ StampedIsIdle' /\ GoneInv'
<1> USE DEF connections, launch, place, bounds, IdleInv, Launches, AttemptEnds
<1>1. Quiet
  <2>1. generation' = generation /\ activePeers' = activePeers
    BY DEF AttemptBegins, AttemptReleases, AttemptRuns, AttemptSettles, FollowerLooks, FollowerAsks
  <2>2. activePeers = 0 /\ attempt' = "starting" => attempt = "starting"
    BY DEF AttemptBegins, AttemptReleases, AttemptRuns, AttemptSettles, FollowerLooks, FollowerAsks
  <2>3. kernel' => kernel \/ attempt = "starting"
    BY DEF AttemptBegins, AttemptReleases, AttemptRuns, AttemptSettles, FollowerLooks, FollowerAsks
  <2> QED BY <2>1, <2>2, <2>3 DEF Quiet
<1>2. UNCHANGED <<stamped, resident, reaper, session>>
  BY DEF AttemptBegins, AttemptReleases, AttemptRuns, AttemptSettles, FollowerLooks, FollowerAsks
<1>3. /\ DOMAIN tasks' = DOMAIN tasks
      /\ \A j \in DOMAIN tasks : tasks'[j].at = tasks[j].at /\ tasks'[j].gen = tasks[j].gen
  <2>1. UNCHANGED tasks \/ tasks' = Settled(tasks)
    BY DEF AttemptBegins, AttemptReleases, AttemptRuns, AttemptSettles, FollowerLooks, FollowerAsks
  <2> QED BY <2>1, TypeGroups, SettledFacts
<1>4. FenceInv'
  BY <1>1, <1>3, QuietKeepsFence DEF FenceInv
<1>5. GoneInv'
  BY <1>2 DEF GoneInv, Reserved
<1> QED BY <1>1, <1>2, <1>4, <1>5, QuietKeepsStamp

\* A teardown step: the task that moves passes the fence, the cancellation or
\* the agent's end only with what FenceStands says of them.
LEMMA IdleTask ==
  ASSUME IdleInv, NEW i \in DOMAIN tasks,
         \/ TaskWakes(i) \/ TaskFlushes(i) \/ TaskLatches(i) \/ TaskCancels(i)
         \/ TaskLooksForAgent(i) \/ TaskDropsAgent(i) \/ TaskReleasesLatch(i)
         \/ TaskSaves(i) \/ TaskCleansEnv(i) \/ TaskStamps(i)
  PROVE  FenceInv' /\ StampedIsIdle' /\ GoneInv'
<1> USE DEF connections, launch, place, bounds, IdleInv
<1>1. Quiet
  <2>1. generation' = generation /\ activePeers' = activePeers
    BY DEF TaskWakes, TaskFlushes, TaskLatches, TaskCancels, TaskLooksForAgent, TaskDropsAgent,
           TaskReleasesLatch, TaskSaves, TaskCleansEnv, TaskStamps
  <2>2. attempt' = "starting" => attempt = "starting"
    BY DEF TaskWakes, TaskFlushes, TaskLatches, TaskCancels, TaskLooksForAgent, TaskDropsAgent,
           TaskReleasesLatch, TaskSaves, TaskCleansEnv, TaskStamps
  <2>3. kernel' => kernel
    BY DEF TaskWakes, TaskFlushes, TaskLatches, TaskCancels, TaskLooksForAgent, TaskDropsAgent,
           TaskReleasesLatch, TaskSaves, TaskCleansEnv, TaskStamps
  <2> QED BY <2>1, <2>2, <2>3 DEF Quiet
<1>2. TaskGoes(i)
  BY DEF TaskWakes, TaskFlushes, TaskLatches, TaskLooksForAgent, TaskDropsAgent,
         TaskReleasesLatch, TaskSaves, TaskCleansEnv, TaskStamps, TaskGoes, TaskSteps
<1>3. /\ DOMAIN tasks' = DOMAIN tasks
      /\ \A j \in DOMAIN tasks : j # i => tasks'[j] = tasks[j]
  BY <1>2, TypeGroups, GoesFacts, CancelFacts DEF TaskGoes
<1>4. \A j \in DOMAIN tasks : j # i => FenceStands(j)' /\ (tasks[j].gen <= generation)'
  BY <1>1, <1>3, QuietKeepsFence
<1>5. FenceStands(i) /\ tasks[i].gen <= generation /\ generation \in Nat
  BY BoundsAssumption DEF FenceInv, TypeOK
<1>6. (tasks[i].gen <= generation)'
  <2>1. tasks'[i].gen \in {0, tasks[i].gen}
    BY <1>2, TypeGroups, GoesFacts, CancelFacts DEF TaskGoes
  <2> QED BY <1>1, <1>5, <2>1 DEF Quiet
<1>7. FenceStands(i)'
  <2> USE DEF PastFence, PastCancel, PastAgent
  <2>1. CASE TaskWakes(i)
    <3>1. tasks'[i].at \in {"done", "flush"}
      BY <2>1, TypeGroups, GoesFacts DEF TaskWakes, TaskSteps
    <3> QED BY <3>1 DEF FenceStands
  <2>2. CASE TaskFlushes(i)
    <3>1. tasks'[i].at \in {"fence", "delay"}
      BY <2>2, TypeGroups, GoesFacts DEF TaskFlushes, TaskSteps
    <3> QED BY <3>1 DEF FenceStands
  <2>3. CASE TaskLatches(i)
    <3>1. CASE Fence(i)
      <4>1. tasks'[i].at = "cancel" /\ activePeers' = 0
        BY <2>3, <3>1, TypeGroups, GoesFacts DEF TaskLatches, TaskSteps, Fence
      <4> QED BY <4>1 DEF FenceStands
    <3>2. CASE ~Fence(i)
      <4>1. tasks'[i].at = "done"
        BY <2>3, <3>2, TypeGroups, GoesFacts DEF TaskLatches, TaskSteps
      <4> QED BY <4>1 DEF FenceStands
    <3> QED BY <3>1, <3>2
  <2>4. CASE TaskCancels(i)
    <3>1. tasks[i].at = "cancel" /\ tasks'[i].at = "agent" /\ tasks'[i].gen = tasks[i].gen
      BY <2>4, TypeGroups, CancelFacts
    <3>2. attempt' # "starting" /\ UNCHANGED <<generation, activePeers>>
      BY <2>4 DEF TaskCancels
    <3> QED BY <1>5, <3>1, <3>2 DEF FenceStands
  <2>5. CASE TaskLooksForAgent(i)
    <3>1. UNCHANGED <<generation, activePeers, attempt, kernel>>
      BY <2>5 DEF TaskLooksForAgent
    <3>2. /\ tasks[i].at = "agent" /\ tasks'[i].gen = tasks[i].gen
          /\ tasks'[i].at = IF kernel THEN "drop" ELSE "settle"
      BY <2>5, TypeGroups, GoesFacts DEF TaskLooksForAgent, TaskSteps
    <3> QED BY <1>5, <3>1, <3>2 DEF FenceStands
  <2>6. CASE TaskDropsAgent(i)
    <3>1. UNCHANGED <<generation, activePeers, attempt>> /\ ~kernel'
      BY <2>6 DEF TaskDropsAgent
    <3>2. /\ tasks[i].at = "drop" /\ tasks'[i].gen = tasks[i].gen
          /\ tasks'[i].at = "settle"
      BY <2>6, TypeGroups, GoesFacts DEF TaskDropsAgent, TaskSteps
    <3> QED BY <1>5, <3>1, <3>2 DEF FenceStands
  <2>7. CASE TaskReleasesLatch(i)
    <3>1. UNCHANGED <<generation, activePeers, attempt, kernel>>
      BY <2>7 DEF TaskReleasesLatch
    <3>2. /\ tasks[i].at = "settle" /\ tasks'[i].gen = tasks[i].gen
          /\ tasks'[i].at = "load"
      BY <2>7, TypeGroups, GoesFacts DEF TaskReleasesLatch, TaskSteps
    <3> QED BY <1>5, <3>1, <3>2 DEF FenceStands
  <2>8. CASE TaskSaves(i)
    <3>1. UNCHANGED <<generation, activePeers, attempt, kernel>>
      BY <2>8 DEF TaskSaves
    <3>2. /\ tasks[i].at = "load" /\ tasks'[i].at \in {"env", "done"}
          /\ tasks'[i].at = "env" => tasks'[i].gen = tasks[i].gen
      BY <2>8, TypeGroups, GoesFacts DEF TaskSaves, TaskSteps
    <3> QED BY <1>5, <3>1, <3>2 DEF FenceStands
  <2>9. CASE TaskCleansEnv(i)
    <3>1. UNCHANGED <<generation, activePeers, attempt, kernel>>
      BY <2>9 DEF TaskCleansEnv
    <3>2. /\ tasks[i].at = "env" /\ tasks'[i].at \in {"stamp", "done"}
          /\ tasks'[i].at = "stamp" => tasks'[i].gen = tasks[i].gen
      BY <2>9, TypeGroups, GoesFacts DEF TaskCleansEnv, TaskSteps
    <3> QED BY <1>5, <3>1, <3>2 DEF FenceStands
  <2>10. CASE TaskStamps(i)
    <3>1. tasks'[i].at = "done"
      BY <2>10, TypeGroups, GoesFacts DEF TaskStamps, TaskSteps
    <3> QED BY <3>1 DEF FenceStands
  <2> QED BY <2>1, <2>2, <2>3, <2>4, <2>5, <2>6, <2>7, <2>8, <2>9, <2>10
<1>8. FenceInv'
  BY <1>3, <1>4, <1>6, <1>7 DEF FenceInv
<1>9. StampedIsIdle'
  <2>1. CASE TaskStamps(i) /\ Fence(i)
    <3>1. tasks[i].at = "stamp"
      BY <2>1 DEF TaskStamps, Goes
    <3>2. activePeers = 0 /\ attempt # "starting" /\ ~kernel
      BY <1>5, <2>1, <3>1 DEF FenceStands, Fence, PastFence, PastCancel, PastAgent
    <3>3. UNCHANGED <<activePeers, attempt, kernel>>
      BY <2>1 DEF TaskStamps
    <3> QED BY <3>2, <3>3 DEF StampedIsIdle
  <2>2. CASE ~(TaskStamps(i) /\ Fence(i))
    <3>1. stamped' => stamped
      BY <2>2 DEF TaskWakes, TaskFlushes, TaskLatches, TaskCancels, TaskLooksForAgent,
         TaskDropsAgent, TaskReleasesLatch, TaskSaves, TaskCleansEnv, TaskStamps
    <3> QED BY <1>1, <3>1, QuietKeepsStamp
  <2> QED BY <2>1, <2>2
<1>10. GoneInv'
  <2>1. UNCHANGED <<resident, reaper, session>>
    BY DEF TaskWakes, TaskFlushes, TaskLatches, TaskCancels, TaskLooksForAgent, TaskDropsAgent,
           TaskReleasesLatch, TaskSaves, TaskCleansEnv, TaskStamps
  <2>2. UNCHANGED stamped \/ stamped' = (stamped \/ Fence(i))
    BY DEF TaskWakes, TaskFlushes, TaskLatches, TaskCancels, TaskLooksForAgent, TaskDropsAgent,
           TaskReleasesLatch, TaskSaves, TaskCleansEnv, TaskStamps
  <2> QED BY <2>1, <2>2 DEF GoneInv, Reserved
<1> QED BY <1>8, <1>9, <1>10

\* The reaper's steps: the room that goes is stamped and nobody holds it.
LEMMA IdleReap ==
  ASSUME IdleInv, Reaps
  PROVE  FenceInv' /\ StampedIsIdle' /\ GoneInv'
<1> USE DEF connections, launch, place, bounds, IdleInv, Reaps
<1>1. UNCHANGED <<activePeers, generation, session, stamped, kernel, attempt, tasks>>
  BY DEF ReaperSamples, ReaperChecksKernel, ReaperCommits, ReaperFlushes, ReaperRemoves,
         ReaperEvicts
<1>2. Quiet
  BY <1>1 DEF Quiet
<1>3. FenceInv'
  BY <1>1, <1>2, QuietKeepsFence DEF FenceInv
<1>4. GoneInv'
  <2>1. reaper \in [at : ReaperSteps, gen : 0 .. 2 * MaxSessions]
    BY DEF TypeOK
  <2>2. CASE ReaperSamples
    BY <2>2, <1>1 DEF ReaperSamples, GoneInv, Reserved
  <2>3. CASE ReaperRemoves
    <3>1. reaper.at = "remove" /\ resident
      BY <2>3 DEF ReaperRemoves, Sweeps, GoneInv
    <3>2. CASE StillIdle
      <4>1. stamped /\ ~Reserved
        BY <3>2 DEF StillIdle
      <4>2. reaper'.at = "autosave"
        BY <2>1, <2>3, <3>2 DEF ReaperRemoves, Sweeps
      <4> QED BY <1>1, <4>1, <4>2 DEF GoneInv, Reserved
    <3>3. CASE ~StillIdle
      <4>1. resident'
        BY <2>3, <3>3 DEF ReaperRemoves
      <4> QED BY <4>1 DEF GoneInv
    <3> QED BY <3>2, <3>3
  <2>4. CASE ReaperChecksKernel \/ ReaperCommits \/ ReaperFlushes \/ ReaperEvicts
    <3>1. UNCHANGED resident
      BY <2>4 DEF ReaperChecksKernel, ReaperCommits, ReaperFlushes, ReaperEvicts
    <3>2. reaper'.at = "idle" \/ resident
      BY <2>1, <2>4 DEF ReaperChecksKernel, ReaperCommits, ReaperFlushes, ReaperEvicts, Sweeps,
                        Idle, GoneInv
    <3> QED BY <1>1, <3>1, <3>2 DEF GoneInv, Reserved
  <2> QED BY <2>2, <2>3, <2>4
<1> QED BY <1>1, <1>2, <1>3, <1>4, QuietKeepsStamp

\* The invariant is inductive.
LEMMA IdleStep ==
  ASSUME IdleInv, [Next]_vars
  PROVE  IdleInv'
<1>1. TypeOK' /\ CountInv'
  BY TypeStep DEF IdleInv
<1>2. FenceInv' /\ StampedIsIdle' /\ GoneInv'
  <2>1. CASE Next
    BY <2>1, NextCases, IdlePeer, IdleLaunch, IdleTask, IdleReap
  <2>2. CASE UNCHANGED vars
    BY <2>2 DEF vars, connections, place, launch, bounds, IdleInv, FenceInv, FenceStands,
                StampedIsIdle, GoneInv, Reserved
  <2> QED BY <2>1, <2>2
<1> QED BY <1>1, <1>2 DEF IdleInv

\* The invariant holds of a fresh room.
LEMMA IdleInit == Init => IdleInv
<1> SUFFICES ASSUME Init PROVE IdleInv
  OBVIOUS
<1>1. TypeOK /\ CountInv
  BY InitCounts
<1>2. DOMAIN tasks = {}
  BY DEF Init
<1>3. FenceInv
  BY <1>2 DEF FenceInv
<1>4. StampedIsIdle /\ GoneInv
  BY DEF Init, StampedIsIdle, GoneInv, Idle
<1> QED BY <1>1, <1>3, <1>4 DEF IdleInv

\* Every reachable state satisfies the invariant.
LEMMA IdleAlways == Spec => []IdleInv
<1>1. IdleInv /\ [Next]_vars => IdleInv'
  BY IdleStep
<1> QED BY <1>1, IdleInit, PTL DEF Spec

\* A room that carries the teardown stamp has no counted peer, no kernel and no
\* attempt that is starting one, however many teardowns, launches and followers
\* overlap (peer_eviction.rs, the fenced stamp; metadata.rs, the attempt's check).
THEOREM StampIsTrue == Spec => []StampedIsIdle
<1>1. IdleInv => StampedIsIdle
  BY DEF IdleInv
<1> QED BY <1>1, IdleAlways, PTL

\* A room the reaper removed is held by no connection and has no kernel, from
\* then on (daemon.rs, remove_if under the registry lock).
THEOREM RemovedStaysUnused == Spec => []RemovedIsUnused
<1>1. IdleInv => RemovedIsUnused
  BY DEF IdleInv, GoneInv, StampedIsIdle, RemovedIsUnused
<1> QED BY <1>1, IdleAlways, PTL

=============================================================================
