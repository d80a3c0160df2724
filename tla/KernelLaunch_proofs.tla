------------------------- MODULE KernelLaunch_proofs -------------------------
(***************************************************************************)
(* Proofs about KernelLaunch, for every value of its constants.            *)
(***************************************************************************)
EXTENDS KernelLaunch, SequenceTheorems, TLAPS

-----------------------------------------------------------------------------
(* The invariant of the gate, on which the types already depend: an outcome *)
(* is recorded for the generation of an owner or of a cleanup, which has to *)
(* be one.                                                                  *)

GateInv ==
  /\ owner # "none" => ownerGen = inFlight /\ inFlight # None /\ cleanup = "none"
  /\ cleanup # "none" => cleanupGen = inFlight /\ inFlight # None /\ owner = "none"
  /\ inFlight # None => inFlight = admitted /\ (owner # "none" \/ cleanup # "none")

\* The types, variable group by variable group.
AdmissionType ==
  /\ inFlight \in Ids /\ source \in {"Auto", "Manual"}
  /\ cancelled \subseteq Generations /\ admitted \in Ids
  /\ completed \subseteq Generations /\ cooldown \in BOOLEAN
IdentityType == expected \in Ids /\ connected \in Ids
SlotsType ==
  /\ currentId \in Ids /\ handle \in Ids /\ requestTx \in Ids /\ pendingTx \in Ids
  /\ agentGen \in Ids /\ active \in Ids
LifeType ==
  lifecycle \in Lifecycles /\ committed \in Lifecycles /\ overtaken \in BOOLEAN
OwnType ==
  /\ owner \in OwnerSteps /\ ownerNext \in {"drop", "readmit"}
  /\ ownerGen \in Ids /\ ownerAgent \in Ids /\ rpcTo \in Ids
  /\ reply \in {"none", "ok", "err"} /\ signalled \in BOOLEAN
CleanType == cleanup \in CleanupSteps /\ cleanupGen \in Ids
ProcsType ==
  /\ proc \in [Generations -> {"none", "alive", "dead"}]
  /\ inbox \in [Generations -> Seq(Ids)]
  /\ kernel \in [Generations -> BOOLEAN]
LinksType ==
  /\ conn \in [Generations -> Connections]
  /\ heldTx \in [Generations -> Ids] /\ discGen \in [Generations -> Ids]
  /\ unsynced \in [Generations -> Lifecycles \cup {"none"}]
EnvType ==
  /\ shutdown \in BOOLEAN /\ shutdowns \in 0 .. MaxShutdowns /\ faults \in 0 .. MaxFaults
  /\ peer \in BOOLEAN /\ asking \in BOOLEAN

\* The groups together are the type invariant.
LEMMA TypeGroups ==
  TypeOK <=> /\ AdmissionType /\ IdentityType /\ SlotsType /\ LifeType /\ OwnType
             /\ CleanType /\ ProcsType /\ LinksType /\ EnvType
BY DEF TypeOK, AdmissionType, IdentityType, SlotsType, LifeType, OwnType, CleanType,
       ProcsType, LinksType, EnvType

\* And so they are after a step.
LEMMA TypeGroupsNext ==
  TypeOK' <=> /\ AdmissionType' /\ IdentityType' /\ SlotsType' /\ LifeType' /\ OwnType'
              /\ CleanType' /\ ProcsType' /\ LinksType' /\ EnvType'
BY DEF TypeOK, AdmissionType, IdentityType, SlotsType, LifeType, OwnType, CleanType,
       ProcsType, LinksType, EnvType

-----------------------------------------------------------------------------
(* The operators the actions are built from.                               *)

\* A generation is an id, and None is the id that is none.
LEMMA IdFacts ==
  /\ None \in Ids /\ Generations = Ids \ {None} /\ Ids \subseteq Nat
  /\ \A n \in Ids : n < MaxLaunches => n + 1 \in Generations
BY BoundsAssumption DEF Ids, Generations, None

\* A killed process group leaves well-formed processes.
LEMMA DiesType ==
  ASSUME ProcsType, NEW a, Dies(a)
  PROVE  ProcsType'
<1>1. <<>> \in Seq(Ids)
  BY EmptySeq
<1> QED
  BY <1>1 DEF Dies, ProcsType

\* So does taking a handle out of its slot.
LEMMA DropHandleType ==
  ASSUME ProcsType, NEW next \in Ids, DropHandle(next)
  PROVE  ProcsType' /\ handle' \in Ids
<1>1. CASE handle \in {None, next}
  BY <1>1 DEF DropHandle, procs, ProcsType
<1>2. CASE handle \notin {None, next}
  BY <1>2, DiesType DEF DropHandle
<1> QED
  BY <1>1, <1>2

\* A request is appended to a well-formed inbox.
LEMMA SendType ==
  ASSUME ProcsType, NEW to \in Ids, NEW message \in Ids, Send(to, message)
  PROVE  ProcsType'
<1>1. CASE to # None /\ proc[to] = "alive"
  <2>1. to \in Generations
    BY <1>1, IdFacts
  <2>2. Append(inbox[to], message) \in Seq(Ids)
    BY <2>1, AppendProperties DEF ProcsType
  <2> QED
    BY <1>1, <2>1, <2>2 DEF Send, ProcsType
<1>2. CASE ~(to # None /\ proc[to] = "alive")
  BY <1>2 DEF Send, ProcsType
<1> QED
  BY <1>1, <1>2

\* The owner goes to one of its steps.
LEMMA GotoType ==
  ASSUME OwnType, NEW step \in OwnerSteps, Goto(step)
  PROVE  OwnType'
BY IdFacts DEF OwnType, Goto

\* Dropping the token leaves a well-formed owner.
LEMMA OwnerEndsType ==
  ASSUME OwnerEnds
  PROVE  OwnType'
BY IdFacts DEF OwnType, OwnerEnds, OwnerSteps

\* A lifecycle an attempt publishes is one.
LEMMA PublishType ==
  ASSUME LifeType, NEW state \in {"NotStarted", "Starting", "Error"}, Publish(state)
  PROVE  LifeType'
BY DEF LifeType, Lifecycles, Publish, Write, doc

-----------------------------------------------------------------------------
(* Type correctness.                                                       *)

\* What is unchanged keeps its type.
LEMMA TypeFrame ==
  ASSUME TypeOK
  PROVE  /\ UNCHANGED admission => AdmissionType'
         /\ UNCHANGED identity => IdentityType'
         /\ UNCHANGED slots => SlotsType'
         /\ UNCHANGED life => LifeType'
         /\ UNCHANGED own => OwnType'
         /\ UNCHANGED clean => CleanType'
         /\ UNCHANGED procs => ProcsType'
         /\ UNCHANGED links => LinksType'
         /\ UNCHANGED env => EnvType'
<1> USE TypeGroups
<1>1. UNCHANGED admission => AdmissionType'
  BY DEF admission, AdmissionType
<1>2. UNCHANGED identity => IdentityType'
  BY DEF identity, IdentityType
<1>3. UNCHANGED slots => SlotsType'
  BY DEF slots, SlotsType
<1>4. UNCHANGED life => LifeType'
  BY DEF life, doc, LifeType
<1>5. UNCHANGED own => OwnType'
  BY DEF own, OwnType
<1>6. UNCHANGED clean => CleanType'
  BY DEF clean, CleanType
<1>7. UNCHANGED procs => ProcsType'
  BY DEF procs, ProcsType
<1>8. UNCHANGED links => LinksType'
  BY DEF links, LinksType
<1>9. UNCHANGED env => EnvType'
  BY DEF env, peers, EnvType
<1> QED
  BY <1>1, <1>2, <1>3, <1>4, <1>5, <1>6, <1>7, <1>8, <1>9

\* An admission.
LEMMA TypeAdmit ==
  ASSUME TypeOK, NEW kind \in {"Auto", "Manual"}, Admit(kind)
  PROVE  /\ AdmissionType' /\ IdentityType' /\ SlotsType' /\ LifeType' /\ OwnType'
         /\ CleanType' /\ ProcsType' /\ LinksType'
<1>1. admitted + 1 \in Generations /\ admitted + 1 \in Ids
  BY TypeGroups, IdFacts DEF Admit, AdmissionType
<1>2. AdmissionType'
  BY <1>1, TypeGroups DEF Admit, AdmissionType
<1>3. OwnType'
  BY <1>1, TypeGroups DEF Admit, OwnType, OwnerSteps
<1>4. UNCHANGED <<identity, slots, life, clean, procs, links>>
  BY DEF Admit, agents
<1> QED
  BY <1>2, <1>3, <1>4, TypeFrame

\* Peers, followers and launch requests.
LEMMA TypePeers ==
  ASSUME TypeOK, PeerConnect \/ PeerAsks \/ PeerLeave \/ FollowerWakes \/ ManualRequest
  PROVE  TypeOK'
<1>1. CASE PeerConnect \/ PeerLeave
  <2>1. EnvType'
    BY <1>1, TypeGroups DEF PeerConnect, PeerLeave, EnvType
  <2>2. UNCHANGED <<admission, identity, slots, life, own, clean, procs, links>>
    BY <1>1 DEF PeerConnect, PeerLeave, gate, agents
  <2> QED
    BY <2>1, <2>2, TypeFrame, TypeGroupsNext
<1>2. CASE PeerAsks
  <2>1. EnvType'
    BY <1>2, TypeGroups DEF PeerAsks, EnvType
  <2>2. CASE Admit("Auto")
    BY <2>1, <2>2, TypeAdmit, TypeGroupsNext
  <2>3. CASE UNCHANGED <<gate, slots, life, own, clean, agents>>
    <3>1. UNCHANGED <<admission, identity, slots, life, own, clean, procs, links>>
      BY <2>3 DEF gate, agents
    <3> QED
      BY <2>1, <3>1, TypeFrame, TypeGroupsNext
  <2> QED
    BY <1>2, <2>2, <2>3 DEF PeerAsks
<1>3. CASE FollowerWakes
  <2>1. Admit("Auto") /\ UNCHANGED env
    BY <1>3 DEF FollowerWakes
  <2> QED
    BY <2>1, TypeAdmit, TypeFrame, TypeGroupsNext
<1>4. CASE ManualRequest
  <2>1. Admit("Manual") /\ UNCHANGED env
    BY <1>4 DEF ManualRequest
  <2> QED
    BY <2>1, TypeAdmit, TypeFrame, TypeGroupsNext
<1> QED
  BY <1>1, <1>2, <1>3, <1>4

\* A reset, the two ways its callers treat the agent id and the active launch.
LEMMA TypeReset ==
  ASSUME TypeOK, NEW state \in {"NotStarted", "Starting", "Error"},
         NEW next \in {"drop", "readmit"}, Reset(state, next),
         currentId' \in Ids, active' \in Ids
  PROVE  TypeOK'
<1>1. IdentityType'
  BY IdFacts DEF Reset, IdentityType
<1>2. LifeType'
  BY PublishType, TypeGroups DEF Reset
<1>3. OwnType'
  BY IdFacts, TypeGroups DEF Reset, OwnType, OwnerSteps
<1>4. SlotsType'
  BY TypeGroups DEF Reset, SlotsType
<1>5. UNCHANGED <<admission, clean, procs, links, env>>
  BY DEF Reset, agents
<1> QED
  BY <1>1, <1>2, <1>3, <1>4, <1>5, TypeFrame, TypeGroupsNext

\* A step of the owner that changes nothing else.
LEMMA TypeGotoOnly ==
  ASSUME TypeOK, NEW step \in OwnerSteps, Goto(step),
         UNCHANGED <<gate, slots, life, clean, agents, env>>
  PROVE  TypeOK'
<1>1. UNCHANGED <<admission, identity, slots, life, clean, procs, links, env>>
  BY DEF gate, agents
<1>2. OwnType'
  BY TypeGroups, GotoType
<1> QED
  BY <1>1, <1>2, TypeFrame, TypeGroupsNext

\* A reset guarded by the agent.
LEMMA TypeResetAgent ==
  ASSUME TypeOK, NEW agent \in Ids, NEW state \in {"NotStarted", "Error"},
         ResetAgent(agent, state)
  PROVE  TypeOK'
<1>1. CASE agent \in {None, currentId}
  <2>1. Reset(state, "drop") /\ currentId' \in Ids /\ active' \in Ids
    BY <1>1, TypeGroups, IdFacts DEF ResetAgent, SlotsType
  <2> QED
    BY <2>1, TypeReset
<1>2. CASE agent \notin {None, currentId}
  BY <1>2, TypeGotoOnly DEF ResetAgent, OwnerSteps
<1> QED
  BY <1>1, <1>2

\* A discard.
LEMMA TypeDiscard ==
  ASSUME TypeOK, Discard
  PROVE  TypeOK'
<1>1. IdentityType'
  BY IdFacts, TypeGroups DEF Discard, IdentityType
<1>2. SlotsType'
  BY IdFacts, TypeGroups DEF Discard, SlotsType
<1>3. OwnType'
  BY TypeGroups, GotoType DEF Discard, OwnerSteps
<1>4. UNCHANGED <<admission, life, clean, procs, links, env>>
  BY DEF Discard, agents
<1> QED
  BY <1>1, <1>2, <1>3, <1>4, TypeFrame, TypeGroupsNext

\* A step that publishes a lifecycle, moves on, and at most clears the active launch.
LEMMA TypePublishOnly ==
  ASSUME TypeOK, NEW step \in OwnerSteps, Goto(step),
         Publish("Starting") \/ Publish("Error") \/ UNCHANGED life,
         active' \in Ids,
         UNCHANGED <<gate, currentId, handle, requestTx, pendingTx, agentGen, clean, agents, env>>
  PROVE  TypeOK'
<1>1. UNCHANGED <<admission, identity, clean, procs, links, env>>
  BY DEF gate, agents
<1>2. OwnType'
  BY TypeGroups, GotoType
<1>3. LifeType'
  BY TypeGroups, PublishType, TypeFrame
<1>4. SlotsType'
  BY TypeGroups DEF SlotsType
<1> QED
  BY <1>1, <1>2, <1>3, <1>4, TypeFrame, TypeGroupsNext

\* The owner before it installs the provenance of a new agent.
LEMMA TypeOwnerPrepares ==
  ASSUME TypeOK,
         OwnerBegins \/ AutoChecks \/ Prepares \/ SendsRestart \/ RestartAnswered
  PROVE  TypeOK'
<1> USE DEF OwnerSteps
<1>1. CASE OwnerBegins
  <2>1. UNCHANGED <<gate, currentId, handle, requestTx, pendingTx, agentGen, clean, agents, env>>
    BY <1>1 DEF OwnerBegins
  <2>2. active' \in Ids
    BY <1>1, TypeGroups, IdFacts DEF OwnerBegins, SlotsType
  <2>3. Publish("Starting") \/ UNCHANGED life
    BY <1>1 DEF OwnerBegins
  <2>4. Goto("release") \/ Goto("prepare") \/ Goto("check")
    BY <1>1 DEF OwnerBegins
  <2> QED
    BY <2>1, <2>2, <2>3, <2>4, TypePublishOnly
<1>2. CASE AutoChecks
  <2>1. CASE Reset("NotStarted", "readmit") /\ UNCHANGED <<currentId, active>>
    BY <2>1, TypeReset, TypeGroups DEF SlotsType
  <2>2. CASE /\ Goto("drop") \/ Goto("release") \/ Goto("prepare")
             /\ UNCHANGED <<gate, slots, life, clean, agents, env>>
    BY <2>2, TypeGotoOnly
  <2> QED
    BY <1>2, <2>1, <2>2 DEF AutoChecks
<1>3. CASE Prepares
  <2>1. CASE /\ Publish("Starting")
             /\ Goto("restart") \/ Goto("provenance")
             /\ UNCHANGED <<gate, slots, clean, agents, env>>
    BY <2>1, TypePublishOnly, TypeGroups DEF slots, SlotsType
  <2>2. CASE Goto("drop") /\ UNCHANGED <<gate, slots, life, clean, agents, env>>
    BY <2>2, TypeGotoOnly
  <2>3. CASE \E state \in {"NotStarted", "Error"} :
               Reset(state, "drop") /\ UNCHANGED <<currentId, active>>
    BY <2>3, TypeReset, TypeGroups DEF SlotsType
  <2> QED
    BY <1>3, <2>1, <2>2, <2>3 DEF Prepares
<1>4. CASE SendsRestart
  <2>1. ProcsType'
    BY <1>4, SendType, TypeGroups DEF SendsRestart, SlotsType, OwnType
  <2>2. OwnType'
    BY <1>4, TypeGroups DEF SendsRestart, SlotsType, OwnType
  <2>3. UNCHANGED <<admission, identity, slots, life, clean, links, env>>
    BY <1>4 DEF SendsRestart, gate
  <2> QED
    BY <2>1, <2>2, <2>3, TypeFrame, TypeGroupsNext
<1>5. CASE RestartAnswered
  <2>1. CASE /\ Publish("Error") \/ UNCHANGED life
             /\ Goto("commit") \/ Goto("drop")
             /\ UNCHANGED <<gate, slots, clean, agents, env>>
    BY <2>1, TypePublishOnly, TypeGroups DEF slots, SlotsType
  <2>2. CASE ResetAgent(ownerAgent, "Error")
    BY <2>2, TypeResetAgent, TypeGroups DEF OwnType
  <2>3. CASE Goto("provenance") /\ UNCHANGED <<gate, slots, life, clean, agents, env>>
    BY <2>3, TypeGotoOnly
  <2> QED
    BY <1>5, <2>1, <2>2, <2>3 DEF RestartAnswered
<1> QED
  BY <1>1, <1>2, <1>3, <1>4, <1>5

\* The owner from the provenance of its agent to the answer of the agent.
LEMMA TypeOwnerSpawns ==
  ASSUME TypeOK,
         \/ InstallsProvenance \/ Arms \/ Spawns \/ StoresHandle \/ AwaitsConnect
         \/ SendsLaunch \/ LaunchAnswered
  PROVE  TypeOK'
<1> USE DEF OwnerSteps
<1>1. ASSUME NEW state \in {"NotStarted", "Error"}, Reset(state, "drop"),
             UNCHANGED <<currentId, active>>
      PROVE  TypeOK'
  BY <1>1, TypeReset, TypeGroups DEF SlotsType
<1>2. ownerGen \in Ids
  BY TypeGroups DEF OwnType
<1>3. CASE InstallsProvenance
  <2>1. CASE ~LaunchCancelled
    <3>1. IdentityType'
      BY <1>2, <1>3, <2>1, IdFacts DEF InstallsProvenance, IdentityType
    <3>2. SlotsType'
      BY <1>2, <1>3, <2>1, TypeGroups DEF InstallsProvenance, SlotsType
    <3>3. OwnType'
      BY <1>3, <2>1, TypeGroups DEF InstallsProvenance, OwnType
    <3>4. UNCHANGED <<admission, life, clean, procs, links, env>>
      BY <1>3, <2>1 DEF InstallsProvenance, agents
    <3> QED
      BY <3>1, <3>2, <3>3, <3>4, TypeFrame, TypeGroupsNext
  <2> QED
    BY <1>1, <1>3, <2>1 DEF InstallsProvenance
<1>4. CASE Arms
  <2>1. CASE ~LaunchCancelled
    <3>1. SlotsType'
      BY <1>2, <1>4, <2>1, TypeGroups DEF Arms, SlotsType
    <3>2. LifeType'
      BY <1>4, <2>1, TypeGroups, PublishType DEF Arms
    <3>3. OwnType'
      BY <1>4, <2>1, TypeGroups, GotoType DEF Arms
    <3>4. UNCHANGED <<admission, identity, clean, procs, links, env>>
      BY <1>4, <2>1 DEF Arms, gate, agents
    <3> QED
      BY <3>1, <3>2, <3>3, <3>4, TypeFrame, TypeGroupsNext
  <2> QED
    BY <1>1, <1>4, <2>1 DEF Arms
<1>5. CASE Spawns
  <2>1. CASE proc' = [proc EXCEPT ![ownerGen] = "alive"] /\ Goto("spawned")
             /\ UNCHANGED <<gate, slots, life, clean, inbox, kernel, links, env>>
    <3>1. ProcsType'
      BY <2>1, TypeGroups DEF ProcsType
    <3>2. OwnType'
      BY <2>1, TypeGroups, GotoType
    <3>3. UNCHANGED <<admission, identity, slots, life, clean, links, env>>
      BY <2>1 DEF gate
    <3> QED
      BY <3>1, <3>2, <3>3, TypeFrame, TypeGroupsNext
  <2> QED
    BY <1>1, <1>5, <2>1, TypeDiscard DEF Spawns
<1>6. CASE StoresHandle
  <2>1. ProcsType' /\ handle' \in Ids
    BY <1>2, <1>6, DropHandleType, TypeGroups DEF StoresHandle
  <2>2. SlotsType'
    BY <1>6, <2>1, TypeGroups DEF StoresHandle, SlotsType
  <2>3. OwnType'
    BY <1>6, TypeGroups, GotoType DEF StoresHandle
  <2>4. UNCHANGED <<admission, identity, life, clean, links, env>>
    BY <1>6 DEF StoresHandle, gate
  <2> QED
    BY <2>1, <2>2, <2>3, <2>4, TypeFrame, TypeGroupsNext
<1>7. CASE AwaitsConnect
  BY <1>2, <1>7, TypeDiscard, TypeGotoOnly, TypeResetAgent DEF AwaitsConnect
<1>8. CASE SendsLaunch
  <2>1. CASE ResetAgent(ownerGen, "Error")
    BY <1>2, <2>1, TypeResetAgent
  <2>2. CASE requestTx # None
    <3>1. Send(requestTx, ownerGen) /\ owner' = "launchRpc" /\ rpcTo' = requestTx
          /\ UNCHANGED <<gate, slots, life, ownerGen, ownerAgent, ownerNext, reply, signalled,
                         clean, links, env>>
      BY <1>8, <2>2 DEF SendsLaunch
    <3>2. ProcsType'
      BY <1>2, <3>1, SendType, TypeGroups DEF SlotsType
    <3>3. OwnType'
      BY <3>1, TypeGroups DEF OwnType, SlotsType
    <3>4. UNCHANGED <<admission, identity, slots, life, clean, links, env>>
      BY <3>1 DEF gate
    <3> QED
      BY <3>2, <3>3, <3>4, TypeFrame, TypeGroupsNext
  <2> QED
    BY <1>8, <2>1, <2>2 DEF SendsLaunch
<1>9. CASE LaunchAnswered
  <2>1. CASE /\ Goto("drop") \/ Goto("commit")
             /\ UNCHANGED <<gate, slots, life, clean, agents, env>>
    BY <2>1, TypeGotoOnly
  <2>2. CASE ResetAgent(ownerGen, "Error")
    BY <1>2, <2>2, TypeResetAgent
  <2> QED
    BY <1>9, <2>1, <2>2 DEF LaunchAnswered
<1> QED
  BY <1>3, <1>4, <1>5, <1>6, <1>7, <1>8, <1>9

\* A terminal lifecycle is committed with well-formed values.
LEMMA CommitTerminalType ==
  ASSUME TypeOK, NEW state \in {"Shutdown", "Error"}, CommitTerminal(state)
  PROVE  cancelled' \subseteq Generations /\ active' \in Ids /\ LifeType'
BY TypeGroups, IdFacts DEF CommitTerminal, AdmissionType, LifeType, Lifecycles, Write

\* An outcome is recorded for a generation that is one.
LEMMA CompleteType ==
  ASSUME TypeOK, NEW g \in Generations, Complete(g)
  PROVE  completed' \subseteq Generations /\ inFlight' \in Ids /\ source' \in {"Auto", "Manual"}
         /\ overtaken' \in BOOLEAN
BY TypeGroups, IdFacts DEF Complete, AdmissionType

\* The attempts that end: an owner's commit, its shutdown, its clearing of the
\* slots, its readmission and the drop of its token.
LEMMA TypeOwnerEnds ==
  ASSUME TypeOK, GateInv, Commits \/ OwnerShutsDown \/ OwnerClears \/ Readmits \/ Drops
  PROVE  TypeOK'
<1> USE DEF OwnerSteps
<1>1. owner # "none" => ownerGen \in Generations
  BY IdFacts, TypeGroups DEF GateInv, OwnType
<1>2. CASE Commits
  <2>1. CASE CommitSuccess
    <3>1. ownerGen \in Generations /\ Complete(ownerGen) /\ ownerAgent \in Ids
      BY <1>1, <1>2, <2>1, TypeGroups DEF Commits, CommitSuccess, OwnType
    <3>2. AdmissionType' /\ LifeType'
      BY <2>1, <3>1, CompleteType, TypeGroups
         DEF CommitSuccess, AdmissionType, LifeType, Lifecycles, Write
    <3>3. SlotsType'
      BY <2>1, <3>1, TypeGroups DEF CommitSuccess, SlotsType
    <3>4. OwnType' /\ UNCHANGED <<identity, clean, procs, links, env>>
      BY <2>1, OwnerEndsType DEF CommitSuccess, agents
    <3> QED
      BY <3>2, <3>3, <3>4, TypeFrame, TypeGroupsNext
  <2>2. CASE /\ Goto("shutdown") \/ Goto("drop") \/ Goto("release")
             /\ UNCHANGED <<gate, slots, life, clean, agents, env>>
    BY <2>2, TypeGotoOnly
  <2> QED
    BY <1>2, <2>1, <2>2 DEF Commits
<1>3. CASE OwnerShutsDown
  <2>1. CASE owner = "shutdown"
    <3>1. CommitTerminal("Shutdown") /\ Goto("shutdownRpc")
          /\ UNCHANGED <<inFlight, source, admitted, completed, cooldown, identity,
                    currentId, handle, requestTx, pendingTx, agentGen, clean, agents, env>>
      BY <1>3, <2>1 DEF OwnerShutsDown
    <3>2. AdmissionType' /\ LifeType' /\ SlotsType'
      BY <3>1, CommitTerminalType, TypeGroups DEF AdmissionType, SlotsType
    <3>3. OwnType' /\ UNCHANGED <<identity, clean, procs, links, env>>
      BY <3>1, GotoType, TypeGroups DEF agents
    <3> QED
      BY <3>2, <3>3, TypeFrame, TypeGroupsNext
  <2>2. CASE owner = "shutdownRpc"
    <3>1. Send(requestTx, 0) /\ Goto("cancelledDone")
          /\ UNCHANGED <<gate, slots, life, clean, links, env>>
      BY <1>3, <2>2 DEF OwnerShutsDown
    <3>2. ProcsType'
      BY <3>1, SendType, IdFacts, TypeGroups DEF SlotsType, None
    <3>3. OwnType' /\ UNCHANGED <<admission, identity, slots, life, clean, links, env>>
      BY <3>1, GotoType, TypeGroups DEF gate
    <3> QED
      BY <3>2, <3>3, TypeFrame, TypeGroupsNext
  <2>3. CASE owner = "cancelledDone"
    <3>1. cancelled' = cancelled \ {ownerGen} /\ Complete(ownerGen) /\ OwnerEnds
          /\ UNCHANGED <<admitted, cooldown, identity, slots, doc, clean, agents, env>>
      BY <1>3, <2>3 DEF OwnerShutsDown
    <3>2. AdmissionType' /\ LifeType'
      BY <1>1, <2>3, <3>1, CompleteType, TypeGroups DEF AdmissionType, LifeType, doc
    <3>3. OwnType' /\ UNCHANGED <<identity, slots, clean, procs, links, env>>
      BY <3>1, OwnerEndsType DEF agents
    <3> QED
      BY <3>2, <3>3, TypeFrame, TypeGroupsNext
  <2> QED
    BY <1>3, <2>1, <2>2, <2>3 DEF OwnerShutsDown
<1>4. CASE OwnerClears
  <2>1. UNCHANGED <<admission, identity, currentId, agentGen, active, life, clean, links, env>>
    BY <1>4 DEF OwnerClears, gate
  <2>2. ProcsType' /\ handle' \in Ids
    BY <1>4, DropHandleType, IdFacts, TypeGroups, TypeFrame DEF OwnerClears, SlotsType, procs
  <2>3. requestTx' \in Ids /\ pendingTx' \in Ids
    BY <1>4, TypeGroups, IdFacts DEF OwnerClears, SlotsType
  <2>4. OwnType'
    BY <1>4, GotoType, TypeGroups DEF OwnerClears, OwnType
  <2>5. SlotsType'
    BY <2>1, <2>2, <2>3, TypeGroups DEF SlotsType
  <2> QED
    BY <2>1, <2>2, <2>4, <2>5, TypeFrame, TypeGroupsNext
<1>5. CASE Readmits
  <2>1. ownerGen \in Generations
    BY <1>1, <1>5 DEF Readmits
  <2>2. inFlight' \in Ids /\ admitted' \in Ids /\ ownerGen' \in Ids
    BY <1>5, TypeGroups, IdFacts DEF Readmits, AdmissionType
  <2>3. AdmissionType' /\ LifeType'
    BY <1>5, <2>1, <2>2, TypeGroups DEF Readmits, AdmissionType, LifeType, doc
  <2>4. OwnType'
    BY <1>5, <2>2, TypeGroups, IdFacts DEF Readmits, OwnType
  <2>5. UNCHANGED <<identity, slots, clean, procs, links, env>>
    BY <1>5 DEF Readmits, agents
  <2> QED
    BY <2>3, <2>4, <2>5, TypeFrame, TypeGroupsNext
<1>6. CASE Drops
  <2>1. UNCHANGED <<identity, slots, procs, links, env>> /\ UNCHANGED <<lifecycle, committed>>
    BY <1>6 DEF Drops, agents, doc
  <2>2. OwnType' /\ CleanType'
    BY <1>6, OwnerEndsType, GotoType, TypeGroups, TypeFrame
       DEF Drops, StartCleanup, CleanType, CleanupSteps, OwnType
  <2>3. AdmissionType' /\ LifeType'
    <3>1. CASE UNCHANGED <<admission, overtaken>>
      BY <2>1, <3>1, TypeGroups, TypeFrame DEF LifeType
    <3>2. CASE owner = "releaseLocked" /\ Complete(ownerGen)
               /\ UNCHANGED <<cancelled, admitted, cooldown, clean>>
      BY <1>1, <2>1, <3>2, CompleteType, TypeGroups DEF AdmissionType, LifeType
    <3> QED
      BY <1>6, <3>1, <3>2 DEF Drops
  <2> QED
    BY <2>1, <2>2, <2>3, TypeFrame, TypeGroupsNext
<1> QED
  BY <1>2, <1>3, <1>4, <1>5, <1>6

\* An aborted owner and the cleanup after it.
LEMMA TypeCleanup ==
  ASSUME TypeOK, GateInv, OwnerAborted \/ CleansUp
  PROVE  TypeOK'
<1>1. CASE OwnerAborted
  <2>1. OwnType' /\ CleanType'
    BY <1>1, OwnerEndsType, TypeGroups DEF OwnerAborted, StartCleanup, CleanType, CleanupSteps, OwnType
  <2>2. ProcsType'
    BY <1>1, DiesType, TypeGroups, TypeFrame DEF OwnerAborted
  <2>3. EnvType'
    BY <1>1, TypeGroups, BoundsAssumption DEF OwnerAborted, Fault, EnvType, peers
  <2>4. UNCHANGED <<admission, identity, slots, life, links>>
    BY <1>1 DEF OwnerAborted, gate
  <2> QED
    BY <2>1, <2>2, <2>3, <2>4, TypeFrame, TypeGroupsNext
<1>2. CASE CleansUp
  <2>1. UNCHANGED <<own, links, env>>
    BY <1>2 DEF CleansUp
  <2>2. CASE cleanup = "finish"
    <3>1. cleanupGen \in Generations /\ Complete(cleanupGen)
      BY <1>2, <2>2, IdFacts, TypeGroups DEF CleansUp, GateInv, CleanType
    <3>2. AdmissionType' /\ LifeType' /\ CleanType'
      BY <1>2, <2>2, <3>1, CompleteType, TypeGroups, IdFacts
         DEF CleansUp, AdmissionType, LifeType, Lifecycles, Write, doc, CleanType, CleanupSteps
    <3>3. UNCHANGED <<identity, slots, procs>>
      BY <1>2, <2>2 DEF CleansUp
    <3> QED
      BY <2>1, <3>2, <3>3, TypeFrame, TypeGroupsNext
  <2>3. CASE cleanup # "finish"
    <3>1. UNCHANGED <<admission, life>>
      BY <1>2, <2>3 DEF CleansUp, gate
    <3>2. CleanType'
      BY <1>2, <2>3, TypeGroups DEF CleansUp, CleanType, CleanupSteps
    <3>3. IdentityType'
      BY <1>2, <2>3, IdFacts, TypeGroups DEF CleansUp, IdentityType, gate, identity
    <3>4. ProcsType' /\ handle' \in Ids
      <4>1. CASE DropHandle(None)
        BY <4>1, DropHandleType, IdFacts, TypeGroups
      <4>2. CASE UNCHANGED <<handle, procs>>
        BY <4>2, TypeGroups, TypeFrame DEF SlotsType
      <4> QED
        BY <1>2, <2>3, <4>1, <4>2 DEF CleansUp, slots
    <3>5. SlotsType'
      BY <1>2, <2>3, <3>4, IdFacts, TypeGroups DEF CleansUp, SlotsType, slots
    <3> QED
      BY <2>1, <3>1, <3>2, <3>3, <3>4, <3>5, TypeFrame, TypeGroupsNext
  <2> QED
    BY <2>2, <2>3
<1> QED
  BY <1>1, <1>2

\* What the connection handlers do to their own state.
LEMMA LinkType ==
  ASSUME LinksType, NEW a \in Generations
  PROVE  /\ \A c \in Connections : Link(a, c) => conn' \in [Generations -> Connections]
         /\ Closes(a) => LinksType'
<1>1. ASSUME NEW c \in Connections, Link(a, c)
      PROVE  conn' \in [Generations -> Connections]
  BY <1>1 DEF LinksType, Link
<1>2. ASSUME Closes(a)
      PROVE  LinksType'
  BY <1>2, IdFacts DEF LinksType, Link, Closes, Connections
<1> QED
  BY <1>1, <1>2

\* The connection handler of an agent.
LEMMA TypeHandler ==
  ASSUME TypeOK, NEW a \in Generations, HandlerStep(a)
  PROVE  TypeOK'
<1> USE DEF Connections
<1>1. a \in Ids /\ LinksType
  BY IdFacts, TypeGroups
<1>2. CASE HandlerMarks(a)
  <2>1. LinksType'
    BY <1>1, <1>2, LinkType DEF HandlerMarks, LinksType
  <2>2. IdentityType' /\ SlotsType'
    BY <1>1, <1>2, TypeGroups DEF HandlerMarks, IdentityType, SlotsType
  <2>3. UNCHANGED <<admission, life, own, clean, procs, env>>
    BY <1>2 DEF HandlerMarks
  <2> QED
    BY <2>1, <2>2, <2>3, TypeFrame, TypeGroupsNext
<1>3. CASE HandlerTakesSender(a)
  <2>1. LinksType'
    BY <1>1, <1>3, LinkType, TypeGroups DEF HandlerTakesSender, LinksType, SlotsType
  <2>2. SlotsType'
    BY <1>3, TypeGroups, IdFacts DEF HandlerTakesSender, SlotsType
  <2>3. UNCHANGED <<admission, identity, life, own, clean, procs, env>>
    BY <1>3 DEF HandlerTakesSender, gate
  <2> QED
    BY <2>1, <2>2, <2>3, TypeFrame, TypeGroupsNext
<1>4. CASE DisconnectCommits(a)
  <2>1. UNCHANGED <<inFlight, source, admitted, completed, cooldown, currentId, handle,
                    pendingTx, agentGen, own, clean, procs, env>>
    BY <1>4 DEF DisconnectCommits
  <2>2. CASE connected = a
    <3>1. CommitTerminal("Error") /\ expected' = None /\ connected' = None /\ requestTx' = None
          /\ Link(a, "fenced") /\ UNCHANGED <<heldTx, discGen, unsynced>>
      BY <1>4, <2>2 DEF DisconnectCommits
    <3>2. LinksType'
      BY <1>1, <3>1, LinkType DEF LinksType
    <3>3. AdmissionType' /\ SlotsType' /\ LifeType' /\ IdentityType'
      BY <2>1, <3>1, CommitTerminalType, TypeGroups, IdFacts
         DEF AdmissionType, SlotsType, IdentityType
    <3> QED
      BY <2>1, <3>2, <3>3, TypeFrame, TypeGroupsNext
  <2>3. CASE connected # a
    <3>1. Closes(a) /\ UNCHANGED <<cancelled, identity, requestTx, active, life>>
      BY <1>4, <2>3 DEF DisconnectCommits
    <3>2. LinksType' /\ UNCHANGED <<admission, identity, slots, life>>
      BY <1>1, <2>1, <3>1, LinkType DEF admission, slots
    <3> QED
      BY <2>1, <3>2, TypeFrame, TypeGroupsNext
  <2> QED
    BY <2>2, <2>3
<1>5. CASE DisconnectClearsId(a)
  <2>1. LinksType'
    BY <1>1, <1>5, LinkType DEF DisconnectClearsId, LinksType
  <2>2. SlotsType'
    BY <1>5, TypeGroups, IdFacts DEF DisconnectClearsId, SlotsType
  <2>3. UNCHANGED <<admission, identity, life, own, clean, procs, env>>
    BY <1>5 DEF DisconnectClearsId, gate
  <2> QED
    BY <2>1, <2>2, <2>3, TypeFrame, TypeGroupsNext
<1>6. CASE DisconnectDropsHandle(a)
  <2>1. LinksType'
    BY <1>1, <1>6, LinkType DEF DisconnectDropsHandle
  <2>2. ProcsType' /\ handle' \in Ids
    BY <1>6, DropHandleType, TypeGroups, TypeFrame, IdFacts DEF DisconnectDropsHandle, SlotsType, procs
  <2>3. SlotsType' /\ OwnType'
    BY <1>6, <2>2, TypeGroups DEF DisconnectDropsHandle, SlotsType, OwnType
  <2>4. UNCHANGED <<admission, identity, life, clean, env>>
    BY <1>6 DEF DisconnectDropsHandle, gate
  <2> QED
    BY <2>1, <2>2, <2>3, <2>4, TypeFrame, TypeGroupsNext
<1> QED
  BY <1>2, <1>3, <1>4, <1>5, <1>6 DEF HandlerStep

\* The agent, and the connection between it and its handler.
LEMMA TypeAgent ==
  ASSUME TypeOK, NEW a \in Generations, AgentStep(a)
  PROVE  TypeOK'
<1> USE DEF Connections
<1>1. LinksType /\ ProcsType /\ inbox[a] \in Seq(Ids) /\ <<>> \in Seq(Ids)
  BY TypeGroups, EmptySeq DEF ProcsType
<1>2. CASE AgentConnects(a)
  <2>1. LinksType'
    BY <1>1, <1>2, LinkType DEF AgentConnects, LinksType
  <2>2. UNCHANGED <<admission, identity, slots, life, own, clean, procs, env>>
    BY <1>2 DEF AgentConnects, gate
  <2> QED
    BY <2>1, <2>2, TypeFrame, TypeGroupsNext
<1>3. CASE HandlerSignals(a)
  <2>1. LinksType'
    BY <1>1, <1>3, IdFacts DEF HandlerSignals, LinksType
  <2>2. OwnType'
    BY <1>3, TypeGroups DEF HandlerSignals, OwnType
  <2>3. UNCHANGED <<admission, identity, slots, life, clean, procs, env>>
    BY <1>3 DEF HandlerSignals, gate
  <2> QED
    BY <2>1, <2>2, <2>3, TypeFrame, TypeGroupsNext
<1>4. CASE AgentServes(a)
  <2>1. Tail(inbox[a]) \in Seq(Ids)
    BY <1>1, <1>4, HeadTailProperties DEF AgentServes
  <2>2. ProcsType'
    BY <1>1, <1>4, <2>1 DEF AgentServes, ProcsType
  <2>3. OwnType'
    BY <1>4, TypeGroups DEF AgentServes, Answer, OwnType, own
  <2>4. LinksType'
    BY <1>1, <1>4 DEF AgentServes, LinksType, Lifecycles
  <2>5. UNCHANGED <<admission, identity, slots, life, clean, env>>
    BY <1>4 DEF AgentServes, gate
  <2> QED
    BY <2>2, <2>3, <2>4, <2>5, TypeFrame, TypeGroupsNext
<1>5. CASE AgentCrashes(a)
  <2>1. ProcsType'
    BY <1>1, <1>5, DiesType DEF AgentCrashes
  <2>2. EnvType'
    BY <1>5, TypeGroups, BoundsAssumption DEF AgentCrashes, Fault, EnvType, peers
  <2>3. UNCHANGED <<admission, identity, slots, life, own, clean, links>>
    BY <1>5 DEF AgentCrashes, gate
  <2> QED
    BY <2>1, <2>2, <2>3, TypeFrame, TypeGroupsNext
<1>6. CASE HandlerLoses(a)
  <2>1. LinksType'
    BY <1>1, <1>6, LinkType, TypeGroups DEF HandlerLoses, LinksType, SlotsType
  <2>2. ProcsType'
    BY <1>1, <1>6 DEF HandlerLoses, ProcsType
  <2>3. EnvType'
    BY <1>6, TypeGroups, BoundsAssumption DEF HandlerLoses, Fault, EnvType, peers
  <2>4. UNCHANGED <<admission, identity, slots, life, own, clean>>
    BY <1>6 DEF HandlerLoses, gate
  <2> QED
    BY <2>1, <2>2, <2>3, <2>4, TypeFrame, TypeGroupsNext
<1>7. CASE AgentReports(a)
  <2>1. LinksType'
    BY <1>1, <1>7 DEF AgentReports, LinksType, Lifecycles
  <2>2. UNCHANGED <<admission, identity, slots, life, own, clean, procs, env>>
    BY <1>7 DEF AgentReports, gate
  <2> QED
    BY <2>1, <2>2, TypeFrame, TypeGroupsNext
<1>8. CASE HandlerMerges(a)
  <2>1. LinksType' /\ LifeType'
    BY <1>1, <1>8, TypeGroups DEF HandlerMerges, LinksType, LifeType
  <2>2. UNCHANGED <<admission, identity, slots, own, clean, procs, env>>
    BY <1>8 DEF HandlerMerges, gate
  <2> QED
    BY <2>1, <2>2, TypeFrame, TypeGroupsNext
<1> QED
  BY <1>2, <1>3, <1>4, <1>5, <1>6, <1>7, <1>8 DEF AgentStep

\* ShutdownKernel.
LEMMA TypeShutdown ==
  ASSUME TypeOK, ShutdownBegins \/ ShutdownSends
  PROVE  TypeOK'
<1>1. CASE ShutdownBegins
  <2>1. AdmissionType' /\ LifeType' /\ SlotsType'
    BY <1>1, CommitTerminalType, TypeGroups DEF ShutdownBegins, AdmissionType, SlotsType
  <2>2. EnvType'
    BY <1>1, TypeGroups, BoundsAssumption DEF ShutdownBegins, EnvType, peers
  <2>3. UNCHANGED <<identity, own, clean, procs, links>>
    BY <1>1 DEF ShutdownBegins, agents
  <2> QED
    BY <2>1, <2>2, <2>3, TypeFrame, TypeGroupsNext
<1>2. CASE ShutdownSends
  <2>1. ProcsType'
    BY <1>2, SendType, TypeGroups, IdFacts DEF ShutdownSends, SlotsType, None
  <2>2. EnvType'
    BY <1>2, TypeGroups DEF ShutdownSends, EnvType, peers
  <2>3. UNCHANGED <<admission, identity, slots, life, own, clean, links>>
    BY <1>2 DEF ShutdownSends, gate
  <2> QED
    BY <2>1, <2>2, <2>3, TypeFrame, TypeGroupsNext
<1> QED
  BY <1>1, <1>2

-----------------------------------------------------------------------------
(* The gate.                                                               *)

\* What a step does to the gate.  It leaves it alone, though an owner or a
\* cleanup moves on under it:
GateKept ==
  /\ UNCHANGED <<inFlight, admitted, completed, ownerGen, cleanupGen>>
  /\ owner' = "none" <=> owner = "none"
  /\ cleanup' = "none" <=> cleanup = "none"

\* it admits an attempt:
GateAdmits ==
  /\ inFlight = None /\ admitted' = admitted + 1 /\ inFlight' = admitted + 1
  /\ owner' # "none" /\ ownerGen' = admitted + 1
  /\ UNCHANGED <<completed, clean>>

\* the owner leaves its attempt to a cleanup:
GateAbandons ==
  /\ owner # "none" /\ owner' = "none" /\ cleanup' # "none" /\ cleanupGen' = ownerGen
  /\ UNCHANGED <<inFlight, admitted, completed>>

\* the owner or the cleanup records the outcome:
GateCompletes ==
  /\ \/ owner # "none" /\ completed' = completed \cup {ownerGen} /\ UNCHANGED clean
     \/ cleanup # "none" /\ completed' = completed \cup {cleanupGen} /\ UNCHANGED own
  /\ inFlight' = None /\ owner' = "none" /\ cleanup' = "none" /\ UNCHANGED admitted

\* or the owner records it and is admitted again.
GateReadmits ==
  /\ owner # "none" /\ completed' = completed \cup {ownerGen}
  /\ admitted' = admitted + 1 /\ inFlight' = admitted + 1
  /\ owner' # "none" /\ ownerGen' = admitted + 1 /\ UNCHANGED clean

\* A step of the owner before its commit only moves the owner.
LEMMA OwnerMovesOn ==
  ASSUME \/ OwnerBegins \/ AutoChecks \/ Prepares \/ SendsRestart \/ RestartAnswered
         \/ InstallsProvenance \/ Arms \/ Spawns \/ StoresHandle \/ AwaitsConnect
         \/ SendsLaunch \/ LaunchAnswered
  PROVE  GateKept
<1> USE DEF GateKept, Goto, gate, admission, clean
<1>1. ASSUME NEW state, NEW next, owner # "none", Reset(state, next)
      PROVE  GateKept
  BY <1>1 DEF Reset
<1>2. ASSUME NEW agent, NEW state, owner # "none", ResetAgent(agent, state)
      PROVE  GateKept
  BY <1>1, <1>2 DEF ResetAgent
<1>3. ASSUME owner # "none", Discard
      PROVE  GateKept
  BY <1>3 DEF Discard
<1>4. CASE OwnerBegins
  BY <1>4 DEF OwnerBegins
<1>5. CASE AutoChecks \/ Prepares
  BY <1>1, <1>5 DEF AutoChecks, Prepares
<1>6. CASE SendsRestart \/ RestartAnswered
  BY <1>2, <1>6 DEF SendsRestart, RestartAnswered
<1>7. CASE InstallsProvenance \/ Arms
  BY <1>1, <1>7 DEF InstallsProvenance, Arms
<1>8. CASE Spawns \/ StoresHandle
  BY <1>1, <1>3, <1>8 DEF Spawns, StoresHandle
<1>9. CASE AwaitsConnect \/ SendsLaunch \/ LaunchAnswered
  BY <1>2, <1>3, <1>9 DEF AwaitsConnect, SendsLaunch, LaunchAnswered
<1> QED
  BY <1>4, <1>5, <1>6, <1>7, <1>8, <1>9

\* Every step is one of the five.
LEMMA GateSteps ==
  ASSUME TypeOK, GateInv, Next
  PROVE  GateKept \/ GateAdmits \/ GateAbandons \/ GateCompletes \/ GateReadmits
<1> USE DEF gate, admission, clean, own
<1>1. ASSUME NEW kind, Admit(kind)
      PROVE  GateAdmits
  BY <1>1 DEF Admit, GateAdmits
<1>2. CASE PeerConnect \/ PeerAsks \/ PeerLeave \/ FollowerWakes \/ ManualRequest
  BY <1>1, <1>2 DEF PeerConnect, PeerAsks, PeerLeave, FollowerWakes, ManualRequest, GateKept
<1>3. CASE ShutdownBegins \/ ShutdownSends
  BY <1>3 DEF ShutdownBegins, ShutdownSends, GateKept
<1>4. CASE OwnerStep
  <2>1. CASE Commits
    BY <2>1 DEF Commits, CommitSuccess, Complete, OwnerEnds, GateInv, GateKept, GateCompletes, Goto
  <2>2. CASE OwnerShutsDown
    BY <2>2 DEF OwnerShutsDown, Complete, OwnerEnds, GateInv, GateKept, GateCompletes, Goto
  <2>3. CASE OwnerClears
    BY <2>3, TypeGroups DEF OwnerClears, GateKept, Goto, OwnType
  <2>4. CASE Readmits
    BY <2>4 DEF Readmits, GateInv, GateCompletes, GateReadmits
  <2>5. CASE Drops
    BY <2>5 DEF Drops, StartCleanup, Complete, OwnerEnds, GateInv, GateKept, GateAbandons,
                GateCompletes, Goto
  <2> QED
    BY <1>4, <2>1, <2>2, <2>3, <2>4, <2>5, OwnerMovesOn DEF OwnerStep
<1>5. CASE CleansUp
  BY <1>5 DEF CleansUp, Complete, GateInv, GateKept, GateCompletes
<1>6. CASE OwnerAborted
  BY <1>6 DEF OwnerAborted, StartCleanup, OwnerEnds, GateAbandons
<1>7. ASSUME NEW a \in Generations, HandlerStep(a) \/ AgentStep(a)
      PROVE  GateKept
  BY <1>7 DEF HandlerStep, AgentStep, HandlerMarks, HandlerTakesSender, DisconnectCommits,
              DisconnectClearsId, DisconnectDropsHandle, AgentConnects, HandlerSignals,
              AgentServes, Answer, AgentReports, HandlerMerges, AgentCrashes, HandlerLoses, GateKept
<1> QED
  BY <1>2, <1>3, <1>4, <1>5, <1>6, <1>7 DEF Next, LaunchStep, RequestStep

\* The step of the invariant of the gate.
LEMMA GateStep ==
  ASSUME TypeOK, GateInv, [Next]_vars
  PROVE  GateInv'
<1>1. admitted + 1 # None
  <2>1. admitted \in Nat
    BY IdFacts, TypeGroups DEF AdmissionType
  <2> QED
    BY <2>1 DEF None
<1>2. CASE Next
  BY <1>1, <1>2, GateSteps
     DEF GateInv, GateKept, GateAdmits, GateAbandons, GateCompletes, GateReadmits, clean
<1>3. CASE UNCHANGED vars
  BY <1>3 DEF vars, gate, admission, own, clean, GateInv
<1> QED
  BY <1>2, <1>3

\* Every step keeps the types.
LEMMA TypeStep ==
  ASSUME TypeOK, GateInv, [Next]_vars
  PROVE  TypeOK'
<1>1. CASE Next
  BY <1>1, TypePeers, TypeOwnerPrepares, TypeOwnerSpawns, TypeOwnerEnds, TypeCleanup,
     TypeHandler, TypeAgent, TypeShutdown
     DEF Next, LaunchStep, OwnerStep, RequestStep
<1>2. CASE UNCHANGED vars
  <2>1. UNCHANGED <<admission, identity, slots, life, own, clean, procs, links, env>>
    BY <1>2 DEF vars, gate, agents
  <2> QED
    BY <2>1, TypeFrame, TypeGroupsNext
<1> QED
  BY <1>1, <1>2

\* The initial state.
LEMMA GateInit ==
  ASSUME Init
  PROVE  TypeOK /\ GateInv
<1>1. GateInv
  BY DEF Init, GateInv
<1>2. AdmissionType /\ IdentityType /\ SlotsType /\ LifeType
  BY IdFacts DEF Init, AdmissionType, IdentityType, SlotsType, LifeType, Lifecycles, None
<1>3. OwnType /\ CleanType
  BY IdFacts DEF Init, OwnType, OwnerSteps, CleanType, CleanupSteps
<1>4. ProcsType /\ LinksType
  <2>1. None \in Ids /\ <<>> \in Seq(Ids)
    BY IdFacts, EmptySeq
  <2>2. ProcsType
    BY <2>1 DEF Init, ProcsType
  <2>3. LinksType
    BY <2>1 DEF Init, LinksType, Connections
  <2> QED
    BY <2>2, <2>3
<1>5. EnvType
  <2>1. None \in Ids /\ 0 \in 0 .. MaxShutdowns /\ 0 \in 0 .. MaxFaults
    BY IdFacts, BoundsAssumption
  <2> QED
    BY <2>1 DEF Init, EnvType
<1> QED
  BY <1>1, <1>2, <1>3, <1>4, <1>5, TypeGroups

\* The two together are invariant.
LEMMA GateInvariant == Spec => [](TypeOK /\ GateInv)
<1>1. Init => TypeOK /\ GateInv
  BY GateInit
<1>2. TypeOK /\ GateInv /\ [Next]_vars => (TypeOK /\ GateInv)'
  BY GateStep, TypeStep
<1> QED
  BY <1>1, <1>2, PTL DEF Spec

\* Every variable keeps its type; in particular only generations that were
\* admitted are ever cancelled or completed.
THEOREM TypeCorrect == Spec => []TypeOK
BY GateInvariant, PTL

\* The launch gate is closed exactly while an owner or a cleanup holds the
\* attempt in flight, for any number of launches, shutdowns and faults.
THEOREM GateOwned == Spec => []GateIsOwned
<1>1. GateInv => GateIsOwned
  BY DEF GateInv, GateIsOwned
<1> QED
  BY <1>1, GateInvariant, PTL

\* Whoever joined an attempt is answered: an attempt leaves the gate only with
\* an outcome, through every way it can end.
THEOREM NoWaiterLost == Spec => []NoLostWaiter
<1>1. Init => NoLostWaiter
  BY DEF Init, NoLostWaiter
<1>2. TypeOK /\ GateInv /\ NoLostWaiter /\ [Next]_vars => NoLostWaiter'
  <2> SUFFICES ASSUME TypeOK, GateInv, NoLostWaiter, [Next]_vars, GateInv',
                      NEW g \in 1 .. admitted', g # inFlight'
               PROVE  g \in completed'
    BY GateStep DEF NoLostWaiter
  <2>1. admitted \in Nat
    BY IdFacts, TypeGroups DEF AdmissionType
  <2>2. CASE Next
    <3>1. CASE GateKept \/ GateAbandons
      BY <3>1 DEF GateKept, GateAbandons, NoLostWaiter
    <3>2. CASE GateAdmits \/ GateReadmits
      <4>1. g \in 1 .. admitted
        BY <2>1, <3>2 DEF GateAdmits, GateReadmits
      <4> QED
        BY <2>1, <3>2, <4>1 DEF GateAdmits, GateReadmits, GateInv, NoLostWaiter, None
    <3>3. CASE GateCompletes
      BY <3>3 DEF GateCompletes, GateInv, NoLostWaiter
    <3> QED
      BY <2>2, <3>1, <3>2, <3>3, GateSteps
  <2>3. CASE UNCHANGED vars
    BY <2>3 DEF vars, gate, admission, NoLostWaiter
  <2> QED
    BY <2>2, <2>3
<1> QED
  BY <1>1, <1>2, GateInvariant, PTL DEF Spec

-----------------------------------------------------------------------------
(* Cancellation.                                                           *)

\* The cancellation of the attempt in flight and a terminal lifecycle come
\* together.
CancelInv ==
  /\ overtaken => LaunchCancelled
  /\ LaunchCancelled => committed \in {"Shutdown", "Error"}
  /\ owner \notin {"none", "admitted", "release", "releaseLocked"} /\ ~LaunchCancelled
       => committed # "Shutdown"

\* Only attempts that were admitted are cancelled.
PastInv == \A g \in cancelled : g <= admitted

\* A step cancels at most the attempt in flight.
LEMMA CancelsInFlight ==
  ASSUME [Next]_vars
  PROVE  cancelled' \subseteq cancelled \cup ({inFlight} \ {None})
<1> USE DEF gate, admission
<1>1. CASE PeerConnect \/ PeerAsks \/ PeerLeave \/ FollowerWakes \/ ManualRequest
  BY <1>1 DEF PeerConnect, PeerAsks, PeerLeave, FollowerWakes, ManualRequest, Admit
<1>2. CASE ShutdownBegins \/ ShutdownSends
  BY <1>2 DEF ShutdownBegins, ShutdownSends, CommitTerminal
<1>3. CASE OwnerBegins \/ AutoChecks \/ Prepares \/ SendsRestart \/ RestartAnswered
  BY <1>3 DEF OwnerBegins, AutoChecks, Prepares, SendsRestart, RestartAnswered, Reset, ResetAgent
<1>4. CASE InstallsProvenance \/ Arms \/ Spawns \/ StoresHandle
  BY <1>4 DEF InstallsProvenance, Arms, Spawns, StoresHandle, Reset, Discard
<1>5. CASE AwaitsConnect \/ SendsLaunch \/ LaunchAnswered
  BY <1>5 DEF AwaitsConnect, SendsLaunch, LaunchAnswered, ResetAgent, Reset, Discard
<1>6. CASE Commits \/ OwnerShutsDown \/ OwnerClears \/ Readmits \/ Drops
  BY <1>6 DEF Commits, CommitSuccess, OwnerShutsDown, CommitTerminal, OwnerClears, Readmits, Drops
<1>7. CASE CleansUp \/ OwnerAborted
  BY <1>7 DEF CleansUp, OwnerAborted
<1>8. ASSUME NEW a \in Generations, HandlerStep(a) \/ AgentStep(a)
      PROVE  cancelled' \subseteq cancelled \cup ({inFlight} \ {None})
  BY <1>8 DEF HandlerStep, AgentStep, HandlerMarks, HandlerTakesSender, DisconnectCommits,
              CommitTerminal, DisconnectClearsId, DisconnectDropsHandle, AgentConnects,
              HandlerSignals, AgentServes, AgentReports, HandlerMerges, AgentCrashes,
              HandlerLoses
<1>9. CASE UNCHANGED vars
  BY <1>9 DEF vars
<1> QED
  BY <1>1, <1>2, <1>3, <1>4, <1>5, <1>6, <1>7, <1>8, <1>9
     DEF Next, LaunchStep, OwnerStep, RequestStep

\* The count of admissions never falls.
LEMMA AdmittedGrows ==
  ASSUME TypeOK, GateInv, [Next]_vars
  PROVE  admitted' \in {admitted, admitted + 1}
<1>1. CASE Next
  BY <1>1, GateSteps DEF GateKept, GateAdmits, GateAbandons, GateCompletes, GateReadmits
<1>2. CASE UNCHANGED vars
  BY <1>2 DEF vars, gate, admission
<1> QED
  BY <1>1, <1>2

\* The step of the first.
LEMMA PastStep ==
  ASSUME TypeOK, GateInv, PastInv, [Next]_vars
  PROVE  PastInv'
<1>1. admitted \in Nat /\ inFlight \in Nat /\ \A g \in cancelled : g \in Nat
  BY TypeGroups, IdFacts DEF AdmissionType
<1> SUFFICES ASSUME NEW g \in cancelled' PROVE g <= admitted'
  BY DEF PastInv
<1>2. g \in cancelled \/ (g = inFlight /\ g # None)
  BY CancelsInFlight
<1>3. g \in Nat /\ g <= admitted
  BY <1>1, <1>2 DEF PastInv, GateInv
<1> QED
  BY <1>1, <1>3, AdmittedGrows

\* The step of the second.
LEMMA CancelStep ==
  ASSUME TypeOK, GateInv, PastInv, CancelInv, [Next]_vars
  PROVE  CancelInv'
<1> USE DEF CancelInv, LaunchCancelled
<1>1. None \notin cancelled /\ admitted + 1 \notin cancelled /\ admitted + 1 # None
  <2>1. None \notin cancelled /\ admitted \in Nat
    BY TypeGroups, IdFacts DEF AdmissionType
  <2>2. admitted + 1 \in cancelled => admitted + 1 <= admitted
    BY DEF PastInv
  <2> QED
    BY <2>1, <2>2 DEF None
<1>2. CASE Next
  <2> USE DEF gate, admission, life, doc, own, clean
  <2>1. ASSUME NEW kind, Admit(kind)
        PROVE  CancelInv'
    BY <1>1, <2>1 DEF Admit, GateInv
  <2>2. CASE PeerConnect \/ PeerAsks \/ PeerLeave \/ FollowerWakes \/ ManualRequest
    BY <2>1, <2>2 DEF PeerConnect, PeerAsks, PeerLeave, FollowerWakes, ManualRequest
  <2>3. ASSUME NEW state \in {"Shutdown", "Error"}, CommitTerminal(state), UNCHANGED <<inFlight, admitted, owner>>
        PROVE  CancelInv'
    BY <1>1, <2>3 DEF CommitTerminal, Write, GateInv
  <2>4. CASE ShutdownBegins \/ ShutdownSends
    BY <2>3, <2>4 DEF ShutdownBegins, ShutdownSends
  <2>5. ASSUME NEW state \in {"NotStarted", "Starting", "Error"}, Publish(state),
               UNCHANGED <<inFlight, admitted, cancelled>>
        PROVE  CancelInv'
    BY <2>5 DEF Publish, Write
  <2>6. ASSUME owner \notin {"none", "admitted", "release", "releaseLocked"} \/ owner' \in {"release", "releaseLocked"},
               UNCHANGED <<inFlight, admitted, cancelled, life>>
        PROVE  CancelInv'
    BY <2>6
  <2>7. ASSUME owner \notin {"none", "admitted", "release", "releaseLocked"},
               NEW agent, NEW state \in {"NotStarted", "Starting", "Error"}, ResetAgent(agent, state)
        PROVE  CancelInv'
    BY <2>5, <2>6, <2>7 DEF ResetAgent, Reset
  <2>8. CASE OwnerStep
    <3>1. CASE OwnerBegins \/ AutoChecks \/ Prepares
      BY <2>5, <2>6, <2>8, <3>1 DEF OwnerBegins, AutoChecks, Prepares, Reset, Goto
    <3>2. CASE SendsRestart \/ RestartAnswered
      BY <2>5, <2>6, <2>7, <3>2 DEF SendsRestart, RestartAnswered
    <3>3. CASE InstallsProvenance \/ Arms
      BY <2>5, <2>6, <3>3 DEF InstallsProvenance, Arms, Reset
    <3>4. CASE Spawns \/ StoresHandle
      BY <2>5, <2>6, <3>4 DEF Spawns, StoresHandle, Discard, Reset
    <3>5. CASE AwaitsConnect \/ SendsLaunch \/ LaunchAnswered
      BY <2>6, <2>7, <3>5 DEF AwaitsConnect, SendsLaunch, LaunchAnswered, Discard
    <3>6. CASE Commits
      BY <1>1, <2>6, <3>6 DEF Commits, CommitSuccess, Write, Complete, OwnerEnds, GateInv
    <3>7. CASE OwnerShutsDown
      BY <1>1, <2>6, <3>7 DEF OwnerShutsDown, CommitTerminal, Write, Complete, OwnerEnds, GateInv
    <3>8. CASE OwnerClears \/ Readmits \/ Drops
      BY <1>1, <2>6, <3>8 DEF OwnerClears, Readmits, Drops, StartCleanup, Complete, OwnerEnds, GateInv, Goto
    <3> QED
      BY <2>8, <3>1, <3>2, <3>3, <3>4, <3>5, <3>6, <3>7, <3>8 DEF OwnerStep
  <2>9. CASE CleansUp \/ OwnerAborted
    BY <1>1, <2>9 DEF CleansUp, Write, OwnerAborted, StartCleanup, Complete, OwnerEnds, GateInv
  <2>10. ASSUME NEW a \in Generations, HandlerStep(a) \/ AgentStep(a)
         PROVE  CancelInv'
    BY <2>3, <2>10 DEF HandlerStep, AgentStep, HandlerMarks, HandlerTakesSender, DisconnectCommits,
              DisconnectClearsId, DisconnectDropsHandle, AgentConnects, HandlerSignals,
              AgentServes, Answer, AgentReports, HandlerMerges, AgentCrashes, HandlerLoses
  <2> QED
    BY <1>2, <2>2, <2>4, <2>8, <2>9, <2>10 DEF Next, LaunchStep, RequestStep
<1>3. CASE UNCHANGED vars
  BY <1>3 DEF vars, gate, admission, life, doc, own
<1> QED
  BY <1>2, <1>3

\* Types, gate and cancellation together.
CoreInv == TypeOK /\ GateInv /\ PastInv /\ CancelInv

\* They are invariant.
LEMMA CoreInvariant == Spec => []CoreInv
<1>1. Init => CoreInv
  <2> SUFFICES ASSUME Init PROVE CoreInv
    OBVIOUS
  <2>1. PastInv /\ CancelInv
    BY DEF Init, PastInv, CancelInv, LaunchCancelled
  <2> QED
    BY <2>1, GateInit DEF CoreInv
<1>2. CoreInv /\ [Next]_vars => CoreInv'
  BY GateStep, TypeStep, PastStep, CancelStep DEF CoreInv
<1> QED
  BY <1>1, <1>2, PTL DEF Spec

\* The room writes no progress of an overtaken attempt.
LEMMA TerminalKept ==
  ASSUME CoreInv, Next, overtaken
  PROVE  committed' \in {committed, "Shutdown", "Error"}
<1>1. LaunchCancelled /\ GateInv
  BY DEF CoreInv, CancelInv
<1>2. \A state : Publish(state) => committed' = committed
  BY <1>1 DEF Publish, doc
<1> USE DEF life, doc
<1>3. CASE PeerConnect \/ PeerAsks \/ PeerLeave \/ FollowerWakes \/ ManualRequest
  BY <1>3 DEF PeerConnect, PeerAsks, PeerLeave, FollowerWakes, ManualRequest, Admit
<1>4. CASE ShutdownBegins \/ ShutdownSends
  BY <1>4 DEF ShutdownBegins, ShutdownSends, CommitTerminal, Write
<1>5. CASE OwnerBegins \/ AutoChecks \/ Prepares \/ SendsRestart \/ RestartAnswered
  BY <1>2, <1>5 DEF OwnerBegins, AutoChecks, Prepares, SendsRestart, RestartAnswered, Reset,
                    ResetAgent
<1>6. CASE InstallsProvenance \/ Arms \/ Spawns \/ StoresHandle
  BY <1>2, <1>6 DEF InstallsProvenance, Arms, Spawns, StoresHandle, Reset, Discard
<1>7. CASE AwaitsConnect \/ SendsLaunch \/ LaunchAnswered
  BY <1>2, <1>7 DEF AwaitsConnect, SendsLaunch, LaunchAnswered, ResetAgent, Reset, Discard
<1>8. CASE Commits \/ OwnerShutsDown \/ OwnerClears \/ Readmits \/ Drops
  BY <1>1, <1>8 DEF Commits, OwnerShutsDown, CommitTerminal, Write, OwnerClears, Readmits, Drops
<1>9. CASE CleansUp \/ OwnerAborted
  BY <1>1, <1>9 DEF CleansUp, OwnerAborted, GateInv, LaunchCancelled
<1>10. ASSUME NEW a \in Generations, HandlerStep(a) \/ AgentStep(a)
       PROVE  committed' \in {committed, "Shutdown", "Error"}
  BY <1>10 DEF HandlerStep, AgentStep, HandlerMarks, HandlerTakesSender, DisconnectCommits,
               CommitTerminal, Write, DisconnectClearsId, DisconnectDropsHandle, AgentConnects,
               HandlerSignals, AgentServes, AgentReports, HandlerMerges, AgentCrashes,
               HandlerLoses
<1> QED
  BY <1>3, <1>4, <1>5, <1>6, <1>7, <1>8, <1>9, <1>10 DEF Next, LaunchStep, OwnerStep, RequestStep

\* A terminal lifecycle is the room's last word until a later launch: whatever
\* the attempt that was under way still does, and whatever its agent sends, the
\* room itself writes neither Starting nor Running again.
THEOREM TerminalStays == Spec => TerminalSticks
<1>1. CoreInv /\ [Next]_vars
        => [overtaken => committed' \in {committed, "Shutdown", "Error"}]_vars
  BY TerminalKept
<1> QED
  BY <1>1, CoreInvariant, PTL DEF Spec, TerminalSticks

-----------------------------------------------------------------------------
(* What happens to processes and handlers, agent by agent.                 *)

\* Killing the process group of an agent.
LEMMA DiesFacts ==
  ASSUME ProcsType, NEW a \in Generations, Dies(a)
  PROVE  \A b \in Generations :
           IF b = a THEN proc'[b] = "dead" /\ ~kernel'[b] /\ inbox'[b] = <<>>
                    ELSE proc'[b] = proc[b] /\ kernel'[b] = kernel[b] /\ inbox'[b] = inbox[b]
BY DEF Dies, ProcsType

\* Taking or replacing the handle kills the agent it names, and no other.
LEMMA DropHandleFacts ==
  ASSUME ProcsType, handle \in Ids, NEW next \in Ids, DropHandle(next)
  PROVE  /\ handle' = next
         /\ \A b \in Generations :
              IF b = handle /\ b # next
                THEN proc'[b] = "dead" /\ ~kernel'[b] /\ inbox'[b] = <<>>
                ELSE proc'[b] = proc[b] /\ kernel'[b] = kernel[b] /\ inbox'[b] = inbox[b]
<1>1. CASE handle \in {None, next}
  BY <1>1, IdFacts DEF DropHandle, procs
<1>2. CASE handle \notin {None, next}
  BY <1>2, IdFacts, DiesFacts DEF DropHandle
<1> QED
  BY <1>1, <1>2

\* The slot is emptied or left alone: what the steps that clear the slots do.
LEMMA HandleGone ==
  ASSUME ProcsType, handle \in Ids, DropHandle(None) \/ UNCHANGED <<handle, procs>>
  PROVE  /\ handle' \in {handle, None}
         /\ \A b \in Generations :
              \/ proc'[b] = proc[b] /\ kernel'[b] = kernel[b] /\ inbox'[b] = inbox[b]
              \/ b = handle /\ proc'[b] = "dead" /\ ~kernel'[b] /\ inbox'[b] = <<>>
         /\ handle # None /\ handle' = None => proc'[handle] = "dead"
<1>1. CASE DropHandle(None)
  <2>1. ASSUME NEW b \in Generations
        PROVE  IF b = handle
                 THEN proc'[b] = "dead" /\ ~kernel'[b] /\ inbox'[b] = <<>>
                 ELSE proc'[b] = proc[b] /\ kernel'[b] = kernel[b] /\ inbox'[b] = inbox[b]
    BY <1>1, <2>1, DropHandleFacts, IdFacts
  <2>2. handle' = None
    BY <1>1 DEF DropHandle
  <2> QED
    BY <2>1, <2>2, IdFacts
<1>2. CASE UNCHANGED <<handle, procs>>
  BY <1>2 DEF procs
<1> QED
  BY <1>1, <1>2

\* A request reaches the inbox of the agent it is for, if that one lives.
LEMMA SendFacts ==
  ASSUME ProcsType, NEW to \in Ids, NEW message \in Ids, Send(to, message)
  PROVE  /\ proc' = proc /\ kernel' = kernel
         /\ \A b \in Generations :
              inbox'[b] = IF b = to /\ proc[b] = "alive" THEN Append(inbox[b], message) ELSE inbox[b]
BY IdFacts DEF Send, ProcsType

\* A handler moves alone.
LEMMA LinkFacts ==
  ASSUME LinksType, NEW a \in Generations, NEW c, Link(a, c)
  PROVE  \A b \in Generations : conn'[b] = IF b = a THEN c ELSE conn[b]
BY DEF Link, LinksType

-----------------------------------------------------------------------------
(* The order of the agents.                                                *)

\* Agents come in the order of their generations; the gate expects the newest
\* or a later one; a handler on its way out that will touch the slots has read
\* the generation of its own agent.
LineageInv ==
  /\ handle <= agentGen /\ agentGen <= admitted
  /\ \A a \in Generations :
       /\ proc[a] # "none" => a <= agentGen
       /\ proc[a] = "none" => conn[a] = "none"
       /\ conn[a] \in {"fenced", "unnamed"} \/ (conn[a] = "lost" /\ a = agentGen)
            => discGen[a] = a
  /\ owner \in {"admitted", "check", "prepare", "restart", "restartRpc", "provenance", "arm"}
       => agentGen < ownerGen
  /\ owner \in {"spawning", "spawned", "connecting", "launch", "launchRpc"} => agentGen = ownerGen
  /\ owner \in {"arm", "spawning", "spawned", "connecting", "launch", "launchRpc"}
       => expected \in {None, ownerGen} /\ ownerAgent = ownerGen
  /\ owner = "commit" => ownerAgent # None
  /\ expected # None => agentGen <= expected
  /\ connected \in {None, expected}

\* The step of this invariant.
LEMMA LineageStep ==
  ASSUME TypeOK, GateInv, LineageInv, Next
  PROVE  LineageInv'
<1>1. /\ handle \in Nat /\ agentGen \in Nat /\ admitted \in Nat /\ ownerGen \in Nat
      /\ expected \in Nat /\ connected \in Nat /\ inFlight \in Nat
      /\ handle \in Ids /\ ownerGen \in Ids
      /\ ProcsType /\ LinksType
  BY TypeGroups, IdFacts DEF AdmissionType, IdentityType, SlotsType, OwnType
<1>2. Generations \subseteq Nat
  BY IdFacts
<1> USE DEF LineageInv, gate, admission, identity, slots, own, procs, links, agents, None
<1>3. ASSUME NEW kind, Admit(kind)
      PROVE  LineageInv'
  BY <1>1, <1>2, <1>3 DEF Admit, GateInv
<1>4. CASE PeerConnect \/ PeerAsks \/ PeerLeave \/ FollowerWakes \/ ManualRequest
  BY <1>3, <1>4 DEF PeerConnect, PeerAsks, PeerLeave, FollowerWakes, ManualRequest
<1>5. CASE ShutdownBegins \/ ShutdownSends
  BY <1>5 DEF ShutdownBegins, ShutdownSends, Send
<1>6. CASE OwnerBegins \/ AutoChecks \/ Prepares
  BY <1>1, <1>2, <1>6 DEF OwnerBegins, AutoChecks, Prepares, Reset, Goto
<1>7. CASE SendsRestart \/ RestartAnswered
  BY <1>1, <1>2, <1>7 DEF SendsRestart, RestartAnswered, Reset, ResetAgent, Goto, Send
<1>8. CASE InstallsProvenance \/ Arms
  BY <1>1, <1>2, <1>8 DEF InstallsProvenance, Arms, Reset, Goto, GateInv
<1>9. CASE Spawns
  BY <1>1, <1>2, <1>9 DEF Spawns, Reset, Discard, Goto, GateInv, ProcsType
<1>10. CASE StoresHandle
  <2>1. handle' = ownerGen /\ \A b \in Generations : proc'[b] = "none" => proc[b] = "none"
    BY <1>1, <1>10, DropHandleFacts DEF StoresHandle
  <2>2. \A b \in Generations : proc[b] = "none" => proc'[b] = "none" \/ b = handle
    BY <1>1, <1>10, DropHandleFacts DEF StoresHandle
  <2> QED
    BY <1>1, <1>2, <1>10, <2>1, <2>2 DEF StoresHandle, Goto
<1>11. CASE AwaitsConnect \/ SendsLaunch \/ LaunchAnswered
  BY <1>1, <1>2, <1>11 DEF AwaitsConnect, SendsLaunch, LaunchAnswered, ResetAgent, Reset,
                           Discard, Goto, Send, GateInv
<1>12. CASE Commits \/ OwnerShutsDown
  BY <1>1, <1>2, <1>12 DEF Commits, CommitSuccess, OwnerShutsDown, CommitTerminal, Send,
                           Complete, OwnerEnds, Goto
<1>13. CASE OwnerClears
  <2>1. handle' \in {handle, None} /\ \A b \in Generations : proc'[b] \in {proc[b], "dead"}
    BY <1>1, <1>13, HandleGone DEF OwnerClears
  <2>2. \A b \in Generations : proc[b] = "none" => proc'[b] = "none" \/ b = handle
    BY <1>1, <1>13, HandleGone DEF OwnerClears
  <2>3. ownerNext \in {"drop", "readmit"}
    BY TypeGroups DEF OwnType
  <2> QED
    BY <1>1, <1>2, <1>13, <2>1, <2>2, <2>3 DEF OwnerClears, Goto
<1>14. CASE Readmits \/ Drops
  BY <1>1, <1>2, <1>14 DEF Readmits, Drops, StartCleanup, Complete, OwnerEnds, Goto, GateInv
<1>15. CASE CleansUp
  <2>1. handle' \in {handle, None} /\ \A b \in Generations : proc'[b] \in {proc[b], "dead"}
    BY <1>1, <1>15, HandleGone DEF CleansUp
  <2>2. \A b \in Generations : proc[b] = "none" => proc'[b] = "none" \/ b = handle
    BY <1>1, <1>15, HandleGone DEF CleansUp
  <2> QED
    BY <1>1, <1>2, <1>15, <2>1, <2>2 DEF CleansUp, GateInv, Complete
<1>16. CASE OwnerAborted
  <2>1. \A b \in Generations : proc'[b] \in {proc[b], "dead"}
    BY <1>1, <1>16 DEF OwnerAborted, Dies, ProcsType
  <2>2. \A b \in Generations :
          proc'[b] = proc[b] \/ (owner = "spawned" /\ b = ownerGen)
    BY <1>1, <1>16 DEF OwnerAborted, Dies, ProcsType
  <2> QED
    BY <1>1, <1>2, <1>16, <2>1, <2>2 DEF OwnerAborted, StartCleanup, OwnerEnds
<1>17. ASSUME NEW a \in Generations, HandlerStep(a)
       PROVE  LineageInv'
  <2>1. CASE HandlerMarks(a)
    BY <1>1, <1>2, <2>1, LinkFacts DEF HandlerMarks
  <2>2. CASE HandlerTakesSender(a) \/ DisconnectClearsId(a)
    BY <1>1, <1>2, <2>2, LinkFacts DEF HandlerTakesSender, DisconnectClearsId
  <2>3. CASE DisconnectCommits(a)
    <3>1. \A b \in Generations : b # a => conn'[b] = conn[b] /\ discGen'[b] = discGen[b]
      BY <1>1, <2>3 DEF DisconnectCommits, Closes, Link, LinksType
    <3>2. conn[a] = "lost" /\ conn'[a] \in {"fenced", "closed"}
      BY <1>1, <1>17, <2>3 DEF DisconnectCommits, Closes, Link, LinksType
    <3>3. conn'[a] = "fenced" => discGen'[a] = a
      <4>1. SUFFICES ASSUME conn'[a] = "fenced" PROVE discGen'[a] = a
        OBVIOUS
      <4>2. connected = a /\ discGen' = discGen
        BY <1>1, <1>17, <2>3, <4>1 DEF DisconnectCommits, Closes, Link, LinksType
      <4>3. a = agentGen
        <5>1. expected = a /\ a # 0 /\ a \in Nat /\ proc[a] # "none"
          BY <1>2, <1>17, <3>2, <4>2, IdFacts
        <5> QED
          BY <1>1, <1>17, <5>1
      <4> QED
        BY <3>2, <4>2, <4>3
    <3>4. connected' \in {None, expected'} /\ expected' \in {None, expected}
      BY <2>3 DEF DisconnectCommits
    <3>5. UNCHANGED <<inFlight, admitted, handle, agentGen, own, procs>>
      BY <2>3 DEF DisconnectCommits
    <3> QED
      BY <1>1, <1>2, <3>1, <3>2, <3>3, <3>4, <3>5
  <2>4. CASE DisconnectDropsHandle(a)
    <3>1. handle' \in {handle, None} /\ \A b \in Generations : proc'[b] \in {proc[b], "dead"}
      BY <1>1, <2>4, HandleGone DEF DisconnectDropsHandle
    <3>2. \A b \in Generations : proc[b] = "none" => proc'[b] = "none" \/ b = handle
      BY <1>1, <2>4, HandleGone DEF DisconnectDropsHandle
    <3>3. \A b \in Generations : b # a => conn'[b] = conn[b] /\ discGen'[b] = discGen[b]
      BY <1>1, <2>4 DEF DisconnectDropsHandle, Closes, Link, LinksType
    <3>4. conn[a] = "unnamed" /\ conn'[a] = "closed"
      BY <1>1, <1>17, <2>4 DEF DisconnectDropsHandle, Closes, Link, LinksType
    <3>5. UNCHANGED <<admitted, expected, connected, agentGen, owner, ownerGen, ownerAgent>>
      BY <2>4 DEF DisconnectDropsHandle
    <3> QED
      BY <1>1, <1>2, <1>17, <3>1, <3>2, <3>3, <3>4, <3>5
  <2> QED
    BY <1>17, <2>1, <2>2, <2>3, <2>4 DEF HandlerStep
<1>18. ASSUME NEW a \in Generations, AgentStep(a)
       PROVE  LineageInv'
  <2>1. CASE AgentConnects(a)
    BY <1>1, <1>2, <2>1, LinkFacts DEF AgentConnects
  <2>2. CASE HandlerSignals(a) \/ AgentServes(a) \/ AgentReports(a) \/ HandlerMerges(a)
    BY <1>1, <1>2, <2>2 DEF HandlerSignals, AgentServes, Answer, AgentReports, HandlerMerges
  <2>3. CASE AgentCrashes(a)
    BY <1>1, <1>2, <2>3, DiesFacts DEF AgentCrashes
  <2>4. CASE HandlerLoses(a)
    BY <1>1, <1>2, <2>4, LinkFacts DEF HandlerLoses, LinksType
  <2> QED
    BY <1>18, <2>1, <2>2, <2>3, <2>4 DEF AgentStep
<1> QED
  BY <1>4, <1>5, <1>6, <1>7, <1>8, <1>9, <1>10, <1>11, <1>12, <1>13, <1>14, <1>15, <1>16,
     <1>17, <1>18 DEF Next, LaunchStep, OwnerStep, RequestStep

\* Types, gate, cancellation and the order of the agents.
OrderInv == CoreInv /\ LineageInv

\* The initial state.
LEMMA OrderInit ==
  ASSUME Init
  PROVE  OrderInv
<1>1. CoreInv
  BY GateInit DEF Init, CoreInv, PastInv, CancelInv, LaunchCancelled
<1>2. LineageInv
  BY DEF Init, LineageInv, None
<1> QED
  BY <1>1, <1>2 DEF OrderInv

\* They are invariant together.
LEMMA OrderInvariant == Spec => []OrderInv
<1>1. Init => OrderInv
  BY OrderInit
<1>2. OrderInv /\ [Next]_vars => OrderInv'
  <2> SUFFICES ASSUME OrderInv, [Next]_vars PROVE OrderInv'
    OBVIOUS
  <2>1. CoreInv'
    BY GateStep, TypeStep, PastStep, CancelStep DEF CoreInv, OrderInv
  <2>2. LineageInv'
    <3>1. CASE Next
      BY <3>1, LineageStep DEF CoreInv, OrderInv
    <3>2. CASE UNCHANGED vars
      BY <3>2 DEF vars, gate, admission, identity, slots, own, agents, procs, links,
                  OrderInv, LineageInv
    <3> QED
      BY <3>1, <3>2
  <2> QED
    BY <2>1, <2>2 DEF OrderInv
<1> QED
  BY <1>1, <1>2, PTL DEF Spec

\* A handler closes after a disconnect only in the step that may drop the handle.
LEMMA OnlyDropsClose ==
  ASSUME TypeOK, Next, NEW a \in Generations, conn[a] = "unnamed", conn'[a] = "closed"
  PROVE  DisconnectDropsHandle(a)
<1>1. LinksType
  BY TypeGroups
<1> USE DEF links, agents
<1>2. ASSUME PeerConnect \/ PeerAsks \/ PeerLeave \/ FollowerWakes \/ ManualRequest
             \/ ShutdownBegins \/ ShutdownSends
      PROVE  conn' = conn
  BY <1>2 DEF PeerConnect, PeerAsks, PeerLeave, FollowerWakes, ManualRequest, Admit,
              ShutdownBegins, ShutdownSends
<1>3. ASSUME OwnerStep
      PROVE  conn' = conn
  <2>1. CASE OwnerBegins \/ AutoChecks \/ Prepares \/ SendsRestart \/ RestartAnswered
             \/ InstallsProvenance \/ Arms
    BY <2>1 DEF OwnerBegins, AutoChecks, Prepares, SendsRestart, RestartAnswered, Reset,
                ResetAgent, InstallsProvenance, Arms
  <2>2. CASE Spawns \/ StoresHandle \/ AwaitsConnect \/ SendsLaunch \/ LaunchAnswered
    BY <2>2 DEF Spawns, StoresHandle, AwaitsConnect, SendsLaunch, LaunchAnswered, ResetAgent,
                Reset, Discard
  <2>3. CASE Commits \/ OwnerShutsDown \/ OwnerClears \/ Readmits \/ Drops
    BY <2>3 DEF Commits, CommitSuccess, OwnerShutsDown, OwnerClears, Readmits, Drops
  <2> QED
    BY <1>3, <2>1, <2>2, <2>3 DEF OwnerStep
<1>4. ASSUME CleansUp \/ OwnerAborted
      PROVE  conn' = conn
  BY <1>4 DEF CleansUp, OwnerAborted
<1>5. ASSUME NEW b \in Generations, HandlerStep(b) \/ AgentStep(b)
      PROVE  DisconnectDropsHandle(a)
  BY <1>1, <1>5 DEF HandlerStep, AgentStep, HandlerMarks, HandlerTakesSender, DisconnectCommits,
              DisconnectClearsId, DisconnectDropsHandle, AgentConnects, HandlerSignals,
              AgentServes, AgentReports, HandlerMerges, AgentCrashes, HandlerLoses, Closes,
              Link, LinksType
<1> QED
  BY <1>2, <1>3, <1>4, <1>5 DEF Next, LaunchStep, RequestStep

\* The cleanup after a disconnect never kills an agent that was started later
\* than the one that disconnected, however many attempts overlap it.
THEOREM NewerSurvives == Spec => NewerAgentSurvives
<1>1. ASSUME OrderInv, Next, NEW a \in Generations, NEW b \in Generations,
             conn[a] = "unnamed", conn'[a] = "closed", proc[b] # proc'[b]
      PROVE  b <= a
  <2>1. TypeOK /\ LineageInv /\ ProcsType /\ handle \in Ids
    BY <1>1, TypeGroups DEF OrderInv, CoreInv, SlotsType
  <2>2. DisconnectDropsHandle(a)
    BY <1>1, <2>1, OnlyDropsClose
  <2>3. agentGen = discGen[a] /\ b = handle
    BY <1>1, <2>1, <2>2, HandleGone DEF DisconnectDropsHandle, procs
  <2>4. discGen[a] = a /\ handle <= agentGen
    BY <1>1, <2>1 DEF LineageInv
  <2> QED
    BY <2>3, <2>4
<1>2. OrderInv /\ [Next]_vars
        => [\A a, b \in Generations :
              conn[a] = "unnamed" /\ conn'[a] = "closed" /\ proc[b] # proc'[b] => b <= a]_vars
  BY <1>1
<1> QED
  BY <1>2, OrderInvariant, PTL DEF Spec, NewerAgentSurvives

-----------------------------------------------------------------------------
(* Processes, connect senders and the slots.                               *)

\* A process has a handle, and a dead one runs nothing.
ProcessInv ==
  \A a \in Generations :
    /\ proc[a] = "alive" => handle = a \/ (owner = "spawned" /\ ownerGen = a)
    /\ proc[a] # "alive" => ~kernel[a] /\ inbox[a] = <<>>

\* The step of this invariant.
LEMMA ProcessStep ==
  ASSUME OrderInv, ProcessInv, Next
  PROVE  ProcessInv'
<1>1. /\ TypeOK /\ GateInv /\ ProcsType /\ handle \in Ids /\ ownerGen \in Ids /\ requestTx \in Ids
      /\ 0 \in Ids /\ None \in Ids /\ (owner # "none" => ownerGen \in Generations)
  BY TypeGroups, IdFacts DEF OrderInv, CoreInv, SlotsType, OwnType, GateInv, None
<1> USE DEF ProcessInv, slots, own, procs, agents
<1>2. CASE PeerConnect \/ PeerAsks \/ PeerLeave \/ FollowerWakes \/ ManualRequest
  BY <1>1, <1>2 DEF PeerConnect, PeerAsks, PeerLeave, FollowerWakes, ManualRequest, Admit, GateInv
<1>3. ASSUME NEW message \in Ids, Send(requestTx, message), handle' = handle,
             owner' # "spawned", owner # "spawned"
      PROVE  ProcessInv'
  BY <1>1, <1>3, SendFacts
<1>4. CASE ShutdownBegins
  BY <1>4 DEF ShutdownBegins
<1>5. CASE ShutdownSends
  <2>1. UNCHANGED <<handle, owner, ownerGen>> /\ Send(requestTx, 0)
    BY <1>5 DEF ShutdownSends
  <2> QED
    BY <1>1, <2>1, SendFacts
<1>6. CASE OwnerBegins \/ AutoChecks \/ Prepares
  BY <1>6 DEF OwnerBegins, AutoChecks, Prepares, Reset, Goto
<1>7. CASE SendsRestart
  BY <1>1, <1>3, <1>7 DEF SendsRestart
<1>8. CASE RestartAnswered \/ InstallsProvenance \/ Arms
  BY <1>8 DEF RestartAnswered, InstallsProvenance, Arms, Reset, ResetAgent, Goto
<1>9. CASE Spawns
  BY <1>1, <1>9 DEF Spawns, Reset, Discard, Goto, ProcsType
<1>10. CASE StoresHandle
  <2>1. handle' = ownerGen /\ owner' # "spawned"
    BY <1>10 DEF StoresHandle, DropHandle, Goto
  <2> QED
    BY <1>1, <1>10, <2>1, DropHandleFacts DEF StoresHandle
<1>11. CASE AwaitsConnect \/ LaunchAnswered
  BY <1>11 DEF AwaitsConnect, LaunchAnswered, ResetAgent, Reset, Discard, Goto
<1>12. CASE SendsLaunch
  BY <1>1, <1>3, <1>12 DEF SendsLaunch, ResetAgent, Reset, Goto
<1>13. CASE Commits
  BY <1>13 DEF Commits, CommitSuccess, OwnerEnds, Goto
<1>14. CASE OwnerShutsDown
  BY <1>1, <1>3, <1>14 DEF OwnerShutsDown, OwnerEnds, Goto
<1>15. ASSUME owner # "spawned", owner' # "spawned", DropHandle(None) \/ UNCHANGED <<handle, procs>>
       PROVE  ProcessInv'
  BY <1>1, <1>15, HandleGone
<1>16. CASE OwnerClears
  BY <1>15, <1>16, TypeGroups, <1>1 DEF OwnerClears, Goto, OwnType
<1>17. CASE Readmits \/ Drops
  BY <1>17 DEF Readmits, Drops, StartCleanup, OwnerEnds, Goto
<1>18. CASE CleansUp
  BY <1>1, <1>15, <1>18 DEF CleansUp, GateInv
<1>19. CASE OwnerAborted
  <2>1. handle' = handle /\ owner' = "none"
    BY <1>19 DEF OwnerAborted, StartCleanup, OwnerEnds
  <2>2. CASE owner = "spawned"
    <3>1. Dies(ownerGen)
      BY <1>19, <2>2 DEF OwnerAborted
    <3> QED
      BY <1>1, <2>1, <2>2, <3>1, DiesFacts
  <2>3. CASE owner # "spawned"
    BY <1>19, <2>1, <2>3 DEF OwnerAborted
  <2> QED
    BY <2>2, <2>3
<1>20. ASSUME NEW a \in Generations, HandlerStep(a)
       PROVE  ProcessInv'
  <2>1. CASE HandlerMarks(a) \/ HandlerTakesSender(a) \/ DisconnectCommits(a) \/ DisconnectClearsId(a)
    BY <2>1 DEF HandlerMarks, HandlerTakesSender, DisconnectCommits, DisconnectClearsId
  <2>2. CASE DisconnectDropsHandle(a)
    <3>1. UNCHANGED <<owner, ownerGen>> /\ (DropHandle(None) \/ UNCHANGED <<handle, procs>>)
      BY <2>2 DEF DisconnectDropsHandle
    <3> QED
      BY <1>1, <3>1, HandleGone
  <2> QED
    BY <1>20, <2>1, <2>2 DEF HandlerStep
<1>21. ASSUME NEW a \in Generations, AgentStep(a)
       PROVE  ProcessInv'
  <2>1. CASE AgentConnects(a) \/ HandlerSignals(a) \/ AgentReports(a) \/ HandlerMerges(a)
    BY <2>1 DEF AgentConnects, HandlerSignals, AgentReports, HandlerMerges
  <2>2. CASE AgentServes(a)
    BY <1>1, <2>2 DEF AgentServes, Answer, ProcsType
  <2>3. CASE AgentCrashes(a)
    BY <1>1, <2>3, DiesFacts DEF AgentCrashes
  <2>4. CASE HandlerLoses(a)
    BY <1>1, <2>4 DEF HandlerLoses, ProcsType
  <2> QED
    BY <1>21, <2>1, <2>2, <2>3, <2>4 DEF AgentStep
<1> QED
  BY <1>2, <1>4, <1>5, <1>6, <1>7, <1>8, <1>9, <1>10, <1>11, <1>12, <1>13, <1>14, <1>16, <1>17,
     <1>18, <1>19, <1>20, <1>21 DEF Next, LaunchStep, OwnerStep, RequestStep

\* The connect signal belongs to an attempt that has armed its sender.
SignalInv ==
  /\ owner \in {"none", "admitted", "check", "prepare", "restart", "restartRpc", "provenance", "arm"}
       => ~signalled
  /\ owner = "readmit" => ownerNext = "readmit"
  /\ ownerNext = "readmit" => owner \in {"handle", "tx", "readmit"} /\ ~signalled

\* The handler has not yet asked for the connect sender.
Connecting(a) == conn[a] \in {"none", "validated", "marked"}

\* A live agent never holds the connect sender of another attempt, though the
\* handler of a dead one may take it.
SenderInv ==
  /\ \A a \in Generations :
       /\ conn[a] = "none" => heldTx[a] = None
       /\ proc[a] = "alive" => heldTx[a] \in {None, a}
       /\ proc[a] = "alive" /\ Connecting(a) => pendingTx \in {None, a}
  /\ owner \in {"provenance", "arm"} /\ handle # None => ~Connecting(handle)
  /\ owner = "spawning" => proc[ownerGen] = "none" /\ pendingTx \in {None, ownerGen}

\* While an attempt brings up its agent, and unless it was cancelled, the gate
\* and the slots are its own as far as its agent has come.
AttachInv ==
  owner \in {"arm", "spawning", "spawned", "connecting"} /\ ~LaunchCancelled =>
    /\ expected = ownerGen /\ currentId = ownerGen
    /\ conn[ownerGen] \notin {"fenced", "unnamed"}
    /\ conn[ownerGen] \in {"marked", "open", "lost"}
         => connected = ownerGen /\ requestTx = ownerGen
    /\ owner = "connecting" => handle = ownerGen
    /\ signalled => conn[ownerGen] \in {"open", "lost"}

\* Between attempts, and while one has not yet touched the slots or has filled
\* them, the agent in the slots is connected or its handler is about to empty them.
Rooted ==
  /\ cleanup = "none"
  /\ owner \notin {"provenance", "arm", "spawning", "spawned", "connecting", "handle", "tx", "drop"}
RootInv ==
  /\ Rooted =>
       /\ expected = connected
       /\ connected # None => /\ handle = connected /\ currentId = connected /\ requestTx = connected
                              /\ conn[connected] \in {"open", "lost"}
       /\ handle # None => /\ handle = agentGen
                           /\ connected = handle \/ conn[handle] \in {"fenced", "unnamed"}
  /\ owner \in {"handle", "tx"} \/ cleanup \in {"id", "handle", "tx", "finish"} => expected = None
  /\ owner = "tx" \/ cleanup \in {"tx", "finish"} => handle = None

\* All that the slots depend on.
SlotsInv == OrderInv /\ ProcessInv /\ SignalInv /\ SenderInv /\ AttachInv /\ RootInv

\* What the steps below use of the types.
LEMMA SlotsFacts ==
  ASSUME SlotsInv
  PROVE  /\ TypeOK /\ GateInv /\ LineageInv /\ ProcessInv
         /\ ProcsType /\ LinksType
         /\ handle \in Ids /\ ownerGen \in Ids /\ requestTx \in Ids /\ pendingTx \in Ids
         /\ connected \in Ids /\ expected \in Ids /\ agentGen \in Ids
         /\ 0 \in Ids /\ None \in Ids
         /\ (owner # "none" => ownerGen \in Generations)
         /\ (handle # None => handle \in Generations)
         /\ (connected # None => connected \in Generations)
         /\ None \notin Generations
BY TypeGroups, IdFacts
   DEF SlotsInv, OrderInv, CoreInv, SlotsType, OwnType, IdentityType, GateInv, None

\* The step of the connect signal.
LEMMA SignalStep ==
  ASSUME SlotsInv, Next
  PROVE  SignalInv'
<1>1. GateInv /\ SignalInv /\ ownerNext \in {"drop", "readmit"}
  BY TypeGroups, SlotsFacts DEF SlotsInv, OwnType
<1> USE DEF SignalInv, own
<1>2. CASE PeerConnect \/ PeerAsks \/ PeerLeave \/ FollowerWakes \/ ManualRequest
  <2>1. ASSUME NEW kind, Admit(kind)
        PROVE  SignalInv'
    <3>1. owner = "none" /\ owner' = "admitted" /\ UNCHANGED <<ownerNext, signalled>>
      BY <1>1, <2>1 DEF Admit, GateInv
    <3> QED
      BY <1>1, <3>1
  <2> QED
    BY <1>1, <1>2, <2>1 DEF PeerConnect, PeerAsks, PeerLeave, FollowerWakes, ManualRequest
<1>3. CASE ShutdownBegins \/ ShutdownSends
  BY <1>1, <1>3 DEF ShutdownBegins, ShutdownSends
<1>4. CASE OwnerBegins \/ AutoChecks \/ Prepares \/ SendsRestart \/ RestartAnswered
  BY <1>1, <1>4 DEF OwnerBegins, AutoChecks, Prepares, SendsRestart, RestartAnswered, Reset,
                    ResetAgent, Goto
<1>5. CASE InstallsProvenance \/ Arms \/ Spawns \/ StoresHandle
  BY <1>1, <1>5 DEF InstallsProvenance, Arms, Spawns, StoresHandle, Reset, Discard, Goto
<1>6. CASE AwaitsConnect \/ SendsLaunch \/ LaunchAnswered
  BY <1>1, <1>6 DEF AwaitsConnect, SendsLaunch, LaunchAnswered, ResetAgent, Reset, Discard, Goto
<1>7. CASE Commits \/ OwnerShutsDown \/ OwnerClears
  BY <1>1, <1>7 DEF Commits, CommitSuccess, OwnerShutsDown, OwnerClears, OwnerEnds, Goto
<1>8. CASE Readmits \/ Drops
  BY <1>1, <1>8 DEF Readmits, Drops, StartCleanup, OwnerEnds, Goto
<1>9. CASE CleansUp \/ OwnerAborted
  BY <1>1, <1>9 DEF CleansUp, OwnerAborted, StartCleanup, OwnerEnds
<1>10. ASSUME NEW a \in Generations, HandlerStep(a) \/ AgentStep(a)
       PROVE  SignalInv'
  <2>1. CASE HandlerSignals(a)
    <3>1. UNCHANGED <<owner, ownerNext>>
      BY <2>1 DEF HandlerSignals
    <3>2. owner \notin {"spawning", "spawned", "connecting"} => (signalled' <=> signalled)
      BY <2>1 DEF HandlerSignals
    <3> QED
      BY <1>1, <3>1, <3>2
  <2>2. CASE HandlerStep(a) \/ AgentConnects(a) \/ AgentServes(a) \/ AgentReports(a)
             \/ HandlerMerges(a) \/ AgentCrashes(a) \/ HandlerLoses(a)
    <3>1. UNCHANGED <<owner, ownerNext, signalled>>
      BY <2>2 DEF HandlerStep, HandlerMarks, HandlerTakesSender, DisconnectCommits,
                  DisconnectClearsId, DisconnectDropsHandle, AgentConnects, AgentServes, Answer,
                  AgentReports, HandlerMerges, AgentCrashes, HandlerLoses
    <3> QED
      BY <1>1, <3>1
  <2> QED
    BY <1>10, <2>1, <2>2 DEF AgentStep
<1> QED
  BY <1>2, <1>3, <1>4, <1>5, <1>6, <1>7, <1>8, <1>9, <1>10
     DEF Next, LaunchStep, OwnerStep, RequestStep

\* The step of the connect senders.
LEMMA SenderStep ==
  ASSUME SlotsInv, Next
  PROVE  SenderInv'
<1>1. SenderInv /\ RootInv
  BY DEF SlotsInv
<1> USE SlotsFacts DEF SenderInv, Connecting, slots, own, procs, links, agents
<1>2. CASE PeerConnect \/ PeerAsks \/ PeerLeave \/ FollowerWakes \/ ManualRequest
  BY <1>1, <1>2 DEF PeerConnect, PeerAsks, PeerLeave, FollowerWakes, ManualRequest, Admit, GateInv
<1>3. CASE ShutdownBegins \/ ShutdownSends
  BY <1>1, <1>3 DEF ShutdownBegins, ShutdownSends, Send
<1>4. CASE OwnerBegins \/ AutoChecks \/ Prepares \/ SendsRestart \/ RestartAnswered
  BY <1>1, <1>4 DEF OwnerBegins, AutoChecks, Prepares, SendsRestart, RestartAnswered, Reset,
                    ResetAgent, Goto, Send, RootInv, Rooted, GateInv
<1>5. CASE InstallsProvenance
  BY <1>1, <1>5 DEF InstallsProvenance, Reset, Goto
<1>6. CASE Arms
  <2>1. agentGen < ownerGen /\ agentGen \in Nat /\ ownerGen \in Generations
    BY <1>6, IdFacts DEF Arms, LineageInv
  <2>2. proc[ownerGen] = "none"
    BY <2>1, IdFacts DEF LineageInv, ProcsType
  <2>3. \A a \in Generations : proc[a] = "alive" => ~Connecting(a)
    BY <1>1, <1>6 DEF Arms, ProcessInv
  <2> QED
    BY <1>1, <1>6, <2>2, <2>3 DEF Arms, Reset, Goto
<1>7. CASE Spawns
  <2>1. CASE /\ proc' = [proc EXCEPT ![ownerGen] = "alive"] /\ Goto("spawned")
             /\ UNCHANGED <<gate, slots, life, clean, inbox, kernel, links, env>>
    <3>1. owner = "spawning" /\ owner' = "spawned" /\ UNCHANGED <<pendingTx, handle, heldTx, conn>>
      BY <1>7, <2>1 DEF Spawns, Goto
    <3>2. proc[ownerGen] = "none" /\ conn[ownerGen] = "none" /\ heldTx[ownerGen] = None
      BY <1>1, <3>1 DEF LineageInv
    <3> QED
      BY <1>1, <2>1, <3>1, <3>2 DEF ProcsType
  <2> QED
    BY <1>1, <1>7, <2>1 DEF Spawns, Reset, Discard, Goto
<1>8. CASE StoresHandle
  <2>1. \A b \in Generations : proc'[b] = "alive" => proc[b] = "alive"
    BY <1>8, DropHandleFacts DEF StoresHandle
  <2> QED
    BY <1>1, <1>8, <2>1 DEF StoresHandle, Goto
<1>9. CASE AwaitsConnect \/ SendsLaunch \/ LaunchAnswered
  BY <1>1, <1>9 DEF AwaitsConnect, SendsLaunch, LaunchAnswered, ResetAgent, Reset, Discard, Goto, Send
<1>10. CASE Commits \/ OwnerShutsDown
  BY <1>1, <1>10 DEF Commits, CommitSuccess, OwnerShutsDown, OwnerEnds, Goto, Send
<1>11. CASE OwnerClears
  <2>1. \A b \in Generations : proc'[b] = "alive" => proc[b] = "alive"
    BY <1>11, HandleGone DEF OwnerClears
  <2>2. owner' \in {"tx", "drop", "readmit"} /\ pendingTx' \in {pendingTx, None}
    BY <1>11, TypeGroups DEF OwnerClears, Goto, OwnType
  <2>3. UNCHANGED links
    BY <1>11 DEF OwnerClears
  <2> QED
    BY <1>1, <2>1, <2>2, <2>3
<1>12. CASE Readmits \/ Drops
  BY <1>1, <1>12 DEF Readmits, Drops, StartCleanup, OwnerEnds, Goto
<1>13. CASE CleansUp
  <2>1. \A b \in Generations : proc'[b] = "alive" => proc[b] = "alive"
    BY <1>13, HandleGone DEF CleansUp
  <2>2. owner' = "none" /\ pendingTx' \in {pendingTx, None} /\ UNCHANGED links
    BY <1>13 DEF CleansUp, GateInv
  <2> QED
    BY <1>1, <2>1, <2>2
<1>14. CASE OwnerAborted
  <2>1. \A b \in Generations : proc'[b] = "alive" => proc[b] = "alive"
    BY <1>14 DEF OwnerAborted, Dies, ProcsType
  <2>2. owner' = "none" /\ UNCHANGED <<pendingTx, links>>
    BY <1>14 DEF OwnerAborted, StartCleanup, OwnerEnds
  <2> QED
    BY <1>1, <2>1, <2>2
<1>15. ASSUME NEW a \in Generations, HandlerStep(a)
       PROVE  SenderInv'
  <2>1. CASE HandlerMarks(a)
    BY <1>1, <1>15, <2>1, LinkFacts DEF HandlerMarks
  <2>2. CASE HandlerTakesSender(a)
    <3>1. \A b \in Generations : heldTx'[b] = IF b = a THEN pendingTx ELSE heldTx[b]
      BY <1>15, <2>2 DEF HandlerTakesSender, LinksType
    <3>2. \A b \in Generations : conn'[b] = IF b = a THEN "open" ELSE conn[b]
      BY <1>15, <2>2, LinkFacts DEF HandlerTakesSender
    <3>3. conn[a] = "marked" /\ pendingTx' = None /\ UNCHANGED <<handle, own, procs>>
      BY <2>2 DEF HandlerTakesSender
    <3> QED
      BY <1>1, <1>15, <3>1, <3>2, <3>3
  <2>3. CASE DisconnectCommits(a)
    BY <1>1, <1>15, <2>3 DEF DisconnectCommits, Closes, Link, LinksType
  <2>4. CASE DisconnectClearsId(a)
    BY <1>1, <1>15, <2>4, LinkFacts DEF DisconnectClearsId
  <2>5. CASE DisconnectDropsHandle(a)
    <3>1. \A b \in Generations : proc'[b] = "alive" => proc[b] = "alive"
      BY <2>5, HandleGone DEF DisconnectDropsHandle
    <3>2. handle' \in {handle, None} /\ \A b \in Generations : proc[b] = "none" => proc'[b] = "none" \/ b = handle
      BY <2>5, HandleGone DEF DisconnectDropsHandle
    <3>3. \A b \in Generations :
            /\ heldTx'[b] = IF b = a THEN None ELSE heldTx[b]
            /\ conn'[b] = IF b = a THEN "closed" ELSE conn[b]
      BY <1>15, <2>5 DEF DisconnectDropsHandle, Closes, Link, LinksType
    <3>4. UNCHANGED <<owner, ownerGen, pendingTx>> /\ conn[a] = "unnamed"
      BY <2>5 DEF DisconnectDropsHandle
    <3>5. owner = "spawning" => proc'[ownerGen] = "none"
      <4> SUFFICES ASSUME owner = "spawning" PROVE proc'[ownerGen] = "none"
        OBVIOUS
      <4>1. a <= agentGen /\ discGen[a] = a /\ a # ownerGen /\ agentGen = ownerGen
        BY <1>1, <1>15, <3>4 DEF LineageInv
      <4>2. UNCHANGED procs
        BY <2>5, <4>1 DEF DisconnectDropsHandle
      <4> QED
        BY <1>1, <4>2
    <3> QED
      BY <1>1, <3>1, <3>2, <3>3, <3>4, <3>5
  <2> QED
    BY <1>15, <2>1, <2>2, <2>3, <2>4, <2>5 DEF HandlerStep
<1>16. ASSUME NEW a \in Generations, AgentStep(a)
       PROVE  SenderInv'
  <2>1. CASE AgentConnects(a)
    BY <1>1, <1>16, <2>1, LinkFacts DEF AgentConnects
  <2>2. CASE HandlerSignals(a)
    BY <1>1, <1>16, <2>2 DEF HandlerSignals, LinksType
  <2>3. CASE AgentServes(a) \/ AgentReports(a) \/ HandlerMerges(a)
    BY <1>1, <2>3 DEF AgentServes, Answer, AgentReports, HandlerMerges
  <2>4. CASE AgentCrashes(a)
    BY <1>1, <2>4, DiesFacts DEF AgentCrashes
  <2>5. CASE HandlerLoses(a)
    BY <1>1, <1>16, <2>5, LinkFacts DEF HandlerLoses
  <2> QED
    BY <1>16, <2>1, <2>2, <2>3, <2>4, <2>5 DEF AgentStep
<1> QED
  BY <1>2, <1>3, <1>4, <1>5, <1>6, <1>7, <1>8, <1>9, <1>10, <1>11, <1>12, <1>13, <1>14, <1>15, <1>16
     DEF Next, LaunchStep, OwnerStep, RequestStep

\* The step of an attempt that brings up its agent.
LEMMA AttachStep ==
  ASSUME SlotsInv, Next
  PROVE  AttachInv'
<1>1. AttachInv /\ SignalInv /\ SenderInv
  BY DEF SlotsInv
<1> DEFINE Attaching == {"arm", "spawning", "spawned", "connecting"}
<1>2. ASSUME owner' \notin Attaching
      PROVE  AttachInv'
  BY <1>2 DEF AttachInv
<1>3. ASSUME NEW state, CommitTerminal(state), UNCHANGED <<inFlight, owner>>
      PROVE  AttachInv'
  <2>1. owner \in Attaching => inFlight' \in cancelled'
    BY <1>3, SlotsFacts DEF CommitTerminal, GateInv
  <2> QED
    BY <1>3, <2>1 DEF AttachInv, LaunchCancelled
<1> USE SlotsFacts DEF AttachInv, LaunchCancelled
<1>4. CASE PeerConnect \/ PeerAsks \/ PeerLeave \/ FollowerWakes \/ ManualRequest
  <2>1. CASE UNCHANGED <<gate, slots, life, own, clean, agents>>
    BY <1>1, <2>1 DEF gate, admission, identity, slots, own, agents, links
  <2>2. ASSUME NEW kind, Admit(kind)
        PROVE  AttachInv'
    BY <1>2, <2>2 DEF Admit
  <2> QED
    BY <1>4, <2>1, <2>2 DEF PeerConnect, PeerAsks, PeerLeave, FollowerWakes, ManualRequest
<1>5. CASE ShutdownBegins
  BY <1>3, <1>5 DEF ShutdownBegins, own
<1>6. CASE ShutdownSends
  BY <1>1, <1>6 DEF ShutdownSends, gate, admission, identity, slots, own, links
<1>7. CASE OwnerBegins \/ AutoChecks \/ Prepares \/ SendsRestart \/ RestartAnswered
  BY <1>2, <1>7 DEF OwnerBegins, AutoChecks, Prepares, SendsRestart, RestartAnswered, Reset,
                    ResetAgent, Goto
<1>8. CASE InstallsProvenance
  <2>1. CASE ~LaunchCancelled
    <3>1. owner = "provenance" /\ agentGen < ownerGen /\ agentGen \in Nat /\ ownerGen \in Generations
      BY <1>8, IdFacts DEF InstallsProvenance, LineageInv
    <3>2. conn[ownerGen] = "none"
      BY <3>1, IdFacts DEF LineageInv
    <3>3. ~signalled
      BY <1>1, <3>1 DEF SignalInv
    <3>4. expected' = ownerGen /\ currentId' = ownerGen /\ owner' = "arm"
          /\ UNCHANGED <<ownerGen, signalled, conn>>
      BY <1>8, <2>1 DEF InstallsProvenance, agents, links
    <3> QED
      BY <3>2, <3>3, <3>4
  <2>2. CASE LaunchCancelled
    BY <1>2, <1>8, <2>2 DEF InstallsProvenance, Reset
  <2> QED
    BY <2>1, <2>2
<1>9. CASE Arms
  <2>1. CASE ~LaunchCancelled
    BY <1>1, <1>9, <2>1 DEF Arms, Goto, gate, admission, identity, agents, links
  <2>2. CASE LaunchCancelled
    BY <1>2, <1>9, <2>2 DEF Arms, Reset
  <2> QED
    BY <2>1, <2>2
<1>10. CASE Spawns
  BY <1>1, <1>2, <1>10 DEF Spawns, Goto, Reset, Discard, gate, admission, identity, slots, links
<1>11. CASE StoresHandle
  BY <1>1, <1>11 DEF StoresHandle, DropHandle, Goto, gate, admission, identity, links
<1>12. CASE AwaitsConnect \/ SendsLaunch \/ LaunchAnswered
  BY <1>2, <1>12 DEF AwaitsConnect, SendsLaunch, LaunchAnswered, ResetAgent, Reset, Discard, Goto
<1>13. CASE Commits \/ OwnerShutsDown \/ OwnerClears
  BY <1>2, <1>13, TypeGroups DEF Commits, CommitSuccess, OwnerShutsDown, OwnerClears, OwnerEnds, Goto, OwnType
<1>14. CASE Readmits \/ Drops \/ OwnerAborted
  BY <1>2, <1>14 DEF Readmits, Drops, OwnerAborted, StartCleanup, OwnerEnds, Goto
<1>15. CASE CleansUp
  BY <1>2, <1>15 DEF CleansUp, GateInv, own
<1>16. ASSUME NEW a \in Generations, HandlerStep(a)
       PROVE  AttachInv'
  <2>1. CASE HandlerMarks(a)
    BY <1>1, <1>16, <2>1, LinkFacts DEF HandlerMarks, admission, own
  <2>2. CASE HandlerTakesSender(a)
    BY <1>1, <1>16, <2>2, LinkFacts DEF HandlerTakesSender, gate, admission, identity, own
  <2>3. CASE DisconnectCommits(a)
    <3>1. CASE connected = a
      BY <1>3, <2>3, <3>1 DEF DisconnectCommits, own
    <3>2. CASE connected # a
      <4>1. \A b \in Generations : conn'[b] = IF b = a THEN "closed" ELSE conn[b]
        BY <1>16, <2>3, <3>2, LinkFacts DEF DisconnectCommits, Closes
      <4>2. UNCHANGED <<inFlight, cancelled, expected, connected, currentId, requestTx, handle, own>>
        BY <2>3, <3>2 DEF DisconnectCommits, identity
      <4>3. conn[a] = "lost"
        BY <2>3 DEF DisconnectCommits
      <4> QED
        BY <1>1, <1>16, <3>2, <4>1, <4>2, <4>3 DEF own
    <3> QED
      BY <3>1, <3>2
  <2>4. CASE DisconnectClearsId(a)
    BY <1>1, <1>16, <2>4, LinkFacts DEF DisconnectClearsId, gate, admission, identity, own
  <2>5. CASE DisconnectDropsHandle(a)
    <3>1. \A b \in Generations : conn'[b] = IF b = a THEN "closed" ELSE conn[b]
      BY <1>16, <2>5, LinkFacts DEF DisconnectDropsHandle, Closes
    <3>2. conn[a] = "unnamed" /\ discGen[a] = a
      BY <1>16, <2>5 DEF DisconnectDropsHandle, LineageInv
    <3>3. handle' = handle \/ agentGen = a
      BY <2>5, <3>2 DEF DisconnectDropsHandle
    <3>4. UNCHANGED <<inFlight, cancelled, expected, connected, currentId, requestTx, owner, ownerGen, signalled>>
      BY <2>5 DEF DisconnectDropsHandle, gate, admission, identity
    <3>5. owner = "connecting" => agentGen = ownerGen
      BY DEF LineageInv
    <3> QED
      BY <1>1, <1>16, <3>1, <3>2, <3>3, <3>4, <3>5
  <2> QED
    BY <1>16, <2>1, <2>2, <2>3, <2>4, <2>5 DEF HandlerStep
<1>17. ASSUME NEW a \in Generations, AgentStep(a)
       PROVE  AttachInv'
  <2>1. CASE AgentConnects(a)
    BY <1>1, <1>17, <2>1, LinkFacts DEF AgentConnects, gate, admission, identity, slots, own
  <2>2. CASE HandlerSignals(a)
    <3>1. UNCHANGED <<inFlight, cancelled, expected, connected, slots, owner, ownerGen, conn>>
      BY <2>2 DEF HandlerSignals, gate, admission, identity
    <3>2. signalled' => signalled \/ heldTx[a] = ownerGen
      BY <2>2 DEF HandlerSignals
    <3>3. conn[a] = "open" /\ heldTx[a] \in {None, a} /\ heldTx[a] # None
      BY <1>1, <1>17, <2>2 DEF HandlerSignals, SenderInv
    <3> QED
      BY <1>1, <3>1, <3>2, <3>3 DEF slots
  <2>3. CASE AgentServes(a) \/ AgentReports(a) \/ HandlerMerges(a) \/ AgentCrashes(a)
    BY <1>1, <2>3 DEF AgentServes, AgentReports, HandlerMerges, AgentCrashes, Answer, gate, admission, identity, slots, own, links
  <2>4. CASE HandlerLoses(a)
    BY <1>1, <1>17, <2>4, LinkFacts DEF HandlerLoses, gate, admission, identity, slots, own
  <2> QED
    BY <1>17, <2>1, <2>2, <2>3, <2>4 DEF AgentStep
<1> QED
  BY <1>4, <1>5, <1>6, <1>7, <1>8, <1>9, <1>10, <1>11, <1>12, <1>13, <1>14, <1>15, <1>16, <1>17
     DEF Next, LaunchStep, OwnerStep, RequestStep

\* The step of the agent in the slots.
LEMMA RootStep ==
  ASSUME SlotsInv, Next
  PROVE  RootInv'
<1>1. AttachInv /\ RootInv /\ SignalInv
  BY DEF SlotsInv
<1> USE SlotsFacts DEF RootInv, Rooted
<1>2. CASE PeerConnect \/ PeerAsks \/ PeerLeave \/ FollowerWakes \/ ManualRequest
  BY <1>1, <1>2 DEF PeerConnect, PeerAsks, PeerLeave, FollowerWakes, ManualRequest, Admit, GateInv,
                    gate, identity, slots, own, clean, agents, links
<1>3. CASE ShutdownBegins \/ ShutdownSends
  BY <1>1, <1>3 DEF ShutdownBegins, ShutdownSends, gate, identity, slots, own, clean, agents, links
<1>4. CASE OwnerBegins
  BY <1>1, <1>4 DEF OwnerBegins, Goto, GateInv, gate, identity, clean, agents, links
<1>5. CASE AutoChecks \/ Prepares \/ SendsRestart \/ RestartAnswered
  BY <1>1, <1>5 DEF AutoChecks, Prepares, SendsRestart, RestartAnswered, Reset, ResetAgent, Goto,
                    GateInv, gate, identity, slots, clean, agents, links
<1>6. CASE InstallsProvenance \/ Arms
  BY <1>1, <1>6 DEF InstallsProvenance, Arms, Reset, Goto, GateInv, clean
<1>7. CASE Spawns \/ StoresHandle
  BY <1>1, <1>7 DEF Spawns, StoresHandle, Reset, Discard, Goto, GateInv, LineageInv, clean
<1>8. CASE AwaitsConnect
  <2>1. cleanup' = "none"
    BY <1>8 DEF AwaitsConnect, Discard, ResetAgent, Reset, GateInv, clean
  <2>2. CASE Discard
    BY <1>8, <2>1, <2>2 DEF AwaitsConnect, Discard, Goto, LineageInv
  <2>3. CASE Goto("launch") /\ ~LaunchCancelled /\ signalled /\ UNCHANGED <<gate, slots, life, clean, agents, env>>
    <3>1. agentGen = ownerGen
      BY <1>8 DEF AwaitsConnect, LineageInv
    <3> QED
      BY <1>1, <1>8, <2>1, <2>3, <3>1 DEF AwaitsConnect, Goto, AttachInv, gate, identity, slots, agents, links
  <2>4. CASE ResetAgent(ownerGen, "NotStarted")
    BY <1>8, <2>1, <2>4 DEF AwaitsConnect, ResetAgent, Reset, Goto
  <2> QED
    BY <1>8, <2>2, <2>3, <2>4 DEF AwaitsConnect
<1>9. CASE SendsLaunch \/ LaunchAnswered
  BY <1>1, <1>9 DEF SendsLaunch, LaunchAnswered, ResetAgent, Reset, Goto, GateInv,
                    gate, identity, slots, clean, agents, links
<1>10. CASE Commits \/ OwnerShutsDown
  BY <1>1, <1>10 DEF Commits, CommitSuccess, OwnerShutsDown, OwnerEnds, Goto, GateInv,
                    gate, identity, slots, clean, agents, links
<1>11. CASE OwnerClears
  <2>1. cleanup' = "none" /\ UNCHANGED <<expected, connected>> /\ expected = None /\ connected = None
    BY <1>1, <1>11 DEF OwnerClears, GateInv, clean, gate, identity, LineageInv
  <2>2. handle' = None /\ owner' \in {"tx", "drop", "readmit"}
    BY <1>1, <1>11, TypeGroups DEF OwnerClears, DropHandle, Goto, OwnType
  <2> QED
    BY <2>1, <2>2
<1>12. CASE Readmits
  BY <1>1, <1>12 DEF Readmits, GateInv, identity, slots, clean, agents, links
<1>13. CASE Drops
  BY <1>1, <1>13 DEF Drops, StartCleanup, OwnerEnds, Goto, GateInv, identity, slots, clean, agents, links
<1>14. CASE OwnerAborted
  BY <1>1, <1>14 DEF OwnerAborted, StartCleanup, OwnerEnds
<1>15. CASE CleansUp
  <2>1. owner' = "none"
    BY <1>15 DEF CleansUp, GateInv, own
  <2>2. CASE cleanup = "gate" \/ cleanup = "id"
    BY <1>1, <1>15, <2>1, <2>2 DEF CleansUp, gate, identity, slots
  <2>3. CASE cleanup = "handle" \/ cleanup = "tx"
    BY <1>1, <1>15, <2>1, <2>3 DEF CleansUp, gate, identity, slots, DropHandle
  <2>4. CASE cleanup = "finish"
    <3>1. expected' = None /\ connected' = None /\ handle' = None
      BY <1>1, <1>15, <2>4 DEF CleansUp, identity, slots, LineageInv
    <3>2. cleanup' = "none"
      BY <1>15, <2>4 DEF CleansUp
    <3> QED
      BY <2>1, <3>1, <3>2
  <2> QED
    BY <1>15, <2>2, <2>3, <2>4 DEF CleansUp
<1>16. ASSUME NEW a \in Generations, HandlerStep(a)
       PROVE  RootInv'
  <2>1. CASE HandlerMarks(a)
    BY <1>1, <1>16, <2>1, LinkFacts DEF HandlerMarks, own, clean
  <2>2. CASE HandlerTakesSender(a)
    BY <1>1, <1>16, <2>2, LinkFacts DEF HandlerTakesSender, gate, identity, own, clean
  <2>3. CASE DisconnectCommits(a)
    <3>1. conn[a] = "lost" /\ UNCHANGED <<currentId, handle, agentGen, own, clean>>
      BY <2>3 DEF DisconnectCommits
    <3>2. CASE connected = a
      <4>1. expected' = None /\ connected' = None
        BY <2>3, <3>2 DEF DisconnectCommits
      <4>2. \A b \in Generations : conn'[b] = IF b = a THEN "fenced" ELSE conn[b]
        BY <1>16, <2>3, <3>2, LinkFacts DEF DisconnectCommits
      <4> QED
        BY <1>1, <1>16, <3>1, <3>2, <4>1, <4>2 DEF own, clean
    <3>3. CASE connected # a
      <4>1. UNCHANGED <<expected, connected, requestTx>>
        BY <2>3, <3>3 DEF DisconnectCommits, identity
      <4>2. \A b \in Generations : conn'[b] = IF b = a THEN "closed" ELSE conn[b]
        BY <1>16, <2>3, <3>3, LinkFacts DEF DisconnectCommits, Closes
      <4> QED
        BY <1>1, <1>16, <3>1, <3>3, <4>1, <4>2 DEF own, clean
    <3> QED
      BY <3>2, <3>3
  <2>4. CASE DisconnectClearsId(a)
    BY <1>1, <1>16, <2>4, LinkFacts DEF DisconnectClearsId, gate, identity, own, clean
  <2>5. CASE DisconnectDropsHandle(a)
    <3>1. \A b \in Generations : conn'[b] = IF b = a THEN "closed" ELSE conn[b]
      BY <1>16, <2>5, LinkFacts DEF DisconnectDropsHandle, Closes
    <3>2. conn[a] = "unnamed" /\ discGen[a] = a
      BY <1>16, <2>5 DEF DisconnectDropsHandle, LineageInv
    <3>3. IF agentGen = a THEN handle' = None ELSE handle' = handle
      BY <2>5, <3>2 DEF DisconnectDropsHandle, DropHandle
    <3>4. UNCHANGED <<expected, connected, currentId, requestTx, agentGen, owner, clean>>
      BY <2>5 DEF DisconnectDropsHandle, gate, identity
    <3> QED
      BY <1>1, <1>16, <3>1, <3>2, <3>3, <3>4 DEF clean
  <2> QED
    BY <1>16, <2>1, <2>2, <2>3, <2>4, <2>5 DEF HandlerStep
<1>17. ASSUME NEW a \in Generations, AgentStep(a)
       PROVE  RootInv'
  <2>1. CASE AgentConnects(a)
    BY <1>1, <1>17, <2>1, LinkFacts DEF AgentConnects, gate, identity, slots, own, clean
  <2>2. CASE HandlerSignals(a) \/ AgentServes(a) \/ AgentReports(a) \/ HandlerMerges(a)
             \/ AgentCrashes(a)
    BY <1>1, <2>2 DEF HandlerSignals, AgentServes, AgentReports, HandlerMerges, AgentCrashes, Answer, gate, identity, slots, own, clean, links
  <2>3. CASE HandlerLoses(a)
    BY <1>1, <1>17, <2>3, LinkFacts DEF HandlerLoses, gate, identity, slots, own, clean
  <2> QED
    BY <1>17, <2>1, <2>2, <2>3 DEF AgentStep
<1> QED
  BY <1>2, <1>3, <1>4, <1>5, <1>6, <1>7, <1>8, <1>9, <1>10, <1>11, <1>12, <1>13, <1>14, <1>15, <1>16, <1>17
     DEF Next, LaunchStep, OwnerStep, RequestStep

\* All of it is invariant.
LEMMA SlotsInvariant == Spec => []SlotsInv
<1>1. Init => SlotsInv
  <2> SUFFICES ASSUME Init PROVE SlotsInv
    OBVIOUS
  <2>1. OrderInv
    BY OrderInit
  <2>2. ProcessInv /\ SignalInv /\ SenderInv
    BY DEF Init, ProcessInv, SignalInv, SenderInv
  <2>3. AttachInv /\ RootInv
    BY DEF Init, AttachInv, RootInv
  <2> QED
    BY <2>1, <2>2, <2>3 DEF SlotsInv
<1>2. SlotsInv /\ OrderInv' /\ [Next]_vars => SlotsInv'
  <2> SUFFICES ASSUME SlotsInv, OrderInv', [Next]_vars PROVE SlotsInv'
    OBVIOUS
  <2>1. CASE Next
    BY <2>1, ProcessStep, SignalStep, SenderStep, AttachStep, RootStep DEF SlotsInv
  <2>2. CASE UNCHANGED vars
    BY <2>2 DEF vars, gate, admission, identity, slots, own, clean, agents, procs, links, SlotsInv,
       ProcessInv, SignalInv, SenderInv, Connecting, AttachInv, LaunchCancelled, RootInv, Rooted
  <2> QED
    BY <2>1, <2>2
<1> QED
  BY <1>1, <1>2, OrderInvariant, PTL DEF Spec

\* Settled, the agent in the slots is connected, and so is the gate.
LEMMA SettledFacts ==
  ASSUME SlotsInv, Settled
  PROVE  /\ owner = "none" /\ cleanup = "none"
         /\ handle # None => /\ connected = handle /\ currentId = handle /\ requestTx = handle
                             /\ conn[handle] = "open" /\ proc[handle] = "alive"
<1>1. owner = "none" /\ cleanup = "none"
  BY SlotsFacts DEF Settled, GateInv
<1>2. RootInv
  BY DEF SlotsInv
<1>3. ASSUME handle # None
      PROVE  /\ connected = handle /\ currentId = handle /\ requestTx = handle
             /\ conn[handle] = "open" /\ proc[handle] = "alive"
  <2>1. handle \in Generations /\ conn[handle] \in {"none", "open", "closed"}
    BY <1>3, SlotsFacts DEF Settled
  <2>2. connected = handle
    BY <1>1, <1>2, <1>3, <2>1 DEF RootInv, Rooted
  <2>3. currentId = handle /\ requestTx = handle /\ conn[handle] = "open"
    BY <1>1, <1>2, <1>3, <2>1, <2>2 DEF RootInv, Rooted
  <2> QED
    BY <2>1, <2>2, <2>3 DEF Settled
<1> QED
  BY <1>1, <1>3

\* With nothing under way the slots name one agent, and no process outlives
\* its handle: no interleaving of launches, cancellations, disconnects, aborts
\* and crashes leaves a room with an agent it cannot reach.
THEOREM SlotsAgreeAlways == Spec => []SlotsAgree
<1>1. SlotsInv => SlotsAgree
  <2> SUFFICES ASSUME SlotsInv, Settled
               PROVE  /\ \A a \in Generations : proc[a] = "alive" => handle = a
                      /\ HasKernel => {requestTx, currentId, connected} = {handle}
    BY DEF SlotsAgree
  <2>1. owner = "none"
    BY SettledFacts
  <2>2. \A a \in Generations : proc[a] = "alive" => handle = a
    BY <2>1, SlotsFacts DEF ProcessInv
  <2>3. HasKernel => {requestTx, currentId, connected} = {handle}
    BY SettledFacts DEF HasKernel
  <2> QED
    BY <2>2, <2>3
<1> QED
  BY <1>1, SlotsInvariant, PTL

-----------------------------------------------------------------------------
(* Shutdown.                                                               *)

\* The agent runs no kernel and will run none once its inbox is empty, or its
\* connection is gone and its handle follows.
Stopped(a) ==
  \/ conn[a] # "open"
  \/ inbox[a] = <<>> /\ ~kernel[a]
  \/ inbox[a] # <<>> /\ inbox[a][Len(inbox[a])] = 0

\* No attempt has sent a start request that it has not taken back.
Quiet ==
  /\ cleanup = "none"
  /\ owner \in {"none", "admitted", "check", "prepare", "readmit", "cancelledDone",
                "release", "releaseLocked"}

\* After the RPC of a shutdown, and once the attempt it cancelled has let go.
ShutdownInv ==
  committed = "Shutdown" /\ ~shutdown /\ Quiet /\ handle # None => Stopped(handle)

\* A stop request at the end of the inbox stops the agent, and so does its death.
LEMMA SendStops ==
  ASSUME SlotsInv, Rooted, handle # None, Send(requestTx, 0), UNCHANGED <<conn, handle>>
  PROVE  Stopped(handle)'
<1>1. handle \in Generations /\ RootInv
  BY SlotsFacts DEF SlotsInv
<1>2. CASE conn[handle] # "open"
  BY <1>2 DEF Stopped
<1>3. CASE conn[handle] = "open"
  <2>1. requestTx = handle
    BY <1>1, <1>3 DEF RootInv
  <2>2. CASE proc[handle] = "alive"
    <3>1. inbox[handle] \in Seq(Ids) /\ 0 \in Ids
      BY <1>1, SlotsFacts DEF ProcsType
    <3>2. inbox'[handle] = Append(inbox[handle], 0)
      <4>1. ProcsType /\ requestTx \in Ids
        BY SlotsFacts
      <4> QED
        BY <1>1, <2>1, <2>2, <3>1, <4>1, SendFacts
    <3>3. inbox'[handle] # <<>> /\ inbox'[handle][Len(inbox'[handle])] = 0
      BY <3>1, <3>2
    <3> QED
      BY <3>3 DEF Stopped
  <2>3. CASE proc[handle] # "alive"
    <3>1. inbox'[handle] = inbox[handle] /\ kernel' = kernel
      BY <1>1, <2>1, <2>3, SendFacts, SlotsFacts
    <3>2. inbox[handle] = <<>> /\ ~kernel[handle]
      BY <1>1, <2>3, SlotsFacts DEF ProcessInv
    <3> QED
      BY <3>1, <3>2 DEF Stopped
  <2> QED
    BY <2>2, <2>3
<1> QED
  BY <1>2, <1>3

\* What is left of an inbox that ends in a stop request ends in it too.
LEMMA StopStaysLast ==
  ASSUME NEW q \in Seq(Ids), q # <<>>, q[Len(q)] = 0
  PROVE  \/ Head(q) = 0 /\ Tail(q) = <<>>
         \/ Tail(q) # <<>> /\ Tail(q)[Len(Tail(q))] = 0
<1>1. Len(q) \in Nat /\ Len(q) # 0
  BY EmptySeq
<1>2. Tail(q) \in Seq(Ids) /\ Len(Tail(q)) = Len(q) - 1
      /\ \A i \in 1 .. Len(Tail(q)) : Tail(q)[i] = q[i + 1]
  BY HeadTailProperties
<1>3. CASE Len(q) = 1
  <2>1. Head(q) = 0
    BY <1>3
  <2>2. Tail(q) = <<>>
    <3>1. Len(Tail(q)) = 0
      BY <1>2, <1>3
    <3> QED
      BY <1>2, <3>1, EmptySeq
  <2> QED
    BY <2>1, <2>2
<1>4. CASE Len(q) # 1
  <2>1. Len(q) - 1 \in 1 .. Len(Tail(q)) /\ (Len(q) - 1) + 1 = Len(q)
    BY <1>1, <1>2, <1>4
  <2>2. Tail(q)[Len(q) - 1] = 0
    BY <1>2, <2>1
  <2>3. Tail(q) # <<>>
    <3>1. Len(Tail(q)) # 0
      BY <1>1, <1>2, <1>4
    <3>2. Len(<<>>) = 0
      BY EmptySeq
    <3> QED
      BY <3>1, <3>2
  <2> QED
    BY <1>2, <2>2, <2>3
<1> QED
  BY <1>3, <1>4

\* Serving its requests keeps a stopped agent stopped.
LEMMA ServeKeepsStopped ==
  ASSUME SlotsInv, NEW a \in Generations, AgentServes(a), Stopped(a)
  PROVE  Stopped(a)'
<1>1. inbox[a] \in Seq(Ids) /\ inbox[a] # <<>> /\ conn[a] = "open" /\ UNCHANGED conn
  BY SlotsFacts DEF AgentServes, ProcsType, links
<1>2. inbox[a][Len(inbox[a])] = 0
  BY <1>1 DEF Stopped
<1>3. inbox'[a] = Tail(inbox[a])
  BY SlotsFacts DEF AgentServes, ProcsType
<1>4. CASE Head(inbox[a]) = 0 /\ Tail(inbox[a]) = <<>>
  <2>1. ~kernel'[a]
    BY <1>4, SlotsFacts DEF AgentServes, ProcsType
  <2> QED
    BY <1>3, <1>4, <2>1 DEF Stopped
<1>5. CASE Tail(inbox[a]) # <<>> /\ Tail(inbox[a])[Len(Tail(inbox[a]))] = 0
  BY <1>3, <1>5 DEF Stopped
<1> QED
  BY <1>1, <1>2, <1>4, <1>5, StopStaysLast

\* The step of a shutdown.
LEMMA ShutdownStep ==
  ASSUME SlotsInv, ShutdownInv, Next
  PROVE  ShutdownInv'
<1>1. RootInv /\ CancelInv /\ LineageInv
  BY DEF SlotsInv, OrderInv, CoreInv
<1>2. ASSUME committed' # "Shutdown" \/ shutdown' \/ ~Quiet' \/ handle' = None
      PROVE  ShutdownInv'
  BY <1>2 DEF ShutdownInv
<1>3. ASSUME Quiet, shutdown' = shutdown, committed' = "Shutdown" => committed = "Shutdown",
             UNCHANGED <<handle, conn, inbox, kernel>>
      PROVE  ShutdownInv'
  <2>1. handle # None /\ Stopped(handle) => Stopped(handle)'
    BY <1>3 DEF Stopped
  <2> QED
    BY <1>3, <2>1 DEF ShutdownInv
<1> USE SlotsFacts
<1>4. CASE PeerConnect \/ PeerAsks \/ PeerLeave \/ FollowerWakes \/ ManualRequest
  <2>1. UNCHANGED <<committed, shutdown, handle, conn, inbox, kernel>>
    BY <1>4 DEF PeerConnect, PeerAsks, PeerLeave, FollowerWakes, ManualRequest, Admit,
                life, doc, slots, agents, procs, links, env
  <2>2. Quiet' => Quiet
    BY <1>4 DEF PeerConnect, PeerAsks, PeerLeave, FollowerWakes, ManualRequest, Admit,
                own, clean, Quiet, GateInv
  <2> QED
    BY <1>2, <1>3, <2>1, <2>2
<1>5. CASE ShutdownBegins
  BY <1>2, <1>5 DEF ShutdownBegins
<1>6. CASE ShutdownSends
  <2>1. Send(requestTx, 0) /\ UNCHANGED <<handle, conn, own, clean>>
    BY <1>6 DEF ShutdownSends, slots, links
  <2>2. Quiet' => Rooted
    BY <2>1 DEF Quiet, Rooted, own, clean
  <2> QED
    BY <1>2, <2>1, <2>2, SendStops DEF ShutdownInv
<1>7. CASE OwnerBegins \/ AutoChecks \/ Prepares
  <2>1. Quiet
    BY <1>7 DEF OwnerBegins, AutoChecks, Prepares, Quiet, GateInv
  <2>2. UNCHANGED <<handle, shutdown, conn, inbox, kernel>>
    BY <1>7 DEF OwnerBegins, AutoChecks, Prepares, Reset, slots, agents, procs, links, env
  <2>3. committed' = "Shutdown" => committed = "Shutdown"
    BY <1>7 DEF OwnerBegins, AutoChecks, Prepares, Reset, Publish, Write, life, doc
  <2> QED
    BY <1>3, <2>1, <2>2, <2>3
<1>8. CASE SendsRestart \/ RestartAnswered \/ InstallsProvenance \/ Arms
  BY <1>2, <1>8 DEF SendsRestart, RestartAnswered, InstallsProvenance, Arms, Reset, ResetAgent,
                    Goto, Quiet
<1>9. CASE Spawns \/ StoresHandle \/ AwaitsConnect \/ SendsLaunch \/ LaunchAnswered
  BY <1>2, <1>9 DEF Spawns, StoresHandle, AwaitsConnect, SendsLaunch, LaunchAnswered, Reset,
                    ResetAgent, Discard, Goto, Quiet
<1>10. CASE Commits
  <2>1. CASE LaunchCancelled
    BY <1>2, <1>10, <2>1 DEF Commits, Goto, Quiet
  <2>2. CASE ~LaunchCancelled
    <3>1. committed # "Shutdown"
      BY <1>1, <1>10, <2>2 DEF Commits, CancelInv
    <3>2. committed' # "Shutdown"
      BY <1>10, <2>2, <3>1 DEF Commits, CommitSuccess, Write, life, doc
    <3> QED
      BY <1>2, <3>2
  <2> QED
    BY <2>1, <2>2
<1>11. CASE OwnerShutsDown
  <2>1. CASE owner = "shutdown"
    BY <1>2, <1>11, <2>1 DEF OwnerShutsDown, Goto, Quiet
  <2>2. CASE owner = "shutdownRpc"
    <3>1. Send(requestTx, 0) /\ UNCHANGED <<handle, conn>>
      BY <1>11, <2>2 DEF OwnerShutsDown, slots, links
    <3>2. Rooted
      BY <2>2 DEF Rooted, GateInv
    <3> QED
      BY <1>2, <3>1, <3>2, SendStops DEF ShutdownInv
  <2>3. CASE owner = "cancelledDone"
    <3>1. Quiet /\ UNCHANGED <<committed, handle, shutdown, conn, inbox, kernel>>
      BY <1>11, <2>3 DEF OwnerShutsDown, Quiet, GateInv, doc, slots, agents, procs, links, env
    <3> QED
      BY <1>3, <3>1
  <2> QED
    BY <1>11, <2>1, <2>2, <2>3 DEF OwnerShutsDown
<1>12. CASE OwnerClears
  <2>1. handle' = None
    BY <1>1, <1>12 DEF OwnerClears, DropHandle, RootInv
  <2> QED
    BY <1>2, <2>1
<1>13. CASE Readmits
  <2>1. Quiet /\ UNCHANGED <<committed, handle, shutdown, conn, inbox, kernel>>
    BY <1>13 DEF Readmits, Quiet, GateInv, doc, slots, agents, procs, links, env
  <2> QED
    BY <1>3, <2>1
<1>14. CASE Drops
  <2>1. CASE owner = "drop" \/ (owner = "release" /\ LaunchCancelled)
    BY <1>2, <1>14, <2>1 DEF Drops, StartCleanup, Quiet
  <2>2. CASE owner \in {"release", "releaseLocked"}
    <3>1. Quiet /\ UNCHANGED <<committed, handle, shutdown, conn, inbox, kernel>>
      BY <1>14, <2>2 DEF Drops, Quiet, GateInv, doc, slots, agents, procs, links, env
    <3> QED
      BY <1>3, <3>1
  <2> QED
    BY <1>14, <2>1, <2>2 DEF Drops
<1>15. CASE OwnerAborted
  BY <1>2, <1>15 DEF OwnerAborted, StartCleanup, Quiet
<1>16. CASE CleansUp
  <2>1. CASE cleanup = "finish"
    BY <1>1, <1>2, <1>16, <2>1 DEF CleansUp, RootInv, slots
  <2>2. CASE cleanup # "finish"
    BY <1>2, <1>16, <2>2 DEF CleansUp, Quiet
  <2> QED
    BY <2>1, <2>2
<1>17. ASSUME NEW a \in Generations, HandlerStep(a)
       PROVE  ShutdownInv'
  <2>1. UNCHANGED <<owner, cleanup, shutdown>>
    BY <1>17 DEF HandlerStep, HandlerMarks, HandlerTakesSender, DisconnectCommits, DisconnectClearsId,
                 DisconnectDropsHandle, own, clean, env
  <2>2. ASSUME Quiet, handle # None
        PROVE  conn[handle] \in {"open", "lost", "fenced", "unnamed"} /\ handle \in Generations
    BY <1>1, <2>2 DEF RootInv, Rooted, Quiet
  <2>3. CASE HandlerMarks(a) \/ HandlerTakesSender(a) \/ DisconnectClearsId(a)
    <3>1. UNCHANGED <<committed, handle, inbox, kernel>>
      BY <2>3 DEF HandlerMarks, HandlerTakesSender, DisconnectClearsId, slots, procs, life, doc
    <3>2. Quiet /\ handle # None => (conn'[handle] = conn[handle] \/ conn'[handle] # "open")
      BY <1>17, <2>2, <2>3, LinkFacts DEF HandlerMarks, HandlerTakesSender, DisconnectClearsId
    <3>3. Quiet' <=> Quiet
      BY <2>1 DEF Quiet
    <3> QED
      BY <2>1, <3>1, <3>2, <3>3 DEF ShutdownInv, Stopped
  <2>4. CASE DisconnectCommits(a)
    <3>1. CASE connected = a
      BY <1>2, <2>4, <3>1 DEF DisconnectCommits, CommitTerminal, Write
    <3>2. CASE connected # a
      <4>1. UNCHANGED <<committed, handle, inbox, kernel>>
        BY <2>4, <3>2 DEF DisconnectCommits, slots, procs, life, doc
      <4>2. Quiet /\ handle # None => (conn'[handle] = conn[handle] \/ conn'[handle] # "open")
        BY <1>17, <2>2, <2>4, <3>2, LinkFacts DEF DisconnectCommits, Closes
      <4>3. Quiet' <=> Quiet
        BY <2>1 DEF Quiet
      <4> QED
        BY <2>1, <4>1, <4>2, <4>3 DEF ShutdownInv, Stopped
    <3> QED
      BY <3>1, <3>2
  <2>5. CASE DisconnectDropsHandle(a)
    <3>1. CASE agentGen = discGen[a]
      BY <1>2, <2>5, <3>1 DEF DisconnectDropsHandle, DropHandle
    <3>2. CASE agentGen # discGen[a]
      <4>1. UNCHANGED <<committed, handle, inbox, kernel>>
        BY <2>5, <3>2 DEF DisconnectDropsHandle, procs, life, doc
      <4>2. Quiet /\ handle # None => (conn'[handle] = conn[handle] \/ conn'[handle] # "open")
        BY <1>17, <2>2, <2>5, <3>2, LinkFacts DEF DisconnectDropsHandle, Closes
      <4>3. Quiet' <=> Quiet
        BY <2>1 DEF Quiet
      <4> QED
        BY <2>1, <4>1, <4>2, <4>3 DEF ShutdownInv, Stopped
    <3> QED
      BY <3>1, <3>2
  <2> QED
    BY <1>17, <2>3, <2>4, <2>5 DEF HandlerStep
<1>18. ASSUME NEW a \in Generations, AgentStep(a)
       PROVE  ShutdownInv'
  <2>1. UNCHANGED <<owner, cleanup, shutdown, committed, handle>>
    BY <1>18 DEF AgentStep, AgentConnects, HandlerSignals, AgentServes, Answer, AgentReports,
                 HandlerMerges, AgentCrashes, HandlerLoses, own, clean, env, life, doc, slots
  <2>2. Quiet' <=> Quiet
    BY <2>1 DEF Quiet
  <2>3. ASSUME Quiet, handle # None, Stopped(handle)
        PROVE  Stopped(handle)'
    <3>1. handle \in Generations /\ conn[handle] # "none"
      BY <1>1, <2>3 DEF RootInv, Rooted, Quiet
    <3>2. CASE AgentConnects(a)
      <4>1. a # handle /\ UNCHANGED <<inbox, kernel>>
        BY <3>1, <3>2 DEF AgentConnects, procs
      <4>2. conn'[handle] = conn[handle]
        BY <1>18, <3>1, <3>2, <4>1, LinkFacts DEF AgentConnects
      <4> QED
        BY <2>1, <2>3, <4>1, <4>2 DEF Stopped
    <3>3. CASE HandlerSignals(a) \/ AgentReports(a) \/ HandlerMerges(a)
      BY <2>1, <2>3, <3>3 DEF HandlerSignals, AgentReports, HandlerMerges, procs, Stopped
    <3>4. CASE AgentServes(a)
      <4>1. CASE a = handle
        BY <2>1, <2>3, <3>1, <3>4, <4>1, ServeKeepsStopped
      <4>2. CASE a # handle
        BY <2>1, <2>3, <3>1, <3>4, <4>2 DEF AgentServes, ProcsType, links, Stopped
      <4> QED
        BY <4>1, <4>2
    <3>5. CASE AgentCrashes(a)
      BY <2>1, <2>3, <3>1, <3>5, DiesFacts DEF AgentCrashes, links, Stopped
    <3>6. CASE HandlerLoses(a)
      BY <1>18, <2>1, <2>3, <3>1, <3>6, LinkFacts DEF HandlerLoses, ProcsType, Stopped
    <3> QED
      BY <1>18, <3>2, <3>3, <3>4, <3>5, <3>6 DEF AgentStep
  <2> QED
    BY <2>1, <2>2, <2>3 DEF ShutdownInv
<1> QED
  BY <1>4, <1>5, <1>6, <1>7, <1>8, <1>9, <1>10, <1>11, <1>12, <1>13, <1>14, <1>15, <1>16, <1>17, <1>18
     DEF Next, LaunchStep, OwnerStep, RequestStep

\* Once a shutdown has settled no agent runs a kernel, whatever the launch it
\* cancelled was doing when it came: a kernel that comes up late is stopped by
\* the owner that started it.
THEOREM ShutdownStops == Spec => []NoKernelAfterShutdown
<1>1. Init => ShutdownInv
  BY DEF Init, ShutdownInv
<1>2. SlotsInv /\ ShutdownInv /\ [Next]_vars => ShutdownInv'
  <2>1. CASE UNCHANGED vars
    BY <2>1 DEF vars, slots, life, doc, own, clean, agents, procs, links, env, ShutdownInv, Quiet, Stopped
  <2> QED
    BY <2>1, ShutdownStep
<1>3. SlotsInv /\ ShutdownInv => NoKernelAfterShutdown
  <2> SUFFICES ASSUME SlotsInv, ShutdownInv, Settled, committed = "Shutdown", NEW a \in Generations
               PROVE  ~kernel[a]
    BY DEF NoKernelAfterShutdown
  <2>1. CASE proc[a] # "alive"
    BY <2>1, SlotsFacts DEF ProcessInv
  <2>2. CASE proc[a] = "alive"
    <3>1. owner = "none" /\ cleanup = "none"
      BY SettledFacts
    <3>2. handle = a /\ a # None
      BY <2>2, <3>1, SlotsFacts DEF ProcessInv
    <3>3. conn[a] = "open" /\ inbox[a] = <<>> /\ ~shutdown
      BY <3>2, SettledFacts DEF Settled
    <3>4. Stopped(a)
      BY <3>1, <3>2, <3>3 DEF ShutdownInv, Quiet
    <3> QED
      BY <3>3, <3>4 DEF Stopped
  <2> QED
    BY <2>1, <2>2
<1> QED
  BY <1>1, <1>2, <1>3, SlotsInvariant, PTL DEF Spec

=============================================================================
