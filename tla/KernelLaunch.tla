----------------------------- MODULE KernelLaunch -----------------------------
(***************************************************************************)
(* Launching the kernel of one notebook room: the single-flight launch     *)
(* gate of room.rs, the launch attempts of launch_kernel.rs (a request)    *)
(* and metadata.rs (a first peer), the runtime agents they spawn and whose *)
(* connections peer_runtime_agent.rs serves, ShutdownKernel, and the       *)
(* cleanup of attempts that fail, are cancelled or are aborted.            *)
(*                                                                         *)
(* Every part of the room has a lock of its own and is written in an await *)
(* of its own: the gate, the current agent id, the handle of the agent     *)
(* process, the request channel, the connect sender.  One action is one    *)
(* such critical section with what follows it before the next await;       *)
(* everything interleaves between two actions.                             *)
(*                                                                         *)
(* An attempt is named by its generation, and the agent it spawns by the   *)
(* same number.  The phases from Resolving to Connecting are "Starting".   *)
(* The lifecycle has two writers: the room, under the gate, and the agent, *)
(* in a replica of its own whose changes the room merges as they arrive.   *)
(***************************************************************************)
EXTENDS Integers, Sequences

CONSTANTS
  MaxLaunches,   \* bound: admitted attempts
  MaxShutdowns,  \* bound: ShutdownKernel requests
  MaxFaults      \* bound: agents that crash, connections that break, owners aborted

ASSUME BoundsAssumption ==
  MaxLaunches \in Nat \ {0} /\ MaxShutdowns \in Nat /\ MaxFaults \in Nat

None == 0
Generations == 1 .. MaxLaunches
Ids == 0 .. MaxLaunches

OwnerSteps == {"none", "admitted", "check", "prepare", "restart", "restartRpc",
               "provenance", "arm", "spawning", "spawned", "connecting", "launch",
               "launchRpc", "commit", "shutdown", "shutdownRpc", "cancelledDone",
               "handle", "tx", "release", "releaseLocked", "readmit", "drop"}
CleanupSteps == {"none", "gate", "id", "handle", "tx", "finish"}
Lifecycles == {"NotStarted", "Starting", "Running", "Error", "Shutdown"}
Connections == {"none", "validated", "marked", "open", "lost", "fenced", "unnamed", "closed"}

VARIABLES
  \* KernelLaunchGateState, one mutex.
  inFlight,     \* in_flight_generation
  source,       \* of the attempt in flight: "Auto" (also when there is none) or "Manual"
  cancelled,    \* cancelled_generations
  admitted,     \* admitted_count
  completed,    \* completed_outcomes: the attempts that have one
  cooldown,     \* cooldown_until is set; whether it lies ahead is for the clock to say
  expected,     \* expected_runtime_agent_id
  connected,    \* connected_runtime_agent_id
  \* The room's slots, one lock each.
  currentId,    \* current_runtime_agent_id
  handle,       \* runtime_agent_handle
  requestTx,    \* runtime_agent_request_tx: the agent whose connection reads it
  pendingTx,    \* pending_runtime_agent_connect_tx: the attempt that waits for it
  agentGen,     \* runtime_agent_generation: the attempt that bumped it last
  active,       \* active_kernel_launch
  lifecycle,    \* kernel.lifecycle in the room's replica of RuntimeStateDoc
  \* The owner of the attempt token and the task that cleans up after it.
  owner,        \* where the owner stands
  ownerGen,     \* its generation
  ownerAgent,   \* the agent it starts a kernel in
  ownerNext,    \* where it goes once the slots are clear
  rpcTo,        \* the agent it sent LaunchKernel or RestartKernel
  reply,        \* the answer
  signalled,    \* its connect sender fired
  cleanup,      \* where cleanup_abandoned_launch stands
  cleanupGen,   \* and the generation it cleans up
  \* Runtime agents and their connection handlers.
  proc,         \* "none", "alive" or "dead"
  inbox,        \* requests on their way: a generation starts a kernel, 0 stops it
  kernel,       \* the agent runs a kernel
  conn,         \* where the connection handler stands
  heldTx,       \* the connect sender the handler took
  discGen,      \* runtime_agent_generation as the disconnect cleanup read it
  unsynced,     \* the lifecycle the agent wrote last, not merged into the room's replica
  \* Requests and peers.
  shutdown,     \* a ShutdownKernel request before its RPC
  shutdowns,    \* ShutdownKernel requests so far
  faults,       \* faults so far
  peer,         \* a peer is connected
  asking,       \* it is counted and has yet to look for a kernel
  \* History.
  committed,    \* the lifecycle the room itself wrote last; another one is an agent's
  overtaken     \* a terminal lifecycle was committed since the attempt in flight began

admission == <<inFlight, source, cancelled, admitted, completed, cooldown>>
identity == <<expected, connected>>
gate == <<admission, identity>>
slots == <<currentId, handle, requestTx, pendingTx, agentGen, active>>
doc == <<lifecycle, committed>>
life == <<doc, overtaken>>
own == <<owner, ownerGen, ownerAgent, ownerNext, rpcTo, reply, signalled>>
clean == <<cleanup, cleanupGen>>
procs == <<proc, inbox, kernel>>
links == <<conn, heldTx, discGen, unsynced>>
agents == <<procs, links>>
peers == <<peer, asking>>
env == <<shutdown, shutdowns, faults, peers>>
vars == <<gate, slots, life, own, clean, agents, env>>

\* Every variable has its type.
TypeOK ==
  /\ inFlight \in Ids /\ source \in {"Auto", "Manual"}
  /\ cancelled \subseteq Generations /\ admitted \in Ids
  /\ completed \subseteq Generations /\ cooldown \in BOOLEAN
  /\ {expected, connected, currentId, handle, requestTx, pendingTx, agentGen, active} \subseteq Ids
  /\ lifecycle \in Lifecycles /\ committed \in Lifecycles
  /\ owner \in OwnerSteps /\ ownerNext \in {"drop", "readmit"}
  /\ {ownerGen, ownerAgent, rpcTo, cleanupGen} \subseteq Ids
  /\ reply \in {"none", "ok", "err"} /\ signalled \in BOOLEAN
  /\ cleanup \in CleanupSteps
  /\ proc \in [Generations -> {"none", "alive", "dead"}]
  /\ inbox \in [Generations -> Seq(Ids)]
  /\ kernel \in [Generations -> BOOLEAN]
  /\ conn \in [Generations -> Connections]
  /\ heldTx \in [Generations -> Ids] /\ discGen \in [Generations -> Ids]
  /\ unsynced \in [Generations -> Lifecycles \cup {"none"}]
  /\ shutdown \in BOOLEAN /\ shutdowns \in 0 .. MaxShutdowns /\ faults \in 0 .. MaxFaults
  /\ peer \in BOOLEAN /\ asking \in BOOLEAN /\ overtaken \in BOOLEAN

Init ==
  /\ inFlight = None /\ source = "Auto" /\ cancelled = {} /\ admitted = 0
  /\ completed = {} /\ cooldown = FALSE
  /\ expected = None /\ connected = None
  /\ currentId = None /\ handle = None /\ requestTx = None /\ pendingTx = None
  /\ agentGen = None /\ active = None
  /\ lifecycle = "NotStarted" /\ committed = "NotStarted" /\ overtaken = FALSE
  /\ owner = "none" /\ ownerGen = None /\ ownerAgent = None /\ ownerNext = "drop"
  /\ rpcTo = None /\ reply = "none" /\ signalled = FALSE
  /\ cleanup = "none" /\ cleanupGen = None
  /\ proc = [a \in Generations |-> "none"] /\ conn = [a \in Generations |-> "none"]
  /\ heldTx = [a \in Generations |-> None] /\ discGen = [a \in Generations |-> None]
  /\ unsynced = [a \in Generations |-> "none"]
  /\ inbox = [a \in Generations |-> <<>>] /\ kernel = [a \in Generations |-> FALSE]
  /\ shutdown = FALSE /\ shutdowns = 0 /\ faults = 0
  /\ peer = FALSE /\ asking = FALSE

-------------------------------------------------------------------------------
(* Helpers *)

\* The attempt in flight was cancelled.
LaunchCancelled == inFlight \in cancelled

\* The room writes the lifecycle, over whatever its replica reads.
Write(state) == lifecycle' = state /\ committed' = state

\* Mutation: a cancelled attempt still writes the lifecycle.
PublishAlways(state) == Write(state) /\ UNCHANGED overtaken

\* commit_unless_launch_cancelled: an attempt's write of the lifecycle.
Publish(state) ==
  /\ IF LaunchCancelled THEN UNCHANGED doc ELSE Write(state)
  /\ UNCHANGED overtaken

\* The process group of agent a is gone, and with it its kernel.
Dies(a) ==
  /\ proc' = [proc EXCEPT ![a] = "dead"]
  /\ inbox' = [inbox EXCEPT ![a] = <<>>]
  /\ kernel' = [kernel EXCEPT ![a] = FALSE]

\* The handle in the slot is replaced or taken: its drop kills the process group.
DropHandle(next) ==
  /\ handle' = next
  /\ IF handle \in {None, next} THEN UNCHANGED procs ELSE Dies(handle)

\* A request for the agent at the other end of the channel, if it still runs.
Send(to, message) ==
  /\ inbox' = IF to # None /\ proc[to] = "alive"
                THEN [inbox EXCEPT ![to] = Append(@, message)] ELSE inbox
  /\ UNCHANGED <<proc, kernel>>

HasKernel == handle # None /\ proc[handle] = "alive"

\* An outcome is recorded and the gate reopens.
Complete(g) ==
  /\ completed' = completed \cup {g}
  /\ inFlight' = None /\ source' = "Auto" /\ overtaken' = FALSE

\* The owner moves on.  The answer of an RPC is used up by the step after it.
Goto(step) ==
  /\ owner' = step /\ rpcTo' = None /\ reply' = "none"
  /\ UNCHANGED <<ownerGen, ownerAgent, ownerNext, signalled>>

\* The token is gone.
OwnerEnds ==
  /\ owner' = "none" /\ ownerGen' = None /\ ownerAgent' = None /\ ownerNext' = "drop"
  /\ rpcTo' = None /\ reply' = "none" /\ signalled' = FALSE

Fault == faults < MaxFaults /\ faults' = faults + 1

-------------------------------------------------------------------------------
(* Admission *)

\* try_begin_auto_launch and try_begin_manual_launch with the gate open.
Admit(kind) ==
  /\ inFlight = None /\ admitted < MaxLaunches
  /\ admitted' = admitted + 1
  /\ inFlight' = admitted + 1
  /\ source' = kind
  /\ cooldown' = IF kind = "Auto" THEN FALSE ELSE cooldown
  /\ owner' = "admitted" /\ ownerGen' = admitted + 1
  /\ UNCHANGED <<cancelled, completed, identity, slots, life,
                 ownerAgent, ownerNext, rpcTo, reply, signalled, clean, agents>>

\* A first peer is counted.
PeerConnect ==
  /\ ~peer /\ peer' = TRUE
  /\ asking' = TRUE
  /\ UNCHANGED <<gate, slots, life, own, clean, agents, shutdown, shutdowns, faults>>

\* It finds a kernel, owns a launch, follows the one in flight, or meets the cooldown.
PeerAsks ==
  /\ asking /\ asking' = FALSE
  /\ UNCHANGED <<shutdown, shutdowns, faults, peer>>
  /\ \/ ~HasKernel /\ Admit("Auto")
     \/ /\ HasKernel \/ inFlight # None \/ cooldown \/ admitted = MaxLaunches
        /\ UNCHANGED <<gate, slots, life, own, clean, agents>>

PeerLeave ==
  /\ peer /\ ~asking /\ peer' = FALSE
  /\ UNCHANGED <<gate, slots, life, own, clean, agents, shutdown, shutdowns, faults,
                 asking>>

\* spawn_auto_launch_retry: an attempt some peer followed has an outcome, and
\* there is still a peer and no kernel.  (RoomEviction says who follows which.)
FollowerWakes ==
  /\ completed # {} /\ peer /\ ~HasKernel
  /\ Admit("Auto")
  /\ UNCHANGED env

\* A LaunchKernel request is admitted; one that finds an attempt in flight
\* only waits for its outcome.
ManualRequest ==
  /\ peer /\ Admit("Manual")
  /\ UNCHANGED env

-------------------------------------------------------------------------------
(* The owner of an attempt.  Every step needs owner # "none". *)

\* reset_starting_state_with_outcome up to its first await, unguarded: the
\* agent's identity is invalidated, the lifecycle written unless the attempt
\* was cancelled; handle, channel and connect sender are cleared after it.
Reset(state, next) ==
  /\ expected' = None /\ connected' = None
  /\ Publish(state)
  /\ owner' = "handle" /\ ownerNext' = next /\ rpcTo' = None /\ reply' = "none"
  /\ UNCHANGED <<admission, handle, requestTx, pendingTx, agentGen,
                 ownerGen, ownerAgent, signalled, clean, agents, env>>

\* Guarded by the agent: skipped unless that agent is still the current one.
ResetAgent(agent, state) ==
  IF agent \in {None, currentId}
    THEN /\ currentId' = IF agent = None THEN currentId ELSE None
         /\ active' = IF active = agent THEN None ELSE active
         /\ Reset(state, "drop")
    ELSE Goto("drop") /\ UNCHANGED <<gate, slots, life, clean, agents, env>>

\* discard_cancelled_runtime_agent up to its first slot.
Discard ==
  /\ currentId' = IF currentId = ownerGen THEN None ELSE currentId
  /\ expected' = IF expected = ownerGen THEN None ELSE expected
  /\ connected' = IF connected = ownerGen THEN None ELSE connected
  /\ active' = IF active = ownerGen THEN None ELSE active
  /\ Goto("handle")
  /\ UNCHANGED <<admission, handle, requestTx, pendingTx, agentGen, life, clean, agents, env>>

\* existing_kernel_response
ExistingKernel ==
  /\ active # None /\ lifecycle \in {"Running", "Starting"}
  /\ currentId = active /\ requestTx # None

OwnerBegins ==
  /\ owner = "admitted"
  /\ UNCHANGED <<gate, currentId, handle, requestTx, pendingTx, agentGen, clean, agents, env>>
  /\ \/ /\ source = "Manual" /\ ExistingKernel
        /\ Goto("release") /\ UNCHANGED <<active, life>>
     \/ /\ source = "Manual" /\ ~ExistingKernel
        /\ active' = IF lifecycle \in {"Running", "Starting"} THEN None ELSE active
        /\ \/ Publish("Starting") /\ Goto("prepare")
           \/ UNCHANGED life /\ Goto("release")      \* the selected environment is gone
     \/ /\ source = "Auto"
        /\ Publish("Starting") /\ Goto("check") /\ UNCHANGED active

\* auto_launch_kernel_attempt before it resolves an environment.
AutoChecks ==
  /\ owner = "check"
  /\ \/ /\ ~LaunchCancelled /\ ~peer
        /\ UNCHANGED <<currentId, active>>
        /\ Reset("NotStarted", "readmit")
     \/ /\ LaunchCancelled \/ peer
        /\ Goto(IF LaunchCancelled THEN "drop" ELSE IF handle # None THEN "release" ELSE "prepare")
        /\ UNCHANGED <<gate, slots, life, clean, agents, env>>

\* Resolving, preparing and checking the environment.
Prepares ==
  /\ owner = "prepare"
  /\ \/ /\ ~LaunchCancelled
        /\ Publish("Starting")
        /\ Goto(IF source = "Manual" THEN "restart" ELSE "provenance")
        /\ UNCHANGED <<gate, slots, clean, agents, env>>
     \/ /\ LaunchCancelled
        /\ Goto("drop") /\ UNCHANGED <<gate, slots, life, clean, agents, env>>
     \/ \E state \in {"NotStarted", "Error"} :
          Reset(state, "drop") /\ UNCHANGED <<currentId, active>>

\* A connected agent is asked to restart its kernel in place.
SendsRestart ==
  /\ owner = "restart"
  /\ Send(requestTx, ownerGen)
  /\ owner' = IF requestTx = None THEN "provenance" ELSE "restartRpc"
  /\ ownerAgent' = currentId /\ rpcTo' = requestTx
  /\ UNCHANGED <<gate, slots, life, ownerGen, ownerNext, reply, signalled, clean, links, env>>

RestartAnswered ==
  /\ owner = "restartRpc"
  /\ \/ /\ reply = "ok"
        /\ IF ownerAgent = None THEN Publish("Error") ELSE UNCHANGED life
        /\ Goto(IF ownerAgent # None /\ currentId = ownerAgent THEN "commit" ELSE "drop")
        /\ UNCHANGED <<gate, slots, clean, agents, env>>
     \/ reply = "err" /\ ResetAgent(ownerAgent, "Error")
     \/ /\ reply = "none"                       \* the RPC itself failed or timed out
        /\ Goto("provenance")
        /\ UNCHANGED <<gate, slots, life, clean, agents, env>>
     \/ reply = "none" /\ ResetAgent(ownerAgent, "Error")  \* a selected environment

\* expect_runtime_agent under the write lock of the current id.
InstallsProvenance ==
  /\ owner = "provenance"
  /\ \/ /\ LaunchCancelled
        /\ Reset("NotStarted", "drop") /\ UNCHANGED <<currentId, active>>
     \/ /\ ~LaunchCancelled
        /\ expected' = ownerGen /\ connected' = None /\ currentId' = ownerGen
        /\ owner' = "arm" /\ ownerAgent' = ownerGen
        /\ UNCHANGED <<admission, handle, requestTx, pendingTx, agentGen, active, life,
                       ownerGen, ownerNext, rpcTo, reply, signalled, clean, agents, env>>

Arms ==
  /\ owner = "arm"
  /\ \/ /\ LaunchCancelled
        /\ Reset("NotStarted", "drop") /\ UNCHANGED <<currentId, active>>
     \/ /\ ~LaunchCancelled
        /\ agentGen' = ownerGen /\ pendingTx' = ownerGen
        /\ Publish("Starting") /\ Goto("spawning")
        /\ UNCHANGED <<gate, currentId, handle, requestTx, active, clean, agents, env>>

Spawns ==
  /\ owner = "spawning"
  /\ \/ LaunchCancelled /\ Discard
     \/ /\ ~LaunchCancelled
        /\ proc' = [proc EXCEPT ![ownerGen] = "alive"]
        /\ Goto("spawned")
        /\ UNCHANGED <<gate, slots, life, clean, inbox, kernel, links, env>>
     \/ /\ ~LaunchCancelled
        /\ Reset("Error", "drop") /\ UNCHANGED <<currentId, active>>

StoresHandle ==
  /\ owner = "spawned"
  /\ DropHandle(ownerGen)
  /\ Goto("connecting")
  /\ UNCHANGED <<gate, currentId, requestTx, pendingTx, agentGen, active, life, clean, links, env>>

\* Mutation: the wait for the agent has no deadline.
AwaitsConnectForever ==
  /\ owner = "connecting"
  /\ \/ LaunchCancelled /\ Discard
     \/ /\ ~LaunchCancelled /\ signalled
        /\ Goto("launch") /\ UNCHANGED <<gate, slots, life, clean, agents, env>>

\* Cancellation, the connect signal, or the deadline and the dropped sender.
AwaitsConnect ==
  /\ owner = "connecting"
  /\ \/ LaunchCancelled /\ Discard
     \/ /\ ~LaunchCancelled /\ signalled
        /\ Goto("launch") /\ UNCHANGED <<gate, slots, life, clean, agents, env>>
     \/ ~LaunchCancelled /\ ResetAgent(ownerGen, "NotStarted")

\* The channel is read after the last look at the cancellation.
SendsLaunch ==
  /\ owner = "launch"
  /\ \/ requestTx = None /\ ResetAgent(ownerGen, "Error")
     \/ /\ requestTx # None
        /\ Send(requestTx, ownerGen)
        /\ owner' = "launchRpc" /\ rpcTo' = requestTx
        /\ UNCHANGED <<gate, slots, life, ownerGen, ownerAgent, ownerNext, reply, signalled,
                       clean, links, env>>

LaunchAnswered ==
  /\ owner = "launchRpc"
  /\ \/ /\ reply = "ok"
        /\ Goto(IF source = "Manual" /\ currentId # ownerGen THEN "drop" ELSE "commit")
        /\ UNCHANGED <<gate, slots, life, clean, agents, env>>
     \/ reply # "ok" /\ ResetAgent(ownerGen, "Error")

\* The kernel and its identity become visible with the gate's completion.
CommitSuccess ==
  /\ Complete(ownerGen)
  /\ Write("Running")
  /\ active' = ownerAgent
  /\ OwnerEnds
  /\ UNCHANGED <<cancelled, admitted, cooldown, identity,
                 currentId, handle, requestTx, pendingTx, agentGen, clean, agents, env>>

\* Mutation: the owner of a cancelled attempt lets go of a kernel that runs.
CommitsOrLetsGo ==
  /\ owner = "commit"
  /\ IF ~LaunchCancelled /\ connected = ownerAgent
       THEN CommitSuccess
       ELSE /\ Goto(IF LaunchCancelled THEN "cancelledDone" ELSE "drop")
            /\ UNCHANGED <<gate, slots, life, clean, agents, env>>

\* succeed_with_agent with what its callers do when it refuses.  A disconnect
\* cancels the attempt too, so the refusal for a missing agent alone takes the
\* reset of a trust check (metadata.rs), which is not modelled here; nor is the
\* reset a request does after letting go.
Commits ==
  /\ owner = "commit"
  /\ \/ /\ LaunchCancelled
        /\ Goto("shutdown") /\ UNCHANGED <<gate, slots, life, clean, agents, env>>
     \/ /\ ~LaunchCancelled
        /\ IF connected = ownerAgent
             THEN CommitSuccess
             ELSE /\ Goto(IF source = "Manual" THEN "drop" ELSE "release")
                  /\ UNCHANGED <<gate, slots, life, clean, agents, env>>

\* cancel_launch_and_commit_terminal: the attempt in flight is cancelled and
\* the terminal lifecycle published in one gate transaction.
CommitTerminal(state) ==
  /\ cancelled' = IF inFlight = None THEN cancelled ELSE cancelled \cup {inFlight}
  /\ active' = None
  /\ Write(state) /\ overtaken' = (inFlight # None)

\* A cancelled owner stops the kernel that just started before it lets go.
OwnerShutsDown ==
  \/ /\ owner = "shutdown"
     /\ CommitTerminal("Shutdown") /\ Goto("shutdownRpc")
     /\ UNCHANGED <<inFlight, source, admitted, completed, cooldown, identity,
                    currentId, handle, requestTx, pendingTx, agentGen, clean, agents, env>>
  \/ /\ owner = "shutdownRpc"
     /\ Send(requestTx, 0) /\ Goto("cancelledDone")
     /\ UNCHANGED <<gate, slots, life, clean, links, env>>
  \/ /\ owner = "cancelledDone"                                  \* finish_cancelled
     /\ cancelled' = cancelled \ {ownerGen}
     /\ Complete(ownerGen) /\ OwnerEnds
     /\ UNCHANGED <<admitted, cooldown, identity, slots, doc, clean, agents, env>>

\* The slots of a reset or a discard, each under its own lock.  The re-checks
\* of runtime_agent_generation hold while this attempt fences the gate.
OwnerClears ==
  /\ \/ /\ owner = "handle" /\ DropHandle(None) /\ Goto("tx")
        /\ UNCHANGED <<requestTx, pendingTx>>
     \/ /\ owner = "tx" /\ requestTx' = None /\ pendingTx' = None /\ Goto(ownerNext)
        /\ UNCHANGED <<handle, procs>>
  /\ UNCHANGED <<gate, currentId, agentGen, active, life, clean, links, env>>

\* Mutation: the attempt is counted before it is known to be admitted.
ReadmitsUnasked ==
  /\ owner = "readmit"
  /\ cancelled' = cancelled \ {ownerGen}
  /\ Complete(ownerGen) /\ admitted' = admitted + 1
  /\ OwnerEnds
  /\ UNCHANGED <<cooldown, identity, slots, doc, clean, agents, env>>

\* Mutation: the attempt is replaced by its successor without an outcome.
ReadmitsSilently ==
  LET again == ownerGen \notin cancelled /\ peer /\ admitted < MaxLaunches
  IN /\ owner = "readmit"
     /\ cancelled' = cancelled \ {ownerGen}
     /\ inFlight' = IF again THEN admitted + 1 ELSE None
     /\ admitted' = IF again THEN admitted + 1 ELSE admitted
     /\ owner' = IF again THEN "admitted" ELSE "none"
     /\ ownerGen' = IF again THEN admitted + 1 ELSE None
     /\ ownerAgent' = None /\ ownerNext' = "drop" /\ overtaken' = FALSE
     /\ UNCHANGED <<source, completed, cooldown, identity, slots, doc, rpcTo, reply,
                    signalled, clean, agents, env>>

\* release_and_readmit_auto_if_peer_waiting, one gate transaction.
Readmits ==
  LET again == ownerGen \notin cancelled /\ peer /\ admitted < MaxLaunches
  IN /\ owner = "readmit"
     /\ cancelled' = cancelled \ {ownerGen}
     /\ completed' = completed \cup {ownerGen}
     /\ inFlight' = IF again THEN admitted + 1 ELSE None
     /\ admitted' = IF again THEN admitted + 1 ELSE admitted
     /\ owner' = IF again THEN "admitted" ELSE "none"
     /\ ownerGen' = IF again THEN admitted + 1 ELSE None
     /\ ownerAgent' = None /\ ownerNext' = "drop" /\ overtaken' = FALSE
     /\ UNCHANGED <<source, cooldown, identity, slots, doc, rpcTo, reply, signalled,
                    clean, agents, env>>

\* Mutation: the gate reopens and the room keeps what the attempt left in it.
FinishOnly ==
  /\ cleanup' = "finish" /\ cleanupGen' = ownerGen
  /\ OwnerEnds

\* The token is dropped as failed or cancelled: a task cleans up after it.
StartCleanup ==
  /\ cleanup' = "gate" /\ cleanupGen' = ownerGen
  /\ OwnerEnds

\* Drop: the cancellation is read before the gate is locked.
Drops ==
  /\ \/ owner = "drop" /\ StartCleanup /\ UNCHANGED <<admission, overtaken>>
     \/ owner = "release" /\ LaunchCancelled /\ StartCleanup /\ UNCHANGED <<admission, overtaken>>
     \/ /\ owner = "release" /\ ~LaunchCancelled
        /\ Goto("releaseLocked") /\ UNCHANGED <<admission, overtaken, clean>>
     \/ /\ owner = "releaseLocked"
        /\ Complete(ownerGen) /\ OwnerEnds
        /\ UNCHANGED <<cancelled, admitted, cooldown, clean>>
  /\ UNCHANGED <<identity, slots, doc, agents, env>>

\* The owner's task is aborted at an await, or panics.  An automatic launch has
\* no await before its first write, a request looks for a kernel before its own.
OwnerAborted ==
  /\ owner \notin {"none", "release", "releaseLocked", "readmit", "drop"}
  /\ owner = "admitted" => source = "Manual"
  /\ Fault
  /\ StartCleanup
  /\ IF owner = "spawned" THEN Dies(ownerGen) ELSE UNCHANGED procs
  /\ UNCHANGED <<gate, slots, life, links, shutdown, shutdowns, peers>>

\* cleanup_abandoned_launch and finish_abandoned_launch.
CleansUp ==
  LET g == cleanupGen
      Step(next) == cleanup' = next /\ UNCHANGED cleanupGen
  IN /\ \/ /\ cleanup = "gate"
           /\ expected' = None /\ connected' = None
           /\ Step("id")
           /\ UNCHANGED <<admission, slots, life, procs>>
        \/ /\ cleanup = "id"
           /\ currentId' = None /\ active' = None
           /\ Step("handle")
           /\ UNCHANGED <<gate, handle, requestTx, pendingTx, agentGen, life, procs>>
        \/ /\ cleanup = "handle" /\ DropHandle(None)
           /\ Step("tx")
           /\ UNCHANGED <<gate, currentId, requestTx, pendingTx, agentGen, active, life>>
        \/ /\ cleanup = "tx" /\ requestTx' = None /\ pendingTx' = None
           /\ Step("finish")
           /\ UNCHANGED <<gate, currentId, handle, agentGen, active, life, procs>>
        \/ /\ cleanup = "finish" /\ inFlight = g
           /\ cancelled' = cancelled \ {g}
           /\ Complete(g)
           /\ IF g \notin cancelled /\ lifecycle = "Starting" THEN Write("Error") ELSE UNCHANGED doc
           /\ cooldown' = (cooldown \/ (g \notin cancelled /\ source = "Auto"))
           /\ cleanup' = "none" /\ cleanupGen' = None
           /\ UNCHANGED <<admitted, identity, slots, procs>>
     /\ UNCHANGED <<own, links, env>>

-------------------------------------------------------------------------------
(* Runtime agents and their connections *)

Link(a, state) == conn' = [conn EXCEPT ![a] = state]

\* The handler is over: what it held is dropped.
Closes(a) ==
  /\ Link(a, "closed")
  /\ heldTx' = [heldTx EXCEPT ![a] = None] /\ discGen' = [discGen EXCEPT ![a] = None]
  /\ UNCHANGED unsynced

\* The handshake: only the current agent is accepted.
AgentConnects(a) ==
  /\ proc[a] = "alive" /\ conn[a] = "none"
  /\ Link(a, IF currentId = a THEN "validated" ELSE "closed")
  /\ UNCHANGED <<gate, slots, life, own, clean, procs, heldTx, discGen, unsynced, env>>

\* After the initial sync, under the request channel's lock: the gate decides
\* again.  The sync itself fails once the agent is gone, which ends the handler.
HandlerMarks(a) ==
  /\ conn[a] = "validated"
  /\ \/ /\ expected = a
        /\ connected' = a /\ requestTx' = a
        /\ Link(a, "marked")
     \/ /\ expected # a \/ proc[a] = "dead"
        /\ Link(a, "closed")
        /\ UNCHANGED <<connected, requestTx>>
  /\ UNCHANGED <<admission, expected, currentId, handle, pendingTx, agentGen, active,
                 life, own, clean, procs, heldTx, discGen, unsynced, env>>

HandlerTakesSender(a) ==
  /\ conn[a] = "marked"
  /\ heldTx' = [heldTx EXCEPT ![a] = pendingTx] /\ pendingTx' = None
  /\ Link(a, "open")
  /\ UNCHANGED <<gate, currentId, handle, requestTx, agentGen, active, life, own, clean,
                 procs, discGen, unsynced, env>>

\* The agent acknowledged RuntimeStateDoc: the connect sender fires, heard
\* only while the attempt it belongs to still holds the other end.
HandlerSignals(a) ==
  /\ conn[a] = "open" /\ proc[a] = "alive" /\ heldTx[a] # None
  /\ signalled' = (signalled \/ (heldTx[a] = ownerGen
                                   /\ owner \in {"spawning", "spawned", "connecting"}))
  /\ heldTx' = [heldTx EXCEPT ![a] = None]
  /\ UNCHANGED <<gate, slots, life, owner, ownerGen, ownerAgent, ownerNext, rpcTo, reply,
                 clean, procs, conn, discGen, unsynced, env>>

\* An answer reaches the owner while it waits for it.
Answer(a, request, r) ==
  /\ reply' = IF request = ownerGen /\ rpcTo = a THEN r ELSE reply
  /\ UNCHANGED <<owner, ownerGen, ownerAgent, ownerNext, rpcTo, signalled>>

\* handle_runtime_agent_request: the agent handles its requests in order, and
\* awaits Kernel::launch in the handler.  What it writes to the lifecycle of its
\* own replica reaches the room after the answer, so of Launching and what
\* follows it only the last: a start that fails in a way the room may retry
\* leaves Launching.
AgentServes(a) ==
  LET request == Head(inbox[a])
      Kernel(up, state) ==
        kernel' = [kernel EXCEPT ![a] = up] /\ unsynced' = [unsynced EXCEPT ![a] = state]
  IN /\ conn[a] = "open" /\ proc[a] = "alive" /\ inbox[a] # <<>>
     /\ inbox' = [inbox EXCEPT ![a] = Tail(@)]
     /\ \/ request # 0 /\ Kernel(TRUE, "Running") /\ Answer(a, request, "ok")
        \/ /\ request # 0 /\ Answer(a, request, "err")
           /\ \E state \in {"Starting", "Error"} : Kernel(FALSE, state)
        \/ request = 0 /\ Kernel(FALSE, "Shutdown") /\ UNCHANGED own
     /\ UNCHANGED <<gate, slots, life, clean, proc, conn, heldTx, discGen, env>>

\* set_activity and reassert_live_kernel_projection_if_needed: an agent with a
\* kernel writes Running again over another lifecycle the room sent it.
AgentReports(a) ==
  /\ conn[a] = "open" /\ proc[a] = "alive" /\ kernel[a]
  /\ lifecycle # "Running" /\ unsynced[a] # "Running"
  /\ unsynced' = [unsynced EXCEPT ![a] = "Running"]
  /\ UNCHANGED <<gate, slots, life, own, clean, procs, conn, heldTx, discGen, env>>

\* A RuntimeStateSync frame is merged, whoever the current agent is and whatever
\* the gate says.  The agent's write replaces its own earlier one; a write of the
\* room, or of another agent, may be concurrent with it, and then either wins.
HandlerMerges(a) ==
  /\ conn[a] = "open" /\ unsynced[a] # "none"
  /\ unsynced' = [unsynced EXCEPT ![a] = "none"]
  /\ \/ lifecycle' \in {unsynced[a], committed}
     \/ \E b \in Generations \ {a} : proc[b] # "none" /\ lifecycle' = lifecycle
  /\ UNCHANGED <<gate, slots, committed, overtaken, own, clean, procs, conn, heldTx, discGen, env>>

AgentCrashes(a) ==
  /\ proc[a] = "alive" /\ handle = a
  /\ Fault
  /\ Dies(a)
  /\ UNCHANGED <<gate, slots, life, own, clean, links, shutdown, shutdowns, peers>>

\* The handler leaves its loop and reads the agent generation: the agent is
\* gone, or only its connection breaks.  What it had not sent is lost.
HandlerLoses(a) ==
  /\ conn[a] = "open"
  /\ IF proc[a] = "dead" THEN UNCHANGED faults ELSE Fault
  /\ Link(a, "lost")
  /\ discGen' = [discGen EXCEPT ![a] = agentGen]
  /\ unsynced' = [unsynced EXCEPT ![a] = "none"]
  /\ inbox' = [inbox EXCEPT ![a] = <<>>]
  /\ UNCHANGED <<gate, slots, life, own, clean, proc, kernel, heldTx, shutdown, shutdowns, peers>>

\* disconnect_runtime_agent_and_commit_terminal under the request channel's lock.
DisconnectCommits(a) ==
  /\ conn[a] = "lost"
  /\ \/ /\ connected = a
        /\ CommitTerminal("Error")
        /\ expected' = None /\ connected' = None /\ requestTx' = None
        /\ Link(a, "fenced") /\ UNCHANGED <<heldTx, discGen, unsynced>>
     \/ /\ connected # a
        /\ Closes(a)
        /\ UNCHANGED <<cancelled, identity, requestTx, active, life>>
  /\ UNCHANGED <<inFlight, source, admitted, completed, cooldown, currentId, handle, pendingTx,
                 agentGen, own, clean, procs, env>>

DisconnectClearsId(a) ==
  /\ conn[a] = "fenced"
  /\ currentId' = IF currentId = a THEN None ELSE currentId
  /\ Link(a, "unnamed")
  /\ UNCHANGED <<gate, handle, requestTx, pendingTx, agentGen, active, life, own, clean,
                 procs, heldTx, discGen, unsynced, env>>

\* Mutation: the handle in the slot is taken for the one of this agent.
DisconnectDropsAnyHandle(a) ==
  /\ conn[a] = "unnamed"
  /\ DropHandle(None)
  /\ Closes(a)
  /\ reply' = IF rpcTo = a /\ reply = "none" THEN "err" ELSE reply
  /\ UNCHANGED <<gate, currentId, requestTx, pendingTx, agentGen, active, life,
                 owner, ownerGen, ownerAgent, ownerNext, rpcTo, signalled, clean, env>>

\* The handle goes unless a newer agent was spawned; outstanding queries fail.
DisconnectDropsHandle(a) ==
  /\ conn[a] = "unnamed"
  /\ IF agentGen = discGen[a] THEN DropHandle(None) ELSE UNCHANGED <<handle, procs>>
  /\ Closes(a)
  /\ reply' = IF rpcTo = a /\ reply = "none" THEN "err" ELSE reply
  /\ UNCHANGED <<gate, currentId, requestTx, pendingTx, agentGen, active, life,
                 owner, ownerGen, ownerAgent, ownerNext, rpcTo, signalled, clean, env>>

-------------------------------------------------------------------------------
(* ShutdownKernel *)

\* Mutation: the gate reopens before the cancelled owner has let go of it.
ShutdownReopens ==
  /\ ~shutdown /\ shutdowns < MaxShutdowns
  /\ CommitTerminal("Shutdown")
  /\ shutdown' = TRUE /\ shutdowns' = shutdowns + 1
  /\ inFlight' = None
  /\ UNCHANGED <<source, admitted, completed, cooldown, identity,
                 currentId, handle, requestTx, pendingTx, agentGen, own, clean, agents,
                 faults, peers>>

ShutdownBegins ==
  /\ ~shutdown /\ shutdowns < MaxShutdowns
  /\ CommitTerminal("Shutdown")
  /\ shutdown' = TRUE /\ shutdowns' = shutdowns + 1
  /\ UNCHANGED <<inFlight, source, admitted, completed, cooldown, identity,
                 currentId, handle, requestTx, pendingTx, agentGen, own, clean, agents,
                 faults, peers>>

\* The request channel is read after the transaction.
ShutdownSends ==
  /\ shutdown /\ shutdown' = FALSE
  /\ Send(requestTx, 0)
  /\ UNCHANGED <<gate, slots, life, own, clean, links, shutdowns, faults, peers>>

-------------------------------------------------------------------------------
OwnerStep ==
  \/ OwnerBegins \/ AutoChecks \/ Prepares \/ SendsRestart \/ RestartAnswered
  \/ InstallsProvenance \/ Arms \/ Spawns \/ StoresHandle \/ AwaitsConnect
  \/ SendsLaunch \/ LaunchAnswered \/ Commits \/ OwnerShutsDown \/ OwnerClears
  \/ Readmits \/ Drops

HandlerStep(a) ==
  \/ HandlerMarks(a) \/ HandlerTakesSender(a) \/ DisconnectCommits(a)
  \/ DisconnectClearsId(a) \/ DisconnectDropsHandle(a)

AgentStep(a) ==
  \/ AgentConnects(a) \/ HandlerSignals(a) \/ AgentServes(a) \/ AgentReports(a)
  \/ HandlerMerges(a) \/ AgentCrashes(a) \/ HandlerLoses(a)

RequestStep ==
  \/ PeerConnect \/ PeerAsks \/ PeerLeave \/ ManualRequest
  \/ ShutdownBegins \/ ShutdownSends

LaunchStep == OwnerStep \/ CleansUp

Next ==
  \/ LaunchStep \/ OwnerAborted \/ FollowerWakes \/ RequestStep
  \/ \E a \in Generations : HandlerStep(a) \/ AgentStep(a)

\* The task that holds an attempt, or cleans up after it, is scheduled, and its
\* waits have deadlines.  Nobody else owes a step.
Spec == Init /\ [][Next]_vars /\ WF_vars(LaunchStep)

-------------------------------------------------------------------------------
(* Properties *)

\* Nothing is under way: no attempt, cleanup, shutdown, or handler between two steps.
Settled ==
  /\ inFlight = None /\ ~shutdown
  /\ \A a \in Generations :
       /\ conn[a] \in {"none", "open", "closed"} /\ inbox[a] = <<>>
       /\ unsynced[a] = "none"
       /\ conn[a] = "open" => proc[a] = "alive"

\* The gate is closed exactly while the token of the attempt in flight, or the
\* task that cleans up after it, exists: no second attempt can be admitted
\* under a live one, and no generation stays in flight with nobody to finish it.
GateIsOwned ==
  /\ owner # "none" => ownerGen = inFlight /\ cleanup = "none"
  /\ cleanup # "none" => cleanupGen = inFlight /\ owner = "none"
  /\ inFlight # None => owner # "none" \/ cleanup # "none"

\* Every admitted attempt that is no longer in flight left an outcome, so a
\* request or a follower that joined it is answered.
NoLostWaiter == \A g \in 1 .. admitted : g # inFlight => g \in completed

\* With nothing under way, a Running the room wrote last and still reads means
\* an agent: the active launch names the one in the slots, and it lives.
RunningHasAgent ==
  Settled /\ lifecycle = "Running" /\ committed = "Running" =>
    /\ active # None /\ proc[active] = "alive"
    /\ {handle, connected, currentId, requestTx} = {active}

\* Once a shutdown has settled no live agent runs a kernel, whatever the launch
\* it cancelled was doing when it came and whatever the agent wrote since.
NoKernelAfterShutdown ==
  Settled /\ committed = "Shutdown" => \A a \in Generations : ~kernel[a]

\* With nothing under way the slots name one agent: no process outlives its
\* handle, and the channel, the id and the gate belong to the same agent.
SlotsAgree ==
  Settled => /\ \A a \in Generations : proc[a] = "alive" => handle = a
             /\ HasKernel => {requestTx, currentId, connected} = {handle}

\* A terminal lifecycle is the room's last word until a launch admitted after
\* it: neither the attempt that was under way when Shutdown or the disconnect
\* Error was committed, nor its cleanup, writes progress again.
TerminalSticks ==
  [][overtaken => committed' \in {committed, "Shutdown", "Error"}]_vars

\* The cleanup after a disconnect never kills an agent that was started later.
NewerAgentSurvives ==
  [][\A a, b \in Generations :
       conn[a] = "unnamed" /\ conn'[a] = "closed" /\ proc[b] # proc'[b] => b <= a]_vars

\* An admitted attempt ends, whatever hangs, fails or is aborted.
GateReopens == inFlight # None ~> inFlight = None

===============================================================================
