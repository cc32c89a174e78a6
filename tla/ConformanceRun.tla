--------------------------- MODULE ConformanceRun ---------------------------
(***************************************************************************)
(* One `cf-integration conformance run`                                    *)
(* (src/src/runtime/compliance.rs, run_conformance_with_interrupt): the    *)
(* workflow brings up one fresh Compose stack after another, starts the    *)
(* official fixture in it, runs the official runner directly and through   *)
(* the gateway, and takes everything down again, while the operator may    *)
(* press Ctrl-C at any moment and every external command may fail.         *)
(*                                                                         *)
(* `pc` names the await (or blocking command) the workflow is at.  `busy`  *)
(* says that the phase's operation is being awaited next to the interrupt  *)
(* future in a tokio::select!.                                             *)
(***************************************************************************)
EXTENDS Naturals, FiniteSets

CONSTANT ApiResource   \* admin-API records a provisioned fixture consists of

ASSUME ApiResourceAssumption == ApiResource # {}

Topology == {"controlplane", "dataplane"}
Lane     == {"fixture", "controlplane", "dataplane"}
Service  == {"base", "conformance"}   \* containers: stock services, fixture

VARIABLES
  lanes,          \* lanes the command line selected
  pc, busy,
  topology,       \* topology of this iteration of the loop
  remaining,      \* topologies the loop has still to visit
  started,        \* topologies whose `compose up` was issued
  unchecked,      \* topologies started although `docker ps` had failed
  containers,     \* running containers of each Compose project
  api,            \* fixture records in each stack's database volume
  artifact,       \* what a lane's result directory holds
  topologyFailed, serviceStarted, fixtureHeld,   \* locals of one iteration
  directComplete, interrupted, failures,         \* locals of the whole run
  report,         \* lanes the comparison report covers, {} when not written
  signal,         \* Ctrl-C: not pressed, waiting to be polled, delivered
  handler,        \* tokio has replaced SIGINT's default disposition
  cancelled       \* value in the cancellation watch channel

lanesV == <<lanes, unchecked, started>>
local  == <<topologyFailed, serviceStarted, fixtureHeld>>
global == <<directComplete, interrupted, failures, report>>
world  == <<containers, api, artifact>>
intr   == <<signal, handler, cancelled>>
vars   == <<lanesV, pc, busy, topology, remaining, world, local, global, intr>>

-----------------------------------------------------------------------------
\* Type definitions.

BringUp == {"prepare", "reset", "exclusive", "compose_up", "ready"}
Polled  == {"start_service", "direct", "provision", "routed"}
Work    == Polled \cup {"endpoint", "snapshot"}
Unwind  == {"api_cleanup", "service_cleanup", "stack_cleanup", "record"}
Stopped == {"done", "killed", "panicked"}

FlowTypes ==
  /\ lanes \in SUBSET Lane
  /\ pc \in {"preflight", "report"} \cup BringUp \cup Work \cup Unwind \cup Stopped
  /\ topology \in Topology
  /\ remaining \in SUBSET Topology
  /\ started \in SUBSET Topology
  /\ unchecked \in SUBSET Topology
  /\ report \in SUBSET Lane
  /\ signal \in {"none", "pending", "consumed"}

WorldTypes ==
  /\ containers \in [Topology -> SUBSET Service]
  /\ api \in [Topology -> SUBSET ApiResource]
  /\ artifact \in [Lane -> {"none", "incomplete", "complete"}]

FlagTypes ==
  /\ busy \in BOOLEAN /\ handler \in BOOLEAN /\ cancelled \in BOOLEAN
  /\ topologyFailed \in BOOLEAN /\ serviceStarted \in BOOLEAN
  /\ fixtureHeld \in BOOLEAN
  /\ directComplete \in BOOLEAN /\ interrupted \in BOOLEAN
  /\ failures \in BOOLEAN

TypeOK == FlowTypes /\ WorldTypes /\ FlagTypes

\* Mutants: the direct lane taken for a topology; one stack for all lanes.
TopologiesUnfiltered(ls) ==
  IF ls \cap Topology = {} THEN {"controlplane"} ELSE ls

OneTopology(ls) ==
  IF "dataplane" \in ls THEN {"dataplane"} ELSE {"controlplane"}

\* conformance_topologies: the direct lane alone borrows the control plane.
Topologies(ls) ==
  IF ls \cap Topology = {} THEN {"controlplane"} ELSE ls \cap Topology

\* The loop visits the control plane first.
First(ts) == IF "controlplane" \in ts THEN "controlplane" ELSE "dataplane"

Other(t) == IF t = "controlplane" THEN "dataplane" ELSE "controlplane"

\* Stacks and database volumes of earlier commands may still be there.
Init ==
  /\ lanes \in SUBSET Lane
  /\ pc = "preflight" /\ busy = FALSE
  /\ topology = First(Topologies(lanes))
  /\ remaining = Topologies(lanes)
  /\ started = {} /\ unchecked = {}
  /\ containers \in [Topology -> {{}, Service}]
  /\ api \in [Topology -> {{}, ApiResource}]
  /\ artifact \in [Lane -> {"none", "incomplete", "complete"}]
  /\ topologyFailed = FALSE /\ serviceStarted = FALSE /\ fixtureHeld = FALSE
  /\ directComplete = FALSE /\ interrupted = FALSE /\ failures = FALSE
  /\ report = {}
  /\ signal = "none" /\ handler = FALSE /\ cancelled = FALSE

-----------------------------------------------------------------------------
\* Before the loop, and the head of the loop.

\* Empty selection, unknown version, non-loopback URL or an artifact directory
\* that cannot be (fully) deleted: the command returns before it starts anything.
PreflightFails ==
  /\ pc = "preflight"
  /\ \E cleared \in SUBSET Lane, torn \in SUBSET {l \in Lane : artifact[l] # "none"} :
       artifact' = [l \in Lane |-> IF l \in cleared THEN "none"
                                  ELSE IF l \in torn THEN "incomplete" ELSE artifact[l]]
  /\ pc' = "done" /\ failures' = TRUE
  /\ UNCHANGED <<lanesV, busy, topology, remaining, containers, api, local,
                 directComplete, interrupted, report, intr>>

Preflight ==
  /\ pc = "preflight" /\ lanes # {}
  /\ artifact' = [l \in Lane |-> "none"]      \* clear_conformance
  /\ topology' = First(remaining)
  /\ remaining' = remaining \ {First(remaining)}
  /\ pc' = "prepare"
  /\ UNCHANGED <<lanesV, busy, containers, api, local, global, intr>>

\* Mutant: a failed phase does not keep the next ones from running.
FailureFallsThrough == topologyFailed' = TRUE /\ pc' = "provision"

\* The phase's failure is kept as topology_failure; control falls through to
\* the cleanup at the end of the iteration.
FailTopology == topologyFailed' = TRUE /\ pc' = "api_cleanup"

-----------------------------------------------------------------------------
\* stack_up(topology, fresh = true).

\* Checkouts, Compose contract, build decision and image pulls.
Prepare ==
  /\ pc = "prepare"
  /\ \/ pc' = "reset" /\ UNCHANGED topologyFailed
     \/ FailTopology
  /\ UNCHANGED <<lanesV, busy, topology, remaining, world, serviceStarted,
                 fixtureHeld, global, intr>>

\* cleanup(topology, Reset): containers and volumes go, or an error is kept.
Reset ==
  /\ pc = "reset"
  /\ \/ /\ containers' = [containers EXCEPT ![topology] = {}]
        /\ api' = [api EXCEPT ![topology] = {}]
        /\ pc' = "exclusive" /\ UNCHANGED topologyFailed
     \/ /\ \E left \in SUBSET containers[topology] :
             containers' = [containers EXCEPT ![topology] = left]
        /\ \E kept \in {{}, api[topology]} : api' = [api EXCEPT ![topology] = kept]
        /\ FailTopology
  /\ UNCHANGED <<lanesV, busy, topology, remaining, artifact, serviceStarted,
                 fixtureHeld, global, intr>>

\* Mutant: the other topology is not looked at.
ExclusiveUnchecked ==
  /\ pc = "exclusive" /\ pc' = "compose_up"
  /\ UNCHANGED <<lanesV, busy, topology, remaining, world, local, global, intr>>

\* ensure_other_stack_stopped: a `docker ps` that fails counts as "stopped".
Exclusive ==
  /\ pc = "exclusive"
  /\ \/ /\ containers[Other(topology)] = {}
        /\ pc' = "compose_up" /\ UNCHANGED <<unchecked, topologyFailed>>
     \/ FailTopology /\ UNCHANGED unchecked   \* it runs, or a setting is wrong
     \/ /\ unchecked' = unchecked \cup {topology}
        /\ pc' = "compose_up" /\ UNCHANGED topologyFailed
  /\ UNCHANGED <<lanes, started, busy, topology, remaining, world,
                 serviceStarted, fixtureHeld, global, intr>>

\* The `docker compose up -d` command, which may fail half way.
ComposeUp ==
  /\ pc = "compose_up"
  /\ started' = started \cup {topology}
  /\ \/ /\ containers' = [containers EXCEPT ![topology] = {"base"}]
        /\ pc' = "ready" /\ UNCHANGED topologyFailed
     \/ /\ \E up \in {{}, {"base"}} :
             containers' = [containers EXCEPT ![topology] = up]
        /\ FailTopology
  /\ UNCHANGED <<lanes, unchecked, busy, topology, remaining, api, artifact,
                 serviceStarted, fixtureHeld, global, intr>>

\* wait_for_public_endpoint, bounded by STACK_READY_TIMEOUT.
Ready ==
  /\ pc = "ready"
  /\ \/ pc' = "start_service" /\ UNCHANGED topologyFailed
     \/ FailTopology
  /\ UNCHANGED <<lanesV, busy, topology, remaining, world, serviceStarted,
                 fixtureHeld, global, intr>>

-----------------------------------------------------------------------------
\* Phases awaited next to the interrupt future.  tokio::select! polls its
\* branches in any order, so an operation that fails at once may be done before
\* the interrupt future is polled: the ...FailsEarly actions.

\* First poll of the interrupt future in a phase: it installs the SIGINT
\* handler, or panics when the future has already delivered the signal.
StartAwait ==
  IF signal = "consumed"
    THEN pc' = "panicked" /\ UNCHANGED <<busy, handler>>
    ELSE busy' = TRUE /\ handler' = TRUE /\ UNCHANGED pc

\* Mutant: the runner is not told to stop.
SeeInterruptUncancelled ==
  /\ busy /\ signal = "pending"
  /\ signal' = "consumed" /\ interrupted' = TRUE
  /\ UNCHANGED <<lanesV, pc, busy, topology, remaining, world, local,
                 directComplete, failures, report, handler, cancelled>>

\* The interrupt branch of the select wins.  The two runner phases raise the
\* cancellation channel; finish_phase_after_interrupt only remembers it.
SeeInterrupt ==
  /\ busy /\ signal = "pending"
  /\ signal' = "consumed"
  /\ IF pc \in {"direct", "routed"}
       THEN interrupted' = TRUE /\ cancelled' = TRUE
       ELSE UNCHANGED <<interrupted, cancelled>>
  /\ UNCHANGED <<lanesV, pc, busy, topology, remaining, world, local,
                 directComplete, failures, report, handler>>

\* Mutant: the flag is dropped.
InterruptForgotten == UNCHANGED interrupted

\* finish_phase_after_interrupt returned: its flag joins `interrupted`.
NoteInterrupt == interrupted' = (interrupted \/ signal = "consumed")

StartServiceFailsEarly ==
  /\ pc = "start_service" /\ ~busy
  /\ FailTopology
  /\ UNCHANGED <<lanesV, busy, topology, remaining, world, serviceStarted,
                 fixtureHeld, global, intr>>

BeginStartService ==
  /\ pc = "start_service" /\ ~busy
  /\ StartAwait
  /\ UNCHANGED <<lanesV, topology, remaining, world, local, global, signal,
                 cancelled>>

\* `compose build` and `compose up --wait` of the fixture, never cancelled.
FinishStartService ==
  /\ pc = "start_service" /\ busy
  /\ busy' = FALSE
  /\ NoteInterrupt
  /\ \/ /\ containers' = [containers EXCEPT ![topology] = @ \cup {"conformance"}]
        /\ serviceStarted' = TRUE
        /\ IF interrupted' THEN FailTopology
                           ELSE pc' = "endpoint" /\ UNCHANGED topologyFailed
     \/ /\ \E up \in {{}, {"conformance"}} :
             containers' = [containers EXCEPT ![topology] = @ \cup up]
        /\ FailTopology /\ UNCHANGED serviceStarted
  /\ UNCHANGED <<lanesV, topology, remaining, api, artifact, fixtureHeld,
                 directComplete, failures, report, intr>>

\* conformance_fixture_endpoint: a blocking `compose port`.
Endpoint ==
  /\ pc = "endpoint"
  /\ \/ pc' = "direct" /\ UNCHANGED topologyFailed
     \/ FailTopology
  /\ UNCHANGED <<lanesV, busy, topology, remaining, world, serviceStarted,
                 fixtureHeld, global, intr>>

\* Mutant: direct_complete is not consulted.
RunsDirectAgain == "fixture" \in lanes

RunsDirect == "fixture" \in lanes /\ ~directComplete

SkipDirect ==
  /\ pc = "direct" /\ ~busy /\ ~RunsDirect
  /\ pc' = "provision"
  /\ UNCHANGED <<lanesV, busy, topology, remaining, world, local, global, intr>>

\* A direct failure goes to `failures`, not to topology_failure: the topology's
\* own lane still runs.
DirectFailsEarly ==
  /\ pc = "direct" /\ ~busy /\ RunsDirect
  /\ \E left \in {"none", "incomplete"} :
       artifact' = [artifact EXCEPT !["fixture"] = left]
  /\ failures' = TRUE /\ directComplete' = TRUE
  /\ pc' = "provision"
  /\ UNCHANGED <<lanesV, busy, topology, remaining, containers, api, local,
                 interrupted, report, intr>>

\* run_official_conformance_target drops the completion marker first.
BeginDirect ==
  /\ pc = "direct" /\ ~busy /\ RunsDirect
  /\ StartAwait
  /\ artifact' = [artifact EXCEPT !["fixture"] = "incomplete"]
  /\ UNCHANGED <<lanesV, topology, remaining, containers, api, local, global,
                 signal, cancelled>>

\* The runner exited by itself.  Protocol failures make it exit nonzero with
\* complete artifacts; a signal or an unreadable result leaves no marker.
FinishDirect ==
  /\ pc = "direct" /\ busy /\ ~cancelled
  /\ busy' = FALSE /\ directComplete' = TRUE
  /\ \/ /\ artifact' = [artifact EXCEPT !["fixture"] = "complete"]
        /\ failures' \in {failures, TRUE}
     \/ failures' = TRUE /\ UNCHANGED artifact
  /\ pc' = "provision"
  /\ UNCHANGED <<lanesV, topology, remaining, containers, api, local,
                 interrupted, report, intr>>

\* The runner was killed and reaped, or had exited just before.
ReapDirect ==
  /\ pc = "direct" /\ busy /\ cancelled
  /\ busy' = FALSE /\ directComplete' = TRUE
  /\ \E left \in {"incomplete", "complete"} :
       artifact' = [artifact EXCEPT !["fixture"] = left]
  /\ FailTopology
  /\ UNCHANGED <<lanesV, topology, remaining, containers, api, serviceStarted,
                 fixtureHeld, interrupted, failures, report, intr>>

SkipRouted ==
  /\ pc = "provision" /\ ~busy /\ topology \notin lanes
  /\ pc' = "api_cleanup"
  /\ UNCHANGED <<lanesV, busy, topology, remaining, world, local, global, intr>>

ProvisionFailsEarly ==
  /\ pc = "provision" /\ ~busy /\ topology \in lanes
  /\ FailTopology
  /\ UNCHANGED <<lanesV, busy, topology, remaining, world, serviceStarted,
                 fixtureHeld, global, intr>>

BeginProvision ==
  /\ pc = "provision" /\ ~busy /\ topology \in lanes
  /\ StartAwait
  /\ UNCHANGED <<lanesV, topology, remaining, world, local, global, signal,
                 cancelled>>

\* ConformanceFixtureClient::provision; its rollback may leave records behind.
FinishProvision ==
  /\ pc = "provision" /\ busy
  /\ busy' = FALSE
  /\ NoteInterrupt
  /\ \/ /\ api' = [api EXCEPT ![topology] = ApiResource]
        /\ fixtureHeld' = TRUE
        /\ IF interrupted' THEN FailTopology
             ELSE /\ pc' = IF topology = "dataplane" THEN "snapshot" ELSE "routed"
                  /\ UNCHANGED topologyFailed
     \/ /\ \E left \in SUBSET ApiResource : api' = [api EXCEPT ![topology] = left]
        /\ FailTopology /\ UNCHANGED fixtureHeld
  /\ UNCHANGED <<lanesV, topology, remaining, containers, artifact,
                 serviceStarted, directComplete, failures, report, intr>>

\* wait_for_publisher_snapshot, awaited alone.
Snapshot ==
  /\ pc = "snapshot"
  /\ \/ pc' = "routed" /\ UNCHANGED topologyFailed
     \/ FailTopology
  /\ UNCHANGED <<lanesV, busy, topology, remaining, world, serviceStarted,
                 fixtureHeld, global, intr>>

\* No token, endpoint or lane directory: nothing was run.
RoutedFailsEarly ==
  /\ pc = "routed" /\ ~busy
  /\ \E left \in {"none", "incomplete"} :
       artifact' = [artifact EXCEPT ![topology] = left]
  /\ FailTopology
  /\ UNCHANGED <<lanesV, busy, topology, remaining, containers, api,
                 serviceStarted, fixtureHeld, global, intr>>

BeginRouted ==
  /\ pc = "routed" /\ ~busy
  /\ StartAwait
  /\ artifact' = [artifact EXCEPT ![topology] = "incomplete"]
  /\ UNCHANGED <<lanesV, topology, remaining, containers, api, local, global,
                 signal, cancelled>>

\* The runner exited and the authentication proxy was shut down.
FinishRouted ==
  /\ pc = "routed" /\ busy /\ ~cancelled
  /\ busy' = FALSE
  /\ \/ /\ artifact' = [artifact EXCEPT ![topology] = "complete"]
        /\ topologyFailed' \in BOOLEAN
     \/ topologyFailed' = TRUE /\ UNCHANGED artifact
  /\ pc' = "api_cleanup"
  /\ UNCHANGED <<lanesV, topology, remaining, containers, api, serviceStarted,
                 fixtureHeld, global, intr>>

ReapRouted ==
  /\ pc = "routed" /\ busy /\ cancelled
  /\ busy' = FALSE
  /\ \E left \in {"incomplete", "complete"} :
       artifact' = [artifact EXCEPT ![topology] = left]
  /\ FailTopology
  /\ UNCHANGED <<lanesV, topology, remaining, containers, api, serviceStarted,
                 fixtureHeld, global, intr>>

-----------------------------------------------------------------------------
\* The cleanup at the end of every iteration; none of it sees the interrupt.

ApiCleanup ==
  /\ pc = "api_cleanup"
  /\ pc' = "service_cleanup"
  /\ \/ ~fixtureHeld /\ UNCHANGED <<api, topologyFailed>>
     \/ /\ fixtureHeld
        /\ api' = [api EXCEPT ![topology] = {}] /\ UNCHANGED topologyFailed
     \/ /\ fixtureHeld
        /\ \E left \in SUBSET api[topology] : api' = [api EXCEPT ![topology] = left]
        /\ topologyFailed' = TRUE
  /\ UNCHANGED <<lanesV, busy, topology, remaining, containers, artifact,
                 serviceStarted, fixtureHeld, global, intr>>

\* stop_conformance_service.
ServiceCleanup ==
  /\ pc = "service_cleanup"
  /\ pc' = "stack_cleanup"
  /\ \/ ~serviceStarted /\ UNCHANGED <<containers, topologyFailed>>
     \/ /\ serviceStarted
        /\ containers' = [containers EXCEPT ![topology] = @ \ {"conformance"}]
        /\ UNCHANGED topologyFailed
     \/ serviceStarted /\ topologyFailed' = TRUE /\ UNCHANGED containers
  /\ UNCHANGED <<lanesV, busy, topology, remaining, api, artifact,
                 serviceStarted, fixtureHeld, global, intr>>

\* Mutant: the error of the final `compose down` is dropped.
StackCleanupUnreported ==
  /\ pc = "stack_cleanup" /\ pc' = "record"
  /\ \E left \in SUBSET containers[topology] :
       containers' = [containers EXCEPT ![topology] = left]
  /\ UNCHANGED <<lanesV, busy, topology, remaining, api, artifact, local,
                 global, intr>>

\* cleanup(topology, Down), whatever happened before; it keeps the volumes.
StackCleanup ==
  /\ pc = "stack_cleanup"
  /\ pc' = "record"
  /\ \/ /\ containers' = [containers EXCEPT ![topology] = {}]
        /\ UNCHANGED topologyFailed
     \/ /\ \E left \in SUBSET containers[topology] :
             containers' = [containers EXCEPT ![topology] = left]
        /\ topologyFailed' = TRUE
  /\ UNCHANGED <<lanesV, busy, topology, remaining, api, artifact,
                 serviceStarted, fixtureHeld, global, intr>>

\* Mutant: the loop does not break after an interrupt.
RecordUninterrupted ==
  /\ pc = "record"
  /\ failures' = (failures \/ topologyFailed)
  /\ \/ /\ remaining # {}
        /\ topology' = First(remaining)
        /\ remaining' = remaining \ {First(remaining)}
        /\ topologyFailed' = FALSE /\ serviceStarted' = FALSE
        /\ fixtureHeld' = FALSE /\ pc' = "prepare"
     \/ /\ remaining = {} /\ pc' = "report"
        /\ UNCHANGED <<local, topology, remaining>>
  /\ UNCHANGED <<lanesV, busy, world, directComplete, interrupted, report, intr>>

\* The failure is recorded; an interrupt ends the run without a report, and
\* otherwise the loop goes on to the next topology.
Record ==
  /\ pc = "record"
  /\ failures' = (failures \/ topologyFailed)
  /\ \/ /\ interrupted
        /\ pc' = "done" /\ cancelled' = TRUE
        /\ UNCHANGED <<local, topology, remaining>>
     \/ /\ ~interrupted /\ remaining # {}
        /\ topology' = First(remaining)
        /\ remaining' = remaining \ {First(remaining)}
        /\ topologyFailed' = FALSE /\ serviceStarted' = FALSE
        /\ fixtureHeld' = FALSE
        /\ pc' = "prepare" /\ UNCHANGED cancelled
     \/ /\ ~interrupted /\ remaining = {}
        /\ pc' = "report" /\ UNCHANGED <<local, topology, remaining, cancelled>>
  /\ UNCHANGED <<lanesV, busy, world, directComplete, interrupted, report,
                 signal, handler>>

Complete == {l \in Lane : artifact[l] = "complete"}

\* Mutant: a lane counts as soon as its directory exists.
ReportAnything ==
  /\ pc = "report" /\ pc' = "done"
  /\ report' = {l \in Lane : artifact[l] # "none"}
  /\ UNCHANGED <<lanesV, busy, topology, remaining, world, local,
                 directComplete, interrupted, failures, intr>>

\* write_comparison_from_artifacts: lanes without artifacts are left out, an
\* incomplete lane or an I/O error makes the report fail.
Report ==
  /\ pc = "report"
  /\ pc' = "done"
  /\ \/ /\ \A l \in Lane : artifact[l] # "incomplete"
        /\ Complete # {}
        /\ report' = Complete /\ UNCHANGED failures
     \/ failures' = TRUE /\ UNCHANGED report
  /\ UNCHANGED <<lanesV, busy, topology, remaining, world, local,
                 directComplete, interrupted, intr>>

-----------------------------------------------------------------------------
\* The operator presses Ctrl-C (once; later presses change nothing).  Before
\* the interrupt future was first polled SIGINT still kills the process.
CtrlC ==
  /\ pc \notin Stopped /\ signal = "none"
  /\ \/ ~handler /\ pc' = "killed" /\ busy' = FALSE /\ UNCHANGED signal
     \/ handler /\ signal' = "pending" /\ UNCHANGED <<pc, busy>>
  /\ UNCHANGED <<lanesV, topology, remaining, world, local, global, handler,
                 cancelled>>

BringUpStack == Prepare \/ Reset \/ Exclusive \/ ComposeUp \/ Ready

StartService == StartServiceFailsEarly \/ BeginStartService \/ FinishStartService

Direct == SkipDirect \/ DirectFailsEarly \/ BeginDirect \/ ReapDirect

Provision ==
  SkipRouted \/ ProvisionFailsEarly \/ BeginProvision \/ FinishProvision

Routed == RoutedFailsEarly \/ BeginRouted \/ ReapRouted

CleanUp == ApiCleanup \/ ServiceCleanup \/ StackCleanup \/ Record

\* What the workflow does on its own, as long as its commands return.
Workflow ==
  \/ PreflightFails \/ Preflight
  \/ BringUpStack
  \/ StartService \/ Endpoint
  \/ Direct
  \/ Provision \/ Snapshot
  \/ Routed
  \/ CleanUp \/ Report
  \/ SeeInterrupt

\* The official runner finishing by itself, which nothing bounds.
RunnerExits == FinishDirect \/ FinishRouted

Next == Workflow \/ RunnerExits \/ CtrlC

Spec == Init /\ [][Next]_vars

\* The runtime keeps polling its task and every external command returns; the
\* runner, which has no deadline, need not.
FairSpec == Spec /\ WF_vars(Workflow)

-----------------------------------------------------------------------------
\* Properties.

\* The interrupt future is polled in up to four phases of each iteration, and a
\* completed async block panics when polled again: after the phase that saw
\* Ctrl-C no later phase may await it.
NotPolledAfterCompletion == pc # "panicked"

\* A command that returns Ok has removed every container and admin-API record
\* of every stack it started, whichever of its steps failed on the way.
OkLeavesNothing ==
  pc = "done" /\ ~failures =>
    \A t \in started : containers[t] = {} /\ api[t] = {}

\* A command that returns Ok ran each selected lane to its completion marker,
\* saw no interrupt and wrote the report of exactly these lanes.
OkCoversLanes ==
  pc = "done" /\ ~failures =>
    /\ ~interrupted
    /\ report = lanes /\ Complete = lanes

\* While a runner is at work the other topology, which would answer on the same
\* host ports, is down (unless `docker ps` had failed in the check), and a routed
\* runner has stack, fixture service and API records in place until it is reaped.
RunnerEnvironment ==
  /\ pc \in {"direct", "routed"} /\ busy /\ topology \notin unchecked =>
       containers[Other(topology)] = {}
  /\ pc = "routed" /\ busy =>
       containers[topology] = Service /\ api[topology] = ApiResource

\* The comparison report never covers a lane with missing or partial artifacts
\* and is never written once the interrupt has been seen.
ReportSound == report # {} => report = Complete /\ ~interrupted

\* What one lane finished, the rest of the run leaves alone: no later phase or
\* topology starts a lane again or reuses its artifact directory.
CompletedLaneKept ==
  [][\A l \in Lane : pc # "preflight" /\ artifact[l] = "complete"
                       => artifact'[l] = "complete"]_vars

\* Between seeing Ctrl-C and returning, the workflow starts nothing more: no
\* container, no record, no further topology.
InterruptOnlyUnwinds ==
  [][interrupted => /\ topology' = topology /\ started' = started
                    /\ \A t \in Topology : /\ containers'[t] \subseteq containers[t]
                                           /\ api'[t] \subseteq api[t]]_vars

\* Every Ctrl-C ends the command, even in the middle of an official runner that
\* would never exit, and however far the workflow is from its next poll.
InterruptEnds == signal = "pending" ~> pc \in Stopped

\* README.md:247,256: the command "always" removes stacks.
\* Ctrl-C in the first `stack up` kills the process with its stack running.
AlwaysRemovesStacks ==
  pc = "killed" => \A t \in started : containers[t] = {}

=============================================================================
