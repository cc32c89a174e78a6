------------------------ MODULE ConformanceRunProofs ------------------------
(***************************************************************************)
(* Proofs about ConformanceRun for every set of admin-API records.  The    *)
(* inductive invariant is the conjunction of TypeOK and five parts, each   *)
(* proved from the ones before it.  At the end, proofs about RoutedLane,   *)
(* the run's routed step in detail.                                        *)
(***************************************************************************)
EXTENDS ConformanceRun, RoutedLane, TLAPS

InLoop == BringUp \cup Work \cup Unwind

\* Where Ctrl-C is known: a delivered interrupt is in `interrupted` or about to
\* be noted; a noted interrupt leads to the cleanup and never to a new phase.
InterruptFlow ==
  /\ pc # "panicked"
  /\ busy => pc \in Polled
  /\ cancelled => interrupted
  /\ interrupted => signal = "consumed"
  /\ interrupted /\ busy => cancelled
  /\ signal = "consumed" =>
       interrupted \/ (busy /\ pc \in {"start_service", "provision"})
  /\ interrupted => \/ busy /\ pc \in {"direct", "routed"}
                    \/ topologyFailed /\ pc \in Unwind
                    \/ failures /\ pc = "done"

\* What the phases of one iteration may rely on.
PhaseFacts ==
  /\ pc \in {"preflight"} \cup BringUp \cup Work => ~topologyFailed
  /\ pc \in {"preflight"} \cup BringUp => ~fixtureHeld /\ ~serviceStarted
  /\ pc \in {"start_service", "endpoint", "direct"} => ~fixtureHeld
  /\ pc \in {"compose_up", "ready"} \cup Work /\ topology \notin unchecked =>
       containers[Other(topology)] = {}
  /\ pc \in {"ready", "start_service"} => "base" \in containers[topology]
  /\ pc \in Work \ {"start_service"} => containers[topology] = Service
  /\ pc \in {"snapshot", "routed"} => /\ api[topology] = ApiResource
                                      /\ fixtureHeld
                                      /\ topology \in lanes
  /\ pc = "provision" /\ busy => topology \in lanes
  /\ pc = "direct" /\ busy => "fixture" \in lanes

Clean(t) == containers[t] = {} /\ api[t] = {}

\* Who still has to remove what.
Ownership ==
  /\ pc = "preflight" => started = {}
  /\ pc \in InLoop => topology \notin remaining
  /\ started \cap remaining = {}
  /\ pc \in {"prepare", "reset", "exclusive", "compose_up"} => topology \notin started
  /\ pc \in InLoop => \A t \in started : t # topology => failures \/ Clean(t)
  /\ pc \in {"exclusive", "compose_up", "ready", "api_cleanup"} \cup Work =>
       topologyFailed \/ fixtureHeld \/ api[topology] = {}
  /\ pc \in {"service_cleanup", "stack_cleanup"} =>
       topologyFailed \/ api[topology] = {}
  /\ pc = "record" => topologyFailed \/ Clean(topology)
  /\ pc \in {"report", "done"} => failures \/ \A t \in started : Clean(t)

\* Which lanes are complete when no failure was recorded.
Coverage ==
  /\ pc = "preflight" => remaining = Topologies(lanes) /\ ~directComplete
  /\ pc \in {"preflight", "report"} \cup InLoop => report = {}
  /\ pc \in InLoop \cup {"report"} =>
       \A l \in Lane : artifact[l] # "none" => l \in lanes
  /\ pc \in InLoop => \A t \in Topology \cap lanes :
       t \in remaining \/ t = topology \/ failures \/ artifact[t] = "complete"
  /\ pc \in {"provision", "snapshot", "routed"} /\ "fixture" \in lanes =>
       directComplete
  /\ directComplete /\ ~interrupted => failures \/ artifact["fixture"] = "complete"
  /\ pc \in Unwind /\ ~topologyFailed =>
       /\ "fixture" \in lanes => directComplete
       /\ topology \in lanes => artifact[topology] = "complete"
  /\ pc = "report" => /\ ~interrupted
                      /\ failures \/ lanes \subseteq Complete
  /\ pc = "done" /\ ~failures => report = lanes /\ Complete = lanes
  /\ report # {} => report = Complete /\ ~interrupted

\* A lane's artifacts are begun once: nothing is there when its phase begins.
LaneOnce ==
  /\ pc \in InLoop => \A t \in remaining : artifact[t] = "none"
  /\ pc \in BringUp \cup (Work \ {"routed"}) => artifact[topology] = "none"
  /\ pc = "routed" => artifact[topology] = IF busy THEN "incomplete" ELSE "none"
  /\ pc \in InLoop /\ ~directComplete =>
       artifact["fixture"] = IF pc = "direct" /\ busy THEN "incomplete" ELSE "none"
  /\ pc = "direct" /\ busy => ~directComplete

IInv == TypeOK /\ InterruptFlow /\ PhaseFacts /\ Ownership /\ Coverage /\ LaneOnce

-----------------------------------------------------------------------------
USE DEF Topology, Lane, Service, BringUp, Polled, Work, Unwind, Stopped, InLoop

LEMMA FirstIn ==
  ASSUME NEW ts \in SUBSET Topology, ts # {}
  PROVE  First(ts) \in ts
  BY DEF First

-----------------------------------------------------------------------------
\* Type correctness.

LEMMA FlowTypesStep == TypeOK /\ [Next]_vars => FlowTypes'
<1> SUFFICES ASSUME TypeOK, [Next]_vars PROVE FlowTypes'
  OBVIOUS
<1> USE DEF TypeOK, First, Complete, FlowTypes, WorldTypes, FlagTypes
<1>1. CASE PreflightFails
  BY <1>1 DEF PreflightFails, lanesV, local, intr
<1>2. CASE Preflight
  BY <1>2 DEF Preflight, lanesV, local, global, intr
<1>3. CASE BringUpStack
  BY <1>3 DEF BringUpStack, Prepare, FailTopology, lanesV, global, world,
    intr, Reset, Exclusive, ComposeUp, Ready
<1>4. CASE StartService
  BY <1>4 DEF StartService, StartServiceFailsEarly, FailTopology, lanesV,
    global, world, intr, BeginStartService, StartAwait, local,
      FinishStartService, NoteInterrupt
<1>5. CASE Endpoint
  BY <1>5 DEF Endpoint, FailTopology, lanesV, global, world, intr
<1>6. CASE Direct
  BY <1>6 DEF Direct, SkipDirect, RunsDirect, lanesV, local, global, world,
    intr, DirectFailsEarly, BeginDirect, StartAwait, ReapDirect, FailTopology
<1>7. CASE Provision
  BY <1>7 DEF Provision, SkipRouted, lanesV, local, global, world, intr,
    ProvisionFailsEarly, FailTopology, BeginProvision, StartAwait,
      FinishProvision, NoteInterrupt
<1>8. CASE Snapshot
  BY <1>8 DEF Snapshot, FailTopology, lanesV, global, world, intr
<1>9. CASE Routed
  BY <1>9 DEF Routed, RoutedFailsEarly, FailTopology, lanesV, global, intr,
    BeginRouted, StartAwait, local, ReapRouted
<1>10. CASE CleanUp
  BY <1>10 DEF CleanUp, ApiCleanup, lanesV, global, intr, ServiceCleanup,
    StackCleanup, Record, local, world
<1>11. CASE Report
  BY <1>11 DEF Report, lanesV, local, world, intr
<1>12. CASE SeeInterrupt
  BY <1>12 DEF SeeInterrupt, lanesV, local, world
<1>13. CASE RunnerExits
  BY <1>13 DEF RunnerExits, FinishDirect, lanesV, local, intr, FinishRouted,
    global
<1>14. CASE CtrlC
  BY <1>14 DEF CtrlC, lanesV, local, global, world
<1>15. CASE UNCHANGED vars
  BY <1>15 DEF vars, lanesV, local, global, world, intr
<1> QED
  BY <1>1, <1>2, <1>3, <1>4, <1>5, <1>6, <1>7, <1>8, <1>9, <1>10, <1>11,
    <1>12, <1>13, <1>14, <1>15 DEF Next, Workflow

LEMMA WorldTypesStep == TypeOK /\ [Next]_vars => WorldTypes'
<1> SUFFICES ASSUME TypeOK, [Next]_vars PROVE WorldTypes'
  OBVIOUS
<1> USE DEF TypeOK, First, Complete, FlowTypes, WorldTypes, FlagTypes
<1>1. CASE PreflightFails
  BY <1>1 DEF PreflightFails, lanesV, local, intr
<1>2. CASE Preflight
  BY <1>2 DEF Preflight, lanesV, local, global, intr
<1>3. CASE BringUpStack
  <2>1. CASE Prepare
    BY <2>1 DEF Prepare, FailTopology, lanesV, global, world, intr
  <2>2. CASE Reset
    <3> USE <2>2 DEF Reset, FailTopology
    <3>1. artifact' = artifact
      OBVIOUS
    <3>2. /\ \E left \in SUBSET Service : containers' = [containers EXCEPT ![topology] = left]
          /\ \E kept \in SUBSET ApiResource : api' = [api EXCEPT ![topology] = kept]
      OBVIOUS
    <3> QED BY <3>1, <3>2
  <2>3. CASE Exclusive
    BY <2>3 DEF Exclusive, FailTopology, global, world, intr
  <2>4. CASE ComposeUp
    BY <2>4 DEF ComposeUp, FailTopology, global, intr
  <2>5. CASE Ready
    BY <2>5 DEF Ready, FailTopology, lanesV, global, world, intr
  <2> QED BY <1>3, <2>1, <2>2, <2>3, <2>4, <2>5 DEF BringUpStack
<1>4. CASE StartService
  BY <1>4 DEF StartService, StartServiceFailsEarly, FailTopology, lanesV,
    global, world, intr, BeginStartService, StartAwait, local,
      FinishStartService, NoteInterrupt
<1>5. CASE Endpoint
  BY <1>5 DEF Endpoint, FailTopology, lanesV, global, world, intr
<1>6. CASE Direct
  BY <1>6 DEF Direct, SkipDirect, RunsDirect, lanesV, local, global, world,
    intr, DirectFailsEarly, BeginDirect, StartAwait, ReapDirect, FailTopology
<1>7. CASE Provision
  BY <1>7 DEF Provision, SkipRouted, lanesV, local, global, world, intr,
    ProvisionFailsEarly, FailTopology, BeginProvision, StartAwait,
      FinishProvision, NoteInterrupt
<1>8. CASE Snapshot
  BY <1>8 DEF Snapshot, FailTopology, lanesV, global, world, intr
<1>9. CASE Routed
  BY <1>9 DEF Routed, RoutedFailsEarly, FailTopology, lanesV, global, intr,
    BeginRouted, StartAwait, local, ReapRouted
<1>10. CASE CleanUp
  <2>1. CASE ApiCleanup
    <3> USE <2>1 DEF ApiCleanup
    <3>1. artifact' = artifact /\ containers' = containers
      OBVIOUS
    <3>2. \/ api' = api
          \/ \E left \in SUBSET ApiResource : api' = [api EXCEPT ![topology] = left]
      OBVIOUS
    <3> QED BY <3>1, <3>2
  <2>2. CASE ServiceCleanup
    BY <2>2 DEF ServiceCleanup, lanesV, global, intr
  <2>3. CASE StackCleanup
    <3> USE <2>3 DEF StackCleanup
    <3>1. artifact' = artifact /\ api' = api
      OBVIOUS
    <3>2. \E left \in SUBSET Service : containers' = [containers EXCEPT ![topology] = left]
      OBVIOUS
    <3> QED BY <3>1, <3>2
  <2>4. CASE Record
    BY <2>4 DEF Record, lanesV, local, world
  <2> QED BY <1>10, <2>1, <2>2, <2>3, <2>4 DEF CleanUp
<1>11. CASE Report
  BY <1>11 DEF Report, lanesV, local, world, intr
<1>12. CASE SeeInterrupt
  BY <1>12 DEF SeeInterrupt, lanesV, local, world
<1>13. CASE RunnerExits
  BY <1>13 DEF RunnerExits, FinishDirect, lanesV, local, intr, FinishRouted,
    global
<1>14. CASE CtrlC
  BY <1>14 DEF CtrlC, lanesV, local, global, world
<1>15. CASE UNCHANGED vars
  BY <1>15 DEF vars, lanesV, local, global, world, intr
<1> QED
  BY <1>1, <1>2, <1>3, <1>4, <1>5, <1>6, <1>7, <1>8, <1>9, <1>10, <1>11,
    <1>12, <1>13, <1>14, <1>15 DEF Next, Workflow

LEMMA FlagTypesStep == TypeOK /\ [Next]_vars => FlagTypes'
<1> SUFFICES ASSUME TypeOK, [Next]_vars PROVE FlagTypes'
  OBVIOUS
<1> USE DEF TypeOK, First, Complete, FlowTypes, WorldTypes, FlagTypes
<1>1. CASE PreflightFails
  BY <1>1 DEF PreflightFails, lanesV, local, intr
<1>2. CASE Preflight
  BY <1>2 DEF Preflight, lanesV, local, global, intr
<1>3. CASE BringUpStack
  BY <1>3 DEF BringUpStack, Prepare, FailTopology, lanesV, global, world,
    intr, Reset, Exclusive, ComposeUp, Ready
<1>4. CASE StartService
  BY <1>4 DEF StartService, StartServiceFailsEarly, FailTopology, lanesV,
    global, world, intr, BeginStartService, StartAwait, local,
      FinishStartService, NoteInterrupt
<1>5. CASE Endpoint
  BY <1>5 DEF Endpoint, FailTopology, lanesV, global, world, intr
<1>6. CASE Direct
  BY <1>6 DEF Direct, SkipDirect, RunsDirect, lanesV, local, global, world,
    intr, DirectFailsEarly, BeginDirect, StartAwait, ReapDirect, FailTopology
<1>7. CASE Provision
  BY <1>7 DEF Provision, SkipRouted, lanesV, local, global, world, intr,
    ProvisionFailsEarly, FailTopology, BeginProvision, StartAwait,
      FinishProvision, NoteInterrupt
<1>8. CASE Snapshot
  BY <1>8 DEF Snapshot, FailTopology, lanesV, global, world, intr
<1>9. CASE Routed
  BY <1>9 DEF Routed, RoutedFailsEarly, FailTopology, lanesV, global, intr,
    BeginRouted, StartAwait, local, ReapRouted
<1>10. CASE CleanUp
  BY <1>10 DEF CleanUp, ApiCleanup, lanesV, global, intr, ServiceCleanup,
    StackCleanup, Record, local, world
<1>11. CASE Report
  BY <1>11 DEF Report, lanesV, local, world, intr
<1>12. CASE SeeInterrupt
  BY <1>12 DEF SeeInterrupt, lanesV, local, world
<1>13. CASE RunnerExits
  BY <1>13 DEF RunnerExits, FinishDirect, lanesV, local, intr, FinishRouted,
    global
<1>14. CASE CtrlC
  BY <1>14 DEF CtrlC, lanesV, local, global, world
<1>15. CASE UNCHANGED vars
  BY <1>15 DEF vars, lanesV, local, global, world, intr
<1> QED
  BY <1>1, <1>2, <1>3, <1>4, <1>5, <1>6, <1>7, <1>8, <1>9, <1>10, <1>11,
    <1>12, <1>13, <1>14, <1>15 DEF Next, Workflow

LEMMA TypeInit == Init => TypeOK
  BY DEF Init, TypeOK, FlowTypes, WorldTypes, FlagTypes, Topologies, First

\* Every variable stays in its type, whichever command fails and whenever Ctrl-C
\* arrives.
THEOREM TypeCorrect == Spec => []TypeOK
<1>1. TypeOK /\ [Next]_vars => TypeOK'
  BY FlowTypesStep, WorldTypesStep, FlagTypesStep DEF TypeOK
<1> QED BY <1>1, TypeInit, PTL DEF Spec

-----------------------------------------------------------------------------
\* The five parts of the inductive invariant, one step per action.

LEMMA InterruptFlowStep ==
  TypeOK /\ InterruptFlow /\ [Next]_vars
    => InterruptFlow'
<1> SUFFICES ASSUME TypeOK, InterruptFlow, [Next]_vars
             PROVE  InterruptFlow'
  OBVIOUS
<1> USE DEF TypeOK, FlowTypes, WorldTypes, FlagTypes, First, Other,
  InterruptFlow
<1>1. CASE PreflightFails
  BY <1>1 DEF PreflightFails, lanesV, local, intr
<1>2. CASE Preflight
  BY <1>2 DEF Preflight, lanesV, local, global, intr
<1>3. CASE BringUpStack
  <2>1. CASE Prepare
    BY <2>1 DEF Prepare, FailTopology, lanesV, global, world, intr
  <2>2. CASE Reset
    BY <2>2 DEF Reset, FailTopology, lanesV, global, intr
  <2>3. CASE Exclusive
    BY <2>3 DEF Exclusive, FailTopology, global, world, intr
  <2>4. CASE ComposeUp
    BY <2>4 DEF ComposeUp, FailTopology, global, intr
  <2>5. CASE Ready
    BY <2>5 DEF Ready, FailTopology, lanesV, global, world, intr
  <2> QED BY <1>3, <2>1, <2>2, <2>3, <2>4, <2>5 DEF BringUpStack
<1>4. CASE StartService
  <2>1. CASE StartServiceFailsEarly
    BY <2>1 DEF StartServiceFailsEarly, FailTopology, lanesV, global, world,
      intr
  <2>2. CASE BeginStartService
    BY <2>2 DEF BeginStartService, StartAwait, lanesV, local, global, world
  <2>3. CASE FinishStartService
    BY <2>3 DEF FinishStartService, NoteInterrupt, FailTopology, lanesV, intr
  <2> QED BY <1>4, <2>1, <2>2, <2>3 DEF StartService
<1>5. CASE Endpoint
  BY <1>5 DEF Endpoint, FailTopology, lanesV, global, world, intr
<1>6. CASE Direct
  <2>1. CASE SkipDirect
    BY <2>1 DEF SkipDirect, RunsDirect, lanesV, local, global, world, intr
  <2>2. CASE DirectFailsEarly
    BY <2>2 DEF DirectFailsEarly, RunsDirect, lanesV, local, intr
  <2>3. CASE BeginDirect
    BY <2>3 DEF BeginDirect, StartAwait, RunsDirect, lanesV, local, global
  <2>4. CASE ReapDirect
    BY <2>4 DEF ReapDirect, FailTopology, lanesV, intr
  <2> QED BY <1>6, <2>1, <2>2, <2>3, <2>4 DEF Direct
<1>7. CASE Provision
  <2>1. CASE SkipRouted
    BY <2>1 DEF SkipRouted, lanesV, local, global, world, intr
  <2>2. CASE ProvisionFailsEarly
    BY <2>2 DEF ProvisionFailsEarly, FailTopology, lanesV, global, world, intr
  <2>3. CASE BeginProvision
    BY <2>3 DEF BeginProvision, StartAwait, lanesV, local, global, world
  <2>4. CASE FinishProvision
    BY <2>4 DEF FinishProvision, NoteInterrupt, FailTopology, lanesV, intr
  <2> QED BY <1>7, <2>1, <2>2, <2>3, <2>4 DEF Provision
<1>8. CASE Snapshot
  BY <1>8 DEF Snapshot, FailTopology, lanesV, global, world, intr
<1>9. CASE Routed
  <2>1. CASE RoutedFailsEarly
    BY <2>1 DEF RoutedFailsEarly, FailTopology, lanesV, global, intr
  <2>2. CASE BeginRouted
    BY <2>2 DEF BeginRouted, StartAwait, lanesV, local, global
  <2>3. CASE ReapRouted
    BY <2>3 DEF ReapRouted, FailTopology, lanesV, global, intr
  <2> QED BY <1>9, <2>1, <2>2, <2>3 DEF Routed
<1>10. CASE CleanUp
  <2>1. CASE ApiCleanup
    BY <2>1 DEF ApiCleanup, lanesV, global, intr
  <2>2. CASE ServiceCleanup
    BY <2>2 DEF ServiceCleanup, lanesV, global, intr
  <2>3. CASE StackCleanup
    BY <2>3 DEF StackCleanup, lanesV, global, intr
  <2>4. CASE Record
    BY <2>4 DEF Record, lanesV, local, world
  <2> QED BY <1>10, <2>1, <2>2, <2>3, <2>4 DEF CleanUp
<1>11. CASE Report
  BY <1>11 DEF Report, lanesV, local, world, intr
<1>12. CASE SeeInterrupt
  BY <1>12 DEF SeeInterrupt, lanesV, local, world
<1>13. CASE RunnerExits
  <2>1. CASE FinishDirect
    BY <2>1 DEF FinishDirect, lanesV, local, intr
  <2>2. CASE FinishRouted
    BY <2>2 DEF FinishRouted, lanesV, global, intr
  <2> QED BY <1>13, <2>1, <2>2 DEF RunnerExits
<1>14. CASE CtrlC
  BY <1>14 DEF CtrlC, lanesV, local, global, world
<1>15. CASE UNCHANGED vars
  BY <1>15 DEF vars, lanesV, local, global, world, intr
<1> QED
  BY <1>1, <1>2, <1>3, <1>4, <1>5, <1>6, <1>7, <1>8, <1>9, <1>10, <1>11,
    <1>12, <1>13, <1>14, <1>15 DEF Next, Workflow

LEMMA PhaseFactsStep ==
  TypeOK /\ InterruptFlow /\ PhaseFacts /\ [Next]_vars
    => PhaseFacts'
<1> SUFFICES ASSUME TypeOK, InterruptFlow, PhaseFacts, [Next]_vars
             PROVE  PhaseFacts'
  OBVIOUS
<1> USE DEF TypeOK, FlowTypes, WorldTypes, FlagTypes, First, Other,
  InterruptFlow, PhaseFacts
<1>1. CASE PreflightFails
  BY <1>1 DEF PreflightFails, lanesV, local, intr
<1>2. CASE Preflight
  BY <1>2 DEF Preflight, lanesV, local, global, intr
<1>3. CASE BringUpStack
  <2>1. CASE Prepare
    BY <2>1 DEF Prepare, FailTopology, lanesV, global, world, intr
  <2>2. CASE Reset
    BY <2>2 DEF Reset, FailTopology, lanesV, global, intr
  <2>3. CASE Exclusive
    BY <2>3 DEF Exclusive, FailTopology, global, world, intr
  <2>4. CASE ComposeUp
    BY <2>4 DEF ComposeUp, FailTopology, global, intr
  <2>5. CASE Ready
    BY <2>5 DEF Ready, FailTopology, lanesV, global, world, intr
  <2> QED BY <1>3, <2>1, <2>2, <2>3, <2>4, <2>5 DEF BringUpStack
<1>4. CASE StartService
  <2>1. CASE StartServiceFailsEarly
    BY <2>1 DEF StartServiceFailsEarly, FailTopology, lanesV, global, world,
      intr
  <2>2. CASE BeginStartService
    BY <2>2 DEF BeginStartService, StartAwait, lanesV, local, global, world
  <2>3. CASE FinishStartService
    BY <2>3 DEF FinishStartService, NoteInterrupt, FailTopology, lanesV, intr
  <2> QED BY <1>4, <2>1, <2>2, <2>3 DEF StartService
<1>5. CASE Endpoint
  BY <1>5 DEF Endpoint, FailTopology, lanesV, global, world, intr
<1>6. CASE Direct
  <2>1. CASE SkipDirect
    BY <2>1 DEF SkipDirect, RunsDirect, lanesV, local, global, world, intr
  <2>2. CASE DirectFailsEarly
    BY <2>2 DEF DirectFailsEarly, RunsDirect, lanesV, local, intr
  <2>3. CASE BeginDirect
    BY <2>3 DEF BeginDirect, StartAwait, RunsDirect, lanesV, local, global
  <2>4. CASE ReapDirect
    BY <2>4 DEF ReapDirect, FailTopology, lanesV, intr
  <2> QED BY <1>6, <2>1, <2>2, <2>3, <2>4 DEF Direct
<1>7. CASE Provision
  <2>1. CASE SkipRouted
    BY <2>1 DEF SkipRouted, lanesV, local, global, world, intr
  <2>2. CASE ProvisionFailsEarly
    BY <2>2 DEF ProvisionFailsEarly, FailTopology, lanesV, global, world, intr
  <2>3. CASE BeginProvision
    BY <2>3 DEF BeginProvision, StartAwait, lanesV, local, global, world
  <2>4. CASE FinishProvision
    BY <2>4 DEF FinishProvision, NoteInterrupt, FailTopology, lanesV, intr
  <2> QED BY <1>7, <2>1, <2>2, <2>3, <2>4 DEF Provision
<1>8. CASE Snapshot
  BY <1>8 DEF Snapshot, FailTopology, lanesV, global, world, intr
<1>9. CASE Routed
  <2>1. CASE RoutedFailsEarly
    BY <2>1 DEF RoutedFailsEarly, FailTopology, lanesV, global, intr
  <2>2. CASE BeginRouted
    BY <2>2 DEF BeginRouted, StartAwait, lanesV, local, global
  <2>3. CASE ReapRouted
    BY <2>3 DEF ReapRouted, FailTopology, lanesV, global, intr
  <2> QED BY <1>9, <2>1, <2>2, <2>3 DEF Routed
<1>10. CASE CleanUp
  <2>1. CASE ApiCleanup
    BY <2>1 DEF ApiCleanup, lanesV, global, intr
  <2>2. CASE ServiceCleanup
    BY <2>2 DEF ServiceCleanup, lanesV, global, intr
  <2>3. CASE StackCleanup
    BY <2>3 DEF StackCleanup, lanesV, global, intr
  <2>4. CASE Record
    BY <2>4 DEF Record, lanesV, local, world
  <2> QED BY <1>10, <2>1, <2>2, <2>3, <2>4 DEF CleanUp
<1>11. CASE Report
  BY <1>11 DEF Report, lanesV, local, world, intr
<1>12. CASE SeeInterrupt
  BY <1>12 DEF SeeInterrupt, lanesV, local, world
<1>13. CASE RunnerExits
  <2>1. CASE FinishDirect
    BY <2>1 DEF FinishDirect, lanesV, local, intr
  <2>2. CASE FinishRouted
    BY <2>2 DEF FinishRouted, lanesV, global, intr
  <2> QED BY <1>13, <2>1, <2>2 DEF RunnerExits
<1>14. CASE CtrlC
  BY <1>14 DEF CtrlC, lanesV, local, global, world
<1>15. CASE UNCHANGED vars
  BY <1>15 DEF vars, lanesV, local, global, world, intr
<1> QED
  BY <1>1, <1>2, <1>3, <1>4, <1>5, <1>6, <1>7, <1>8, <1>9, <1>10, <1>11,
    <1>12, <1>13, <1>14, <1>15 DEF Next, Workflow

LEMMA OwnershipStep ==
  TypeOK /\ InterruptFlow /\ PhaseFacts /\ Ownership /\ [Next]_vars
    => Ownership'
<1> SUFFICES ASSUME TypeOK, InterruptFlow, PhaseFacts, Ownership, [Next]_vars
             PROVE  Ownership'
  OBVIOUS
<1> USE DEF TypeOK, FlowTypes, WorldTypes, FlagTypes, First, Other, Clean,
  InterruptFlow, PhaseFacts, Ownership
<1>1. CASE PreflightFails
  BY <1>1 DEF PreflightFails, lanesV, local, intr
<1>2. CASE Preflight
  BY <1>2 DEF Preflight, lanesV, local, global, intr
<1>3. CASE BringUpStack
  <2>1. CASE Prepare
    BY <2>1 DEF Prepare, FailTopology, lanesV, global, world, intr
  <2>2. CASE Reset
    BY <2>2 DEF Reset, FailTopology, lanesV, global, intr
  <2>3. CASE Exclusive
    BY <2>3 DEF Exclusive, FailTopology, global, world, intr
  <2>4. CASE ComposeUp
    BY <2>4 DEF ComposeUp, FailTopology, global, intr
  <2>5. CASE Ready
    BY <2>5 DEF Ready, FailTopology, lanesV, global, world, intr
  <2> QED BY <1>3, <2>1, <2>2, <2>3, <2>4, <2>5 DEF BringUpStack
<1>4. CASE StartService
  <2>1. CASE StartServiceFailsEarly
    BY <2>1 DEF StartServiceFailsEarly, FailTopology, lanesV, global, world,
      intr
  <2>2. CASE BeginStartService
    BY <2>2 DEF BeginStartService, StartAwait, lanesV, local, global, world
  <2>3. CASE FinishStartService
    BY <2>3 DEF FinishStartService, NoteInterrupt, FailTopology, lanesV, intr
  <2> QED BY <1>4, <2>1, <2>2, <2>3 DEF StartService
<1>5. CASE Endpoint
  BY <1>5 DEF Endpoint, FailTopology, lanesV, global, world, intr
<1>6. CASE Direct
  <2>1. CASE SkipDirect
    BY <2>1 DEF SkipDirect, RunsDirect, lanesV, local, global, world, intr
  <2>2. CASE DirectFailsEarly
    BY <2>2 DEF DirectFailsEarly, RunsDirect, lanesV, local, intr
  <2>3. CASE BeginDirect
    BY <2>3 DEF BeginDirect, StartAwait, RunsDirect, lanesV, local, global
  <2>4. CASE ReapDirect
    BY <2>4 DEF ReapDirect, FailTopology, lanesV, intr
  <2> QED BY <1>6, <2>1, <2>2, <2>3, <2>4 DEF Direct
<1>7. CASE Provision
  <2>1. CASE SkipRouted
    BY <2>1 DEF SkipRouted, lanesV, local, global, world, intr
  <2>2. CASE ProvisionFailsEarly
    BY <2>2 DEF ProvisionFailsEarly, FailTopology, lanesV, global, world, intr
  <2>3. CASE BeginProvision
    BY <2>3 DEF BeginProvision, StartAwait, lanesV, local, global, world
  <2>4. CASE FinishProvision
    BY <2>4 DEF FinishProvision, NoteInterrupt, FailTopology, lanesV, intr
  <2> QED BY <1>7, <2>1, <2>2, <2>3, <2>4 DEF Provision
<1>8. CASE Snapshot
  BY <1>8 DEF Snapshot, FailTopology, lanesV, global, world, intr
<1>9. CASE Routed
  <2>1. CASE RoutedFailsEarly
    BY <2>1 DEF RoutedFailsEarly, FailTopology, lanesV, global, intr
  <2>2. CASE BeginRouted
    BY <2>2 DEF BeginRouted, StartAwait, lanesV, local, global
  <2>3. CASE ReapRouted
    BY <2>3 DEF ReapRouted, FailTopology, lanesV, global, intr
  <2> QED BY <1>9, <2>1, <2>2, <2>3 DEF Routed
<1>10. CASE CleanUp
  <2>1. CASE ApiCleanup
    BY <2>1 DEF ApiCleanup, lanesV, global, intr
  <2>2. CASE ServiceCleanup
    BY <2>2 DEF ServiceCleanup, lanesV, global, intr
  <2>3. CASE StackCleanup
    BY <2>3 DEF StackCleanup, lanesV, global, intr
  <2>4. CASE Record
    <3>1. CASE interrupted
      BY <2>4, <3>1 DEF Record, lanesV, local, world
    <3>2. CASE ~interrupted /\ remaining = {}
      BY <2>4, <3>2 DEF Record, lanesV, local, world
    <3>3. CASE ~interrupted /\ remaining # {}
      <4> USE <2>4 DEF Record, lanesV, local, world
      <4>1. /\ topology' = First(remaining)
            /\ remaining' = remaining \ {First(remaining)}
            /\ First(remaining) \in remaining
        BY <3>3, FirstIn
      <4>2. \A t \in started' : failures' \/ Clean(t)'
        BY <3>3
      <4>3. pc' = "prepare" /\ started' = started /\ topology' \notin started'
        BY <3>3, <4>1
      <4> QED BY <4>1, <4>2, <4>3
    <3> QED BY <3>1, <3>2, <3>3
  <2> QED BY <1>10, <2>1, <2>2, <2>3, <2>4 DEF CleanUp
<1>11. CASE Report
  BY <1>11 DEF Report, lanesV, local, world, intr
<1>12. CASE SeeInterrupt
  BY <1>12 DEF SeeInterrupt, lanesV, local, world
<1>13. CASE RunnerExits
  <2>1. CASE FinishDirect
    <3>1. failures => failures'
      BY <2>1 DEF FinishDirect
    <3>2. pc' = "provision"
      BY <2>1 DEF FinishDirect
    <3>3. UNCHANGED <<lanesV, topology, remaining, containers, api, local>>
      BY <2>1 DEF FinishDirect
    <3> QED BY <2>1, <3>1, <3>2, <3>3 DEF FinishDirect, lanesV, local
  <2>2. CASE FinishRouted
    BY <2>2 DEF FinishRouted, lanesV, global, intr
  <2> QED BY <1>13, <2>1, <2>2 DEF RunnerExits
<1>14. CASE CtrlC
  BY <1>14 DEF CtrlC, lanesV, local, global, world
<1>15. CASE UNCHANGED vars
  BY <1>15 DEF vars, lanesV, local, global, world, intr
<1> QED
  BY <1>1, <1>2, <1>3, <1>4, <1>5, <1>6, <1>7, <1>8, <1>9, <1>10, <1>11,
    <1>12, <1>13, <1>14, <1>15 DEF Next, Workflow

LEMMA CoverageStep ==
  TypeOK /\ InterruptFlow /\ PhaseFacts /\ Ownership /\ Coverage /\ [Next]_vars
    => Coverage'
<1> SUFFICES ASSUME TypeOK, InterruptFlow, PhaseFacts, Ownership, Coverage, [Next]_vars
             PROVE  Coverage'
  OBVIOUS
<1> USE DEF TypeOK, FlowTypes, WorldTypes, FlagTypes, First, Other, Clean,
  Complete, Topologies, InterruptFlow, PhaseFacts, Ownership, Coverage
<1>1. CASE PreflightFails
  BY <1>1 DEF PreflightFails, lanesV, local, intr
<1>2. CASE Preflight
  <2> USE <1>2 DEF Preflight, lanesV, local, global, intr
  <2>1. \A t \in Topology \cap lanes : t \in remaining
    OBVIOUS
  <2>2. \A t \in Topology \cap lanes' : t \in remaining' \/ t = topology'
    BY <2>1
  <2>3. pc' = "prepare" /\ \A l \in Lane : artifact'[l] = "none"
    OBVIOUS
  <2> QED BY <2>2, <2>3
<1>3. CASE BringUpStack
  <2>1. CASE Prepare
    BY <2>1 DEF Prepare, FailTopology, lanesV, global, world, intr
  <2>2. CASE Reset
    BY <2>2 DEF Reset, FailTopology, lanesV, global, intr
  <2>3. CASE Exclusive
    BY <2>3 DEF Exclusive, FailTopology, global, world, intr
  <2>4. CASE ComposeUp
    BY <2>4 DEF ComposeUp, FailTopology, global, intr
  <2>5. CASE Ready
    BY <2>5 DEF Ready, FailTopology, lanesV, global, world, intr
  <2> QED BY <1>3, <2>1, <2>2, <2>3, <2>4, <2>5 DEF BringUpStack
<1>4. CASE StartService
  <2>1. CASE StartServiceFailsEarly
    BY <2>1 DEF StartServiceFailsEarly, FailTopology, lanesV, global, world,
      intr
  <2>2. CASE BeginStartService
    BY <2>2 DEF BeginStartService, StartAwait, lanesV, local, global, world
  <2>3. CASE FinishStartService
    BY <2>3 DEF FinishStartService, NoteInterrupt, FailTopology, lanesV, intr
  <2> QED BY <1>4, <2>1, <2>2, <2>3 DEF StartService
<1>5. CASE Endpoint
  BY <1>5 DEF Endpoint, FailTopology, lanesV, global, world, intr
<1>6. CASE Direct
  <2>1. CASE SkipDirect
    BY <2>1 DEF SkipDirect, RunsDirect, lanesV, local, global, world, intr
  <2>2. CASE DirectFailsEarly
    BY <2>2 DEF DirectFailsEarly, RunsDirect, lanesV, local, intr
  <2>3. CASE BeginDirect
    BY <2>3 DEF BeginDirect, StartAwait, RunsDirect, lanesV, local, global
  <2>4. CASE ReapDirect
    <3> USE <2>4 DEF ReapDirect, FailTopology, lanesV
    <3>1. \A t \in Topology : artifact'[t] = artifact[t]
      OBVIOUS
    <3>2. /\ pc' = "api_cleanup" /\ topologyFailed' /\ interrupted' /\ report = {}
          /\ UNCHANGED <<lanes, topology, remaining, report, failures>>
      OBVIOUS
    <3>3. \A l \in Lane : artifact'[l] # "none" => l \in lanes
      OBVIOUS
    <3> QED BY <3>1, <3>2, <3>3
  <2> QED BY <1>6, <2>1, <2>2, <2>3, <2>4 DEF Direct
<1>7. CASE Provision
  <2>1. CASE SkipRouted
    BY <2>1 DEF SkipRouted, lanesV, local, global, world, intr
  <2>2. CASE ProvisionFailsEarly
    BY <2>2 DEF ProvisionFailsEarly, FailTopology, lanesV, global, world, intr
  <2>3. CASE BeginProvision
    BY <2>3 DEF BeginProvision, StartAwait, lanesV, local, global, world
  <2>4. CASE FinishProvision
    BY <2>4 DEF FinishProvision, NoteInterrupt, FailTopology, lanesV, intr
  <2> QED BY <1>7, <2>1, <2>2, <2>3, <2>4 DEF Provision
<1>8. CASE Snapshot
  BY <1>8 DEF Snapshot, FailTopology, lanesV, global, world, intr
<1>9. CASE Routed
  <2>1. CASE RoutedFailsEarly
    BY <2>1 DEF RoutedFailsEarly, FailTopology, lanesV, global, intr
  <2>2. CASE BeginRouted
    BY <2>2 DEF BeginRouted, StartAwait, lanesV, local, global
  <2>3. CASE ReapRouted
    BY <2>3 DEF ReapRouted, FailTopology, lanesV, global, intr
  <2> QED BY <1>9, <2>1, <2>2, <2>3 DEF Routed
<1>10. CASE CleanUp
  <2>1. CASE ApiCleanup
    BY <2>1 DEF ApiCleanup, lanesV, global, intr
  <2>2. CASE ServiceCleanup
    BY <2>2 DEF ServiceCleanup, lanesV, global, intr
  <2>3. CASE StackCleanup
    BY <2>3 DEF StackCleanup, lanesV, global, intr
  <2>4. CASE Record
    BY <2>4 DEF Record, lanesV, local, world
  <2> QED BY <1>10, <2>1, <2>2, <2>3, <2>4 DEF CleanUp
<1>11. CASE Report
  <2> USE <1>11 DEF Report, lanesV, local, world
  <2>1. pc' = "done" /\ ~interrupted' /\ lanes' = lanes /\ Complete' = Complete
    OBVIOUS
  <2>2. Complete \subseteq lanes /\ (failures \/ lanes \subseteq Complete)
    OBVIOUS
  <2>3. ~failures' => report' = Complete /\ lanes = Complete
    BY <2>2
  <2>4. report' # {} => report' = Complete
    OBVIOUS
  <2> QED BY <2>1, <2>3, <2>4
<1>12. CASE SeeInterrupt
  BY <1>12 DEF SeeInterrupt, lanesV, local, world
<1>13. CASE RunnerExits
  <2>1. CASE FinishDirect
    <3>1. /\ pc = "direct" /\ busy /\ ~interrupted /\ "fixture" \in Lane
          /\ pc' = "provision" /\ directComplete' = TRUE
          /\ lanes' = lanes /\ topology' = topology /\ remaining' = remaining
          /\ report' = report /\ interrupted' = interrupted
      BY <2>1 DEF FinishDirect, lanesV
    <3>2. \/ artifact' = [artifact EXCEPT !["fixture"] = "complete"]
          \/ failures' /\ artifact' = artifact
      BY <2>1 DEF FinishDirect
    <3>3. failures => failures'
      BY <2>1 DEF FinishDirect
    <3>4. failures' \/ artifact'["fixture"] = "complete"
      BY <3>2
    <3>5. \A t \in Topology : artifact'[t] = artifact[t]
      BY <3>2
    <3>6. \A l \in Lane : artifact'[l] # "none" => l \in lanes
      BY <3>1, <3>2
    <3> QED BY <3>1, <3>3, <3>4, <3>5, <3>6
  <2>2. CASE FinishRouted
    BY <2>2 DEF FinishRouted, lanesV, global, intr
  <2> QED BY <1>13, <2>1, <2>2 DEF RunnerExits
<1>14. CASE CtrlC
  BY <1>14 DEF CtrlC, lanesV, local, global, world
<1>15. CASE UNCHANGED vars
  BY <1>15 DEF vars, lanesV, local, global, world, intr
<1> QED
  BY <1>1, <1>2, <1>3, <1>4, <1>5, <1>6, <1>7, <1>8, <1>9, <1>10, <1>11,
    <1>12, <1>13, <1>14, <1>15 DEF Next, Workflow

LEMMA LaneOnceStep ==
  TypeOK /\ InterruptFlow /\ PhaseFacts /\ Ownership /\ LaneOnce /\ [Next]_vars
    => LaneOnce'
<1> SUFFICES ASSUME TypeOK, InterruptFlow, PhaseFacts, Ownership, LaneOnce, [Next]_vars
             PROVE  LaneOnce'
  OBVIOUS
<1> USE DEF TypeOK, FlowTypes, WorldTypes, FlagTypes, First, Other,
  InterruptFlow, PhaseFacts, Ownership, LaneOnce
<1>1. CASE PreflightFails
  BY <1>1 DEF PreflightFails, lanesV, local, intr
<1>2. CASE Preflight
  BY <1>2 DEF Preflight, lanesV, local, global, intr
<1>3. CASE BringUpStack
  <2>1. CASE Prepare
    BY <2>1 DEF Prepare, FailTopology, lanesV, global, world, intr
  <2>2. CASE Reset
    BY <2>2 DEF Reset, FailTopology, lanesV, global, intr
  <2>3. CASE Exclusive
    BY <2>3 DEF Exclusive, FailTopology, global, world, intr
  <2>4. CASE ComposeUp
    BY <2>4 DEF ComposeUp, FailTopology, global, intr
  <2>5. CASE Ready
    BY <2>5 DEF Ready, FailTopology, lanesV, global, world, intr
  <2> QED BY <1>3, <2>1, <2>2, <2>3, <2>4, <2>5 DEF BringUpStack
<1>4. CASE StartService
  <2>1. CASE StartServiceFailsEarly
    BY <2>1 DEF StartServiceFailsEarly, FailTopology, lanesV, global, world,
      intr
  <2>2. CASE BeginStartService
    BY <2>2 DEF BeginStartService, StartAwait, lanesV, local, global, world
  <2>3. CASE FinishStartService
    BY <2>3 DEF FinishStartService, NoteInterrupt, FailTopology, lanesV, intr
  <2> QED BY <1>4, <2>1, <2>2, <2>3 DEF StartService
<1>5. CASE Endpoint
  BY <1>5 DEF Endpoint, FailTopology, lanesV, global, world, intr
<1>6. CASE Direct
  <2>1. CASE SkipDirect
    BY <2>1 DEF SkipDirect, RunsDirect, lanesV, local, global, world, intr
  <2>2. CASE DirectFailsEarly
    BY <2>2 DEF DirectFailsEarly, RunsDirect, lanesV, local, intr
  <2>3. CASE BeginDirect
    BY <2>3 DEF BeginDirect, StartAwait, RunsDirect, lanesV, local, global
  <2>4. CASE ReapDirect
    BY <2>4 DEF ReapDirect, FailTopology, lanesV, intr
  <2> QED BY <1>6, <2>1, <2>2, <2>3, <2>4 DEF Direct
<1>7. CASE Provision
  <2>1. CASE SkipRouted
    BY <2>1 DEF SkipRouted, lanesV, local, global, world, intr
  <2>2. CASE ProvisionFailsEarly
    BY <2>2 DEF ProvisionFailsEarly, FailTopology, lanesV, global, world, intr
  <2>3. CASE BeginProvision
    BY <2>3 DEF BeginProvision, StartAwait, lanesV, local, global, world
  <2>4. CASE FinishProvision
    BY <2>4 DEF FinishProvision, NoteInterrupt, FailTopology, lanesV, intr
  <2> QED BY <1>7, <2>1, <2>2, <2>3, <2>4 DEF Provision
<1>8. CASE Snapshot
  BY <1>8 DEF Snapshot, FailTopology, lanesV, global, world, intr
<1>9. CASE Routed
  <2>1. CASE RoutedFailsEarly
    BY <2>1 DEF RoutedFailsEarly, FailTopology, lanesV, global, intr
  <2>2. CASE BeginRouted
    BY <2>2 DEF BeginRouted, StartAwait, lanesV, local, global
  <2>3. CASE ReapRouted
    BY <2>3 DEF ReapRouted, FailTopology, lanesV, global, intr
  <2> QED BY <1>9, <2>1, <2>2, <2>3 DEF Routed
<1>10. CASE CleanUp
  <2>1. CASE ApiCleanup
    BY <2>1 DEF ApiCleanup, lanesV, global, intr
  <2>2. CASE ServiceCleanup
    BY <2>2 DEF ServiceCleanup, lanesV, global, intr
  <2>3. CASE StackCleanup
    BY <2>3 DEF StackCleanup, lanesV, global, intr
  <2>4. CASE Record
    <3>1. CASE interrupted
      BY <2>4, <3>1 DEF Record, lanesV, local, world
    <3>2. CASE ~interrupted /\ remaining = {}
      BY <2>4, <3>2 DEF Record, lanesV, local, world
    <3>3. CASE ~interrupted /\ remaining # {}
      <4> USE <2>4 DEF Record, lanesV, local, world
      <4>1. /\ topology' \in remaining /\ remaining' \subseteq remaining
            /\ topology' \in Topology
        BY <3>3, FirstIn
      <4>2. /\ pc' = "prepare" /\ artifact' = artifact
            /\ directComplete' = directComplete
        BY <3>3
      <4> QED BY <4>1, <4>2
    <3> QED BY <3>1, <3>2, <3>3
  <2> QED BY <1>10, <2>1, <2>2, <2>3, <2>4 DEF CleanUp
<1>11. CASE Report
  BY <1>11 DEF Report, lanesV, local, world, intr
<1>12. CASE SeeInterrupt
  BY <1>12 DEF SeeInterrupt, lanesV, local, world
<1>13. CASE RunnerExits
  <2>1. CASE FinishDirect
    <3>1. /\ pc = "direct" /\ pc' = "provision" /\ directComplete' = TRUE
          /\ remaining' = remaining /\ topology' = topology
      BY <2>1 DEF FinishDirect
    <3>2. \A t \in Topology : artifact'[t] = artifact[t]
      BY <2>1 DEF FinishDirect
    <3> QED BY <3>1, <3>2
  <2>2. CASE FinishRouted
    BY <2>2 DEF FinishRouted, lanesV, global, intr
  <2> QED BY <1>13, <2>1, <2>2 DEF RunnerExits
<1>14. CASE CtrlC
  BY <1>14 DEF CtrlC, lanesV, local, global, world
<1>15. CASE UNCHANGED vars
  BY <1>15 DEF vars, lanesV, local, global, world, intr
<1> QED
  BY <1>1, <1>2, <1>3, <1>4, <1>5, <1>6, <1>7, <1>8, <1>9, <1>10, <1>11,
    <1>12, <1>13, <1>14, <1>15 DEF Next, Workflow

-----------------------------------------------------------------------------
\* The invariant and what it implies.

LEMMA InvInit == Init => IInv
<1> SUFFICES ASSUME Init PROVE IInv
  OBVIOUS
<1>1. TypeOK
  BY TypeInit
<1>2. InterruptFlow /\ PhaseFacts /\ LaneOnce
  BY DEF Init, InterruptFlow, PhaseFacts, LaneOnce
<1>3. Ownership /\ Coverage
  BY DEF Init, Ownership, Coverage, Complete
<1> QED BY <1>1, <1>2, <1>3 DEF IInv

LEMMA InvStep == IInv /\ [Next]_vars => IInv'
<1> SUFFICES ASSUME IInv, [Next]_vars PROVE IInv'
  OBVIOUS
<1>1. TypeOK'
  BY FlowTypesStep, WorldTypesStep, FlagTypesStep DEF IInv, TypeOK
<1> QED BY <1>1, InterruptFlowStep, PhaseFactsStep, OwnershipStep, CoverageStep,
           LaneOnceStep DEF IInv

\* The inductive invariant of the conformance workflow.
THEOREM Invariance == Spec => []IInv
  BY InvInit, InvStep, PTL DEF Spec

\* The interrupt future is never polled after it has delivered Ctrl-C.
THEOREM NoPanic == Spec => []NotPolledAfterCompletion
<1>1. IInv => NotPolledAfterCompletion
  BY DEF IInv, InterruptFlow, NotPolledAfterCompletion
<1> QED BY <1>1, Invariance, PTL

\* A run that returns Ok has taken down every stack it started and removed every
\* record it provisioned.
THEOREM OkRunLeavesNothing == Spec => []OkLeavesNothing
<1>1. IInv => OkLeavesNothing
  BY DEF IInv, Ownership, Clean, OkLeavesNothing
<1> QED BY <1>1, Invariance, PTL

\* A run that returns Ok completed and reported exactly the selected lanes.
THEOREM OkRunCoversLanes == Spec => []OkCoversLanes
<1>1. IInv => OkCoversLanes
  BY DEF IInv, Coverage, InterruptFlow, OkCoversLanes, TypeOK, FlagTypes
<1> QED BY <1>1, Invariance, PTL

\* While a runner works the other topology's stack is down, and a routed runner
\* works only on a complete stack with its fixture provisioned.
THEOREM RunnersHaveTheirStack == Spec => []RunnerEnvironment
<1>1. IInv => RunnerEnvironment
  BY DEF IInv, PhaseFacts, RunnerEnvironment
<1> QED BY <1>1, Invariance, PTL

\* A report covers only complete lanes and never follows an interrupt.
THEOREM ReportIsSound == Spec => []ReportSound
<1>1. IInv => ReportSound
  BY DEF IInv, Coverage, ReportSound
<1> QED BY <1>1, Invariance, PTL

\* A complete lane is neither run again nor overwritten by the rest of the run.
THEOREM CompletedLaneIsKept == Spec => CompletedLaneKept
<1> DEFINE Kept == \A l \in Lane : pc # "preflight" /\ artifact[l] = "complete"
                                     => artifact'[l] = "complete"
<1>1. IInv /\ [Next]_vars => Kept
  <2> SUFFICES ASSUME IInv, [Next]_vars PROVE Kept
    OBVIOUS
  <2> USE DEF IInv, TypeOK, FlowTypes, WorldTypes, FlagTypes, LaneOnce
  <2>1. CASE PreflightFails
    BY <2>1 DEF PreflightFails, lanesV, local, intr
  <2>2. CASE Preflight
    BY <2>2 DEF Preflight, lanesV, local, global, intr
  <2>3. CASE BringUpStack
    BY <2>3 DEF BringUpStack, Prepare, FailTopology, lanesV, global, world,
      intr, Reset, Exclusive, ComposeUp, Ready
  <2>4. CASE StartService
    BY <2>4 DEF StartService, StartServiceFailsEarly, FailTopology, lanesV,
      global, world, intr, BeginStartService, StartAwait, local,
        FinishStartService, NoteInterrupt
  <2>5. CASE Endpoint
    BY <2>5 DEF Endpoint, FailTopology, lanesV, global, world, intr
  <2>6. CASE Direct
    BY <2>6 DEF Direct, SkipDirect, RunsDirect, lanesV, local, global, world,
      intr, DirectFailsEarly, BeginDirect, StartAwait, ReapDirect, FailTopology
  <2>7. CASE Provision
    BY <2>7 DEF Provision, SkipRouted, lanesV, local, global, world, intr,
      ProvisionFailsEarly, FailTopology, BeginProvision, StartAwait,
        FinishProvision, NoteInterrupt
  <2>8. CASE Snapshot
    BY <2>8 DEF Snapshot, FailTopology, lanesV, global, world, intr
  <2>9. CASE Routed
    BY <2>9 DEF Routed, RoutedFailsEarly, FailTopology, lanesV, global, intr,
      BeginRouted, StartAwait, local, ReapRouted
  <2>10. CASE CleanUp
    BY <2>10 DEF CleanUp, ApiCleanup, lanesV, global, intr, ServiceCleanup,
      StackCleanup, Record, local, world
  <2>11. CASE Report
    BY <2>11 DEF Report, lanesV, local, world, intr
  <2>12. CASE SeeInterrupt
    BY <2>12 DEF SeeInterrupt, lanesV, local, world
  <2>13. CASE RunnerExits
    BY <2>13 DEF RunnerExits, FinishDirect, lanesV, local, intr, FinishRouted,
      global
  <2>14. CASE CtrlC
    BY <2>14 DEF CtrlC, lanesV, local, global, world
  <2>15. CASE UNCHANGED vars
    BY <2>15 DEF vars, lanesV, local, global, world, intr
  <2> QED
    BY <2>1, <2>2, <2>3, <2>4, <2>5, <2>6, <2>7, <2>8, <2>9, <2>10, <2>11,
      <2>12, <2>13, <2>14, <2>15 DEF Next, Workflow
<1> QED BY <1>1, Invariance, PTL DEF Spec, CompletedLaneKept

\* Once the interrupt is noted, no container, record or topology is added.
THEOREM InterruptedRunOnlyUnwinds == Spec => InterruptOnlyUnwinds
<1> DEFINE Unwinds == interrupted =>
      /\ topology' = topology /\ started' = started
      /\ \A t \in Topology : /\ containers'[t] \subseteq containers[t]
                             /\ api'[t] \subseteq api[t]
<1>1. IInv /\ [Next]_vars => Unwinds
  <2> SUFFICES ASSUME IInv, [Next]_vars, interrupted
               PROVE  /\ topology' = topology /\ started' = started
                      /\ \A t \in Topology : /\ containers'[t] \subseteq containers[t]
                                             /\ api'[t] \subseteq api[t]
    OBVIOUS
  <2> USE DEF IInv, TypeOK, FlowTypes, WorldTypes, FlagTypes, InterruptFlow
  <2>1. CASE PreflightFails
    BY <2>1 DEF PreflightFails, lanesV, local, intr
  <2>2. CASE Preflight
    BY <2>2 DEF Preflight, lanesV, local, global, intr
  <2>3. CASE BringUpStack
    BY <2>3 DEF BringUpStack, Prepare, FailTopology, lanesV, global, world,
      intr, Reset, Exclusive, ComposeUp, Ready
  <2>4. CASE StartService
    BY <2>4 DEF StartService, StartServiceFailsEarly, FailTopology, lanesV,
      global, world, intr, BeginStartService, StartAwait, local,
        FinishStartService, NoteInterrupt
  <2>5. CASE Endpoint
    BY <2>5 DEF Endpoint, FailTopology, lanesV, global, world, intr
  <2>6. CASE Direct
    BY <2>6 DEF Direct, SkipDirect, RunsDirect, lanesV, local, global, world,
      intr, DirectFailsEarly, BeginDirect, StartAwait, ReapDirect, FailTopology
  <2>7. CASE Provision
    BY <2>7 DEF Provision, SkipRouted, lanesV, local, global, world, intr,
      ProvisionFailsEarly, FailTopology, BeginProvision, StartAwait,
        FinishProvision, NoteInterrupt
  <2>8. CASE Snapshot
    BY <2>8 DEF Snapshot, FailTopology, lanesV, global, world, intr
  <2>9. CASE Routed
    BY <2>9 DEF Routed, RoutedFailsEarly, FailTopology, lanesV, global, intr,
      BeginRouted, StartAwait, local, ReapRouted
  <2>10. CASE CleanUp
    <3>1. CASE ApiCleanup
      BY <3>1 DEF ApiCleanup, lanesV, global, intr
    <3>2. CASE ServiceCleanup
      <4> USE <3>2 DEF ServiceCleanup
      <4>1. topology' = topology /\ started' = started /\ api' = api
        BY DEF lanesV
      <4>2. \/ containers' = containers
            \/ containers' = [containers EXCEPT ![topology] = @ \ {"conformance"}]
        OBVIOUS
      <4>3. \A t \in Topology : containers'[t] \subseteq containers[t]
        BY <4>2
      <4> QED BY <4>1, <4>3
    <3>3. CASE StackCleanup
      BY <3>3 DEF StackCleanup, lanesV, global, intr
    <3>4. CASE Record
      BY <3>4 DEF Record, lanesV, local, world
    <3> QED BY <2>10, <3>1, <3>2, <3>3, <3>4 DEF CleanUp
  <2>11. CASE Report
    BY <2>11 DEF Report, lanesV, local, world, intr
  <2>12. CASE SeeInterrupt
    BY <2>12 DEF SeeInterrupt, lanesV, local, world
  <2>13. CASE RunnerExits
    BY <2>13 DEF RunnerExits, FinishDirect, lanesV, local, intr, FinishRouted,
      global
  <2>14. CASE CtrlC
    BY <2>14 DEF CtrlC, lanesV, local, global, world
  <2>15. CASE UNCHANGED vars
    BY <2>15 DEF vars, lanesV, local, global, world, intr
  <2> QED
    BY <2>1, <2>2, <2>3, <2>4, <2>5, <2>6, <2>7, <2>8, <2>9, <2>10, <2>11,
      <2>12, <2>13, <2>14, <2>15 DEF Next, Workflow
<1> QED BY <1>1, Invariance, PTL DEF Spec, InterruptOnlyUnwinds

-----------------------------------------------------------------------------
(***************************************************************************)
(* RoutedLane, for any number of connections: a lane that has returned has *)
(* nothing on its way to the gateway, and one that succeeded was not cut   *)
(* short.  QuietAfterReturn is not inductive: it rests on what the         *)
(* shutdown leaves behind while it drains, namely requests in flight and   *)
(* nothing that could become one (Draining), and on npx outliving its      *)
(* worker.                                                                 *)
(***************************************************************************)
Closed == \A c \in Connection : conn[c] = "closed"

\* The listener is open in the middle of the lane only, and connections that
\* wait for a request do not outlive it.
Draining ==
  /\ lane_pc = "start" => ~listening /\ ~draining /\ Closed
  /\ lane_pc = "drain" => ~listening /\ draining /\ \A c \in Connection : conn[c] # "open"
  /\ lane_pc = "returned" => ~listening /\ Closed

Exits ==
  /\ npx = "exited" => worker = "done"
  /\ result = "ok" => npx = "exited"

LaneInv == LaneTypeOK /\ Draining /\ Exits

LEMMA LaneInitInv == LaneInit => LaneInv
  BY DEF LaneInit, LaneInv, LaneTypeOK, Draining, Exits, Closed

LEMMA HarnessStep ==
  ASSUME LaneInv, Harness
  PROVE  LaneInv'
<1> USE DEF LaneInv, LaneTypeOK, Draining, Exits, Closed, Goto, harness
<1>1. CASE StartProxy
  <2>1. CASE lane_pc' = "spawn"
    BY <1>1, <2>1 DEF StartProxy
  <2>2. CASE lane_pc' = "returned"
    BY <1>1, <2>2 DEF StartProxy
  <2> QED
    BY <1>1, <2>1, <2>2 DEF StartProxy
<1>2. CASE Spawn
  BY <1>2 DEF Spawn
<1>3. CASE ChildExited
  BY <1>3 DEF ChildExited
<1>4. CASE Cancel
  BY <1>4 DEF Cancel
<1>5. CASE Reap
  BY <1>5 DEF Reap
<1>6. CASE ShutDown
  BY <1>6 DEF ShutDown, BeginDrain
<1>7. CASE Drained
  BY <1>7 DEF Drained
<1> QED
  BY <1>1, <1>2, <1>3, <1>4, <1>5, <1>6, <1>7 DEF Harness

LEMMA ProcessStep ==
  ASSUME LaneInv, Interrupt \/ StartWorker \/ WorkerEnds \/ NpxEnds
  PROVE  LaneInv'
<1> USE DEF LaneInv, LaneTypeOK, Draining, Exits, Closed, harness
<1>1. CASE Interrupt
  BY <1>1 DEF Interrupt
<1>2. CASE WorkerEnds
  BY <1>2 DEF WorkerEnds
<1>3. CASE NpxEnds
  BY <1>3 DEF NpxEnds
<1>4. CASE StartWorker
  BY <1>4 DEF StartWorker
<1> QED
  BY <1>1, <1>2, <1>3, <1>4

LEMMA TrafficStep ==
  ASSUME NEW c \in Connection, LaneInv, Traffic(c)
  PROVE  LaneInv'
<1> USE DEF LaneInv, LaneTypeOK, Draining, Exits, Closed, harness, Set
<1>1. CASE Connect(c)
  BY <1>1 DEF Connect
<1>2. CASE Forward(c)
  BY <1>2 DEF Forward
<1>3. CASE Answer(c)
  BY <1>3 DEF Answer
<1>4. CASE EndAnswer(c)
  BY <1>4 DEF EndAnswer
<1>5. CASE Disconnect(c)
  BY <1>5 DEF Disconnect
<1> QED
  BY <1>1, <1>2, <1>3, <1>4, <1>5 DEF Traffic

LEMMA LaneInvariance == LaneSpec => []LaneInv
<1>1. LaneInv /\ [LaneNext]_laneVars => LaneInv'
  <2> SUFFICES ASSUME LaneInv, [LaneNext]_laneVars PROVE LaneInv'
    OBVIOUS
  <2>1. CASE UNCHANGED laneVars
    BY <2>1 DEF LaneInv, LaneTypeOK, Draining, Exits, Closed, laneVars, harness
  <2> QED
    BY <2>1, HarnessStep, ProcessStep, TrafficStep DEF LaneNext
<1> QED
  BY LaneInitInv, <1>1, PTL DEF LaneSpec

\* The workflow deletes the records behind the proxy only when no request of
\* the lane is on its way, for any number of connections.
THEOREM LaneIsQuiet == LaneSpec => []QuietAfterReturn
<1>1. LaneInv => QuietAfterReturn
  BY DEF LaneInv, Draining, Closed, QuietAfterReturn
<1> QED
  BY <1>1, LaneInvariance, PTL

\* A lane that succeeds ran to its end.
THEOREM OkLaneIsWhole == LaneSpec => []OkIsWhole
<1>1. LaneInv => OkIsWhole
  BY DEF LaneInv, Exits, OkIsWhole
<1> QED
  BY <1>1, LaneInvariance, PTL

=============================================================================
