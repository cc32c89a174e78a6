---------------------------- MODULE ManagedStack ----------------------------
(***************************************************************************)
(* Who may leave Compose stacks running (src/src/runtime/stack.rs,         *)
(* workloads.rs, live.rs): `stack up` leaves one, `stack down` removes     *)
(* them, and probe, load, live and inspect bring one up for themselves and *)
(* remove it however they end (with_managed_test_target).                  *)
(*                                                                         *)
(* Several harness processes run at once against one Docker daemon; there  *)
(* is no lock between them.  Any Docker command may fail, and any process  *)
(* may be killed between two of its steps.  Which images a stack runs is   *)
(* StackUp's concern.                                                      *)
(***************************************************************************)
EXTENDS Naturals, FiniteSets

CONSTANT Process   \* harness processes

VARIABLES
  containers,    \* what runs or is left of each Compose project
  volumes,       \* topologies whose database volumes hold data
  checkout,      \* the control-plane checkout has its docker-compose.yml
  cmd, pc,       \* each process's command and the step it is at
  mode,          \* the topology its cleanup is at
  failed,        \* topologies whose cleanup failed (last_failure)
  excused        \* history: topologies meant to stay up, and leftovers that a
                 \* command reported or was killed over

world   == <<containers, volumes, checkout>>
process == <<cmd, pc, mode, failed>>
vars    == <<world, process, excused>>

-----------------------------------------------------------------------------
Topology == {"controlplane", "dataplane"}
Base     == {"nginx", "backend"}      \* nginx holds the public port
Service  == Base \cup {"conformance", "fast_test"}

Other(t) == IF t = "controlplane" THEN "dataplane" ELSE "controlplane"

\* live: the group exercises Fast Test.  reset: --fresh, or --volumes.
Command ==
  [kind : {"up", "down", "test"}, topologies : (SUBSET Topology) \ {{}},
   reset : BOOLEAN, live : BOOLEAN]

Commands ==
  {c \in Command :
     /\ c.kind # "down" => Cardinality(c.topologies) = 1
     /\ c.reset => c.kind # "test"
     /\ c.live => c.kind = "test"}

Idle == [kind |-> "none", topologies |-> {}, reset |-> FALSE, live |-> FALSE]

Step == {"idle", "sources", "exclusive", "compose_up", "service", "prepare",
         "snapshot", "operation", "compose_down", "remove"}

TypeOK ==
  /\ containers \in [Topology -> SUBSET Service]
  /\ volumes \subseteq Topology /\ checkout \in BOOLEAN
  /\ cmd \in [Process -> Commands \cup {Idle}]
  /\ pc \in [Process -> Step] /\ mode \in [Process -> Topology]
  /\ \A p \in Process : pc[p] = "idle" \/ mode[p] \in cmd[p].topologies
  /\ failed \in [Process -> SUBSET Topology]
  /\ excused \subseteq Topology

\* selected_topologies: the control plane comes first.
First(ts) == IF "controlplane" \in ts THEN "controlplane" ELSE "dataplane"

The(p) == First(cmd[p].topologies)

Init ==
  /\ containers = [t \in Topology |-> {}] /\ volumes = {} /\ checkout \in BOOLEAN
  /\ cmd = [p \in Process |-> Idle] /\ pc = [p \in Process |-> "idle"]
  /\ mode = [p \in Process |-> "controlplane"]
  /\ failed = [p \in Process |-> {}]
  /\ excused = {}

-----------------------------------------------------------------------------
At(p, step) == pc[p] = step

Goto(p, step) == pc' = [pc EXCEPT ![p] = step] /\ UNCHANGED <<cmd, mode, failed>>

\* The command returns; the operator reads which cleanups failed.
Return(p) ==
  /\ cmd' = [cmd EXCEPT ![p] = Idle] /\ pc' = [pc EXCEPT ![p] = "idle"]
  /\ mode' = [mode EXCEPT ![p] = "controlplane"]
  /\ failed' = [failed EXCEPT ![p] = {}]

Cleanup(p, t) ==
  /\ pc' = [pc EXCEPT ![p] = "compose_down"] /\ mode' = [mode EXCEPT ![p] = t]
  /\ UNCHANGED <<cmd, failed>>

\* Mutant: an error returns at once, before the cleanup.
FailUncleaned(p) == Return(p)

\* An error ends `stack up`; with_managed_test_target goes on to its cleanup.
Fail(p) == IF cmd[p].kind = "test" THEN Cleanup(p, The(p)) ELSE Return(p)

Start(p) ==
  /\ At(p, "idle")
  /\ \E c \in Commands :
       /\ cmd' = [cmd EXCEPT ![p] = c]
       /\ pc' = [pc EXCEPT ![p] = IF c.kind = "down" THEN "compose_down" ELSE "sources"]
       /\ mode' = [mode EXCEPT ![p] = First(c.topologies)]
  /\ UNCHANGED <<world, failed, excused>>

-----------------------------------------------------------------------------
\* stack_up.

AfterUp(p) == IF cmd[p].kind = "up" THEN "service" ELSE "prepare"

\* ensure_mode_sources, the Compose contract, the images; for a stack that is
\* already current only the wait for the public endpoint follows.
Sources(p) ==
  /\ At(p, "sources")
  /\ checkout' \in {checkout, TRUE}
  /\ \/ checkout' = TRUE /\ ~cmd[p].reset /\ Goto(p, "exclusive")
     \/ checkout' = TRUE /\ cmd[p].reset /\ Cleanup(p, The(p))
     \/ /\ checkout' = TRUE /\ ~cmd[p].reset
        /\ The(p) = "dataplane" /\ Base \subseteq containers["dataplane"]
        /\ Goto(p, AfterUp(p))
     \/ Fail(p)
  /\ UNCHANGED <<containers, volumes, excused>>

\* project_has_running_containers: a failing `docker ps` finds none.
OtherStopped(p) == \E failing \in BOOLEAN : failing \/ containers[Other(The(p))] = {}

Exclusive(p) ==
  /\ At(p, "exclusive")
  /\ \/ OtherStopped(p) /\ Goto(p, "compose_up")
     \/ Fail(p)
  /\ UNCHANGED <<world, excused>>

\* Only `up` for the dataplane removes orphans, which the fixture then is.  The
\* other stack holds the public port, if it runs.  The wait for the public endpoint
\* changes nothing: its failure is the last disjunct's.
ComposeUp(p) ==
  LET t    == The(p)
      kept == IF t = "dataplane" THEN containers[t] \ {"conformance"} ELSE containers[t]
      free == IF "nginx" \in containers[Other(t)] THEN Base \ {"nginx"} ELSE Base
  IN /\ At(p, "compose_up")
     /\ volumes' = volumes \cup {t}
     /\ excused' = IF cmd[p].kind = "up" THEN excused \cup {t} ELSE excused
     /\ \E made \in SUBSET free :
          /\ containers' = [containers EXCEPT ![t] = kept \cup made]
          /\ \/ Base \subseteq containers'[t] /\ Goto(p, AfterUp(p))
             \/ Fail(p)
     /\ UNCHANGED checkout

-----------------------------------------------------------------------------
\* The rest of `stack up`, and of a test workflow.

\* start_conformance_service, which may fail; then the command ends either way.
ConformanceService(p) ==
  /\ At(p, "service")
  /\ \/ /\ containers' = [containers EXCEPT ![The(p)] = @ \cup {"conformance"}]
        /\ excused' = excused \cup {The(p)}
     \/ UNCHANGED <<containers, excused>>
  /\ Return(p)
  /\ UNCHANGED <<volumes, checkout>>

\* Mutant: every test workflow prepares Fast Test.
NeedsFastTestAlways(p) == TRUE

\* live_group_needs_fast_test, in a live run.
NeedsFastTest(p) == cmd[p].live

\* prepare_test_target.
Prepare(p) ==
  /\ At(p, "prepare")
  /\ \/ /\ OtherStopped(p)
        /\ Goto(p, IF The(p) = "dataplane" THEN "snapshot" ELSE "operation")
     \/ Fail(p)
  /\ UNCHANGED <<world, excused>>

\* wait_for_publisher_snapshot asks the stack's own Redis.
Snapshot(p) ==
  /\ At(p, "snapshot")
  /\ \/ /\ "backend" \in containers["dataplane"]
        /\ Goto(p, "operation")
     \/ Fail(p)
  /\ UNCHANGED <<world, excused>>

\* A live run first starts, registers and publishes Fast Test
\* (ensure_fast_test_fixture), which may fail with the server up.  The probe, load
\* run, live tests or Inspector then pass or fail: the cleanup follows.
Operation(p) ==
  /\ At(p, "operation")
  /\ \/ NeedsFastTest(p) /\ containers' = [containers EXCEPT ![The(p)] = @ \cup {"fast_test"}]
     \/ UNCHANGED containers
  /\ Cleanup(p, The(p))
  /\ UNCHANGED <<volumes, checkout, excused>>

-----------------------------------------------------------------------------
\* cleanup: per topology `compose down`, then removal by label.

\* Mutant: every cleanup resets.
ResetsAlways(p) == TRUE

Resets(p) == cmd[p].reset

\* A reset that fails may have removed some of the volumes already: their data
\* counts as lost.
CleanupVolumes(p, t) == IF Resets(p) THEN volumes \ {t} ELSE volumes

FailAt(p, t) == failed' = [failed EXCEPT ![p] = @ \cup {t}]

\* Without a checkout there is nothing to call Compose with.
ComposeDown(p) ==
  LET t == mode[p]
  IN /\ At(p, "compose_down")
     /\ \/ /\ checkout
           /\ containers' = [containers EXCEPT ![t] = {}]
           /\ volumes' = CleanupVolumes(p, t)
           /\ UNCHANGED failed
        \/ /\ checkout
           /\ containers' \in {[containers EXCEPT ![t] = left] : left \in SUBSET containers[t]}
           /\ volumes' = CleanupVolumes(p, t)
           /\ FailAt(p, t)
        \/ ~checkout /\ UNCHANGED <<containers, volumes, failed>>
     /\ pc' = [pc EXCEPT ![p] = "remove"]
     /\ UNCHANGED <<checkout, cmd, mode, excused>>

\* What follows the last topology: the rest of `stack up --fresh`, or the end.
Continue(p, nowFailed) ==
  IF cmd[p].kind = "up" /\ nowFailed = {}
  THEN /\ pc' = [pc EXCEPT ![p] = "exclusive"]
       /\ UNCHANGED <<cmd, mode, failed, excused>>
  ELSE /\ Return(p)
       /\ excused' = (excused \cup nowFailed) \ {t \in Topology : containers'[t] = {}}

\* Mutant: the loop goes on to a topology that was not selected.
NextTopologyAlways(p, nowFailed) ==
  IF mode[p] = "controlplane"
  THEN /\ pc' = [pc EXCEPT ![p] = "compose_down"]
       /\ mode' = [mode EXCEPT ![p] = "dataplane"]
       /\ failed' = [failed EXCEPT ![p] = nowFailed]
       /\ UNCHANGED <<cmd, excused>>
  ELSE Continue(p, nowFailed)

\* The loop goes on after a failure; last_failure is returned at its end.
NextTopology(p, nowFailed) ==
  IF mode[p] = "controlplane" /\ "dataplane" \in cmd[p].topologies
  THEN /\ pc' = [pc EXCEPT ![p] = "compose_down"]
       /\ mode' = [mode EXCEPT ![p] = "dataplane"]
       /\ failed' = [failed EXCEPT ![p] = nowFailed]
       /\ UNCHANGED <<cmd, excused>>
  ELSE Continue(p, nowFailed)

\* remove_project_by_label.
Remove(p) ==
  LET t == mode[p]
  IN /\ At(p, "remove")
     /\ \/ /\ containers' = [containers EXCEPT ![t] = {}]
           /\ volumes' = CleanupVolumes(p, t)
           /\ NextTopology(p, failed[p])
        \/ /\ containers' \in {[containers EXCEPT ![t] = left] : left \in SUBSET containers[t]}
           /\ volumes' = CleanupVolumes(p, t)
           /\ NextTopology(p, failed[p] \cup {t})
     /\ UNCHANGED checkout

\* SIGINT or SIGKILL, which these commands do not handle; the Docker command
\* they wait for dies with them.
Kill(p) ==
  /\ ~At(p, "idle")
  /\ Return(p)
  /\ excused' = excused \cup cmd[p].topologies
  /\ UNCHANGED world

Stack(p) == Start(p) \/ Sources(p) \/ Exclusive(p) \/ ComposeUp(p)
            \/ ConformanceService(p)

Test(p) == Prepare(p) \/ Snapshot(p) \/ Operation(p)

CleanupStep(p) == ComposeDown(p) \/ Remove(p)

Next == \E p \in Process : Stack(p) \/ Test(p) \/ CleanupStep(p) \/ Kill(p)

Spec == Init /\ [][Next]_vars

-----------------------------------------------------------------------------
\* Properties.

Busy(t) == {p \in Process : t \in cmd[p].topologies}

\* Once every command on a topology has ended, nothing is left of its stack
\* unless a `stack up` left it there, a process was killed, or the command that
\* could not remove something said so: a test workflow stops its stack whether
\* it succeeds or fails, at whatever point, and two of them at once do not leave
\* each other's behind.  Fast Test containers exist beside a live run only.
NothingLeft ==
  \A t \in Topology \ excused :
    /\ Busy(t) = {} => containers[t] = {}
    /\ "fast_test" \in containers[t] => \E p \in Busy(t) : cmd[p].live

\* Database volumes are removed by `--fresh` and `--volumes` only, and only
\* those of the topologies the command names.
DataKept ==
  [][\A t \in volumes \ volumes' : \E p \in Busy(t) : cmd[p].reset]_vars

=============================================================================
