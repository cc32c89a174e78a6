-------------------------- MODULE ManagedStackProofs --------------------------
(***************************************************************************)
(* Proofs about ManagedStack, for any number of harness processes: a       *)
(* topology nobody excused is empty once all commands on it have ended,    *)
(* and database volumes are removed by resetting commands only.            *)
(*                                                                         *)
(* NothingLeft is not inductive: that some command on a topology is still  *)
(* running does not say that this command will clean it up.  Owed says     *)
(* whose cleanup is still to come, namely a test workflow's, which cannot  *)
(* end without passing its cleanup; Flow says which commands are at which  *)
(* step.                                                                   *)
(***************************************************************************)
EXTENDS ManagedStack, FiniteSetTheorems, TLAPS

\* TypeOK, of the processes and of what they share.
ProcessTypes ==
  /\ cmd \in [Process -> Commands \cup {Idle}]
  /\ pc \in [Process -> Step] /\ mode \in [Process -> Topology]
  /\ \A p \in Process : pc[p] = "idle" \/ mode[p] \in cmd[p].topologies
  /\ failed \in [Process -> SUBSET Topology]

WorldTypes ==
  /\ containers \in [Topology -> SUBSET Service]
  /\ volumes \subseteq Topology /\ checkout \in BOOLEAN
  /\ excused \subseteq Topology

\* The steps of each kind of command.
StepsOf(kind) ==
  CASE kind = "none" -> {"idle"}
    [] kind = "down" -> {"compose_down", "remove"}
    [] kind = "up"   -> {"sources", "exclusive", "compose_up", "service",
                         "compose_down", "remove"}
    [] kind = "test" -> {"sources", "exclusive", "compose_up", "prepare", "snapshot",
                         "operation", "compose_down", "remove"}

Flow == \A p \in Process : pc[p] \in StepsOf(cmd[p].kind)

\* What is not excused is some test workflow's to remove.
Owed ==
  \A t \in Topology \ excused :
    /\ containers[t] # {} => \E p \in Busy(t) : cmd[p].kind = "test"
    /\ "fast_test" \in containers[t] => \E p \in Busy(t) : cmd[p].live

IInv == ProcessTypes /\ WorldTypes /\ Flow /\ Owed

-----------------------------------------------------------------------------
\* Commands.

\* A command other than `stack down` is about one topology, the one The names;
\* only test workflows exercise Fast Test, and they never reset.
LEMMA CommandFacts ==
  ASSUME NEW c \in Commands
  PROVE  /\ c.kind \in {"up", "down", "test"}
         /\ c.topologies \subseteq Topology /\ First(c.topologies) \in c.topologies
         /\ c.kind # "down" => c.topologies = {First(c.topologies)}
         /\ c.live => c.kind = "test"
         /\ c.reset => c.kind # "test"
<1>1. c \in Command /\ c.topologies \subseteq Topology /\ c.topologies # {}
  BY DEF Commands, Command
<1>2. First(c.topologies) \in c.topologies
  <2>1. PICK t \in c.topologies : TRUE
    BY <1>1
  <2> QED
    BY <1>1, <2>1 DEF First, Topology
<1>3. ASSUME c.kind # "down" PROVE c.topologies = {First(c.topologies)}
  <2>1. Cardinality(c.topologies) = 1
    BY <1>3 DEF Commands
  <2>2. IsFiniteSet(Topology)
    <3>1. IsFiniteSet({"controlplane"})
      BY FS_Singleton
    <3>2. Topology = {"controlplane"} \cup {"dataplane"}
      BY DEF Topology
    <3> QED
      BY <3>1, <3>2, FS_AddElement
  <2>3. IsFiniteSet(c.topologies)
    BY <1>1, <2>2, FS_Subset
  <2>4. PICK t : c.topologies = {t}
    BY <2>1, <2>3, FS_Singleton
  <2> QED
    BY <1>2, <2>4
<1>4. First(c.topologies) \in c.topologies /\ c.topologies \subseteq Topology
  BY <1>1, <1>2
<1> QED
  BY <1>3, <1>4 DEF Commands, Command

LEMMA TypeParts == TypeOK <=> ProcessTypes /\ WorldTypes
  BY DEF TypeOK, ProcessTypes, WorldTypes

\* A process that is at some step runs a command.
LEMMA RunningFacts ==
  ASSUME ProcessTypes, Flow, NEW p \in Process, pc[p] # "idle"
  PROVE  cmd[p] \in Commands /\ The(p) \in cmd[p].topologies /\ The(p) \in Topology
<1>1. cmd[p] # Idle
  BY DEF Flow, StepsOf, Idle
<1>2. cmd[p] \in Commands
  BY <1>1 DEF ProcessTypes
<1> QED
  BY <1>2, CommandFacts DEF The

-----------------------------------------------------------------------------
\* What the ends of an action do to the processes.

LEMMA GotoStep ==
  ASSUME ProcessTypes, Flow, NEW p \in Process, NEW step \in StepsOf(cmd[p].kind),
         pc[p] # "idle", Goto(p, step)
  PROVE  ProcessTypes' /\ Flow' /\ cmd' = cmd
<1>1. step \in Step
  <2>1. cmd[p] \in Commands
    BY RunningFacts
  <2>2. cmd[p].kind \in {"up", "down", "test"}
    BY <2>1, CommandFacts
  <2> QED
    BY <2>2 DEF StepsOf, Step
<1>2. cmd' = cmd /\ mode' = mode /\ failed' = failed /\ pc' = [pc EXCEPT ![p] = step]
  BY DEF Goto
<1>3. ProcessTypes'
  BY <1>1, <1>2 DEF ProcessTypes
<1>4. Flow'
  BY <1>2 DEF Flow, ProcessTypes
<1> QED
  BY <1>2, <1>3, <1>4

LEMMA CleanupStepTo ==
  ASSUME ProcessTypes, Flow, NEW p \in Process, pc[p] # "idle",
         NEW t \in cmd[p].topologies, Cleanup(p, t)
  PROVE  ProcessTypes' /\ Flow' /\ cmd' = cmd
<1>1. cmd[p] \in Commands
  BY RunningFacts
<1>2. cmd[p].kind \in {"up", "down", "test"} /\ t \in Topology
  BY <1>1, CommandFacts
<1>3. /\ cmd' = cmd /\ failed' = failed
      /\ pc' = [pc EXCEPT ![p] = "compose_down"] /\ mode' = [mode EXCEPT ![p] = t]
  BY DEF Cleanup
<1>4. ProcessTypes'
  BY <1>2, <1>3 DEF ProcessTypes, Step
<1>5. "compose_down" \in StepsOf(cmd[p].kind)
  BY <1>2 DEF StepsOf
<1>6. Flow'
  BY <1>3, <1>5 DEF Flow, ProcessTypes
<1> QED
  BY <1>3, <1>4, <1>6

LEMMA ReturnStep ==
  ASSUME ProcessTypes, Flow, NEW p \in Process, Return(p)
  PROVE  /\ ProcessTypes' /\ Flow'
         /\ \A q \in Process \ {p} : cmd'[q] = cmd[q]
<1>1. /\ cmd' = [cmd EXCEPT ![p] = Idle] /\ pc' = [pc EXCEPT ![p] = "idle"]
      /\ mode' = [mode EXCEPT ![p] = "controlplane"]
      /\ failed' = [failed EXCEPT ![p] = {}]
  BY DEF Return
<1>2. ProcessTypes'
  BY <1>1 DEF ProcessTypes, Step, Topology
<1>3. "idle" \in StepsOf(Idle.kind)
  BY DEF StepsOf, Idle
<1>4. Flow'
  BY <1>1, <1>3 DEF Flow, ProcessTypes
<1>5. \A q \in Process \ {p} : cmd'[q] = cmd[q]
  BY <1>1 DEF ProcessTypes
<1> QED
  BY <1>2, <1>4, <1>5

\* An error ends a command that is no test workflow and keeps one that is.
LEMMA FailStep ==
  ASSUME ProcessTypes, Flow, NEW p \in Process, pc[p] # "idle", Fail(p)
  PROVE  /\ ProcessTypes' /\ Flow'
         /\ \A q \in Process : cmd[q].kind = "test" => cmd'[q] = cmd[q]
<1>1. CASE cmd[p].kind = "test"
  BY <1>1, RunningFacts, CleanupStepTo DEF Fail
<1>2. CASE cmd[p].kind # "test"
  BY <1>2, ReturnStep DEF Fail
<1> QED
  BY <1>1, <1>2

-----------------------------------------------------------------------------
\* What keeps Owed: at every topology that is not excused nothing is left, or
\* nothing was added and the test workflows went on (Goes), or one of them is there
\* for what was added (Held).
Goes(t) ==
  /\ t \notin excused /\ containers'[t] \subseteq containers[t]
  /\ \A q \in Busy(t) : cmd[q].kind = "test" => cmd'[q] = cmd[q]

Held(t) ==
  \E q \in Process :
    /\ t \in cmd'[q].topologies /\ cmd'[q].kind = "test"
    /\ "fast_test" \in containers'[t] => cmd'[q].live

LEMMA OwedKept ==
  ASSUME ProcessTypes, Owed,
         \A t \in Topology : t \in excused' \/ containers'[t] = {} \/ Goes(t) \/ Held(t)
  PROVE  Owed'
<1> SUFFICES ASSUME NEW t \in Topology, t \notin excused'
             PROVE  /\ containers'[t] # {} => \E q \in Busy(t)' : cmd'[q].kind = "test"
                    /\ "fast_test" \in containers'[t] => \E q \in Busy(t)' : cmd'[q].live
  BY DEF Owed
<1>1. CASE Goes(t)
  <2>1. \A q \in Busy(t) : cmd[q].kind = "test" => q \in Busy(t)' /\ cmd'[q] = cmd[q]
    BY <1>1 DEF Busy, Goes
  <2>2. \A q \in Busy(t) : cmd[q].live => cmd[q].kind = "test"
    <3>1. \A q \in Process : cmd[q] \in Commands \/ cmd[q].live = FALSE
      BY DEF ProcessTypes, Idle
    <3> QED
      BY <3>1, CommandFacts DEF Busy
  <2>3. /\ containers[t] # {} => \E q \in Busy(t) : cmd[q].kind = "test"
        /\ "fast_test" \in containers[t] => \E q \in Busy(t) : cmd[q].live
    BY <1>1 DEF Owed, Goes
  <2> QED
    BY <1>1, <2>1, <2>2, <2>3 DEF Goes
<1>2. CASE containers'[t] = {}
  BY <1>2
<1>3. CASE Held(t)
  BY <1>3 DEF Held, Busy
<1> QED
  BY <1>1, <1>2, <1>3

-----------------------------------------------------------------------------
\* One lemma per part of Next.

\* An action that leaves containers and excused alone, and ends no test workflow.
LEMMA QuietStep ==
  ASSUME ProcessTypes, Owed, UNCHANGED <<containers, excused>>,
         \A q \in Process : cmd[q].kind = "test" => cmd'[q] = cmd[q]
  PROVE  Owed'
<1>1. \A t \in Topology : t \in excused' \/ Goes(t)
  BY DEF Goes, Busy
<1> QED
  BY <1>1, OwedKept

LEMMA StackStep ==
  ASSUME IInv, NEW p \in Process, Stack(p)
  PROVE  IInv'
<1>0. ProcessTypes /\ WorldTypes /\ Flow /\ Owed
  BY DEF IInv
<1>1. CASE Start(p)
  <2>1. PICK c \in Commands :
          /\ cmd' = [cmd EXCEPT ![p] = c]
          /\ pc' = [pc EXCEPT ![p] = IF c.kind = "down" THEN "compose_down" ELSE "sources"]
          /\ mode' = [mode EXCEPT ![p] = First(c.topologies)]
    BY <1>1 DEF Start
  <2>2. UNCHANGED <<containers, volumes, checkout, failed, excused>> /\ pc[p] = "idle"
    BY <1>1 DEF Start, world, At
  <2>3. /\ c.kind \in {"up", "down", "test"}
        /\ First(c.topologies) \in c.topologies /\ c.topologies \subseteq Topology
    BY CommandFacts
  <2>4. ProcessTypes'
    BY <1>0, <2>1, <2>2, <2>3 DEF ProcessTypes, Step
  <2>5. Flow'
    BY <1>0, <2>1, <2>3 DEF Flow, StepsOf, ProcessTypes
  <2>6. cmd[p].kind # "test"
    BY <1>0, <2>2 DEF Flow, StepsOf
  <2>7. Owed'
    BY <1>0, <2>1, <2>2, <2>6, QuietStep DEF ProcessTypes
  <2> QED
    BY <1>0, <2>2, <2>4, <2>5, <2>7 DEF WorldTypes, IInv
<1>2. CASE Sources(p)
  <2>1. pc[p] = "sources" /\ UNCHANGED <<containers, volumes, excused>> /\ checkout' \in BOOLEAN
    BY <1>0, <1>2 DEF Sources, At, WorldTypes
  <2>2. cmd[p].kind \in {"up", "test"}
    BY <1>0, <2>1, RunningFacts, CommandFacts DEF Flow, StepsOf
  <2>3. "exclusive" \in StepsOf(cmd[p].kind) /\ AfterUp(p) \in StepsOf(cmd[p].kind)
    BY <2>2 DEF StepsOf, AfterUp
  <2>4. \/ Goto(p, "exclusive") \/ Goto(p, AfterUp(p))
        \/ Cleanup(p, The(p)) \/ Fail(p)
    BY <1>2 DEF Sources
  <2>5. /\ ProcessTypes' /\ Flow'
        /\ \A q \in Process : cmd[q].kind = "test" => cmd'[q] = cmd[q]
    BY <1>0, <2>1, <2>3, <2>4, RunningFacts, GotoStep, CleanupStepTo, FailStep
  <2>6. Owed'
    BY <1>0, <2>1, <2>5, QuietStep
  <2> QED
    BY <1>0, <2>1, <2>5, <2>6 DEF WorldTypes, IInv
<1>3. CASE Exclusive(p)
  <2>1. pc[p] = "exclusive" /\ UNCHANGED <<containers, volumes, checkout, excused>>
    BY <1>3 DEF Exclusive, At, world
  <2>2. cmd[p].kind \in {"up", "test"}
    BY <1>0, <2>1, RunningFacts, CommandFacts DEF Flow, StepsOf
  <2>3. "compose_up" \in StepsOf(cmd[p].kind)
    BY <2>2 DEF StepsOf
  <2>4. Goto(p, "compose_up") \/ Fail(p)
    BY <1>3 DEF Exclusive
  <2>5. /\ ProcessTypes' /\ Flow'
        /\ \A q \in Process : cmd[q].kind = "test" => cmd'[q] = cmd[q]
    BY <1>0, <2>1, <2>3, <2>4, GotoStep, FailStep
  <2>6. Owed'
    BY <1>0, <2>1, <2>5, QuietStep
  <2> QED
    BY <1>0, <2>1, <2>5, <2>6 DEF WorldTypes, IInv
<1>4. CASE ComposeUp(p)
  <2>0. PICK t \in Topology : t = The(p)
    BY <1>0, <1>4, RunningFacts DEF ComposeUp, At
  <2> DEFINE kept == IF t = "dataplane" THEN containers[t] \ {"conformance"} ELSE containers[t]
  <2>1. /\ pc[p] = "compose_up" /\ volumes' = volumes \cup {t} /\ checkout' = checkout
        /\ excused' = IF cmd[p].kind = "up" THEN excused \cup {t} ELSE excused
    BY <1>4, <2>0 DEF ComposeUp, At
  <2>2. PICK made \in SUBSET Base : containers' = [containers EXCEPT ![t] = kept \cup made]
    BY <1>4, <2>0 DEF ComposeUp
  <2>3. Goto(p, AfterUp(p)) \/ Fail(p)
    BY <1>4 DEF ComposeUp
  <2>4. cmd[p] \in Commands /\ t \in cmd[p].topologies
    BY <1>0, <2>0, <2>1, RunningFacts
  <2>5. cmd[p].kind \in {"up", "test"} /\ AfterUp(p) \in StepsOf(cmd[p].kind)
    BY <1>0, <2>1, <2>4, CommandFacts DEF Flow, StepsOf, AfterUp
  <2>6. /\ ProcessTypes' /\ Flow'
        /\ \A q \in Process : cmd[q].kind = "test" => cmd'[q] = cmd[q]
    BY <1>0, <2>1, <2>3, <2>5, GotoStep, FailStep
  <2>7. kept \subseteq Service /\ made \subseteq Service /\ "fast_test" \notin made
    BY <1>0, <2>2, <2>4 DEF WorldTypes, Service, Base
  <2>8. WorldTypes'
    BY <1>0, <2>1, <2>2, <2>4, <2>7 DEF WorldTypes
  <2>9. ASSUME NEW u \in Topology, u \notin excused', u # t
        PROVE  Goes(u)
    BY <1>0, <2>1, <2>2, <2>6, <2>9 DEF WorldTypes, Goes, Busy
  <2>10. ASSUME cmd[p].kind = "test", t \notin excused, "fast_test" \notin containers'[t]
         PROVE  Held(t)
    BY <2>4, <2>6, <2>10 DEF Held
  <2>11. ASSUME cmd[p].kind = "test", t \notin excused, "fast_test" \in containers'[t]
         PROVE  Held(t)
    <3>1. "fast_test" \in containers[t]
      BY <1>0, <2>2, <2>7, <2>11 DEF WorldTypes
    <3>2. PICK q \in Busy(t) : cmd[q].live
      BY <1>0, <2>11, <3>1 DEF Owed
    <3>3. q \in Process /\ t \in cmd[q].topologies
      BY <3>2 DEF Busy
    <3>4. cmd[q].kind = "test"
      <4>1. cmd[q] \in Commands
        BY <1>0, <3>2, <3>3 DEF ProcessTypes, Idle
      <4> QED
        BY <3>2, <4>1, CommandFacts
    <3> QED
      BY <2>6, <3>2, <3>3, <3>4 DEF Held
  <2>12. t \in excused' \/ Held(t)
    BY <2>1, <2>5, <2>10, <2>11
  <2>13. Owed'
    BY <1>0, <2>9, <2>12, OwedKept
  <2> QED
    BY <2>6, <2>8, <2>13 DEF IInv
<1>5. CASE ConformanceService(p)
  <2>1. pc[p] = "service" /\ UNCHANGED <<volumes, checkout>> /\ Return(p)
    BY <1>5 DEF ConformanceService, At
  <2>2. \/ /\ containers' = [containers EXCEPT ![The(p)] = @ \cup {"conformance"}]
           /\ excused' = excused \cup {The(p)}
        \/ UNCHANGED <<containers, excused>>
    BY <1>5 DEF ConformanceService
  <2>3. The(p) \in Topology /\ cmd[p].kind # "test"
    BY <1>0, <2>1, RunningFacts, CommandFacts DEF Flow, StepsOf
  <2>4. /\ ProcessTypes' /\ Flow'
        /\ \A q \in Process : cmd[q].kind = "test" => cmd'[q] = cmd[q]
    BY <1>0, <2>1, <2>3, ReturnStep
  <2>5. WorldTypes'
    BY <1>0, <2>1, <2>2, <2>3 DEF WorldTypes, Service
  <2>6. \A u \in Topology : u \in excused' \/ Goes(u)
    BY <1>0, <2>2, <2>3, <2>4 DEF WorldTypes, Goes, Busy
  <2>7. Owed'
    BY <1>0, <2>6, OwedKept
  <2> QED
    BY <2>4, <2>5, <2>7 DEF IInv
<1> QED
  BY <1>1, <1>2, <1>3, <1>4, <1>5 DEF Stack

LEMMA TestStep ==
  ASSUME IInv, NEW p \in Process, Test(p)
  PROVE  IInv'
<1>0. ProcessTypes /\ WorldTypes /\ Flow /\ Owed
  BY DEF IInv
<1>1. CASE Prepare(p) \/ Snapshot(p)
  <2>1. /\ pc[p] \in {"prepare", "snapshot"}
        /\ UNCHANGED <<containers, volumes, checkout, excused>>
    BY <1>1 DEF Prepare, Snapshot, At, world
  <2>2. cmd[p].kind = "test"
    BY <1>0, <2>1, RunningFacts, CommandFacts DEF Flow, StepsOf
  <2>3. "snapshot" \in StepsOf(cmd[p].kind) /\ "operation" \in StepsOf(cmd[p].kind)
    BY <2>2 DEF StepsOf
  <2>4. Goto(p, "snapshot") \/ Goto(p, "operation") \/ Fail(p)
    BY <1>1 DEF Prepare, Snapshot
  <2>5. /\ ProcessTypes' /\ Flow'
        /\ \A q \in Process : cmd[q].kind = "test" => cmd'[q] = cmd[q]
    BY <1>0, <2>1, <2>3, <2>4, GotoStep, FailStep
  <2>6. Owed'
    BY <1>0, <2>1, <2>5, QuietStep
  <2> QED
    BY <1>0, <2>1, <2>5, <2>6 DEF WorldTypes, IInv
<1>2. CASE Operation(p)
  <2>1. pc[p] = "operation" /\ UNCHANGED <<volumes, checkout, excused>>
    BY <1>2 DEF Operation, At
  <2>2. PICK t \in Topology : t = The(p)
    BY <1>0, <2>1, RunningFacts
  <2>3. cmd[p].kind = "test" /\ t \in cmd[p].topologies
    BY <1>0, <2>1, <2>2, RunningFacts, CommandFacts DEF Flow, StepsOf
  <2>4. \/ cmd[p].live /\ containers' = [containers EXCEPT ![t] = @ \cup {"fast_test"}]
        \/ UNCHANGED containers
    BY <1>2, <2>2 DEF Operation, NeedsFastTest
  <2>5. ProcessTypes' /\ Flow' /\ cmd' = cmd
    BY <1>0, <1>2, <2>1, <2>2, <2>3, CleanupStepTo DEF Operation
  <2>6. WorldTypes'
    BY <1>0, <2>1, <2>4 DEF WorldTypes, Service
  <2>7. ASSUME UNCHANGED containers
        PROVE  Owed'
    BY <1>0, <2>1, <2>5, <2>7, QuietStep
  <2>8. ASSUME cmd[p].live, containers' = [containers EXCEPT ![t] = @ \cup {"fast_test"}]
        PROVE  Owed'
    <3>1. Held(t)
      BY <2>3, <2>5, <2>8 DEF Held
    <3>2. \A u \in Topology : u # t => u \in excused' \/ Goes(u)
      BY <1>0, <2>1, <2>5, <2>8 DEF WorldTypes, Goes, Busy
    <3> QED
      BY <1>0, <3>1, <3>2, OwedKept
  <2> QED
    BY <2>4, <2>5, <2>6, <2>7, <2>8 DEF IInv
<1> QED
  BY <1>1, <1>2 DEF Test

\* What one cleanup command does to the stack at mode[p].
LEMMA CleanupFacts ==
  ASSUME IInv, NEW p \in Process, CleanupStep(p)
  PROVE  /\ pc[p] \in {"compose_down", "remove"} /\ checkout' = checkout
         /\ mode[p] \in cmd[p].topologies /\ cmd[p] \in Commands
         /\ \/ containers' = containers
            \/ \E left \in SUBSET containers[mode[p]] :
                 containers' = [containers EXCEPT ![mode[p]] = left]
         /\ volumes' = volumes \/ volumes' = CleanupVolumes(p, mode[p])
         /\ WorldTypes' <=> excused' \subseteq Topology
         /\ \A t \in Topology : containers'[t] \subseteq containers[t]
<1>0. ProcessTypes /\ WorldTypes /\ Flow
  BY DEF IInv
<1>1. pc[p] \in {"compose_down", "remove"} /\ checkout' = checkout
  BY DEF CleanupStep, ComposeDown, Remove, At
<1>2. mode[p] \in cmd[p].topologies /\ cmd[p] \in Commands /\ mode[p] \in Topology
  BY <1>0, <1>1, RunningFacts DEF ProcessTypes
<1>3. \/ containers' = containers
      \/ \E left \in SUBSET containers[mode[p]] :
           containers' = [containers EXCEPT ![mode[p]] = left]
  BY DEF CleanupStep, ComposeDown, Remove
<1>4. volumes' = volumes \/ volumes' = CleanupVolumes(p, mode[p])
  BY DEF CleanupStep, ComposeDown, Remove
<1>5. containers' \in [Topology -> SUBSET Service]
  BY <1>0, <1>2, <1>3 DEF WorldTypes
<1>6. volumes' \subseteq Topology
  BY <1>0, <1>4 DEF WorldTypes, CleanupVolumes
<1>7. \A t \in Topology : containers'[t] \subseteq containers[t]
  BY <1>0, <1>2, <1>3 DEF WorldTypes
<1>8. WorldTypes' <=> excused' \subseteq Topology
  BY <1>0, <1>1, <1>5, <1>6 DEF WorldTypes
<1> QED
  BY <1>1, <1>2, <1>3, <1>4, <1>7, <1>8

LEMMA ComposeDownStep ==
  ASSUME IInv, NEW p \in Process, ComposeDown(p)
  PROVE  IInv'
<1>0. ProcessTypes /\ WorldTypes /\ Flow /\ Owed /\ CleanupStep(p)
  BY DEF IInv, CleanupStep
<1>1. /\ pc' = [pc EXCEPT ![p] = "remove"] /\ UNCHANGED <<cmd, mode, excused>>
      /\ failed' = failed \/ failed' = [failed EXCEPT ![p] = @ \cup {mode[p]}]
      /\ pc[p] = "compose_down"
  BY DEF ComposeDown, FailAt, At
<1>2. cmd[p].kind \in {"up", "down", "test"}
  BY CleanupFacts, CommandFacts, <1>0
<1>3. ProcessTypes'
  BY <1>0, <1>1 DEF ProcessTypes, Step
<1>4. Flow'
  BY <1>0, <1>1, <1>2 DEF Flow, StepsOf, ProcessTypes
<1>5. WorldTypes'
  BY <1>0, <1>1, CleanupFacts DEF WorldTypes
<1>6. \A t \in Topology : t \in excused' \/ Goes(t)
  BY <1>0, <1>1, CleanupFacts DEF Goes
<1> QED
  BY <1>0, <1>3, <1>4, <1>5, <1>6, OwedKept DEF IInv

\* A command ends at its last cleanup, with what that left reported: nowFailed
\* has the topologies where something failed, which contains mode[p] unless the
\* last removal emptied it.
LEMMA CleanedStep ==
  ASSUME IInv, NEW p \in Process, Remove(p), NEW nowFailed \in SUBSET Topology,
         Return(p), mode[p] \in nowFailed \/ containers'[mode[p]] = {},
         excused' = (excused \cup nowFailed) \ {t \in Topology : containers'[t] = {}}
  PROVE  IInv'
<1>0. ProcessTypes /\ WorldTypes /\ Flow /\ Owed /\ CleanupStep(p)
  BY DEF IInv, CleanupStep
<1>1. /\ ProcessTypes' /\ Flow'
      /\ \A q \in Process \ {p} : cmd'[q] = cmd[q]
  BY <1>0, ReturnStep
<1>2. WorldTypes'
  BY <1>0, CleanupFacts DEF WorldTypes
<1>3. cmd[p].kind = "test" => cmd[p].topologies = {mode[p]}
  BY <1>0, CleanupFacts, CommandFacts
<1>4. ASSUME NEW u \in Topology, u \notin excused', containers'[u] # {}
      PROVE  Goes(u)
  <2>1. u \notin excused /\ u \notin nowFailed
    BY <1>4
  <2>2. u # mode[p]
    BY <1>4, <2>1
  <2>3. \A q \in Busy(u) : cmd[q].kind = "test" => cmd'[q] = cmd[q]
    BY <1>1, <1>3, <2>2 DEF Busy
  <2> QED
    BY <1>0, <2>1, <2>3, CleanupFacts DEF Goes
<1>5. Owed'
  BY <1>0, <1>4, OwedKept
<1> QED
  BY <1>1, <1>2, <1>5 DEF IInv

LEMMA RemoveStep ==
  ASSUME IInv, NEW p \in Process, Remove(p)
  PROVE  IInv'
<1>0. ProcessTypes /\ WorldTypes /\ Flow /\ Owed /\ CleanupStep(p)
  BY DEF IInv, CleanupStep
<1>1. PICK nowFailed \in SUBSET Topology :
        NextTopology(p, nowFailed) /\ (mode[p] \in nowFailed \/ containers'[mode[p]] = {})
  <2>1. mode[p] \in Topology /\ failed[p] \in SUBSET Topology
    BY <1>0 DEF ProcessTypes
  <2>2. CASE containers' = [containers EXCEPT ![mode[p]] = {}] /\ NextTopology(p, failed[p])
    <3>1. containers'[mode[p]] = {}
      BY <1>0, <2>1, <2>2 DEF WorldTypes
    <3> QED
      BY <2>1, <2>2, <3>1
  <2>3. CASE NextTopology(p, failed[p] \cup {mode[p]})
    <3>1. failed[p] \cup {mode[p]} \in SUBSET Topology
      BY <2>1
    <3> QED
      BY <2>3, <3>1
  <2> QED
    BY <2>2, <2>3 DEF Remove
<1>2. cmd[p] \in Commands /\ cmd[p].kind \in {"up", "down", "test"} /\ pc[p] = "remove"
  BY <1>0, CleanupFacts, CommandFacts DEF Remove, At
\* The loop goes on, or the rest of `stack up --fresh' follows.
<1>3. ASSUME NEW step \in {"compose_down", "exclusive"},
             step = "exclusive" => cmd[p].kind = "up",
             pc' = [pc EXCEPT ![p] = step], UNCHANGED <<cmd, excused>>,
             failed' = failed \/ failed' = [failed EXCEPT ![p] = nowFailed],
             \/ mode' = mode
             \/ "dataplane" \in cmd[p].topologies /\ mode' = [mode EXCEPT ![p] = "dataplane"]
      PROVE  IInv'
  <2>1. ProcessTypes'
    BY <1>0, <1>2, <1>3 DEF ProcessTypes, Step, Topology
  <2>2. step \in StepsOf(cmd[p].kind)
    BY <1>2, <1>3 DEF StepsOf
  <2>3. Flow'
    BY <1>0, <1>3, <2>2 DEF Flow, ProcessTypes
  <2>4. WorldTypes'
    BY <1>0, <1>3, CleanupFacts DEF WorldTypes
  <2>5. \A t \in Topology : t \in excused' \/ Goes(t)
    BY <1>0, <1>3, CleanupFacts DEF Goes
  <2> QED
    BY <1>0, <2>1, <2>3, <2>4, <2>5, OwedKept DEF IInv
<1>4. CASE mode[p] = "controlplane" /\ "dataplane" \in cmd[p].topologies
  BY <1>1, <1>3, <1>4 DEF NextTopology
<1>5. CASE Continue(p, nowFailed)
  <2>1. CASE cmd[p].kind = "up" /\ nowFailed = {}
    BY <1>3, <1>5, <2>1 DEF Continue
  <2>2. CASE ~(cmd[p].kind = "up" /\ nowFailed = {})
    BY <1>1, <1>5, <2>2, CleanedStep DEF Continue
  <2> QED
    BY <2>1, <2>2
<1> QED
  BY <1>1, <1>4, <1>5 DEF NextTopology

LEMMA KillStep ==
  ASSUME IInv, NEW p \in Process, Kill(p)
  PROVE  IInv'
<1>0. ProcessTypes /\ WorldTypes /\ Flow /\ Owed
  BY DEF IInv
<1>1. /\ pc[p] # "idle" /\ Return(p) /\ excused' = excused \cup cmd[p].topologies
      /\ UNCHANGED <<containers, volumes, checkout>>
  BY DEF Kill, At, world
<1>2. cmd[p].topologies \subseteq Topology
  BY <1>0, <1>1, RunningFacts, CommandFacts
<1>3. /\ ProcessTypes' /\ Flow'
      /\ \A q \in Process \ {p} : cmd'[q] = cmd[q]
  BY <1>0, <1>1, ReturnStep
<1>4. WorldTypes'
  BY <1>0, <1>1, <1>2 DEF WorldTypes
<1>5. \A t \in Topology : t \in excused' \/ Goes(t)
  BY <1>1, <1>3 DEF Goes, Busy
<1> QED
  BY <1>0, <1>3, <1>4, <1>5, OwedKept DEF IInv

-----------------------------------------------------------------------------
LEMMA InitInv == Init => IInv
<1> SUFFICES ASSUME Init PROVE IInv
  OBVIOUS
<1>1. ProcessTypes
  BY DEF Init, ProcessTypes, Step, Topology
<1>2. WorldTypes
  BY DEF Init, WorldTypes
<1>3. Flow
  BY DEF Init, Flow, StepsOf, Idle
<1>4. Owed
  BY DEF Init, Owed
<1> QED
  BY <1>1, <1>2, <1>3, <1>4 DEF IInv

LEMMA InvStep == IInv /\ [Next]_vars => IInv'
<1> SUFFICES ASSUME IInv, [Next]_vars PROVE IInv'
  OBVIOUS
<1>1. CASE UNCHANGED vars
  <2>1. UNCHANGED <<containers, volumes, checkout, cmd, pc, mode, failed, excused>>
    BY <1>1 DEF vars, world, process
  <2>2. ProcessTypes' /\ WorldTypes' /\ Flow'
    BY <2>1 DEF IInv, ProcessTypes, WorldTypes, Flow
  <2>3. Owed'
    BY <2>1, QuietStep DEF IInv
  <2> QED
    BY <2>2, <2>3 DEF IInv
<1>2. CASE Next
  BY <1>2, StackStep, TestStep, ComposeDownStep, RemoveStep, KillStep DEF Next, CleanupStep
<1> QED
  BY <1>1, <1>2

THEOREM Invariance == Spec => []IInv
  BY InitInv, InvStep, PTL DEF Spec

\* Every variable keeps its type; a command under way is at a topology of its own.
THEOREM TypeCorrect == Spec => []TypeOK
<1>1. IInv => TypeOK
  BY TypeParts DEF IInv
<1> QED
  BY <1>1, Invariance, PTL

\* Whatever fails, whoever is killed and however many harness processes there
\* are: once all commands on a topology have ended, nothing is left of its stack
\* that no `stack up' meant to leave and nobody reported.
THEOREM NothingIsLeft == Spec => []NothingLeft
<1>1. IInv => NothingLeft
  <2> SUFFICES ASSUME IInv, NEW t \in Topology \ excused
               PROVE  /\ Busy(t) = {} => containers[t] = {}
                      /\ "fast_test" \in containers[t] => \E p \in Busy(t) : cmd[p].live
    BY DEF NothingLeft
  <2> QED
    BY DEF IInv, Owed
<1> QED
  BY <1>1, Invariance, PTL

\* A database is emptied only while a command that resets is busy with its
\* topology, so never by a test workflow or a plain `stack up' or `stack down'.
THEOREM DataIsKept == Spec => DataKept
<1> DEFINE Kept == \A t \in volumes \ volumes' : \E p \in Busy(t) : cmd[p].reset
<1>1. IInv /\ [Next]_vars => Kept
  <2> SUFFICES ASSUME IInv, [Next]_vars, NEW t \in volumes, t \notin volumes'
               PROVE  \E p \in Busy(t) : cmd[p].reset
    OBVIOUS
  <2>1. PICK p \in Process : Stack(p) \/ Test(p) \/ CleanupStep(p) \/ Kill(p)
    BY DEF Next, vars, world
  <2>2. CleanupStep(p)
    BY <2>1 DEF Stack, Start, Sources, Exclusive, ComposeUp, ConformanceService,
                Test, Prepare, Snapshot, Operation, Kill, world
  <2>3. volumes' = CleanupVolumes(p, mode[p]) /\ mode[p] \in cmd[p].topologies
    BY <2>2, CleanupFacts
  <2>4. cmd[p].reset /\ t = mode[p]
    BY <2>3 DEF CleanupVolumes, Resets
  <2> QED
    BY <2>3, <2>4 DEF Busy
<1> QED
  BY <1>1, Invariance, PTL DEF Spec, DataKept

=============================================================================
