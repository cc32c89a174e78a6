--------------------- MODULE ConformanceArtifactsProofs ---------------------
(***************************************************************************)
(* Proofs about ConformanceArtifacts, for any configurations, scenarios,   *)
(* lane selections and number of commands: type correctness, and that the  *)
(* files of the lanes implement PublishedLanes.  The last theorems are     *)
(* about ScenarioComparison, that is what the report concludes from the    *)
(* artifacts it has read.                                                  *)
(***************************************************************************)
EXTENDS ConformanceArtifacts, TLAPS

InLane     == Preparing \cup {"running", "check", "mark", "marking"}
AfterClear == InLane \cup {"next", "report"}

USE ConstantAssumption DEF Lane, Run, Step, Preparing, InLane, AfterClear

-----------------------------------------------------------------------------
\* Type correctness.

LEMMA FirstIn ==
  ASSUME NEW ls \in SUBSET Lane, ls # {}
  PROVE  First(ls) \in ls
  BY DEF First

LEMMA FlowTypesStep == TypeOK /\ [Next]_vars => FlowTypes'
<1> SUFFICES ASSUME TypeOK, [Next]_vars PROVE FlowTypes'
  OBVIOUS
<1> USE DEF TypeOK, FlowTypes, flow
<1>1. CASE Clear
  BY <1>1 DEF Clear, StartRun, RemoveEntry, LaneCleared, ClearFails, Return
<1>2. CASE RunLane
  BY <1>2, FirstIn DEF RunLane, BeginLane, RemoveMarker, RecreateResults,
    WriteMetadata, Spawn, LaneFails, Check, OpenMarker, FillMarker
<1>3. CASE Stop
  BY <1>3 DEF Stop, Return
<1>4. ASSUME NEW r \in runners, RunnerStep(r) PROVE FlowTypes'
  BY <1>4 DEF RunnerStep, RunnerExits, Own, OpenResult, FillResult, OrphanExits
<1>5. CASE BeginReport \/ StartReport \/ EndReport \/ EndRun
  BY <1>5 DEF BeginReport, StartReport, EndReport, EndRun, Return
<1>6. ASSUME NEW p \in {"run", "report"}, Report(p) PROVE FlowTypes'
  BY <1>6 DEF Report, ReadLane, ReadFails, WriteReport
<1>7. CASE UNCHANGED vars
  BY <1>7 DEF vars
<1> QED
  BY <1>1, <1>2, <1>3, <1>4, <1>5, <1>6, <1>7 DEF Next

LEMMA DiskTypesStep == TypeOK /\ [Next]_vars => DiskTypes'
<1> SUFFICES ASSUME TypeOK, [Next]_vars PROVE DiskTypes'
  OBVIOUS
<1> USE DEF TypeOK, FlowTypes, DiskTypes, disk
<1>1. CASE Clear
  BY <1>1, FirstIn DEF Clear, StartRun, RemoveEntry, LaneCleared, ClearFails
<1>2. CASE RunLane
  <2>1. CASE RecreateResults
    BY <2>1 DEF RecreateResults
  <2>2. CASE WriteMetadata
    BY <2>2 DEF WriteMetadata
  <2>3. CASE RemoveMarker
    BY <2>3 DEF RemoveMarker
  <2>4. CASE OpenMarker
    BY <2>4 DEF OpenMarker
  <2>5. CASE FillMarker
    BY <2>5 DEF FillMarker
  <2> QED
    BY <1>2, <2>1, <2>2, <2>3, <2>4, <2>5 DEF RunLane, BeginLane, Spawn,
      LaneFails, Check
<1>3. CASE Stop
  BY <1>3 DEF Stop
<1>4. ASSUME NEW r \in runners, RunnerStep(r) PROVE DiskTypes'
  <2> USE DEF ProcessTypes, ResultFile
  <2>1. CASE OpenResult(r)
    <3>1. PICK s \in r.todo :
            results' = [results EXCEPT ![r.lane] =
                          @ \cup {[by |-> r.by, scenario |-> s, whole |-> FALSE]}]
      BY <2>1 DEF OpenResult
    <3>2. [by |-> r.by, scenario |-> s, whole |-> FALSE] \in ResultFile
      OBVIOUS
    <3> QED
      BY <2>1, <3>1, <3>2 DEF OpenResult
  <2>2. CASE FillResult(r)
    <3>1. PICK f \in results[r.lane] :
            results' = [results EXCEPT ![r.lane] = (@ \ {f}) \cup {[f EXCEPT !.whole = TRUE]}]
      BY <2>2 DEF FillResult
    <3>2. f \in ResultFile
      OBVIOUS
    <3>3. [f EXCEPT !.whole = TRUE] \in ResultFile
      BY <3>2
    <3> QED
      BY <2>2, <3>1, <3>3 DEF FillResult
  <2> QED
    BY <1>4, <2>1, <2>2 DEF RunnerStep, RunnerExits, OrphanExits
<1>5. CASE BeginReport \/ StartReport \/ EndReport \/ EndRun
  BY <1>5 DEF BeginReport, StartReport, EndReport, EndRun
<1>6. ASSUME NEW p \in {"run", "report"}, Report(p) PROVE DiskTypes'
  BY <1>6 DEF Report, ReadLane, ReadFails, WriteReport
<1>7. CASE UNCHANGED vars
  BY <1>7 DEF vars
<1> QED
  BY <1>1, <1>2, <1>3, <1>4, <1>5, <1>6, <1>7 DEF Next

LEMMA ProcessTypesStep == TypeOK /\ [Next]_vars => ProcessTypes'
<1> SUFFICES ASSUME TypeOK, [Next]_vars PROVE ProcessTypes'
  OBVIOUS
<1> USE DEF TypeOK, FlowTypes, ProcessTypes, procs
<1>1. CASE Clear
  BY <1>1 DEF Clear, StartRun, RemoveEntry, LaneCleared, ClearFails
<1>2. CASE RunLane
  <2>1. CASE Spawn
    <3>1. [by |-> runs, lane |-> at, todo |-> Scenario]
            \in [by : Run, lane : Lane, todo : SUBSET Scenario]
      BY <2>1 DEF Spawn
    <3> QED
      BY <2>1, <3>1 DEF Spawn
  <2> QED
    BY <1>2, <2>1 DEF RunLane, BeginLane, RemoveMarker, RecreateResults,
      WriteMetadata, LaneFails, Check, OpenMarker, FillMarker
<1>3. CASE Stop
  BY <1>3 DEF Stop
<1>4. ASSUME NEW r \in runners, RunnerStep(r) PROVE ProcessTypes'
  BY <1>4 DEF RunnerStep, RunnerExits, OpenResult, FillResult, OrphanExits
<1>5. CASE BeginReport \/ StartReport \/ EndReport \/ EndRun
  BY <1>5 DEF BeginReport, StartReport, EndReport, EndRun
<1>6. ASSUME NEW p \in {"run", "report"}, Report(p) PROVE ProcessTypes'
  BY <1>6 DEF Report, ReadLane, ReadFails, WriteReport
<1>7. CASE UNCHANGED vars
  BY <1>7 DEF vars
<1> QED
  BY <1>1, <1>2, <1>3, <1>4, <1>5, <1>6, <1>7 DEF Next

LEMMA OffIn == Off \in Reader
BY DEF Off, Reader

LEMMA ReadTypesStep == TypeOK /\ [Next]_vars => ReadTypes'
<1> SUFFICES ASSUME TypeOK, [Next]_vars PROVE ReadTypes'
  OBVIOUS
<1> USE DEF TypeOK, ReadTypes, reads
<1>1. CASE Clear
  <2>1. CASE StartRun
    <3>1. reader["report"] \in Reader
      OBVIOUS
    <3>2. [reader["report"] EXCEPT !.quiet = FALSE] \in Reader
      BY <3>1 DEF Reader
    <3> QED
      BY <2>1, <3>2 DEF StartRun
  <2> QED
    BY <1>1, <2>1 DEF Clear, RemoveEntry, LaneCleared, ClearFails
<1>2. CASE RunLane
  BY <1>2 DEF RunLane, BeginLane, RemoveMarker, RecreateResults,
    WriteMetadata, Spawn, LaneFails, Check, OpenMarker, FillMarker
<1>3. CASE Stop
  BY <1>3, OffIn DEF Stop
<1>4. ASSUME NEW r \in runners, RunnerStep(r) PROVE ReadTypes'
  BY <1>4 DEF RunnerStep, RunnerExits, OpenResult, FillResult, OrphanExits
<1>5. CASE BeginReport \/ StartReport \/ EndReport \/ EndRun
  <2>1. Opened(TRUE) \in Reader /\ Opened(FALSE) \in Reader
    BY DEF Opened, Reader
  <2>2. Opened(pc = "idle") \in {Opened(TRUE), Opened(FALSE)}
    BY Zenon DEF Opened
  <2>3. CASE BeginReport
    BY <2>1, <2>3 DEF BeginReport
  <2>4. CASE StartReport
    <3> DEFINE opened == Opened(pc = "idle")
    <3>1. opened \in Reader
      BY <2>1, <2>2
    <3>2. reader' = [reader EXCEPT !["report"] = opened]
      BY <2>4 DEF StartReport
    <3>3. reports' \in 0 .. MaxReports
      BY <2>4 DEF StartReport
    <3> HIDE DEF opened
    <3> QED
      BY <3>1, <3>2, <3>3
  <2> QED
    BY <1>5, <2>3, <2>4, OffIn DEF EndReport, EndRun
<1>6. ASSUME NEW p \in {"run", "report"}, Report(p) PROVE ReadTypes'
  <2>1. CASE ReadFails(p)
    BY <2>1, OffIn DEF ReadFails
  <2>2. CASE WriteReport(p)
    <3>1. [reader[p] EXCEPT !.at = "written"] \in Reader
      BY DEF Reader
    <3> QED
      BY <2>2, <3>1 DEF WriteReport
  <2>3. CASE ReadLane(p)
    <3> DEFINE l == reader[p].at
               x == [lane |-> l, by |-> metadata[l], from |-> {f.by : f \in results[l]}]
    <3>1. l \in Lane /\ After(l) \in Lane \cup {"write"}
      BY <2>3 DEF ReadLane, After
    <3> reader[p] \in Reader
      OBVIOUS
    <3>2. CASE reader' = [reader EXCEPT ![p].at = After(l)]
      <4>1. [reader[p] EXCEPT !.at = After(l)] \in Reader
        BY <3>1 DEF Reader
      <4> QED
        BY <3>2, <4>1, <2>3 DEF ReadLane
    <3>3. CASE Loads(l) /\ reader' = [reader EXCEPT ![p].at = After(l),
                                                   ![p].loaded = @ \cup {x}]
      <4>1. x \in Loaded
        BY <3>1, <3>3 DEF Loads, Loaded, DiskTypes, ResultFile
      <4>2. [reader[p] EXCEPT !.at = After(l), !.loaded = @ \cup {x}] \in Reader
        BY <3>1, <4>1 DEF Reader
      <4> HIDE DEF l, x
      <4> QED
        BY <2>3, <3>3, <4>2 DEF ReadLane
    <3> QED
      BY <2>3, <3>2, <3>3 DEF ReadLane
  <2> QED
    BY <1>6, <2>1, <2>2, <2>3 DEF Report
<1>7. CASE UNCHANGED vars
  BY <1>7 DEF vars
<1> QED
  BY <1>1, <1>2, <1>3, <1>4, <1>5, <1>6, <1>7 DEF Next

LEMMA TypeStep == TypeOK /\ [Next]_vars => TypeOK'
BY FlowTypesStep, DiskTypesStep, ProcessTypesStep, ReadTypesStep DEF TypeOK

LEMMA InitTypes == Init => TypeOK
<1> SUFFICES ASSUME Init PROVE TypeOK
  OBVIOUS
<1>1. FlowTypes
  BY DEF Init, FlowTypes
<1>2. DiskTypes
  BY DEF Init, DiskTypes
<1>3. ProcessTypes
  BY DEF Init, ProcessTypes
<1>4. ReadTypes
  BY OffIn DEF Init, ReadTypes
<1> QED
  BY <1>1, <1>2, <1>3, <1>4 DEF TypeOK

\* Files, processes and readers stay what the model says they are.
THEOREM TypeCorrect == Spec => []TypeOK
BY InitTypes, TypeStep, PTL DEF Spec

-----------------------------------------------------------------------------
\* The lanes on disk.

\* A run works on one of the lanes it selected, each at most once.
Progress ==
  /\ pc = "clear" => remaining # {}
  /\ pc \in AfterClear => remaining \subseteq lanes
  /\ pc \in InLane => at \in lanes \ remaining

\* Clearing empties lane by lane what older runs left; from then on all markers
\* and metadata are this run's, and a lane has no marker until it is validated.
LaneFiles ==
  /\ \A l \in Lane : metadata[l] <= runs
  /\ pc = "clear" => \A l \in Lane :
       /\ metadata[l] < runs
       /\ l \notin remaining => marker[l] = "none" /\ metadata[l] = 0
  /\ pc \in AfterClear => \A l \in Lane :
       /\ metadata[l] \in {0, runs}
       /\ marker[l] # "none" => metadata[l] = runs /\ l \in lanes \ remaining
  /\ pc \in InLane \ {"marking"} => marker[at] = "none"
  /\ pc \in {"spawn", "running", "check", "mark", "marking"} => metadata[at] = runs
  /\ pc = "marking" => marker[at] = "torn"

OneRunOnDisk ==
  \A l, m \in Lane : Published[l] # 0 /\ Published[m] # 0 => Published[l] = Published[m]

DiskInv == Progress /\ LaneFiles /\ OneRunOnDisk

LEMMA DiskInvInit == Init => DiskInv
BY DEF Init, DiskInv, Progress, LaneFiles, OneRunOnDisk, Published

LEMMA ProgressStep == TypeOK /\ DiskInv /\ [Next]_vars => Progress'
<1> SUFFICES ASSUME TypeOK, DiskInv, [Next]_vars PROVE Progress'
  OBVIOUS
<1> USE DEF TypeOK, FlowTypes, DiskInv, Progress, flow
<1>1. CASE Clear
  BY <1>1, FirstIn DEF Clear, StartRun, RemoveEntry, LaneCleared, ClearFails, Return
<1>2. CASE RunLane
  <2>1. CASE BeginLane
    <3>1. First(remaining) \in remaining
      BY <2>1, FirstIn DEF BeginLane
    <3> QED
      BY <2>1, <3>1 DEF BeginLane
  <2> QED
    BY <1>2, <2>1 DEF RunLane, RemoveMarker, RecreateResults, WriteMetadata,
      Spawn, LaneFails, Check, OpenMarker, FillMarker
<1>3. CASE Stop
  BY <1>3 DEF Stop, Return
<1>4. ASSUME NEW r \in runners, RunnerStep(r) PROVE Progress'
  BY <1>4 DEF RunnerStep, RunnerExits, Own, OpenResult, FillResult, OrphanExits
<1>5. CASE BeginReport \/ StartReport \/ EndReport \/ EndRun
  BY <1>5 DEF BeginReport, StartReport, EndReport, EndRun, Return
<1>6. ASSUME NEW p \in {"run", "report"}, Report(p) PROVE Progress'
  BY <1>6 DEF Report, ReadLane, ReadFails, WriteReport
<1>7. CASE UNCHANGED vars
  BY <1>7 DEF vars
<1> QED
  BY <1>1, <1>2, <1>3, <1>4, <1>5, <1>6, <1>7 DEF Next

LEMMA LaneFilesStep == TypeOK /\ DiskInv /\ [Next]_vars => LaneFiles'
<1> SUFFICES ASSUME TypeOK, DiskInv, [Next]_vars PROVE LaneFiles'
  OBVIOUS
<1> USE DEF TypeOK, FlowTypes, DiskTypes, DiskInv, Progress, LaneFiles, flow, disk
<1>1. CASE StartRun
  BY <1>1 DEF StartRun
<1>2. CASE RemoveEntry
  BY <1>2, FirstIn DEF RemoveEntry
<1>3. CASE LaneCleared
  BY <1>3, FirstIn DEF LaneCleared, NoArtifacts
<1>4. CASE BeginLane
  <2>1. First(remaining) \in remaining
    BY <1>4, FirstIn DEF BeginLane
  <2>2. /\ marker' = marker /\ metadata' = metadata /\ runs' = runs /\ lanes' = lanes
        /\ at' = First(remaining) /\ remaining' = remaining \ {at'}
        /\ pc = "next" /\ pc' \in {"marker", "next"}
    BY <1>4 DEF BeginLane
  <2>3. at' \in Lane /\ marker[at'] = "none"
    BY <2>1, <2>2
  <2> HIDE DEF First
  <2> QED
    BY <2>2, <2>3
<1>5. CASE RemoveMarker
  BY <1>5 DEF RemoveMarker
<1>6. CASE WriteMetadata
  BY <1>6 DEF WriteMetadata
<1>7. CASE OpenMarker
  BY <1>7 DEF OpenMarker
<1>8. CASE FillMarker
  BY <1>8 DEF FillMarker
<1>9. CASE RecreateResults \/ Spawn \/ LaneFails \/ Check
  BY <1>9 DEF RecreateResults, Spawn, LaneFails, Check
<1>10. CASE ClearFails \/ Stop
  BY <1>10 DEF ClearFails, Stop, Return
<1>11. ASSUME NEW r \in runners, RunnerStep(r) PROVE LaneFiles'
  BY <1>11 DEF RunnerStep, RunnerExits, Own, OpenResult, FillResult, OrphanExits
<1>12. CASE BeginReport \/ StartReport \/ EndReport \/ EndRun
  <2>1. marker' = marker /\ metadata' = metadata /\ runs' = runs
    BY <1>12 DEF BeginReport, StartReport, EndReport, EndRun
  <2>2. CASE BeginReport
    BY <2>1, <2>2 DEF BeginReport
  <2>3. CASE EndRun
    BY <2>1, <2>3 DEF EndRun, Return
  <2> QED
    BY <1>12, <2>1, <2>2, <2>3 DEF StartReport, EndReport
<1>13. ASSUME NEW p \in {"run", "report"}, Report(p) PROVE LaneFiles'
  BY <1>13 DEF Report, ReadLane, ReadFails, WriteReport
<1>14. CASE UNCHANGED vars
  BY <1>14 DEF vars
<1> QED
  BY <1>1, <1>2, <1>3, <1>4, <1>5, <1>6, <1>7, <1>8, <1>9, <1>10, <1>11,
     <1>12, <1>13, <1>14 DEF Next, Clear, RunLane

\* Removing a lane's marker or metadata unpublishes that lane and no other.
LEMMA PublishedForgets ==
  ASSUME DiskTypes, NEW l \in Lane,
         \/ marker' = [marker EXCEPT ![l] = "none"] /\ metadata' = metadata
         \/ metadata' = [metadata EXCEPT ![l] = 0] /\ marker' = marker
  PROVE  Published' = [Published EXCEPT ![l] = 0]
<1>1. ASSUME NEW m \in Lane
      PROVE  Published'[m] = IF m = l THEN 0 ELSE Published[m]
  BY DEF DiskTypes, Published
<1>2. Published' = [m \in Lane |-> Published'[m]] /\ Published = [m \in Lane |-> Published[m]]
  BY DEF Published
<1> HIDE DEF Published
<1> QED
  BY <1>1, <1>2

\* Every step publishes, discards or leaves alone what readers see.
LEMMA AbstractStep ==
  TypeOK /\ DiskInv /\ [Next]_vars => [Abstract!Next]_(Abstract!vars)
<1> SUFFICES ASSUME TypeOK, DiskInv, [Next]_vars
             PROVE  [Abstract!Next]_(Abstract!vars)
  OBVIOUS
<1> DEFINE Unseen == runs' = runs /\ marker' = marker /\ metadata' = metadata
<1> USE DEF TypeOK, FlowTypes, DiskTypes, DiskInv, Progress, LaneFiles, flow, disk
<1>0. ASSUME Unseen PROVE UNCHANGED Abstract!vars
  BY <1>0 DEF Abstract!vars, Published
<1>1. CASE StartRun
  BY <1>1 DEF StartRun, Abstract!Next, Abstract!Start, Published
<1>2. CASE RemoveEntry
  <2> DEFINE l == First(remaining)
  <2>1. l \in Lane /\ l \in remaining
    BY <1>2, FirstIn DEF RemoveEntry
  <2>2. Published[l] \in 0 .. runs - 1
    BY <1>2, <2>1 DEF RemoveEntry, Published
  <2>3. CASE marker' = marker /\ metadata' = metadata
    BY <1>0, <1>2, <2>3 DEF RemoveEntry
  <2>4. CASE ~(marker' = marker /\ metadata' = metadata)
    <3>1. /\ runs' = runs
          /\ \/ marker' = [marker EXCEPT ![l] = "none"] /\ metadata' = metadata
             \/ metadata' = [metadata EXCEPT ![l] = 0] /\ marker' = marker
      BY <1>2, <2>4 DEF RemoveEntry
    <3> HIDE DEF l
    <3>4. Published' = [Published EXCEPT ![l] = 0]
      BY <2>1, <3>1, PublishedForgets
    <3>5. Published = [m \in Lane |-> Published[m]]
      BY DEF Published
    <3>2. CASE Published[l] = 0
      <4>1. Published' = Published
        BY <3>4, <3>5, <3>2
      <4> QED
        BY <3>1, <4>1 DEF Abstract!vars
    <3>3. CASE Published[l] # 0
      <4>1. Published[l] \in 1 .. runs - 1
        BY <2>2, <3>3
      <4>2. Abstract!Discard(l)
        BY <3>1, <3>4, <4>1 DEF Abstract!Discard
      <4> QED
        BY <2>1, <4>2 DEF Abstract!Next
    <3> QED
      BY <3>2, <3>3
  <2> QED
    BY <2>3, <2>4
<1>3. CASE LaneCleared
  BY <1>0, <1>3 DEF LaneCleared
<1>4. CASE BeginLane
  BY <1>0, <1>4 DEF BeginLane
<1>5. CASE RemoveMarker
  <2>1. marker' = marker
    BY <1>5 DEF RemoveMarker
  <2> QED
    BY <1>0, <1>5, <2>1 DEF RemoveMarker
<1>6. CASE WriteMetadata
  <2>1. marker[at] = "none" /\ at \in Lane /\ marker' = marker /\ runs' = runs
        /\ metadata' = [metadata EXCEPT ![at] = runs]
    BY <1>6 DEF WriteMetadata
  <2>2. Published' = Published
    BY <2>1 DEF Published
  <2> QED
    BY <2>1, <2>2 DEF Abstract!vars
<1>7. CASE OpenMarker
  <2>1. marker[at] = "none" /\ at \in Lane /\ metadata' = metadata /\ runs' = runs
        /\ marker' = [marker EXCEPT ![at] = "torn"]
    BY <1>7 DEF OpenMarker
  <2>2. Published' = Published
    BY <2>1 DEF Published
  <2> QED
    BY <2>1, <2>2 DEF Abstract!vars
<1>8. CASE FillMarker
  <2>0. /\ at \in Lane /\ runs' = runs /\ runs > 0 /\ metadata' = metadata
        /\ metadata[at] = runs /\ marker[at] = "torn"
        /\ marker' = [marker EXCEPT ![at] = "whole"]
    BY <1>8 DEF FillMarker
  <2>1. Published[at] = 0 /\ Published' = [Published EXCEPT ![at] = runs]
    BY <2>0 DEF Published
  <2>2. \A m \in Lane : Published[m] \in {0, runs}
    BY <1>8 DEF FillMarker, Published
  <2> QED
    BY <2>0, <2>1, <2>2 DEF Abstract!Next, Abstract!Publish
<1>9. CASE RecreateResults \/ Spawn \/ LaneFails \/ Check
  BY <1>0, <1>9 DEF RecreateResults, Spawn, LaneFails, Check
<1>10. CASE ClearFails \/ Stop
  BY <1>0, <1>10 DEF ClearFails, Stop
<1>11. ASSUME NEW r \in runners, RunnerStep(r) PROVE Unseen
  BY <1>11 DEF RunnerStep, RunnerExits, OpenResult, FillResult, OrphanExits
<1>12. CASE BeginReport \/ StartReport \/ EndReport \/ EndRun
  BY <1>0, <1>12 DEF BeginReport, StartReport, EndReport, EndRun
<1>13. ASSUME NEW p \in {"run", "report"}, Report(p) PROVE Unseen
  BY <1>13 DEF Report, ReadLane, ReadFails, WriteReport
<1>14. CASE UNCHANGED vars
  BY <1>0, <1>14 DEF vars
<1> QED
  BY <1>0, <1>1, <1>2, <1>3, <1>4, <1>5, <1>6, <1>7, <1>8, <1>9, <1>10, <1>11,
     <1>12, <1>13, <1>14 DEF Next, Clear, RunLane

\* What the abstract steps keep: at most one run is published.
LEMMA OneRunStep ==
  ASSUME TypeOK, OneRunOnDisk, [Abstract!Next]_(Abstract!vars)
  PROVE  OneRunOnDisk'
<1>1. Published \in [Lane -> 0 .. MaxRuns]
  BY DEF TypeOK, DiskTypes, Published
<1>2. CASE Abstract!Start \/ UNCHANGED Abstract!vars
  BY <1>2 DEF Abstract!Start, Abstract!vars, OneRunOnDisk
<1>3. ASSUME NEW l \in Lane, Abstract!Discard(l) PROVE OneRunOnDisk'
  BY <1>1, <1>3 DEF Abstract!Discard, OneRunOnDisk
<1>4. ASSUME NEW l \in Lane, Abstract!Publish(l) PROVE OneRunOnDisk'
  BY <1>1, <1>4 DEF Abstract!Publish, OneRunOnDisk
<1> QED
  BY <1>2, <1>3, <1>4 DEF Abstract!Next

LEMMA DiskInvStep == TypeOK /\ DiskInv /\ [Next]_vars => DiskInv'
BY ProgressStep, LaneFilesStep, AbstractStep, OneRunStep DEF DiskInv

LEMMA DiskInvariance == Spec => [](TypeOK /\ DiskInv)
<1>1. Init => TypeOK /\ DiskInv
  BY InitTypes, DiskInvInit
<1>2. TypeOK /\ DiskInv /\ [Next]_vars => (TypeOK /\ DiskInv)'
  BY TypeStep, DiskInvStep
<1> QED
  BY <1>1, <1>2, PTL DEF Spec

\* The files of the lanes implement atomic publication: each run publishes whole
\* lanes once and for good, and never next to lanes of an older run.
THEOREM Refinement == Spec => PublishesAtomically
<1>1. Init => Abstract!Init
  BY DEF Init, Abstract!Init, Published
<1> QED
  BY <1>1, DiskInvariance, AbstractStep, PTL DEF Spec, PublishesAtomically, Abstract!Spec

-----------------------------------------------------------------------------
\* Runners and what they wrote.

\* Only the runner of the current lane carries the current run's number; every
\* file was written by a run that has started.
RunnersKnown ==
  /\ \A r \in runners : r.by <= runs
  /\ pc \notin {"idle", "running"} => \A r \in runners : r.by < runs
  /\ pc = "running" => \A r, q \in runners :
       r.by = runs /\ q.by = runs => r.lane = at /\ r = q
  /\ \A l \in Lane : \A f \in results[l] : f.by <= runs
  /\ ~orphaned => runners \subseteq Own

Wrote(l, scenarios) ==
  \A s \in scenarios : \E f \in results[l] : f.by = runs /\ f.scenario = s

\* A runner leaves a file for each scenario it is past, and for all of them when
\* it did not stop early.
ResultsWritten ==
  /\ \A r \in Own : Wrote(at, Scenario \ r.todo)
  /\ pc \in {"check", "mark", "marking"} /\ at \notin early => Wrote(at, Scenario)
  /\ pc \in AfterClear => \A l \in Lane :
       marker[l] # "none" /\ l \notin early => Wrote(l, Scenario)

\* Where no orphan interferes, early lanes stay without a marker.
EarlyUnmarked ==
  ~orphaned =>
    /\ pc \in {"metadata", "spawn"} => results[at] = {}
    /\ \A r \in Own : \A f \in results[at] : f.scenario \notin r.todo
    /\ pc = "check" /\ at \in early => ~Exact(results[at])
    /\ pc \in InLane \ {"check"} => at \notin early
    /\ pc = "clear" => early = {}
    /\ pc \in AfterClear => early \cap remaining = {}
    /\ \A l \in early : marker[l] = "none" \/ metadata[l] # runs

FilesInv == RunnersKnown /\ ResultsWritten /\ EarlyUnmarked

\* What the two readers hold while they are at it.
RunReads ==
  reader["run"].at # "off" =>
    /\ pc = "report"
    /\ \A x \in reader["run"].loaded :
         x.by = runs /\ x.lane \in lanes /\ (x.lane \notin early => x.from = {runs})

QuietReads ==
  reader["report"].at # "off" /\ reader["report"].quiet =>
    /\ pc = "idle"
    /\ \A x \in reader["report"].loaded : Published[x.lane] = x.by

IInv == TypeOK /\ DiskInv /\ FilesInv /\ RunReads /\ QuietReads

LEMMA FilesInvInit == Init => FilesInv /\ RunReads /\ QuietReads
BY DEF Init, FilesInv, RunnersKnown, ResultsWritten, EarlyUnmarked, RunReads,
       QuietReads, Own, Wrote, Off

\* Replacing a runner or a file by its next state changes neither whose it is nor
\* what it is about.
LEMMA OpenResultFacts ==
  ASSUME TypeOK, NEW r \in runners, OpenResult(r)
  PROVE  \E q, f :
    /\ f.scenario \in r.todo /\ f.by = r.by /\ ~f.whole
    /\ q.by = r.by /\ q.lane = r.lane /\ q.todo = r.todo \ {f.scenario}
    /\ runners' = (runners \ {r}) \cup {q}
    /\ results' = [results EXCEPT ![r.lane] = @ \cup {f}]
<1>1. PICK s \in r.todo :
        /\ results' = [results EXCEPT ![r.lane] =
                         @ \cup {[by |-> r.by, scenario |-> s, whole |-> FALSE]}]
        /\ runners' = (runners \ {r}) \cup {[r EXCEPT !.todo = @ \ {s}]}
  BY DEF OpenResult
<1> DEFINE q == [r EXCEPT !.todo = @ \ {s}]
           f == [by |-> r.by, scenario |-> s, whole |-> FALSE]
<1>2. r \in [by : Run, lane : Lane, todo : SUBSET Scenario]
  BY DEF TypeOK, ProcessTypes
<1>3. q.by = r.by /\ q.lane = r.lane /\ q.todo = r.todo \ {s}
  BY <1>2
<1>4. f.by = r.by /\ f.scenario = s /\ ~f.whole
  OBVIOUS
<1>5. /\ runners' = (runners \ {r}) \cup {q}
      /\ results' = [results EXCEPT ![r.lane] = @ \cup {f}]
  BY <1>1
<1> HIDE DEF q, f
<1> QED
  BY <1>3, <1>4, <1>5

LEMMA FillResultFacts ==
  ASSUME TypeOK, NEW r \in runners, FillResult(r)
  PROVE  \E f \in results[r.lane] : \E g :
    /\ f.by = r.by /\ g.by = f.by /\ g.scenario = f.scenario
    /\ results' = [results EXCEPT ![r.lane] = (@ \ {f}) \cup {g}]
<1>1. PICK f \in results[r.lane] :
        /\ f.by = r.by
        /\ results' = [results EXCEPT ![r.lane] = (@ \ {f}) \cup {[f EXCEPT !.whole = TRUE]}]
  BY DEF FillResult
<1> DEFINE g == [f EXCEPT !.whole = TRUE]
<1>2. f \in ResultFile
  BY DEF TypeOK, ProcessTypes, DiskTypes
<1>3. g.by = f.by /\ g.scenario = f.scenario
  BY <1>2 DEF ResultFile
<1>4. results' = [results EXCEPT ![r.lane] = (@ \ {f}) \cup {g}]
  BY <1>1
<1> HIDE DEF g
<1> QED
  BY <1>1, <1>3, <1>4

LEMMA RunnersKnownStep ==
  TypeOK /\ FilesInv /\ [Next]_vars => RunnersKnown'
<1> SUFFICES ASSUME TypeOK, FilesInv, [Next]_vars PROVE RunnersKnown'
  OBVIOUS
<1> USE DEF TypeOK, FlowTypes, DiskTypes, ProcessTypes, FilesInv, RunnersKnown,
            Own, flow, disk, procs
<1>1. CASE StartRun
  BY <1>1 DEF StartRun, ResultFile
<1>2. CASE RemoveEntry
  <2>1. \A l \in Lane : results'[l] \subseteq results[l]
    BY <1>2 DEF RemoveEntry
  <2> QED
    BY <1>2, <2>1 DEF RemoveEntry
<1>3. CASE LaneCleared \/ ClearFails
  BY <1>3 DEF LaneCleared, ClearFails, Return
<1>4. CASE RecreateResults
  BY <1>4 DEF RecreateResults
<1>5. CASE Spawn
  BY <1>5 DEF Spawn
<1>6. CASE BeginLane \/ RemoveMarker \/ WriteMetadata \/ LaneFails \/ Check
             \/ OpenMarker \/ FillMarker
  BY <1>6 DEF BeginLane, RemoveMarker, WriteMetadata, LaneFails, Check,
    OpenMarker, FillMarker
<1>7. CASE Stop
  BY <1>7 DEF Stop, Return
<1>8. ASSUME NEW r \in runners, RunnerStep(r) PROVE RunnersKnown'
  <2>1. CASE RunnerExits(r)
    BY <2>1 DEF RunnerExits
  <2>2. CASE OpenResult(r)
    <3>1. UNCHANGED <<runs, pc, at, orphaned>>
      BY <2>2 DEF OpenResult
    <3>2. PICK q, f :
            /\ f.by = r.by /\ q.by = r.by /\ q.lane = r.lane
            /\ runners' = (runners \ {r}) \cup {q}
            /\ results' = [results EXCEPT ![r.lane] = @ \cup {f}]
      BY <2>2, OpenResultFacts
    <3>3. r.by <= runs /\ r.lane \in Lane
      OBVIOUS
    <3> QED
      BY <3>1, <3>2, <3>3
  <2>3. CASE FillResult(r)
    <3>1. UNCHANGED <<runs, pc, at, orphaned, runners>>
      BY <2>3 DEF FillResult
    <3>2. PICK f \in results[r.lane] : \E g :
            /\ g.by = f.by
            /\ results' = [results EXCEPT ![r.lane] = (@ \ {f}) \cup {g}]
      BY <2>3, FillResultFacts
    <3> QED
      BY <3>1, <3>2
  <2>4. CASE OrphanExits(r)
    BY <2>4 DEF OrphanExits
  <2> QED
    BY <1>8, <2>1, <2>2, <2>3, <2>4 DEF RunnerStep
<1>9. CASE BeginReport \/ StartReport \/ EndReport \/ EndRun
  <2>1. UNCHANGED <<runs, results, runners, orphaned>>
    BY <1>9 DEF BeginReport, StartReport, EndReport, EndRun
  <2>2. CASE BeginReport \/ EndRun
    BY <2>1, <2>2 DEF BeginReport, EndRun, Return
  <2>3. CASE StartReport \/ EndReport
    BY <2>1, <2>3 DEF StartReport, EndReport
  <2> QED
    BY <1>9, <2>2, <2>3
<1>10. ASSUME NEW p \in {"run", "report"}, Report(p) PROVE RunnersKnown'
  BY <1>10 DEF Report, ReadLane, ReadFails, WriteReport
<1>11. CASE UNCHANGED vars
  BY <1>11 DEF vars
<1> QED
  BY <1>1, <1>2, <1>3, <1>4, <1>5, <1>6, <1>7, <1>8, <1>9, <1>10, <1>11
    DEF Next, Clear, RunLane

\* What was written stays written while no scenario loses its file.
LEMMA WrittenKept ==
  ASSUME TypeOK, ResultsWritten, UNCHANGED <<runs, pc, at, early, marker, runners>>,
         \A l \in Lane, s \in Scenario :
           (\E x \in results[l] : x.by = runs /\ x.scenario = s)
             => \E x \in results'[l] : x.by = runs /\ x.scenario = s
  PROVE  ResultsWritten'
<1>1. ASSUME NEW l \in Lane, NEW ss \in SUBSET Scenario, Wrote(l, ss)
      PROVE  Wrote(l, ss)'
  BY <1>1 DEF Wrote
<1>2. Own' = Own
  BY DEF Own
<1>3. at \in Lane
  BY DEF TypeOK, FlowTypes
<1> QED
  BY <1>1, <1>2, <1>3 DEF ResultsWritten

LEMMA ResultsWrittenStep ==
  TypeOK /\ DiskInv /\ FilesInv /\ [Next]_vars => ResultsWritten'
<1> SUFFICES ASSUME TypeOK, DiskInv, FilesInv, [Next]_vars PROVE ResultsWritten'
  OBVIOUS
<1> USE DEF TypeOK, FlowTypes, DiskTypes, ProcessTypes, DiskInv, Progress,
            LaneFiles, FilesInv, RunnersKnown, ResultsWritten, Wrote, Own,
            flow, disk, procs
<1>1. CASE StartRun \/ RemoveEntry \/ ClearFails
  BY <1>1 DEF StartRun, RemoveEntry, ClearFails, Return
<1>2. CASE LaneCleared
  BY <1>2, FirstIn DEF LaneCleared, NoArtifacts
<1>3. CASE RecreateResults
  BY <1>3 DEF RecreateResults
<1>4. CASE Spawn
  BY <1>4 DEF Spawn
<1>5. CASE FillMarker
  BY <1>5 DEF FillMarker
<1>6. CASE BeginLane \/ RemoveMarker \/ WriteMetadata \/ LaneFails \/ Check \/ OpenMarker
  <2>1. CASE BeginLane
    BY <2>1 DEF BeginLane
  <2>2. CASE RemoveMarker
    BY <2>2 DEF RemoveMarker
  <2>3. CASE WriteMetadata
    BY <2>3 DEF WriteMetadata
  <2>4. CASE LaneFails
    BY <2>4 DEF LaneFails
  <2>5. CASE Check
    BY <2>5 DEF Check
  <2>6. CASE OpenMarker
    BY <2>6 DEF OpenMarker
  <2> QED
    BY <1>6, <2>1, <2>2, <2>3, <2>4, <2>5, <2>6
<1>7. CASE Stop
  BY <1>7 DEF Stop, Return
<1>8. ASSUME NEW r \in runners, RunnerStep(r) PROVE ResultsWritten'
  <2>1. CASE RunnerExits(r)
    BY <2>1 DEF RunnerExits, Unfinished
  <2>2. CASE OpenResult(r)
    <3>1. UNCHANGED <<runs, pc, at, early, marker>>
      BY <2>2 DEF OpenResult
    <3>2. PICK q, f :
            /\ f.by = r.by /\ q.by = r.by /\ q.lane = r.lane
            /\ q.todo = r.todo \ {f.scenario}
            /\ runners' = (runners \ {r}) \cup {q}
            /\ results' = [results EXCEPT ![r.lane] = @ \cup {f}]
      BY <2>2, OpenResultFacts
    <3>3. \A l \in Lane : results[l] \subseteq results'[l]
      BY <3>2
    <3>4. r.lane \in Lane => f \in results'[r.lane]
      BY <3>2
    <3>5. \A l \in Lane, ss \in SUBSET Scenario : Wrote(l, ss) => Wrote(l, ss)'
      BY <3>1, <3>3
    <3>6. ASSUME NEW x \in Own' PROVE Wrote(at, Scenario \ x.todo)'
      <4>1. CASE x \in Own
        BY <3>1, <3>3, <4>1
      <4>2. CASE x = q /\ r \in Own
        BY <3>1, <3>2, <3>3, <3>4, <4>2
      <4> QED
        BY <3>1, <3>2, <4>1, <4>2
    <3> HIDE DEF Wrote
    <3> QED
      BY <3>1, <3>5, <3>6
  <2>3. CASE FillResult(r)
    <3>1. UNCHANGED <<runs, pc, at, early, marker, runners>>
      BY <2>3 DEF FillResult
    <3>2. PICK f \in results[r.lane] : \E g :
            /\ g.by = f.by /\ g.scenario = f.scenario
            /\ results' = [results EXCEPT ![r.lane] = (@ \ {f}) \cup {g}]
      BY <2>3, FillResultFacts
    <3>3. \A l \in Lane, s \in Scenario :
            (\E x \in results[l] : x.by = runs /\ x.scenario = s)
              => \E x \in results'[l] : x.by = runs /\ x.scenario = s
      BY <3>2
    <3>4. ResultsWritten
      BY DEF FilesInv
    <3> HIDE DEF TypeOK, ResultsWritten
    <3> QED
      BY <3>1, <3>3, <3>4, WrittenKept
  <2>4. CASE OrphanExits(r)
    BY <2>4 DEF OrphanExits
  <2> QED
    BY <1>8, <2>1, <2>2, <2>3, <2>4 DEF RunnerStep
<1>9. CASE BeginReport \/ StartReport \/ EndReport \/ EndRun
  <2>1. UNCHANGED <<runs, disk, procs>>
    BY <1>9 DEF BeginReport, StartReport, EndReport, EndRun
  <2>2. CASE BeginReport \/ EndRun
    <3>1. pc' \in {"report", "idle"} /\ pc \in {"next", "report"}
      BY <2>2 DEF BeginReport, EndRun, Return
    <3> QED
      BY <2>1, <3>1
  <2>3. CASE StartReport \/ EndReport
    BY <2>1, <2>3 DEF StartReport, EndReport
  <2> QED
    BY <1>9, <2>2, <2>3
<1>10. ASSUME NEW p \in {"run", "report"}, Report(p) PROVE ResultsWritten'
  <2>1. UNCHANGED <<runs, pc, at, disk, procs>>
    BY <1>10 DEF Report, ReadLane, ReadFails, WriteReport
  <2> QED
    BY <2>1
<1>11. CASE UNCHANGED vars
  BY <1>11 DEF vars
<1> QED
  BY <1>1, <1>2, <1>3, <1>4, <1>5, <1>6, <1>7, <1>8, <1>9, <1>10, <1>11
    DEF Next, Clear, RunLane

LEMMA EarlyUnmarkedStep ==
  TypeOK /\ DiskInv /\ FilesInv /\ [Next]_vars => EarlyUnmarked'
<1> SUFFICES ASSUME TypeOK, DiskInv, FilesInv, [Next]_vars, ~orphaned'
             PROVE  EarlyUnmarked'
  BY DEF EarlyUnmarked
<1>0. ~orphaned
  BY DEF Next, Clear, RunLane, StartRun, RemoveEntry, LaneCleared, ClearFails,
    BeginLane, RemoveMarker, RecreateResults, WriteMetadata, Spawn, LaneFails,
    Check, OpenMarker, FillMarker, Stop, RunnerStep, RunnerExits, OpenResult,
    FillResult, OrphanExits, BeginReport, StartReport, EndReport, EndRun,
    Report, ReadLane, ReadFails, WriteReport, vars, procs
<1> USE <1>0 DEF TypeOK, FlowTypes, DiskTypes, ProcessTypes, DiskInv, Progress,
            LaneFiles, FilesInv, RunnersKnown, EarlyUnmarked, Own,
            flow, disk, procs
<1>1. CASE StartRun \/ ClearFails
  BY <1>1 DEF StartRun, ClearFails, Return
<1>2. CASE RemoveEntry
  BY <1>2, FirstIn DEF RemoveEntry
<1>3. CASE LaneCleared
  <2>1. UNCHANGED <<runs, disk, procs>> /\ pc' \in {"clear", "next"}
    BY <1>3 DEF LaneCleared
  <2>2. early = {} /\ pc = "clear"
    BY <1>3 DEF LaneCleared
  <2> QED
    BY <2>1, <2>2
<1>4. CASE BeginLane
  <2>1. First(remaining) \in remaining
    BY <1>4, FirstIn DEF BeginLane
  <2> QED
    BY <1>4, <2>1 DEF BeginLane
<1>5. CASE RemoveMarker \/ RecreateResults
  <2>1. CASE RemoveMarker
    BY <2>1 DEF RemoveMarker
  <2>2. CASE RecreateResults
    BY <2>2 DEF RecreateResults
  <2> QED
    BY <1>5, <2>1, <2>2
<1>6. CASE WriteMetadata
  BY <1>6 DEF WriteMetadata
<1>7. CASE Spawn
  BY <1>7 DEF Spawn
<1>8. CASE LaneFails \/ Check
  <2>1. CASE LaneFails
    BY <2>1 DEF LaneFails
  <2>2. CASE Check
    BY <2>2 DEF Check
  <2> QED
    BY <1>8, <2>1, <2>2
<1>9. CASE OpenMarker \/ FillMarker
  <2>1. CASE OpenMarker
    BY <2>1 DEF OpenMarker
  <2>2. CASE FillMarker
    BY <2>2 DEF FillMarker
  <2> QED
    BY <1>9, <2>1, <2>2
<1>10. CASE Stop
  BY <1>10 DEF Stop, Return
<1>11. ASSUME NEW r \in runners, RunnerStep(r) PROVE EarlyUnmarked'
  <2>0. r \in Own /\ pc = "running" /\ r.lane = at /\ runners = {r}
    OBVIOUS
  <2>1. CASE RunnerExits(r)
    <3>1. runners' = {} /\ early' \subseteq early \cup {at}
      BY <2>0, <2>1 DEF RunnerExits
    <3>2. Unfinished(r) => ~Exact(results[at])
      BY <2>0 DEF Unfinished, Exact
    <3>3. at \in early' => Unfinished(r)
      BY <2>0, <2>1 DEF RunnerExits
    <3> QED
      BY <2>0, <2>1, <3>1, <3>2, <3>3 DEF RunnerExits
  <2>2. CASE OpenResult(r)
    <3>1. UNCHANGED <<flow, pc, early, marker, metadata>>
      BY <2>2 DEF OpenResult
    <3>2. PICK q, f :
            /\ f.by = r.by /\ q.by = r.by /\ q.lane = r.lane
            /\ q.todo = r.todo \ {f.scenario}
            /\ runners' = (runners \ {r}) \cup {q}
            /\ results' = [results EXCEPT ![r.lane] = @ \cup {f}]
      BY <2>2, OpenResultFacts
    <3>3. runners' = {q} /\ results'[at] = results[at] \cup {f}
      BY <2>0, <3>2
    <3> QED
      BY <2>0, <3>1, <3>2, <3>3
  <2>3. CASE FillResult(r)
    <3>1. UNCHANGED <<flow, pc, early, marker, metadata, runners>>
      BY <2>3 DEF FillResult
    <3>2. PICK f \in results[r.lane] : \E g :
            /\ g.by = f.by /\ g.scenario = f.scenario
            /\ results' = [results EXCEPT ![r.lane] = (@ \ {f}) \cup {g}]
      BY <2>3, FillResultFacts
    <3> QED
      BY <2>0, <3>1, <3>2
  <2> QED
    BY <1>11, <2>0, <2>1, <2>2, <2>3 DEF RunnerStep, OrphanExits
<1>12. CASE BeginReport \/ StartReport \/ EndReport \/ EndRun
  <2>1. UNCHANGED <<runs, disk, procs>>
    BY <1>12 DEF BeginReport, StartReport, EndReport, EndRun
  <2>2. CASE BeginReport \/ EndRun
    BY <2>1, <2>2 DEF BeginReport, EndRun, Return
  <2>3. CASE StartReport \/ EndReport
    <3>1. UNCHANGED <<pc, flow>>
      BY <2>3 DEF StartReport, EndReport
    <3> QED
      BY <2>1, <3>1
  <2> QED
    BY <1>12, <2>2, <2>3
<1>13. ASSUME NEW p \in {"run", "report"}, Report(p) PROVE EarlyUnmarked'
  BY <1>13 DEF Report, ReadLane, ReadFails, WriteReport
<1>14. CASE UNCHANGED vars
  BY <1>14 DEF vars
<1> QED
  BY <1>1, <1>2, <1>3, <1>4, <1>5, <1>6, <1>7, <1>8, <1>9, <1>10, <1>11,
     <1>12, <1>13, <1>14 DEF Next, Clear, RunLane

-----------------------------------------------------------------------------
\* The readers.

\* Exact results that contain a file of this run for each scenario contain no
\* other file.
LEMMA ExactOwn ==
  ASSUME TypeOK, NEW l \in Lane, Exact(results[l]), Wrote(l, Scenario)
  PROVE  {f.by : f \in results[l]} = {runs}
<1>1. \A f \in results[l] : f.by = runs
  <2> TAKE f \in results[l]
  <2>1. f.scenario \in Scenario
    BY DEF TypeOK, DiskTypes, ResultFile
  <2> QED
    BY <2>1 DEF Exact, Wrote
<1>2. \E f \in results[l] : f.by = runs
  BY DEF Wrote
<1> QED
  BY <1>1, <1>2

LEMMA RunReadsStep ==
  TypeOK /\ DiskInv /\ FilesInv /\ RunReads /\ [Next]_vars => RunReads'
<1> SUFFICES ASSUME TypeOK, DiskInv, FilesInv, RunReads, [Next]_vars PROVE RunReads'
  OBVIOUS
<1> USE DEF TypeOK, ReadTypes, RunReads, flow, procs, reads
<1>1. CASE StartRun
  BY <1>1 DEF StartRun
<1>2. CASE RemoveEntry \/ LaneCleared \/ ClearFails
  BY <1>2 DEF RemoveEntry, LaneCleared, ClearFails
<1>3. CASE RunLane
  BY <1>3 DEF RunLane, BeginLane, RemoveMarker, RecreateResults, WriteMetadata,
    Spawn, LaneFails, Check, OpenMarker, FillMarker
<1>4. CASE Stop
  BY <1>4 DEF Stop, Off
<1>5. ASSUME NEW r \in runners, RunnerStep(r) PROVE RunReads'
  BY <1>5 DEF RunnerStep, RunnerExits, Own, OpenResult, FillResult, OrphanExits
<1>6. CASE BeginReport
  BY <1>6 DEF BeginReport, Opened
<1>7. CASE StartReport \/ EndReport
  BY <1>7 DEF StartReport, EndReport
<1>8. CASE EndRun
  BY <1>8 DEF EndRun, Off
<1>9. ASSUME NEW p \in {"run", "report"}, Report(p) PROVE RunReads'
  <2>0. UNCHANGED <<runs, pc, lanes, early>>
    BY <1>9 DEF Report, ReadLane, ReadFails, WriteReport
  <2>1. CASE p = "report"
    BY <1>9, <2>0, <2>1 DEF Report, ReadLane, ReadFails, WriteReport
  <2>2. CASE p = "run" /\ (ReadFails(p) \/ WriteReport(p))
    BY <2>0, <2>2 DEF ReadFails, WriteReport, Off, Reader
  <2>3. CASE p = "run" /\ ReadLane(p)
    <3> DEFINE l == reader[p].at
               x == [lane |-> l, by |-> metadata[l], from |-> {f.by : f \in results[l]}]
    <3>1. l \in Lane /\ pc = "report" /\ reader[p] \in Reader
      BY <2>3 DEF ReadLane
    <3>2. CASE reader' = [reader EXCEPT ![p].at = After(l)]
      BY <2>0, <2>3, <3>1, <3>2 DEF Reader
    <3>3. CASE Loads(l) /\ reader' = [reader EXCEPT ![p].at = After(l),
                                                   ![p].loaded = @ \cup {x}]
      <4>1. metadata[l] = runs /\ l \in lanes
        BY <3>1, <3>3 DEF Loads, DiskInv, LaneFiles
      <4>2. l \notin early => {f.by : f \in results[l]} = {runs}
        <5>1. l \notin early => Wrote(l, Scenario)
          BY <3>1, <3>3 DEF Loads, FilesInv, ResultsWritten
        <5> QED
          BY <3>1, <3>3, <5>1, ExactOwn DEF Loads
      <4>3. x.by = runs /\ x.lane \in lanes /\ (x.lane \notin early => x.from = {runs})
        BY <4>1, <4>2
      <4>4. reader'["run"].loaded = reader["run"].loaded \cup {x}
        BY <2>3, <3>1, <3>3 DEF Reader
      <4> HIDE DEF x
      <4> QED
        BY <2>0, <2>3, <3>1, <4>3, <4>4
    <3> QED
      BY <2>3, <3>2, <3>3 DEF ReadLane
  <2> QED
    BY <1>9, <2>1, <2>2, <2>3 DEF Report
<1>10. CASE UNCHANGED vars
  BY <1>10 DEF vars
<1> QED
  BY <1>1, <1>2, <1>3, <1>4, <1>5, <1>6, <1>7, <1>8, <1>9, <1>10 DEF Next, Clear

LEMMA QuietReadsStep ==
  TypeOK /\ DiskInv /\ QuietReads /\ [Next]_vars => QuietReads'
<1> SUFFICES ASSUME TypeOK, DiskInv, QuietReads, [Next]_vars PROVE QuietReads'
  OBVIOUS
<1> USE DEF TypeOK, ReadTypes, QuietReads, Published, disk, reads
<1>1. CASE StartRun
  BY <1>1 DEF StartRun, Reader
<1>2. CASE RemoveEntry \/ LaneCleared \/ ClearFails
  BY <1>2 DEF RemoveEntry, LaneCleared, ClearFails
<1>3. CASE RunLane
  BY <1>3 DEF RunLane, BeginLane, RemoveMarker, RecreateResults, WriteMetadata,
    Spawn, LaneFails, Check, OpenMarker, FillMarker
<1>4. CASE Stop
  BY <1>4 DEF Stop
<1>5. ASSUME NEW r \in runners, RunnerStep(r) PROVE QuietReads'
  BY <1>5 DEF RunnerStep, RunnerExits, Own, OpenResult, FillResult, OrphanExits
<1>6. CASE BeginReport
  BY <1>6 DEF BeginReport
<1>7. CASE StartReport
  <2>1. reader'["report"] = Opened(pc = "idle") /\ UNCHANGED <<pc, disk>>
    BY <1>7 DEF StartReport
  <2>2. Opened(pc = "idle").loaded = {} /\ (Opened(pc = "idle").quiet <=> pc = "idle")
    BY Zenon DEF Opened
  <2> QED
    BY <2>1, <2>2
<1>8. CASE EndReport
  BY <1>8 DEF EndReport, Off
<1>9. CASE EndRun
  BY <1>9 DEF EndRun
<1>10. ASSUME NEW p \in {"run", "report"}, Report(p) PROVE QuietReads'
  <2>0. UNCHANGED <<pc, disk>>
    BY <1>10 DEF Report, ReadLane, ReadFails, WriteReport
  <2>1. CASE p = "run"
    BY <1>10, <2>0, <2>1 DEF Report, ReadLane, ReadFails, WriteReport
  <2>2. CASE p = "report" /\ (ReadFails(p) \/ WriteReport(p))
    BY <2>0, <2>2 DEF ReadFails, WriteReport, Off, Reader
  <2>3. CASE p = "report" /\ ReadLane(p)
    <3> DEFINE l == reader[p].at
               x == [lane |-> l, by |-> metadata[l], from |-> {f.by : f \in results[l]}]
    <3>1. l \in Lane /\ reader[p] \in Reader
      BY <2>3 DEF ReadLane
    <3>2. CASE reader' = [reader EXCEPT ![p].at = After(l)]
      BY <2>0, <2>3, <3>1, <3>2 DEF Reader
    <3>3. CASE Loads(l) /\ reader' = [reader EXCEPT ![p].at = After(l),
                                                   ![p].loaded = @ \cup {x}]
      <4>1. Published[x.lane] = x.by
        BY <3>1, <3>3 DEF Loads
      <4>2. /\ reader'["report"].loaded = reader["report"].loaded \cup {x}
            /\ reader'["report"].quiet = reader["report"].quiet
        BY <2>3, <3>1, <3>3 DEF Reader
      <4>3. reader["report"].at # "off"
        BY <2>3, <3>1
      <4> HIDE DEF x
      <4> QED
        BY <2>0, <4>1, <4>2, <4>3
    <3> QED
      BY <2>3, <3>2, <3>3 DEF ReadLane
  <2> QED
    BY <1>10, <2>1, <2>2, <2>3 DEF Report
<1>11. CASE UNCHANGED vars
  BY <1>11 DEF vars
<1> QED
  BY <1>1, <1>2, <1>3, <1>4, <1>5, <1>6, <1>7, <1>8, <1>9, <1>10, <1>11
    DEF Next, Clear

\* The inductive invariant of the artifacts.
THEOREM Invariance == Spec => []IInv
<1>1. Init => IInv
  BY InitTypes, DiskInvInit, FilesInvInit DEF IInv
<1>2. IInv /\ [Next]_vars => IInv'
  BY TypeStep, DiskInvStep, RunnersKnownStep, ResultsWrittenStep, EarlyUnmarkedStep,
     RunReadsStep, QuietReadsStep DEF IInv, FilesInv
<1> QED
  BY <1>1, <1>2, PTL DEF Spec

\* The report at the end of a run covers only lanes this run selected and ran,
\* with results of its own runners unless one stopped early; a report regenerated
\* next to no run covers lanes of a single run.
THEOREM ReportsCoverOneRun == Spec => []ReportsOneRun
<1>1. ASSUME IInv, reader["run"].at = "written", NEW x \in reader["run"].loaded
      PROVE  /\ x.by = runs /\ x.lane \in lanes
             /\ x.lane \notin early => x.from = {runs}
  BY <1>1 DEF IInv, RunReads
<1>2. ASSUME IInv, reader["report"].at = "written", reader["report"].quiet,
             NEW x \in reader["report"].loaded, NEW y \in reader["report"].loaded
      PROVE  x.by = y.by
  <2>1. x \in Loaded /\ y \in Loaded
    BY <1>2 DEF IInv, TypeOK, ReadTypes, Reader
  <2>2. Published[x.lane] = x.by /\ Published[y.lane] = y.by
    BY <1>2 DEF IInv, QuietReads
  <2>3. x.lane \in Lane /\ y.lane \in Lane /\ x.by # 0 /\ y.by # 0
    BY <2>1 DEF Loaded
  <2> QED
    BY <1>2, <2>2, <2>3 DEF IInv, DiskInv, OneRunOnDisk
<1>3. IInv => ReportsOneRun
  BY <1>1, <1>2 DEF ReportsOneRun
<1> QED
  BY <1>3, Invariance, PTL

\* Where no orphan interferes, a marker of the current run stands for a runner
\* that ran every scenario to the end.
THEOREM MarkerMeansFinished == Spec => []MarkedIsFinished
<1>1. IInv => MarkedIsFinished
  BY DEF IInv, FilesInv, EarlyUnmarked, MarkedIsFinished
<1> QED
  BY <1>1, Invariance, PTL

-----------------------------------------------------------------------------
\* What the report concludes from the artifacts it has read.

Judge == INSTANCE ScenarioComparison

\* What a lane's outcome says about its checks.
LEMMA OutcomeFacts ==
  ASSUME NEW checks \in Judge!Checks, NEW trusted \in BOOLEAN,
         NEW o, o = Judge!TrustedOutcome(checks, trusted)
  PROVE  /\ o \in Judge!Outcome \ {"Missing"}
         /\ Judge!With(checks, {"FAILURE"}) # {} => o \in {"NonCompliant", "FixtureFailure"}
         /\ Judge!With(checks, {"FAILURE"}) = {} => o \notin {"NonCompliant", "FixtureFailure"}
         /\ trusted => o # "FixtureFailure"
         /\ o \in {"Compliant", "NotApplicable"} => Judge!With(checks, {"FAILURE", "OTHER"}) = {}
         /\ o = "Compliant" => Judge!With(checks, {"SUCCESS", "WARNING"}) # {}
         /\ o = "Ambiguous" => Judge!With(checks, {"OTHER"}) # {} \/ checks = <<>>
<1>1. \A a, b : Judge!With(checks, a \cup b) = Judge!With(checks, a) \cup Judge!With(checks, b)
  BY DEF Judge!With
<1>2. {"FAILURE", "OTHER"} = {"FAILURE"} \cup {"OTHER"}
  OBVIOUS
<1>3. Judge!With(checks, {"FAILURE", "OTHER"}) =
        Judge!With(checks, {"FAILURE"}) \cup Judge!With(checks, {"OTHER"})
  BY <1>1, <1>2
<1>4. ASSUME \A a \in {{"FAILURE"}, {"OTHER"}, {"SUCCESS", "WARNING"}, {"SKIPPED", "INFO"}} :
               Judge!With(checks, a) = {}
      PROVE  checks = <<>>
  <2>1. \A i \in DOMAIN checks : checks[i].status \in Judge!Status
    <3>1. \A i \in DOMAIN checks : checks[i] \in Judge!Check
      BY DEF Judge!Checks
    <3> QED
      BY <3>1 DEF Judge!Check
  <2>2. \A i \in DOMAIN checks :
          \E a \in {{"FAILURE"}, {"OTHER"}, {"SUCCESS", "WARNING"}, {"SKIPPED", "INFO"}} :
            checks[i].status \in a
    BY <2>1 DEF Judge!Status
  <2>3. DOMAIN checks = {}
    BY <1>4, <2>2 DEF Judge!With
  <2> QED
    BY <2>3 DEF Judge!Checks
<1>5. Judge!OutcomeOf(checks) = "FixtureFailure" => Judge!With(checks, {"FAILURE"}) # {}
  BY DEF Judge!OutcomeOf
<1>6. CASE Judge!With(checks, {"FAILURE"}) # {}
  BY <1>3, <1>6 DEF Judge!TrustedOutcome, Judge!OutcomeOf, Judge!Outcome
<1>7. CASE Judge!With(checks, {"FAILURE"}) = {}
  <2>1. o = Judge!OutcomeOf(checks)
    BY <1>5, <1>7 DEF Judge!TrustedOutcome
  <2> QED
    BY <1>3, <1>4, <1>7, <2>1 DEF Judge!OutcomeOf, Judge!Outcome
<1> QED
  BY <1>6, <1>7

\* The comparison blames precisely the lanes at fault: where it names lanes as
\* failing, or none, these and no others had a failed check, each lane had a
\* result, and no lane a check of unknown status beside no failure.  What it
\* calls compliant in all lanes passed at least one check somewhere.
THEOREM BlameIsEarned ==
  ASSUME NEW artifact \in [Judge!Lane -> Judge!Artifact(Scenario)],
         NEW s, NEW c,
         c = Judge!Classify(Judge!Outcomes(artifact, s)), c.verdict = "known"
  PROVE  /\ c.failing = {lane \in Judge!Lane : Judge!FailedChecks(artifact[lane], s) # {}}
         /\ \A lane \in Judge!Lane : s \in DOMAIN artifact[lane].results
         /\ \A lane \in Judge!Lane \ c.failing :
              Judge!With(artifact[lane].results[s], {"FAILURE", "OTHER"}) = {}
         /\ c.failing = {} =>
              \E lane \in Judge!Lane :
                Judge!With(artifact[lane].results[s], {"SUCCESS", "WARNING"}) # {}
<1> DEFINE o == Judge!Outcomes(artifact, s)
<1>1. /\ \A lane \in Judge!Lane : o[lane] \notin {"FixtureFailure", "Ambiguous", "Missing"}
      /\ \E lane \in Judge!Lane : o[lane] # "NotApplicable"
      /\ c.failing = {lane \in Judge!Lane : o[lane] = "NonCompliant"}
  BY DEF Judge!Classify
<1>2. ASSUME NEW lane \in Judge!Lane
      PROVE  /\ s \in DOMAIN artifact[lane].results
             /\ artifact[lane].results[s] \in Judge!Checks
             /\ artifact[lane].trusted \in BOOLEAN
             /\ o[lane] = Judge!TrustedOutcome(artifact[lane].results[s], artifact[lane].trusted)
  <2>1. o[lane] = Judge!LaneOutcome(artifact[lane], s)
    BY DEF Judge!Outcomes
  <2>2. s \in DOMAIN artifact[lane].results
    BY <1>1, <2>1 DEF Judge!LaneOutcome
  <2>3. artifact[lane] \in Judge!Artifact(Scenario)
    OBVIOUS
  <2>4. PICK S \in SUBSET Scenario : artifact[lane].results \in [S -> Judge!Checks]
    BY <2>3 DEF Judge!Artifact
  <2> QED
    BY <2>1, <2>2, <2>3, <2>4 DEF Judge!LaneOutcome, Judge!Artifact
<1>3. ASSUME NEW lane \in Judge!Lane
      PROVE  /\ o[lane] \in {"NonCompliant", "Compliant", "NotApplicable"}
             /\ o[lane] = "NonCompliant" <=> Judge!FailedChecks(artifact[lane], s) # {}
             /\ o[lane] # "NonCompliant" =>
                  Judge!With(artifact[lane].results[s], {"FAILURE", "OTHER"}) = {}
             /\ o[lane] = "Compliant" =>
                  Judge!With(artifact[lane].results[s], {"SUCCESS", "WARNING"}) # {}
  <2>1. o[lane] \in {"NonCompliant", "Compliant", "NotApplicable"}
    BY <1>1, <1>2, OutcomeFacts DEF Judge!Outcome
  <2> QED
    BY <1>2, <2>1, OutcomeFacts DEF Judge!FailedChecks
<1> HIDE DEF o
<1> QED
  BY <1>1, <1>2, <1>3

\* A failed check always shows: its scenario is classified with that lane among
\* the failing ones, unless some lane has no usable result (missing, of unknown
\* status, or not from the pinned fixture and short of it).
THEOREM FailuresShow ==
  ASSUME NEW artifact \in [Judge!Lane -> Judge!Artifact(Scenario)],
         NEW s, NEW lane \in Judge!Lane, Judge!FailedChecks(artifact[lane], s) # {}
  PROVE  LET c == Judge!Classify(Judge!Outcomes(artifact, s)) IN
         \/ c.verdict = "known" /\ lane \in c.failing
         \/ c.verdict \in {"Ambiguous", "FixtureFailure"}
<1> DEFINE o == Judge!Outcomes(artifact, s)
           c == Judge!Classify(o)
<1>1. s \in DOMAIN artifact[lane].results
  BY DEF Judge!FailedChecks
<1>2. artifact[lane] \in Judge!Artifact(Scenario)
  OBVIOUS
<1>3. PICK S \in SUBSET Scenario : artifact[lane].results \in [S -> Judge!Checks]
  BY <1>2 DEF Judge!Artifact
<1>4. artifact[lane].results[s] \in Judge!Checks /\ artifact[lane].trusted \in BOOLEAN
  BY <1>1, <1>2, <1>3 DEF Judge!Artifact
<1>5. o[lane] = Judge!TrustedOutcome(artifact[lane].results[s], artifact[lane].trusted)
  BY <1>1 DEF Judge!Outcomes, Judge!LaneOutcome
<1>6. Judge!With(artifact[lane].results[s], {"FAILURE"}) # {}
  BY <1>1 DEF Judge!FailedChecks
<1>7. o[lane] \in {"NonCompliant", "FixtureFailure"}
  BY <1>4, <1>5, <1>6, OutcomeFacts
<1> HIDE DEF o
<1>8. c.verdict = "known" => lane \in c.failing
  BY <1>7 DEF Judge!Classify
<1>9. c.verdict # "NotApplicable"
  BY <1>7 DEF Judge!Classify
<1>10. c.verdict \in {"FixtureFailure", "Ambiguous", "NotApplicable", "known"}
  BY DEF Judge!Classify
<1> QED
  BY <1>8, <1>9, <1>10 DEF o

\* With three valid lanes of one pinned fixture, every expected scenario and no
\* other has its row, none is excused by the fixture, and what remains
\* ambiguous is a status this version does not know.
THEOREM ValidLanesDecide ==
  ASSUME NEW artifact \in [Judge!Lane -> Judge!Artifact(Scenario)], NEW expected,
         \A lane \in Judge!Lane : Judge!Valid(artifact[lane], expected) /\ artifact[lane].trusted
  PROVE  /\ Judge!Compared(artifact) = expected
         /\ \A s \in expected :
              LET c == Judge!Classify(Judge!Outcomes(artifact, s)) IN
              /\ c.verdict # "FixtureFailure"
              /\ c.verdict = "Ambiguous" =>
                   \E lane \in Judge!Lane : Judge!With(artifact[lane].results[s], {"OTHER"}) # {}
<1>1. Judge!Compared(artifact) = expected
  BY DEF Judge!Compared, Judge!Valid, Judge!Lane
<1>2. ASSUME NEW s \in expected, NEW lane \in Judge!Lane
      PROVE  /\ Judge!Outcomes(artifact, s)[lane] \notin {"FixtureFailure", "Missing"}
             /\ Judge!Outcomes(artifact, s)[lane] = "Ambiguous" =>
                  Judge!With(artifact[lane].results[s], {"OTHER"}) # {}
  <2>1. artifact[lane] \in Judge!Artifact(Scenario) /\ artifact[lane].trusted = TRUE
    BY DEF Judge!Artifact
  <2>2. PICK S \in SUBSET Scenario : artifact[lane].results \in [S -> Judge!Checks]
    BY <2>1 DEF Judge!Artifact
  <2>3. /\ s \in DOMAIN artifact[lane].results
        /\ artifact[lane].results[s] \in Judge!Checks /\ artifact[lane].results[s] # <<>>
    BY <2>2 DEF Judge!Valid
  <2>4. Judge!Outcomes(artifact, s)[lane] = Judge!TrustedOutcome(artifact[lane].results[s], TRUE)
    BY <2>1, <2>3 DEF Judge!Outcomes, Judge!LaneOutcome
  <2> QED
    BY <2>3, <2>4, OutcomeFacts DEF Judge!Outcome
<1>3. ASSUME NEW s \in expected
      PROVE  LET c == Judge!Classify(Judge!Outcomes(artifact, s)) IN
             /\ c.verdict # "FixtureFailure"
             /\ c.verdict = "Ambiguous" =>
                  \E lane \in Judge!Lane : Judge!With(artifact[lane].results[s], {"OTHER"}) # {}
  <2> DEFINE o == Judge!Outcomes(artifact, s)
  <2>1. \A lane \in Judge!Lane : o[lane] \notin {"FixtureFailure", "Missing"}
    BY <1>2
  <2>2. \A lane \in Judge!Lane :
          o[lane] = "Ambiguous" => Judge!With(artifact[lane].results[s], {"OTHER"}) # {}
    BY <1>2
  <2> HIDE DEF o
  <2>3. Judge!Classify(o).verdict # "FixtureFailure"
    BY <2>1 DEF Judge!Classify
  <2>4. Judge!Classify(o).verdict = "Ambiguous" => \E lane \in Judge!Lane : o[lane] = "Ambiguous"
    BY <2>1 DEF Judge!Classify
  <2> QED
    BY <2>2, <2>3, <2>4 DEF o
<1> QED
  BY <1>1, <1>3

=============================================================================
