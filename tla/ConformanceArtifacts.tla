------------------------ MODULE ConformanceArtifacts ------------------------
(***************************************************************************)
(* The result directories of `conformance run` (src/src/runtime/reports.rs *)
(* and run_official_conformance_target): one directory per lane, filled    *)
(* file by file by the harness and by the official runner it spawns, while *)
(* either may be killed anywhere.  A runner whose harness was killed goes  *)
(* on writing.  `conformance report` may read them at any time.            *)
(*                                                                         *)
(* ConformanceRun abstracts a lane's directory to none, incomplete and     *)
(* complete; here it is a set of files.  Everything that module says of    *)
(* stacks is here one failure, a lane that is skipped.                     *)
(***************************************************************************)
EXTENDS Naturals

CONSTANTS
  Config,      \* protocol version and server era a run asks for
  Scenario,    \* pinned official scenarios
  Selections,  \* bound: lane selections a command line may make
  MaxRuns,     \* bound: `conformance run` commands
  MaxReports   \* bound: `conformance report` commands

Lane == {"fixture", "controlplane", "dataplane"}
Run  == 1 .. MaxRuns

ASSUME ConstantAssumption ==
  /\ MaxRuns \in Nat /\ MaxReports \in Nat
  /\ Scenario # {}
  /\ Selections \subseteq (SUBSET Lane) \ {{}}

VARIABLES
  config,     \* configuration of each run
  runs, pc,   \* runs started; step of the latest one, "idle" when it is over
  lanes,      \* lanes it selected
  remaining,  \* lanes it has still to clear, then to run
  at,         \* lane it is running
  marker,     \* completion marker of each lane
  metadata,   \* run that wrote the lane's metadata, 0 when there is none
  official,   \* lanes whose `official` directory exists
  results,    \* checks.json files below it
  runners,    \* runner processes: whose, for which lane, scenarios to come
  early,      \* history: lanes of this run whose runner stopped early
  orphaned,   \* history: a runner outlived its harness
  reader,     \* the run's own report step and the `conformance report` command
  reports     \* `conformance report` commands started

flow  == <<config, runs, lanes, remaining, at>>
disk  == <<marker, metadata, official, results>>
reads == <<reader, reports>>
procs == <<runners, early, orphaned>>
vars  == <<flow, pc, disk, procs, reads>>

-----------------------------------------------------------------------------
Preparing == {"marker", "recreate", "metadata", "spawn"}
Step == {"idle", "clear", "next", "running", "check", "mark", "marking", "report"}
          \cup Preparing

ResultFile == [by : Run, scenario : Scenario, whole : BOOLEAN]
Loaded     == [lane : Lane, by : Run, from : SUBSET Run]
Reader     == [at : Lane \cup {"off", "write", "written"}, quiet : BOOLEAN,
               loaded : SUBSET Loaded]

FlowTypes ==
  /\ config \in [Run -> Config]
  /\ runs \in 0 .. MaxRuns /\ pc \in Step
  /\ pc # "idle" => runs \in Run
  /\ lanes \subseteq Lane /\ remaining \subseteq Lane /\ at \in Lane

DiskTypes ==
  /\ marker \in [Lane -> {"none", "torn", "whole"}]
  /\ metadata \in [Lane -> 0 .. MaxRuns]
  /\ official \subseteq Lane
  /\ results \in [Lane -> SUBSET ResultFile]

ProcessTypes ==
  /\ runners \subseteq [by : Run, lane : Lane, todo : SUBSET Scenario]
  /\ early \subseteq Lane /\ orphaned \in BOOLEAN

ReadTypes ==
  /\ reader \in [{"run", "report"} -> Reader]
  /\ reports \in 0 .. MaxReports

TypeOK == FlowTypes /\ DiskTypes /\ ProcessTypes /\ ReadTypes

\* The command returns or dies; its locals are gone.
Return == pc' = "idle" /\ lanes' = {} /\ remaining' = {} /\ at' = "fixture"

\* Lanes are cleared, run and read in this order.
First(ls) == IF "fixture" \in ls THEN "fixture"
             ELSE IF "controlplane" \in ls THEN "controlplane" ELSE "dataplane"

After(l) == CASE l = "fixture" -> "controlplane" [] l = "controlplane" -> "dataplane"
              [] OTHER -> "write"

Off == [at |-> "off", quiet |-> FALSE, loaded |-> {}]

Init ==
  /\ config \in [Run -> Config]
  /\ runs = 0 /\ pc = "idle"
  /\ lanes = {} /\ remaining = {} /\ at = "fixture"
  /\ marker = [l \in Lane |-> "none"]
  /\ metadata = [l \in Lane |-> 0]
  /\ official = {} /\ results = [l \in Lane |-> {}]
  /\ runners = {} /\ early = {} /\ orphaned = FALSE
  /\ reader = [p \in {"run", "report"} |-> Off] /\ reports = 0

-----------------------------------------------------------------------------
\* Mutant: of two results of a scenario the later one counts.
ExactNames(files) ==
  /\ \A f \in files : f.whole
  /\ {f.scenario : f \in files} = Scenario

\* load_server_results and validate_server_scenario_set: every file parses, no
\* scenario twice, none missing.
Exact(files) ==
  /\ \A f \in files : f.whole
  /\ \A f, g \in files : f.scenario = g.scenario => f = g
  /\ {f.scenario : f \in files} = Scenario

\* load_conformance_artifact: no artifacts, valid artifacts, else an error.
NoArtifacts(l) == metadata[l] = 0 /\ l \notin official /\ marker[l] = "none"

Loads(l) ==
  /\ marker[l] = "whole" /\ metadata[l] # 0
  /\ l \in official /\ Exact(results[l])

-----------------------------------------------------------------------------
\* clear_conformance.  remove_dir_all deletes entry by entry, in any order.

\* Mutant: only the selected lanes are cleared.
StartRunSelected ==
  /\ pc = "idle" /\ runs < MaxRuns
  /\ runs' = runs + 1 /\ pc' = "clear"
  /\ lanes' \in Selections
  /\ remaining' = lanes'
  /\ early' = {}
  /\ reader' = [reader EXCEPT !["report"].quiet = FALSE]
  /\ UNCHANGED <<config, at, disk, runners, orphaned, reports>>

StartRun ==
  /\ pc = "idle" /\ runs < MaxRuns
  /\ runs' = runs + 1 /\ pc' = "clear"
  /\ lanes' \in Selections
  /\ remaining' = Lane
  /\ early' = {}
  /\ reader' = [reader EXCEPT !["report"].quiet = FALSE]
  /\ UNCHANGED <<config, at, disk, runners, orphaned, reports>>

RemoveEntry ==
  LET l == First(remaining) IN
  /\ pc = "clear" /\ remaining # {}
  /\ \/ /\ marker[l] # "none"
        /\ marker' = [marker EXCEPT ![l] = "none"]
        /\ UNCHANGED <<metadata, official, results>>
     \/ /\ metadata[l] # 0
        /\ metadata' = [metadata EXCEPT ![l] = 0]
        /\ UNCHANGED <<marker, official, results>>
     \/ /\ \E f \in results[l] : results' = [results EXCEPT ![l] = @ \ {f}]
        /\ UNCHANGED <<marker, metadata, official>>
     \/ /\ l \in official /\ results[l] = {}
        /\ official' = official \ {l}
        /\ UNCHANGED <<marker, metadata, results>>
  /\ UNCHANGED <<flow, pc, procs, reads>>

\* Mutant: an incomplete removal passes for a complete one.
LaneClearedPartly ==
  LET l == First(remaining) IN
  /\ pc = "clear" /\ remaining # {}
  /\ IF remaining = {l} THEN remaining' = lanes /\ pc' = "next"
                        ELSE remaining' = remaining \ {l} /\ UNCHANGED pc
  /\ UNCHANGED <<config, runs, lanes, at, disk, procs, reads>>

LaneCleared ==
  LET l == First(remaining) IN
  /\ pc = "clear" /\ remaining # {} /\ NoArtifacts(l)
  /\ IF remaining = {l} THEN remaining' = lanes /\ pc' = "next"
                        ELSE remaining' = remaining \ {l} /\ UNCHANGED pc
  /\ UNCHANGED <<config, runs, lanes, at, disk, procs, reads>>

ClearFails ==
  /\ pc = "clear" /\ Return
  /\ UNCHANGED <<config, runs, disk, procs, reads>>

-----------------------------------------------------------------------------
\* run_official_conformance_target for each selected lane.

\* A lane whose topology failed before the runner is passed over.
BeginLane ==
  /\ pc = "next" /\ remaining # {}
  /\ at' = First(remaining) /\ remaining' = remaining \ {First(remaining)}
  /\ pc' \in {"marker", "next"}
  /\ UNCHANGED <<config, runs, lanes, disk, procs, reads>>

RemoveMarker ==
  /\ pc = "marker" /\ pc' = "recreate"
  /\ marker' = [marker EXCEPT ![at] = "none"]
  /\ UNCHANGED <<flow, metadata, official, results, procs, reads>>

RecreateResults ==
  /\ pc = "recreate" /\ pc' = "metadata"
  /\ official' = official \cup {at}
  /\ results' = [results EXCEPT ![at] = {}]
  /\ UNCHANGED <<flow, marker, metadata, procs, reads>>

\* Mutant: the run is named by the count it will have later.
WriteMetadataAhead ==
  /\ pc = "metadata" /\ pc' = "spawn"
  /\ metadata' = [metadata EXCEPT ![at] = runs + 1]
  /\ UNCHANGED <<flow, marker, official, results, procs, reads>>

\* Half-written metadata is an error to readers, as is the missing marker.
WriteMetadata ==
  /\ pc = "metadata" /\ pc' = "spawn"
  /\ metadata' = [metadata EXCEPT ![at] = runs]
  /\ UNCHANGED <<flow, marker, official, results, procs, reads>>

Spawn ==
  /\ pc = "spawn" /\ pc' = "running"
  /\ runners' = runners \cup {[by |-> runs, lane |-> at, todo |-> Scenario]}
  /\ UNCHANGED <<flow, disk, early, orphaned, reads>>

LaneFails ==
  /\ pc \in Preparing \cup {"check", "mark", "marking"}
  /\ pc' = "next"
  /\ UNCHANGED <<flow, disk, procs, reads>>

Own == {r \in runners : pc = "running" /\ r.by = runs /\ r.lane = at}

Unfinished(r) ==
  r.todo # {} \/ \E f \in results[r.lane] : f.by = r.by /\ ~f.whole

\* A status with an exit code, zero or not, completes the process
\* (conformance_process_completed); death by signal does not.
RunnerExits(r) ==
  /\ r \in Own
  /\ runners' = runners \ {r}
  /\ early' = IF Unfinished(r) THEN early \cup {at} ELSE early
  /\ pc' \in {"check", "next"}
  /\ UNCHANGED <<flow, disk, orphaned, reads>>

\* Mutant: an exit code is taken for completeness.
CheckNothing ==
  /\ pc = "check" /\ pc' = "mark"
  /\ UNCHANGED <<flow, disk, procs, reads>>

\* mark_conformance_complete validates the results loaded before.
Check ==
  /\ pc = "check" /\ Exact(results[at]) /\ pc' = "mark"
  /\ UNCHANGED <<flow, disk, procs, reads>>

\* write_completion_marker creates the file, then fills it.
OpenMarker ==
  /\ pc = "mark" /\ pc' = "marking"
  /\ marker' = [marker EXCEPT ![at] = "torn"]
  /\ UNCHANGED <<flow, metadata, official, results, procs, reads>>

FillMarker ==
  /\ pc = "marking" /\ pc' = "next"
  /\ marker' = [marker EXCEPT ![at] = "whole"]
  /\ UNCHANGED <<flow, metadata, official, results, procs, reads>>

-----------------------------------------------------------------------------
\* The official runner, orphaned or not (external; it creates directories).

OpenResult(r) ==
  /\ \A f \in results[r.lane] : f.by = r.by => f.whole
  /\ \E s \in r.todo :
       /\ results' = [results EXCEPT ![r.lane] =
                        @ \cup {[by |-> r.by, scenario |-> s, whole |-> FALSE]}]
       /\ runners' = (runners \ {r}) \cup {[r EXCEPT !.todo = @ \ {s}]}
  /\ official' = official \cup {r.lane}
  /\ UNCHANGED <<flow, pc, marker, metadata, early, orphaned, reads>>

FillResult(r) ==
  /\ \E f \in results[r.lane] :
       /\ f.by = r.by /\ ~f.whole
       /\ results' = [results EXCEPT ![r.lane] = (@ \ {f}) \cup {[f EXCEPT !.whole = TRUE]}]
  /\ UNCHANGED <<flow, pc, marker, metadata, official, procs, reads>>

OrphanExits(r) ==
  /\ r \notin Own
  /\ runners' = runners \ {r}
  /\ UNCHANGED <<flow, pc, disk, early, orphaned, reads>>

\* The harness is killed, or Ctrl-C makes it unwind without a report; its
\* runner dies with it or, when the signal reached the harness only, lives on.
Stop ==
  /\ pc # "idle" /\ Return
  /\ \/ runners' = runners \ Own /\ UNCHANGED orphaned
     \/ Own # {} /\ orphaned' = TRUE /\ UNCHANGED runners
  /\ reader' = [reader EXCEPT !["run"] = Off]
  /\ UNCHANGED <<config, runs, disk, early, reports>>

-----------------------------------------------------------------------------
\* write_comparison_from_artifacts, as the last step of a run ("run") and as
\* the command `conformance report` ("report").

Opened(quiet) == [at |-> "fixture", quiet |-> quiet, loaded |-> {}]

BeginReport ==
  /\ pc = "next" /\ remaining = {} /\ pc' = "report"
  /\ reader' = [reader EXCEPT !["run"] = Opened(TRUE)]
  /\ UNCHANGED <<flow, disk, procs, reports>>

\* `quiet` until a run is or becomes active.
StartReport ==
  /\ reader["report"].at = "off" /\ reports < MaxReports
  /\ reports' = reports + 1
  /\ reader' = [reader EXCEPT !["report"] = Opened(pc = "idle")]
  /\ UNCHANGED <<flow, pc, disk, procs>>

ReadFails(p) ==
  /\ reader[p].at \in Lane \cup {"write"}
  /\ reader' = [reader EXCEPT ![p] = Off]
  /\ UNCHANGED <<flow, pc, disk, procs, reports>>

ReadLane(p) ==
  LET l == reader[p].at IN
  /\ l \in Lane
  /\ \/ /\ NoArtifacts(l)
        /\ reader' = [reader EXCEPT ![p].at = After(l)]
     \/ /\ Loads(l)
        /\ reader' = [reader EXCEPT
             ![p].at = After(l),
             ![p].loaded = @ \cup {[lane |-> l, by |-> metadata[l],
                                    from |-> {f.by : f \in results[l]}]}]
  /\ UNCHANGED <<flow, pc, disk, procs, reports>>

\* compatible_metadata, and the configuration the run itself was asked for.
Compatible(p) ==
  LET configs == {config[x.by] : x \in reader[p].loaded} IN
  /\ \A c, d \in configs : c = d
  /\ p = "run" => configs \subseteq {config[runs]}

WriteReport(p) ==
  /\ reader[p].at = "write" /\ reader[p].loaded # {} /\ Compatible(p)
  /\ reader' = [reader EXCEPT ![p].at = "written"]
  /\ UNCHANGED <<flow, pc, disk, procs, reports>>

EndReport ==
  /\ reader["report"].at = "written"
  /\ reader' = [reader EXCEPT !["report"] = Off]
  /\ UNCHANGED <<flow, pc, disk, procs, reports>>

EndRun ==
  /\ pc = "report" /\ reader["run"].at \in {"off", "written"}
  /\ Return
  /\ reader' = [reader EXCEPT !["run"] = Off]
  /\ UNCHANGED <<config, runs, disk, procs, reports>>

-----------------------------------------------------------------------------
Clear == StartRun \/ RemoveEntry \/ LaneCleared \/ ClearFails

RunLane ==
  \/ BeginLane \/ RemoveMarker \/ RecreateResults \/ WriteMetadata
  \/ Spawn \/ LaneFails \/ Check \/ OpenMarker \/ FillMarker

RunnerStep(r) == RunnerExits(r) \/ OpenResult(r) \/ FillResult(r) \/ OrphanExits(r)

Report(p) == ReadLane(p) \/ ReadFails(p) \/ WriteReport(p)

Next ==
  \/ Clear \/ RunLane \/ Stop
  \/ \E r \in runners : RunnerStep(r)
  \/ BeginReport \/ StartReport \/ EndReport \/ EndRun
  \/ \E p \in {"run", "report"} : Report(p)

Spec == Init /\ [][Next]_vars

-----------------------------------------------------------------------------
\* Properties.

\* What a reader that looks at the marker first sees of a lane.
Published == [l \in Lane |-> IF marker[l] = "whole" THEN metadata[l] ELSE 0]

Abstract == INSTANCE PublishedLanes WITH newest <- runs, published <- Published

\* However the harness is killed, and whatever orphans write, each run publishes
\* whole lanes once, keeps them, and never next to lanes of an older run.
PublishesAtomically == Abstract!Spec

\* No report mixes runs.  The report at the end of a run covers lanes this run
\* selected and ran, with results its own runners wrote unless the runner stopped
\* early; `conformance report` next to no run covers lanes of one run.
ReportsOneRun ==
  /\ reader["run"].at = "written" =>
       \A x \in reader["run"].loaded :
         /\ x.by = runs /\ x.lane \in lanes
         /\ x.lane \notin early => x.from = {runs}
  /\ reader["report"].at = "written" /\ reader["report"].quiet =>
       \A x, y \in reader["report"].loaded : x.by = y.by

\* The marker stands for a runner that ran every scenario to the end, unless an
\* orphan interfered.
MarkedIsFinished ==
  ~orphaned => \A l \in early : marker[l] # "whole" \/ metadata[l] # runs

\* conformance.rs:507: validation returns an error "when a child run stopped
\* early".  An orphan may have filled in the scenarios the child never reached.
EarlyStopRejected ==
  \A l \in early : marker[l] # "whole" \/ metadata[l] # runs

=============================================================================
