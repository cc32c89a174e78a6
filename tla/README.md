# Formal models of cf-integration

`cf-integration` is the command-line harness that builds the ContextForge
gateway from source checkouts, runs it with Docker Compose in two topologies
(control plane, dataplane), and tests it: protocol checks, load generation, and
the official MCP conformance suite, run directly against a fixture and through
the gateway. It keeps no server of its own. What makes it hard to get right is
that each command is a long sequence of external effects (Git, Docker, npx,
HTTP) any of which may fail, be interrupted by Ctrl-C, be killed half way, or
take effect after the harness has given up on it, while its obligations are
all-or-nothing: clean up everything, report only what was really run, never
touch what belongs to somebody else.

The models are TLA+ modules, checked with TLC on small instances; the theorems
are proved with TLAPS for every value of the constants.

## 1. Inventory

Paths are relative to the repository root. "State" is what outlives one call.

| Component | Source | State | Operations | What is hard |
|---|---|---|---|---|
| Conformance workflow | `src/runtime/compliance.rs` | running stacks, fixture service, API records, lane artifacts, interrupt future, cancellation channel | `run_conformance` and its phases per topology | Ctrl-C at any await; every step fails; cleanup must run and its failure must count; the interrupt future must not be polled twice |
| Conformance artifacts | `src/runtime/reports.rs`, `conformance.rs` (loading) | one directory per lane: `official/`, `metadata.json`, `complete` | clear, recreate, mark, load, report | kills between any two file operations, orphaned runners, a concurrent `conformance report`, leftovers of older runs |
| Conformance fixture client | `crates/compliance/src/conformance_fixture.rs` | gateway and virtual-server records in the admin API | `provision`, `cleanup` | timed-out requests landing late, other clients, list-then-delete, rollback on every error |
| Source checkout | `crates/platform/src/checkout.rs` | Git repositories on disk | `CheckoutManager::ensure` | moving refs, leftovers of killed runs, replacement by two renames, developers' own checkouts |
| Local secrets | `crates/platform/src/config.rs` 580-680 | the secrets file | `load_or_create_local_secrets` | no lock: several commands at once, short writes, kills, the operator's `rm` |
| Process runner | `crates/platform/src/process.rs` | child processes | run, capture, cancellable run to a log | exit against cancellation; children that outlive the harness |
| Stack lifecycle | `src/runtime/stack.rs`, `src/runtime/mod.rs` | Compose projects, images, labels | `stack_up`, `cleanup`, freshness, readiness | one topology at a time on the same ports; stale images |
| Conformance comparison | `crates/compliance/src/conformance.rs` | none | classify, compare, render | the table of outcomes (pure) |
| Auth proxy | `crates/mcp/src/auth_proxy.rs` | one listener and its open connections | start, forward, shutdown | a graceful shutdown that waits for connections, held by a worker that outlived its killed parent |
| Gateway client | `crates/mcp/src/gateway.rs`, reading of bodies and markers in `mcp.rs`, `backend_identity.rs` | one MCP session id | `send` of any request, checked or not | answers of the other backend, streamed answers, sessions that must not be believed |
| Test workflows | `src/runtime/{workloads,live,inspect}.rs` | the stack they bring up, the Fast Test service | bring up, prepare, run, remove | every way out must pass the cleanup; other processes on the same daemon |
| HTTP probe | `crates/mcp/src/probe.rs` over `http_transport.rs` | its MCP session, the time it has waited | be refused, initialize until configured, list, call | deadline arithmetic; nginx falling back to the other backend meanwhile |
| Goose load user | `crates/load/src/goose.rs` | session, tools and request ids per user; Goose's books; the reports | start, list, call, ping, stop, audit | errors that a transaction swallows, sessions left open, partial failures of the audit |
| Locust runner | `crates/load/src/locust.rs` | the reports | build a command line, run it, audit | partial failures of the audit |
| Plans, configuration, CLI | `crates/platform/src/{stack,compose,config}.rs`, `src/{cli,app,main,token,output}.rs` | none | parse, resolve, print | none (pure) |

How they interact: the CLI resolves the configuration (reading or creating the
local secrets) and dispatches one command. `conformance run` clears the artifact
directories; for each topology it asks the stack lifecycle for a fresh stack,
which first brings both source checkouts to their refs, then starts the fixture
service, provisions it through the fixture client, starts the auth proxy and
spawns the official runner through the process runner; afterwards it removes API
records, service and stack, and at the end writes the comparison report from the
artifacts. `probe` and `load` bring a stack up, talk to the gateway over its
public route, and remove the stack. `conformance report` only reads the artifacts. Commands share the
artifact directories, the checkouts, the secrets file and the Docker daemon, and
nothing but an existence check coordinates them.

What makes the components correct, in the order of importance: a successful run
left nothing behind and covered what was asked for; a report speaks only of
finished lanes of one run, and blames the lanes at fault; what passes was served
by the backend under test; what is not ours is left alone; an interrupt ends the
command and only unwinds; a crash never loses the only copy of something and
never makes a torn file look whole.

## 2. Modules

| Module | Models | Proof module |
|---|---|---|
| `ConformanceRun` | one `conformance run` as a state machine over its awaits | `ConformanceRunProofs` |
| `ConformanceArtifacts` | the lane directories under several runs, orphans and reports | `ConformanceArtifactsProofs` |
| `PublishedLanes` | abstract: what a reader of the artifacts may rely on; implemented by `ConformanceArtifacts` | (refinement in the module above) |
| `ConformanceFixture` | `provision` and `cleanup` against the admin API | `ConformanceFixtureProofs` |
| `SourceCheckout` | `ensure` over a series of runs | `PlatformProofs` |
| `LocalSecrets` | commands racing for the secrets file | `PlatformProofs` |
| `ManagedStack` | who leaves, uses and removes Compose stacks, by several processes | `ManagedStackProofs` |
| `StackUp` | which images a dataplane bring-up builds, pulls and runs | `StackUpProofs` |
| `ScenarioComparison` | outcomes of scenarios and their classification over three lanes (pure) | `ConformanceArtifactsProofs` |
| `RoutedLane` | one routed lane: proxy, child process, its worker, cancellation, shutdown | `ConformanceRunProofs` |
| `McpExchange` | one MCP exchange, and how the three clients judge it (pure) | `McpClientsProofs` |
| `McpGateway` | what nginx and its two backends may answer | |
| `PublicProbe` | `run_probe` against `McpGateway`, in time steps | `McpClientsProofs` |
| `GatewayClient` | `GatewayClient::send`, any requests in any order | `McpClientsProofs` |
| `McpClients` | composition of `PublicProbe` and `GatewayClient` against one gateway | `McpClientsProofs` |
| `ReportAudit` | the audit of load reports (pure), for Goose and Locust | `LoadUserProofs` |
| `LoadUser` | a native load run: users, sessions, Goose's books, `execute()`; uses `ReportAudit` | `LoadUserProofs` |

`MC<module>` instantiates the module for TLC, with symmetry where no liveness
property is checked; the `.cfg` files give the constants.
Definitions introduced by "Mutant:" are deliberately wrong versions of the
definition that follows them. They are used in no specification: replacing the
right version by the wrong one must make the property listed with it in
`PROJECT.json` fail, which shows that the property depends on that code.

A proof module that serves two state machines extends both modules; that is why
`LocalSecrets` and `RoutedLane` name their specification and program counter
apart (`SecretsSpec`, `load_pc`; `LaneSpec`, `lane_pc`).

### ConformanceRun

`pc` names the await or blocking command the workflow is at, `busy` that the
phase's future is being awaited in a `select!` next to the interrupt future. The
locals of the function are variables of the same name (`topologyFailed`,
`serviceStarted`, `fixtureHeld` per iteration; `directComplete`, `interrupted`,
`failures` for the run). The world outside is `containers` and `api` per
topology and `artifact` per lane. Each external command has a success and one or
more failure outcomes, the partial ones included (half of a `compose up`, some
of the containers removed, records left by a failed rollback).

The interrupt is three variables: `signal` (not pressed, waiting to be polled,
delivered), `handler` (tokio has replaced the default disposition, which it does
at the first poll) and `cancelled` (the watch channel). A `select!` polls its
branches in an arbitrary order, hence the `...FailsEarly` actions: an operation
that fails at once may be over before the interrupt future is polled. An
operation that has finished while the interrupt is pending may win too.

A failed `docker ps` counts as "stopped" in the code; the model allows it and
remembers the topology in `unchecked`, so that `RunnerEnvironment` says exactly
what is left of the exclusivity check. A lane's directory is only `none`, `incomplete`
or `complete` here; its files are in `ConformanceArtifacts`.

### ConformanceArtifacts and PublishedLanes

A lane is its marker (absent, torn, whole), the run that wrote its metadata, and
the set of result files, each with the run it comes from and whether it is
complete. A run clears the three lanes entry by entry (`remove_dir_all` may be
killed anywhere), and then, for each lane it selected, removes the marker,
recreates `official`, writes the metadata, spawns the runner, loads and
validates the results, and writes the marker in two steps. `Stop` ends a run
anywhere: a kill or a Ctrl-C. Its runner then dies too or, when the signal
reached the harness alone, goes on as an orphan that writes into the same path
while the next run uses it. `reader` runs the report twice: as the last step of
a run, and as the command `conformance report` at any time.

Abstractions: one lane is read in one step. The code reads marker, metadata and
results one after another; a run that clears the lane in between makes the load
fail, which `ReadFails` allows anyway, or the reader sees the new run's results
before their marker, which concerns only a report next to a run, of which no
property speaks. Further, half-written metadata is not told apart
from metadata without a marker, since both are errors for every reader; result
files of a scenario may be told apart by their directory names, which carry a
time stamp. `config` stands for version, era and fixture provenance, all that
`compatible_metadata` compares.

`PublishedLanes` forgets the files: the lane is published by a run or by none. A
run discards what older runs published, and publishes each lane at most once,
for good, and only when no lane of another run is still published.
`PublishesAtomically` is that specification under the refinement mapping
`Published` (the run named by the metadata when the marker is whole).

### ConformanceFixture

The admin API is a map from ids to kinds of record (own, reserved name without
the own fields, other, deleted, unused). Requests may succeed, be refused, take
effect without an answer, or time out and stay in `late`, from where they land
or are dropped at any time. `strays` are records created by a late request after
its collection was last listed, which the code cannot know about: `OutcomeIsTrue`
says that nothing else is left. Other clients create, edit, take over and delete
gateways and the server at any time, the fixture's own records included; they only
do not create records with all of the fixture's fields, by which `is_owned` could
not tell them apart.

The code lists a collection and then deletes by id (`conformance_fixture.rs:319-335`,
`343-377`). Between the two a record can change hands, and the delete then removes
what is another client's by now; the request carries nothing that would make it
conditional. That the client never changes another client's record is
therefore false of the code and of the model. The history variable `taken` marks the
records that others changed since the listing, and `OthersKept` says how wide the
window is: a delete, also one that lands late, only ever hits a record that was the
fixture's own when its collection was last listed. `OutcomeIsTrue` excuses
the same records and no others. The order of server and gateway has one exception
of its own, in `ServerBeforeGateway`: a POST /servers that timed out may land after
the rollback has removed the gateway, and then `strays` shows it.

### SourceCheckout

One repository on disk is its origin, the remote branch, the tag and the local
branch of the configured ref name, HEAD, and whether the worktree is dirty. A
run of `ensure` is one action per Git command or rename, each of which may fail,
and the process may be killed in between; upstream moves, deletes the ref or
turns a branch into a tag at any time. A probe that fails counts as "no", as in
the code. Refs given as commit hashes are not modelled.

### LocalSecrets

A file's content is the command that generated it and how much of it was
written. Commands read, create, write and re-read without a lock; the operator
removes the file when some command has told him to. `harmful` remembers a
removal that hit a good file or one still being written.

### ManagedStack

Each process runs one command after another: `stack up`, `stack down`, or a test
workflow (probe, load, live, Inspector), which brings a stack up for itself and
removes it on every way out (`with_managed_test_target`). `pc` is the Docker
command the process is at, `mode` the topology its cleanup loop is at, `failed`
the topologies whose cleanup failed. The world is `containers` and `volumes` per
topology, and whether the control-plane checkout exists, without which cleanup
has only the removal by label. nginx stands for what holds the public port, which
the two topologies cannot hold at once; `backend` for all other services. A
failing command leaves any part of its effect. `excused` collects what nobody
promises to remove: what `stack up` left, what a killed process left, and what a
cleanup failed on and reported. One Docker command is one step; so is the
removal by label, which lists the containers and then removes them one by one.
All processes use the same configuration.

### StackUp

A source revision is a number that also stands for the label of an image built
from it and the digest of the image published for it. `images` is the local
image under each of the three names in use (the gateway's, the published
dataplane's, the local dataplane's), `containers` the name and the image each
container was made from. `resolve_build` and `pull_if_changed` are followed
command by command, since the registry may publish in between; the facts of
`FreshnessSnapshot` are read in one step, any of them absent when its inspection
fails. `compose up` is external: with `--build` it builds every service with a
build section, without it only a missing image.

Assumptions: no image is removed while a command runs, and a dataplane image set
explicitly together with a source ref is left out. The control plane's source
revision decides nothing, since its image counts as prebuilt in every
configuration.

### ScenarioComparison

Pure: no state. A lane's artifact is its scenarios with their checks, a check its
status and whether its message says that the fixture lacks something
(`is_missing_official_fixture`); strings are not modelled further. The loop of
`outcome()`, which sets six flags, is a set of indices per status, and the table
of `classify_outcomes` is the set of lanes that fail, from which the eight names
of the enum follow.
Having no behaviour it has no run of its own; `MCConformanceArtifacts` evaluates
it over bounded inputs: `OutcomeAsLoop` (the loop with its flags, over all check
lists up to length 3) and `ClassifiedOnce` (the table's eight names).

### RoutedLane

`lane_pc` is where `run_official_conformance_mode` is; `npx` the child it spawned and
`worker` the process npx starts, which sends the requests; `conn` each
connection of the worker to the proxy and what the proxy does with it. A kill
reaches npx alone, so that a worker may be orphaned with requests on their way.
The gateway may take forever over any request, or over a stream. `ConformanceRun`
has the same lane as two steps; there the shutdown is one step, which
`CancelledReturns` justifies.

### McpExchange, McpGateway, PublicProbe, GatewayClient, McpClients

An answer is its marker, a status (a representative each of 200, 202, refused and
failed), its session header and what its body holds once `parse_mcp_body` has
read it. `McpExchange` says, per client, whether it accepts an answer.
`McpGateway` is external: nginx routes each request to the dataplane or, in the
dataplane topology, falls back to the control plane, and replaces the marker by
its own; each backend issues sessions of its own and serves only these. The
dataplane has its configuration from the start or gets it at some time.

`PublicProbe` follows `run_probe`. `now` counts from the first authenticated
attempt and passes while the probe waits or sleeps; `since` is the beginning of
an attempt or the end of a sleep. `misled` and `fell_back` remember, before the
probe has a session, whether it got an answer that no healthy gateway gives, or
nginx's fallback. `GatewayClient` keeps `header`, the session it sends; its
caller may send any request in any order with any session. `McpClients` runs
both against one gateway, so that sessions of one may turn up with the other.

### LoadUser and ReportAudit

`pc` is the request a user waits for; `data`, `sid`, `callable`, `next_tool` and
`next_id` are Goose's session data and `UserSession`. A transaction is the step
that sends its request and the step that judges the answer, with everything the
code does after it; a transaction that only sleeps is no step. `failed` is what
Goose has counted against the user, with Goose's own rule (no answer, or not
2xx, unless `set_success` takes it back). The gateway answers anything, loses
requests and answers and drops sessions; `session` is what it holds and
`faulty` remembers that it answered wrongly, `exhausted` that the user wanted a
request after its last id (`next_request`). Only about the end of a session is
it trusted: an answered DELETE tells the truth.

`ReportAudit` is pure and serves both engines: what `inspect_reports` and
`audit_reports` leave of a set of reports, some unreadable and some stuck, and
the verdict. `LocustRun` is the order in `finalize_locust_run`: audit first, also
after a failed process, and its error before the process's.

## 3. Runs

| Run | Result | Shows |
|---|---|---|
| `conformance_safety` | passes | all lane selections, all failures, Ctrl-C anywhere: cleanup, coverage, exclusivity, report, interrupt; a delivered Ctrl-C ends the command although the runner may never exit |
| `conformance_kill` | violated | Ctrl-C during the first stack bring-up leaves the stack running (finding) |
| `artifacts_safety` | passes | no torn or mixed artifacts are published or reported; refinement of `PublishedLanes` |
| `fixture_safety` | passes | what provision and cleanup return is true, whenever requests land and whatever others do to the records; deletes hit only what was the fixture's own when listed; the server comes after its gateway and goes before it; two quiet polls find a create that lands within one poll; both operations return |
| `checkout_safety` | passes | right repository, fetched branch, no copy lost, external checkouts preserved |
| `secrets_safety` | passes | commands that succeed agree on the secrets |
| `managed_stacks` | passes | two processes at once: no test workflow leaves a stack, Fast Test or an emptied database behind |
| `images_safety` | passes | a bring-up that succeeds runs what the configuration asks for, and the next one sees that |
| `load_users` | passes | two users and any answers: the verdict on each user is exact, no deletable session and no readable token stays unreported, and a run told to stop returns |
| `mcp_clients` | passes | probe and client against two backends: who served a probe that passed, whose sessions the clients hold, how long the probe waits |
| `probe_wait` | violated | nginx's fallback ends the probe's wait on the first attempt (finding) |
| `routed_lane` | passes | nothing of the proxy outlives the lane, a lane that succeeds was not cut short, a cancelled lane returns |

Type invariants are proved for every module with state. Runs check them too where
nothing else pins the types down (`ConformanceFixture`, `SourceCheckout`,
`StackUp`).

Bounds, and why they are enough for the questions asked:

* `ConformanceRun` is finite as it is; `ApiResource` has two records, one
  gateway and one server, as the client provisions. Ctrl-C is pressed once:
  later presses change nothing in a future that completes once.
* `ConformanceArtifacts`: two runs (an older one and the one that meets what it
  left, its orphan included), two scenarios (finished and missing), two
  configurations, one report command, and two selections: a baseline next to a
  routed lane, and a routed lane alone, so that lanes of the first run exist
  which the second did not select. The proofs cover any number of each.
* `ConformanceFixture`: three gateway ids, enough for a leftover, another client's
  and the fixture's own or a stray (a create is answered or timed out, never both),
  two attempts of the catalog polls and four reconciliation polls.
  `latePolls` is 1 or all of them: a timed-out create is settled after the first
  poll, or at no known time. The proofs cover any ids and any number of polls.
* `SourceCheckout`: two repositories, and two commits besides the default tip,
  which is enough for a ref to move and to change its kind. The proofs cover any
  number of both.
* `ManagedStack`: two processes, which run any number of commands. The proofs
  cover any number of processes.
* `StackUp`: two revisions, an older and a newer one, for sources and for the
  registry, which is enough for every kind of staleness; any leftovers initially.
  The proofs cover any number of revisions.
* `LocalSecrets`: four commands (creator, early reader, loser of the race, late
  comer). The proofs cover any set of commands.
* `LoadUser`: two users, which share nothing but the verdict; one safe tool;
  `IdLimit` just above the ids of the first requests, so that the last request
  id and the refusal after it occur. The proofs cover any number of each.
* `McpClients`: two sessions (one per client, or one per backend), a deadline of
  5, requests of at most 3, an interval of 2 and an oversleep of 1: the interval
  divides nothing, so that attempts and sleeps are cut short by the deadline in
  every position. `Stop` bounds the clock beyond any time the probe can reach.
  The proofs cover any values.
* `RoutedLane`: three connections, so that one can be idle, one unanswered and
  one streaming. The safety proofs cover any number.

`CHECK_DEADLOCK FALSE` is set where the modelled commands end: a finished run,
finished commands and exhausted bounds have no successor. `SourceCheckout`
never ends and is checked for deadlock.

Fairness: `ConformanceRun` assumes weak fairness of `Workflow`, i.e. tokio keeps
polling the one task and every external command returns, but not of
`RunnerExits`: the official runner has no deadline. `ConformanceFixture` assumes
it of the client, whose every request has a timeout, and of `Drop`, i.e. a
timed-out request is eventually gone. `LoadUser` assumes it of each user's
answers and of its leaving, since every request has the client's
`REQUEST_TIMEOUT` and Goose ends its users one after another, and of `Return`;
not of `Stop`, so that nothing is said of a run nobody stops. `RoutedLane`
assumes it of the harness's own steps and of the end of an *orphaned* worker,
not of the gateway and not of a worker whose npx lives: only the cancellation
ends such a lane. That an orphaned worker ends is a fact for Ctrl-C at a terminal,
where it gets the signal too; for a SIGINT to the harness alone it is an assumption,
on which `CancelledReturns` rests. All else is safety and needs none.

## 4. Divergences

Two places where a document or comment promises more than the code does are
runs that must fail, and `PROJECT.json` quotes both sides: stacks are not
*always* removed (Ctrl-C before the first poll of the interrupt future), and the
probe does not wait `config_timeout` for the publisher's configuration when nginx
answers for the dataplane meanwhile.

The modules state further formulas that TLC refutes, with the constants of the
passing run of their module; they are kept as definitions and have no run:

* `OkAtRequestedRef` (`SourceCheckout`): `checkout.rs:227` promises the
  requested ref. When upstream deletes branch R and publishes a tag R, the plain
  `git checkout R` at `checkout.rs:312` prefers the stale local branch.
* `GeneratedOnce` (`LocalSecrets`): `README.md:394` says the values are
  generated once. A command that reads the file between `create_new` and
  `write_all` (`config.rs:617`) advises to remove it (`config.rs:672`); done
  later, this removes good secrets.
* `EarlyStopRejected` (`ConformanceArtifacts`): `conformance.rs:507` says the
  scenario set shows a child that stopped early. An orphan of a killed run may
  have written exactly the scenarios that are missing.
* `AutoBuildsOnlyDataplane` (`StackUp`): `.env.example:32` says `auto` builds only
  the source dataplane. `up -d --remove-orphans --build` (platform `stack.rs:174`)
  names no service and rebuilds the gateway's image too.

Two more were read off the code while modelling. `conformance.rs:721` calls
`AllCompliant` "Direct and both routed paths are compliant", but lanes for which
the scenario is not applicable count as well; `BlameIsEarned` says what holds,
that some lane passed some check. And `README.md:201-204` says that both engines
audit their reports, but an error of Goose itself (`goose.rs:272-283`) returns
before `inspect_reports`, while Locust's reports are audited also after a failed
process; `TokensRemoved` therefore excludes that outcome.

## 5. Theorems

Proved for any constants satisfying the named assumptions of the modules.

* `ConformanceRunProofs`: type correctness, the five state invariants and the two
  action properties of `conformance_safety`. The properties are not inductive.
  `IInv` adds: `InterruptFlow` (where the interrupt can be pending, delivered
  and noted at each `pc`), `PhaseFacts` (what is up during each phase and why
  the other stack is down), `Ownership` (what is running or registered and whose
  cleanup is still to come, or else a failure is recorded), `Coverage` (each
  selected lane is complete, still to come, or a failure is recorded) and
  `LaneOnce` (a lane is started only from nothing). The step is proved per
  conjunct and per action. The module also holds `QuietAfterReturn` and `OkIsWhole`
  of `routed_lane`, from what can still be open at each `lane_pc` and the order in
  which worker and child end.
* `ConformanceArtifactsProofs`: type correctness, the refinement of
  `PublishedLanes` and the two state invariants. `DiskInv` (`Progress`,
  `LaneFiles`, `OneRunOnDisk`) is inductive on its own and carries the
  refinement: while a run clears, a lane not yet cleared belongs to an older run
  and a cleared one is empty; from then on every marker and every piece of
  metadata is this run's, and a lane has no marker until its results were
  validated. `FilesInv` follows who wrote the result files: at most one runner
  is the run's own, it has left a file for each scenario it is past, and without
  orphans an early-stopped lane is recognised by its missing file. `RunReads` and
  `QuietReads` carry both over to what the readers have loaded; the argument for
  the mixed sources is that a marked lane already holds a file of the own runner
  for every scenario, so that an orphan's file makes a duplicate, which the
  load refuses.
  The module also holds the theorems about `ScenarioComparison`: `BlameIsEarned`,
  `FailuresShow`, `ValidLanesDecide`, from `OutcomeFacts`, which says what an
  outcome tells of the checks.
* `ConformanceFixtureProofs`: all safety properties of `fixture_safety`, that is
  type correctness, `OutcomeIsTrue`, `TwoPollsFindLateCreate`, `OthersKept` and
  `ServerBeforeGateway`, for any timing of the late requests. `Requests` says which
  timed-out requests can still be on their way in each phase: only deletes of the
  client's own records while it prepares, at most one create while it reconciles
  or rolls back, none while it finishes. `Records` says that what is doomed or about
  to be deleted is the fixture's own or taken since the listing, which is
  `OthersKept`; it needs that no delete outlives the next listing of its
  collection (`Requests`), since a listing clears `taken`.
  `ServerSide` and `GatewaySide` say what is registered at each step; without them
  `OutcomeIsTrue` is not inductive, since the last listing says nothing of what
  earlier steps removed. The theorems are stated for `Spec`, without fairness.
* `PlatformProofs`: type correctness and the four properties of
  `checkout_safety`, and `OneSecret` and `StoredSecretStays` of `secrets_safety`.
  For the checkout, `Flow` says which of the directory, the staged clone and the
  backup exist at each step, `Copies` that a repository holds only commits of its
  origin and that a replacement is complete before the old copy goes, and
  `Fetching` ties what the run saw of upstream to the refs it fetched and to the
  answers of its probes. `OkIsConfiguredSource` and `HealthyRunSucceeds` speak of
  the last result and are part of the invariant. For the secrets, a command about to
  write still finds its own empty file unless a harmful removal took it.
* `ManagedStackProofs`: type correctness, `NothingLeft` and `DataKept`. That *some*
  command on a topology is still running is not inductive, since that command may
  be a `stack up`, which does not clean up. `Owed` is: what is left on a topology
  nobody excused is some test workflow's, and a running Fast Test that of a
  workflow which exercises it; `Flow` says that a test workflow has no step to
  idle that bypasses its cleanup.
* `StackUpProofs`: type correctness, `OkRunsWanted` and `OkIsCurrent`.
  `Resolved` keeps the reason for not building (the local image matches the
  checkout's commit), `Inspected` that each published image is at least as new as
  the digest the command has seen, although the registry may publish in between,
  and `Runs` that the containers of a finished start-up run these images.
  `ComposedImages` derives the last from the first two for every outcome of
  `compose up`.
* `LoadUserProofs`: `OpenSessionsReported`, `VerdictExact` and `TokensRemoved`.
  The invariant relates, at each `pc`, the user's session id to the session in
  the gateway: one that is open although the user has no id stems from a failed
  initialisation, which Goose has counted. `Judged` is the verdict in both
  directions: a wrong answer or a request without an id left counts, and besides a
  missing HTTP client nothing else does. `AuditIsThorough` states once what
  the audit leaves of any set of reports.
* `McpClientsProofs`: all four invariants of `mcp_clients`, for any times.
  `Sessions`: an answer that a client uses carries the marker of the backend
  under test, and a session once issued keeps its issuer. `Timing`: during an
  attempt its limit, and during a sleep its end, keep the clock within the
  deadline. `Waiting`: a sleep after a refusal by an unconfigured gateway began
  before the configuration came, so that the last sleep bounds how long it has
  been there. `ProbeIsStrictest`, about `McpExchange`, goes by cases on the body.

The named assumptions on the constants only keep apart what the code keeps apart
(the value for "absent" is no file content, image, commit or session; ids of
gateways are not the fixed server's), say that something is there to speak of (a
repository, a record), and give limits the values that the code's builders accept
(at least one poll, at least two reconciliation polls, times that are natural
numbers).

No module under proof uses `CHOOSE`: tlapm 1.4.5 hands its SMT solver an encoding
of it from which any element satisfying the predicate is the chosen one.

Only model-checked: liveness (`InterruptEnds`, `Returns`,
`StoppedRunReturns`, `CancelledReturns`), which is out of the prover's reach; that the operators of
`ScenarioComparison` compute what the code's loop computes, over bounded inputs
(`OutcomeAsLoop`, `ClassifiedOnce`), since it would need an induction over the
list of checks; and the findings and refuted formulas of section 4, which are
counterexamples. Every safety property of a passing run is proved.

## 6. Not modelled

Real time except the probe's wait (readiness, polls and requests are steps that
succeed or fail), the text of logs and reports, HTTP and JSON encodings, the
construction of command lines and Compose files, and everything inside the
gateway, the official runner, Goose, Locust, Docker and Git beyond the effects
above.

* Configuration (`config.rs` but for the secrets, `error.rs`) and the command
  line (`cli.rs`, `app.rs`, `token.rs`, ...) resolve and dispatch once per call:
  functions of strings without state, covered by unit tests in the repository.
* Live tests, Inspector and Locust are other programs; around them
  `ManagedStack` has the stack and `ReportAudit` the reports.
* Two harness processes are modelled where they share the secrets file
  (`LocalSecrets`), the artifacts as a report next to a run
  (`ConformanceArtifacts`) or the Docker daemon (`ManagedStack`), not where they
  share the checkouts or the artifact directories of two running runs.
* The proxy's rewriting of headers and of the protocol version, and the
  gateway client's captures and redaction, are data without effect on the
  control modelled here.

## 7. What could come next

1. An abstract specification of `ConformanceRun` (each selected lane is run at
   most once, then everything is removed, then reported) and its refinement.
2. `SourceCheckout` for two commands that replace one generated checkout at
   once.
3. A refinement of `ManagedStack`: what `StackUp` does is its bring-up, seen with
   images.
