----------------------------- MODULE RoutedLane -----------------------------
(***************************************************************************)
(* One routed conformance lane: run_official_conformance_mode in           *)
(* src/src/runtime/compliance.rs around the authentication proxy           *)
(* (src/crates/mcp/src/auth_proxy.rs) and the cancellable child process    *)
(* (src/crates/platform/src/process.rs).                                   *)
(*                                                                         *)
(* The harness starts the proxy, spawns `npx', and waits for it to exit or *)
(* for the cancellation; then it kills npx if it has to, reaps it, and     *)
(* shuts the proxy down, which waits for the requests the proxy is still   *)
(* forwarding.  npx starts a worker of its own that sends the requests.  A *)
(* killed npx does not take its worker along: the worker lives on, with    *)
(* connections open.  When the lane has returned, the workflow deletes the *)
(* API records and the stack behind the proxy.                             *)
(***************************************************************************)
EXTENDS Naturals

CONSTANT Connection      \* connections the worker may have open at once

VARIABLES
  lane_pc,      \* where run_official_conformance_mode is
  result,       \* of the child, then of the lane
  cancellation, \* the watch channel holds true
  npx, worker,  \* the child process and the one it starts
  listening,    \* the proxy accepts connections
  draining,     \* its graceful shutdown has begun
  conn          \* a connection: "closed", "open" (no request), "sent" to the
                \* gateway, or "streaming" the gateway's answer

harness  == <<lane_pc, result>>
laneVars == <<harness, cancellation, npx, worker, listening, draining, conn>>

LaneTypeOK ==
  /\ lane_pc \in {"start", "spawn", "wait", "reap", "shut_down", "drain", "returned"}
  /\ result \in {"none", "ok", "failed"}
  /\ cancellation \in BOOLEAN
  /\ npx \in {"none", "alive", "exited", "crashed", "killed"}
  /\ worker \in {"none", "alive", "done"}
  /\ listening \in BOOLEAN /\ draining \in BOOLEAN
  /\ conn \in [Connection -> {"closed", "open", "sent", "streaming"}]

LaneInit ==
  /\ lane_pc = "start" /\ result = "none" /\ cancellation = FALSE
  /\ npx = "none" /\ worker = "none"
  /\ listening = FALSE /\ draining = FALSE
  /\ conn = [c \in Connection |-> "closed"]

-----------------------------------------------------------------------------
\* The harness.

Goto(step, r) == lane_pc' = step /\ result' = r

\* AuthProxy::start binds and serves, or fails and nothing was started.
StartProxy ==
  /\ lane_pc = "start"
  /\ \/ Goto("spawn", "none") /\ listening' = TRUE
     \/ Goto("returned", "failed") /\ UNCHANGED listening
  /\ UNCHANGED <<cancellation, npx, worker, draining, conn>>

\* run_official_conformance_target up to the child: preparing the directory,
\* opening the log and spawning may fail.
Spawn ==
  /\ lane_pc = "spawn"
  /\ \/ Goto("wait", "none") /\ npx' = "alive"
     \/ Goto("shut_down", "failed") /\ UNCHANGED npx
  /\ UNCHANGED <<cancellation, worker, listening, draining, conn>>

\* select!: the child's end, by a code that stands for success or not ...
ChildExited ==
  /\ lane_pc = "wait" /\ npx \in {"exited", "crashed"}
  /\ \E r \in {"ok", "failed"} : (r = "ok" => npx = "exited") /\ Goto("shut_down", r)
  /\ UNCHANGED <<cancellation, npx, worker, listening, draining, conn>>

\* Mutant: the child is left to itself.
CancelWithoutKill ==
  /\ lane_pc = "wait" /\ cancellation
  /\ Goto("reap", "none")
  /\ UNCHANGED <<cancellation, npx, worker, listening, draining, conn>>

\* ... or the cancellation: start_kill, which misses a child that has exited.
Cancel ==
  /\ lane_pc = "wait" /\ cancellation
  /\ Goto("reap", "none")
  /\ npx' = IF npx = "alive" THEN "killed" ELSE npx
  /\ UNCHANGED <<cancellation, worker, listening, draining, conn>>

\* Mutant: reaping decides nothing.
ReapSilently ==
  /\ lane_pc = "reap" /\ npx # "alive"
  /\ Goto("shut_down", "ok")
  /\ UNCHANGED <<cancellation, npx, worker, listening, draining, conn>>

\* wait, and cancelled_failure also for a child that had exited.
Reap ==
  /\ lane_pc = "reap" /\ npx # "alive"
  /\ Goto("shut_down", "failed")
  /\ UNCHANGED <<cancellation, npx, worker, listening, draining, conn>>

\* signal_shutdown: the listener is dropped, and connections without a request
\* are closed.
BeginDrain ==
  /\ listening' = FALSE /\ draining' = TRUE
  /\ conn' = [c \in Connection |-> IF conn[c] = "open" THEN "closed" ELSE conn[c]]

\* Mutant: the lane does not wait for the server task.
ShutDownAtOnce ==
  /\ lane_pc = "shut_down"
  /\ Goto("returned", result)
  /\ BeginDrain
  /\ UNCHANGED <<cancellation, npx, worker>>

ShutDown ==
  /\ lane_pc = "shut_down"
  /\ Goto("drain", result)
  /\ BeginDrain
  /\ UNCHANGED <<cancellation, npx, worker>>

\* The server task ends with its last connection; it may fail for other
\* reasons too, which finish_with_cleanup adds to the lane's.
Drained ==
  /\ lane_pc = "drain" /\ \A c \in Connection : conn[c] = "closed"
  /\ \E r \in {result, "failed"} : Goto("returned", r)
  /\ UNCHANGED <<cancellation, npx, worker, listening, draining, conn>>

-----------------------------------------------------------------------------
\* Ctrl-C, seen by the workflow, which goes on to await the lane.
Interrupt ==
  /\ ~cancellation /\ lane_pc # "returned" /\ cancellation' = TRUE
  /\ UNCHANGED <<harness, npx, worker, listening, draining, conn>>

\* The processes (external).

StartWorker ==
  /\ npx = "alive" /\ worker = "none" /\ worker' = "alive"
  /\ UNCHANGED <<harness, cancellation, npx, listening, draining, conn>>

\* A worker that ends, its connections with it.  The proxy then drops what it
\* was forwarding for it.
WorkerEnds ==
  /\ worker = "alive" /\ worker' = "done"
  /\ conn' = [c \in Connection |-> "closed"]
  /\ UNCHANGED <<harness, cancellation, npx, listening, draining>>

\* npx waits for its worker, unless it dies before.
NpxEnds ==
  /\ npx = "alive"
  /\ npx' = IF worker = "done" THEN "exited" ELSE "crashed"
  /\ UNCHANGED <<harness, cancellation, worker, listening, draining, conn>>

-----------------------------------------------------------------------------
\* The proxy and the gateway behind it.

Set(c, state) == conn' = [conn EXCEPT ![c] = state]

Connect(c) ==
  /\ worker = "alive" /\ listening /\ conn[c] = "closed"
  /\ Set(c, "open")
  /\ UNCHANGED <<harness, cancellation, npx, worker, listening, draining>>

\* forward: method, path and size are answered by the proxy itself, with no
\* change here; the rest is sent to the upstream, without a time limit.
Forward(c) ==
  /\ worker = "alive" /\ conn[c] = "open"
  /\ Set(c, "sent")
  /\ UNCHANGED <<harness, cancellation, npx, worker, listening, draining>>

\* The upstream's headers arrive, with the marker of the backend under test.
Answer(c) ==
  /\ conn[c] = "sent" /\ Set(c, "streaming")
  /\ UNCHANGED <<harness, cancellation, npx, worker, listening, draining>>

\* The answer is over: relayed to its end, or 502 for a failed request and for
\* a foreign backend.  A draining proxy closes the connection.
EndAnswer(c) ==
  /\ conn[c] \in {"sent", "streaming"}
  /\ Set(c, IF draining THEN "closed" ELSE "open")
  /\ UNCHANGED <<harness, cancellation, npx, worker, listening, draining>>

Disconnect(c) ==
  /\ worker = "alive" /\ conn[c] # "closed"
  /\ Set(c, "closed")
  /\ UNCHANGED <<harness, cancellation, npx, worker, listening, draining>>

Harness == StartProxy \/ Spawn \/ ChildExited \/ Cancel \/ Reap \/ ShutDown \/ Drained

Traffic(c) == Connect(c) \/ Forward(c) \/ Answer(c) \/ EndAnswer(c) \/ Disconnect(c)

LaneNext == \/ Harness \/ Interrupt \/ StartWorker \/ WorkerEnds \/ NpxEnds
            \/ \E c \in Connection : Traffic(c)

\* The harness goes on, and an orphaned worker ends some time.  That is all:
\* the gateway may leave a request unanswered and a stream open forever, and a
\* worker that still has its npx may hang.
Orphaned == npx \in {"crashed", "killed"}

Fairness == WF_laneVars(Harness) /\ WF_laneVars(Orphaned /\ WorkerEnds)

LaneSpec == LaneInit /\ [][LaneNext]_laneVars /\ Fairness

-----------------------------------------------------------------------------
\* Properties.

\* When the lane has returned, nothing of the proxy is left: no request is
\* still on its way to the gateway, and an orphaned worker cannot send another
\* one, while the workflow deletes the records that the requests are about.
QuietAfterReturn ==
  lane_pc = "returned" => ~listening /\ \A c \in Connection : conn[c] = "closed"

\* A lane that succeeds was not cut short: npx has exited by itself after its
\* worker was done, not by the cancellation.
OkIsWhole == result = "ok" => npx = "exited" /\ worker = "done"

\* A lane that is waiting and is cancelled returns, whatever the gateway does:
\* the shutdown waits for no more than the orphan's life.
CancelledReturns == cancellation /\ lane_pc = "wait" ~> lane_pc = "returned"
=============================================================================
