------------------------------ MODULE LoadUser ------------------------------
(***************************************************************************)
(* The native load engine (src/crates/load/src/goose.rs): virtual users    *)
(* that each open an MCP session with the gateway, list its tools, call    *)
(* the harmless ones and delete the session when the run is over.  The run *)
(* succeeds only if no request and no transaction of any user failed.      *)
(*                                                                         *)
(* Goose itself is external: it starts users, runs the transactions of a   *)
(* user one after another, on_start first and on_stop last, and counts as  *)
(* failed a transaction that returns an error, and a request that has no   *)
(* answer or one that is not 2xx, unless the user says otherwise.          *)
(*                                                                         *)
(* The gateway may answer anything, lose a request or its answer, and drop *)
(* a session at any time; only of what becomes of a session does it tell   *)
(* the truth: an answered DELETE tells whether the session is closed.      *)
(***************************************************************************)
EXTENDS Naturals, Sequences, FiniteSets, Functions, ReportAudit

CONSTANTS
  User,        \* users that may be started
  SafeTool,    \* tools tool_call_args has arguments for
  IdLimit      \* largest request id, u64::MAX in the code

ASSUME IdAssumption == IdLimit \in Nat /\ IdLimit > 3

VARIABLES
  pc,          \* the request a user waits for, or "unborn", "idle", "done"
  data,        \* Goose holds session data for the user
  sid,         \* ... which has a session id
  callable,    \* ... and callable tools
  next_tool, next_id,
  failed,      \* Goose counts a failed request or transaction of the user
  session,     \* the user's session in the gateway
  attack,      \* "running", "stopping" or "returned"
  outcome,     \* what execute() returns: "ok" or a GooseRunError
  reports,     \* the reports execute() leaves
  dataplane,   \* answers need the dataplane's backend marker
  deletable,   \* the gateway lets clients delete sessions
  faulty,      \* history: an answer to the user was wrong
  exhausted    \* history: the user wanted a request id when none was left

client == <<data, sid, callable, next_tool, next_id>>
run    == <<attack, outcome, reports, dataplane, deletable>>
past   == <<faulty, exhausted>>
vars   == <<pc, client, failed, session, run, past>>

-----------------------------------------------------------------------------
\* Requests and answers.

Expected(request) ==
  CASE request = "initialized" -> "Accepted"
    [] request = "delete"      -> "SessionDeleted"
    [] OTHER                   -> "Ok"

\* An answer may not come in time ("lost") or be cut or too long; "unmarked":
\* without the dataplane's backend marker.  Its body is a "result" for the
\* request, one with a "defect", or "other".
Answer ==
       [delivery : {"whole", "unmarked"}, status : {200, 202, 404, 405, 500},
        body : {"empty", "result", "defect", "other"}]
  \cup [delivery : {"lost", "unreadable"}, status : {500}, body : {"other"}]

Success == 200..299

\* GooseReportPaths.
Report == {"html", "json"}

AcceptedStatus(expected) ==
  CASE expected = "Ok"             -> {200}
    [] expected = "Accepted"       -> {202}
    [] expected = "SessionDeleted" -> Success \cup {404, 405}

Received(a) == a.delivery = "whole" \/ (a.delivery = "unmarked" /\ ~dataplane)

\* send_mcp_request returns the answer to the transaction.
Accepts(request, a) ==
  /\ Received(a)
  /\ a.status \in AcceptedStatus(Expected(request))
  /\ Expected(request) = "Accepted" => a.body = "empty"

\* ... and the transaction finds nothing wrong with it.
Succeeds(request, a) ==
  /\ Accepts(request, a)
  /\ Expected(request) = "Ok" => a.body = "result"

\* Mutant: an answer that says the session is gone counts as failed.
RecordedUnforgiven(request, a) ==
  \/ ~Succeeds(request, a)
  \/ a.status \notin Success

\* Mutant: a session that could not be deleted is of no interest.
RecordedUnlessDeletion(request, a) ==
  ~Succeeds(request, a) /\ Expected(request) # "SessionDeleted"

\* Goose counts the request as failed.  It does so by itself for no answer or
\* one that is not 2xx, which set_success takes back for a deletion.
Recorded(request, a) ==
  \/ ~Succeeds(request, a)
  \/ a.status \notin Success /\ Expected(request) # "SessionDeleted"

\* What a gateway that works answers.
Correct(u, a) ==
  /\ Received(a)
  /\ CASE pc[u] = "initialized" -> a.status = 202 /\ a.body = "empty"
       [] pc[u] = "delete" -> IF ~deletable THEN a.status = 405
                              ELSE IF session[u] = "gone" THEN a.status \in Success \cup {404}
                              ELSE a.status \in Success
       [] OTHER -> a.status = 200 /\ a.body = "result"

\* What tool_call_args and `seen' leave of a listing.
Callable == UNION {Injection(1..n, SafeTool) : n \in 0..Cardinality(SafeTool)}

TypeOK ==
  /\ pc \in [User -> {"unborn", "initialize", "initialized", "tools",
                      "idle", "list", "call", "ping", "delete", "done"}]
  /\ data \in [User -> BOOLEAN] /\ sid \in [User -> BOOLEAN]
  /\ callable \in [User -> Callable]
  /\ next_tool \in [User -> Nat]
  /\ next_id \in [User -> 2..IdLimit]
  /\ failed \in [User -> BOOLEAN]
  /\ faulty \in [User -> BOOLEAN] /\ exhausted \in [User -> BOOLEAN]
  /\ session \in [User -> {"none", "open", "gone"}]
  /\ attack \in {"running", "stopping", "returned"}
  /\ outcome \in {"none", "ok", "Execution", "ReportCleanup", "CredentialLeak",
                  "ReportInspection", "FailedMetrics"}
  /\ reports \in [Report -> Content]
  /\ dataplane \in BOOLEAN /\ deletable \in BOOLEAN

Init ==
  /\ pc = [u \in User |-> "unborn"]
  /\ data = [u \in User |-> FALSE] /\ sid = [u \in User |-> FALSE]
  /\ callable = [u \in User |-> <<>>]
  /\ next_tool = [u \in User |-> 0] /\ next_id = [u \in User |-> 2]
  /\ failed = [u \in User |-> FALSE]
  /\ faulty = [u \in User |-> FALSE] /\ exhausted = [u \in User |-> FALSE]
  /\ session = [u \in User |-> "none"]
  /\ attack = "running" /\ outcome = "none"
  /\ reports = [r \in Report |-> "absent"]
  /\ dataplane \in BOOLEAN /\ deletable \in BOOLEAN

-----------------------------------------------------------------------------
\* Steps of a user.

Set(f, u, value) == [f EXCEPT ![u] = value]

Goto(u, step) == pc' = Set(pc, u, step)

\* Goose's books after an answer, and whether it deserved them.
Judge(u, a) ==
  /\ failed' = Set(failed, u, failed[u] \/ Recorded(pc[u], a))
  /\ faulty' = Set(faulty, u, faulty[u] \/ ~Correct(u, a))
  /\ UNCHANGED exhausted

\* A transaction returns an error of its own.
TransactionFails(u) ==
  /\ failed' = Set(failed, u, TRUE)
  /\ UNCHANGED <<faulty, session, run>>

\* initialize_user: building the HTTP client fails, and the transaction that
\* build_scenario wraps around it swallows that.
ClientFails(u) ==
  /\ attack = "running" /\ pc[u] = "unborn"
  /\ Goto(u, "idle")
  /\ UNCHANGED <<client, failed, session, run, past>>

Launch(u) ==
  /\ attack = "running" /\ pc[u] = "unborn"
  /\ Goto(u, "initialize")
  /\ data' = Set(data, u, TRUE)
  /\ UNCHANGED <<sid, callable, next_tool, next_id, failed, session, run, past>>

\* The wrapper around initialize_user, after a request failed: the user stays
\* without a session, and does nothing more.
Dormant(u) ==
  /\ Goto(u, "idle")
  /\ sid' = Set(sid, u, FALSE) /\ callable' = Set(callable, u, <<>>)
  /\ UNCHANGED <<data, next_tool, next_id>>

\* The gateway may have opened a session, whatever came back.
Initialized(u, a) ==
  /\ pc[u] = "initialize"
  /\ Judge(u, a)
  /\ \E s \in {"none", "open"} :
       /\ Correct(u, a) => s = "open"
       /\ session' = Set(session, u, s)
  /\ IF Succeeds("initialize", a)
       THEN /\ Goto(u, "initialized") /\ sid' = Set(sid, u, TRUE)
            /\ UNCHANGED <<data, callable, next_tool, next_id>>
       ELSE Dormant(u)
  /\ UNCHANGED run

\* The ids start far below the limit.
Notified(u, a) ==
  /\ pc[u] = "initialized"
  /\ Judge(u, a)
  /\ IF Succeeds("initialized", a)
       THEN /\ Goto(u, "tools") /\ next_id' = Set(next_id, u, next_id[u] + 1)
            /\ UNCHANGED <<data, sid, callable, next_tool>>
       ELSE Dormant(u)
  /\ UNCHANGED <<session, run>>

\* list_tools, within initialize_user or as a transaction.
Listed(u, a) ==
  /\ pc[u] \in {"tools", "list"}
  /\ Judge(u, a)
  /\ IF Succeeds(pc[u], a)
       THEN \E tools \in Callable \ {<<>>} :
              /\ Goto(u, "idle")
              /\ callable' = Set(callable, u, tools)
              /\ next_tool' = Set(next_tool, u, next_tool[u] % Len(tools))
              /\ UNCHANGED <<data, sid, next_id>>
       ELSE IF pc[u] = "tools" THEN Dormant(u)
                               ELSE Goto(u, "idle") /\ UNCHANGED client
  /\ UNCHANGED <<session, run>>

Answered(u, a) ==
  /\ pc[u] \in {"call", "ping"}
  /\ Judge(u, a)
  /\ Goto(u, "idle")
  /\ UNCHANGED <<client, session, run>>

\* An answer of the gateway's own tells what became of the session.
Deletion(u, a, s) ==
  IF Received(a) /\ a.status # 500
    THEN /\ a.status = 405 <=> ~deletable
         /\ a.status = 404 => session[u] = "gone"
         /\ s = IF deletable THEN "gone" ELSE session[u]
    ELSE s = session[u] \/ (deletable /\ s = "gone")

\* delete_session.
Deleted(u, a) ==
  /\ pc[u] = "delete"
  /\ \E s \in {"open", "gone"} :
       Deletion(u, a, s) /\ session' = Set(session, u, s)
  /\ Judge(u, a)
  /\ Goto(u, "done")
  /\ IF Succeeds("delete", a)
       THEN sid' = Set(sid, u, FALSE) /\ callable' = Set(callable, u, <<>>)
       ELSE UNCHANGED <<sid, callable>>
  /\ UNCHANGED <<data, next_tool, next_id, run>>

\* session() of a user without session data.
NoSession(u) ==
  ~data[u] /\ UNCHANGED <<pc, client, exhausted>> /\ TransactionFails(u)

Ready(u) == attack = "running" /\ pc[u] = "idle"

\* Mutant: the transaction ends without a request, but with no error either.
NextRequestUnreported(u, request) ==
  \/ /\ next_id[u] < IdLimit
     /\ next_id' = Set(next_id, u, next_id[u] + 1)
     /\ Goto(u, request) /\ UNCHANGED <<failed, session, run, past>>
  \/ /\ next_id[u] = IdLimit
     /\ exhausted' = Set(exhausted, u, TRUE)
     /\ UNCHANGED <<pc, next_id, failed, faulty, session, run>>

\* next_request: on overflow nothing is sent.
NextRequest(u, request) ==
  \/ /\ next_id[u] < IdLimit
     /\ next_id' = Set(next_id, u, next_id[u] + 1)
     /\ Goto(u, request) /\ UNCHANGED <<failed, session, run, past>>
  \/ /\ next_id[u] = IdLimit
     /\ exhausted' = Set(exhausted, u, TRUE)
     /\ UNCHANGED <<pc, next_id>> /\ TransactionFails(u)

\* A transaction of a dormant user sleeps and returns: no step.
Request(u) ==
  /\ Ready(u)
  /\ \/ NoSession(u)
     \/ /\ sid[u]
        /\ \E request \in {"list", "ping"} : NextRequest(u, request)
        /\ UNCHANGED <<data, sid, callable, next_tool>>

\* next_tool_call.
Call(u) ==
  /\ Ready(u) /\ sid[u]
  /\ IF callable[u] = <<>>
       THEN UNCHANGED <<pc, client, exhausted>> /\ TransactionFails(u)
       ELSE /\ LET index == next_tool[u] % Len(callable[u]) IN
                 next_tool' = Set(next_tool, u, (index + 1) % Len(callable[u]))
            /\ NextRequest(u, "call")
            /\ UNCHANGED <<data, sid, callable>>

\* Mutant: a dormant user goes on sleeping.
LeaveActive(u) ==
  /\ attack = "stopping" /\ pc[u] = "idle" /\ sid[u]
  /\ Goto(u, "delete")
  /\ UNCHANGED <<client, failed, session, run, past>>

\* on_stop, once the current transaction has returned.
Leave(u) ==
  /\ attack = "stopping" /\ pc[u] = "idle"
  /\ Goto(u, IF sid[u] THEN "delete" ELSE "done")
  /\ IF data[u] THEN UNCHANGED <<failed, session, run, past>>
                ELSE TransactionFails(u) /\ UNCHANGED exhausted
  /\ UNCHANGED client

\* The gateway drops a session: restart, idle limit.
Expire(u) ==
  /\ session[u] = "open"
  /\ session' = Set(session, u, "gone")
  /\ UNCHANGED <<pc, client, failed, run, past>>

Respond(u) ==
  \E a \in Answer : \/ Initialized(u, a) \/ Notified(u, a) \/ Listed(u, a)
                    \/ Answered(u, a) \/ Deleted(u, a)

-----------------------------------------------------------------------------
\* The run.

\* The run time is over, or Ctrl-C came.
Stop ==
  /\ attack = "running" /\ attack' = "stopping"
  /\ UNCHANGED <<pc, client, failed, session, outcome, reports, dataplane, deletable,
                 past>>

NobodyFailed == \A u \in User : ~failed[u]

\* The rest of execute().  Goose writes the reports, which are audited before
\* the metrics are looked at; an error of Goose itself skips both.
Return ==
  /\ attack = "stopping"
  /\ \A u \in User : pc[u] \in {"unborn", "done"}
  /\ attack' = "returned"
  /\ \E written \in [Report -> Content], stuck \in SUBSET Report :
       \/ outcome' = "Execution" /\ reports' = written
       \/ LET verdict == Verdict("goose", written, stuck)
          IN /\ reports' = Kept(written, stuck)
             /\ outcome' = CASE verdict # "passed" -> verdict
                             [] verdict = "passed" /\ ~NobodyFailed -> "FailedMetrics"
                             [] OTHER -> "ok"
  /\ UNCHANGED <<pc, client, failed, session, dataplane, deletable, past>>

UserStep(u) == ClientFails(u) \/ Launch(u) \/ Respond(u) \/ Request(u) \/ Call(u) \/ Leave(u)

Next == \/ \E u \in User : UserStep(u) \/ Expire(u)
        \/ Stop \/ Return

\* Every request has a time limit (REQUEST_TIMEOUT).  Nothing makes the run
\* stop in the model; once it does, users and Goose go on to the end.
Fairness == /\ \A u \in User : WF_vars(Respond(u)) /\ WF_vars(Leave(u))
            /\ WF_vars(Return)

Spec == Init /\ [][Next]_vars /\ Fairness

-----------------------------------------------------------------------------
\* Properties.

Left(u) == pc[u] = "done"

\* A run that reports success served every user it started and left no
\* session behind that the gateway would have let it delete; and whichever
\* way a run ends, a session left open shows as a failure of its user.
OpenSessionsReported ==
  /\ \A u \in User : Left(u) /\ session[u] = "open" /\ deletable => failed[u]
  /\ outcome = "ok" =>
       \A u \in User : \/ pc[u] = "unborn"
                       \/ session[u] = "gone"
                       \/ session[u] = "open" /\ ~deletable

\* The verdict on a user is exact.  A user that is counted as failed got a wrong
\* answer, had no usable HTTP client or wanted a request after the last of the
\* 2^64 ids, so that a healthy run cannot fail by the user's own errors (no
\* session data, no session, no callable tool); and each of the three makes it
\* count as failed, even where a transaction swallows the error, the client's at
\* the latest when the user leaves.
VerdictExact ==
  \A u \in User :
    /\ failed[u] => faulty[u] \/ ~data[u] \/ exhausted[u]
    /\ faulty[u] \/ exhausted[u] => failed[u]
    /\ Left(u) /\ ~data[u] => failed[u]

\* No report that could be read keeps the bearer token when the run returns,
\* whatever went wrong with another one, unless its removal failed, which is
\* then the error; a run that succeeds has read both.  (After an error of Goose
\* itself nobody looks at the reports.)
TokensRemoved ==
  attack = "returned" /\ outcome # "Execution" =>
    /\ Tainted(reports) # {} => outcome = "ReportCleanup"
    /\ outcome = "ok" => \A r \in Report : reports[r] = "clean"

\* A run that is told to stop returns.
StoppedRunReturns == attack = "stopping" ~> attack = "returned"
=============================================================================
