----------------------------- MODULE PublicProbe ----------------------------
(***************************************************************************)
(* run_probe in src/crates/mcp/src/probe.rs: an unauthenticated request    *)
(* that has to be refused, then one MCP session: initialize, repeated      *)
(* until it is answered with 200 or CF_PROBE_CONFIG_TIMEOUT is over,       *)
(* `initialized', tools/list and a call of a harmless tool.                *)
(*                                                                         *)
(* Time counts from the first authenticated attempt and only while the     *)
(* probe waits for an answer or sleeps.  The other requests are bounded by *)
(* CF_PROBE_REQUEST_TIMEOUT, which here is an answer that does not come.   *)
(***************************************************************************)
EXTENDS McpGateway

CONSTANTS
  ConfigTimeout, RequestTimeout, RetryInterval,
  Oversleep,          \* bound on how late a sleep may end
  Stop                \* bound on the clock

ASSUME TimeAssumption ==
  /\ ConfigTimeout \in Nat /\ RequestTimeout \in Nat /\ Oversleep \in Nat
  /\ RetryInterval \in Nat \ {0}
  /\ Stop \in Nat

VARIABLES
  pc, now,
  since,              \* when the attempt was sent, or when the sleep ends
  session,            \* the probe's session
  misled, fell_back,  \* history: before it had a session, the probe got no
                      \* answer or one that no healthy gateway gives; nginx
                      \* fell back to the control plane
  ready_at            \* history: when the configuration was there

history == <<misled, fell_back, ready_at>>
probe   == <<pc, now, since, session, history>>
vars    == <<gateway, probe>>

TypeOK ==
  /\ GatewayTypes
  /\ pc \in {"auth_negative", "initialize", "sleep", "initialized",
             "tools_list", "tool_call", "ok", "failed"}
  /\ now \in 0..Stop /\ since \in 0..Stop + ConfigTimeout
  /\ session \in Session \cup {None}
  /\ misled \in BOOLEAN /\ fell_back \in BOOLEAN
  /\ ready_at \in 0..Stop

Init ==
  /\ GatewayInit
  /\ pc = "auth_negative" /\ now = 0 /\ since = 0 /\ session = None
  /\ misled = FALSE /\ fell_back = FALSE /\ ready_at = 0

-----------------------------------------------------------------------------
\* The gateway.

\* The publisher's configuration arrives.
Configure ==
  /\ ~configured /\ configured' = TRUE
  /\ ready_at' = now
  /\ UNCHANGED <<dataplane, issuer, pc, now, since, session, misled, fell_back>>

\* What a healthy gateway answers to initialize: 503 until it is configured,
\* then a session.
Healthy(a) ==
  /\ dataplane => a.marker = "dataplane"
  /\ IF configured THEN a.status = 200 /\ a.body = "result" /\ a.session \in Session
                   ELSE a.status = 503 /\ a.session = None

\* What nginx makes of it in the dataplane topology (error_page 400 404 in
\* docker/nginx.cf-dataplane.conf): the control plane answers instead.
FallsBack(a) ==
  /\ dataplane /\ ~configured
  /\ a.marker = "controlplane-fallback"

-----------------------------------------------------------------------------
\* The probe.

Goto(step) == pc' = step

\* post_with_timeout fails: no answer in time, or one not to be used.
Unanswered ==
  /\ pc \in {"auth_negative", "initialized", "tools_list", "tool_call"}
  /\ Goto("failed")
  /\ misled' = (misled \/ pc = "auth_negative")
  /\ UNCHANGED <<gateway, now, since, session, fell_back, ready_at>>

AuthNegative(a) ==
  /\ pc = "auth_negative"
  /\ Replies(a, None)
  /\ LET refused == Passed(dataplane, a) /\ a.status = 401 IN
       /\ Goto(IF refused THEN "initialize" ELSE "failed")
       /\ misled' = ~refused
  /\ UNCHANGED <<now, since, session, fell_back, ready_at>>

\* Mutant: every attempt may take as long as a request.
AttemptTimeoutWhole == RequestTimeout

Least(m, n) == IF m < n THEN m ELSE n

AttemptTimeout ==
  IF ConfigTimeout = 0 THEN RequestTimeout
                       ELSE Least(RequestTimeout, ConfigTimeout - since)

\* The answer that ends the loop is checked: result_of, the negotiated version
\* and the session.
Conclude(a) ==
  IF ProbeResult(a) /\ a.session \in Session
    THEN Goto("initialized") /\ session' = a.session
    ELSE Goto("failed") /\ UNCHANGED session

\* Mutant: the longer one of the interval and the time left.
SleepLonger ==
  /\ Goto("sleep")
  /\ since' = now + IF RetryInterval < ConfigTimeout - now THEN ConfigTimeout - now
                                                          ELSE RetryInterval

Sleep == Goto("sleep") /\ since' = now + Least(RetryInterval, ConfigTimeout - now)

Initialize(a) ==
  /\ pc = "initialize"
  /\ Replies(a, None)
  /\ misled' = (misled \/ ~(Healthy(a) \/ FallsBack(a)))
  /\ fell_back' = (fell_back \/ FallsBack(a))
  /\ IF ~Passed(dataplane, a) THEN Goto("failed") /\ UNCHANGED <<since, session>>
     ELSE IF a.status = 200 \/ ConfigTimeout = 0 \/ now >= ConfigTimeout
       THEN Conclude(a) /\ UNCHANGED since
       ELSE Sleep /\ UNCHANGED session
  /\ UNCHANGED <<now, ready_at>>

\* The attempt fails in the transport, or its time is over.
InitializeFails ==
  /\ pc = "initialize"
  /\ Goto("failed") /\ misled' = TRUE
  /\ UNCHANGED <<gateway, now, since, session, fell_back, ready_at>>

\* After the deadline the last answer counts, which was not 200.
Wake ==
  /\ pc = "sleep" /\ now >= since
  /\ Goto(IF now >= ConfigTimeout THEN "failed" ELSE "initialize")
  /\ since' = now
  /\ UNCHANGED <<gateway, now, session, history>>

Tick ==
  /\ \/ pc = "initialize" /\ now < since + AttemptTimeout
     \/ pc = "sleep" /\ now < since + Oversleep
  /\ now < Stop /\ now' = now + 1
  /\ UNCHANGED <<gateway, pc, since, session, history>>

Initialized(a) ==
  /\ pc = "initialized"
  /\ Replies(a, session)
  /\ Goto(IF Passed(dataplane, a) /\ ProbeAccepted(a) THEN "tools_list" ELSE "failed")
  /\ UNCHANGED <<now, since, session, history>>

\* A listing without a harmless tool ends the probe well.
ToolsList(a) ==
  /\ pc = "tools_list"
  /\ Replies(a, session)
  /\ IF Passed(dataplane, a) /\ ProbeResult(a)
       THEN \E next \in {"tool_call", "ok", "failed"} : Goto(next)
       ELSE Goto("failed")
  /\ UNCHANGED <<now, since, session, history>>

ToolCall(a) ==
  /\ pc = "tool_call"
  /\ Replies(a, session)
  /\ Goto(IF Passed(dataplane, a) /\ ProbeResult(a) THEN "ok" ELSE "failed")
  /\ UNCHANGED <<now, since, session, history>>

Exchange ==
  \E a \in Answer : \/ AuthNegative(a) \/ Initialize(a) \/ Initialized(a)
                    \/ ToolsList(a) \/ ToolCall(a)

Next == \/ Exchange \/ Unanswered \/ InitializeFails \/ Wake \/ Tick
        \/ Configure

Spec == Init /\ [][Next]_vars

-----------------------------------------------------------------------------
\* Properties.

\* The backend the topology puts under test.
UnderTest == IF dataplane THEN "dataplane" ELSE "controlplane"

\* A probe that succeeds was served by the backend under test all along, also
\* while nginx sends some requests to the other one: that backend issued the
\* session, and the dataplane had its configuration.
OkWasServed ==
  pc = "ok" => issuer[session] = UnderTest /\ (dataplane => configured)

\* The wait for the configuration ends by its deadline, however slow answers
\* are and however late the last attempt starts.
WithinDeadline ==
  now <= IF ConfigTimeout = 0 THEN RequestTimeout ELSE ConfigTimeout + Oversleep

TooLate == ~configured \/ ready_at + RetryInterval + Oversleep >= ConfigTimeout

GaveUpWaiting == pc = "failed" /\ session = None /\ ~misled

\* The probe does not give up on a gateway that works and gets its
\* configuration at least one retry interval before the deadline, unless
\* nginx fell back to the control plane meanwhile.
WaitsLongEnough == GaveUpWaiting /\ ~fell_back => TooLate

\* ProbeConfig::config_timeout: the maximum time spent waiting for the
\* publisher's configuration, which is when nginx falls back.
WaitsForConfiguration == GaveUpWaiting => TooLate
=============================================================================
