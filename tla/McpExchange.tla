----------------------------- MODULE McpExchange ----------------------------
(***************************************************************************)
(* One MCP exchange over the public route, and how the harness's three     *)
(* clients judge the answer: the probe (src/crates/mcp/src/probe.rs over   *)
(* http_transport.rs), the gateway client (gateway.rs) and the load users  *)
(* (src/crates/load/src/goose.rs).  They share the reading of bodies       *)
(* (mcp.rs) and of the backend marker (backend_identity.rs) and differ in  *)
(* what they require.                                                      *)
(*                                                                         *)
(* nginx routes a request to the dataplane or to the control plane and     *)
(* replaces the marker of the answer by its own; the clients of the        *)
(* dataplane's route believe nothing else.                                 *)
(***************************************************************************)
EXTENDS Naturals

CONSTANTS
  Session,     \* session ids a backend may issue
  None         \* no session header

\* A session header that no client can use: there twice, or with characters
\* that are not visible.
Unusable == "unusable"

ASSUME NoneAssumption == None \notin Session /\ Unusable \notin Session \cup {None}

-----------------------------------------------------------------------------
\* Answers.

Backend == {"dataplane", "controlplane"}

\* What nginx writes in the dataplane topology, and "spoiled": the control
\* plane's own, missing, unknown or there twice.
Marker == {"dataplane", "controlplane-fallback", "spoiled"}

SessionHeader == Session \cup {None, Unusable}

\* Bodies that are a JSON-RPC message, as JSON or as the last valid event of
\* a stream: the result asked for (an object or not), an error, an answer to
\* another request.
Message == {"result", "scalar", "error", "foreign"}

\* The others: none; cut, too long or not UTF-8; not JSON; a stream without a
\* valid event; and a result under another content type.
Body == Message \cup {"empty", "cut", "garbage", "eventless", "untyped"}

Success == {200, 202}
Failure == {401, 503}

Answer ==
       [marker : Marker, status : Success, session : SessionHeader, body : Body]
  \cup [marker : Marker, status : Failure, session : SessionHeader, body : {"empty"}]

\* dataplane_error.
ForeignMarker(a) == a.marker # "dataplane"

\* parse_mcp_body, of a readable body: a message, no message, or an error.
Parsed(body) ==
  CASE body \in Message               -> body
    [] body \in {"empty", "eventless"} -> "none"
    [] body = "untyped"               -> "result"
    [] OTHER                          -> "bad"

-----------------------------------------------------------------------------
\* The probe.

\* Mutant: any backend will do.
PassedAnyBackend(dataplane, a) ==
  /\ a.session # Unusable
  /\ a.status \in Success => a.body \notin {"cut", "untyped", "garbage"}

\* ReqwestProbeTransport::post and post_with_timeout pass the answer on.
\* A status that is not a success is passed on without the body.
Passed(dataplane, a) ==
  /\ dataplane => ~ForeignMarker(a)
  /\ a.session # Unusable
  /\ a.status \in Success => a.body \notin {"cut", "untyped", "garbage"}

\* result_of.
ProbeResult(a) == a.status = 200 /\ Parsed(a.body) = "result"

\* accepted_empty.
ProbeAccepted(a) == a.status = 202 /\ Parsed(a.body) = "none"

-----------------------------------------------------------------------------
\* The gateway client.

\* parse_response_body: a body of another type is no message.
ClientParsed(body) == IF body = "untyped" THEN "none" ELSE Parsed(body)

\* validate_exchange.
Validates(expectation, a) ==
  CASE expectation = "JsonRpc"              -> /\ a.status = 200
                                               /\ ClientParsed(a.body) \in {"result", "scalar", "error"}
    [] expectation = "NotificationAccepted" -> a.status = 202 /\ a.body = "empty"
    [] expectation = "Unchecked"            -> a.status \in Success => ClientParsed(a.body) # "bad"

\* Mutant: the marker is checked with the body, which GET does not read.
SendsStreamUnmarked(dataplane, streamed, expectation, a) ==
  /\ a.session # Unusable
  /\ streamed \/ (/\ dataplane => ~ForeignMarker(a)
                  /\ a.body # "cut" /\ Validates(expectation, a))

\* GatewayClient::send returns the exchange.  The body of a streamed answer
\* (GET) is not read.
Sends(dataplane, streamed, expectation, a) ==
  /\ dataplane => ~ForeignMarker(a)
  /\ a.session # Unusable
  /\ streamed \/ (a.body # "cut" /\ Validates(expectation, a))

-----------------------------------------------------------------------------
\* The load users: send_mcp_request and decode_result.

LoadResult(dataplane, a) ==
  /\ dataplane => ~ForeignMarker(a)
  /\ a.status = 200 /\ a.body # "cut"
  /\ Parsed(a.body) \in {"result", "scalar"}

=============================================================================
