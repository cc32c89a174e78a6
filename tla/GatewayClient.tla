---------------------------- MODULE GatewayClient ---------------------------
(***************************************************************************)
(* GatewayClient in src/crates/mcp/src/gateway.rs: a client that keeps one *)
(* MCP session and lets its caller send anything, in any order, with the   *)
(* session header chosen by the client, left out, or given.                *)
(***************************************************************************)
EXTENDS McpGateway

VARIABLE header     \* session_id

ClientTypes == header \in Session \cup {None}

ClientInit == header = None

\* initialize and request, notification, get, delete and raw_post, and each of
\* them unchecked.
Override == {"automatic", "omit"} \cup Session

Request ==
       [streamed : {FALSE}, override : Override,
        expectation : {"JsonRpc", "NotificationAccepted", "Unchecked"}]
  \cup [streamed : {TRUE}, override : Override, expectation : {"Unchecked"}]

\* apply_header for the session.
Outbound(r) ==
  CASE r.override = "automatic" -> header
    [] r.override = "omit"      -> None
    [] OTHER                    -> r.override

\* send.  Whatever fails changes nothing, a DELETE neither.
Send(r, a) ==
  /\ Replies(a, Outbound(r))
  /\ LET returned == Sends(dataplane, r.streamed, r.expectation, a)
     IN  IF returned /\ a.status \in Success /\ a.session # None
           THEN header' = a.session
           ELSE UNCHANGED header

ClientNext == \E r \in Request, a \in Answer : Send(r, a)
=============================================================================
