----------------------------- MODULE McpGateway -----------------------------
(***************************************************************************)
(* The gateway the MCP clients talk to, as far as they can tell: nginx in  *)
(* front of a dataplane that may not have its configuration yet, and the   *)
(* control plane it falls back to (docker/nginx.cf-dataplane.conf).  Each  *)
(* backend issues sessions of its own.                                     *)
(***************************************************************************)
EXTENDS McpExchange

VARIABLES
  dataplane,          \* topology under test
  configured,         \* the dataplane has its configuration
  issuer              \* the backend that issued a session

gateway == <<dataplane, configured, issuer>>

GatewayTypes ==
  /\ dataplane \in BOOLEAN /\ configured \in BOOLEAN
  /\ issuer \in [Session -> Backend \cup {"none"}]

GatewayInit ==
  /\ dataplane \in BOOLEAN /\ configured \in BOOLEAN
  /\ issuer = [s \in Session |-> "none"]

\* nginx marks the dataplane's answers, and only these, as the dataplane's.
By(a) == IF a.marker = "dataplane" THEN "dataplane" ELSE "controlplane"

\* The dataplane serves nothing without its configuration.
Routed(a) ==
  /\ By(a) = "dataplane" => dataplane /\ (a.status \in Success => configured)
  /\ a.marker = "controlplane-fallback" => dataplane

\* A session in an answer is one the backend issues now or has issued.
Issues(a) ==
  IF a.session \in Session
    THEN /\ issuer[a.session] \in {"none", By(a)}
         /\ issuer' = [issuer EXCEPT ![a.session] = By(a)]
    ELSE UNCHANGED issuer

\* An answer of the gateway to a request in session s, which only the backend
\* that issued it can serve.  It may have dropped the session.
Replies(a, s) ==
  /\ Routed(a) /\ Issues(a)
  /\ s # None /\ a.status \in Success => issuer[s] = By(a)
  /\ UNCHANGED <<dataplane, configured>>
=============================================================================
