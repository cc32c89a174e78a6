----------------------------- MODULE McpClients -----------------------------
(***************************************************************************)
(* The probe and a gateway client next to each other against one gateway.  *)
(***************************************************************************)
EXTENDS PublicProbe

VARIABLE header

Client == INSTANCE GatewayClient

ClientsInit == Init /\ Client!ClientInit

ClientsNext == \/ Next /\ UNCHANGED header
               \/ Client!ClientNext /\ UNCHANGED probe

ClientsSpec == ClientsInit /\ [][ClientsNext]_<<vars, header>>

\* No client ever holds a session of a backend that is not under test, which
\* would let the rest of its exchanges bypass what is tested: the probe once
\* it believes in its session, the client at any time.
OwnBackend ==
  /\ session # None => issuer[session] = UnderTest
  /\ header # None => issuer[header] = UnderTest
=============================================================================
