---------------------- MODULE ConformanceFixtureProofs ----------------------
(***************************************************************************)
(* Proofs about ConformanceFixture, for any number of gateways, of catalog *)
(* polls and of reconciliation polls: what provision and cleanup return is *)
(* true whenever timed-out requests land, a record of another client is    *)
(* changed only if it was the fixture's own when last listed, and the      *)
(* server comes after its gateway and goes before it.                      *)
(*                                                                         *)
(* None of the properties is inductive.  They rest on which requests can   *)
(* still be on their way in each phase (Requests): a create that timed out *)
(* is followed by the reconciliation only, a server's create by the        *)
(* rollback only, and a delete that failed spoils the phase it was in.     *)
(* Records says who owns what is there to be deleted, and ServerSide and   *)
(* GatewaySide what is registered at each step.                            *)
(***************************************************************************)
EXTENDS ConformanceFixture, TLAPS

\* The steps of each phase, and what has been returned by then.
Flow ==
  /\ phase = "prepare" =>
       pc \in {"list_server", "delete_server", "list_gateways", "delete_gateway",
               "post_gateway", "done"}
  /\ phase = "reconcile" => pc \in {"list_gateways", "delete_gateway", "done"}
  /\ phase = "finish" => pc \in {"refresh", "poll", "post_server", "returned"}
  /\ phase \in {"rollback", "cleanup"} =>
       pc \in {"list_server", "delete_server", "list_gateways", "delete_gateway", "done"}
  /\ held = NoGateway <=> phase \in {"prepare", "reconcile"}
  /\ outcome \in {"clean", "cleaned"} => pc = "done"
  /\ outcome = "clean" => phase = "reconcile" \/ (phase = "rollback" /\ ~failed)
  /\ outcome = "cleaned" => phase = "cleanup" /\ ~failed
  /\ failed => phase # "finish"
  /\ failed /\ phase \in {"prepare", "reconcile"} => pc \in {"delete_gateway", "done"}
  /\ phase = "reconcile" => quiet <= attempt
  /\ doomed # {} => pc = "delete_gateway" /\ phase \in {"prepare", "reconcile"}

\* The timed-out requests that may still land.
Requests ==
  /\ phase = "prepare" =>
       /\ late \subseteq {Delete(i) : i \in Id}
       /\ pc = "done" \/ failed \/ late = {}
  /\ phase = "reconcile" => late \subseteq {PostGateway} \cup {Delete(g) : g \in GatewayId}
  /\ phase = "reconcile" /\ ~failed => late \subseteq {PostGateway}
  /\ phase = "finish" => late = {}
  /\ phase = "rollback" => late \subseteq {PostServer, Delete(ServerId), Delete(held)}
  /\ phase = "cleanup" => late \subseteq {Delete(ServerId), Delete(held)}
  /\ phase \in {"rollback", "cleanup"} /\ Delete(held) \in late => pc = "done"
  /\ pc \in {"list_server", "delete_server"} => Delete(ServerId) \notin late

Ours(g) == record[g] \in {"owned", "deleted"} \/ g \in taken

\* Whatever is or may be deleted is the fixture's own, or gone, or was its own
\* when last listed.
Records ==
  /\ \A g \in doomed : Ours(g)
  /\ \A g \in GatewayId : Delete(g) \in late => Ours(g)
  /\ phase \in {"rollback", "cleanup"} /\ pc = "delete_gateway" => Ours(held)
  /\ pc = "delete_server" \/ Delete(ServerId) \in late =>
       Owned(ServerId) \/ ServerId \in taken

\* The virtual server is removed first, and created last.
ServerSide ==
  /\ \/ phase = "prepare" /\ pc \in {"list_gateways", "delete_gateway", "post_gateway"}
     \/ phase = "reconcile"
     \/ phase = "finish" /\ pc # "returned"
     => ~Owned(ServerId)
  /\ phase = "prepare" /\ (\E g \in GatewayId : Delete(g) \in late) => ~Owned(ServerId)
  /\ pc = "returned" => Owned(ServerId) \/ ServerId \in taken
  /\ phase \in {"rollback", "cleanup"} /\ pc \in {"list_gateways", "delete_gateway", "done"}
     /\ ~failed /\ Owned(ServerId)
       => phase = "rollback" /\ ServerId \in strays

\* One gateway is registered after all older ones are gone.
GatewaySide ==
  /\ phase = "prepare" /\ pc = "delete_gateway" /\ ~failed =>
       Gateways({"owned"}) \subseteq doomed
  /\ pc = "post_gateway" => Gateways({"owned"}) = {}
  /\ phase = "finish" => /\ Gateways({"owned"}) \subseteq {held}
                         /\ Owned(held) \/ held \in taken
  /\ phase \in {"rollback", "cleanup"} => Gateways({"owned"}) \subseteq {held}
  /\ outcome \in {"clean", "cleaned"} /\ phase # "reconcile" => ~Owned(held)
  /\ outcome = "clean" /\ phase = "reconcile" => Gateways({"owned"}) \subseteq strays
  /\ outcome = "clean" /\ phase = "reconcile" /\ latePolls = 1 =>
       Gateways({"owned"}) = {} /\ PostGateway \notin late

IInv == TypeOK /\ Flow /\ Requests /\ Records /\ ServerSide /\ GatewaySide

-----------------------------------------------------------------------------
\* A delete that fails adds at most itself to the requests on their way.
LEMMA DeleteFailsFacts ==
  ASSUME TypeOK, NEW i \in Id, DeleteFails(i)
  PROVE  /\ record' \in [Id -> Kind] /\ late' \in SUBSET Request
         /\ late' = late \/ late' = late \cup {Delete(i)}
<1>1. late' = late \/ late' = late \cup {Delete(i)}
  BY DEF DeleteFails
<1>2. Delete(i) \in Request
  BY DEF Delete, Request
<1>3. record' \in [Id -> Kind]
  BY DEF TypeOK, DeleteFails, ApplyDelete, Removed, Kind
<1> QED
  BY <1>1, <1>2, <1>3 DEF TypeOK

\* The client's steps, in the order of the workflow: each keeps all parts of
\* IInv.  (Next leaves latePolls alone in every step.)

\* Preparing: older records of the fixture are removed.
LEMMA ListServerStep ==
  ASSUME IInv, ListServer, latePolls' = latePolls
  PROVE  IInv'
<1>1. TypeOK'
  BY DEF IInv, TypeOK, ListServer, Seen, ServerStepFails, Return
<1>2. Flow'
  BY DEF IInv, ListServer, Seen, ServerStepFails, Return, Flow
<1>3. Requests'
  BY DEF IInv, ListServer, Seen, ServerStepFails, Requests
<1>4. Records'
  BY IdAssumption DEF IInv, TypeOK, ListServer, Seen, ServerStepFails, Return, Flow,
    Requests, Records, Ours, Owned
<1>5. ServerSide'
  BY DEF IInv, ListServer, Seen, ServerStepFails, Return, ServerSide, Owned
<1>6. GatewaySide'
  BY DEF IInv, ListServer, Seen, ServerStepFails, Return, Flow, GatewaySide, Gateways
<1> QED
  BY <1>1, <1>2, <1>3, <1>4, <1>5, <1>6 DEF IInv

LEMMA DeleteServerStep ==
  ASSUME IInv, DeleteServer, latePolls' = latePolls
  PROVE  IInv'
<1>1. TypeOK'
  <2>1. record' \in [Id -> Kind] /\ late' \in SUBSET Request
    <3>1. CASE ApplyDelete(ServerId) /\ UNCHANGED late
      BY <3>1 DEF IInv, TypeOK, ApplyDelete, Removed, Kind
    <3>2. CASE DeleteFails(ServerId)
      BY <3>2, DeleteFailsFacts, IdAssumption DEF IInv, Id
    <3> QED
      BY <3>1, <3>2, IdAssumption DEF DeleteServer
  <2>2. /\ pc' \in {"list_gateways", "done", "returned"}
        /\ failed' \in BOOLEAN /\ outcome' \in {outcome, "failed"}
    BY DEF IInv, TypeOK, DeleteServer, ServerStepFails, Return
  <2> QED
    BY <2>1, <2>2, IdAssumption DEF IInv, TypeOK, DeleteServer
<1>2. Flow'
  BY DEF IInv, DeleteServer, ServerStepFails, Return, Flow
<1>3. Requests'
  <2>1. CASE UNCHANGED late
    BY <2>1 DEF IInv, DeleteServer, ServerStepFails, Requests
  <2>2. CASE DeleteFails(ServerId) /\ ServerStepFails
    <3>1. late' = late \/ late' = late \cup {Delete(ServerId)}
      BY <2>2 DEF DeleteFails
    <3> QED
      BY <3>1, IdAssumption DEF IInv, TypeOK, DeleteServer, ServerStepFails, Return, Flow,
        Requests, Delete, Id
  <2> QED
    BY <2>1, <2>2 DEF DeleteServer
<1>4. Records'
  <2>1. doomed = {} /\ doomed' = {}
    BY DEF IInv, DeleteServer, Flow
  <2>2. /\ Owned(ServerId) \/ ServerId \in taken
        /\ Delete(ServerId) \notin late /\ UNCHANGED taken
    BY DEF IInv, DeleteServer, Requests, Records
  <2>3. pc' # "delete_server" /\ pc' # "delete_gateway"
    BY DEF IInv, TypeOK, DeleteServer, ServerStepFails, Return
  <2>4. \A g \in GatewayId : record'[g] = record[g]
    BY IdAssumption DEF IInv, TypeOK, DeleteServer, DeleteFails, ApplyDelete, Id
  <2>5. \A g \in GatewayId : Delete(g) \in late' => Ours(g)'
    BY <2>2, <2>4, IdAssumption DEF IInv, DeleteServer, DeleteFails, Records, Ours, Delete
  <2>6. Delete(ServerId) \in late' => Owned(ServerId)' \/ ServerId \in taken'
    BY <2>2 DEF IInv, DeleteServer, DeleteFails, Owned
  <2> QED
    BY <2>1, <2>3, <2>5, <2>6 DEF Records
<1>5. ServerSide'
  BY IdAssumption DEF IInv, TypeOK, DeleteServer, ServerStepFails, Return, DeleteFails,
    ApplyDelete, Removed, Requests, ServerSide, Owned, Delete, Id
<1>6. GatewaySide'
  BY IdAssumption DEF IInv, TypeOK, DeleteServer, ServerStepFails, Return, DeleteFails,
    ApplyDelete, Flow, GatewaySide, Gateways, Id
<1> QED
  BY <1>1, <1>2, <1>3, <1>4, <1>5, <1>6 DEF IInv

LEMMA ListReservedStep ==
  ASSUME IInv, ListReserved, latePolls' = latePolls
  PROVE  IInv'
<1>1. TypeOK'
  BY DEF IInv, TypeOK, ListReserved, Seen, Return, Gateways
<1>2. Flow'
  BY DEF IInv, ListReserved, Seen, Return, Flow
<1>3. Requests'
  BY DEF IInv, ListReserved, Seen, Return, Flow, Requests
<1>4. Records'
  BY DEF IInv, ListReserved, Seen, Return, Flow, Requests, Records, Ours, Owned, Gateways
<1>5. ServerSide'
  BY DEF IInv, ListReserved, Seen, Return, ServerSide, Owned
<1>6. GatewaySide'
  BY DEF IInv, ListReserved, Seen, Return, Flow, GatewaySide, Gateways
<1> QED
  BY <1>1, <1>2, <1>3, <1>4, <1>5, <1>6 DEF IInv

LEMMA DeleteReservedStep ==
  ASSUME IInv, DeleteReserved, latePolls' = latePolls
  PROVE  IInv'
<1>1. TypeOK'
  <2>1. PICK g \in doomed :
          /\ doomed' = doomed \ {g}
          /\ \/ ApplyDelete(g) /\ UNCHANGED <<late, failed>>
             \/ DeleteFails(g) /\ failed' = TRUE
    BY DEF DeleteReserved
  <2>2. CASE ApplyDelete(g) /\ UNCHANGED late
    BY <2>2 DEF IInv, TypeOK, DeleteReserved, ApplyDelete, Removed, Kind
  <2>3. CASE DeleteFails(g)
    <3>1. g \in Id
      BY DEF IInv, TypeOK, Id
    <3>2. record' \in [Id -> Kind] /\ late' \in SUBSET Request
      BY <2>3, <3>1, DeleteFailsFacts, IdAssumption DEF IInv
    <3> QED
      BY <3>2, IdAssumption DEF IInv, TypeOK, DeleteReserved
  <2> QED
    BY <2>1, <2>2, <2>3
<1>2. Flow'
  BY DEF IInv, DeleteReserved, Flow
<1>3. Requests'
  <2>1. PICK g \in doomed :
          /\ doomed' = doomed \ {g}
          /\ \/ ApplyDelete(g) /\ UNCHANGED <<late, failed>>
             \/ DeleteFails(g) /\ failed' = TRUE
    BY DEF DeleteReserved
  <2>2. CASE ApplyDelete(g) /\ UNCHANGED <<late, failed>>
    BY <2>2 DEF IInv, DeleteReserved, Requests
  <2>3. CASE DeleteFails(g) /\ failed' = TRUE
    BY DeleteFailsFacts DEF IInv, TypeOK, DeleteReserved, Flow, Requests, Id
  <2> QED
    BY <2>1, <2>2, <2>3
<1>4. Records'
  <2>1. PICK d \in doomed :
          /\ doomed' = doomed \ {d}
          /\ (ApplyDelete(d) /\ UNCHANGED late) \/ DeleteFails(d)
    BY DEF DeleteReserved
  <2>2. /\ d \in GatewayId /\ Ours(d) /\ pc' = "delete_gateway" /\ phase' = phase
        /\ phase \in {"prepare", "reconcile"} /\ taken' = taken
    BY DEF IInv, TypeOK, DeleteReserved, Records
  <2>3. \A g \in GatewayId : Ours(g) => Ours(g)'
    BY <2>1, <2>2, IdAssumption DEF IInv, TypeOK, DeleteFails, ApplyDelete, Ours,
      Removed, Id
  <2>4. \A g \in doomed' : Ours(g)'
    BY <2>1, <2>3 DEF IInv, TypeOK, Records
  <2>5. \A g \in GatewayId : Delete(g) \in late' => Ours(g)'
    BY <2>1, <2>2, <2>3 DEF IInv, Records, DeleteFails, Delete
  <2>6. Delete(ServerId) \in late' => Owned(ServerId)' \/ ServerId \in taken'
    BY <2>1, <2>2, IdAssumption DEF IInv, TypeOK, Records, DeleteFails, ApplyDelete, Owned,
      Delete, Id
  <2> QED
    BY <2>2, <2>4, <2>5, <2>6 DEF Records
<1>5. ServerSide'
  BY IdAssumption DEF IInv, TypeOK, DeleteReserved, DeleteFails, ApplyDelete, ServerSide,
    Owned, Id
<1>6. GatewaySide'
  BY DEF IInv, TypeOK, DeleteReserved, ApplyDelete, Removed, Flow, GatewaySide, Gateways,
    Id
<1> QED
  BY <1>1, <1>2, <1>3, <1>4, <1>5, <1>6 DEF IInv

LEMMA ReservedDeletedStep ==
  ASSUME IInv, ReservedDeleted, latePolls' = latePolls
  PROVE  IInv'
<1>1. TypeOK'
  BY DEF IInv, TypeOK, ReservedDeleted, Return, api
<1>2. Flow'
  BY DEF IInv, ReservedDeleted, Return, Flow
<1>3. Requests'
  BY DEF IInv, ReservedDeleted, Return, api, Flow, Requests
<1>4. Records'
  BY DEF IInv, ReservedDeleted, Return, api, Records, Ours, Owned
<1>5. ServerSide'
  BY DEF IInv, ReservedDeleted, Return, api, ServerSide, Owned
<1>6. GatewaySide'
  BY DEF IInv, ReservedDeleted, Return, api, Flow, GatewaySide, Gateways
<1> QED
  BY <1>1, <1>2, <1>3, <1>4, <1>5, <1>6 DEF IInv

\* Provisioning, and the reconciliation after a create that timed out.
LEMMA CreateGatewayStep ==
  ASSUME IInv, CreateGateway, latePolls' = latePolls
  PROVE  IInv'
<1>1. TypeOK'
  BY DEF IInv, TypeOK, CreateGateway, Reconcile, Request, PostGateway, Kind, Gateways
<1>2. Flow'
  BY IdAssumption DEF IInv, TypeOK, CreateGateway, Reconcile, Flow, Gateways
<1>3. Requests'
  BY DEF IInv, TypeOK, CreateGateway, Reconcile, Flow, Requests
<1>4. Records'
  BY IdAssumption DEF IInv, TypeOK, CreateGateway, Reconcile, Removed, Records, Ours, Owned,
    Gateways, Delete, PostGateway, Id
<1>5. ServerSide'
  BY IdAssumption DEF IInv, TypeOK, CreateGateway, Reconcile, Flow, ServerSide, Owned,
    Gateways, Id
<1>6. GatewaySide'
  BY DEF IInv, TypeOK, CreateGateway, Reconcile, Flow, GatewaySide, Owned, Gateways, Id
<1> QED
  BY <1>1, <1>2, <1>3, <1>4, <1>5, <1>6 DEF IInv

LEMMA ReconcileListStep ==
  ASSUME IInv, ReconcileList, latePolls' = latePolls
  PROVE  IInv'
<1>1. TypeOK'
  BY DEF IInv, TypeOK, ReconcileList, Seen, NextPoll, Return, Gateways
<1>2. Flow'
  BY DEF IInv, TypeOK, ReconcileList, Seen, NextPoll, Return, Flow
<1>3. Requests'
  BY DEF IInv, ReconcileList, Seen, NextPoll, Return, Flow, Requests
<1>4. Records'
  <2>1. doomed = {} /\ late' \subseteq {PostGateway}
    BY DEF IInv, ReconcileList, Flow, Requests
  <2>2. \A g \in doomed' : record'[g] = "owned"
    BY <2>1 DEF ReconcileList, Gateways
  <2>3. pc' # "delete_server" /\ phase' = "reconcile"
    BY DEF ReconcileList, NextPoll, Return
  <2> QED
    BY <2>1, <2>2, <2>3 DEF Records, Ours, Delete, PostGateway
<1>5. ServerSide'
  BY DEF IInv, ReconcileList, Seen, NextPoll, Return, ServerSide, Owned
<1>6. GatewaySide'
  BY DEF IInv, TypeOK, ReconcileList, Seen, NextPoll, Return, RequiredQuiet, Settled, Flow,
    GatewaySide, Gateways
<1> QED
  BY <1>1, <1>2, <1>3, <1>4, <1>5, <1>6 DEF IInv

LEMMA ReconcileDeletedStep ==
  ASSUME IInv, ReconcileDeleted, latePolls' = latePolls
  PROVE  IInv'
<1>1. TypeOK'
  BY DEF IInv, TypeOK, ReconcileDeleted, NextPoll, Return, api
<1>2. Flow'
  BY DEF IInv, TypeOK, ReconcileDeleted, NextPoll, Return, Flow
<1>3. Requests'
  BY DEF IInv, ReconcileDeleted, NextPoll, Return, api, Flow, Requests
<1>4. Records'
  BY DEF IInv, ReconcileDeleted, NextPoll, Return, api, Records, Ours, Owned
<1>5. ServerSide'
  BY DEF IInv, ReconcileDeleted, NextPoll, Return, api, ServerSide, Owned
<1>6. GatewaySide'
  BY DEF IInv, ReconcileDeleted, NextPoll, Return, RequiredQuiet, Flow, GatewaySide
<1> QED
  BY <1>1, <1>2, <1>3, <1>4, <1>5, <1>6 DEF IInv

\* The catalogs and the virtual server; on a failure the roll-back begins.
LEMMA RefreshStep ==
  ASSUME IInv, Refresh, latePolls' = latePolls
  PROVE  IInv'
<1>1. TypeOK'
  BY DEF IInv, TypeOK, Refresh, Rollback, api
<1>2. Flow'
  BY DEF IInv, Refresh, Rollback, Flow
<1>3. Requests'
  BY DEF IInv, TypeOK, Refresh, api, Flow, Requests
<1>4. Records'
  BY DEF IInv, Refresh, Rollback, api, Records, Ours, Owned
<1>5. ServerSide'
  BY DEF IInv, Refresh, Rollback, api, ServerSide, Owned
<1>6. GatewaySide'
  BY DEF IInv, TypeOK, Refresh, Rollback, api, Flow, GatewaySide, Owned, Gateways
<1> QED
  BY <1>1, <1>2, <1>3, <1>4, <1>5, <1>6 DEF IInv

LEMMA PollCatalogsStep ==
  ASSUME IInv, PollCatalogs, latePolls' = latePolls
  PROVE  IInv'
<1>1. TypeOK'
  BY DEF IInv, TypeOK, PollCatalogs, Rollback, api
<1>2. Flow'
  BY DEF IInv, PollCatalogs, Rollback, Flow
<1>3. Requests'
  BY DEF IInv, TypeOK, PollCatalogs, api, Flow, Requests
<1>4. Records'
  BY DEF IInv, PollCatalogs, Rollback, api, Records, Ours, Owned
<1>5. ServerSide'
  BY DEF IInv, PollCatalogs, Rollback, api, ServerSide, Owned
<1>6. GatewaySide'
  BY DEF IInv, TypeOK, PollCatalogs, Rollback, api, Flow, GatewaySide, Owned, Gateways
<1> QED
  BY <1>1, <1>2, <1>3, <1>4, <1>5, <1>6 DEF IInv

LEMMA CreateServerStep ==
  ASSUME IInv, CreateServer, latePolls' = latePolls
  PROVE  IInv'
<1>1. TypeOK'
  BY DEF IInv, TypeOK, CreateServer, Rollback, Return, ApplyCreateServer, Request,
    PostServer, Id, Kind
<1>2. Flow'
  BY DEF IInv, CreateServer, Rollback, Return, Flow
<1>3. Requests'
  BY DEF IInv, TypeOK, CreateServer, Rollback, Flow, Requests, Delete, PostServer
<1>4. Records'
  <2>1. phase = "finish" /\ doomed' = {} /\ late' \subseteq {PostServer}
    BY DEF IInv, TypeOK, CreateServer, Flow, Requests
  <2>2. pc' \notin {"delete_server", "delete_gateway"}
    BY DEF CreateServer, Rollback, Return
  <2> QED
    BY <2>1, <2>2 DEF Records, Delete, PostServer
<1>5. ServerSide'
  BY DEF IInv, TypeOK, CreateServer, Rollback, Return, ApplyCreateServer, Flow,
    ServerSide, Owned, Id
<1>6. GatewaySide'
  BY IdAssumption DEF IInv, TypeOK, CreateServer, Rollback, Return, ApplyCreateServer,
    Flow, GatewaySide, Owned, Gateways, Id
<1> QED
  BY <1>1, <1>2, <1>3, <1>4, <1>5, <1>6 DEF IInv

\* Removing the gateway that is held, in a roll-back or a cleanup.
LEMMA ListHeldStep ==
  ASSUME IInv, ListHeld, latePolls' = latePolls
  PROVE  IInv'
<1>1. TypeOK'
  BY DEF IInv, TypeOK, ListHeld, Seen, CleanupReturns, Return
<1>2. Flow'
  BY DEF IInv, ListHeld, Seen, CleanupReturns, Return, Flow
<1>3. Requests'
  BY DEF IInv, ListHeld, Seen, CleanupReturns, Return, Requests
<1>4. Records'
  <2>1. /\ doomed' = {} /\ phase' = phase /\ phase \in {"rollback", "cleanup"}
        /\ late' = late /\ record' = record /\ pc' # "delete_server"
        /\ ServerId \in taken => ServerId \in taken'
    BY IdAssumption DEF IInv, ListHeld, Seen, CleanupReturns, Return, Flow
  <2>2. Delete(held) \notin late
    BY DEF IInv, ListHeld, Requests
  <2>3. \A g \in GatewayId : Delete(g) \notin late
    BY <2>1, <2>2, IdAssumption DEF IInv, Requests, Delete, PostServer
  <2>4. pc' = "delete_gateway" => record[held] = "owned"
    BY DEF ListHeld, CleanupReturns, Return
  <2> QED
    BY <2>1, <2>3, <2>4 DEF IInv, ListHeld, Records, Ours, Owned
<1>5. ServerSide'
  BY IdAssumption DEF IInv, ListHeld, Seen, CleanupReturns, Return, ServerSide, Owned
<1>6. GatewaySide'
  BY DEF IInv, ListHeld, Seen, CleanupReturns, Return, GatewaySide, Owned, Gateways
<1> QED
  BY <1>1, <1>2, <1>3, <1>4, <1>5, <1>6 DEF IInv

LEMMA DeleteHeldStep ==
  ASSUME IInv, DeleteHeld, latePolls' = latePolls
  PROVE  IInv'
<1>1. TypeOK'
  BY DEF IInv, TypeOK, DeleteHeld, CleanupReturns, Return, DeleteFails, ApplyDelete,
    Removed, Request, Delete, Id, Kind
<1>2. Flow'
  BY DEF IInv, TypeOK, DeleteHeld, CleanupReturns, Return, Flow
<1>3. Requests'
  BY DEF IInv, DeleteHeld, CleanupReturns, Return, DeleteFails, Requests
<1>4. Records'
  <2>1. /\ held \in GatewayId /\ held' = held /\ taken' = taken /\ doomed' = {}
        /\ Ours(held) /\ pc' \notin {"delete_server", "delete_gateway"}
    BY DEF IInv, TypeOK, DeleteHeld, CleanupReturns, Return, Flow, Records
  <2>2. (ApplyDelete(held) /\ UNCHANGED late) \/ DeleteFails(held)
    BY DEF DeleteHeld
  <2>3. \A g \in GatewayId : Ours(g) => Ours(g)'
    BY <2>1, <2>2, IdAssumption DEF IInv, TypeOK, DeleteFails, ApplyDelete, Ours,
      Removed, Id
  <2>4. \A g \in GatewayId : Delete(g) \in late' => Ours(g)'
    BY <2>1, <2>2, <2>3 DEF IInv, Records, DeleteFails, Delete
  <2>5. Delete(ServerId) \in late' => Owned(ServerId)' \/ ServerId \in taken'
    BY <2>1, <2>2, IdAssumption DEF IInv, TypeOK, Records, DeleteFails, ApplyDelete, Owned,
      Delete, Id
  <2> QED
    BY <2>1, <2>4, <2>5 DEF Records
<1>5. ServerSide'
  BY IdAssumption DEF IInv, TypeOK, DeleteHeld, CleanupReturns, Return, DeleteFails,
    ApplyDelete, ServerSide, Owned, Id
<1>6. GatewaySide'
  BY DEF IInv, TypeOK, DeleteHeld, CleanupReturns, Return, DeleteFails, ApplyDelete,
    Removed, Flow, GatewaySide, Owned, Gateways, Id
<1> QED
  BY <1>1, <1>2, <1>3, <1>4, <1>5, <1>6 DEF IInv

LEMMA StartCleanupStep ==
  ASSUME IInv, StartCleanup, latePolls' = latePolls
  PROVE  IInv'
<1>1. TypeOK'
  BY DEF IInv, TypeOK, StartCleanup, api
<1>2. Flow'
  BY DEF IInv, StartCleanup, Flow
<1>3. Requests'
  BY DEF IInv, TypeOK, StartCleanup, api, Flow, Requests
<1>4. Records'
  BY DEF IInv, StartCleanup, api, Records, Ours, Owned
<1>5. ServerSide'
  BY DEF StartCleanup, ServerSide
<1>6. GatewaySide'
  BY DEF IInv, TypeOK, StartCleanup, api, Flow, GatewaySide, Gateways
<1> QED
  BY <1>1, <1>2, <1>3, <1>4, <1>5, <1>6 DEF IInv

-----------------------------------------------------------------------------
\* Requests that timed out, and other clients.
LEMMA LandStep ==
  ASSUME IInv, Land, latePolls' = latePolls
  PROVE  IInv'
<1>1. TypeOK'
  BY DEF IInv, TypeOK, Land, client, ApplyDelete, Removed, Id, Kind, Gateways
<1>2. Flow'
  BY DEF IInv, Land, client, Flow
<1>3. Requests'
  BY DEF IInv, Land, client, Requests
<1>4. Records'
  <2>1. late' \subseteq late /\ taken' = taken /\ UNCHANGED client
    BY DEF Land
  <2>2. \A g \in GatewayId : Ours(g) => Ours(g)'
    BY IdAssumption DEF IInv, TypeOK, Land, ApplyDelete, Ours, Removed, Gateways, Id
  <2>3. ASSUME Delete(ServerId) \in late' \/ pc = "delete_server", Owned(ServerId)
        PROVE  Owned(ServerId)'
    <3>1. PICK r \in late :
            /\ late' = late \ {r}
            /\ \/ r.op = "delete" /\ ApplyDelete(r.id)
               \/ \E g \in Gateways({"unused"}) : record' = [record EXCEPT ![g] = "owned"]
               \/ record[ServerId] = "unused"
      BY DEF Land
    <3>2. CASE r.op = "delete" /\ ApplyDelete(r.id)
      <4>1. PICK j \in Id : r = Delete(j)
        BY <3>2 DEF IInv, TypeOK, Requests, Flow, PostGateway, PostServer, Id
      <4>2. j # ServerId
        BY <2>3, <3>1, <4>1 DEF IInv, Requests
      <4> QED
        BY <2>3, <3>2, <4>1, <4>2 DEF IInv, TypeOK, ApplyDelete, Owned, Delete, Id
    <3> QED
      BY <2>3, <3>1, <3>2, IdAssumption DEF IInv, TypeOK, Gateways, Owned, Id
  <2> QED
    BY <2>1, <2>2, <2>3 DEF IInv, TypeOK, client, Flow, Records
<1>5. ServerSide'
  BY IdAssumption DEF IInv, TypeOK, Land, client, ApplyDelete, Removed, Flow, Requests,
    ServerSide, Owned, Gateways, Delete, PostGateway, PostServer, Id
<1>6. GatewaySide'
  BY IdAssumption DEF IInv, TypeOK, Land, client, ApplyDelete, Removed, Flow, Requests,
    GatewaySide, Owned, Gateways, Delete, PostGateway, PostServer, Id
<1> QED
  BY <1>1, <1>2, <1>3, <1>4, <1>5, <1>6 DEF IInv

LEMMA DropStep ==
  ASSUME IInv, Drop, latePolls' = latePolls
  PROVE  IInv'
<1>1. TypeOK'
  BY DEF IInv, TypeOK, Drop, client
<1>2. Flow'
  BY DEF IInv, Drop, client, Flow
<1>3. Requests'
  BY DEF IInv, Drop, client, Requests
<1>4. Records'
  BY DEF IInv, Drop, client, Records, Ours, Owned
<1>5. ServerSide'
  BY DEF IInv, Drop, client, ServerSide, Owned
<1>6. GatewaySide'
  BY DEF IInv, Drop, client, GatewaySide, Owned, Gateways
<1> QED
  BY <1>1, <1>2, <1>3, <1>4, <1>5, <1>6 DEF IInv

LEMMA OtherClientStep ==
  ASSUME IInv, OtherClient, latePolls' = latePolls
  PROVE  IInv'
<1>1. TypeOK'
  BY DEF IInv, TypeOK, OtherClient, Edited, client, Kind
<1>2. Flow'
  BY DEF IInv, OtherClient, Edited, client, Flow
<1>3. Requests'
  BY DEF IInv, OtherClient, Edited, client, Requests
<1>4. Records'
  BY IdAssumption DEF IInv, TypeOK, OtherClient, Edited, client, Records, Ours, Owned, Id
<1>5. ServerSide'
  BY DEF IInv, TypeOK, OtherClient, Edited, client, ServerSide, Owned, Id
<1>6. GatewaySide'
  BY DEF IInv, TypeOK, OtherClient, Edited, client, Flow, GatewaySide, Owned, Gateways, Id
<1> QED
  BY <1>1, <1>2, <1>3, <1>4, <1>5, <1>6 DEF IInv

-----------------------------------------------------------------------------
LEMMA InitInv == Init => IInv
<1> SUFFICES ASSUME Init PROVE IInv
  OBVIOUS
<1>1. TypeOK
  <2>1. record \in [Id -> Kind]
    BY DEF Init, Kind
  <2>2. latePolls \in {1, ReconciliationAttempts} /\ attempt \in Nat /\ quiet \in Nat
    BY DEF Init
  <2> QED
    BY <2>1 DEF Init, TypeOK
<1>2. Flow /\ Requests
  BY DEF Init, Flow, Requests
<1>3. Records /\ ServerSide /\ GatewaySide
  BY DEF Init, Records, ServerSide, GatewaySide
<1> QED
  BY <1>1, <1>2, <1>3 DEF IInv

LEMMA InvStep == IInv /\ [Next]_vars => IInv'
<1> SUFFICES ASSUME IInv, [Next]_vars PROVE IInv'
  OBVIOUS
<1>1. CASE UNCHANGED vars
  BY <1>1 DEF vars, IInv, TypeOK, Flow, Requests, Records, ServerSide, GatewaySide, Ours,
    Owned, Gateways
<1>2. CASE Next
  <2>1. latePolls' = latePolls
    BY <1>2 DEF Next
  <2>2. CASE Client
    BY <2>1, <2>2, ListServerStep, DeleteServerStep, ListReservedStep, DeleteReservedStep,
      ReservedDeletedStep, CreateGatewayStep, ReconcileListStep, ReconcileDeletedStep,
      RefreshStep, PollCatalogsStep, CreateServerStep, ListHeldStep, DeleteHeldStep,
      StartCleanupStep DEF Client
  <2>3. CASE Environment
    BY <2>1, <2>3, LandStep, DropStep, OtherClientStep DEF Environment
  <2> QED
    BY <1>2, <2>2, <2>3 DEF Next
<1> QED
  BY <1>1, <1>2

THEOREM Invariance == Spec => []IInv
  BY InitInv, InvStep, PTL DEF Spec

\* Every variable keeps its type.
THEOREM TypeCorrect == Spec => []TypeOK
<1>1. IInv => TypeOK
  BY DEF IInv
<1> QED
  BY <1>1, Invariance, PTL

\* However many gateways, polls and late requests there are, and whatever fails:
\* what provision and cleanup return is true of the admin API's records.
THEOREM ReturnsTellTheTruth == Spec => []OutcomeIsTrue
<1>1. IInv => OutcomeIsTrue
  <2> SUFFICES ASSUME IInv PROVE OutcomeIsTrue
    OBVIOUS
  <2>1. ASSUME outcome = "ok", pc = "returned"
        PROVE  /\ held \in GatewayId /\ Gateways({"owned"}) \subseteq {held}
               /\ \A i \in {held, ServerId} : Owned(i) \/ i \in taken
    <3>1. phase = "finish" /\ held \in GatewayId
      BY <2>1 DEF IInv, TypeOK, Flow
    <3> QED
      BY <2>1, <3>1 DEF IInv, ServerSide, GatewaySide
  <2>2. ASSUME outcome = "clean", NEW i \in Id, Owned(i) PROVE i \in strays
    <3>1. CASE phase = "reconcile"
      BY <2>2, <3>1 DEF IInv, ServerSide, GatewaySide, Gateways, Owned, Id
    <3>2. CASE phase = "rollback" /\ ~failed
      BY <2>2, <3>2 DEF IInv, Flow, ServerSide, GatewaySide, Gateways, Owned, Id
    <3> QED
      BY <2>2, <3>1, <3>2 DEF IInv, Flow
  <2>3. outcome = "cleaned" => ~Owned(ServerId) /\ ~Owned(held)
    BY DEF IInv, Flow, ServerSide, GatewaySide
  <2> QED
    BY <2>1, <2>2, <2>3 DEF OutcomeIsTrue
<1> QED
  BY <1>1, Invariance, PTL

\* Two quiet polls find any create that lands before the second of them.
THEOREM LateCreateIsFound == Spec => []TwoPollsFindLateCreate
<1>1. IInv => TwoPollsFindLateCreate
  BY DEF IInv, GatewaySide, TwoPollsFindLateCreate
<1> QED
  BY <1>1, Invariance, PTL

-----------------------------------------------------------------------------
\* What the client changes, at once or by a late request, was unused or its own
\* when last listed.
LEMMA OwnRecordsOnly ==
  ASSUME IInv, Client \/ Land, NEW i \in Id, record[i] \in {"other", "collision"},
         record'[i] # record[i]
  PROVE  i \in taken
<1> USE DEF IInv, TypeOK, ApplyDelete, Ours, Owned, Removed
<1>1. CASE Client
  <2>1. CASE DeleteServer
    BY <2>1 DEF DeleteServer, DeleteFails, Records
  <2>2. CASE DeleteReserved
    BY <2>2 DEF DeleteReserved, DeleteFails, Records
  <2>3. CASE CreateGateway
    BY <2>3 DEF CreateGateway, Gateways
  <2>4. CASE CreateServer
    BY <2>4 DEF CreateServer, ApplyCreateServer
  <2>5. CASE DeleteHeld
    BY <2>5 DEF DeleteHeld, DeleteFails, Flow, Records
  <2> QED
    BY <1>1, <2>1, <2>2, <2>3, <2>4, <2>5 DEF Client, ListServer, ListReserved,
      ReservedDeleted, ReconcileList, ReconcileDeleted, Refresh, PollCatalogs, ListHeld,
      StartCleanup, api
<1>2. CASE Land
  <2>1. PICK r \in late :
          \/ r.op = "delete" /\ ApplyDelete(r.id)
          \/ \E g \in Gateways({"unused"}) : record' = [record EXCEPT ![g] = "owned"]
          \/ record[ServerId] = "unused" /\ record' = [record EXCEPT ![ServerId] = "owned"]
    BY <1>2 DEF Land
  <2>2. CASE r.op = "delete" /\ ApplyDelete(r.id)
    <3>1. PICK j \in Id : r = Delete(j)
      BY <2>2 DEF Requests, PostGateway, PostServer, Id, Flow
    <3>2. j = i
      BY <2>2, <3>1 DEF Delete
    <3> QED
      BY <3>1, <3>2 DEF Records, Id
  <2> QED
    BY <2>1, <2>2 DEF Gateways, Id
<1> QED
  BY <1>1, <1>2

\* However its deletes fall between the edits of others: a step of the client, or
\* a late request of it, changes a record of another client only if it was the
\* fixture's own when last listed.
THEOREM OthersAreKept == Spec => OthersKept
<1> DEFINE Spared == (Client \/ Land) =>
             \A i \in Id : record[i] \in {"other", "collision"} /\ record'[i] # record[i]
                             => i \in taken
<1>1. IInv => Spared
  BY OwnRecordsOnly
<1>2. []IInv => [][Spared]_vars
  BY <1>1, PTL
<1> QED
  BY <1>2, Invariance DEF OthersKept

\* The server is created by CreateServer, while its gateway is registered, or by
\* a request that lands late.
LEMMA CreatedOnGateway ==
  ASSUME IInv, [Next]_vars, ~Owned(ServerId), Owned(ServerId)'
  PROVE  \/ held # NoGateway /\ (Owned(held) \/ held \in taken)
         \/ ServerId \in strays'
<1> USE IdAssumption DEF IInv, TypeOK, ApplyDelete, Owned, Removed, Id
<1>1. CASE CreateServer
  BY <1>1 DEF CreateServer, Flow, GatewaySide
<1>2. CASE Land
  BY <1>2 DEF Land, Gateways
<1>3. CASE Client /\ ~CreateServer
  <2>1. record'[ServerId] # "owned"
    <3>1. CASE DeleteServer
      BY <3>1 DEF DeleteServer, DeleteFails
    <3>2. CASE DeleteReserved
      BY <3>2 DEF DeleteReserved, DeleteFails
    <3>3. CASE CreateGateway
      BY <3>3 DEF CreateGateway, Gateways
    <3>4. CASE DeleteHeld
      BY <3>4 DEF DeleteHeld, DeleteFails, Flow
    <3> QED
      BY <1>3, <3>1, <3>2, <3>3, <3>4 DEF Client, ListServer, ListReserved,
        ReservedDeleted, ReconcileList, ReconcileDeleted, Refresh, PollCatalogs, ListHeld,
        StartCleanup, api
  <2> QED
    BY <2>1
<1>4. CASE OtherClient \/ Drop \/ UNCHANGED vars
  BY <1>4 DEF OtherClient, Edited, Drop, vars
<1> QED
  BY <1>1, <1>2, <1>3, <1>4 DEF Next, Environment

\* A gateway of the fixture goes when the server is gone, by a delete of the
\* client or by one that lands late.
LEMMA ServerGoneFirst ==
  ASSUME IInv, Client \/ Land, NEW g \in GatewayId, Owned(g), ~Owned(g)',
         Owned(ServerId), phase \in {"rollback", "cleanup"} => ~failed
  PROVE  ServerId \in strays
<1> USE IdAssumption DEF IInv, TypeOK, ApplyDelete, Owned, Removed, Id
<1>1. CASE DeleteReserved
  BY <1>1 DEF DeleteReserved, ServerSide
<1>2. CASE DeleteHeld
  BY <1>2 DEF DeleteHeld, ServerSide
<1>3. CASE Land
  <2>1. PICK r \in late : r.op = "delete" /\ ApplyDelete(r.id)
    BY <1>3 DEF Land, Gateways
  <2>2. r.id = g
    BY <2>1
  <2>3. PICK j \in Id : r = Delete(j)
    BY <2>1 DEF Requests, Flow, PostGateway, PostServer
  <2>4. Delete(g) \in late
    BY <2>2, <2>3 DEF Delete
  <2>5. phase \in {"rollback", "cleanup"}
    BY <2>4 DEF Requests, ServerSide
  <2>6. pc = "done"
    BY <2>4, <2>5 DEF Requests, Delete, PostServer
  <2> QED
    BY <2>5, <2>6 DEF ServerSide
<1>4. CASE Client /\ ~DeleteReserved /\ ~DeleteHeld
  <2>1. record'[g] = "owned"
    <3>1. CASE DeleteServer
      BY <3>1 DEF DeleteServer, DeleteFails
    <3>2. CASE CreateGateway
      BY <3>2 DEF CreateGateway, Gateways
    <3>3. CASE CreateServer
      BY <3>3 DEF CreateServer, ApplyCreateServer
    <3> QED
      BY <1>4, <3>1, <3>2, <3>3 DEF Client, ListServer, ListReserved, ReservedDeleted,
        ReconcileList, ReconcileDeleted, Refresh, PollCatalogs, ListHeld, StartCleanup,
        api
  <2> QED
    BY <2>1
<1> QED
  BY <1>1, <1>2, <1>3, <1>4

\* The server is created only on a gateway that is registered, but for a POST
\* that lands late, and no gateway of the fixture is removed under a server known
\* to be there, unless the server's own deletion had failed.
THEOREM ServerGoesFirst == Spec => ServerBeforeGateway
<1> DEFINE Created == ~Owned(ServerId) /\ Owned(ServerId)' =>
             \/ held # NoGateway /\ (Owned(held) \/ held \in taken)
             \/ ServerId \in strays'
           Gone == Client \/ Land => \A g \in GatewayId :
             Owned(g) /\ ~Owned(g)' =>
               \/ phase \in {"rollback", "cleanup"} /\ failed
               \/ ~Owned(ServerId) \/ ServerId \in strays
<1>1. IInv /\ [Next]_vars => Created
  BY CreatedOnGateway
<1>2. IInv => Gone
  BY ServerGoneFirst
<1>3. []IInv /\ [][Next]_vars => [][Created /\ Gone]_vars
  BY <1>1, <1>2, PTL
<1> QED
  BY <1>3, Invariance, PTL DEF Spec, ServerBeforeGateway

=============================================================================
