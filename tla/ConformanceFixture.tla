-------------------------- MODULE ConformanceFixture --------------------------
(***************************************************************************)
(* ConformanceFixtureClient::provision and ::cleanup                       *)
(* (src/crates/compliance/src/conformance_fixture.rs): the client that     *)
(* registers the official fixture with the gateway's admin API as one      *)
(* gateway record and one virtual server with a fixed id, and removes them.*)
(*                                                                         *)
(* The admin API is external.  A request may be answered, be refused, take *)
(* effect although its answer is lost, or time out at the client and take  *)
(* effect at any later time or never.  Other clients create, edit and      *)
(* delete records, the fixture's own included, at any time: between one of *)
(* its listings and the deletes by id that follow, too.  They do not give  *)
(* a record all of the fixture's fields, and gateway ids are not reused.   *)
(***************************************************************************)
EXTENDS Naturals

CONSTANTS
  GatewayId,       \* ids the admin API may give to gateway records
  ServerId,        \* OFFICIAL_CONFORMANCE_SERVER_ID
  NoGateway,       \* no gateway id known to the client
  MaxAttempts,     \* max_attempts of the catalog polls
  ReconciliationAttempts

ASSUME IdAssumption ==
  ServerId \notin GatewayId /\ NoGateway \notin GatewayId \cup {ServerId}

\* What ConformanceFixtureClientBuilder::build accepts.
ASSUME BuilderAssumption ==
  /\ MaxAttempts \in Nat \ {0}
  /\ ReconciliationAttempts \in Nat \ {0, 1}

VARIABLES
  record,    \* the admin API's record under each id
  late,      \* timed-out requests that may still take effect
  strays,    \* ids created by such a request since their collection was listed
  pc, phase,
  held,      \* gateway id of the fixture, once the create was answered
  doomed,    \* gateways of the last listing still to be deleted
  attempt, quiet,
  failed,    \* an earlier step of this phase failed
  outcome,   \* what provision, and then cleanup, returned
  latePolls, \* reconciliation polls that a timed-out create may outlive: constant
  taken      \* history: ids of own records that another client edited or deleted
             \* since their collection was last listed

api    == <<record, late, strays, taken>>
client == <<pc, phase, held, doomed, attempt, quiet, failed, outcome>>
vars   == <<record, late, strays, taken, pc, phase, held, doomed, attempt,
            quiet, failed, outcome, latePolls>>

-----------------------------------------------------------------------------
Id == GatewayId \cup {ServerId}

\* "collision": reserved name or id, but not the fixture's fields (is_owned).
Kind == {"unused", "deleted", "owned", "collision", "other"}

Delete(i)   == [op |-> "delete", id |-> i]
PostGateway == [op |-> "post", id |-> NoGateway]
PostServer  == [op |-> "post", id |-> ServerId]
Request     == [op : {"delete", "post"}, id : Id \cup {NoGateway}]

\* Mutant: servers are listed among the gateways.
GatewaysAndServers(kinds) == {i \in Id : record[i] \in kinds}

Gateways(kinds) == {g \in GatewayId : record[g] \in kinds}

TypeOK ==
  /\ record \in [Id -> Kind]
  /\ late \in SUBSET Request
  /\ strays \in SUBSET Id /\ taken \in SUBSET Id
  /\ pc \in {"list_server", "delete_server", "list_gateways", "delete_gateway",
             "post_gateway", "refresh", "poll", "post_server", "returned", "done"}
  /\ phase \in {"prepare", "reconcile", "finish", "rollback", "cleanup"}
  /\ held \in GatewayId \cup {NoGateway}
  /\ doomed \in SUBSET GatewayId
  /\ attempt \in Nat /\ quiet \in Nat
  /\ failed \in BOOLEAN
  /\ outcome \in {"none", "ok", "failed", "clean", "dirty", "cleaned",
                  "cleanup_failed"}
  /\ latePolls \in {1, ReconciliationAttempts}

\* Records of a run that died, and of other clients, may be there.
Init ==
  /\ record \in {r \in [Id -> {"unused", "owned", "collision", "other"}] :
                   r[ServerId] # "other"}
  /\ late = {} /\ strays = {} /\ taken = {}
  /\ pc = "list_server" /\ phase = "prepare"
  /\ held = NoGateway /\ doomed = {}
  /\ attempt = 0 /\ quiet = 0 /\ failed = FALSE
  /\ outcome = "none"
  /\ latePolls \in {1, ReconciliationAttempts}

-----------------------------------------------------------------------------
\* Delivery of a request to the admin API.

Removed(i) == IF i = ServerId THEN "unused" ELSE "deleted"

\* The effect of a delete; deleting what is gone answers 404, a success.
ApplyDelete(i) ==
  record' = [record EXCEPT ![i] = IF @ = "unused" THEN @ ELSE Removed(i)]

\* An answer never comes: the request was refused, its answer was lost, or it
\* is still on its way.
DeleteFails(i) ==
  \/ UNCHANGED <<record, late>>
  \/ ApplyDelete(i) /\ UNCHANGED late
  \/ late' = late \cup {Delete(i)} /\ UNCHANGED record

\* A collection is listed: what others, or late requests, did to it shows.
Seen(ids) == strays' = strays \ ids /\ taken' = taken \ ids

Return(result) ==
  /\ outcome' = result
  /\ pc' = IF result = "ok" THEN "returned" ELSE "done"

-----------------------------------------------------------------------------
\* delete_owned_server, at the head of provision and of cleanup.

\* Mutant: the server's error is forgotten once the gateway is gone.
ServerFailureForgotten ==
  IF phase = "prepare"
    THEN Return("failed") /\ UNCHANGED failed
    ELSE pc' = "list_gateways" /\ UNCHANGED <<failed, outcome>>

\* In the prepare phase `?` leaves provision; cleanup goes on to the gateway.
ServerStepFails ==
  IF phase = "prepare"
    THEN Return("failed") /\ UNCHANGED failed
    ELSE failed' = TRUE /\ pc' = "list_gateways" /\ UNCHANGED outcome

ListServer ==
  /\ pc = "list_server"
  /\ \/ /\ record[ServerId] = "unused"
        /\ pc' = "list_gateways" /\ UNCHANGED <<failed, outcome>>
        /\ Seen({ServerId})
     \/ /\ record[ServerId] = "owned"
        /\ pc' = "delete_server" /\ UNCHANGED <<failed, outcome>>
        /\ Seen({ServerId})
     \/ /\ record[ServerId] = "collision"
        /\ ServerStepFails /\ Seen({ServerId})
     \/ ServerStepFails /\ UNCHANGED <<strays, taken>>      \* the GET failed
  /\ UNCHANGED <<record, late, phase, held, doomed, attempt, quiet>>

DeleteServer ==
  /\ pc = "delete_server"
  /\ \/ /\ ApplyDelete(ServerId) /\ UNCHANGED late
        /\ pc' = "list_gateways" /\ UNCHANGED <<failed, outcome>>
     \/ DeleteFails(ServerId) /\ ServerStepFails
  /\ UNCHANGED <<strays, taken, phase, held, doomed, attempt, quiet>>

-----------------------------------------------------------------------------
\* delete_reserved_gateways_once, of the prepare phase.

\* Mutant: the reserved name alone makes a gateway the fixture's.
ListReservedByName ==
  /\ pc = "list_gateways" /\ phase = "prepare"
  /\ doomed' = Gateways({"owned", "collision"})
  /\ Seen(GatewayId)
  /\ pc' = "delete_gateway"
  /\ UNCHANGED <<record, late, phase, held, attempt, quiet, failed, outcome>>

ListReserved ==
  /\ pc = "list_gateways" /\ phase = "prepare"
  /\ \/ /\ Gateways({"collision"}) = {}
        /\ doomed' = Gateways({"owned"})
        /\ Seen(GatewayId)
        /\ pc' = "delete_gateway" /\ UNCHANGED outcome
     \/ /\ Gateways({"collision"}) # {}
        /\ Seen(GatewayId)
        /\ Return("failed") /\ UNCHANGED doomed
     \/ Return("failed") /\ UNCHANGED <<doomed, strays, taken>>  \* the GET failed
  /\ UNCHANGED <<record, late, phase, held, attempt, quiet, failed>>

\* Every listed gateway is tried even after a failure.
DeleteReserved ==
  /\ pc = "delete_gateway" /\ phase \in {"prepare", "reconcile"}
  /\ \E g \in doomed :
       /\ doomed' = doomed \ {g}
       /\ \/ ApplyDelete(g) /\ UNCHANGED <<late, failed>>
          \/ DeleteFails(g) /\ failed' = TRUE
  /\ UNCHANGED <<strays, taken, pc, phase, held, attempt, quiet, outcome>>

\* Mutant: failures of the deletes are not collected.
ReservedDeletedUnchecked ==
  /\ pc = "delete_gateway" /\ phase = "prepare" /\ doomed = {}
  /\ pc' = "post_gateway"
  /\ UNCHANGED <<api, phase, held, doomed, attempt, quiet, failed, outcome>>

ReservedDeleted ==
  /\ pc = "delete_gateway" /\ phase = "prepare" /\ doomed = {}
  /\ \/ failed /\ Return("failed")
     \/ ~failed /\ pc' = "post_gateway" /\ UNCHANGED outcome
  /\ UNCHANGED <<api, phase, held, doomed, attempt, quiet, failed>>

-----------------------------------------------------------------------------
\* POST /gateways.

Reconcile ==
  /\ pc' = "list_gateways" /\ phase' = "reconcile"
  /\ attempt' = 0 /\ quiet' = 0

CreateGateway ==
  /\ pc = "post_gateway"
  /\ \/ /\ \E g \in Gateways({"unused"}) :          \* answered, as requested
             /\ record' = [record EXCEPT ![g] = "owned"]
             /\ held' = g
        /\ pc' = "refresh" /\ phase' = "finish"
        /\ UNCHANGED <<late, attempt, quiet>>
     \/ /\ \E g \in Gateways({"unused"}), kind \in {"owned", "collision"} :
             record' = [record EXCEPT ![g] = kind]
        /\ Reconcile /\ UNCHANGED <<late, held>>    \* answer lost or not owned
     \/ /\ late' = late \cup {PostGateway}          \* timed out
        /\ Reconcile /\ UNCHANGED <<record, held>>
     \/ Reconcile /\ UNCHANGED <<record, late, held>>          \* refused
  /\ UNCHANGED <<strays, taken, doomed, failed, outcome>>

-----------------------------------------------------------------------------
\* reconcile_reserved_gateways.

\* Mutant: one quiet poll is enough.
OneQuietPoll == 1

RequiredQuiet == 2     \* REQUIRED_RECONCILIATION_QUIET_ATTEMPTS

\* End of one poll of the loop, by then number `attempt' of them.
NextPoll(quietNow) ==
  /\ quiet' = quietNow
  /\ attempt' = attempt + 1
  /\ IF quietNow = RequiredQuiet THEN Return("clean")
     ELSE IF attempt' = ReconciliationAttempts THEN Return("dirty")
     ELSE pc' = "list_gateways" /\ UNCHANGED outcome

\* By poll number latePolls a timed-out create has taken effect or was dropped:
\* an assumption about the API, void when latePolls = ReconciliationAttempts.
Settled == attempt < latePolls \/ PostGateway \notin late

ReconcileList ==
  /\ pc = "list_gateways" /\ phase = "reconcile" /\ Settled
  /\ \/ /\ Gateways({"collision", "owned"}) = {}
        /\ NextPoll(quiet + 1)
        /\ Seen(GatewayId) /\ UNCHANGED doomed
     \/ /\ Gateways({"collision"}) = {} /\ Gateways({"owned"}) # {}
        /\ doomed' = Gateways({"owned"})
        /\ pc' = "delete_gateway"
        /\ Seen(GatewayId)
        /\ UNCHANGED <<attempt, quiet, outcome>>
     \/ /\ Gateways({"collision"}) # {}
        /\ Seen(GatewayId)
        /\ Return("dirty") /\ UNCHANGED <<doomed, attempt, quiet>>
     \/ /\ Return("dirty")                               \* the GET failed
        /\ UNCHANGED <<doomed, strays, taken, attempt, quiet>>
  /\ UNCHANGED <<record, late, phase, held, failed>>

ReconcileDeleted ==
  /\ pc = "delete_gateway" /\ phase = "reconcile" /\ doomed = {}
  /\ \/ failed /\ Return("dirty") /\ UNCHANGED <<attempt, quiet>>
     \/ ~failed /\ NextPoll(0)
  /\ UNCHANGED <<api, phase, held, doomed, failed>>

-----------------------------------------------------------------------------
\* finish_provision; any error starts the rollback, cleanup(Some(fixture)).

\* Mutant: the rollback removes the gateway only.
RollbackGatewayOnly == pc' = "list_gateways" /\ phase' = "rollback"

Rollback == pc' = "list_server" /\ phase' = "rollback"

Refresh ==
  /\ pc = "refresh"
  /\ \/ pc' = "poll" /\ UNCHANGED phase
     \/ Rollback
  /\ UNCHANGED <<api, held, doomed, attempt, quiet, failed, outcome>>

\* Mutant: the poll counter starts again instead of ending the loop.
PollCatalogsForever ==
  /\ pc = "poll"
  /\ attempt' = (attempt + 1) % MaxAttempts
  /\ \/ pc' = "post_server" /\ UNCHANGED phase
     \/ UNCHANGED <<pc, phase>>
  /\ UNCHANGED <<api, held, doomed, quiet, failed, outcome>>

\* One round of the three catalog GETs of poll_catalogs.
PollCatalogs ==
  /\ pc = "poll"
  /\ attempt' = attempt + 1
  /\ \/ pc' = "post_server" /\ UNCHANGED phase            \* complete
     \/ attempt' < MaxAttempts /\ UNCHANGED <<pc, phase>> \* missing, sleep
     \/ Rollback                             \* attempts exhausted or GET failed
  /\ UNCHANGED <<api, held, doomed, quiet, failed, outcome>>

ApplyCreateServer ==
  record' = [record EXCEPT ![ServerId] = IF @ = "unused" THEN "owned" ELSE @]

CreateServer ==
  /\ pc = "post_server"
  /\ \/ /\ record[ServerId] = "unused" /\ ApplyCreateServer
        /\ Return("ok") /\ UNCHANGED <<late, phase>>
     \/ /\ \/ UNCHANGED <<record, late>>
           \/ ApplyCreateServer /\ UNCHANGED late
           \/ late' = late \cup {PostServer} /\ UNCHANGED record
        /\ Rollback /\ UNCHANGED outcome
  /\ UNCHANGED <<strays, taken, held, doomed, attempt, quiet, failed>>

-----------------------------------------------------------------------------
\* delete_owned_gateway, the second half of cleanup(Some(fixture)).

\* Mutant: errors of the cleanup are swallowed.
CleanupReturnsOk(ok) == Return(IF phase = "rollback" THEN "clean" ELSE "cleaned")

CleanupReturns(ok) ==
  Return(IF phase = "rollback" THEN (IF ok THEN "clean" ELSE "dirty")
                               ELSE (IF ok THEN "cleaned" ELSE "cleanup_failed"))

ListHeld ==
  /\ pc = "list_gateways" /\ phase \in {"rollback", "cleanup"}
  /\ \/ /\ record[held] \in {"unused", "deleted"}
        /\ Seen(GatewayId)
        /\ CleanupReturns(~failed)
     \/ /\ record[held] = "owned"
        /\ Seen(GatewayId)
        /\ pc' = "delete_gateway" /\ UNCHANGED outcome
     \/ /\ record[held] \in {"other", "collision"}
        /\ Seen(GatewayId)
        /\ CleanupReturns(FALSE)
     \/ CleanupReturns(FALSE) /\ UNCHANGED <<strays, taken>>      \* the GET failed
  /\ UNCHANGED <<record, late, phase, held, doomed, attempt, quiet, failed>>

DeleteHeld ==
  /\ pc = "delete_gateway" /\ phase \in {"rollback", "cleanup"}
  /\ \/ ApplyDelete(held) /\ UNCHANGED late /\ CleanupReturns(~failed)
     \/ DeleteFails(held) /\ CleanupReturns(FALSE)
  /\ UNCHANGED <<strays, taken, phase, held, doomed, attempt, quiet, failed>>

\* The conformance run has finished with the fixture.
StartCleanup ==
  /\ pc = "returned"
  /\ pc' = "list_server" /\ phase' = "cleanup"
  /\ UNCHANGED <<api, held, doomed, attempt, quiet, failed, outcome>>

-----------------------------------------------------------------------------
\* The admin API and its other clients.

\* A timed-out request takes effect after all.
Land ==
  /\ \E r \in late :
       /\ late' = late \ {r}
       /\ \/ /\ r.op = "delete"
             /\ ApplyDelete(r.id) /\ UNCHANGED strays
          \/ /\ r = PostGateway
             /\ \E g \in Gateways({"unused"}) :
                  /\ record' = [record EXCEPT ![g] = "owned"]
                  /\ strays' = strays \cup {g}
          \/ /\ r = PostServer /\ record[ServerId] = "unused"
             /\ record' = [record EXCEPT ![ServerId] = "owned"]
             /\ strays' = strays \cup {ServerId}
  /\ UNCHANGED <<taken, client>>

\* It is lost for good.
Drop ==
  /\ \E r \in late : late' = late \ {r}
  /\ UNCHANGED <<record, strays, taken, client>>

\* What another client may make of the record under an id: it creates its own,
\* edits it, takes over or renames one of the fixture's, or deletes it.
Edited(i) ==
  IF i = ServerId
    THEN {"unused", "collision"} \ {record[i]}
    ELSE CASE record[i] = "unused"  -> {"other"}
           [] record[i] = "deleted" -> {}
           [] OTHER -> {"other", "collision", "deleted"} \ {record[i]}

OtherClient ==
  /\ \E i \in Id, kind \in Kind :
       /\ kind \in Edited(i)
       /\ record' = [record EXCEPT ![i] = kind]
       /\ taken' = IF record[i] = "owned" THEN taken \cup {i} ELSE taken
  /\ UNCHANGED <<late, strays, client>>

Client ==
  \/ ListServer \/ DeleteServer
  \/ ListReserved \/ DeleteReserved \/ ReservedDeleted
  \/ CreateGateway
  \/ ReconcileList \/ ReconcileDeleted
  \/ Refresh \/ PollCatalogs \/ CreateServer
  \/ ListHeld \/ DeleteHeld \/ StartCleanup

Environment == Land \/ Drop \/ OtherClient

Next == (Client \/ Environment) /\ UNCHANGED latePolls

Spec == Init /\ [][Next]_vars

\* Every request ends by its timeout, and so the client always takes a step; a
\* timed-out request is eventually gone.
FairSpec ==
  Spec /\ WF_vars(Client /\ UNCHANGED latePolls) /\ WF_vars(Drop /\ UNCHANGED latePolls)

-----------------------------------------------------------------------------
\* Properties.

Owned(i) == record[i] = "owned"

\* Deletes go by id, after a listing: a record that another client has taken
\* over since then is deleted with the rest.  But no other record of another
\* client is ever changed, by a step of the client or by a request of it that
\* lands late: the record was the fixture's own when last listed.
OthersKept ==
  [][(Client \/ Land) =>
       \A i \in Id : record[i] \in {"other", "collision"} /\ record'[i] # record[i]
                      => i \in taken]_vars

\* What a return says of the records is true, whatever an earlier run left: Ok of
\* provision means its gateway and server are registered, but for what others
\* have taken since, and no other gateway of the fixture; an error
\* without a cleanup remark, that nothing of the fixture is left but a create that
\* landed after its collection was last listed; Ok of cleanup, that both are gone.
OutcomeIsTrue ==
  /\ outcome = "ok" /\ pc = "returned" =>
       /\ held \in GatewayId /\ Gateways({"owned"}) \subseteq {held}
       /\ \A i \in {held, ServerId} : Owned(i) \/ i \in taken
  /\ outcome = "clean" => \A i \in Id : Owned(i) => i \in strays
  /\ outcome = "cleaned" => ~Owned(ServerId) /\ ~Owned(held)

\* With two quiet polls, a gateway create that lands before the second poll is
\* found and removed.
TwoPollsFindLateCreate ==
  outcome = "clean" /\ phase = "reconcile" /\ latePolls = 1 =>
    Gateways({"owned"}) = {}

\* The server is created only while its gateway is registered, or another client
\* has taken that, except by a POST that lands late; and the fixture's gateways
\* are never removed under a server known to be there, unless the server's own
\* deletion had failed.
ServerBeforeGateway ==
  [][/\ ~Owned(ServerId) /\ Owned(ServerId)' =>
          \/ held # NoGateway /\ (Owned(held) \/ held \in taken)
          \/ ServerId \in strays'
     /\ Client \/ Land => \A g \in GatewayId :
          Owned(g) /\ ~Owned(g)' =>
            \/ phase \in {"rollback", "cleanup"} /\ failed
            \/ ~Owned(ServerId) \/ ServerId \in strays]_vars

\* provision and cleanup return, after a bounded number of polls.
Returns == <>(pc = "done")

=============================================================================
