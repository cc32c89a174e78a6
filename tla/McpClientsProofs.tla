-------------------------- MODULE McpClientsProofs --------------------------
(***************************************************************************)
(* Proofs about McpClients, for any sessions and any times: which backend  *)
(* the clients' sessions belong to, what served a probe that succeeded,    *)
(* and how long the probe waits.                                           *)
(*                                                                         *)
(* Sessions: a session is issued once and for all, and an answer a client  *)
(* uses carries the marker of the backend under test, so that the issuer   *)
(* of a session in use is that backend (Sessions).                         *)
(*                                                                         *)
(* Time: while the probe waits for an answer the attempt's limit, and      *)
(* while it sleeps the end of the sleep, keep the clock within the         *)
(* deadline (Timing).  A sleep that follows a refusal by a gateway without *)
(* configuration began before the configuration came, and so the last      *)
(* sleep bounds how long the configuration has been there (Waiting).       *)
(*                                                                         *)
(* The last theorem compares what the three clients accept as an answer    *)
(* (McpExchange).                                                          *)
(***************************************************************************)
EXTENDS McpClients, TLAPS

Types ==
  /\ GatewayTypes
  /\ pc \in {"auth_negative", "initialize", "sleep", "initialized",
             "tools_list", "tool_call", "ok", "failed"}
  /\ now \in Nat /\ since \in Nat /\ ready_at \in Nat
  /\ session \in Session \cup {None} /\ header \in Session \cup {None}
  /\ misled \in BOOLEAN /\ fell_back \in BOOLEAN

Served == {"initialized", "tools_list", "tool_call", "ok"}

Sessions ==
  /\ OwnBackend
  /\ pc \in Served => session \in Session /\ (dataplane => configured)
  /\ pc \in {"auth_negative", "initialize", "sleep"} => session = None

Timing ==
  /\ WithinDeadline
  /\ pc = "auth_negative" => now = 0 /\ since = 0
  /\ pc = "initialize" =>
       /\ since <= now
       /\ IF ConfigTimeout = 0 THEN since = 0 /\ now <= RequestTimeout
                               ELSE since <= ConfigTimeout /\ now <= ConfigTimeout
  /\ pc = "sleep" =>
       /\ ConfigTimeout # 0 /\ since <= ConfigTimeout /\ now <= since + Oversleep
       /\ since <= now + RetryInterval

Untouched == session = None /\ ~misled /\ ~fell_back

Waiting ==
  /\ pc = "sleep" /\ Untouched /\ configured => since <= ready_at + RetryInterval
  /\ pc = "failed" /\ Untouched =>
       IF configured THEN ready_at + RetryInterval + Oversleep >= ConfigTimeout
                     ELSE now >= ConfigTimeout

IInv == Types /\ Sessions /\ Timing /\ Waiting

-----------------------------------------------------------------------------
\* What the gateway's answers do to the sessions.

LEMMA Issuing ==
  ASSUME NEW a \in Answer, NEW s, Types, Replies(a, s)
  PROVE  /\ GatewayTypes'
         /\ UnderTest' = UnderTest /\ configured' = configured /\ dataplane' = dataplane
         /\ \A t \in Session : issuer[t] # "none" => issuer'[t] = issuer[t]
         /\ a.session \in Session => issuer'[a.session] = By(a)
<1>1. By(a) \in Backend
  BY DEF By, Backend
<1>2. CASE a.session \in Session
  BY <1>1, <1>2 DEF Replies, Issues, Types, GatewayTypes, UnderTest
<1>3. CASE a.session \notin Session
  BY <1>3 DEF Replies, Issues, Types, GatewayTypes, UnderTest
<1> QED
  BY <1>2, <1>3

\* The marker check identifies the backend under test.
LEMMA Marked ==
  ASSUME NEW a \in Answer, NEW s, Types, Replies(a, s), dataplane => ~ForeignMarker(a)
  PROVE  /\ By(a) = UnderTest
         /\ a.status \in Success => (dataplane => configured)
  BY DEF Types, GatewayTypes, Replies, Routed, By, UnderTest, ForeignMarker

\* Sessions in use stay what they are.
LEMMA OwnKept ==
  ASSUME Types, OwnBackend, UnderTest' = UnderTest,
         \A t \in Session : issuer[t] # "none" => issuer'[t] = issuer[t],
         session' = session \/ (session' # None => issuer'[session'] = UnderTest),
         header' = header \/ (header' # None => issuer'[header'] = UnderTest)
  PROVE  OwnBackend'
<1>1. UnderTest # "none"
  BY DEF UnderTest
<1>2. session # None => issuer[session] # "none" /\ session \in Session
  BY <1>1 DEF OwnBackend, Types
<1>3. header # None => issuer[header] # "none" /\ header \in Session
  BY <1>1 DEF OwnBackend, Types
<1> QED
  BY <1>2, <1>3 DEF OwnBackend

-----------------------------------------------------------------------------
\* The steps of the probe.

LEMMA AuthNegativeStep ==
  ASSUME NEW a \in Answer, IInv, AuthNegative(a), header' = header
  PROVE  IInv'
<1> USE DEF IInv
<1>1. Replies(a, None) /\ pc = "auth_negative"
  BY DEF AuthNegative
<1>2. /\ GatewayTypes' /\ UnderTest' = UnderTest /\ configured' = configured
      /\ dataplane' = dataplane
      /\ \A t \in Session : issuer[t] # "none" => issuer'[t] = issuer[t]
  BY <1>1, Issuing
<1>3. /\ UNCHANGED <<now, since, session, fell_back, ready_at>>
      /\ \/ pc' = "initialize" /\ misled' = FALSE
         \/ pc' = "failed" /\ misled' = TRUE
  BY DEF AuthNegative, Goto
<1>4. Types'
  BY <1>2, <1>3 DEF Types
<1>5. OwnBackend'
  BY <1>2, <1>3, OwnKept DEF Sessions
<1>6. Sessions'
  BY <1>1, <1>3, <1>5 DEF Sessions, Served
<1>7. Timing'
  BY <1>1, <1>3, TimeAssumption DEF Timing, WithinDeadline, Types
<1>8. Waiting'
  BY <1>3 DEF Waiting, Untouched
<1> QED
  BY <1>4, <1>6, <1>7, <1>8

LEMMA InitializeStep ==
  ASSUME NEW a \in Answer, IInv, Initialize(a), header' = header
  PROVE  IInv'
<1> USE DEF IInv
<1>1. Replies(a, None) /\ pc = "initialize" /\ session = None
  BY DEF Initialize, Sessions
<1>2. /\ GatewayTypes' /\ UnderTest' = UnderTest /\ configured' = configured
      /\ dataplane' = dataplane
      /\ \A t \in Session : issuer[t] # "none" => issuer'[t] = issuer[t]
      /\ a.session \in Session => issuer'[a.session] = By(a)
  BY <1>1, Issuing
<1>3. /\ UNCHANGED <<now, ready_at>>
      /\ misled' = (misled \/ ~(Healthy(a) \/ FallsBack(a)))
      /\ fell_back' = (fell_back \/ FallsBack(a))
      /\ misled' \in BOOLEAN /\ fell_back' \in BOOLEAN
  BY DEF Initialize, Types
<1>4. CASE pc' = "initialized"
  <2>1. /\ Passed(dataplane, a) /\ ProbeResult(a) /\ a.session \in Session
        /\ session' = a.session /\ UNCHANGED since
    BY <1>4 DEF Initialize, Conclude, Sleep, Goto
  <2>2. By(a) = UnderTest /\ (dataplane => configured)
    BY <1>1, <2>1, Marked DEF Passed, ProbeResult, Success
  <2>3. Types'
    BY <1>2, <1>3, <1>4, <2>1 DEF Types
  <2>4. OwnBackend'
    BY <1>2, <2>1, <2>2, OwnKept DEF Sessions
  <2> QED
    BY <1>2, <1>3, <1>4, <2>1, <2>2, <2>3, <2>4
       DEF Sessions, Served, Timing, WithinDeadline, Waiting
<1>5. CASE pc' = "failed"
  <2>1. UNCHANGED <<since, session>>
    BY <1>5 DEF Initialize, Conclude, Sleep, Goto
  <2>2. Types'
    BY <1>2, <1>3, <1>5, <2>1 DEF Types
  <2>3. OwnBackend'
    BY <1>2, <2>1, OwnKept DEF Sessions
  <2>4. Sessions'
    BY <1>5, <2>3 DEF Sessions, Served
  <2>5. Timing'
    BY <1>3, <1>5 DEF Timing, WithinDeadline
  <2>6. ASSUME Untouched'
        PROVE  ~configured /\ now >= ConfigTimeout
    <3>1. Healthy(a) /\ ~FallsBack(a)
      BY <1>3, <2>6 DEF Untouched
    <3>2. Passed(dataplane, a)
      BY <3>1, NoneAssumption DEF Healthy, Passed, ForeignMarker, Success, Answer,
         SessionHeader, Unusable, Failure
    <3>3. configured => a.status = 200 /\ ProbeResult(a) /\ a.session \in Session
      BY <3>1 DEF Healthy, ProbeResult, Parsed, Message
    <3>4. ~configured => a.status # 200
      BY <3>1 DEF Healthy
    <3>5. ~configured
      BY <1>5, <3>2, <3>3 DEF Initialize, Conclude, Goto
    <3>6. ConfigTimeout = 0 \/ now >= ConfigTimeout
      BY <1>5, <3>2, <3>4, <3>5 DEF Initialize, Sleep, Goto
    <3> QED
      BY <3>5, <3>6, TimeAssumption DEF Types
  <2>7. Waiting'
    BY <1>2, <1>3, <1>5, <2>6 DEF Waiting
  <2> QED
    BY <2>2, <2>4, <2>5, <2>7
<1>6. CASE pc' = "sleep"
  <2>1. /\ a.status # 200 /\ ConfigTimeout # 0 /\ now < ConfigTimeout
        /\ since' = now + Least(RetryInterval, ConfigTimeout - now)
        /\ session' = session
    BY <1>6, TimeAssumption DEF Initialize, Conclude, Sleep, Goto, Types
  <2>2. /\ since' \in Nat /\ since' <= ConfigTimeout /\ now <= since'
        /\ since' <= now + RetryInterval
    BY <2>1, TimeAssumption DEF Least, Types
  <2>3. Types'
    BY <1>2, <1>3, <1>6, <2>1, <2>2 DEF Types
  <2>4. OwnBackend'
    BY <1>2, <2>1, OwnKept DEF Sessions
  <2>5. Sessions'
    BY <1>1, <1>6, <2>1, <2>4 DEF Sessions, Served
  <2>6. Timing'
    BY <1>3, <1>6, <2>1, <2>2, TimeAssumption DEF Timing, WithinDeadline, Types
  <2>7. ASSUME Untouched' PROVE ~configured
    BY <1>3, <2>1, <2>7 DEF Untouched, Healthy
  <2>8. Waiting'
    BY <1>2, <1>6, <2>7 DEF Waiting
  <2> QED
    BY <2>3, <2>5, <2>6, <2>8
<1>7. pc' \in {"initialized", "failed", "sleep"}
  BY DEF Initialize, Conclude, Sleep, Goto
<1> QED
  BY <1>4, <1>5, <1>6, <1>7

\* Without an answer: time passes, the sleep ends, or the probe gives up.
LEMMA WaitingStep ==
  ASSUME IInv, Unanswered \/ InitializeFails \/ Wake \/ Tick, header' = header
  PROVE  IInv'
<1> USE DEF IInv
<1>1. /\ UNCHANGED <<dataplane, configured, issuer, session, fell_back, ready_at>>
      /\ pc' \in {"auth_negative", "initialize", "sleep", "initialized",
                 "tools_list", "tool_call", "ok", "failed"}
      /\ now' \in Nat /\ since' \in Nat /\ misled' \in BOOLEAN
  <2>1. now \in Nat /\ since \in Nat /\ misled \in BOOLEAN
    BY DEF Types
  <2>2. CASE Unanswered
    BY <2>1, <2>2 DEF Unanswered, Goto, gateway
  <2>3. CASE InitializeFails
    BY <2>1, <2>3 DEF InitializeFails, Goto, gateway
  <2>4. CASE Wake
    BY <2>1, <2>4 DEF Wake, Goto, gateway, history
  <2>5. CASE Tick
    BY <2>1, <2>5 DEF Tick, gateway, history
  <2> QED
    BY <2>2, <2>3, <2>4, <2>5
<1>2. Types'
  BY <1>1 DEF Types, GatewayTypes
<1>3. OwnBackend'
  BY <1>1, OwnKept DEF Sessions, UnderTest
<1>4. Sessions'
  BY <1>1, <1>3 DEF Sessions, Served, Unanswered, InitializeFails, Wake, Tick, Goto
<1>5. CASE Unanswered \/ InitializeFails
  <2>1. pc' = "failed" /\ UNCHANGED <<now, since>>
    BY <1>5 DEF Unanswered, InitializeFails, Goto
  <2>2. Timing'
    BY <2>1 DEF Timing, WithinDeadline
  <2>3. ~Untouched'
    <3>1. CASE misled'
      BY <3>1 DEF Untouched
    <3>2. CASE pc \in Served
      BY <1>1, <3>2, NoneAssumption DEF Untouched, Sessions
    <3> QED
      BY <1>5, <3>1, <3>2 DEF Unanswered, InitializeFails, Served
  <2> QED
    BY <1>2, <1>4, <2>1, <2>2, <2>3 DEF Waiting
<1>6. CASE Wake
  <2>1. /\ pc = "sleep" /\ now >= since /\ since' = now
        /\ UNCHANGED <<now, misled>>
        /\ pc' = IF now >= ConfigTimeout THEN "failed" ELSE "initialize"
    BY <1>6 DEF Wake, Goto, history
  <2>2. Timing'
    BY <2>1, TimeAssumption DEF Timing, WithinDeadline, Types
  <2>3. Waiting'
    BY <1>1, <2>1, TimeAssumption DEF Waiting, Untouched, Timing, Types
  <2> QED
    BY <1>2, <1>4, <2>2, <2>3
<1>7. CASE Tick
  <2>1. UNCHANGED <<pc, since, misled>> /\ now' = now + 1
    BY <1>7 DEF Tick, history
  <2>2. CASE pc = "initialize" /\ now < since + AttemptTimeout
    <3>1. Timing'
      BY <2>1, <2>2, TimeAssumption
         DEF Timing, WithinDeadline, AttemptTimeout, Least, Types
    <3> QED
      BY <1>2, <1>4, <2>1, <2>2, <3>1 DEF Waiting
  <2>3. CASE pc = "sleep" /\ now < since + Oversleep
    <3>1. Timing'
      BY <2>1, <2>3, TimeAssumption DEF Timing, WithinDeadline, Types
    <3> QED
      BY <1>1, <1>2, <1>4, <2>1, <2>3, <3>1 DEF Waiting, Untouched
  <2> QED
    BY <1>7, <2>2, <2>3 DEF Tick
<1> QED
  BY <1>5, <1>6, <1>7

\* The requests of an initialized session.
LEMMA ServedStep ==
  ASSUME NEW a \in Answer, IInv, Initialized(a) \/ ToolsList(a) \/ ToolCall(a),
         header' = header
  PROVE  IInv'
<1> USE DEF IInv
<1>1. /\ Replies(a, session) /\ pc \in Served
      /\ pc' \in {"tools_list", "tool_call", "ok", "failed"}
      /\ UNCHANGED <<now, since, session, misled, fell_back, ready_at>>
  BY DEF Initialized, ToolsList, ToolCall, Served, Goto, history
<1>2. /\ GatewayTypes' /\ UnderTest' = UnderTest /\ configured' = configured
      /\ dataplane' = dataplane
      /\ \A t \in Session : issuer[t] # "none" => issuer'[t] = issuer[t]
  BY <1>1, Issuing
<1>3. Types'
  BY <1>1, <1>2 DEF Types
<1>4. OwnBackend'
  BY <1>1, <1>2, OwnKept DEF Sessions
<1>5. session \in Session /\ (dataplane => configured)
  BY <1>1 DEF Sessions
<1>6. Sessions'
  BY <1>1, <1>2, <1>4, <1>5 DEF Sessions
<1>7. Timing'
  BY <1>1 DEF Timing, WithinDeadline
<1>8. Waiting'
  BY <1>1, <1>5, NoneAssumption DEF Waiting, Untouched
<1> QED
  BY <1>3, <1>6, <1>7, <1>8

-----------------------------------------------------------------------------
\* The steps of the gateway and of the other client.

LEMMA ConfigureStep ==
  ASSUME IInv, Configure, header' = header
  PROVE  IInv'
<1> USE DEF IInv
<1>1. /\ ~configured /\ configured' = TRUE /\ ready_at' = now
      /\ UNCHANGED <<dataplane, issuer, pc, now, since, session, misled, fell_back>>
  BY DEF Configure
<1>2. Types'
  BY <1>1 DEF Types, GatewayTypes
<1>3. OwnBackend'
  BY <1>1, OwnKept DEF Sessions, UnderTest
<1>4. Sessions'
  BY <1>1, <1>3 DEF Sessions
<1>5. Timing'
  BY <1>1 DEF Timing, WithinDeadline
<1>6. Waiting'
  BY <1>1, TimeAssumption DEF Waiting, Untouched, Timing, Types
<1> QED
  BY <1>2, <1>4, <1>5, <1>6

LEMMA ClientStep ==
  ASSUME IInv, Client!ClientNext, UNCHANGED probe
  PROVE  IInv'
<1> USE DEF IInv
<1>1. PICK r \in Client!Request, a \in Answer : Client!Send(r, a)
  BY DEF Client!ClientNext, Client!Answer, Answer, Client!Marker, Marker,
         Client!Success, Success, Client!Failure, Failure,
         Client!SessionHeader, SessionHeader, Client!Unusable, Unusable,
         Client!Body, Body, Client!Message, Message
<1>2. Replies(a, Client!Outbound(r))
  BY <1>1 DEF Client!Send, Client!Replies, Replies, Client!Routed, Routed,
         Client!Issues, Issues, Client!By, By, Client!Success, Success
<1>3. /\ GatewayTypes' /\ UnderTest' = UnderTest /\ configured' = configured
      /\ dataplane' = dataplane
      /\ \A t \in Session : issuer[t] # "none" => issuer'[t] = issuer[t]
      /\ a.session \in Session => issuer'[a.session] = By(a)
  BY <1>2, Issuing
<1>4. UNCHANGED <<pc, now, since, session, misled, fell_back, ready_at>>
  BY DEF probe, history
<1>5. header' = header \/ (header' \in Session /\ issuer'[header'] = UnderTest)
  <2>1. CASE /\ Client!Sends(dataplane, r.streamed, r.expectation, a)
             /\ a.session # None /\ header' = a.session
    <3>1. (dataplane => ~ForeignMarker(a)) /\ a.session # Unusable
      BY <2>1 DEF Client!Sends, Client!ForeignMarker, ForeignMarker, Client!Unusable, Unusable
    <3>2. a.session \in Session
      BY <2>1, <3>1 DEF Answer, SessionHeader
    <3>3. By(a) = UnderTest
      BY <1>2, <3>1, Marked
    <3> QED
      BY <1>3, <2>1, <3>2, <3>3
  <2> QED
    BY <1>1, <2>1 DEF Client!Send
<1>6. Types'
  BY <1>3, <1>4, <1>5 DEF Types
<1>7. OwnBackend'
  BY <1>3, <1>4, <1>5, OwnKept DEF Sessions
<1>8. Sessions'
  BY <1>3, <1>4, <1>7 DEF Sessions
<1>9. Timing'
  BY <1>4 DEF Timing, WithinDeadline
<1>10. Waiting'
  BY <1>3, <1>4 DEF Waiting, Untouched
<1> QED
  BY <1>6, <1>8, <1>9, <1>10

-----------------------------------------------------------------------------
LEMMA Initially == ClientsInit => IInv
<1> SUFFICES ASSUME ClientsInit PROVE IInv
  OBVIOUS
<1>1. Init /\ header = None
  BY DEF ClientsInit, Client!ClientInit
<1>2. Types
  BY <1>1 DEF Init, GatewayInit, Types, GatewayTypes, Backend
<1>3. Sessions
  BY <1>1 DEF Init, Sessions, Served, OwnBackend
<1>4. Timing
  BY <1>1, TimeAssumption DEF Init, Timing, WithinDeadline
<1>5. Waiting
  BY <1>1 DEF Init, Waiting
<1> QED
  BY <1>2, <1>3, <1>4, <1>5 DEF IInv

LEMMA Invariance == ClientsSpec => []IInv
<1>1. ASSUME IInv, [ClientsNext]_<<vars, header>>
      PROVE  IInv'
  <2>1. CASE Next /\ UNCHANGED header
    BY <1>1, <2>1, AuthNegativeStep, InitializeStep, ServedStep, WaitingStep,
       ConfigureStep DEF Next, Exchange
  <2>2. CASE Client!ClientNext /\ UNCHANGED probe
    BY <1>1, <2>2, ClientStep
  <2>3. CASE UNCHANGED <<vars, header>>
    <3>1. UNCHANGED <<dataplane, configured, issuer, pc, now, since, session, header,
                      misled, fell_back, ready_at>>
      BY <2>3 DEF vars, probe, gateway, history
    <3>2. Types' /\ Sessions'
      BY <1>1, <3>1 DEF IInv, Types, GatewayTypes, Sessions, OwnBackend, UnderTest
    <3>3. Timing' /\ Waiting'
      BY <1>1, <3>1 DEF IInv, Timing, WithinDeadline, Waiting, Untouched
    <3> QED
      BY <3>2, <3>3 DEF IInv
  <2> QED
    BY <1>1, <2>1, <2>2, <2>3 DEF ClientsNext
<1> QED
  BY <1>1, Initially, PTL DEF ClientsSpec

-----------------------------------------------------------------------------
\* Whatever nginx answers, and whatever the other client sends in between, no
\* client holds a session of a backend that is not under test.
THEOREM SessionsAreOwn == ClientsSpec => []OwnBackend
<1>1. IInv => OwnBackend
  BY DEF IInv, Sessions
<1> QED
  BY <1>1, Invariance, PTL

\* A probe that succeeds was served by the backend under test, configured if
\* it is the dataplane.
THEOREM ProbeIsEarned == ClientsSpec => []OkWasServed
<1>1. IInv => OkWasServed
  BY NoneAssumption DEF IInv, Sessions, OwnBackend, OkWasServed, Served
<1> QED
  BY <1>1, Invariance, PTL

\* However long the waits are chosen, the probe stops waiting by the deadline.
THEOREM WaitEnds == ClientsSpec => []WithinDeadline
<1>1. IInv => WithinDeadline
  BY DEF IInv, Timing
<1> QED
  BY <1>1, Invariance, PTL

\* However long the waits are chosen, the probe does not give up on a gateway
\* that is configured a retry interval before the deadline.
THEOREM WaitIsLongEnough == ClientsSpec => []WaitsLongEnough
<1>1. IInv => WaitsLongEnough
  BY DEF IInv, Waiting, Untouched, WaitsLongEnough, GaveUpWaiting, TooLate
<1> QED
  BY <1>1, Invariance, PTL

-----------------------------------------------------------------------------
\* The probe is the strictest of the three: what it takes for a result, the
\* gateway client validates and a load user accepts.  (The other way round a
\* load user accepts a result of any content type, and the gateway client
\* errors.)  So a stack that passed the probe cannot fail in the other clients
\* because they read the same answer differently.
THEOREM ProbeIsStrictest ==
  ASSUME NEW a \in Answer, NEW routed \in BOOLEAN,
         Passed(routed, a), ProbeResult(a)
  PROVE  /\ Sends(routed, FALSE, "JsonRpc", a)
         /\ LoadResult(routed, a)
<1>1. a.status = 200 /\ a.status \in Success
  BY DEF ProbeResult, Success
<1>2. a.body = "result"
  BY <1>1 DEF Passed, ProbeResult, Parsed, Answer, Body, Message
<1>3. Parsed(a.body) = "result" /\ ClientParsed(a.body) = "result"
  BY <1>2 DEF Parsed, ClientParsed, Message
<1> QED
  BY <1>1, <1>2, <1>3 DEF Passed, Sends, Validates, LoadResult

=============================================================================
