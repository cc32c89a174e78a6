--------------------------- MODULE LoadUserProofs ---------------------------
(***************************************************************************)
(* Proofs about LoadUser, for any users, any callable tools and any limit  *)
(* of the request ids: the verdict on a user is exact, and a session left  *)
(* open is reported.                                                       *)
(*                                                                         *)
(* Users do not share state, so the inductive invariant IInv is one of     *)
(* each user (Standing), which another user's step leaves alone, and one   *)
(* of the run (Ending).  Standing adds to the properties what they need at *)
(* the moment a user leaves: which users have a session id, that these     *)
(* have tools to call, and that a user that is idle without a session id   *)
(* has failed or never had a session.                                      *)
(***************************************************************************)
EXTENDS LoadUser, TLAPS

\* Only what the proofs need: not the tools' type.
Types ==
  /\ pc \in [User -> {"unborn", "initialize", "initialized", "tools",
                      "idle", "list", "call", "ping", "delete", "done"}]
  /\ data \in [User -> BOOLEAN] /\ sid \in [User -> BOOLEAN]
  /\ DOMAIN callable = User
  /\ next_id \in [User -> 2..IdLimit]
  /\ failed \in [User -> BOOLEAN]
  /\ faulty \in [User -> BOOLEAN] /\ exhausted \in [User -> BOOLEAN]
  /\ session \in [User -> {"none", "open", "gone"}]
  /\ dataplane \in BOOLEAN /\ deletable \in BOOLEAN

Starting(u) ==
  /\ pc[u] = "unborn" => /\ ~data[u] /\ ~sid[u] /\ ~failed[u] /\ ~faulty[u]
                         /\ ~exhausted[u] /\ session[u] = "none"
  /\ pc[u] = "initialize" => data[u]
  /\ pc[u] \in {"unborn", "initialize", "initialized"} => next_id[u] = 2

Holding(u) ==
  /\ sid[u] => data[u] /\ session[u] # "none"
  /\ pc[u] \in {"initialized", "tools", "list", "call", "ping", "delete"} => sid[u]
  /\ pc[u] \in {"idle", "list", "call", "ping"} /\ sid[u] => callable[u] # <<>>

Judged(u) ==
  /\ failed[u] => faulty[u] \/ ~data[u] \/ exhausted[u]
  /\ faulty[u] \/ exhausted[u] => failed[u]

Leaving(u) ==
  /\ pc[u] = "idle" /\ ~sid[u] => failed[u] \/ (~data[u] /\ session[u] = "none")
  /\ pc[u] = "done" => /\ ~data[u] => failed[u]
                       /\ session[u] = "none" => failed[u]
                       /\ session[u] = "open" /\ deletable => failed[u]

Standing(u) == Starting(u) /\ Holding(u) /\ Judged(u) /\ Leaving(u)

Ending ==
  /\ outcome = "ok" => attack = "returned" /\ NobodyFailed
  /\ attack = "returned" => \A u \in User : pc[u] \in {"unborn", "done"}

IInv == Types /\ (\A u \in User : Standing(u)) /\ Ending

-----------------------------------------------------------------------------
\* What is recorded against a user is what was wrong.

\* An answer that should carry a result.
LEMMA ResultJudged ==
  ASSUME NEW u \in User, NEW a \in Answer, Types,
         pc[u] \in {"initialize", "tools", "list", "call", "ping"}
  PROVE  /\ Recorded(pc[u], a) <=> ~Correct(u, a)
         /\ Succeeds(pc[u], a) <=> ~Recorded(pc[u], a)
<1>1. Expected(pc[u]) = "Ok"
  BY DEF Expected
<1>2. AcceptedStatus("Ok") = {200}
  BY DEF AcceptedStatus
<1>3. Succeeds(pc[u], a) <=> Received(a) /\ a.status = 200 /\ a.body = "result"
  BY <1>1, <1>2 DEF Succeeds, Accepts
<1>4. Correct(u, a) <=> Received(a) /\ a.status = 200 /\ a.body = "result"
  BY DEF Correct
<1>5. a.status = 200 => a.status \in Success
  BY DEF Success
<1> QED
  BY <1>1, <1>3, <1>4, <1>5 DEF Recorded

\* The answer to the notification.
LEMMA NotificationJudged ==
  ASSUME NEW u \in User, NEW a \in Answer, Types, pc[u] = "initialized"
  PROVE  /\ Recorded("initialized", a) <=> ~Correct(u, a)
         /\ Succeeds("initialized", a) <=> ~Recorded("initialized", a)
<1>1. Expected("initialized") = "Accepted"
  BY DEF Expected
<1>2. AcceptedStatus("Accepted") = {202}
  BY DEF AcceptedStatus
<1>3. Succeeds("initialized", a) <=> Received(a) /\ a.status = 202 /\ a.body = "empty"
  BY <1>1, <1>2 DEF Succeeds, Accepts
<1>4. Correct(u, a) <=> Received(a) /\ a.status = 202 /\ a.body = "empty"
  BY DEF Correct
<1>5. a.status = 202 => a.status \in Success
  BY DEF Success
<1> QED
  BY <1>1, <1>3, <1>4, <1>5 DEF Recorded

\* The answer to a deletion, which tells the truth about the session.
LEMMA DeletionJudged ==
  ASSUME NEW u \in User, NEW a \in Answer, NEW s \in {"open", "gone"}, Types,
         pc[u] = "delete", Deletion(u, a, s)
  PROVE  /\ Recorded("delete", a) <=> ~Correct(u, a)
         /\ Succeeds("delete", a) <=> ~Recorded("delete", a)
         /\ Succeeds("delete", a) /\ deletable => s = "gone"
<1>1. Expected("delete") = "SessionDeleted"
  BY DEF Expected
<1>2. AcceptedStatus("SessionDeleted") = Success \cup {404, 405}
  BY DEF AcceptedStatus
<1>3. Succeeds("delete", a) <=> Received(a) /\ a.status \in Success \cup {404, 405}
  BY <1>1, <1>2 DEF Succeeds, Accepts
<1>4. Recorded("delete", a) <=> ~Succeeds("delete", a)
  BY <1>1 DEF Recorded
<1>5. 404 \notin Success /\ 405 \notin Success /\ 500 \notin Success
  BY DEF Success
<1>6. Correct(u, a) <=>
        /\ Received(a)
        /\ IF ~deletable THEN a.status = 405
           ELSE IF session[u] = "gone" THEN a.status \in Success \cup {404}
           ELSE a.status \in Success
  BY DEF Correct
<1>7. Received(a) /\ a.status # 500 =>
        /\ a.status = 405 <=> ~deletable
        /\ a.status = 404 => session[u] = "gone"
        /\ deletable => s = "gone"
  BY DEF Deletion
<1>8. Types => deletable \in BOOLEAN
  BY DEF Types
<1>9. Correct(u, a) <=> Succeeds("delete", a)
  <2>1. CASE Received(a) /\ a.status # 500
    BY <2>1, <1>3, <1>5, <1>6, <1>7, <1>8
  <2>2. CASE ~(Received(a) /\ a.status # 500)
    BY <2>2, <1>3, <1>5, <1>6
  <2> QED
    BY <2>1, <2>2
<1>10. Succeeds("delete", a) /\ deletable => s = "gone"
  BY <1>3, <1>5, <1>7
<1> QED
  BY <1>4, <1>9, <1>10

-----------------------------------------------------------------------------
\* The steps.

\* What a step of one user leaves alone of another.
Same(u) ==
  /\ pc'[u] = pc[u] /\ data'[u] = data[u] /\ sid'[u] = sid[u]
  /\ callable'[u] = callable[u] /\ next_id'[u] = next_id[u]
  /\ failed'[u] = failed[u] /\ session'[u] = session[u]
  /\ faulty'[u] = faulty[u] /\ exhausted'[u] = exhausted[u]

LEMMA StandingKept ==
  ASSUME NEW u \in User, Standing(u), Same(u), deletable' = deletable
  PROVE  Standing(u)'
  BY DEF Standing, Starting, Holding, Judged, Leaving, Same

\* What every step of a user gives: types, the others and the run unchanged.
Step(u) ==
  /\ Types' /\ Standing(u)'
  /\ \A v \in User \ {u} : Same(v)
  /\ UNCHANGED run

LEMMA LaunchStep ==
  ASSUME NEW u \in User, Types, Standing(u), ClientFails(u) \/ Launch(u)
  PROVE  Step(u)
<1> USE DEF Types, Step, Same, Standing, Starting, Holding, Judged, Leaving, Set, Goto,
            client, run, past
<1>1. CASE ClientFails(u)
  BY <1>1 DEF ClientFails
<1>2. CASE Launch(u)
  BY <1>2 DEF Launch
<1> QED
  BY <1>1, <1>2

LEMMA InitializedStep ==
  ASSUME NEW u \in User, NEW a \in Answer, Types, Standing(u), Initialized(u, a)
  PROVE  Step(u)
<1> USE DEF Types, Step, Same, Standing, Starting, Holding, Judged, Leaving, Set, Goto,
            Judge, client, run, past
<1>1. /\ Recorded("initialize", a) <=> ~Correct(u, a)
      /\ Succeeds("initialize", a) <=> ~Recorded("initialize", a)
  BY ResultJudged DEF Initialized
<1>2. /\ pc[u] = "initialize" /\ data[u]
      /\ failed' = [failed EXCEPT ![u] = failed[u] \/ ~Correct(u, a)]
      /\ faulty' = [faulty EXCEPT ![u] = faulty[u] \/ ~Correct(u, a)]
      /\ UNCHANGED exhausted
      /\ session' \in {[session EXCEPT ![u] = s] : s \in {"none", "open"}}
      /\ Correct(u, a) => session'[u] = "open"
      /\ UNCHANGED run
  BY <1>1 DEF Initialized
<1>. /\ session' \in [User -> {"none", "open", "gone"}]
     /\ failed' \in [User -> BOOLEAN] /\ faulty' \in [User -> BOOLEAN]
  BY <1>2
<1>3. CASE Correct(u, a)
  <2>1. /\ pc' = [pc EXCEPT ![u] = "initialized"] /\ sid' = [sid EXCEPT ![u] = TRUE]
        /\ UNCHANGED <<data, callable, next_id>>
    BY <1>1, <1>2, <1>3 DEF Initialized
  <2>2. Types'
    BY <1>2, <2>1
  <2>3. Standing(u)'
    BY <1>2, <1>3, <2>1
  <2>4. \A v \in User \ {u} : Same(v)
    BY <1>2, <2>1
  <2> QED
    BY <1>2, <2>2, <2>3, <2>4
<1>4. CASE ~Correct(u, a)
  <2>1. /\ pc' = [pc EXCEPT ![u] = "idle"] /\ sid' = [sid EXCEPT ![u] = FALSE]
        /\ callable' = [callable EXCEPT ![u] = <<>>]
        /\ UNCHANGED <<data, next_id>>
    BY <1>1, <1>2, <1>4 DEF Initialized, Dormant
  <2>2. Types'
    BY <1>2, <2>1, IdAssumption
  <2>3. Standing(u)'
    BY <1>2, <1>4, <2>1, IdAssumption
  <2>4. \A v \in User \ {u} : Same(v)
    BY <1>2, <2>1
  <2> QED
    BY <1>2, <2>1, <2>2, <2>3, <2>4
<1> QED
  BY <1>3, <1>4

LEMMA NotifiedStep ==
  ASSUME NEW u \in User, NEW a \in Answer, Types, Standing(u), Notified(u, a)
  PROVE  Step(u)
<1> USE DEF Types, Step, Same, Standing, Starting, Holding, Judged, Leaving, Set, Goto,
            Judge, client, run, past
<1>1. /\ Recorded("initialized", a) <=> ~Correct(u, a)
      /\ Succeeds("initialized", a) <=> ~Recorded("initialized", a)
  BY NotificationJudged DEF Notified
<1>2. /\ pc[u] = "initialized" /\ sid[u] /\ next_id[u] = 2
      /\ failed' = [failed EXCEPT ![u] = failed[u] \/ ~Correct(u, a)]
      /\ faulty' = [faulty EXCEPT ![u] = faulty[u] \/ ~Correct(u, a)]
      /\ UNCHANGED exhausted
      /\ UNCHANGED <<session, run>>
  BY <1>1 DEF Notified
<1>3. CASE Correct(u, a)
  <2>1. /\ pc' = [pc EXCEPT ![u] = "tools"]
        /\ next_id' = [next_id EXCEPT ![u] = next_id[u] + 1]
        /\ UNCHANGED <<data, sid, callable>>
    BY <1>1, <1>2, <1>3 DEF Notified
  <2>2. Types'
    BY <1>2, <2>1, IdAssumption
  <2>3. Standing(u)'
    BY <1>2, <1>3, <2>1, IdAssumption
  <2>4. \A v \in User \ {u} : Same(v)
    BY <1>2, <2>1
  <2> QED
    BY <1>2, <2>1, <2>2, <2>3, <2>4
<1>4. CASE ~Correct(u, a)
  <2>1. /\ pc' = [pc EXCEPT ![u] = "idle"] /\ sid' = [sid EXCEPT ![u] = FALSE]
        /\ callable' = [callable EXCEPT ![u] = <<>>]
        /\ UNCHANGED <<data, next_id>>
    BY <1>1, <1>2, <1>4 DEF Notified, Dormant
  <2>2. Types'
    BY <1>2, <2>1, IdAssumption
  <2>3. Standing(u)'
    BY <1>2, <1>4, <2>1, IdAssumption
  <2>4. \A v \in User \ {u} : Same(v)
    BY <1>2, <2>1
  <2> QED
    BY <1>2, <2>1, <2>2, <2>3, <2>4
<1> QED
  BY <1>3, <1>4

LEMMA ListedStep ==
  ASSUME NEW u \in User, NEW a \in Answer, Types, Standing(u), Listed(u, a)
  PROVE  Step(u)
<1> USE DEF Types, Step, Same, Standing, Starting, Holding, Judged, Leaving, Set, Goto,
            Judge, client, run, past
<1>1. /\ Recorded(pc[u], a) <=> ~Correct(u, a)
      /\ Succeeds(pc[u], a) <=> ~Recorded(pc[u], a)
  BY ResultJudged DEF Listed
<1>2. /\ pc[u] \in {"tools", "list"} /\ sid[u]
      /\ failed' = [failed EXCEPT ![u] = failed[u] \/ ~Correct(u, a)]
      /\ faulty' = [faulty EXCEPT ![u] = faulty[u] \/ ~Correct(u, a)]
      /\ UNCHANGED exhausted
      /\ UNCHANGED <<session, run>>
  BY <1>1 DEF Listed
<1>3. CASE Correct(u, a)
  <2>1. /\ pc' = [pc EXCEPT ![u] = "idle"]
        /\ \E tools : tools # <<>> /\ callable' = [callable EXCEPT ![u] = tools]
        /\ UNCHANGED <<data, sid, next_id>>
    BY <1>1, <1>2, <1>3 DEF Listed
  <2>2. Types'
    BY <1>2, <2>1, IdAssumption
  <2>3. Standing(u)'
    BY <1>2, <1>3, <2>1, IdAssumption
  <2>4. \A v \in User \ {u} : Same(v)
    BY <1>2, <2>1
  <2> QED
    BY <1>2, <2>1, <2>2, <2>3, <2>4
<1>4. CASE ~Correct(u, a) /\ pc[u] = "tools"
  <2>1. /\ pc' = [pc EXCEPT ![u] = "idle"] /\ sid' = [sid EXCEPT ![u] = FALSE]
        /\ callable' = [callable EXCEPT ![u] = <<>>]
        /\ UNCHANGED <<data, next_id>>
    BY <1>1, <1>2, <1>4 DEF Listed, Dormant
  <2>2. Types'
    BY <1>2, <2>1, IdAssumption
  <2>3. Standing(u)'
    BY <1>2, <1>4, <2>1, IdAssumption
  <2>4. \A v \in User \ {u} : Same(v)
    BY <1>2, <2>1
  <2> QED
    BY <1>2, <2>1, <2>2, <2>3, <2>4
<1>5. CASE ~Correct(u, a) /\ pc[u] = "list"
  <2>1. /\ pc' = [pc EXCEPT ![u] = "idle"]
        /\ UNCHANGED <<data, sid, callable, next_id>>
    BY <1>1, <1>2, <1>5 DEF Listed
  <2>2. Types'
    BY <1>2, <2>1, IdAssumption
  <2>3. Standing(u)'
    BY <1>2, <1>5, <2>1, IdAssumption
  <2>4. \A v \in User \ {u} : Same(v)
    BY <1>2, <2>1
  <2> QED
    BY <1>2, <2>1, <2>2, <2>3, <2>4
<1> QED
  BY <1>2, <1>3, <1>4, <1>5

LEMMA AnsweredStep ==
  ASSUME NEW u \in User, NEW a \in Answer, Types, Standing(u), Answered(u, a)
  PROVE  Step(u)
<1>1. Recorded(pc[u], a) <=> ~Correct(u, a)
  BY ResultJudged DEF Answered
<1> QED
  BY <1>1 DEF Answered, Types, Step, Same, Standing, Starting, Holding, Judged, Leaving,
              Set, Goto, Judge, client, run, past

LEMMA DeletedStep ==
  ASSUME NEW u \in User, NEW a \in Answer, Types, Standing(u), Deleted(u, a)
  PROVE  Step(u)
<1>1. PICK s \in {"open", "gone"} : Deletion(u, a, s) /\ session' = [session EXCEPT ![u] = s]
  BY DEF Deleted, Set
<1>2. /\ Recorded("delete", a) <=> ~Correct(u, a)
      /\ Succeeds("delete", a) <=> ~Recorded("delete", a)
      /\ Succeeds("delete", a) /\ deletable => s = "gone"
  <2>1. pc[u] = "delete"
    BY DEF Deleted
  <2> QED
    BY <1>1, <2>1, DeletionJudged
<1> USE DEF Types, Step, Same, Standing, Starting, Holding, Judged, Leaving, Set, Goto,
            Judge, client, run, past
<1>3. /\ pc[u] = "delete" /\ data[u] /\ pc' = [pc EXCEPT ![u] = "done"]
      /\ failed' = [failed EXCEPT ![u] = failed[u] \/ ~Correct(u, a)]
      /\ faulty' = [faulty EXCEPT ![u] = faulty[u] \/ ~Correct(u, a)]
      /\ UNCHANGED exhausted
      /\ UNCHANGED <<data, next_id, run>>
  <2>1. /\ pc[u] = "delete" /\ pc' = [pc EXCEPT ![u] = "done"] /\ Judge(u, a)
        /\ UNCHANGED <<data, next_id, run>>
    BY DEF Deleted
  <2>2. sid[u]
    BY <2>1
  <2> QED
    BY <1>2, <2>1, <2>2
<1>4. CASE Correct(u, a)
  <2>1. /\ sid' = [sid EXCEPT ![u] = FALSE] /\ callable' = [callable EXCEPT ![u] = <<>>]
        /\ deletable => s = "gone"
    BY <1>2, <1>4 DEF Deleted
  <2>2. Types'
    BY <1>1, <1>3, <2>1, IdAssumption
  <2>3. Standing(u)'
    BY <1>1, <1>3, <1>4, <2>1, IdAssumption
  <2>4. \A v \in User \ {u} : Same(v)
    BY <1>1, <1>3, <2>1
  <2> QED
    BY <1>1, <1>3, <2>1, <2>2, <2>3, <2>4
<1>5. CASE ~Correct(u, a)
  <2>1. UNCHANGED <<sid, callable>>
    BY <1>2, <1>5 DEF Deleted
  <2>2. Types'
    BY <1>1, <1>3, <2>1, IdAssumption
  <2>3. Standing(u)'
    BY <1>1, <1>3, <1>5, <2>1, IdAssumption
  <2>4. \A v \in User \ {u} : Same(v)
    BY <1>1, <1>3, <2>1
  <2> QED
    BY <1>1, <1>3, <2>1, <2>2, <2>3, <2>4
<1> QED
  BY <1>4, <1>5

LEMMA RequestStep ==
  ASSUME NEW u \in User, Types, Standing(u), Request(u) \/ Call(u)
  PROVE  Step(u)
<1> USE DEF Types, Step, Same, Standing, Starting, Holding, Judged, Leaving, Set, Goto,
            Ready, TransactionFails, client, run, past
<1>1. CASE Request(u) /\ NoSession(u)
  BY <1>1 DEF Request, NoSession
<1>2. ASSUME NEW request \in {"list", "ping", "call"}, NextRequest(u, request),
             pc[u] = "idle", sid[u], callable[u] # <<>>, UNCHANGED <<data, sid, callable>>
      PROVE  Step(u)
  <2>1. CASE next_id[u] < IdLimit
    <3>1. /\ pc' = [pc EXCEPT ![u] = request]
          /\ next_id' = [next_id EXCEPT ![u] = next_id[u] + 1]
          /\ UNCHANGED <<failed, session, run, past>>
      BY <1>2, <2>1, IdAssumption DEF NextRequest
    <3>2. Types'
      BY <1>2, <2>1, <3>1, IdAssumption
    <3>3. Standing(u)'
      BY <1>2, <2>1, <3>1, IdAssumption
    <3> QED
      BY <1>2, <3>1, <3>2, <3>3
  <2>2. CASE next_id[u] = IdLimit
    <3>1. /\ failed' = [failed EXCEPT ![u] = TRUE]
          /\ exhausted' = [exhausted EXCEPT ![u] = TRUE]
          /\ UNCHANGED <<pc, next_id, session, run, faulty>>
      BY <1>2, <2>2, IdAssumption DEF NextRequest
    <3>2. Types'
      BY <1>2, <3>1
    <3>3. Standing(u)'
      BY <1>2, <2>2, <3>1
    <3> QED
      BY <1>2, <3>1, <3>2, <3>3
  <2> QED
    BY <1>2, <2>1, <2>2 DEF NextRequest
<1>3. CASE Request(u) /\ ~NoSession(u)
  BY <1>2, <1>3 DEF Request
<1>4. CASE Call(u)
  BY <1>2, <1>4 DEF Call
<1> QED
  BY <1>1, <1>3, <1>4

LEMMA LeaveStep ==
  ASSUME NEW u \in User, Types, Standing(u), Leave(u)
  PROVE  Step(u)
<1> USE DEF Types, Step, Same, Standing, Starting, Holding, Judged, Leaving, Set, Goto,
            TransactionFails, client, run, past
<1>1. pc[u] = "idle" /\ UNCHANGED <<client, session, run, past>>
  BY DEF Leave
<1>2. CASE sid[u]
  <2>1. data[u] /\ pc' = [pc EXCEPT ![u] = "delete"] /\ UNCHANGED failed
    BY <1>2 DEF Leave
  <2> QED
    BY <1>1, <1>2, <2>1
<1>3. CASE ~sid[u] /\ data[u]
  <2>1. failed[u] /\ pc' = [pc EXCEPT ![u] = "done"] /\ UNCHANGED failed
    BY <1>1, <1>3 DEF Leave
  <2> QED
    BY <1>1, <1>3, <2>1
<1>4. CASE ~sid[u] /\ ~data[u]
  <2>1. pc' = [pc EXCEPT ![u] = "done"] /\ failed' = [failed EXCEPT ![u] = TRUE]
    BY <1>4 DEF Leave
  <2> QED
    BY <1>1, <1>4, <2>1
<1> QED
  BY <1>2, <1>3, <1>4

LEMMA ExpireStep ==
  ASSUME NEW u \in User, Types, Standing(u), Expire(u)
  PROVE  Step(u)
  BY DEF Expire, Types, Step, Same, Standing, Starting, Holding, Judged, Leaving, Set,
         client, run, past

-----------------------------------------------------------------------------
\* The run.

LEMMA UserStepStep ==
  ASSUME NEW u \in User, Types, Standing(u), UserStep(u) \/ Expire(u)
  PROVE  Step(u)
<1>1. CASE Respond(u)
  BY <1>1, InitializedStep, NotifiedStep, ListedStep, AnsweredStep, DeletedStep DEF Respond
<1> QED
  BY <1>1, LaunchStep, RequestStep, LeaveStep, ExpireStep DEF UserStep

\* The users have left before the run returns, and none of them acts after it.
LEMMA EndingKept ==
  ASSUME NEW u \in User, Types, Ending, UserStep(u) \/ Expire(u), Step(u)
  PROVE  Ending'
<1>1. CASE attack = "returned"
  <2>1. pc[u] \in {"unborn", "done"}
    BY <1>1 DEF Ending
  <2>2. Expire(u)
    BY <1>1, <2>1 DEF UserStep, ClientFails, Launch, Respond, Initialized, Notified,
       Listed, Answered, Deleted, Request, Call, Ready, Leave
  <2> QED
    BY <2>2 DEF Expire, Ending, NobodyFailed, run
<1>2. CASE attack # "returned"
  BY <1>2 DEF Ending, Step, run
<1> QED
  BY <1>1, <1>2

LEMMA RunStep ==
  ASSUME IInv, Stop \/ Return
  PROVE  IInv'
<1>1. UNCHANGED <<pc, client, failed, session, deletable, past, dataplane>>
  BY DEF Stop, Return
<1>2. Types'
  BY <1>1 DEF IInv, Types, client, past
<1>3. \A u \in User : Standing(u)'
  BY <1>1, StandingKept DEF IInv, Same, client, past
<1>4. Ending'
  <2>1. CASE Stop
    BY <1>1, <2>1 DEF IInv, Ending, NobodyFailed, Stop
  <2>2. CASE Return
    <3>1. attack' = "returned" /\ \A u \in User : pc'[u] \in {"unborn", "done"}
      BY <1>1, <2>2 DEF Return
    <3>2. outcome' = "ok" => NobodyFailed
      <4>1. PICK written \in [Report -> Content], stuck \in SUBSET Report :
              \/ outcome' = "Execution"
              \/ LET verdict == Verdict("goose", written, stuck)
                 IN outcome' = CASE verdict # "passed" -> verdict
                                 [] verdict = "passed" /\ ~NobodyFailed -> "FailedMetrics"
                                 [] OTHER -> "ok"
        BY <2>2 DEF Return
      <4>2. Verdict("goose", written, stuck) \in
              {"ReportCleanup", "CredentialLeak", "ReportInspection", "passed"}
        BY DEF Verdict
      <4> QED
        BY <4>1, <4>2
    <3> QED
      BY <1>1, <3>1, <3>2 DEF Ending, NobodyFailed
  <2> QED
    BY <2>1, <2>2
<1> QED
  BY <1>2, <1>3, <1>4 DEF IInv

LEMMA Inductive ==
  ASSUME IInv, [Next]_vars
  PROVE  IInv'
<1>1. ASSUME NEW u \in User, UserStep(u) \/ Expire(u)
      PROVE  IInv'
  <2>1. Step(u)
    BY <1>1, UserStepStep DEF IInv
  <2>2. Ending'
    BY <1>1, <2>1, EndingKept DEF IInv
  <2>3. ASSUME NEW v \in User \ {u}
        PROVE  Standing(v)'
    BY <2>1, <2>3, StandingKept DEF IInv, Step, run
  <2> QED
    BY <2>1, <2>2, <2>3 DEF IInv, Step
<1>2. CASE UNCHANGED vars
  <2>1. \A u \in User : Standing(u)'
    BY <1>2, StandingKept DEF IInv, Same, vars, client, run, past, past
  <2> QED
    BY <1>2, <2>1 DEF IInv, Types, Ending, NobodyFailed, vars, client, run, past, past
<1> QED
  BY <1>1, <1>2, RunStep DEF Next

LEMMA Invariance == Spec => []IInv
<1>1. Init => IInv
  BY IdAssumption DEF Init, IInv, Types, Standing, Starting, Holding, Judged, Leaving, Ending
<1> QED
  BY <1>1, Inductive, PTL DEF Spec

\* A session left open shows as a failure of its user, and a run that reports
\* success left none that it could have deleted.
THEOREM SessionsReported == Spec => []OpenSessionsReported
<1>1. IInv => OpenSessionsReported
  <2> SUFFICES ASSUME IInv PROVE OpenSessionsReported
    OBVIOUS
  <2>1. ASSUME NEW u \in User, Left(u), session[u] = "open", deletable
        PROVE  failed[u]
    BY <2>1 DEF IInv, Standing, Leaving, Left
  <2>2. ASSUME NEW u \in User, outcome = "ok", pc[u] # "unborn"
        PROVE  session[u] = "gone" \/ (session[u] = "open" /\ ~deletable)
    BY <2>2 DEF IInv, Types, Standing, Leaving, Ending, NobodyFailed
  <2> QED
    BY <2>1, <2>2 DEF OpenSessionsReported
<1> QED
  BY <1>1, Invariance, PTL

\* The verdict on each user is neither too severe nor too mild, for every number
\* of users and tools and every limit of the request ids.
THEOREM VerdictIsExact == Spec => []VerdictExact
<1>1. IInv => VerdictExact
  BY DEF IInv, Standing, Judged, Leaving, Left, VerdictExact
<1> QED
  BY <1>1, Invariance, PTL

\* Whatever the engine wrote, and whatever could not be removed: after the audit
\* a readable report holds the token only if its removal failed, and the verdict
\* says so; an audit that passes has changed nothing and found nothing.
LEMMA AuditIsThorough ==
  ASSUME NEW R, NEW written \in [R -> Content], NEW stuck \in SUBSET R, NEW engine
  PROVE  /\ Tainted(Kept(written, stuck)) \subseteq stuck
         /\ Tainted(Kept(written, stuck)) # {} => Verdict(engine, written, stuck) = "ReportCleanup"
         /\ Verdict(engine, written, stuck) = "passed" =>
              /\ Kept(written, stuck) = written
              /\ \A r \in R : /\ written[r] \in {"clean", "absent"}
                              /\ engine = "goose" => written[r] = "clean"
<1>1. DOMAIN written = R /\ DOMAIN Kept(written, stuck) = R
  BY DEF Kept, Remove
<1>2. \A r \in R : Kept(written, stuck)[r] =
                     IF r \in Tainted(written) \ stuck THEN "absent" ELSE written[r]
  BY <1>1 DEF Kept, Remove
<1>3. Tainted(Kept(written, stuck)) = Tainted(written) \cap stuck
  BY <1>1, <1>2 DEF Tainted
<1>4. Verdict(engine, written, stuck) = "passed" =>
        Tainted(written) = {} /\ Unread(engine, written) = {}
  BY DEF Verdict
<1>5. Tainted(written) \cap stuck # {} => Verdict(engine, written, stuck) = "ReportCleanup"
  BY DEF Verdict
<1>6. Tainted(written) = {} => Kept(written, stuck) = written
  BY <1>1, <1>2 DEF Kept, Remove, Content
<1>7. Tainted(written) = {} /\ Unread(engine, written) = {} =>
        \A r \in R : /\ written[r] \in {"clean", "absent"}
                     /\ engine = "goose" => written[r] = "clean"
  BY <1>1 DEF Tainted, Unread, Content
<1> QED
  BY <1>3, <1>4, <1>5, <1>6, <1>7

\* The reports of a run that returned hold no token, unless Goose itself failed
\* or a removal did.
AuditInv ==
  /\ outcome = "none" <=> attack # "returned"
  /\ TokensRemoved

THEOREM ReportsAudited == Spec => []TokensRemoved
<1>1. Init => AuditInv
  BY DEF Init, AuditInv, TokensRemoved
<1>2. ASSUME AuditInv, UNCHANGED <<attack, outcome, reports>>
      PROVE  AuditInv'
  BY <1>2 DEF AuditInv, TokensRemoved, Tainted
<1>3. ASSUME AuditInv, Return
      PROVE  AuditInv'
  <2>1. PICK written \in [Report -> Content], stuck \in SUBSET Report :
          \/ outcome' = "Execution" /\ reports' = written
          \/ LET verdict == Verdict("goose", written, stuck)
             IN /\ reports' = Kept(written, stuck)
                /\ outcome' = CASE verdict # "passed" -> verdict
                                [] verdict = "passed" /\ ~NobodyFailed -> "FailedMetrics"
                                [] OTHER -> "ok"
    BY <1>3 DEF Return
  <2>2. attack' = "returned"
    BY <1>3 DEF Return
  <2>3. CASE outcome' = "Execution"
    BY <2>2, <2>3 DEF AuditInv, TokensRemoved
  <2>4. CASE outcome' # "Execution"
    <3> DEFINE verdict == Verdict("goose", written, stuck)
    <3>1. reports' = Kept(written, stuck)
      BY <2>1, <2>4
    <3>2. /\ verdict # "passed" => outcome' = verdict
          /\ verdict = "passed" => outcome' \in {"FailedMetrics", "ok"}
      BY <2>1, <2>4
    <3>3. verdict \in {"ReportCleanup", "CredentialLeak", "ReportInspection", "passed"}
      BY DEF Verdict
    <3>4. /\ Tainted(Kept(written, stuck)) # {} => verdict = "ReportCleanup"
          /\ verdict = "passed" => /\ Kept(written, stuck) = written
                                   /\ \A r \in Report : written[r] = "clean"
      BY AuditIsThorough
    <3> HIDE DEF verdict
    <3>5. outcome' # "none"
      BY <3>2, <3>3
    <3>6. Tainted(reports') # {} => outcome' = "ReportCleanup"
      BY <3>1, <3>2, <3>4
    <3>7. outcome' = "ok" => \A r \in Report : reports'[r] = "clean"
      BY <3>1, <3>2, <3>3, <3>4
    <3> QED
      BY <2>2, <3>5, <3>6, <3>7 DEF AuditInv, TokensRemoved, Tainted
  <2> QED
    BY <2>3, <2>4
<1>4. ASSUME AuditInv, Stop
      PROVE  AuditInv'
  BY <1>4 DEF Stop, AuditInv, TokensRemoved
<1>5. AuditInv /\ [Next]_vars => AuditInv'
  <2> SUFFICES ASSUME AuditInv, [Next]_vars PROVE AuditInv'
    OBVIOUS
  <2>1. ASSUME NEW u \in User, UserStep(u) \/ Expire(u)
        PROVE  UNCHANGED <<attack, outcome, reports>>
    BY <2>1 DEF UserStep, Expire, ClientFails, Launch, Respond, Initialized, Notified,
       Listed, Answered, Deleted, Request, NoSession, NextRequest, Call, Leave,
       TransactionFails, run
  <2>2. CASE UNCHANGED vars
    BY <2>2, <1>2 DEF vars, run
  <2> QED
    BY <1>2, <1>3, <1>4, <2>1, <2>2 DEF Next
<1>6. AuditInv => TokensRemoved
  BY DEF AuditInv
<1> QED
  BY <1>1, <1>5, <1>6, PTL DEF Spec

=============================================================================
