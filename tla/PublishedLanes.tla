--------------------------- MODULE PublishedLanes ---------------------------
(***************************************************************************)
(* What readers of the conformance artifacts may rely on, free of files:   *)
(* each command publishes whole lanes one at a time, and lanes of two      *)
(* commands are never published together.                                  *)
(***************************************************************************)
EXTENDS Naturals

CONSTANTS
  Lane,
  MaxRuns    \* bound: commands

VARIABLES
  newest,      \* number of the latest command, 0 before the first
  published    \* command whose artifacts each lane publishes, 0 for none

vars == <<newest, published>>

Init ==
  /\ newest = 0
  /\ published = [l \in Lane |-> 0]

Start ==
  /\ newest < MaxRuns
  /\ newest' = newest + 1
  /\ UNCHANGED published

\* The older commands' lanes go before the newest one publishes a lane, ...
Discard(l) ==
  /\ published[l] \in 1 .. newest - 1
  /\ published' = [published EXCEPT ![l] = 0]
  /\ UNCHANGED newest

\* ... which it does once per lane and for good.
Publish(l) ==
  /\ newest > 0
  /\ published[l] = 0
  /\ \A m \in Lane : published[m] \in {0, newest}
  /\ published' = [published EXCEPT ![l] = newest]
  /\ UNCHANGED newest

Next == Start \/ \E l \in Lane : Discard(l) \/ Publish(l)

Spec == Init /\ [][Next]_vars

=============================================================================
