-------------------------- MODULE PlatformProofs --------------------------
(***************************************************************************)
(* Proofs about the files that the platform crate keeps: SourceCheckout,   *)
(* for any repositories and any number of published commits, and at the    *)
(* end LocalSecrets, for any set of commands.                              *)
(***************************************************************************)
EXTENDS SourceCheckout, LocalSecrets, TLAPS

Fetched == {"verify", "clean", "checkout", "clean_again"}
AtDir   == {"origin", "stage", "preserve", "discard", "set_url", "fetch"} \cup Fetched

\* What lies at the checkout's path and beside it, at each step.
Flow ==
  /\ pc # "idle" => result = "none"
  /\ pc \in {"clone", "install"} => dir = None
  /\ pc \in AtDir => dir # None
  /\ staging # None <=> pc \in {"preserve", "install"}
  /\ backup # None <=> pc \in {"install", "discard"}
  /\ pc \in {"stage", "preserve", "install", "discard", "set_url", "clean", "clean_again"}
       => generated

OwnCommits(c) ==
  \A commit \in {c.remote, c.tag, c.branch, c.head} \ {None} : commit.repo = c.origin

\* Repositories hold the commits of their origin, and a replacement is
\* complete.
Copies ==
  /\ \A r \in Repo : upstream[r] # None => upstream[r].commit.repo = r
  /\ dir # None => OwnCommits(dir)
  /\ staging # None =>
       OwnCommits(staging) /\ Complete(staging) /\ staging.origin = repository
  /\ backup # None => OwnCommits(backup)
  /\ pc = "discard" => Complete(dir)
  /\ pc \in {"discard", "set_url", "fetch"} \cup Fetched => dir.origin = repository
  /\ pc \in {"checkout", "clean_again"} /\ generated => Complete(dir)

\* What the run fetched, and what the probes made of it.
Fetching ==
  /\ seen # None => fetched /\ pc \in Fetched \cup {"idle"}
  /\ pc \in Fetched \ {"clean_again"} /\ fetched =>
       /\ dir.remote = RemoteOf(seen)
       /\ TagOf(seen) # None => dir.tag = TagOf(seen)
       /\ generated => dir.tag = TagOf(seen)
  /\ pc \in Fetched \ {"clean_again"} /\ ~faults => fetched
  /\ pc \in {"clean", "checkout"} =>
       /\ exists => dir.remote # None
       /\ generated /\ RemoteOf(seen) # None => exists
       /\ ~faults => dir.remote # None \/ dir.tag # None
  /\ pc = "clean_again" /\ RemoteOf(seen) # None => dir.head = seen.commit

\* The two properties of the outcome are part of the invariant: a result stays
\* while nobody runs.
IInv == TypeOK /\ Flow /\ Copies /\ Fetching /\ OkIsConfiguredSource /\ HealthyRunSucceeds

USE NoneAssumption DEF Fetched, AtDir

-----------------------------------------------------------------------------
\* A published ref is found by one of the two probes at most, as what it names.
LEMMA RefFacts ==
  ASSUME NEW ref \in Ref \cup {None}
  PROVE  /\ RemoteOf(ref) \in Commit \cup {None} /\ TagOf(ref) \in Commit \cup {None}
         /\ RemoteOf(ref) # None => ref # None /\ RemoteOf(ref) = ref.commit
         /\ TagOf(ref) # None => TagOf(ref) = ref.commit
         /\ ref # None => RemoteOf(ref) # None \/ TagOf(ref) # None
         /\ ref # None /\ ref.kind = "branch" => RemoteOf(ref) # None
         /\ RemoteOf(ref) = None \/ TagOf(ref) = None
  BY DEF RemoteOf, TagOf, Ref

\* git clone, of a branch or of whatever the remote's HEAD names.
LEMMA CloneFacts ==
  ASSUME TypeOK, Copies, NEW r \in Repo, NEW c \in FreshClones(r)
  PROVE  c \in Clone /\ Complete(c) /\ c.origin = r /\ OwnCommits(c) /\ ~c.dirty
<1> DEFINE ref == upstream[r]
           tip == [repo |-> r, version |-> 0]
           with(f, branch, head) ==
             [origin |-> r, remote |-> RemoteOf(f), tag |-> TagOf(f),
              branch |-> branch, head |-> head, dirty |-> FALSE]
<1>1. ref \in Ref \cup {None} /\ tip \in Commit /\ (ref # None => ref.commit.repo = r)
  BY MaxVersionAssumption DEF TypeOK, OutsideTypes, Copies, Commit
<1>2. \/ c = with(ref, None, tip)
      \/ RemoteOf(ref) # None /\ c = with(ref, RemoteOf(ref), RemoteOf(ref))
  BY DEF FreshClones
<1>3. RemoteOf(ref) \in Commit \cup {None} /\ TagOf(ref) \in Commit \cup {None}
  BY <1>1, RefFacts
<1>4. /\ RemoteOf(ref) # None => RemoteOf(ref).repo = r
      /\ TagOf(ref) # None => TagOf(ref).repo = r
  BY <1>1 DEF RemoteOf, TagOf
<1>5. tip.repo = r
  OBVIOUS
<1> HIDE DEF ref, tip
<1>6. PICK b \in {None, RemoteOf(ref)}, h \in {tip, RemoteOf(ref)} \ {None} :
        c = with(ref, b, h)
  BY <1>1, <1>2
<1>7. /\ c.origin = r /\ c.remote = RemoteOf(ref) /\ c.tag = TagOf(ref)
      /\ c.branch = b /\ c.head = h /\ c.dirty = FALSE
  BY <1>6
<1>8. c \in Clone
  BY <1>1, <1>3, <1>6 DEF Clone
<1>9. OwnCommits(c)
  BY <1>4, <1>5, <1>6 DEF OwnCommits
<1> QED
  BY <1>6, <1>8, <1>9 DEF Complete

LEMMA FieldTypes ==
  ASSUME NEW c \in Clone
  PROVE  /\ c.remote \in Commit \cup {None} /\ c.tag \in Commit \cup {None}
         /\ c.branch \in Commit \cup {None} /\ c.head \in Commit \cup {None}
         /\ c.dirty \in BOOLEAN /\ c # None
  BY DEF Clone

LEMMA InitInv == Init => IInv
<1> SUFFICES ASSUME Init PROVE IInv
  OBVIOUS
<1>1. OutsideTypes
  <2>1. upstream \in [Repo -> Ref \cup {None}]
    BY DEF Init
  <2> QED
    BY MaxVersionAssumption DEF Init, OutsideTypes
<1>2. FileTypes /\ RunTypes
  BY DEF Init, FileTypes, RunTypes
<1>3. Flow /\ Fetching /\ OkIsConfiguredSource /\ HealthyRunSucceeds
  BY DEF Init, Flow, Fetching, OkIsConfiguredSource, HealthyRunSucceeds
<1>4. Copies
  BY DEF Init, Copies
<1> QED
  BY <1>1, <1>2, <1>3, <1>4 DEF IInv, TypeOK

LEMMA StartStep == IInv /\ Start => IInv'
<1> SUFFICES ASSUME IInv, Start PROVE IInv'
  OBVIOUS
<1>1. OutsideTypes'
  BY DEF IInv, TypeOK, OutsideTypes, Start, outside
<1>2. FileTypes'
  BY DEF IInv, TypeOK, FileTypes, Start, files
<1>3. RunTypes'
  BY DEF RunTypes, Start
<1>4. Flow'
  BY DEF IInv, Start, files, Flow
<1>5. Copies'
  BY DEF IInv, Start, outside, files, Flow, Copies
<1>6. Fetching'
  BY DEF Start, Fetching
<1>7. OkIsConfiguredSource'
  BY DEF Start, OkIsConfiguredSource
<1>8. HealthyRunSucceeds'
  BY DEF Start, HealthyRunSucceeds
<1> QED
  BY <1>1, <1>2, <1>3, <1>4, <1>5, <1>6, <1>7, <1>8 DEF IInv, TypeOK

LEMMA CloneDirStep == IInv /\ CloneDir => IInv'
<1> SUFFICES ASSUME IInv, CloneDir PROVE IInv'
  OBVIOUS
<1>1. OutsideTypes'
  BY DEF IInv, TypeOK, OutsideTypes, CloneDir, outside
<1>2. FileTypes'
  BY CloneFacts DEF IInv, TypeOK, FileTypes, RunTypes, CloneDir
<1>3. RunTypes'
  BY DEF IInv, TypeOK, RunTypes, CloneDir, Goto, Fails
<1>4. Flow'
  BY CloneFacts DEF IInv, TypeOK, RunTypes, CloneDir, Goto, Fails, Flow
<1>5. Copies'
  BY CloneFacts DEF IInv, TypeOK, RunTypes, CloneDir, Goto, Fails, outside, Copies
<1>6. Fetching'
  BY DEF IInv, CloneDir, Goto, Fails, Fetching
<1>7. OkIsConfiguredSource'
  BY DEF IInv, CloneDir, Goto, Fails, Flow, OkIsConfiguredSource
<1>8. HealthyRunSucceeds'
  BY DEF IInv, CloneDir, Goto, Fails, Flow, HealthyRunSucceeds
<1> QED
  BY <1>1, <1>2, <1>3, <1>4, <1>5, <1>6, <1>7, <1>8 DEF IInv, TypeOK

LEMMA ProbeOriginStep == IInv /\ ProbeOrigin => IInv'
<1> SUFFICES ASSUME IInv, ProbeOrigin PROVE IInv'
  OBVIOUS
<1>1. OutsideTypes'
  BY DEF IInv, TypeOK, OutsideTypes, ProbeOrigin, outside
<1>2. FileTypes'
  BY DEF IInv, TypeOK, FileTypes, ProbeOrigin, files
<1>3. RunTypes'
  BY DEF IInv, TypeOK, RunTypes, ProbeOrigin, Goto, Fails, Rejects
<1>4. Flow'
  BY DEF IInv, ProbeOrigin, Goto, Fails, Rejects, outside, files, Flow
<1>5. Copies'
  BY DEF IInv, ProbeOrigin, Goto, Fails, Rejects, outside, files, Copies
<1>6. Fetching'
  BY DEF IInv, ProbeOrigin, Goto, Fails, Rejects, Fetching
<1>7. OkIsConfiguredSource'
  BY DEF IInv, ProbeOrigin, Goto, outside, files, OkIsConfiguredSource
<1>8. HealthyRunSucceeds'
  BY DEF IInv, ProbeOrigin, Goto, Fails, Rejects, outside, files, HealthyRunSucceeds
<1> QED
  BY <1>1, <1>2, <1>3, <1>4, <1>5, <1>6, <1>7, <1>8 DEF IInv, TypeOK

LEMMA StageCloneStep == IInv /\ StageClone => IInv'
<1> SUFFICES ASSUME IInv, StageClone PROVE IInv'
  OBVIOUS
<1>1. OutsideTypes'
  BY DEF IInv, TypeOK, OutsideTypes, StageClone, outside
<1>2. FileTypes'
  BY CloneFacts DEF IInv, TypeOK, FileTypes, RunTypes, StageClone
<1>3. RunTypes'
  BY DEF IInv, TypeOK, RunTypes, StageClone, Goto, Fails
<1>4. Flow'
  BY CloneFacts DEF IInv, TypeOK, RunTypes, StageClone, Goto, Fails, outside, Flow
<1>5. Copies'
  BY CloneFacts DEF IInv, TypeOK, RunTypes, StageClone, Goto, Fails, outside, Copies
<1>6. Fetching'
  BY DEF IInv, StageClone, Goto, Fails, Fetching
<1>7. OkIsConfiguredSource'
  BY DEF IInv, StageClone, Goto, Fails, outside, OkIsConfiguredSource
<1>8. HealthyRunSucceeds'
  BY DEF IInv, StageClone, Goto, Fails, outside, HealthyRunSucceeds
<1> QED
  BY <1>1, <1>2, <1>3, <1>4, <1>5, <1>6, <1>7, <1>8 DEF IInv, TypeOK

LEMMA PreserveOldStep == IInv /\ PreserveOld => IInv'
<1> SUFFICES ASSUME IInv, PreserveOld PROVE IInv'
  OBVIOUS
<1>1. OutsideTypes'
  BY DEF IInv, TypeOK, OutsideTypes, PreserveOld, outside
<1>2. FileTypes'
  BY DEF IInv, TypeOK, FileTypes, PreserveOld
<1>3. RunTypes'
  BY DEF IInv, TypeOK, RunTypes, PreserveOld, Goto, Fails
<1>4. Flow'
  BY DEF IInv, PreserveOld, Goto, Fails, outside, Flow
<1>5. Copies'
  BY DEF IInv, PreserveOld, Goto, Fails, outside, Copies
<1>6. Fetching'
  BY DEF IInv, PreserveOld, Goto, Fails, Fetching
<1>7. OkIsConfiguredSource'
  BY DEF IInv, PreserveOld, Goto, Fails, Flow, OkIsConfiguredSource
<1>8. HealthyRunSucceeds'
  BY DEF IInv, PreserveOld, Goto, Fails, Flow, HealthyRunSucceeds
<1> QED
  BY <1>1, <1>2, <1>3, <1>4, <1>5, <1>6, <1>7, <1>8 DEF IInv, TypeOK

LEMMA InstallNewStep == IInv /\ InstallNew => IInv'
<1> SUFFICES ASSUME IInv, InstallNew PROVE IInv'
  OBVIOUS
<1>1. OutsideTypes'
  BY DEF IInv, TypeOK, OutsideTypes, InstallNew, outside
<1>2. FileTypes'
  BY DEF IInv, TypeOK, FileTypes, InstallNew
<1>3. RunTypes'
  BY DEF IInv, TypeOK, RunTypes, InstallNew, Goto, Fails
<1>4. Flow'
  BY DEF IInv, InstallNew, Goto, Fails, outside, Flow
<1>5. Copies'
  <2>1. CASE dir' = staging /\ staging' = None /\ Goto("discard")
    BY <2>1 DEF IInv, Flow, Copies, InstallNew, Goto, outside
  <2>2. CASE dir' \in {dir, backup} /\ backup' = None /\ staging' = None /\ Fails
    BY <2>2 DEF IInv, Flow, Copies, InstallNew, Fails, outside
  <2> QED
    BY <2>1, <2>2 DEF InstallNew
<1>6. Fetching'
  BY DEF IInv, InstallNew, Goto, Fails, Fetching
<1>7. OkIsConfiguredSource'
  BY DEF IInv, InstallNew, Goto, Fails, Flow, OkIsConfiguredSource
<1>8. HealthyRunSucceeds'
  BY DEF IInv, InstallNew, Goto, Fails, Flow, HealthyRunSucceeds
<1> QED
  BY <1>1, <1>2, <1>3, <1>4, <1>5, <1>6, <1>7, <1>8 DEF IInv, TypeOK

LEMMA DiscardOldStep == IInv /\ DiscardOld => IInv'
<1> SUFFICES ASSUME IInv, DiscardOld PROVE IInv'
  OBVIOUS
<1>1. OutsideTypes'
  BY DEF IInv, TypeOK, OutsideTypes, DiscardOld, outside
<1>2. FileTypes'
  BY DEF IInv, TypeOK, FileTypes, DiscardOld
<1>3. RunTypes'
  BY DEF IInv, TypeOK, RunTypes, DiscardOld, Goto, Fails
<1>4. Flow'
  BY DEF IInv, DiscardOld, Goto, Fails, outside, Flow
<1>5. Copies'
  BY DEF IInv, DiscardOld, Goto, Fails, outside, Copies
<1>6. Fetching'
  BY DEF IInv, DiscardOld, Goto, Fails, Fetching
<1>7. OkIsConfiguredSource'
  BY DEF IInv, DiscardOld, Goto, Fails, outside, OkIsConfiguredSource
<1>8. HealthyRunSucceeds'
  BY DEF IInv, DiscardOld, Goto, Fails, outside, HealthyRunSucceeds
<1> QED
  BY <1>1, <1>2, <1>3, <1>4, <1>5, <1>6, <1>7, <1>8 DEF IInv, TypeOK

\* The new URL is the one the checkout has: another one was replaced before.
LEMMA SetUrlFacts ==
  ASSUME IInv, SetUrl
  PROVE  /\ pc = "set_url" /\ (Goto("fetch") \/ Fails)
         /\ UNCHANGED <<outside, dir, staging, backup, orphaned>>
<1>1. dir \in Clone /\ dir.origin = repository
  BY DEF IInv, TypeOK, FileTypes, Flow, Copies, SetUrl
<1>2. [dir EXCEPT !.origin = repository] = dir
  BY <1>1 DEF Clone
<1> QED
  BY <1>2 DEF SetUrl

LEMMA SetUrlStep == IInv /\ SetUrl => IInv'
<1> SUFFICES ASSUME IInv, SetUrl PROVE IInv'
  OBVIOUS
<1>1. OutsideTypes'
  BY SetUrlFacts DEF IInv, TypeOK, OutsideTypes, outside
<1>2. FileTypes'
  BY SetUrlFacts DEF IInv, TypeOK, FileTypes
<1>3. RunTypes'
  BY SetUrlFacts DEF IInv, TypeOK, RunTypes, Goto, Fails
<1>4. Flow'
  BY SetUrlFacts DEF IInv, Goto, Fails, Flow
<1>5. Copies'
  BY SetUrlFacts DEF IInv, Goto, Fails, outside, Copies
<1>6. Fetching'
  BY SetUrlFacts DEF IInv, Goto, Fails, Fetching
<1>7. OkIsConfiguredSource'
  BY SetUrlFacts DEF IInv, Goto, Fails, outside, OkIsConfiguredSource
<1>8. HealthyRunSucceeds'
  BY SetUrlFacts DEF IInv, Goto, Fails, outside, HealthyRunSucceeds
<1> QED
  BY <1>1, <1>2, <1>3, <1>4, <1>5, <1>6, <1>7, <1>8 DEF IInv, TypeOK

\* git fetch, field by field.
LEMMA FetchFacts ==
  ASSUME IInv, Fetch
  PROVE  /\ pc = "fetch" /\ pc' = "verify"
         /\ UNCHANGED <<outside, staging, backup, orphaned, repository, exists, result>>
         /\ dir \in Clone /\ dir' \in Clone /\ dir'.origin = dir.origin
         /\ dir'.branch = dir.branch /\ dir'.head = dir.head /\ dir'.dirty = dir.dirty
         /\ upstream[repository] \in Ref \cup {None}
         /\ \/ /\ seen' = upstream[repository] /\ fetched' = TRUE /\ faults' = faults
               /\ dir'.remote = RemoteOf(seen')
               /\ dir'.tag = IF TagOf(seen') = None /\ ~generated THEN dir.tag
                                                                 ELSE TagOf(seen')
            \/ fetched' = FALSE /\ faults' = TRUE /\ UNCHANGED <<dir, seen>>
<1>1. dir \in Clone
  BY DEF IInv, TypeOK, FileTypes, Flow, Fetch
<1>2. upstream[repository] \in Ref \cup {None}
  BY DEF IInv, TypeOK, OutsideTypes, RunTypes
<1>3. /\ RemoteOf(upstream[repository]) \in Commit \cup {None}
      /\ TagOf(upstream[repository]) \in Commit \cup {None}
      /\ dir.tag \in Commit \cup {None}
  BY <1>1, <1>2, RefFacts, FieldTypes
<1> DEFINE ref == upstream[repository]
           tag == IF TagOf(ref) = None /\ ~generated THEN dir.tag ELSE TagOf(ref)
<1>4. CASE fetched' = FALSE /\ faults' = TRUE /\ UNCHANGED <<dir, seen>>
  BY <1>1, <1>2, <1>4 DEF Fetch
<1>5. CASE /\ dir' = [dir EXCEPT !.remote = RemoteOf(ref), !.tag = tag]
           /\ seen' = ref /\ fetched' = TRUE /\ UNCHANGED faults
  <2>1. tag \in Commit \cup {None}
    BY <1>3
  <2> HIDE DEF tag
  <2>2. /\ dir' \in Clone /\ dir'.origin = dir.origin
        /\ dir'.branch = dir.branch /\ dir'.head = dir.head /\ dir'.dirty = dir.dirty
        /\ dir'.remote = RemoteOf(ref) /\ dir'.tag = tag
    BY <1>1, <1>3, <1>5, <2>1 DEF Clone
  <2> QED
    BY <1>1, <1>2, <1>5, <2>2 DEF Fetch, tag
<1> QED
  BY <1>4, <1>5 DEF Fetch

LEMMA FetchStep == IInv /\ Fetch => IInv'
<1> SUFFICES ASSUME IInv, Fetch PROVE IInv'
  OBVIOUS
<1>1. OutsideTypes'
  BY FetchFacts DEF IInv, TypeOK, OutsideTypes, outside
<1>2. FileTypes'
  BY FetchFacts DEF IInv, TypeOK, FileTypes
<1>3. RunTypes'
  BY FetchFacts DEF IInv, TypeOK, RunTypes
<1>4. Flow'
  BY FetchFacts DEF IInv, Flow
<1>5. Copies'
  <2>1. dir.origin = repository /\ OwnCommits(dir)
    BY FetchFacts DEF IInv, Copies
  <2>2. OwnCommits(dir')
    <3>1. CASE UNCHANGED <<dir, seen>>
      BY <2>1, <3>1
    <3>2. CASE /\ seen' = upstream[repository] /\ dir'.remote = RemoteOf(seen')
               /\ dir'.tag = IF TagOf(seen') = None /\ ~generated THEN dir.tag
                                                                 ELSE TagOf(seen')
      <4>1. seen' # None => seen'.commit.repo = repository
        BY <3>2 DEF IInv, TypeOK, RunTypes, Copies
      <4>2. RemoteOf(seen') # None => RemoteOf(seen').repo = repository
        BY <4>1 DEF RemoteOf
      <4>3. TagOf(seen') # None => TagOf(seen').repo = repository
        BY <4>1 DEF TagOf
      <4> QED
        BY FetchFacts, <2>1, <4>2, <4>3 DEF OwnCommits
    <3> QED
      BY FetchFacts, <3>1, <3>2
  <2> QED
    BY FetchFacts, <2>2 DEF IInv, outside, Flow, Copies
<1>6. Fetching'
  <2>1. CASE UNCHANGED <<dir, seen>> /\ fetched' = FALSE /\ faults' = TRUE
    BY <2>1, FetchFacts DEF IInv, Fetching
  <2>2. CASE seen' = upstream[repository] /\ fetched' = TRUE
    BY <2>2, FetchFacts, RefFacts DEF IInv, Fetching, outside
  <2> QED
    BY <2>1, <2>2, FetchFacts
<1>7. OkIsConfiguredSource'
  BY FetchFacts DEF IInv, Flow, OkIsConfiguredSource
<1>8. HealthyRunSucceeds'
  BY FetchFacts DEF IInv, Flow, HealthyRunSucceeds
<1> QED
  BY <1>1, <1>2, <1>3, <1>4, <1>5, <1>6, <1>7, <1>8 DEF IInv, TypeOK

LEMMA VerifyStep == IInv /\ Verify => IInv'
<1> SUFFICES ASSUME IInv, Verify PROVE IInv'
  OBVIOUS
<1> DEFINE remote == dir.remote # None
           tagged == dir.tag # None
<1>0. /\ pc = "verify" /\ UNCHANGED <<outside, files, repository, fetched, seen>>
      /\ dir \in Clone
      /\ faults' \in BOOLEAN
      /\ faults => faults'
      /\ \/ /\ pc' = "idle" /\ result' = "err" /\ exists' = exists /\ fetched
            /\ ~faults' => ~remote /\ ~tagged
         \/ /\ pc' = IF generated THEN "clean" ELSE "checkout"
            /\ result' = result /\ exists' \in BOOLEAN
            /\ exists' => remote
            /\ ~fetched \/ exists' \/ tagged
            /\ ~faults' => exists' = remote
  <2>1. PICK branch \in {remote, FALSE}, tag \in {tagged, FALSE} :
          /\ faults' = (faults \/ branch # remote \/ tag # tagged)
          /\ IF fetched /\ ~branch /\ ~tag
               THEN /\ pc' = "idle" /\ result' = "err"
                    /\ UNCHANGED <<repository, fetched, exists, seen>>
               ELSE Accepted(branch, IF generated THEN "clean" ELSE "checkout")
    BY DEF Verify
  <2>2. /\ pc = "verify" /\ UNCHANGED <<outside, files>>
    BY DEF Verify
  <2>3. dir \in Clone
    BY <2>2 DEF IInv, TypeOK, FileTypes, Flow
  <2>4. faults \in BOOLEAN
    BY DEF IInv, TypeOK, RunTypes
  <2>5. CASE fetched /\ ~branch /\ ~tag
    BY <2>1, <2>2, <2>3, <2>4, <2>5
  <2>6. CASE ~(fetched /\ ~branch /\ ~tag)
    <3>1. /\ pc' = IF generated THEN "clean" ELSE "checkout"
          /\ exists' = branch /\ UNCHANGED <<repository, fetched, seen, result>>
      BY <2>1, <2>6 DEF Accepted
    <3>2. branch \in BOOLEAN /\ tag \in BOOLEAN /\ (branch => remote) /\ (tag => tagged)
      OBVIOUS
    <3>3. faults' \in BOOLEAN /\ (faults => faults') /\ (~faults' => branch = remote)
      BY <2>1
    <3>4. ~fetched \/ branch \/ tagged
      BY <2>6
    <3> QED
      BY <2>2, <2>3, <3>1, <3>3, <3>4
  <2> QED
    BY <2>5, <2>6
<1>1. OutsideTypes'
  BY DEF IInv, TypeOK, OutsideTypes, Verify, outside
<1>2. FileTypes'
  BY DEF IInv, TypeOK, FileTypes, Verify, files
<1>3. RunTypes'
  BY DEF IInv, TypeOK, RunTypes, Verify, Accepted
<1>4. Flow'
  BY DEF IInv, Verify, outside, files, Accepted, Flow
<1>5. Copies'
  BY DEF IInv, Verify, outside, files, Accepted, Copies
<1>6. Fetching'
  BY <1>0, RefFacts DEF IInv, TypeOK, RunTypes, Fetching, outside, files
<1>7. OkIsConfiguredSource'
  BY <1>0 DEF IInv, Flow, OkIsConfiguredSource
<1>8. HealthyRunSucceeds'
  BY <1>0, RefFacts DEF IInv, TypeOK, RunTypes, Flow, Fetching, HealthyRunSucceeds
<1> QED
  BY <1>1, <1>2, <1>3, <1>4, <1>5, <1>6, <1>7, <1>8 DEF IInv, TypeOK

\* git reset --hard and git clean, which need a commit to go back to.
LEMMA CleanFacts ==
  ASSUME IInv, Clean
  PROVE  /\ pc \in {"clean", "clean_again"}
         /\ UNCHANGED <<outside, staging, backup, orphaned>>
         /\ dir \in Clone /\ dir' \in Clone /\ dir'.origin = dir.origin
         /\ dir'.remote = dir.remote /\ dir'.tag = dir.tag
         /\ dir'.branch = dir.branch /\ dir'.head = dir.head
         /\ \/ /\ dir.head # None /\ dir'.dirty = FALSE
               /\ \/ pc = "clean" /\ Goto("checkout")
                  \/ /\ pc = "clean_again" /\ pc' = "idle" /\ result' = "ok"
                     /\ UNCHANGED <<repository, fetched, exists, seen, faults>>
            \/ dir.head = None /\ Rejects /\ UNCHANGED dir
            \/ Fails /\ UNCHANGED dir
<1>1. dir \in Clone
  BY DEF IInv, TypeOK, FileTypes, Flow, Clean
<1>2. ASSUME dir' = [dir EXCEPT !.dirty = FALSE]
      PROVE  /\ dir' \in Clone /\ dir'.origin = dir.origin
             /\ dir'.remote = dir.remote /\ dir'.tag = dir.tag
             /\ dir'.branch = dir.branch /\ dir'.head = dir.head /\ dir'.dirty = FALSE
  BY <1>1, <1>2 DEF Clone
<1> QED
  BY <1>1, <1>2 DEF Clean

LEMMA CleanStep == IInv /\ Clean => IInv'
<1> SUFFICES ASSUME IInv, Clean PROVE IInv'
  OBVIOUS
<1>1. OutsideTypes'
  BY CleanFacts DEF IInv, TypeOK, OutsideTypes, outside
<1>2. FileTypes'
  BY CleanFacts DEF IInv, TypeOK, FileTypes
<1>3. RunTypes'
  BY CleanFacts DEF IInv, TypeOK, RunTypes, Goto, Fails, Rejects
<1>4. Flow'
  BY CleanFacts DEF IInv, Goto, Fails, Rejects, Flow
<1>5. Copies'
  <2>1. OwnCommits(dir')
    BY CleanFacts DEF IInv, Flow, Copies, OwnCommits
  <2> QED
    BY CleanFacts, <2>1 DEF IInv, Flow, Copies, Complete, outside, Goto, Fails, Rejects
<1>6. Fetching'
  <2>1. CASE pc = "clean" /\ Goto("checkout")
    <3>1. /\ pc' = "checkout" /\ dir'.remote = dir.remote /\ dir'.tag = dir.tag
          /\ UNCHANGED <<generated, fetched, exists, seen, faults>>
      BY <2>1, CleanFacts DEF Goto, outside
    <3> QED
      BY <2>1, <3>1 DEF IInv, Fetching
  <2>2. CASE pc' = "idle" /\ UNCHANGED <<fetched, exists, seen>>
    BY <2>2 DEF IInv, Fetching
  <2> QED
    BY <2>1, <2>2, CleanFacts DEF Fails, Rejects
<1>7. OkIsConfiguredSource'
  BY CleanFacts, RefFacts DEF IInv, TypeOK, RunTypes, Goto, Fails, Rejects, outside,
    Copies, OwnCommits, Fetching, OkIsConfiguredSource
<1>8. HealthyRunSucceeds'
  BY CleanFacts DEF IInv, Goto, Fails, outside, Flow, HealthyRunSucceeds, Complete
<1> QED
  BY <1>1, <1>2, <1>3, <1>4, <1>5, <1>6, <1>7, <1>8 DEF IInv, TypeOK

\* git checkout -B onto the remote branch.
LEMMA CheckoutRemoteFacts ==
  ASSUME IInv, CheckoutRemote
  PROVE  /\ pc = "checkout" /\ generated /\ exists
         /\ UNCHANGED <<outside, staging, backup, orphaned>>
         /\ dir \in Clone /\ dir' \in Clone /\ dir'.origin = dir.origin
         /\ dir'.remote = dir.remote /\ dir'.tag = dir.tag /\ dir'.dirty = dir.dirty
         /\ \/ dir'.branch = dir.remote /\ dir'.head = dir.remote /\ Goto("clean_again")
            \/ Fails /\ UNCHANGED dir
<1>1. dir \in Clone
  BY DEF IInv, TypeOK, FileTypes, Flow, CheckoutRemote
<1>2. ASSUME dir' = [dir EXCEPT !.branch = dir.remote, !.head = dir.remote]
      PROVE  /\ dir' \in Clone /\ dir'.origin = dir.origin
             /\ dir'.remote = dir.remote /\ dir'.tag = dir.tag /\ dir'.dirty = dir.dirty
             /\ dir'.branch = dir.remote /\ dir'.head = dir.remote
  BY <1>1, <1>2 DEF Clone
<1> QED
  BY <1>1, <1>2 DEF CheckoutRemote

LEMMA CheckoutRemoteStep == IInv /\ CheckoutRemote => IInv'
<1> SUFFICES ASSUME IInv, CheckoutRemote PROVE IInv'
  OBVIOUS
<1>1. OutsideTypes'
  BY CheckoutRemoteFacts DEF IInv, TypeOK, OutsideTypes, outside
<1>2. FileTypes'
  BY CheckoutRemoteFacts DEF IInv, TypeOK, FileTypes
<1>3. RunTypes'
  BY CheckoutRemoteFacts DEF IInv, TypeOK, RunTypes, Goto, Fails
<1>4. Flow'
  BY CheckoutRemoteFacts DEF IInv, Goto, Fails, outside, Flow
<1>5. Copies'
  <2>1. OwnCommits(dir')
    BY CheckoutRemoteFacts DEF IInv, Flow, Copies, OwnCommits
  <2> QED
    BY CheckoutRemoteFacts, <2>1 DEF IInv, Flow, Copies, Fetching, Complete, outside, Goto, Fails
<1>6. Fetching'
  <2>1. RemoteOf(seen) # None => dir.remote = seen.commit
    BY CheckoutRemoteFacts, RefFacts DEF IInv, TypeOK, RunTypes, Fetching
  <2>2. CASE Goto("clean_again") /\ dir'.head = dir.remote
    BY CheckoutRemoteFacts, <2>1, <2>2 DEF IInv, Fetching, Goto
  <2>3. CASE Fails
    BY CheckoutRemoteFacts, <2>3 DEF IInv, Fetching, Fails
  <2> QED
    BY CheckoutRemoteFacts, <2>2, <2>3
<1>7. OkIsConfiguredSource'
  BY CheckoutRemoteFacts DEF IInv, Goto, Fails, Flow, OkIsConfiguredSource
<1>8. HealthyRunSucceeds'
  BY CheckoutRemoteFacts DEF IInv, Goto, Fails, Flow, HealthyRunSucceeds
<1> QED
  BY <1>1, <1>2, <1>3, <1>4, <1>5, <1>6, <1>7, <1>8 DEF IInv, TypeOK

\* git checkout of whatever the ref names here: a local branch first, then a
\* tag, then a new branch for the remote one.
LEMMA CheckoutPlainFacts ==
  ASSUME IInv, CheckoutPlain
  PROVE  /\ pc = "checkout" /\ (~generated \/ ~exists)
         /\ UNCHANGED <<outside, staging, backup, orphaned>>
         /\ dir \in Clone /\ dir' \in Clone /\ dir'.origin = dir.origin
         /\ dir'.remote = dir.remote /\ dir'.tag = dir.tag /\ dir'.dirty = dir.dirty
         /\ \/ /\ Plain(dir) # None /\ dir'.head = Plain(dir)
               /\ dir'.branch = IF dir.branch = None /\ dir.tag = None
                                  THEN dir.remote ELSE dir.branch
               /\ \/ generated /\ Goto("clean_again")
                  \/ /\ ~generated /\ pc' = "idle" /\ result' = "ok"
                     /\ UNCHANGED <<repository, fetched, exists, seen, faults>>
            \/ Plain(dir) = None /\ Rejects /\ UNCHANGED dir
            \/ Fails /\ UNCHANGED dir
<1>1. dir \in Clone
  BY DEF IInv, TypeOK, FileTypes, Flow, CheckoutPlain
<1>2. Plain(dir) \in Commit \cup {None}
  BY <1>1, FieldTypes DEF Plain
<1> DEFINE b == IF dir.branch = None /\ dir.tag = None THEN dir.remote ELSE dir.branch
<1>3. b \in Commit \cup {None}
  BY <1>1, FieldTypes
<1>4. \/ /\ Plain(dir) # None /\ dir' = [dir EXCEPT !.head = Plain(dir), !.branch = b]
         /\ \/ generated /\ Goto("clean_again")
            \/ /\ ~generated /\ pc' = "idle" /\ result' = "ok"
               /\ UNCHANGED <<repository, fetched, exists, seen, faults>>
      \/ Plain(dir) = None /\ Rejects /\ UNCHANGED dir
      \/ Fails /\ UNCHANGED dir
  BY DEF CheckoutPlain
<1>5. ASSUME dir' = [dir EXCEPT !.head = Plain(dir), !.branch = b]
      PROVE  /\ dir' \in Clone /\ dir'.origin = dir.origin
             /\ dir'.remote = dir.remote /\ dir'.tag = dir.tag /\ dir'.dirty = dir.dirty
             /\ dir'.branch = b /\ dir'.head = Plain(dir)
  <2> HIDE DEF b
  <2> QED
    BY <1>1, <1>2, <1>3, <1>5 DEF Clone
<1> QED
  BY <1>1, <1>5 DEF CheckoutPlain

LEMMA CheckoutPlainStep == IInv /\ CheckoutPlain => IInv'
<1> SUFFICES ASSUME IInv, CheckoutPlain PROVE IInv'
  OBVIOUS
<1>1. OutsideTypes'
  BY CheckoutPlainFacts DEF IInv, TypeOK, OutsideTypes, outside
<1>2. FileTypes'
  BY CheckoutPlainFacts DEF IInv, TypeOK, FileTypes
<1>3. RunTypes'
  BY CheckoutPlainFacts DEF IInv, TypeOK, RunTypes, Goto, Fails, Rejects
<1>4. Flow'
  BY CheckoutPlainFacts DEF IInv, Goto, Fails, Rejects, outside, Flow
<1>5. Copies'
  <2>1. OwnCommits(dir')
    BY CheckoutPlainFacts DEF IInv, Flow, Copies, OwnCommits, Plain
  <2> QED
    BY CheckoutPlainFacts, <2>1 DEF IInv, Flow, Copies, Complete, outside, Goto, Fails, Rejects
<1>6. Fetching'
  BY CheckoutPlainFacts DEF IInv, Goto, Fails, Rejects, Fetching
<1>7. OkIsConfiguredSource'
  BY CheckoutPlainFacts DEF IInv, Goto, Fails, Rejects, outside, Flow,
    OkIsConfiguredSource
<1>8. HealthyRunSucceeds'
  BY CheckoutPlainFacts DEF IInv, Goto, Fails, Rejects, Flow, Fetching, Plain,
    HealthyRunSucceeds
<1> QED
  BY <1>1, <1>2, <1>3, <1>4, <1>5, <1>6, <1>7, <1>8 DEF IInv, TypeOK

LEMMA KillStep == IInv /\ Kill => IInv'
<1> SUFFICES ASSUME IInv, Kill PROVE IInv'
  OBVIOUS
<1>1. OutsideTypes'
  BY DEF IInv, TypeOK, OutsideTypes, Kill, outside
<1>2. FileTypes'
  <2>1. ASSUME NEW c \in KilledClones(repository)
        PROVE  c \in Clone
    <3>1. PICK o \in {repository, None} :
            c = [origin |-> o, remote |-> None, tag |-> None, branch |-> None,
                 head |-> None, dirty |-> FALSE]
      BY DEF KilledClones
    <3> QED
      BY <3>1 DEF IInv, TypeOK, RunTypes, Clone
  <2> QED
    BY <2>1 DEF IInv, TypeOK, FileTypes, Kill
<1>3. RunTypes'
  BY DEF IInv, TypeOK, RunTypes, Kill
<1>4. Flow'
  BY DEF Kill, Flow
<1>5. Copies'
  <2>1. ASSUME NEW c \in KilledClones(repository)
        PROVE  c.head = None /\ OwnCommits(c)
    BY DEF KilledClones, OwnCommits
  <2>2. dir' # None => OwnCommits(dir')
    BY <2>1 DEF IInv, Copies, Kill
  <2> QED
    BY <2>2 DEF IInv, Flow, Copies, Kill, outside
<1>6. Fetching'
  BY DEF IInv, Kill, Fetching
<1>7. OkIsConfiguredSource'
  BY DEF Kill, OkIsConfiguredSource
<1>8. HealthyRunSucceeds'
  BY DEF Kill, HealthyRunSucceeds
<1> QED
  BY <1>1, <1>2, <1>3, <1>4, <1>5, <1>6, <1>7, <1>8 DEF IInv, TypeOK

LEMMA PublishStep == IInv /\ Publish => IInv'
<1> SUFFICES ASSUME IInv, Publish PROVE IInv'
  OBVIOUS
<1>1. OutsideTypes' /\ \A r \in Repo : upstream'[r] # None => upstream'[r].commit.repo = r
  <2>1. PICK r \in Repo :
          \/ /\ published < MaxVersion /\ published' = published + 1
             /\ \E kind \in {"branch", "tag"} :
                  upstream' = [upstream EXCEPT ![r] =
                    [kind |-> kind, commit |-> [repo |-> r, version |-> published']]]
          \/ /\ upstream[r] # None /\ UNCHANGED published
             /\ upstream' = [upstream EXCEPT ![r] = None]
    BY DEF Publish
  <2>2. UNCHANGED generated
    BY DEF Publish
  <2>3. CASE UNCHANGED published /\ upstream' = [upstream EXCEPT ![r] = None]
    BY <2>2, <2>3 DEF IInv, TypeOK, OutsideTypes, Copies
  <2>4. ASSUME published < MaxVersion, published' = published + 1,
               NEW kind \in {"branch", "tag"},
               upstream' = [upstream EXCEPT ![r] =
                 [kind |-> kind, commit |-> [repo |-> r, version |-> published']]]
        PROVE  /\ OutsideTypes'
               /\ \A q \in Repo : upstream'[q] # None => upstream'[q].commit.repo = q
    <3> DEFINE commit == [repo |-> r, version |-> published']
               ref    == [kind |-> kind, commit |-> commit]
    <3>1. published' \in 0..MaxVersion
      BY <2>4, MaxVersionAssumption DEF IInv, TypeOK, OutsideTypes
    <3>2. commit \in Commit /\ commit.repo = r
      BY <3>1 DEF Commit
    <3> HIDE DEF commit
    <3>3. ref \in Ref /\ ref.commit = commit
      BY <3>2 DEF Ref
    <3>4. upstream' = [upstream EXCEPT ![r] = ref]
      BY <2>4 DEF commit
    <3> HIDE DEF ref
    <3> QED
      BY <2>2, <3>1, <3>2, <3>3, <3>4 DEF IInv, TypeOK, OutsideTypes, Copies
  <2> QED
    BY <2>1, <2>3, <2>4
<1>2. FileTypes'
  BY DEF IInv, TypeOK, FileTypes, Publish, files
<1>3. RunTypes'
  BY DEF IInv, TypeOK, RunTypes, Publish, run
<1>4. Flow'
  BY DEF IInv, Publish, files, run, Flow
<1>5. Copies'
  BY <1>1 DEF IInv, Copies, Publish, files, run
<1>6. Fetching'
  BY DEF IInv, Publish, files, run, Fetching
<1>7. OkIsConfiguredSource'
  BY DEF IInv, Publish, files, run, OkIsConfiguredSource
<1>8. HealthyRunSucceeds'
  BY DEF IInv, Publish, files, run, HealthyRunSucceeds
<1> QED
  BY <1>1, <1>2, <1>3, <1>4, <1>5, <1>6, <1>7, <1>8 DEF IInv, TypeOK

\* The user works in a finished checkout.
LEMMA EditFacts ==
  ASSUME IInv, Edit
  PROVE  /\ pc = "idle" /\ result' = "none"
         /\ UNCHANGED <<outside, staging, backup, orphaned, pc, repository, fetched,
                        exists, seen, faults>>
         /\ dir \in Clone /\ dir' \in Clone /\ dir'.origin = dir.origin
         /\ dir'.remote = dir.remote /\ dir'.tag = dir.tag
         /\ dir'.branch = dir.branch /\ dir'.head = dir.head
<1>1. dir \in Clone
  BY DEF IInv, TypeOK, FileTypes, Edit, Complete
<1>2. dir' = [dir EXCEPT !.dirty = TRUE]
  BY DEF Edit
<1>3. /\ dir' \in Clone /\ dir'.origin = dir.origin
      /\ dir'.remote = dir.remote /\ dir'.tag = dir.tag
      /\ dir'.branch = dir.branch /\ dir'.head = dir.head
  BY <1>1, <1>2 DEF Clone
<1> QED
  BY <1>1, <1>3 DEF Edit

LEMMA EditStep == IInv /\ Edit => IInv'
<1> SUFFICES ASSUME IInv, Edit PROVE IInv'
  OBVIOUS
<1>1. OutsideTypes'
  BY EditFacts DEF IInv, TypeOK, OutsideTypes, outside
<1>2. FileTypes'
  BY EditFacts DEF IInv, TypeOK, FileTypes
<1>3. RunTypes'
  BY EditFacts DEF IInv, TypeOK, RunTypes
<1>4. Flow'
  BY EditFacts DEF IInv, Flow
<1>5. Copies'
  BY EditFacts DEF IInv, outside, Copies, OwnCommits
<1>6. Fetching'
  BY EditFacts DEF IInv, Fetching
<1>7. OkIsConfiguredSource'
  BY EditFacts DEF OkIsConfiguredSource
<1>8. HealthyRunSucceeds'
  BY EditFacts DEF HealthyRunSucceeds
<1> QED
  BY <1>1, <1>2, <1>3, <1>4, <1>5, <1>6, <1>7, <1>8 DEF IInv, TypeOK

\* What the steps that work inside the checkout leave of it: its origin, a
\* commit once it has one, and in an external checkout the user's files and
\* branch.
LEMMA InPlace ==
  ASSUME IInv, SetUrl \/ Fetch \/ Clean \/ CheckoutRemote \/ CheckoutPlain \/ Edit
  PROVE  /\ UNCHANGED <<staging, backup, orphaned, generated>>
         /\ dir' # None /\ dir'.origin = dir.origin
         /\ dir.head # None => dir'.head # None
         /\ ~generated /\ dir.dirty => dir'.dirty
         /\ ~generated /\ dir.branch # None => dir'.branch = dir.branch
<1> USE FieldTypes DEF IInv, Flow, outside
<1>1. CASE SetUrl
  BY <1>1, SetUrlFacts
<1>2. CASE Fetch
  BY <1>2, FetchFacts
<1>3. CASE Clean
  BY <1>3, CleanFacts
<1>4. CASE CheckoutRemote
  BY <1>4, CheckoutRemoteFacts DEF Fetching
<1>5. CASE CheckoutPlain
  BY <1>5, CheckoutPlainFacts
<1>6. CASE Edit
  BY <1>6, EditFacts DEF Edit
<1> QED
  BY <1>1, <1>2, <1>3, <1>4, <1>5, <1>6

\* The inductive step, and the invariant.
LEMMA Invariance == Spec => []IInv
<1>1. IInv /\ UNCHANGED vars => IInv'
  BY DEF IInv, TypeOK, OutsideTypes, FileTypes, RunTypes, Flow, Copies, Fetching,
    OkIsConfiguredSource, HealthyRunSucceeds, vars, outside, files, run
<1>2. IInv /\ [Next]_vars => IInv'
  BY <1>1, StartStep, CloneDirStep, ProbeOriginStep, StageCloneStep, PreserveOldStep,
    InstallNewStep, DiscardOldStep, SetUrlStep, FetchStep, VerifyStep, CleanStep,
    CheckoutRemoteStep, CheckoutPlainStep, KillStep, PublishStep, EditStep DEF Next,
    Ensure
<1> QED
  BY InitInv, <1>2, PTL DEF Spec

\* TypeOK: whatever is killed or fails, the checkout, its staged copy and its
\* backup stay repositories of the kind the code expects, or absent.
THEOREM TypeCorrect == Spec => []TypeOK
  BY Invariance, PTL DEF IInv

\* OkIsConfiguredSource: a run of ensure_checkout that returns Ok on a generated
\* checkout leaves a clean worktree at a commit of the configured repository,
\* and at the tip of a fetched branch, whatever earlier runs left.
THEOREM OkIsWhatWasAskedFor == Spec => []OkIsConfiguredSource
  BY Invariance, PTL DEF IInv

\* HealthyRunSucceeds: a run in which no command failed returns an error only
\* for a ref that is not there, for an external checkout of another repository,
\* or on what a kill in the middle of the first clone left.
THEOREM HealthyRunsSucceed == Spec => []HealthyRunSucceeds
  BY Invariance, PTL DEF IInv

\* Some complete copy of the sources is on the disk.
HasCopy == Complete(dir) \/ Complete(staging) \/ Complete(backup) \/ orphaned

\* CopySurvives: no step of a replacement, failed or killed anywhere, takes away
\* the last complete copy of the sources.
THEOREM ACopySurvives == Spec => CopySurvives
<1> DEFINE Held == Complete(dir) \/ Complete(backup) \/ orphaned
<1>1. IInv /\ [Next]_vars => [Held => HasCopy']_vars
  <2> SUFFICES ASSUME IInv, Held, [Next]_vars PROVE HasCopy'
    OBVIOUS
  <2> USE DEF HasCopy, Complete
  <2>1. CASE UNCHANGED files
    BY <2>1 DEF files
  <2>2. CASE Start \/ ProbeOrigin \/ Verify \/ Publish \/ UNCHANGED vars
    BY <2>1, <2>2 DEF Start, ProbeOrigin, Verify, Publish, vars
  <2>3. CASE CloneDir
    BY <2>3, CloneFacts DEF IInv, TypeOK, RunTypes, CloneDir
  <2>4. CASE StageClone
    BY <2>4 DEF StageClone
  <2>5. CASE PreserveOld
    BY <2>5 DEF IInv, Flow, PreserveOld
  <2>6. CASE InstallNew
    BY <2>6 DEF IInv, Flow, InstallNew
  <2>7. CASE DiscardOld
    BY <2>7 DEF IInv, Copies, DiscardOld
  <2>8. CASE SetUrl \/ Fetch \/ Clean \/ CheckoutRemote \/ CheckoutPlain \/ Edit
    BY <2>8, InPlace
  <2>9. CASE Kill
    BY <2>9 DEF IInv, Flow, Kill
  <2> QED
    BY <2>2, <2>3, <2>4, <2>5, <2>6, <2>7, <2>8, <2>9 DEF Next, Ensure
<1> QED
  BY <1>1, Invariance, PTL DEF Spec, CopySurvives, HasCopy

\* ExternalPreserved: a checkout that the harness did not generate keeps its
\* origin, the user's edits and the commit of an existing local branch.
THEOREM ExternalIsPreserved == Spec => ExternalPreserved
<1> DEFINE Preserved == /\ dir' # None /\ dir'.origin = dir.origin
                        /\ dir.dirty => dir'.dirty
                        /\ dir.branch # None => dir'.branch = dir.branch
<1>1. IInv /\ [Next]_vars => [~generated /\ dir # None => Preserved]_vars
  <2> SUFFICES ASSUME IInv, [Next]_vars, ~generated, dir # None PROVE Preserved
    OBVIOUS
  <2>1. CASE SetUrl \/ Fetch \/ Clean \/ CheckoutRemote \/ CheckoutPlain \/ Edit
    BY <2>1, InPlace
  <2>2. CASE CloneDir \/ StageClone \/ PreserveOld \/ InstallNew \/ DiscardOld
    BY <2>2 DEF IInv, Flow, CloneDir, StageClone, PreserveOld, InstallNew, DiscardOld
  <2>3. CASE Start \/ ProbeOrigin \/ Verify \/ Kill \/ Publish \/ UNCHANGED vars
    BY <2>3 DEF IInv, Flow, Start, ProbeOrigin, Verify, Kill, Publish, vars, files
  <2> QED
    BY <2>1, <2>2, <2>3 DEF Next, Ensure
<1> QED
  BY <1>1, Invariance, PTL DEF Spec, ExternalPreserved

-----------------------------------------------------------------------------
(***************************************************************************)
(* LocalSecrets, for any set of commands: type correctness, OneSecret and  *)
(* StoredSecretStays.                                                      *)
(***************************************************************************)
\* Returned secrets were readable; and a command that is about to write finds
\* the file it created as it created it, unless a removal took it away.
Readable ==
  \A c \in Command : load_pc[c] = "ok" => Parses(value[c])

WriterOwnsFile ==
  \A c \in Command : load_pc[c] = "write" =>
    /\ ~harmful => file # Absent /\ file.by = c
    /\ file # Absent /\ file.by = c => file.part = "empty"

SecretsInv == SecretsTypeOK /\ Readable /\ WriterOwnsFile /\ OneSecret

-----------------------------------------------------------------------------
\* Every step of a command and of the operator keeps the types.
LEMMA SecretsTypeStep == SecretsTypeOK /\ [SecretsNext]_secretsVars => SecretsTypeOK'
<1> SUFFICES ASSUME SecretsTypeOK, [SecretsNext]_secretsVars PROVE SecretsTypeOK'
  OBVIOUS
<1> USE DEF SecretsTypeOK, Live
<1>1. CASE Remove
  BY <1>1 DEF Remove
<1>2. ASSUME NEW c \in Command, Read(c) PROVE SecretsTypeOK'
  BY <1>2 DEF Read, Parse, Parses, Return, Move
<1>3. ASSUME NEW c \in Command, Create(c) PROVE SecretsTypeOK'
  BY <1>3 DEF Create, Move, Contents
<1>4. ASSUME NEW c \in Command, Write(c) PROVE SecretsTypeOK'
  BY <1>4 DEF Write, Store, Return, Move, Contents
<1>5. ASSUME NEW c \in Command, Reread(c) PROVE SecretsTypeOK'
  BY <1>5 DEF Reread, Parse, Parses, Return, Move
<1>6. ASSUME NEW c \in Command, KillLoad(c) PROVE SecretsTypeOK'
  BY <1>6 DEF KillLoad, Move
<1>7. CASE UNCHANGED secretsVars
  BY <1>7 DEF secretsVars
<1> QED
  BY <1>1, <1>2, <1>3, <1>4, <1>5, <1>6, <1>7 DEF SecretsNext, Load

\* Reading the file, or failing to: the caller is at `read' or at `reread'.
LEMMA ParseStep ==
  ASSUME SecretsInv, NEW c \in Command, Parse(c), UNCHANGED <<file, harmful>>
  PROVE  (Readable /\ WriterOwnsFile /\ OneSecret)'
BY DEF SecretsInv, SecretsTypeOK, Live, Parse, Parses, Return, Move, Readable,
       WriterOwnsFile, OneSecret

\* The inductive step.
LEMMA SecretsStep == SecretsInv /\ [SecretsNext]_secretsVars => SecretsInv'
<1> DEFINE Goal == Readable /\ WriterOwnsFile /\ OneSecret
<1> SUFFICES ASSUME SecretsInv, [SecretsNext]_secretsVars PROVE Goal'
  BY SecretsTypeStep DEF SecretsInv
<1>1. CASE Remove
  \* A file that parses, or whose writer is alive, makes the removal harmful.
  <2>1. Readable'
    BY <1>1 DEF Remove, SecretsInv, Readable, Parses
  <2>2. WriterOwnsFile'
    BY <1>1 DEF Remove, SecretsInv, SecretsTypeOK, WriterOwnsFile
  <2>3. OneSecret'
    BY <1>1 DEF Remove, SecretsInv, SecretsTypeOK, Readable, OneSecret
  <2> QED
    BY <2>1, <2>2, <2>3
<1>2. ASSUME NEW c \in Command, Read(c) PROVE Goal'
  <2>1. CASE Parse(c)
    BY <1>2, <2>1, ParseStep DEF Read
  <2>2. CASE file = Absent /\ Move(c, "create") /\ UNCHANGED value
    BY <1>2, <2>2 DEF Read, Move, SecretsInv, SecretsTypeOK, Readable, WriterOwnsFile,
                      OneSecret, Parses
  <2> QED
    BY <1>2, <2>1, <2>2 DEF Read
<1>3. ASSUME NEW c \in Command, Create(c) PROVE Goal'
  \* The file is absent: nobody else is writing, and nobody has succeeded yet.
  <2>1. Readable'
    BY <1>3 DEF Create, Move, SecretsInv, SecretsTypeOK, Readable, Parses
  <2>2. WriterOwnsFile'
    BY <1>3, AbsentAssumption DEF Create, Move, SecretsInv, SecretsTypeOK, WriterOwnsFile, Contents
  <2>3. OneSecret'
    BY <1>3 DEF Create, Move, SecretsInv, SecretsTypeOK, Readable, OneSecret, Parses
  <2> QED
    BY <2>1, <2>2, <2>3
<1>4. ASSUME NEW c \in Command, Write(c) PROVE Goal'
  \* The file the command created is still empty: nobody has returned it.
  <2>1. Readable'
    BY <1>4, AbsentAssumption DEF Write, Return, Move, SecretsInv, SecretsTypeOK, Readable,
                                  Parses, Contents
  <2>2. WriterOwnsFile'
    BY <1>4, AbsentAssumption DEF Write, Store, Return, Move, SecretsInv, SecretsTypeOK,
                                  WriterOwnsFile, Contents
  <2>3. OneSecret'
    BY <1>4, AbsentAssumption DEF Write, Store, Return, Move, SecretsInv, SecretsTypeOK,
                     Readable, Parses, WriterOwnsFile, OneSecret, Contents
  <2> QED
    BY <2>1, <2>2, <2>3
<1>5. ASSUME NEW c \in Command, Reread(c) PROVE Goal'
  BY <1>5, ParseStep DEF Reread
<1>6. ASSUME NEW c \in Command, KillLoad(c) PROVE Goal'
  BY <1>6 DEF KillLoad, Move, Live, SecretsInv, SecretsTypeOK, Readable, WriterOwnsFile,
              OneSecret, Parses
<1>7. CASE UNCHANGED secretsVars
  BY <1>7 DEF secretsVars, SecretsInv, Readable, WriterOwnsFile, OneSecret, Parses
<1> QED
  BY <1>1, <1>2, <1>3, <1>4, <1>5, <1>6, <1>7 DEF SecretsNext, Load

\* The invariant holds throughout, whatever the commands and the operator do.
THEOREM SecretsInvariance == SecretsSpec => []SecretsInv
<1>1. SecretsInit => SecretsInv
  BY AbsentAssumption DEF SecretsInit, SecretsInv, SecretsTypeOK, Live, Readable, WriterOwnsFile,
                          OneSecret
<1> QED
  BY <1>1, SecretsStep, PTL DEF SecretsSpec

\* SecretsTypeOK: the variables of load_or_create_local_secrets stay well formed.
THEOREM SecretsTypeCorrect == SecretsSpec => []SecretsTypeOK
BY SecretsInvariance, PTL DEF SecretsInv

\* OneSecret: without a harmful removal all commands that succeed, and all later
\* ones, use the secrets in the file.
THEOREM CommandsAgree == SecretsSpec => []OneSecret
BY SecretsInvariance, PTL DEF SecretsInv

\* StoredSecretStays: no command changes secrets another one has returned.
THEOREM NoOverwrite == SecretsSpec => StoredSecretStays
<1>1. SecretsInv /\ [SecretsNext]_secretsVars =>
        [\A c \in Command : load_pc[c] = "ok" /\ value[c] = file
           => file' \in {file, Absent}]_secretsVars
  <2> SUFFICES ASSUME SecretsInv, [SecretsNext]_secretsVars,
                      NEW c \in Command, load_pc[c] = "ok", value[c] = file
               PROVE  file' \in {file, Absent}
    OBVIOUS
  <2>1. Parses(file)
    BY DEF SecretsInv, Readable
  <2>2. ASSUME NEW d \in Command, Write(d) PROVE file' = file
    BY <2>1, <2>2 DEF Write, Store, SecretsInv, WriterOwnsFile, Parses
  <2>3. ASSUME NEW d \in Command, Create(d) PROVE file' = file
    BY <2>1, <2>3 DEF Create, Parses
  <2> QED
    BY <2>2, <2>3 DEF SecretsNext, Load, Remove, Read, Reread, KillLoad, secretsVars
<1> QED
  BY <1>1, SecretsInvariance, PTL DEF SecretsSpec, StoredSecretStays

=============================================================================
