---------------------------- MODULE SourceCheckout ----------------------------
(***************************************************************************)
(* CheckoutManager::ensure (src/crates/platform/src/checkout.rs): brings   *)
(* one source checkout to the configured repository and ref before a stack *)
(* is built from it.  A checkout under the integration directory is        *)
(* generated, and may be reset or replaced; any other one is external and  *)
(* belongs to the developer.                                               *)
(*                                                                         *)
(* Runs follow each other, each with its own configured repository; any    *)
(* Git command or rename may fail and the process may be killed at any     *)
(* point.  Git itself is external: what its commands do to a repository is *)
(* modelled for the one configured ref name.                               *)
(***************************************************************************)
EXTENDS Naturals

CONSTANTS
  Repo,         \* repositories a run may be configured with
  MaxVersion,   \* bound on the commits upstream publishes
  None          \* absent ref, commit, directory or origin

ASSUME RepoAssumption == Repo # {}
ASSUME MaxVersionAssumption == MaxVersion \in Nat

VARIABLES
  upstream,     \* what each repository publishes under the ref's name
  published,    \* commits published so far
  generated,    \* the checkout lies inside the integration directory
  dir, staging, backup,   \* repositories at the checkout's path and beside it
  orphaned,     \* a complete clone was left under a name nobody looks at again
  pc, repository, fetched,
  exists,       \* remote_branch_exists
  seen,         \* history: upstream ref of this run's successful fetch
  faults,       \* history: an external command of this run failed
  result

files   == <<dir, staging, backup, orphaned>>
outside == <<upstream, published, generated>>
run     == <<pc, repository, fetched, exists, seen, faults, result>>
vars    == <<outside, files, run>>

-----------------------------------------------------------------------------
\* Version 0 is the tip of a default branch with another name.
Commit == [repo : Repo, version : 0..MaxVersion]
Ref    == [kind : {"branch", "tag"}, commit : Commit]

\* One Git repository with its worktree: origin URL, refs/remotes/origin/R,
\* refs/tags/R, refs/heads/R, HEAD (None when unborn), uncommitted changes.
Clone == [origin : Repo \cup {None}, remote : Commit \cup {None},
          tag : Commit \cup {None}, branch : Commit \cup {None},
          head : Commit \cup {None}, dirty : BOOLEAN]

ASSUME NoneAssumption == None \notin Repo \cup Commit \cup Ref \cup Clone

OutsideTypes ==
  /\ upstream \in [Repo -> Ref \cup {None}]
  /\ published \in 0..MaxVersion
  /\ generated \in BOOLEAN

FileTypes ==
  /\ dir \in Clone \cup {None}
  /\ staging \in Clone \cup {None} /\ backup \in Clone \cup {None}
  /\ orphaned \in BOOLEAN

RunTypes ==
  /\ pc \in {"idle", "clone", "origin", "stage", "preserve", "install",
             "discard", "set_url", "fetch", "verify", "clean", "checkout", "clean_again"}
  /\ repository \in Repo
  /\ fetched \in BOOLEAN /\ exists \in BOOLEAN /\ faults \in BOOLEAN
  /\ seen \in Ref \cup {None}
  /\ result \in {"none", "ok", "err"}

TypeOK == OutsideTypes /\ FileTypes /\ RunTypes

\* Mutant: the name of the ref instead of its commit.
RemoteRef(ref) == ref

RemoteOf(ref) == IF ref # None /\ ref.kind = "branch" THEN ref.commit ELSE None
TagOf(ref)    == IF ref # None /\ ref.kind = "tag" THEN ref.commit ELSE None

\* A killed clone has no commit checked out.
Complete(c) == c # None /\ c.head # None

Init ==
  /\ upstream \in [Repo -> {None}] /\ published = 0
  /\ generated \in BOOLEAN
  /\ dir = None /\ staging = None /\ backup = None /\ orphaned = FALSE
  /\ pc = "idle" /\ repository \in Repo
  /\ fetched = FALSE /\ exists = FALSE /\ seen = None /\ faults = FALSE /\ result = "none"

-----------------------------------------------------------------------------
\* Git.  The ref may be the default branch, which a clone checks out.

FreshClones(repo) ==
  LET ref  == upstream[repo]
      tip  == [repo |-> repo, version |-> 0]
      with(branch, head) ==
        [origin |-> repo, remote |-> RemoteOf(ref), tag |-> TagOf(ref),
         branch |-> branch, head |-> head, dirty |-> FALSE]
  IN {with(None, tip)} \cup
     {with(c, c) : c \in {RemoteOf(ref)} \ {None}}

\* What SIGKILL leaves of a clone, before or after the origin was configured.
KilledClones(repo) ==
  {[origin |-> o, remote |-> None, tag |-> None, branch |-> None,
    head |-> None, dirty |-> FALSE] : o \in {repo, None}}

\* `git checkout R` prefers a local branch to a tag of the same name, and
\* creates the branch from the remote one when there is neither.
Plain(c) ==
  IF c.branch # None THEN c.branch ELSE IF c.tag # None THEN c.tag ELSE c.remote

-----------------------------------------------------------------------------
\* One run of ensure.

Goto(step) == pc' = step /\ UNCHANGED <<repository, fetched, exists, seen, faults, result>>

Fails == /\ pc' = "idle" /\ result' = "err" /\ faults' = TRUE
         /\ UNCHANGED <<repository, fetched, exists, seen>>

\* The error is the code's own decision, not a command's failure.
Rejects == /\ pc' = "idle" /\ result' = "err"
           /\ UNCHANGED <<repository, fetched, exists, seen, faults>>

Start ==
  /\ pc = "idle"
  /\ repository' \in Repo
  /\ pc' = IF dir = None THEN "clone" ELSE "origin"
  /\ fetched' = FALSE /\ exists' = FALSE /\ seen' = None
  /\ faults' = FALSE /\ result' = "none"
  /\ UNCHANGED <<outside, files>>

\* A clone that fails removes what it made.
CloneDir ==
  /\ pc = "clone"
  /\ \/ dir' \in FreshClones(repository) /\ Goto("origin")
     \/ Fails /\ UNCHANGED dir
  /\ UNCHANGED <<outside, staging, backup, orphaned>>

\* Mutant: a generated checkout is kept, only its origin is changed.
ProbeOriginIgnored ==
  /\ pc = "origin"
  /\ \/ generated /\ Goto("set_url")
     \/ ~generated /\ dir.origin = repository /\ Goto("fetch")
     \/ ~generated /\ dir.origin # repository /\ Rejects
  /\ UNCHANGED <<outside, files>>

\* origin_match_probe: a probe that fails counts as another repository.
ProbeOrigin ==
  /\ pc = "origin"
  /\ \/ /\ dir.origin = repository
        /\ Goto(IF generated THEN "set_url" ELSE "fetch")
     \/ dir.origin # repository /\ generated /\ Goto("stage")
     \/ dir.origin # repository /\ ~generated /\ Rejects
     \/ /\ generated /\ pc' = "stage" /\ faults' = TRUE
        /\ UNCHANGED <<repository, fetched, exists, seen, result>>
     \/ ~generated /\ Fails
  /\ UNCHANGED <<outside, files>>

\* Mutant: the old checkout is deleted before the new one is cloned.
StageCloneAfterDelete ==
  /\ pc = "stage" /\ dir' = None
  /\ \/ staging' \in FreshClones(repository) /\ Goto("preserve")
     \/ Fails /\ UNCHANGED staging
  /\ UNCHANGED <<outside, backup, orphaned>>

\* replace_generated_checkout: clone beside, move away, move in, delete.
StageClone ==
  /\ pc = "stage"
  /\ \/ staging' \in FreshClones(repository) /\ Goto("preserve")
     \/ Fails /\ UNCHANGED staging
  /\ UNCHANGED <<outside, dir, backup, orphaned>>

PreserveOld ==
  /\ pc = "preserve"
  /\ \/ dir' = None /\ backup' = dir /\ Goto("install") /\ UNCHANGED staging
     \/ staging' = None /\ Fails /\ UNCHANGED <<dir, backup>>
  /\ UNCHANGED <<outside, orphaned>>

InstallNew ==
  /\ pc = "install"
  /\ \/ /\ dir' = staging /\ staging' = None
        /\ Goto("discard") /\ UNCHANGED <<backup, orphaned>>
     \/ /\ dir' = backup /\ backup' = None /\ staging' = None      \* restored
        /\ Fails /\ UNCHANGED orphaned
     \/ /\ orphaned' = TRUE /\ backup' = None /\ staging' = None   \* nor that
        /\ Fails /\ UNCHANGED dir
  /\ UNCHANGED outside

DiscardOld ==
  /\ pc = "discard"
  /\ backup' = None
  /\ Goto("set_url") \/ Fails
  /\ UNCHANGED <<outside, dir, staging, orphaned>>

\* origin_set_command, for a generated checkout.
SetUrl ==
  /\ pc = "set_url"
  /\ \/ dir' = [dir EXCEPT !.origin = repository] /\ Goto("fetch")
     \/ Fails /\ UNCHANGED dir
  /\ UNCHANGED <<outside, staging, backup, orphaned>>

\* git fetch --prune --tags --force; only a generated checkout prunes tags.  A
\* failure is a warning.
Fetch ==
  /\ pc = "fetch"
  /\ pc' = "verify"
  /\ \/ LET ref == upstream[repository]
            tag == IF TagOf(ref) = None /\ ~generated THEN dir.tag ELSE TagOf(ref)
        IN /\ dir' = [dir EXCEPT !.remote = RemoteOf(ref), !.tag = tag]
           /\ seen' = ref
           /\ fetched' = TRUE /\ UNCHANGED faults
     \/ fetched' = FALSE /\ faults' = TRUE /\ UNCHANGED <<dir, seen>>
  /\ UNCHANGED <<outside, staging, backup, orphaned, repository, exists, result>>

Accepted(branch, next) ==
  /\ pc' = next /\ exists' = branch
  /\ UNCHANGED <<repository, fetched, seen, result>>

\* Mutants: tags are not probed; external worktrees are cleaned as well.
VerifyBranchOnly ==
  /\ pc = "verify"
  /\ IF fetched /\ dir.remote = None
       THEN Rejects
       ELSE /\ Accepted(dir.remote # None, IF generated THEN "clean" ELSE "checkout")
            /\ UNCHANGED faults
  /\ UNCHANGED <<outside, files>>

VerifyThenClean ==
  /\ pc = "verify"
  /\ IF fetched /\ dir.remote = None /\ dir.tag = None
       THEN Rejects
       ELSE Accepted(dir.remote # None, "clean") /\ UNCHANGED faults
  /\ UNCHANGED <<outside, files>>

\* The remote branch probe and verified_nonbranch_ref: a probe that fails counts
\* as an absent ref.
Verify ==
  LET answers(ref) == {ref # None, FALSE} IN
  /\ pc = "verify"
  /\ \E branch \in answers(dir.remote), tag \in answers(dir.tag) :
       /\ faults' = (faults \/ branch # (dir.remote # None) \/ tag # (dir.tag # None))
       /\ IF fetched /\ ~branch /\ ~tag
            THEN /\ pc' = "idle" /\ result' = "err"
                 /\ UNCHANGED <<repository, fetched, exists, seen>>
            ELSE Accepted(branch, IF generated THEN "clean" ELSE "checkout")
  /\ UNCHANGED <<outside, files>>

\* git reset --hard HEAD, which needs a HEAD, and git clean.
Clean ==
  /\ pc \in {"clean", "clean_again"}
  /\ \/ /\ dir.head # None
        /\ dir' = [dir EXCEPT !.dirty = FALSE]
        /\ IF pc = "clean"
             THEN Goto("checkout")
             ELSE /\ pc' = "idle" /\ result' = "ok"
                  /\ UNCHANGED <<repository, fetched, exists, seen, faults>>
     \/ dir.head = None /\ Rejects /\ UNCHANGED dir
     \/ Fails /\ UNCHANGED dir
  /\ UNCHANGED <<outside, staging, backup, orphaned>>

\* Mutant: a plain checkout keeps the local branch where it was.
CheckoutWithoutReset ==
  /\ pc = "checkout" /\ generated /\ exists
  /\ \/ /\ dir' = [dir EXCEPT !.branch = Plain(dir), !.head = Plain(dir)]
        /\ Goto("clean_again")
     \/ Fails /\ UNCHANGED dir
  /\ UNCHANGED <<outside, staging, backup, orphaned>>

\* checkout -B R origin/R for a generated checkout of a remote branch.
CheckoutRemote ==
  /\ pc = "checkout" /\ generated /\ exists
  /\ \/ /\ dir' = [dir EXCEPT !.branch = dir.remote, !.head = dir.remote]
        /\ Goto("clean_again")
     \/ Fails /\ UNCHANGED dir
  /\ UNCHANGED <<outside, staging, backup, orphaned>>

\* checkout R everywhere else; local changes survive it or make it fail.
CheckoutPlain ==
  /\ pc = "checkout" /\ (~generated \/ ~exists)
  /\ \/ /\ Plain(dir) # None
        /\ dir' = [dir EXCEPT
             !.head = Plain(dir),
             !.branch = IF dir.branch = None /\ dir.tag = None
                          THEN dir.remote ELSE @]
        /\ IF generated THEN Goto("clean_again")
           ELSE /\ pc' = "idle" /\ result' = "ok"
                /\ UNCHANGED <<repository, fetched, exists, seen, faults>>
     \/ Plain(dir) = None /\ Rejects /\ UNCHANGED dir
     \/ Fails /\ UNCHANGED dir
  /\ UNCHANGED <<outside, staging, backup, orphaned>>

Ensure ==
  \/ Start \/ CloneDir \/ ProbeOrigin
  \/ StageClone \/ PreserveOld \/ InstallNew \/ DiscardOld \/ SetUrl
  \/ Fetch \/ Verify \/ Clean \/ CheckoutRemote \/ CheckoutPlain

-----------------------------------------------------------------------------
\* The process, or the machine, goes down.  The siblings of the checkout have
\* unique names: no later run looks at them.
Kill ==
  /\ pc # "idle"
  /\ pc' = "idle" /\ result' = "none"
  /\ \/ pc = "clone" /\ dir' \in KilledClones(repository)
     \/ UNCHANGED dir
  /\ staging' = None /\ backup' = None
  /\ orphaned' = (orphaned \/ Complete(staging) \/ Complete(backup))
  /\ UNCHANGED <<outside, repository, fetched, exists, seen, faults>>

\* Upstream moves, creates, deletes the ref or turns a branch into a tag.
Publish ==
  /\ \E r \in Repo :
       \/ /\ published < MaxVersion /\ published' = published + 1
          /\ \E kind \in {"branch", "tag"} :
               upstream' = [upstream EXCEPT ![r] =
                 [kind |-> kind, commit |-> [repo |-> r, version |-> published']]]
       \/ /\ upstream[r] # None /\ UNCHANGED published
          /\ upstream' = [upstream EXCEPT ![r] = None]
  /\ UNCHANGED <<generated, files, run>>

\* The developer edits the worktree between runs.
Edit ==
  /\ pc = "idle" /\ Complete(dir) /\ ~dir.dirty
  /\ dir' = [dir EXCEPT !.dirty = TRUE]
  /\ result' = "none"
  /\ UNCHANGED <<outside, staging, backup, orphaned, pc, repository, fetched,
                 exists, seen, faults>>

Next == Ensure \/ Kill \/ Publish \/ Edit

Spec == Init /\ [][Next]_vars

-----------------------------------------------------------------------------
\* Properties.

\* Whatever refs, edits and half-done replacements earlier runs left: a run that
\* returns Ok on a generated checkout leaves a clean worktree at a commit of the
\* repository it was configured with, and after a successful fetch of a branch at
\* the branch's fetched tip.
OkIsConfiguredSource ==
  result = "ok" /\ generated =>
    /\ dir.origin = repository /\ dir.head.repo = repository /\ ~dir.dirty
    /\ seen # None /\ seen.kind = "branch" => dir.head = seen.commit

\* A run in which every command succeeds and whose ref is published returns Ok,
\* except on what a kill in the middle of the first clone left behind, or on
\* an external checkout of another repository.
HealthyRunSucceeds ==
  result = "err" /\ ~faults =>
    \/ seen = None /\ fetched
    \/ ~generated /\ dir.origin # repository
    \/ generated /\ ~Complete(dir)

\* From the first complete checkout on, one complete copy is on disk at every
\* moment, also when the clone or a rename of a replacement fails or the process
\* is killed in between.
CopySurvives ==
  [][Complete(dir) \/ Complete(backup) \/ orphaned
       => (Complete(dir) \/ Complete(staging) \/ Complete(backup) \/ orphaned)']_vars

\* In an external checkout, no step discards local changes, moves an existing
\* local branch or points origin elsewhere.
ExternalPreserved ==
  [][~generated /\ dir # None =>
       /\ dir' # None /\ dir'.origin = dir.origin
       /\ dir.dirty => dir'.dirty
       /\ dir.branch # None => dir'.branch = dir.branch]_vars

\* checkout.rs:227 "Ensures one configured source checkout exists at the
\* requested ref."
OkAtRequestedRef ==
  result = "ok" /\ generated /\ seen # None => dir.head = seen.commit

=============================================================================
