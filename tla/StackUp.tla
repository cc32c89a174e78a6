------------------------------- MODULE StackUp -------------------------------
(***************************************************************************)
(* `cf-integration stack up --topology dataplane`, the images' side        *)
(* (stack_up in src/src/runtime/stack.rs; resolve_build and                *)
(* FreshnessSnapshot in src/crates/platform/src/stack.rs): synchronise the *)
(* checkouts, decide whether Compose has to build, pull what was           *)
(* published, and run `compose up` unless the running stack is current.    *)
(*                                                                         *)
(* Commands follow each other, each with its own configuration, and may be *)
(* killed between any two steps.  Every Docker or Git command may fail.    *)
(* An inspection that fails is an absent fact, not an error.  Meanwhile    *)
(* the registry publishes, containers die and unused images are removed.   *)
(*                                                                         *)
(* A source revision stands for the code, the label of an image built from *)
(* it and the digest of the image published for it.                        *)
(***************************************************************************)
EXTENDS Naturals

CONSTANTS
  MaxRevision,   \* bound on the source revisions
  None           \* absent image, container, revision or digest

ASSUME RevisionAssumption == MaxRevision \in Nat

VARIABLES
  registry,      \* revision whose images are published now
  head,          \* HEAD of the dataplane checkout
  images,        \* local image under each name
  containers,    \* image name and image of each service's container
  healthy,       \* other services run, set-up jobs ended well
  fast_test,     \* a Fast Test container exists
  source,        \* CF_DATAPLANE_REF is set
  setting,       \* CF_COMPOSE_BUILD
  restart,       \* --fresh, CF_FORCE_STACK_RESTART or neither
  pc, part,      \* part: the image being pulled; pc "done": succeeded
  build,         \* resolve_build's decision
  seen           \* history: remote digests this command inspected

world   == <<registry, head, images, containers, healthy, fast_test>>
config  == <<source, setting, restart>>
command == <<config, pc, part, build, seen>>
vars    == <<world, command>>

-----------------------------------------------------------------------------
Revision == 0..MaxRevision
Part     == {"gateway", "dataplane"}
Image    == [kind : {"built", "pulled"}, rev : Revision]

\* Image names: both published ones, and the tag of local dataplane builds.
Name     == {"gateway", "published", "local"}

\* The control plane's source revision decides nothing: its image counts as
\* prebuilt in every configuration.  Its local builds are all revision 0.
BuiltGateway == [kind |-> "built", rev |-> 0]

ImagesOf(name) ==
  CASE name = "gateway"   -> [kind : {"pulled"}, rev : Revision] \cup {BuiltGateway}
    [] name = "published" -> [kind : {"pulled"}, rev : Revision]
    [] name = "local"     -> [kind : {"built"}, rev : Revision]

NamesOf(p) == IF p = "gateway" THEN {"gateway"} ELSE {"published", "local"}

Container == [name : Name, image : Image]

ASSUME NoneAssumption == None \notin Nat \cup Image \cup Container

ContainersOf(p) ==
  {None} \cup UNION {{[name |-> n, image |-> i] : i \in ImagesOf(n)} : n \in NamesOf(p)}

Stopped == pc \in {"idle", "done"}

WorldTypes ==
  /\ registry \in Revision /\ head \in Revision
  /\ \A n \in Name : images[n] \in ImagesOf(n) \cup {None}
  /\ \A p \in Part : containers[p] \in ContainersOf(p)
  /\ DOMAIN images = Name /\ DOMAIN containers = Part
  /\ healthy \in BOOLEAN /\ fast_test \in BOOLEAN

CommandTypes ==
  /\ source \in BOOLEAN
  /\ setting \in {"auto", "always", "never"}
  /\ restart \in {"no", "force", "fresh"}
  /\ pc \in {"sources", "resolve", "inspect", "pull", "decide", "reset",
             "exclusive", "compose_up", "ready", "done", "idle"}
  /\ part \in Part
  /\ build \in BOOLEAN
  /\ seen \in [Part -> Revision \cup {None}]

TypeOK == WorldTypes /\ CommandTypes

\* Whatever earlier commands, other tools and Docker left behind.
Init ==
  /\ registry \in Revision /\ head \in Revision
  /\ images \in {f \in [Name -> UNION {ImagesOf(n) : n \in Name} \cup {None}] :
                   \A n \in Name : f[n] \in ImagesOf(n) \cup {None}}
  /\ \E g \in ContainersOf("gateway"), d \in ContainersOf("dataplane") :
       containers = [p \in Part |-> IF p = "gateway" THEN g ELSE d]
  /\ healthy \in BOOLEAN /\ fast_test \in BOOLEAN
  /\ healthy => \A p \in Part : containers[p] # None
  /\ source = FALSE /\ setting = "auto" /\ restart = "no"
  /\ pc = "idle" /\ part = "gateway" /\ build = FALSE
  /\ seen = [p \in Part |-> None]

-----------------------------------------------------------------------------
\* Configuration: the image each service runs, and which of them is pulled.

ImageName(p) ==
  IF p = "gateway" THEN "gateway" ELSE IF source THEN "local" ELSE "published"

Prebuilt(p) == p = "gateway" \/ ~source

\* matching_revision: an absent revision matches nothing.
Matching(image) == image # None /\ image.rev = head

-----------------------------------------------------------------------------
\* The command.

Goto(step) == pc' = step /\ UNCHANGED <<config, part, build, seen>>

\* The process returns an error, and its memory is gone.
Fail == /\ pc' = "idle" /\ part' = "gateway" /\ build' = FALSE
        /\ seen' = [p \in Part |-> None]
        /\ source' = FALSE /\ setting' = "auto" /\ restart' = "no"

Start ==
  /\ Stopped
  /\ source' \in BOOLEAN /\ setting' \in {"auto", "always", "never"}
  /\ restart' \in {"no", "force", "fresh"}
  /\ pc' = "sources" /\ part' = "gateway" /\ build' = FALSE
  /\ seen' = [p \in Part |-> None]
  /\ UNCHANGED world

\* ensure_mode_sources follows wherever the ref points now; then the Compose
\* contract is validated.
Sources ==
  /\ pc = "sources"
  /\ IF source THEN head' \in Revision ELSE UNCHANGED head
  /\ Goto("resolve") \/ Fail
  /\ UNCHANGED <<registry, images, containers, healthy, fast_test>>

\* resolve_build: an image that cannot be inspected counts as missing.
Resolve ==
  /\ pc = "resolve"
  /\ \/ /\ \E image \in {images[ImageName("dataplane")], None} :
             build' = \/ setting = "always"
                      \/ setting = "auto" /\ source /\ ~Matching(image)
        /\ pc' = "inspect" /\ UNCHANGED <<config, part, seen>>
     \/ Fail
  /\ UNCHANGED world

PartDone ==
  IF part = "gateway" /\ Prebuilt("dataplane")
  THEN pc' = "inspect" /\ part' = "dataplane"
  ELSE pc' = "decide" /\ UNCHANGED part

\* pull_if_changed, up to the pull.  Locally built images have no digest.
Inspect ==
  LET local == images[ImageName(part)]
  IN /\ pc = "inspect"
     /\ \E remote \in {registry, None}, present \in {local # None, FALSE},
           digest \in {None} \cup (IF local # None /\ local.kind = "pulled"
                                   THEN {local.rev} ELSE {}) :
          /\ seen' = [seen EXCEPT ![part] = remote]
          /\ IF (remote # None /\ digest = remote) \/ (remote = None /\ present)
             THEN PartDone
             ELSE pc' = "pull" /\ UNCHANGED part
     /\ UNCHANGED <<config, build, world>>

\* docker pull: what the registry has by now.
Pull ==
  /\ pc = "pull"
  /\ \/ /\ images' = [images EXCEPT ![ImageName(part)] =
                        [kind |-> "pulled", rev |-> registry]]
        /\ PartDone /\ UNCHANGED <<config, build, seen>>
     \/ Fail /\ UNCHANGED images
  /\ UNCHANGED <<registry, head, containers, healthy, fast_test>>

-----------------------------------------------------------------------------
\* Freshness.

\* The facts of FreshnessSnapshot, of which the failing inspections' are absent.
Snapshot(failing) ==
  [healthy    |-> healthy /\ "services" \notin failing,
   containers |-> [p \in Part |-> IF p \in failing THEN None ELSE containers[p]],
   images     |-> [n \in Name |-> IF "images" \in failing THEN None ELSE images[n]],
   fast_test  |-> fast_test /\ "fast_test" \notin failing]

\* Mutant: the container's image name is compared, its image is not.
UsesNamedImage(snapshot, p) ==
  snapshot.containers[p] # None /\ snapshot.containers[p].name = ImageName(p)

UsesConfiguredImage(snapshot, p) ==
  LET c == snapshot.containers[p]
  IN /\ c # None /\ c.name = ImageName(p)
     /\ snapshot.images[c.name] # None /\ c.image = snapshot.images[c.name]

\* FreshnessSnapshot::evaluate = Current.
Current(snapshot) ==
  /\ snapshot.healthy
  /\ \A p \in Part : UsesConfiguredImage(snapshot, p)
  /\ ~snapshot.fast_test
  /\ source => Matching(snapshot.containers["dataplane"].image)

MaySkip == restart = "no" /\ ~build

Decide ==
  /\ pc = "decide"
  /\ \E failing \in SUBSET {"services", "gateway", "dataplane", "images", "fast_test"} :
       Goto(CASE MaySkip /\ Current(Snapshot(failing)) -> "ready"
              [] restart = "fresh"                     -> "reset"
              [] OTHER                                 -> "exclusive")
  /\ UNCHANGED world

-----------------------------------------------------------------------------
\* Reset, compose up, readiness.

\* cleanup(Reset): a failure may leave any of the containers.
Reset ==
  /\ pc = "reset"
  /\ \/ /\ containers' = [p \in Part |-> None] /\ fast_test' = FALSE
        /\ Goto("exclusive")
     \/ /\ \E gone \in SUBSET Part :
             containers' = [p \in Part |-> IF p \in gone THEN None ELSE containers[p]]
        /\ fast_test' \in {fast_test, FALSE}
        /\ Fail
  /\ healthy' = FALSE
  /\ UNCHANGED <<registry, head, images>>

\* ensure_other_stack_stopped, and the parsing of the worker count.
Exclusive ==
  /\ pc = "exclusive"
  /\ Goto("compose_up") \/ Fail
  /\ UNCHANGED world

\* Mutant: the image is labelled before the revision is known.
BuildUnlabelled(p) ==
  IF p = "gateway" THEN BuiltGateway ELSE [kind |-> "built", rev |-> None]

Build(p) ==
  IF p = "gateway" THEN BuiltGateway ELSE [kind |-> "built", rev |-> head]

\* Services that have a build section in the Compose files used.
Buildable == {"gateway"} \cup (IF source THEN {"dataplane"} ELSE {})

\* Mutant: the decision does not reach the command line.
ComposeImagesUnbuilt(p) ==
  LET local == images[ImageName(p)]
  IN IF local # None THEN {local}
     ELSE (IF p \in Buildable THEN {Build(p)} ELSE {})
          \cup (IF Prebuilt(p) THEN {[kind |-> "pulled", rev |-> registry]} ELSE {})

\* External: the images `compose up [--build]` makes or fetches for p.  Without
\* --build only a missing image is built, or pulled.
ComposeImages(p) ==
  LET local == images[ImageName(p)]
  IN IF build /\ p \in Buildable THEN {Build(p)}
     ELSE IF local # None THEN {local}
     ELSE (IF p \in Buildable THEN {Build(p)} ELSE {})
          \cup (IF Prebuilt(p) THEN {[kind |-> "pulled", rev |-> registry]} ELSE {})

\* External: images first, then the containers whose image changed.  The Fast
\* Test services belong to a profile and are left alone.
ComposeUp ==
  /\ pc = "compose_up"
  /\ \E g \in ComposeImages("gateway"), d \in ComposeImages("dataplane"),
        made \in SUBSET Part, replaced \in SUBSET Part :
       LET image(p) == IF p = "gateway" THEN g ELSE d
       IN /\ replaced # {} => made = Part
          /\ images' = [n \in Name |->
                          IF "gateway" \in made /\ n = ImageName("gateway") THEN g
                          ELSE IF "dataplane" \in made /\ n = ImageName("dataplane") THEN d
                          ELSE images[n]]
          /\ containers' = [p \in Part |->
                              IF p \in replaced
                              THEN [name |-> ImageName(p), image |-> image(p)]
                              ELSE containers[p]]
          /\ \/ replaced = Part /\ healthy' = TRUE /\ Goto("ready")
             \/ healthy' \in {healthy, FALSE} /\ Fail
  /\ UNCHANGED <<registry, head, fast_test>>

\* wait_for_public_endpoint.
Ready ==
  /\ pc = "ready"
  /\ Goto("done") \/ Fail
  /\ UNCHANGED world

Kill ==
  /\ ~Stopped
  /\ Fail
  /\ UNCHANGED world

Command == Start \/ Sources \/ Resolve \/ Inspect \/ Pull \/ Decide \/ Reset
           \/ Exclusive \/ ComposeUp \/ Ready \/ Kill

-----------------------------------------------------------------------------
\* External.

Publish ==
  /\ registry < MaxRevision
  /\ registry' = registry + 1
  /\ UNCHANGED <<head, images, containers, healthy, fast_test, command>>

ServiceDies ==
  /\ healthy /\ healthy' = FALSE
  /\ UNCHANGED <<registry, head, images, containers, fast_test, command>>

\* Docker removes no image that a container uses.  That nothing removes one
\* while the command runs is an assumption: Compose would build the gateway's.
RemoveImage ==
  /\ Stopped
  /\ \E n \in Name :
       /\ images[n] # None
       /\ \A p \in Part : ~(containers[p] # None /\ containers[p].image = images[n])
       /\ images' = [images EXCEPT ![n] = None]
  /\ UNCHANGED <<registry, head, containers, healthy, fast_test, command>>

Next == Command \/ Publish \/ ServiceDies \/ RemoveImage

Spec == Init /\ [][Next]_vars

-----------------------------------------------------------------------------
\* Properties.

Ok == pc = "done"

\* A command that succeeds leaves a dataplane built from the checkout's commit
\* (unless building was forbidden), and for a published image at least the
\* version it found in the registry, whatever was running, was left half done
\* by a failed command, or could not be inspected.
OkRunsWanted ==
  Ok =>
    /\ \A p \in Part : containers[p] # None
    /\ source /\ setting # "never" => containers["dataplane"].image.rev = head
    /\ \A p \in Part :
         Prebuilt(p) /\ ~(build /\ p \in Buildable) /\ seen[p] # None =>
           LET image == containers[p].image
           IN image.kind = "pulled" /\ image.rev >= seen[p]

\* After a success the freshness check that the next command makes accepts
\* what is running: it fails only for a service that died since, for a Fast
\* Test container, which `compose up` does not remove, and when a stale source
\* image was forbidden to be rebuilt.
OkIsCurrent ==
  Ok /\ healthy /\ ~fast_test /\ (source => setting # "never") =>
    Current(Snapshot({}))

\* .env.example: auto builds only an explicitly selected source dataplane.
AutoBuildsOnlyDataplane ==
  [][setting = "auto" /\ images["gateway"] # None =>
       images'["gateway"] \in {images["gateway"], None}
                              \cup [kind : {"pulled"}, rev : Revision]]_vars

=============================================================================
