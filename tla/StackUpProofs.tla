--------------------------- MODULE StackUpProofs ---------------------------
(***************************************************************************)
(* Proofs about StackUp, for any number of revisions.                      *)
(***************************************************************************)
EXTENDS StackUp, TLAPS

Choosing == {"inspect", "pull"}
Deciding == {"decide", "reset", "exclusive", "compose_up"}
Running  == {"ready", "done"}

\* The decision whether to build, and the image that spared it.
Resolved ==
  /\ pc \in Choosing \cup Deciding \cup Running => (setting = "always" => build)
  /\ pc \in Choosing \cup Deciding /\ setting = "auto" /\ source /\ ~build =>
       Matching(images["local"])

\* An image at least as new as the digest the command has seen.
Newest(image, p) ==
  seen[p] # None => image # None /\ image.kind = "pulled" /\ image.rev >= seen[p]

Pulled(p) == Newest(images[ImageName(p)], p)

Inspected ==
  /\ \A p \in Part : seen[p] # None => seen[p] <= registry
  /\ pc \in {"idle", "sources", "resolve"} => \A p \in Part : seen[p] = None
  /\ pc \in {"sources", "resolve"} => part = "gateway"
  /\ pc \in Choosing /\ part = "gateway" => seen["dataplane"] = None
  /\ pc \in Choosing /\ part = "dataplane" => ~source /\ Pulled("gateway")
  /\ source => seen["dataplane"] = None
  /\ pc \in Deciding => \A p \in Part : Pulled(p)

\* What a finished start-up runs.
Runs ==
  pc \in Running =>
    /\ \A p \in Part :
         /\ containers[p] # None /\ containers[p].name = ImageName(p)
         /\ containers[p].image = images[ImageName(p)]
         /\ images[ImageName(p)] # None
         /\ Prebuilt(p) /\ ~(build /\ p \in Buildable) => Newest(containers[p].image, p)
    /\ source /\ setting # "never" => containers["dataplane"].image.rev = head

IInv == TypeOK /\ Resolved /\ Inspected /\ Runs

USE NoneAssumption DEF Choosing, Deciding, Running

-----------------------------------------------------------------------------
\* What a name can hold: published names only pulled images, the local tag
\* only built ones.
LEMMA ImageFacts ==
  ASSUME NEW n \in Name, NEW i \in ImagesOf(n)
  PROVE  /\ i \in Image /\ i # None /\ i.rev \in Nat
         /\ n = "published" => i.kind = "pulled"
         /\ n = "local" => i.kind = "built"
  BY RevisionAssumption DEF Name, ImagesOf, Image, Revision, BuiltGateway

\* Each service uses one of its names, the dataplane's chosen by `source`.
LEMMA NameFacts ==
  /\ \A p \in Part : ImageName(p) \in NamesOf(p) /\ NamesOf(p) \subseteq Name
  /\ ImageName("gateway") = "gateway"
  /\ ImageName("dataplane") = IF source THEN "local" ELSE "published"
  BY DEF Name, NamesOf, ImageName

\* Membership in ContainersOf, without its union of sets.
LEMMA ContainerFacts ==
  ASSUME NEW p \in Part, NEW c
  PROVE  c \in ContainersOf(p) <=>
           \/ c = None
           \/ \E n \in NamesOf(p) : \E i \in ImagesOf(n) : c = [name |-> n, image |-> i]
  BY DEF ContainersOf

\* Leftovers of any kind satisfy the invariant: no command has run yet.
LEMMA InitInv == Init => IInv
<1> SUFFICES ASSUME Init PROVE IInv
  OBVIOUS
<1>1. WorldTypes
  BY DEF Init, WorldTypes, Part
<1>2. CommandTypes
  BY DEF Init, CommandTypes, Part
<1>3. Resolved /\ Inspected /\ Runs
  BY DEF Init, Resolved, Inspected, Runs
<1> QED
  BY <1>1, <1>2, <1>3 DEF IInv, TypeOK

-----------------------------------------------------------------------------
\* Every step of the command, of the registry and of Docker keeps IInv.
LEMMA StartStep == IInv /\ Start => IInv'
<1> SUFFICES ASSUME IInv, Start PROVE IInv'
  OBVIOUS
<1>1. WorldTypes'
  BY DEF IInv, TypeOK, WorldTypes, Start, world
<1>2. CommandTypes'
  BY DEF CommandTypes, Part, Start
<1>3. Resolved'
  BY DEF Resolved, Start
<1>4. Inspected'
  BY DEF Inspected, Part, Start
<1>5. Runs'
  BY DEF Runs, Start
<1> QED
  BY <1>1, <1>2, <1>3, <1>4, <1>5 DEF IInv, TypeOK

LEMMA SourcesStep == IInv /\ Sources => IInv'
<1> SUFFICES ASSUME IInv, Sources PROVE IInv'
  OBVIOUS
<1>1. WorldTypes'
  BY DEF IInv, TypeOK, WorldTypes, Sources
<1>2. CommandTypes'
  BY DEF IInv, TypeOK, CommandTypes, Part, Sources, Goto, Fail, config
<1>3. Resolved'
  BY DEF Resolved, Sources, Goto, Fail
<1>4. Inspected'
  BY DEF IInv, Inspected, Part, Sources, Goto, Fail
<1>5. Runs'
  BY DEF Runs, Sources, Goto, Fail
<1> QED
  BY <1>1, <1>2, <1>3, <1>4, <1>5 DEF IInv, TypeOK

LEMMA ResolveStep == IInv /\ Resolve => IInv'
<1> SUFFICES ASSUME IInv, Resolve PROVE IInv'
  OBVIOUS
<1>1. WorldTypes'
  BY DEF IInv, TypeOK, WorldTypes, Resolve, world
<1>2. CommandTypes'
  BY DEF IInv, TypeOK, CommandTypes, Part, Resolve, Fail, config
<1>3. Resolved'
  <2>1. CASE Fail
    BY <2>1 DEF Fail, Resolved
  <2>2. CASE ~Fail
    <3>1. PICK image \in {images[ImageName("dataplane")], None} :
            build' = \/ setting = "always"
                     \/ setting = "auto" /\ source /\ ~Matching(image)
      BY <2>2 DEF Resolve
    <3>2. setting = "always" => build'
      BY <3>1
    <3>3. setting = "auto" /\ source /\ ~build' => Matching(image)
      BY <3>1
    <3>4. source /\ Matching(image) => Matching(images["local"])
      BY NameFacts DEF Matching
    <3>5. UNCHANGED <<setting, source, head, images>> /\ pc' = "inspect"
      BY <2>2 DEF Resolve, config, world
    <3> QED
      BY <3>2, <3>3, <3>4, <3>5 DEF Resolved, Matching
  <2> QED
    BY <2>1, <2>2
<1>4. Inspected'
  BY DEF IInv, Inspected, Part, Resolve, Fail
<1>5. Runs'
  BY DEF Runs, Resolve, Fail
<1> QED
  BY <1>1, <1>2, <1>3, <1>4, <1>5 DEF IInv, TypeOK

LEMMA InspectStep == IInv /\ Inspect => IInv'
<1> SUFFICES ASSUME IInv, Inspect PROVE IInv'
  OBVIOUS
<1>1. WorldTypes'
  BY DEF IInv, TypeOK, WorldTypes, Inspect, world
<1>2. CommandTypes'
  BY DEF IInv, TypeOK, CommandTypes, WorldTypes, Part, Inspect, config, PartDone
<1>3. Resolved'
  BY DEF IInv, Resolved, Matching, Inspect, world, config
<1>4. Inspected'
  <2> DEFINE local == images[ImageName(part)]
  <2>1. PICK remote \in {registry, None}, present \in {local # None, FALSE},
             digest \in {None} \cup (IF local # None /\ local.kind = "pulled"
                                   THEN {local.rev} ELSE {}) :
          /\ seen' = [seen EXCEPT ![part] = remote]
          /\ IF (remote # None /\ digest = remote) \/ (remote = None /\ present)
             THEN PartDone
             ELSE pc' = "pull" /\ UNCHANGED part
    BY DEF Inspect
  <2>2. pc = "inspect" /\ UNCHANGED <<config, build, world>>
    BY DEF Inspect
  <2>3. registry \in Nat /\ (remote = None \/ remote = registry)
    BY DEF IInv, TypeOK, WorldTypes, Revision
  <2> QED
    BY <2>1, <2>2, <2>3 DEF IInv, TypeOK, CommandTypes, Inspected, Pulled, Newest, Part,
      Prebuilt, ImageName, config, world, PartDone
<1>5. Runs'
  BY DEF Runs, Inspect, PartDone
<1> QED
  BY <1>1, <1>2, <1>3, <1>4, <1>5 DEF IInv, TypeOK

LEMMA PullStep == IInv /\ Pull => IInv'
<1> SUFFICES ASSUME IInv, Pull PROVE IInv'
  OBVIOUS
<1> DEFINE published == [kind |-> "pulled", rev |-> registry]
<1>1. WorldTypes'
  <2>1. CASE images' = [images EXCEPT ![ImageName(part)] = published]
    <3>1. published \in ImagesOf(ImageName(part))
      <4>1. ~source \/ part = "gateway"
        BY DEF IInv, TypeOK, CommandTypes, Part, Inspected, Pull
      <4>2. ImageName(part) \in {"gateway", "published"}
        BY <4>1 DEF ImageName
      <4> QED
        BY <4>2 DEF IInv, TypeOK, WorldTypes, ImagesOf
    <3> QED
      BY <3>1, NameFacts DEF IInv, TypeOK, WorldTypes, Pull
  <2> QED
    BY <2>1 DEF IInv, TypeOK, WorldTypes, Pull
<1>2. CommandTypes'
  BY DEF IInv, TypeOK, CommandTypes, Part, Pull, Fail, config, PartDone
<1>3. Resolved'
  <2>1. CASE Fail
    BY <2>1 DEF Fail, Resolved
  <2>2. CASE ~Fail
    <3>1. ImageName(part) # "local"
      BY DEF IInv, TypeOK, CommandTypes, Part, Inspected, Pull, ImageName
    <3>2. images'["local"] = images["local"]
      BY <2>2, <3>1 DEF IInv, TypeOK, WorldTypes, Pull, Name
    <3>3. UNCHANGED <<setting, source, head, build>> /\ pc' \in {"inspect", "decide"}
      BY <2>2 DEF Pull, config, PartDone
    <3> QED
      BY <3>2, <3>3 DEF IInv, Resolved, Matching, Pull
  <2> QED
    BY <2>1, <2>2
<1>4. Inspected'
  <2>1. CASE Fail
    BY <2>1 DEF Inspected, Fail
  <2>2. CASE ~Fail
    <3>1. /\ images' = [images EXCEPT ![ImageName(part)] = published]
          /\ PartDone /\ UNCHANGED <<registry, source, seen>> /\ pc = "pull"
      BY <2>2 DEF Pull, config
    <3>2. /\ registry \in Nat
          /\ \A p \in Part : seen[p] # None => seen[p] \in Nat /\ seen[p] <= registry
      BY DEF IInv, TypeOK, CommandTypes, WorldTypes, Inspected, Revision
    <3>3. ImageName(part) \in Name
      BY NameFacts DEF IInv, TypeOK, CommandTypes
    <3>4. images'[ImageName(part)] = published
      BY <3>1, <3>3 DEF IInv, TypeOK, WorldTypes
    <3>5. \A p \in Part : p = part => Pulled(p)'
      <4>1. published # None
        BY DEF IInv, TypeOK, WorldTypes, Image
      <4>2. seen[part] # None => registry >= seen[part]
        BY <3>2 DEF IInv, TypeOK, CommandTypes
      <4>3. seen[part] # None => /\ images'[ImageName(part)] # None
                                 /\ images'[ImageName(part)].kind = "pulled"
                                 /\ images'[ImageName(part)].rev >= seen[part]
        BY <3>4, <4>1, <4>2
      <4>4. \A p \in Part : ImageName(p)' = ImageName(p)
        BY <3>1 DEF ImageName
      <4> QED
        BY <3>1, <4>3, <4>4 DEF Pulled, Newest
    <3>6. part = "dataplane" => Pulled("gateway")'
      BY <3>1 DEF IInv, TypeOK, WorldTypes, Inspected, Pulled, Newest, ImageName
    <3> QED
      BY <3>1, <3>5, <3>6 DEF IInv, TypeOK, CommandTypes, Inspected, Pulled, Newest, Part,
        PartDone, Prebuilt
  <2> QED
    BY <2>1, <2>2
<1>5. Runs'
  BY DEF Runs, Pull, Fail, PartDone
<1> QED
  BY <1>1, <1>2, <1>3, <1>4, <1>5 DEF IInv, TypeOK

LEMMA DecideStep == IInv /\ Decide => IInv'
<1> SUFFICES ASSUME IInv, Decide PROVE IInv'
  OBVIOUS
<1>1. WorldTypes'
  BY DEF IInv, TypeOK, WorldTypes, Decide, world
<1>2. CommandTypes'
  BY DEF IInv, TypeOK, CommandTypes, Decide, Goto, config
<1>3. Resolved'
  BY DEF IInv, Resolved, Matching, Decide, Goto, world, config
<1>4. Inspected'
  BY DEF IInv, Inspected, Pulled, Newest, ImageName, Decide, Goto, world, config
<1>5. Runs'
  <2>1. CASE pc' = "ready"
    <3>1. PICK failing : MaySkip /\ Current(Snapshot(failing))
      BY <2>1 DEF Decide, Goto
    <3>2. \A p \in Part : UsesConfiguredImage(Snapshot(failing), p)
      BY <3>1 DEF Current
    <3>3. \A p \in Part : /\ containers[p] # None /\ containers[p].name = ImageName(p)
                          /\ images[ImageName(p)] # None
                          /\ containers[p].image = images[ImageName(p)]
      <4> TAKE p \in Part
      <4>1. UsesConfiguredImage(Snapshot(failing), p)
        BY <3>2
      <4>2. Snapshot(failing).containers[p] \in {containers[p], None}
        BY DEF Snapshot
      <4>3. Snapshot(failing).images[ImageName(p)] \in {images[ImageName(p)], None}
        BY NameFacts DEF Snapshot
      <4> QED
        BY <4>1, <4>2, <4>3 DEF UsesConfiguredImage
    <3>4. source => containers["dataplane"].image.rev = head
      <4>1. source => Matching(Snapshot(failing).containers["dataplane"].image)
        BY <3>1 DEF Current
      <4>2. Snapshot(failing).containers["dataplane"] # None
        BY <3>2 DEF UsesConfiguredImage, Part
      <4>3. Snapshot(failing).containers["dataplane"] \in {containers["dataplane"], None}
        BY DEF Snapshot, Part
      <4> QED
        BY <4>1, <4>2, <4>3 DEF Matching
    <3>5. UNCHANGED <<world, config, part, build, seen>>
      BY DEF Decide, Goto
    <3>6. \A p \in Part : Newest(images[ImageName(p)], p)
      BY DEF IInv, Inspected, Pulled, Decide
    <3> QED
      BY <3>3, <3>4, <3>5, <3>6 DEF Runs, Newest, ImageName, Prebuilt, Buildable, world,
        config
  <2> QED
    BY <2>1 DEF Decide, Goto, Runs
<1> QED
  BY <1>1, <1>2, <1>3, <1>4, <1>5 DEF IInv, TypeOK

LEMMA ResetStep == IInv /\ Reset => IInv'
<1> SUFFICES ASSUME IInv, Reset PROVE IInv'
  OBVIOUS
<1>1. WorldTypes'
  <2>1. \A p \in Part : containers'[p] \in ContainersOf(p) /\ DOMAIN containers' = Part
    BY DEF IInv, TypeOK, WorldTypes, Reset, ContainersOf
  <2> QED
    BY <2>1 DEF IInv, TypeOK, WorldTypes, Reset
<1>2. CommandTypes'
  BY DEF IInv, TypeOK, CommandTypes, Part, Reset, Goto, Fail, config
<1>3. Resolved'
  <2>1. CASE Fail
    BY <2>1 DEF Fail, Resolved
  <2>2. CASE ~Fail
    <3>1. Goto("exclusive") /\ UNCHANGED <<head, images>> /\ pc = "reset"
      BY <2>2 DEF Reset
    <3> QED
      BY <3>1 DEF IInv, Resolved, Matching, Goto, config
  <2> QED
    BY <2>1, <2>2
<1>4. Inspected'
  <2>1. CASE Fail
    BY <2>1 DEF Inspected, Fail
  <2>2. CASE ~Fail
    <3>1. Goto("exclusive") /\ UNCHANGED <<registry, images>> /\ pc = "reset"
      BY <2>2 DEF Reset
    <3> QED
      BY <3>1 DEF IInv, Inspected, Pulled, Newest, ImageName, Goto, config
  <2> QED
    BY <2>1, <2>2
<1>5. Runs'
  BY DEF Runs, Reset, Goto, Fail
<1> QED
  BY <1>1, <1>2, <1>3, <1>4, <1>5 DEF IInv, TypeOK

LEMMA ExclusiveStep == IInv /\ Exclusive => IInv'
<1> SUFFICES ASSUME IInv, Exclusive PROVE IInv'
  OBVIOUS
<1>1. WorldTypes'
  BY DEF IInv, TypeOK, WorldTypes, Exclusive, world
<1>2. CommandTypes'
  BY DEF IInv, TypeOK, CommandTypes, Part, Exclusive, Goto, Fail, config
<1>3. Resolved'
  BY DEF IInv, Resolved, Matching, Exclusive, Goto, Fail, world, config
<1>4. Inspected'
  BY DEF IInv, Inspected, Pulled, Newest, ImageName, Exclusive, Goto, Fail, world, config
<1>5. Runs'
  BY DEF Runs, Exclusive, Goto, Fail
<1> QED
  BY <1>1, <1>2, <1>3, <1>4, <1>5 DEF IInv, TypeOK

\* Whatever `compose up` makes, fetches or leaves for a service is fit to run:
\* built from the checkout's commit, or at least as new as the digest seen.
LEMMA ComposedImages ==
  ASSUME IInv, pc = "compose_up", NEW p \in Part, NEW i \in ComposeImages(p)
  PROVE  /\ i \in ImagesOf(ImageName(p)) /\ i \in Image /\ i # None
         /\ p = "dataplane" /\ source /\ setting # "never" => i.rev = head
         /\ Prebuilt(p) /\ ~(build /\ p \in Buildable) => Newest(i, p)
<1> DEFINE local == images[ImageName(p)]
<1>1. Build(p) \in ImagesOf(ImageName(p)) \/ p \notin Buildable
  BY DEF IInv, TypeOK, WorldTypes, Build, Buildable, ImageName, ImagesOf
<1>2. [kind |-> "pulled", rev |-> registry] \in ImagesOf(ImageName(p)) \/ ~Prebuilt(p)
  BY DEF IInv, TypeOK, WorldTypes, ImagesOf, ImageName, Prebuilt
<1>3. ImageName(p) \in Name /\ (local = None \/ local \in ImagesOf(ImageName(p)))
  BY NameFacts DEF IInv, TypeOK, WorldTypes
<1>4. i \in ImagesOf(ImageName(p))
  BY <1>1, <1>2, <1>3 DEF ComposeImages
<1>5. i \in Image /\ i # None
  BY <1>3, <1>4, ImageFacts
<1>6. ASSUME p = "dataplane", source, setting # "never" PROVE i.rev = head
  <2>1. CASE build
    BY <1>6, <2>1 DEF ComposeImages, Build, Buildable
  <2>2. CASE ~build
    <3>1. Matching(local) /\ i = local
      BY <1>6, <2>2, NameFacts DEF IInv, TypeOK, CommandTypes, Resolved, ComposeImages,
        Matching
    <3> QED
      BY <3>1 DEF Matching
  <2> QED
    BY <2>1, <2>2
<1>7. ASSUME Prebuilt(p), ~(build /\ p \in Buildable) PROVE Newest(i, p)
  <2>1. Newest(local, p)
    BY DEF IInv, Inspected, Pulled
  <2> QED
    BY <1>7, <2>1 DEF ComposeImages, Newest
<1> QED
  BY <1>4, <1>5, <1>6, <1>7

\* The images made carry over to the containers replaced; a start-up is only
\* over when all of them were.
LEMMA ComposeUpStep == IInv /\ ComposeUp => IInv'
<1> SUFFICES ASSUME IInv, ComposeUp PROVE IInv'
  OBVIOUS
<1>1. PICK g \in ComposeImages("gateway"), d \in ComposeImages("dataplane"),
           made \in SUBSET Part, replaced \in SUBSET Part :
        LET image(p) == IF p = "gateway" THEN g ELSE d
        IN /\ replaced # {} => made = Part
           /\ images' = [n \in Name |->
                           IF "gateway" \in made /\ n = ImageName("gateway") THEN g
                           ELSE IF "dataplane" \in made /\ n = ImageName("dataplane") THEN d
                           ELSE images[n]]
           /\ containers' = [p \in Part |->
                               IF p \in replaced
                               THEN [name |-> ImageName(p), image |-> image(p)]
                               ELSE containers[p]]
           /\ \/ replaced = Part /\ healthy' = TRUE /\ Goto("ready")
              \/ healthy' \in {healthy, FALSE} /\ Fail
  BY DEF ComposeUp
<1> DEFINE image(p) == IF p = "gateway" THEN g ELSE d
<1>2. \A p \in Part : image(p) \in ComposeImages(p)
  BY DEF Part
<1>3. ImageName("gateway") # ImageName("dataplane")
  BY DEF ImageName
<1>4. \A p \in made : images'[ImageName(p)] = image(p)
  <2> TAKE p \in made
  <2>1. ImageName(p) \in Name /\ p \in {"gateway", "dataplane"}
    BY NameFacts DEF Part
  <2> QED
    BY <1>1, <1>3, <2>1
<1>5. \A n \in Name : (\A p \in made : ImageName(p) # n) => images'[n] = images[n]
  BY <1>1
<1>6. DOMAIN images' = Name /\ DOMAIN containers' = Part
  BY <1>1
<1>7. \A p \in Part : containers'[p] = IF p \in replaced
                                     THEN [name |-> ImageName(p), image |-> image(p)]
                                     ELSE containers[p]
  BY <1>1
<1>8. \/ replaced = Part /\ made = Part /\ Goto("ready")
      \/ Fail
  BY <1>1
<1> HIDE DEF image
<1>9. /\ pc = "compose_up" /\ pc' \in {"ready", "idle"}
      /\ UNCHANGED <<registry, head, fast_test>>
  BY DEF ComposeUp, Goto, Fail
<1>10. WorldTypes'
  <2>1. \A n \in Name : images'[n] \in ImagesOf(n) \cup {None}
    BY <1>2, <1>4, <1>5, <1>9, ComposedImages DEF IInv, TypeOK, WorldTypes
  <2>2. \A p \in Part : containers'[p] \in ContainersOf(p)
    BY <1>2, <1>7, <1>9, ComposedImages, ContainerFacts, NameFacts DEF IInv, TypeOK,
      WorldTypes
  <2>3. healthy' \in BOOLEAN
    BY DEF IInv, TypeOK, WorldTypes, ComposeUp
  <2> QED
    BY <1>6, <1>9, <2>1, <2>2, <2>3 DEF IInv, TypeOK, WorldTypes
<1>11. CommandTypes'
  BY DEF IInv, TypeOK, CommandTypes, Part, ComposeUp, Goto, Fail, config
<1>12. Resolved'
  BY <1>8, <1>9 DEF IInv, Resolved, Goto, Fail, config
<1>13. Inspected'
  BY <1>8, <1>9 DEF IInv, Inspected, Goto, Fail, config
<1>14. ASSUME pc' = "ready" PROVE Runs'
  <2>1. replaced = Part /\ made = Part /\ UNCHANGED <<source, setting, build, seen>>
    BY <1>8, <1>14 DEF Goto, Fail, config
  <2>2. \A p \in Part : /\ images'[ImageName(p)] = image(p)
                        /\ containers'[p] = [name |-> ImageName(p), image |-> image(p)]
                        /\ containers'[p].name = ImageName(p)
                        /\ containers'[p].image = image(p)
    <3> TAKE p \in Part
    <3>1. images'[ImageName(p)] = image(p)
      BY <1>4, <2>1
    <3>2. containers'[p] = [name |-> ImageName(p), image |-> image(p)]
      BY <1>7, <2>1
    <3> QED
      BY <3>1, <3>2
  <2>3. \A p \in Part : /\ image(p) \in Image /\ image(p) # None
                        /\ p = "dataplane" /\ source /\ setting # "never" =>
                             image(p).rev = head
                        /\ Prebuilt(p) /\ ~(build /\ p \in Buildable) => Newest(image(p), p)
    BY <1>2, <1>9, ComposedImages
  <2>4. \A p \in Part : containers'[p] # None
    <3> TAKE p \in Part
    <3>1. ImageName(p) \in Name /\ image(p) \in Image
      BY <2>3, NameFacts
    <3>2. [name |-> ImageName(p), image |-> image(p)] \in Container
      BY <3>1 DEF Container
    <3> QED
      BY <2>2, <3>2
  <2>5. \A p \in Part : /\ Prebuilt(p)' <=> Prebuilt(p)
                        /\ ImageName(p)' = ImageName(p)
    BY <2>1 DEF Prebuilt, ImageName
  <2>6. Buildable' = Buildable
    BY <2>1 DEF Buildable
  <2>7. source' /\ setting' # "never" => containers'["dataplane"].image.rev = head'
    BY <1>9, <2>1, <2>2, <2>3 DEF Part
  <2>8. \A p \in Part : Prebuilt(p)' /\ ~(build' /\ p \in Buildable') =>
                           Newest(containers[p].image, p)'
    <3> TAKE p \in Part
    <3>1. Prebuilt(p) /\ ~(build /\ p \in Buildable) => Newest(containers'[p].image, p)
      <4>1. containers'[p].image = image(p)
        BY <2>2
      <4> QED
        BY <2>3, <4>1
    <3>2. Newest(containers'[p].image, p) => Newest(containers[p].image, p)'
      BY <2>1 DEF Newest
    <3> QED
      BY <2>1, <2>5, <2>6, <3>1, <3>2
  <2>9. \A p \in Part : /\ containers'[p].name = ImageName(p)'
                        /\ containers'[p].image = images'[ImageName(p)']
                        /\ images'[ImageName(p)'] # None
    <3> TAKE p \in Part
    <3>1. containers'[p].name = ImageName(p) /\ containers'[p].image = image(p)
      BY <2>2
    <3>2. images'[ImageName(p)] = image(p) /\ image(p) # None
      BY <2>2, <2>3
    <3> QED
      BY <2>5, <3>1, <3>2
  <2> QED
    BY <2>4, <2>7, <2>8, <2>9 DEF Runs
<1> QED
  BY <1>9, <1>10, <1>11, <1>12, <1>13, <1>14 DEF IInv, TypeOK, Runs

LEMMA ReadyStep == IInv /\ Ready => IInv'
<1> SUFFICES ASSUME IInv, Ready PROVE IInv'
  OBVIOUS
<1>1. WorldTypes'
  BY DEF IInv, TypeOK, WorldTypes, Ready, world
<1>2. CommandTypes'
  BY DEF IInv, TypeOK, CommandTypes, Part, Ready, Goto, Fail, config
<1>3. Resolved'
  BY DEF IInv, Resolved, Ready, Goto, Fail, config
<1>4. Inspected'
  BY DEF IInv, Inspected, Ready, Goto, Fail, world, config
<1>5. Runs'
  BY DEF IInv, Runs, Newest, ImageName, Prebuilt, Buildable, Ready, Goto, Fail, world,
    config
<1> QED
  BY <1>1, <1>2, <1>3, <1>4, <1>5 DEF IInv, TypeOK

LEMMA KillStep == IInv /\ Kill => IInv'
<1> SUFFICES ASSUME IInv, Kill PROVE IInv'
  OBVIOUS
<1>1. WorldTypes'
  BY DEF IInv, TypeOK, WorldTypes, Kill, world
<1>2. CommandTypes'
  BY DEF CommandTypes, Part, Kill, Fail
<1>3. Resolved'
  BY DEF Resolved, Kill, Fail
<1>4. Inspected'
  BY DEF Inspected, Kill, Fail
<1>5. Runs'
  BY DEF Runs, Kill, Fail
<1> QED
  BY <1>1, <1>2, <1>3, <1>4, <1>5 DEF IInv, TypeOK

LEMMA PublishStep == IInv /\ Publish => IInv'
<1> SUFFICES ASSUME IInv, Publish PROVE IInv'
  OBVIOUS
<1>1. WorldTypes'
  BY RevisionAssumption DEF IInv, TypeOK, WorldTypes, Publish, Revision
<1>2. CommandTypes'
  BY DEF IInv, TypeOK, CommandTypes, Publish, config, command
<1>3. Resolved'
  BY DEF IInv, Resolved, Matching, Publish, config, command
<1>4. Inspected'
  <2>1. registry \in Nat /\ registry' = registry + 1
    BY DEF IInv, TypeOK, WorldTypes, Publish, Revision
  <2>2. \A p \in Part : seen[p] # None => seen[p] \in Nat
    BY RevisionAssumption DEF IInv, TypeOK, CommandTypes, Revision
  <2>3. UNCHANGED <<images, pc, part, seen, source>>
    BY DEF Publish, command, config
  <2> QED
    BY <2>1, <2>2, <2>3 DEF IInv, Inspected, Pulled, Newest, ImageName
<1>5. Runs'
  BY DEF IInv, Runs, Newest, ImageName, Prebuilt, Buildable, Publish, config, command
<1> QED
  BY <1>1, <1>2, <1>3, <1>4, <1>5 DEF IInv, TypeOK

LEMMA ServiceDiesStep == IInv /\ ServiceDies => IInv'
<1> SUFFICES ASSUME IInv, ServiceDies PROVE IInv'
  OBVIOUS
<1>1. WorldTypes'
  BY DEF IInv, TypeOK, WorldTypes, ServiceDies
<1>2. CommandTypes'
  BY DEF IInv, TypeOK, CommandTypes, ServiceDies, config, command
<1>3. Resolved'
  BY DEF IInv, Resolved, Matching, ServiceDies, config, command
<1>4. Inspected'
  BY DEF IInv, Inspected, Pulled, Newest, ImageName, ServiceDies, config, command
<1>5. Runs'
  BY DEF IInv, Runs, Newest, ImageName, Prebuilt, Buildable, ServiceDies, config, command
<1> QED
  BY <1>1, <1>2, <1>3, <1>4, <1>5 DEF IInv, TypeOK

LEMMA RemoveImageStep == IInv /\ RemoveImage => IInv'
<1> SUFFICES ASSUME IInv, RemoveImage PROVE IInv'
  OBVIOUS
<1>1. WorldTypes'
  BY DEF IInv, TypeOK, WorldTypes, RemoveImage
<1>2. CommandTypes'
  BY DEF IInv, TypeOK, CommandTypes, RemoveImage, config, command
<1>3. Resolved'
  BY DEF IInv, Resolved, RemoveImage, config, command, Stopped
<1>4. Inspected'
  BY DEF IInv, Inspected, RemoveImage, config, command, Stopped
<1>5. Runs'
  BY DEF IInv, Runs, Newest, ImageName, Prebuilt, Buildable, RemoveImage, config, command
<1> QED
  BY <1>1, <1>2, <1>3, <1>4, <1>5 DEF IInv, TypeOK

-----------------------------------------------------------------------------
\* IInv is an inductive invariant.
LEMMA Invariance == Spec => []IInv
<1>1. IInv /\ UNCHANGED vars => IInv'
  <2> SUFFICES ASSUME IInv, UNCHANGED vars PROVE IInv'
    OBVIOUS
  <2>1. UNCHANGED <<registry, head, images, containers, healthy, fast_test, source, setting,
                    restart, pc, part, build, seen>>
    BY DEF vars, world, command, config
  <2> QED
    BY <2>1 DEF IInv, TypeOK, WorldTypes, CommandTypes, Resolved, Matching, Inspected,
      Pulled, Newest, ImageName, Runs, Prebuilt, Buildable
<1>2. IInv /\ [Next]_vars => IInv'
  BY <1>1, StartStep, SourcesStep, ResolveStep, InspectStep, PullStep, DecideStep,
    ResetStep, ExclusiveStep, ComposeUpStep, ReadyStep, KillStep, PublishStep,
    ServiceDiesStep, RemoveImageStep DEF Next, Command
<1> QED
  BY <1>2, InitInv, PTL DEF Spec

\* Every variable keeps its type, for any number of revisions: an image is
\* only ever found under a name it can carry, and a container runs an image
\* of one of its service's names.
THEOREM TypeCorrect == Spec => []TypeOK
BY Invariance, PTL DEF IInv

\* stack_up's promise: a command that succeeds runs a dataplane built from the
\* checkout's commit, or published images at least as new as it found, however
\* earlier commands failed and whatever could not be inspected.
THEOREM OkRunsWhatIsWanted == Spec => []OkRunsWanted
<1>1. IInv => OkRunsWanted
  BY DEF IInv, Runs, Newest, OkRunsWanted, Ok
<1> QED
  BY <1>1, Invariance, PTL

\* FreshnessSnapshot::evaluate accepts what a successful start-up leaves, so
\* the next command does not start the stack again without a reason.
THEOREM OkStaysCurrent == Spec => []OkIsCurrent
<1>1. IInv => OkIsCurrent
  <2> SUFFICES ASSUME IInv, Ok, healthy, ~fast_test, source => setting # "never"
               PROVE  Current(Snapshot({}))
    BY DEF OkIsCurrent
  <2>1. /\ Snapshot({}).healthy /\ ~Snapshot({}).fast_test
        /\ \A p \in Part : Snapshot({}).containers[p] = containers[p]
        /\ \A n \in Name : Snapshot({}).images[n] = images[n]
    BY DEF Snapshot
  <2>2. \A p \in Part : UsesConfiguredImage(Snapshot({}), p)
    BY <2>1, NameFacts DEF IInv, Runs, Ok, UsesConfiguredImage
  <2>3. source => Matching(containers["dataplane"].image)
    BY DEF IInv, Runs, Ok, Matching, Part
  <2> QED
    BY <2>1, <2>2, <2>3 DEF Current, Part
<1> QED
  BY <1>1, Invariance, PTL

=============================================================================
