--------------------------- MODULE BatchTrainerProofs ---------------------------
(***************************************************************************)
(* The properties of BatchTrainer for any number of trainers, runs, files  *)
(* and seconds.                                                            *)
(*                                                                         *)
(* ReleasedIsComplete follows the bundle of a trainer from upload to link: *)
(* whatever .current-next and current lead to was staged and uploaded by   *)
(* someone, and neither is ever undone.  RecordedIsInTheModel rests on the *)
(* history `named`: two writers of one version are two entries of it.      *)
(***************************************************************************)
EXTENDS BatchTrainer, FiniteSetTheorems, WellFoundedInduction, TLAPS

\* From the choice of a version to the end of the run.
Versioned == {"upload", "stage", "clear", "link", "swap", "save", "publish"}

\* The bundle of version v is whole and says something.
Complete(v) ==
    /\ v \in DOMAIN versions
    /\ v \in DOMAIN registry
    /\ \A file \in 1..BundleSize : registry[v][file] # {}

\* A model is trained on some file, and on all that the checkpoint will record
\* while the lake fits in a page.
TrainedInv ==
    \A t \in Trainers :
        /\ pc[t] # "ended" => listed[t] \subseteq lake /\ listed[t] # {}
        /\ pc[t] \in Versioned \cup {"name"} =>
              /\ trained[t] # {}
              /\ Cardinality(lake) <= PageSize => listed[t] \subseteq trained[t]

\* A run takes one version, and its number is its own.
NamedInv ==
    /\ \A t \in Trainers : pc[t] \in Versioned => <<version[t], t, run[t]>> \in named
    /\ \A t \in Trainers : pc[t] # "ended" => run[t] >= 1
    /\ \A c \in named : c[3] <= run[c[2]]

\* What is uploaded stays; it is of the trainer's model if nobody else writes
\* that version.
UploadsOf(t) ==
    /\ pc[t] = "upload" => sent[t] < BundleSize
    /\ pc[t] \in Versioned \ {"upload"} => sent[t] = BundleSize
    /\ pc[t] \in Versioned =>
          \A file \in 1..sent[t] :
              /\ version[t] \in DOMAIN registry
              /\ registry[version[t]][file] # {}
              /\ ~Shared(version[t]) => registry[version[t]][file] = trained[t]

UploadInv == \A t \in Trainers : UploadsOf(t)

\* Staged directories, links and announcements are of complete bundles.
LinkInv ==
    /\ \A t \in Trainers :
          pc[t] \in Versioned \ {"upload", "stage"} => Complete(version[t])
    /\ nextLink # None => Complete(nextLink)
    /\ current # None => Complete(current)
    /\ \A v \in announced : Complete(v)

\* The run that wrote the checkpoint is over, or past its uploads.
CheckpointInv ==
    checkpoint # None =>
        \E c \in named :
            /\ c[1] = checkpoint.version
            /\ \A t \in Trainers :
                  pc[t] \notin {"ended", "publish"} => c[2] # t \/ c[3] # run[t]

IInv ==
    /\ TypeOK
    /\ TrainedInv
    /\ NamedInv
    /\ UploadInv
    /\ LinkInv
    /\ CheckpointInv
    /\ RecordedIsInTheModel

\* A lake that is not empty has a first key, which is on the page.
LEMMA PageNotEmpty == ASSUME lake \subseteq Files, lake # {} PROVE Page # {}
<1> DEFINE Less == {ss \in Nat \X Nat : ss[1] < ss[2]}
<1>1. IsWellFoundedOn(Less, Nat)
    BY NatLessThanWellFounded, Zenon DEF OpToRel
<1> HIDE DEF Less
<1>2. PICK x \in lake : \A y \in lake : ~(<<y, x>> \in Less)
    BY <1>1, WFMin, TrainerAssumption
<1>3. \A y \in lake : ~(y < x)
    BY <1>2, TrainerAssumption DEF Less
<1>4. {g \in lake : g < x} = {}
    BY <1>3
<1>5. Cardinality({g \in lake : g < x}) = 0
    BY <1>4, FS_EmptySet
<1>6. x \in Page
    BY <1>5, TrainerAssumption DEF Page
<1> QED
    BY <1>6

\* A lake that fits in a page is listed whole.
LEMMA PageIsAll ==
    ASSUME lake \subseteq Files, Cardinality(lake) <= PageSize PROVE Page = lake
<1>1. IsFiniteSet(lake)
    BY TrainerAssumption, FS_Subset
<1>2. ASSUME NEW f \in lake PROVE f \in Page
    <2> DEFINE before == {g \in lake : g < f}
    <2>1. before \subseteq lake /\ before # lake
        BY TrainerAssumption
    <2> HIDE DEF before
    <2>2. IsFiniteSet(before)
        BY <1>1, <2>1, FS_Subset
    <2>3. Cardinality(before) \in Nat /\ Cardinality(lake) \in Nat
        BY <1>1, <2>2, FS_CardinalityType
    <2>4. Cardinality(before) <= Cardinality(lake) /\ Cardinality(before) # Cardinality(lake)
        BY <1>1, <2>1, FS_Subset
    <2>5. Cardinality(before) < PageSize
        BY <2>3, <2>4, TrainerAssumption
    <2> QED
        BY <2>5 DEF Page, before
<1> QED
    BY <1>2 DEF Page

\* The lake only grows, so it fits in a page only if it did before.
LEMMA LakeGrows ==
    ASSUME lake \subseteq lake', lake' \subseteq Files, Cardinality(lake') <= PageSize
    PROVE  Cardinality(lake) <= PageSize
<1>1. IsFiniteSet(lake') /\ IsFiniteSet(lake)
    BY TrainerAssumption, FS_Subset
<1>2. Cardinality(lake) <= Cardinality(lake')
    BY <1>1, FS_Subset
<1>3. Cardinality(lake) \in Nat /\ Cardinality(lake') \in Nat
    BY <1>1, FS_CardinalityType
<1> QED
    BY <1>2, <1>3, TrainerAssumption

LEMMA InitIInv == Init => IInv
BY TrainerAssumption DEF Init, IInv, TypeOK, TrainedInv, NamedInv, UploadInv, UploadsOf,
   LinkInv, CheckpointInv, RecordedIsInTheModel, Steps, Models, Versions, Versioned, EmptyMap

-------------------------------------------------------------------------------
(* Types *)

LEMMA StepTypeOK == IInv /\ [Next]_vars => TypeOK'
<1> SUFFICES ASSUME IInv, [Next]_vars PROVE TypeOK'
    OBVIOUS
<1> USE TrainerAssumption DEF IInv, TypeOK, Step, Steps, storeVars, diskVars, trainerVars
<1>1. CASE AddGoldFile
    BY <1>1 DEF AddGoldFile
<1>2. CASE Tick
    BY <1>2 DEF Tick, Versions
<1>3. ASSUME NEW t \in Trainers, End(t)
      PROVE  /\ pc' \in [Trainers -> Steps]
             /\ listed' \in [Trainers -> Models]
             /\ trained' \in [Trainers -> Models]
             /\ version' \in [Trainers -> Versions]
             /\ sent' \in [Trainers -> 0..BundleSize]
    BY <1>3 DEF End, Models, Versions
<1>4. ASSUME NEW t \in Trainers, Run(t) PROVE TypeOK'
    <2>1. CASE ListForCheckpoint(t)
        <3>1. Page \in Models
            BY DEF Page, Models
        <3>2. run' \in [Trainers -> 0..MaxRuns]
            BY <2>1 DEF ListForCheckpoint
        <3>3. listed' \in [Trainers -> Models]
            BY <2>1, <3>1 DEF ListForCheckpoint
        <3> QED
            BY <2>1, <3>2, <3>3 DEF ListForCheckpoint
    <2>2. CASE SkipTraining(t)
        BY <1>3, <2>2 DEF SkipTraining
    <2>3. CASE FindNewFiles(t)
        BY <2>3 DEF FindNewFiles
    <2>4. CASE LoadAllGoldDatasets(t)
        BY <2>4 DEF LoadAllGoldDatasets, Page, Models
    <2>5. CASE NameVersion(t)
        <3>1. <<clock, t, run[t]>> \in Versions \X Trainers \X (1..MaxRuns)
            BY <2>5 DEF NameVersion, NamedInv
        <3> QED
            BY <2>5, <3>1 DEF NameVersion
    <2>6. CASE UploadFile(t)
        <3>1. sent[t] < BundleSize
            BY <2>6 DEF UploadFile, UploadInv, UploadsOf
        <3>2. sent' \in [Trainers -> 0..BundleSize] /\ pc' \in [Trainers -> Steps]
            BY <2>6, <3>1 DEF UploadFile
        <3>3. Uploaded(version[t]) \in [1..BundleSize -> Models]
            BY DEF Uploaded, Models
        <3>4. [Uploaded(version[t]) EXCEPT ![sent[t] + 1] = trained[t]]
                  \in [1..BundleSize -> Models]
            BY <3>3
        <3>5. \A v \in DOMAIN registry' :
                  v \in Versions /\ registry'[v] \in [1..BundleSize -> Models]
            BY <2>6, <3>4 DEF UploadFile, Put
        <3> QED
            BY <2>6, <3>2, <3>5 DEF UploadFile
    <2>7. CASE StageBundle(t)
        BY <2>7 DEF StageBundle, Put
    <2>8. CASE ClearNextLink(t)
        BY <2>8 DEF ClearNextLink
    <2>9. CASE MakeNextLink(t)
        BY <2>9 DEF MakeNextLink
    <2>10. CASE SwapLink(t)
        BY <2>10 DEF SwapLink
    <2>11. CASE SaveCheckpoint(t)
        BY <2>11 DEF SaveCheckpoint
    <2>12. CASE PublishModelReady(t)
        BY <1>3, <2>12 DEF PublishModelReady
    <2>13. CASE Fail(t)
        BY <1>3, <2>13 DEF Fail
    <2> QED
        BY <1>4, <2>1, <2>2, <2>3, <2>4, <2>5, <2>6, <2>7, <2>8, <2>9, <2>10, <2>11,
           <2>12, <2>13 DEF Run
<1>5. CASE UNCHANGED vars
    BY <1>5 DEF vars
<1> QED
    BY <1>1, <1>2, <1>4, <1>5 DEF Next

-------------------------------------------------------------------------------
(* The parts of the invariant *)

LEMMA StepTrainedInv == IInv /\ [Next]_vars => TrainedInv'
<1> SUFFICES ASSUME IInv, [Next]_vars PROVE TrainedInv'
    OBVIOUS
<1> USE DEF IInv, TypeOK, TrainedInv, Versioned, Step, storeVars, diskVars, trainerVars
<1>1. CASE AddGoldFile
    <2>1. lake \subseteq lake' /\ lake' \subseteq Files
        BY <1>1 DEF AddGoldFile
    <2>2. Cardinality(lake') <= PageSize => Cardinality(lake) <= PageSize
        BY <2>1, LakeGrows
    <2>3. UNCHANGED <<pc, listed, trained>>
        BY <1>1 DEF AddGoldFile
    <2> QED
        BY <2>1, <2>2, <2>3
<1>2. CASE Tick
    BY <1>2 DEF Tick
<1>3. ASSUME NEW t \in Trainers, Run(t) PROVE TrainedInv'
    <2>1. CASE ListForCheckpoint(t)
        <3>1. Page \subseteq lake /\ Page # {}
            BY <2>1 DEF ListForCheckpoint, Page
        <3> QED
            BY <2>1, <3>1 DEF ListForCheckpoint
    <2>2. CASE SkipTraining(t)
        BY <2>2 DEF SkipTraining, End
    <2>3. CASE FindNewFiles(t)
        BY <2>3 DEF FindNewFiles
    <2>4. CASE LoadAllGoldDatasets(t)
        <3>1. lake # {} /\ listed[t] \subseteq lake
            BY <2>4 DEF LoadAllGoldDatasets
        <3>2. Page # {}
            BY <3>1, PageNotEmpty
        <3>3. Cardinality(lake) <= PageSize => Page = lake
            BY PageIsAll
        <3> QED
            BY <2>4, <3>1, <3>2, <3>3 DEF LoadAllGoldDatasets
    <2>5. CASE NameVersion(t)
        BY <2>5 DEF NameVersion
    <2>6. CASE UploadFile(t)
        BY <2>6 DEF UploadFile
    <2>7. CASE StageBundle(t) \/ ClearNextLink(t) \/ MakeNextLink(t) \/ SwapLink(t)
        BY <2>7 DEF StageBundle, ClearNextLink, MakeNextLink, SwapLink
    <2>8. CASE SaveCheckpoint(t)
        BY <2>8 DEF SaveCheckpoint
    <2>9. CASE PublishModelReady(t) \/ Fail(t)
        BY <2>9 DEF PublishModelReady, Fail, End
    <2> QED
        BY <1>3, <2>1, <2>2, <2>3, <2>4, <2>5, <2>6, <2>7, <2>8, <2>9 DEF Run
<1>4. CASE UNCHANGED vars
    BY <1>4 DEF vars
<1> QED
    BY <1>1, <1>2, <1>3, <1>4 DEF Next

LEMMA StepNamedInv == IInv /\ [Next]_vars => NamedInv'
<1> SUFFICES ASSUME IInv, [Next]_vars PROVE NamedInv'
    OBVIOUS
<1> USE DEF IInv, TypeOK, NamedInv, Versioned, Step, storeVars, diskVars, trainerVars
<1>1. CASE AddGoldFile \/ Tick
    BY <1>1 DEF AddGoldFile, Tick
<1>2. ASSUME NEW t \in Trainers, Run(t) PROVE NamedInv'
    <2>1. CASE ListForCheckpoint(t)
        BY <2>1 DEF ListForCheckpoint
    <2>2. CASE SkipTraining(t)
        BY <2>2 DEF SkipTraining, End
    <2>3. CASE FindNewFiles(t)
        BY <2>3 DEF FindNewFiles
    <2>4. CASE LoadAllGoldDatasets(t)
        BY <2>4 DEF LoadAllGoldDatasets
    <2>5. CASE NameVersion(t)
        BY <2>5 DEF NameVersion
    <2>6. CASE UploadFile(t)
        BY <2>6 DEF UploadFile
    <2>7. CASE StageBundle(t) \/ ClearNextLink(t) \/ MakeNextLink(t) \/ SwapLink(t)
        BY <2>7 DEF StageBundle, ClearNextLink, MakeNextLink, SwapLink
    <2>8. CASE SaveCheckpoint(t)
        BY <2>8 DEF SaveCheckpoint
    <2>9. CASE PublishModelReady(t) \/ Fail(t)
        BY <2>9 DEF PublishModelReady, Fail, End
    <2> QED
        BY <1>2, <2>1, <2>2, <2>3, <2>4, <2>5, <2>6, <2>7, <2>8, <2>9 DEF Run
<1>3. CASE UNCHANGED vars
    BY <1>3 DEF vars
<1> QED
    BY <1>1, <1>2, <1>3 DEF Next

\* An upload writes one file of one version.
LEMMA UploadEffect ==
    ASSUME TypeOK, NEW t \in Trainers, UploadFile(t), sent[t] < BundleSize
    PROVE  /\ \A v \in DOMAIN registry : v \in DOMAIN registry'
           /\ version[t] \in DOMAIN registry'
           /\ registry'[version[t]][sent[t] + 1] = trained[t]
           /\ \A v \in DOMAIN registry : \A file \in 1..BundleSize :
                 v # version[t] \/ file # sent[t] + 1 =>
                     registry'[v][file] = registry[v][file]
<1> DEFINE bundle == [Uploaded(version[t]) EXCEPT ![sent[t] + 1] = trained[t]]
<1>1. registry' = Put(registry, version[t], bundle)
    BY DEF UploadFile
<1>2. DOMAIN registry' = DOMAIN registry \cup {version[t]}
    BY <1>1 DEF Put
<1>3. registry'[version[t]] = bundle
    BY <1>1 DEF Put
<1>4. Uploaded(version[t]) \in [1..BundleSize -> Models]
    BY DEF Uploaded, Models, TypeOK
<1>5. sent[t] + 1 \in 1..BundleSize
    BY TrainerAssumption DEF TypeOK
<1>6. bundle[sent[t] + 1] = trained[t]
    BY <1>4, <1>5
<1>7. \A file \in 1..BundleSize :
          file # sent[t] + 1 => bundle[file] = Uploaded(version[t])[file]
    BY <1>4
<1>8. \A v \in DOMAIN registry : v # version[t] => registry'[v] = registry[v]
    BY <1>1 DEF Put
<1>9. version[t] \in DOMAIN registry => Uploaded(version[t]) = registry[version[t]]
    BY DEF Uploaded
<1> HIDE DEF bundle
<1> QED
    BY <1>2, <1>3, <1>6, <1>7, <1>8, <1>9

\* Two runs that hold the same version share it.
LEMMA TwoRunsShare ==
    ASSUME NamedInv, NEW t \in Trainers, NEW u \in Trainers, t # u,
           pc[t] \in Versioned, pc[u] \in Versioned, version[t] = version[u]
    PROVE  Shared(version[t])
<1>1. <<version[t], t, run[t]>> \in named /\ <<version[t], u, run[u]>> \in named
    BY DEF NamedInv
<1>2. <<version[t], t, run[t]>> # <<version[t], u, run[u]>>
    OBVIOUS
<1> QED
    BY <1>1, <1>2 DEF Shared

\* A version once shared stays so.
LEMMA SharedStays == ASSUME named \subseteq named', NEW v, Shared(v) PROVE Shared(v)'
BY DEF Shared

\* What a step does not touch.
LEMMA UploadsStay ==
    ASSUME NEW u \in Trainers, UploadsOf(u), named \subseteq named', registry' = registry,
           pc'[u] \in Versioned =>
               /\ pc[u] \in Versioned
               /\ pc[u] = "upload" <=> pc'[u] = "upload"
               /\ UNCHANGED <<version[u], sent[u], trained[u]>>
    PROVE  UploadsOf(u)'
<1>1. CASE pc'[u] \notin Versioned
    BY <1>1 DEF UploadsOf, Versioned
<1>2. CASE pc'[u] \in Versioned
    <2>1. Shared(version[u]) => Shared(version[u])'
        BY <1>2 DEF Shared
    <2> QED
        BY <1>2, <2>1 DEF UploadsOf
<1> QED
    BY <1>1, <1>2

LEMMA UploadFileUploads ==
    ASSUME IInv, NEW t \in Trainers, UploadFile(t), NEW u \in Trainers
    PROVE  UploadsOf(u)'
<1>1. /\ sent[t] \in Nat /\ sent[t] < BundleSize /\ sent[u] \in Nat
      /\ pc[t] = "upload" /\ pc[t] \in Versioned
    BY DEF UploadFile, IInv, UploadInv, UploadsOf, TypeOK, Step, Versioned
<1>2. /\ \A v \in DOMAIN registry : v \in DOMAIN registry'
      /\ version[t] \in DOMAIN registry'
      /\ registry'[version[t]][sent[t] + 1] = trained[t]
      /\ \A v \in DOMAIN registry : \A file \in 1..BundleSize :
            v # version[t] \/ file # sent[t] + 1 =>
                registry'[v][file] = registry[v][file]
    BY <1>1, UploadEffect DEF IInv
<1>3. UNCHANGED <<named, trained, version>>
    BY DEF UploadFile
<1>4. /\ u # t => UNCHANGED <<pc[u], sent[u]>>
      /\ sent'[t] = sent[t] + 1
      /\ pc'[t] = IF sent[t] + 1 = BundleSize THEN "stage" ELSE "upload"
    BY DEF UploadFile, IInv, TypeOK, Step
<1>5. trained[t] # {}
    BY <1>1 DEF IInv, TrainedInv
<1>6. Shared(version[u])' <=> Shared(version[u])
    BY <1>3 DEF Shared
<1>7. UploadsOf(u)
    BY DEF IInv, UploadInv
<1>8. /\ pc'[u] = "upload" => sent'[u] < BundleSize
      /\ pc'[u] \in Versioned \ {"upload"} => sent'[u] = BundleSize
      /\ pc'[u] \in Versioned => pc[u] \in Versioned
    BY <1>1, <1>4, <1>7, TrainerAssumption DEF UploadsOf, Versioned
<1>9. ASSUME NEW file \in 1..sent'[u], pc'[u] \in Versioned
      PROVE  /\ version[u] \in DOMAIN registry'
             /\ registry'[version[u]][file] # {}
             /\ ~Shared(version[u]) => registry'[version[u]][file] = trained[u]
    <2>1. CASE u = t /\ file = sent[t] + 1
        BY <1>2, <1>5, <2>1
    <2>2. CASE ~(u = t /\ file = sent[t] + 1)
        <3>1. file \in 1..sent[u] /\ file \in 1..BundleSize
            BY <1>1, <1>4, <1>8, <1>9, <2>2, TrainerAssumption DEF Versioned
        <3>2. /\ version[u] \in DOMAIN registry
              /\ registry[version[u]][file] # {}
              /\ ~Shared(version[u]) => registry[version[u]][file] = trained[u]
            BY <1>7, <1>8, <1>9, <3>1 DEF UploadsOf
        <3>3. CASE version[u] # version[t] \/ file # sent[t] + 1
            BY <1>2, <3>1, <3>2, <3>3
        <3>4. CASE version[u] = version[t] /\ file = sent[t] + 1
            <4>1. u # t
                BY <2>2, <3>4
            <4>2. Shared(version[u])
                BY <1>1, <1>8, <1>9, <3>4, <4>1, TwoRunsShare DEF IInv
            <4> QED
                BY <1>2, <1>5, <3>4, <4>2
        <3> QED
            BY <3>3, <3>4
    <2> QED
        BY <2>1, <2>2
<1> QED
    BY <1>3, <1>6, <1>8, <1>9 DEF UploadsOf

LEMMA StepUploadInv == IInv /\ [Next]_vars => UploadInv'
<1> SUFFICES ASSUME IInv, [Next]_vars, NEW u \in Trainers PROVE UploadsOf(u)'
    BY DEF UploadInv
<1>1. UploadsOf(u)
    BY DEF IInv, UploadInv
<1>2. TypeOK
    BY DEF IInv
<1> USE DEF TypeOK, Versioned, Step, storeVars, diskVars, trainerVars
<1>3. CASE AddGoldFile \/ Tick
    BY <1>1, <1>3, UploadsStay DEF AddGoldFile, Tick
<1>4. ASSUME NEW t \in Trainers, Run(t) PROVE UploadsOf(u)'
    <2>1. CASE ListForCheckpoint(t)
        BY <1>1, <1>2, <2>1, UploadsStay DEF ListForCheckpoint
    <2>2. CASE SkipTraining(t)
        BY <1>1, <1>2, <2>2, UploadsStay DEF SkipTraining, End
    <2>3. CASE FindNewFiles(t)
        BY <1>1, <1>2, <2>3, UploadsStay DEF FindNewFiles
    <2>4. CASE LoadAllGoldDatasets(t)
        BY <1>1, <1>2, <2>4, UploadsStay DEF LoadAllGoldDatasets
    <2>5. CASE NameVersion(t)
        <3>1. CASE u = t
            <4>1. pc'[u] = "upload" /\ sent'[u] = 0
                BY <1>2, <2>5, <3>1 DEF NameVersion
            <4> QED
                BY <4>1, TrainerAssumption DEF UploadsOf
        <3>2. CASE u # t
            BY <1>1, <1>2, <2>5, <3>2, UploadsStay DEF NameVersion
        <3> QED
            BY <3>1, <3>2
    <2>6. CASE UploadFile(t)
        BY <2>6, UploadFileUploads
    <2>7. CASE StageBundle(t) \/ ClearNextLink(t)
        BY <1>1, <1>2, <2>7, UploadsStay DEF StageBundle, ClearNextLink
    <2>8. CASE MakeNextLink(t) \/ SwapLink(t)
        BY <1>1, <1>2, <2>8, UploadsStay DEF MakeNextLink, SwapLink
    <2>9. CASE SaveCheckpoint(t)
        BY <1>1, <1>2, <2>9, UploadsStay DEF SaveCheckpoint
    <2>10. CASE PublishModelReady(t) \/ Fail(t)
        BY <1>1, <1>2, <2>10, UploadsStay DEF PublishModelReady, Fail, End
    <2> QED
        BY <1>4, <2>1, <2>2, <2>3, <2>4, <2>5, <2>6, <2>7, <2>8, <2>9, <2>10 DEF Run
<1>5. CASE UNCHANGED vars
    BY <1>1, <1>5, UploadsStay DEF vars
<1> QED
    BY <1>3, <1>4, <1>5 DEF Next

\* Neither the registry nor the model directory loses anything.
LEMMA CompleteStays ==
    ASSUME IInv, [Next]_vars, NEW v \in DOMAIN registry,
           \A file \in 1..BundleSize : registry[v][file] # {}
    PROVE  /\ v \in DOMAIN registry'
           /\ \A file \in 1..BundleSize : registry'[v][file] # {}
           /\ v \in DOMAIN versions => v \in DOMAIN versions'
<1>1. CASE registry' = registry /\ versions' = versions
    BY <1>1
<1>2. ASSUME NEW t \in Trainers, UploadFile(t)
      PROVE  /\ v \in DOMAIN registry'
             /\ \A file \in 1..BundleSize : registry'[v][file] # {}
             /\ versions' = versions
    <2>1. sent[t] < BundleSize /\ trained[t] # {} /\ versions' = versions
        BY <1>2 DEF UploadFile, Step, IInv, UploadInv, UploadsOf, TrainedInv, Versioned,
           diskVars
    <2>2. /\ v \in DOMAIN registry'
          /\ registry'[version[t]][sent[t] + 1] = trained[t]
          /\ \A file \in 1..BundleSize :
                v # version[t] \/ file # sent[t] + 1 =>
                    registry'[v][file] = registry[v][file]
        BY <1>2, <2>1, UploadEffect DEF IInv
    <2> QED
        BY <2>1, <2>2
<1>3. ASSUME NEW t \in Trainers, StageBundle(t)
      PROVE  registry' = registry /\ DOMAIN versions \subseteq DOMAIN versions'
    BY <1>3 DEF StageBundle, Put, storeVars
<1>4. CASE UNCHANGED vars
    BY <1>1, <1>4 DEF vars, storeVars, diskVars
<1>5. CASE AddGoldFile \/ Tick
    BY <1>1, <1>5 DEF AddGoldFile, Tick, storeVars, diskVars
<1>6. ASSUME NEW t \in Trainers, Run(t), ~UploadFile(t), ~StageBundle(t)
      PROVE  registry' = registry /\ versions' = versions
    BY <1>6 DEF Run, ListForCheckpoint, SkipTraining, FindNewFiles, LoadAllGoldDatasets,
       NameVersion, ClearNextLink, MakeNextLink, SwapLink, SaveCheckpoint,
       PublishModelReady, Fail, storeVars, diskVars
<1>7. CASE \E t \in Trainers : Run(t)
    BY <1>1, <1>2, <1>3, <1>6, <1>7
<1> QED
    BY <1>4, <1>5, <1>7 DEF Next

LEMMA StepLinkInv == IInv /\ [Next]_vars => LinkInv'
<1> SUFFICES ASSUME IInv, [Next]_vars PROVE LinkInv'
    OBVIOUS
<1>1. \A v : /\ v \in DOMAIN versions
             /\ v \in DOMAIN registry
             /\ \A file \in 1..BundleSize : registry[v][file] # {}
             => /\ v \in DOMAIN versions'
                /\ v \in DOMAIN registry'
                /\ \A file \in 1..BundleSize : registry'[v][file] # {}
    BY CompleteStays
<1>2. TypeOK /\ LinkInv
    BY DEF IInv
<1> USE DEF TypeOK, LinkInv, Complete, Versioned, Step, storeVars, diskVars, trainerVars
<1>3. CASE AddGoldFile \/ Tick
    BY <1>2, <1>3 DEF AddGoldFile, Tick
<1>4. ASSUME NEW t \in Trainers, Run(t) PROVE LinkInv'
    <2>1. CASE ListForCheckpoint(t)
        BY <1>2, <2>1 DEF ListForCheckpoint
    <2>2. CASE SkipTraining(t)
        BY <1>2, <2>2 DEF SkipTraining, End
    <2>3. CASE FindNewFiles(t)
        BY <1>2, <2>3 DEF FindNewFiles
    <2>4. CASE LoadAllGoldDatasets(t)
        BY <1>2, <2>4 DEF LoadAllGoldDatasets
    <2>5. CASE NameVersion(t)
        BY <1>2, <2>5 DEF NameVersion
    <2>6. CASE UploadFile(t)
        BY <1>1, <1>2, <2>6 DEF UploadFile
    <2>7. CASE StageBundle(t)
        <3>1. /\ version[t] \in DOMAIN registry
              /\ \A file \in 1..BundleSize : registry[version[t]][file] # {}
            <4>1. UploadsOf(t)
                BY DEF IInv, UploadInv
            <4>2. pc[t] = "stage"
                BY <2>7 DEF StageBundle
            <4>3. sent[t] = BundleSize
                BY <4>1, <4>2 DEF UploadsOf
            <4> QED
                BY <4>1, <4>2, <4>3, TrainerAssumption DEF UploadsOf
        <3>2. version[t] \in DOMAIN versions' /\ registry' = registry
            BY <2>7 DEF StageBundle, Put
        <3> QED
            BY <1>1, <1>2, <2>7, <3>1, <3>2 DEF StageBundle
    <2>8. CASE ClearNextLink(t)
        BY <1>2, <2>8 DEF ClearNextLink
    <2>9. CASE MakeNextLink(t)
        BY <1>2, <2>9 DEF MakeNextLink
    <2>10. CASE SwapLink(t)
        BY <1>2, <2>10 DEF SwapLink
    <2>11. CASE SaveCheckpoint(t)
        BY <1>2, <2>11 DEF SaveCheckpoint
    <2>12. CASE PublishModelReady(t)
        BY <1>2, <2>12 DEF PublishModelReady, End
    <2>13. CASE Fail(t)
        BY <1>2, <2>13 DEF Fail, End
    <2> QED
        BY <1>4, <2>1, <2>2, <2>3, <2>4, <2>5, <2>6, <2>7, <2>8, <2>9, <2>10, <2>11,
           <2>12, <2>13 DEF Run
<1>5. CASE UNCHANGED vars
    BY <1>2, <1>5 DEF vars
<1> QED
    BY <1>3, <1>4, <1>5 DEF Next

\* Only a finished upload is recorded, and no later run has the same claim.
LEMMA StepCheckpointInv == IInv /\ [Next]_vars => CheckpointInv'
<1> SUFFICES ASSUME IInv, [Next]_vars PROVE CheckpointInv'
    OBVIOUS
<1>1. TypeOK /\ NamedInv /\ CheckpointInv
    BY DEF IInv
<1>2. ASSUME checkpoint' = checkpoint, named \subseteq named',
             \A t \in Trainers : pc'[t] \notin {"ended", "publish"} =>
                 \/ pc[t] \notin {"ended", "publish"} /\ run'[t] = run[t]
                 \/ \A c \in named : c[2] = t => c[3] # run'[t]
      PROVE  CheckpointInv'
    BY <1>1, <1>2 DEF CheckpointInv
<1> USE DEF TypeOK, Step, storeVars, diskVars, trainerVars
<1>3. CASE AddGoldFile \/ Tick
    BY <1>1, <1>2, <1>3 DEF AddGoldFile, Tick
<1>4. ASSUME NEW t \in Trainers, Run(t) PROVE CheckpointInv'
    <2>1. CASE ListForCheckpoint(t)
        <3>1. run'[t] = run[t] + 1 /\ run[t] \in Nat
            BY <1>1, <2>1 DEF ListForCheckpoint
        <3>2. \A c \in named : c[2] = t => c[3] # run'[t]
            BY <1>1, <3>1 DEF NamedInv
        <3>3. \A u \in Trainers : u # t => pc'[u] = pc[u] /\ run'[u] = run[u]
            BY <1>1, <2>1 DEF ListForCheckpoint
        <3> QED
            BY <1>2, <2>1, <3>2, <3>3 DEF ListForCheckpoint
    <2>2. CASE SkipTraining(t) \/ Fail(t)
        BY <1>1, <1>2, <2>2 DEF SkipTraining, Fail, End
    <2>3. CASE FindNewFiles(t) \/ LoadAllGoldDatasets(t)
        BY <1>1, <1>2, <2>3 DEF FindNewFiles, LoadAllGoldDatasets
    <2>4. CASE NameVersion(t)
        BY <1>1, <1>2, <2>4 DEF NameVersion
    <2>5. CASE UploadFile(t)
        BY <1>1, <1>2, <2>5 DEF UploadFile
    <2>6. CASE StageBundle(t) \/ ClearNextLink(t)
        BY <1>1, <1>2, <2>6 DEF StageBundle, ClearNextLink
    <2>7. CASE MakeNextLink(t) \/ SwapLink(t)
        BY <1>1, <1>2, <2>7 DEF MakeNextLink, SwapLink
    <2>8. CASE SaveCheckpoint(t)
        <3> DEFINE c == <<version[t], t, run[t]>>
        <3>1. c \in named /\ named' = named /\ run' = run
            BY <1>1, <2>8 DEF SaveCheckpoint, NamedInv, Versioned
        <3>2. checkpoint'.version = version[t]
            BY <2>8 DEF SaveCheckpoint
        <3>3. pc'[t] = "publish"
            BY <1>1, <2>8 DEF SaveCheckpoint
        <3>4. c[1] = version[t] /\ c[2] = t
            OBVIOUS
        <3> HIDE DEF c
        <3> QED
            BY <3>1, <3>2, <3>3, <3>4 DEF CheckpointInv
    <2>9. CASE PublishModelReady(t)
        BY <1>1, <1>2, <2>9 DEF PublishModelReady, End
    <2> QED
        BY <1>4, <2>1, <2>2, <2>3, <2>4, <2>5, <2>6, <2>7, <2>8, <2>9 DEF Run
<1>5. CASE UNCHANGED vars
    BY <1>1, <1>2, <1>5 DEF vars
<1> QED
    BY <1>3, <1>4, <1>5 DEF Next

\* The recorded version keeps the model it was recorded with.
LEMMA StepRecorded == IInv /\ [Next]_vars => RecordedIsInTheModel'
<1> SUFFICES ASSUME IInv, [Next]_vars PROVE RecordedIsInTheModel'
    OBVIOUS
<1>1. TypeOK /\ RecordedIsInTheModel
    BY DEF IInv
<1>2. ASSUME checkpoint' = checkpoint, named \subseteq named', registry' = registry,
             lake \subseteq lake', lake' \subseteq Files
      PROVE  RecordedIsInTheModel'
    <2>1. Cardinality(lake') <= PageSize => Cardinality(lake) <= PageSize
        BY <1>2, LakeGrows
    <2>2. Shared(checkpoint.version) => Shared(checkpoint.version)'
        BY <1>2 DEF Shared
    <2> QED
        BY <1>1, <1>2, <2>1, <2>2 DEF RecordedIsInTheModel
<1>3. ASSUME NEW t \in Trainers, UploadFile(t) PROVE RecordedIsInTheModel'
    <2>1. UNCHANGED <<checkpoint, lake, named>>
        BY <1>3 DEF UploadFile
    <2>2. SUFFICES ASSUME checkpoint # None, Cardinality(lake) <= PageSize,
                          ~Shared(checkpoint.version)
                   PROVE  /\ checkpoint.version \in DOMAIN registry'
                          /\ \E m \in Models :
                                /\ registry'[checkpoint.version]
                                       = [file \in 1..BundleSize |-> m]
                                /\ checkpoint.files \subseteq m
        BY <2>1 DEF RecordedIsInTheModel, Shared
    <2>3. version[t] # checkpoint.version
        <3>1. PICK c \in named :
                  /\ c[1] = checkpoint.version
                  /\ pc[t] \notin {"ended", "publish"} => c[2] # t \/ c[3] # run[t]
            BY <2>2 DEF IInv, CheckpointInv
        <3>2. pc[t] = "upload"
            BY <1>3 DEF UploadFile, Step
        <3> DEFINE d == <<version[t], t, run[t]>>
        <3>3. d \in named
            BY <3>2 DEF IInv, NamedInv, Versioned
        <3>4. d[1] = version[t] /\ d[2] = t /\ d[3] = run[t]
            OBVIOUS
        <3> HIDE DEF d
        <3>5. c # d
            BY <3>1, <3>2, <3>4
        <3> QED
            BY <2>2, <3>1, <3>3, <3>4, <3>5 DEF Shared
    <2>4. /\ checkpoint.version \in DOMAIN registry
          /\ \E m \in Models :
                /\ registry[checkpoint.version] = [file \in 1..BundleSize |-> m]
                /\ checkpoint.files \subseteq m
        BY <1>1, <2>2 DEF RecordedIsInTheModel
    <2>5. /\ checkpoint.version \in DOMAIN registry'
          /\ registry'[checkpoint.version] = registry[checkpoint.version]
        BY <1>3, <2>3, <2>4 DEF UploadFile, Put
    <2> QED
        BY <2>4, <2>5
<1>4. ASSUME NEW t \in Trainers, SaveCheckpoint(t) PROVE RecordedIsInTheModel'
    <2>1. /\ checkpoint' = [files |-> listed[t], version |-> version[t]]
          /\ UNCHANGED <<lake, registry, named, trained>>
          /\ pc[t] = "save"
        BY <1>4 DEF SaveCheckpoint, Step
    <2>2. checkpoint'.files = listed[t] /\ checkpoint'.version = version[t]
        BY <2>1
    <2>3. SUFFICES ASSUME Cardinality(lake) <= PageSize, ~Shared(version[t])
                   PROVE  /\ version[t] \in DOMAIN registry
                          /\ registry[version[t]] = [file \in 1..BundleSize |-> trained[t]]
                          /\ listed[t] \subseteq trained[t]
                          /\ trained[t] \in Models
        BY <2>1, <2>2 DEF RecordedIsInTheModel, Shared
    <2>4. UploadsOf(t)
        BY DEF IInv, UploadInv
    <2>5. sent[t] = BundleSize
        BY <2>1, <2>4 DEF UploadsOf, Versioned
    <2>6. \A file \in 1..BundleSize :
              version[t] \in DOMAIN registry /\ registry[version[t]][file] = trained[t]
        BY <2>1, <2>3, <2>4, <2>5 DEF UploadsOf, Versioned
    <2>7. version[t] \in DOMAIN registry
        BY <2>6, TrainerAssumption
    <2>8. registry[version[t]] \in [1..BundleSize -> Models] /\ trained[t] \in Models
        BY <1>1, <2>7 DEF TypeOK
    <2>9. registry[version[t]] = [file \in 1..BundleSize |-> trained[t]]
        BY <2>6, <2>8
    <2>10. listed[t] \subseteq trained[t]
        BY <2>1, <2>3 DEF IInv, TrainedInv, Versioned
    <2> QED
        BY <2>7, <2>8, <2>9, <2>10
<1> USE DEF TypeOK, storeVars, diskVars, trainerVars
<1>5. CASE AddGoldFile \/ Tick
    BY <1>1, <1>2, <1>5 DEF AddGoldFile, Tick
<1>6. ASSUME NEW t \in Trainers, Run(t), ~UploadFile(t), ~SaveCheckpoint(t)
      PROVE  /\ UNCHANGED <<checkpoint, registry, lake>>
             /\ named \subseteq named'
    BY <1>6 DEF Run, ListForCheckpoint, SkipTraining, FindNewFiles, LoadAllGoldDatasets,
       NameVersion, StageBundle, ClearNextLink, MakeNextLink, SwapLink,
       PublishModelReady, Fail
<1>7. CASE \E t \in Trainers : Run(t)
    BY <1>1, <1>2, <1>3, <1>4, <1>6, <1>7
<1>8. CASE UNCHANGED vars
    BY <1>1, <1>2, <1>8 DEF vars
<1> QED
    BY <1>5, <1>7, <1>8 DEF Next

-------------------------------------------------------------------------------
(* Theorems *)

\* The invariant holds in every reachable state.
THEOREM SpecIInv == Spec => []IInv
<1>1. IInv /\ [Next]_vars => IInv'
    BY StepTypeOK, StepTrainedInv, StepNamedInv, StepUploadInv, StepLinkInv,
       StepCheckpointInv, StepRecorded DEF IInv
<1> QED
    BY <1>1, InitIInv, PTL DEF Spec

\* Every variable keeps its type, for any trainers, files and bounds.
THEOREM SpecTypeOK == Spec => []TypeOK
BY SpecIInv, PTL DEF IInv

\* Whatever the active link leads to or model.ready announces is complete
\* (s3_client.py:109-117), however many trainers use the one .current-next.
THEOREM SpecReleasedIsComplete == Spec => []ReleasedIsComplete
<1>1. IInv => ReleasedIsComplete
    BY DEF IInv, LinkInv, Complete, ReleasedIsComplete
<1> QED
    BY <1>1, SpecIInv, PTL

\* What the checkpoint records is in the model of its version while the lake fits
\* in a page and the version is not shared (batch_trainer.py:41-52).
THEOREM SpecRecordedIsInTheModel == Spec => []RecordedIsInTheModel
BY SpecIInv, PTL DEF IInv
================================================================================
