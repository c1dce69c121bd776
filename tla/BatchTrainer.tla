------------------------------ MODULE BatchTrainer ------------------------------
(***************************************************************************)
(* apps/ml-platform/python-ml-worker, mode train-all: a process that is    *)
(* started by hand, trains one model on every gold file of the lake, and   *)
(* leaves a checkpoint of the files it has seen, so that the next run is   *)
(* skipped when there is no new one.  Nothing keeps two such processes, or *)
(* one and the streaming worker, from running at the same time: they share *)
(* the lake, the model registry and the model directory.                   *)
(*                                                                         *)
(* Meanwhile the structured streamer adds gold files.  Their keys are      *)
(* numbers here, in the order in which the store lists them.               *)
(***************************************************************************)
EXTENDS Integers, FiniteSets

CONSTANTS
    Trainers,    \* processes that run run_train_all
    Files,       \* keys of gold files
    PageSize,    \* how many keys list_objects_v2 returns: 1000
    BundleSize,  \* files of a model bundle
    None,        \* no checkpoint, no symlink
    MaxRuns,     \* bound: runs of a trainer
    MaxClock     \* bound: seconds that pass

ASSUME TrainerAssumption ==
    /\ Files \subseteq Nat /\ IsFiniteSet(Files)
    /\ PageSize \in Nat \ {0} /\ BundleSize \in Nat \ {0}
    /\ None \notin Nat
    /\ MaxRuns \in Nat /\ MaxClock \in Nat

VARIABLES
    lake,        \* the gold files in the store
    checkpoint,  \* manifests/ml-training-checkpoint.json
    registry,    \* version -> bundle in the model bucket: file -> its model
    versions,    \* version -> model in models/versions/<version>
    nextLink,    \* where the symlink models/.current-next points
    current,     \* where the symlink models/current points
    announced,   \* the versions on model.ready
    clock,       \* seconds
    named,       \* history: which run took which version
    run,         \* trainer -> number of its run
    pc,          \* trainer -> where it is
    listed,      \* trainer -> all_files, the keys of its first listing
    trained,     \* trainer -> the files its model is trained on
    version,     \* trainer -> version of that model
    sent         \* trainer -> how many files of the bundle are uploaded

storeVars   == <<lake, checkpoint, registry, announced>>
diskVars    == <<versions, nextLink, current>>
trainerVars == <<run, pc, listed, trained, version, sent>>
vars == <<storeVars, diskVars, clock, named, trainerVars>>

\* A model is determined by the files it was trained on: training has fixed seeds.
Models   == SUBSET Files
Versions == 0..MaxClock
EmptyMap == [x \in {} |-> {}]
Put(map, key, value) ==
    [k \in DOMAIN map \cup {key} |-> IF k = key THEN value ELSE map[k]]

Init ==
    /\ lake = {}
    /\ checkpoint = None
    /\ registry = EmptyMap
    /\ announced = {}
    /\ versions = EmptyMap
    /\ nextLink = None
    /\ current = None
    /\ clock = 0
    /\ named = {}
    /\ run = [t \in Trainers |-> 0]
    /\ pc = [t \in Trainers |-> "ended"]
    /\ listed = [t \in Trainers |-> {}]
    /\ trained = [t \in Trainers |-> {}]
    /\ version = [t \in Trainers |-> 0]
    /\ sent = [t \in Trainers |-> 0]

-------------------------------------------------------------------------------
(* A run *)

Step(t, from, to) == pc[t] = from /\ pc' = [pc EXCEPT ![t] = to]

\* The process ends, and its memory with it.
End(t) ==
    /\ pc' = [pc EXCEPT ![t] = "ended"]
    /\ listed' = [listed EXCEPT ![t] = {}]
    /\ trained' = [trained EXCEPT ![t] = {}]
    /\ version' = [version EXCEPT ![t] = 0]
    /\ sent' = [sent EXCEPT ![t] = 0]

\* One answer of list_objects_v2, whose continuation is never asked for.
Page == {f \in lake : Cardinality({g \in lake : g < f}) < PageSize}

\* run_train_all begins with the listing of check_unprocessed_gold_files; an
\* empty lake ends it at once, which changes nothing.
ListForCheckpoint(t) ==
    /\ run[t] < MaxRuns
    /\ Page # {}
    /\ Step(t, "ended", "check")
    /\ run' = [run EXCEPT ![t] = @ + 1]
    /\ listed' = [listed EXCEPT ![t] = Page]
    /\ UNCHANGED <<storeVars, diskVars, clock, named, trained, version, sent>>

\* get_ml_checkpoint, which takes any failure for an empty checkpoint, and the
\* comparison with the listing: there is nothing new ...
Processed(readable) ==
    IF readable /\ checkpoint # None THEN checkpoint.files ELSE {}

SkipTraining(t) ==
    /\ pc[t] = "check"
    /\ listed[t] \subseteq Processed(TRUE)
    /\ End(t)
    /\ UNCHANGED <<storeVars, diskVars, clock, named, run>>

\* ... or there is.
FindNewFiles(t) ==
    /\ \E readable \in BOOLEAN : ~(listed[t] \subseteq Processed(readable))
    /\ Step(t, "check", "load")
    /\ UNCHANGED <<storeVars, diskVars, clock, named, run, listed, trained, version,
                   sent>>

\* load_all_gold_datasets lists the lake a second time.
LoadAllGoldDatasets(t) ==
    /\ Step(t, "load", "name")
    /\ trained' = [trained EXCEPT ![t] = Page]
    /\ UNCHANGED <<storeVars, diskVars, clock, named, run, listed, version, sent>>

\* The version is the second of the clock; then the model is trained.
NameVersion(t) ==
    /\ Step(t, "name", "upload")
    /\ version' = [version EXCEPT ![t] = clock]
    /\ sent' = [sent EXCEPT ![t] = 0]
    /\ named' = named \cup {<<clock, t, run[t]>>}
    /\ UNCHANGED <<storeVars, diskVars, clock, run, listed, trained>>

\* upload_model_bundle, a put per file.
Uploaded(v) == IF v \in DOMAIN registry THEN registry[v]
               ELSE [file \in 1..BundleSize |-> {}]

UploadFile(t) ==
    /\ Step(t, "upload", IF sent[t] + 1 = BundleSize THEN "stage" ELSE "upload")
    /\ sent' = [sent EXCEPT ![t] = @ + 1]
    /\ registry' = Put(registry, version[t],
                       [Uploaded(version[t]) EXCEPT ![sent[t] + 1] = trained[t]])
    /\ UNCHANGED <<lake, checkpoint, announced, diskVars, clock, named, run, listed,
                   trained, version>>

\* activate_local_bundle up to the rename of the staging directory; a directory
\* of that version must hold the same model.
StageBundle(t) ==
    /\ Step(t, "stage", "clear")
    /\ version[t] \in DOMAIN versions => versions[version[t]] = trained[t]
    /\ versions' = Put(versions, version[t], trained[t])
    /\ UNCHANGED <<storeVars, nextLink, current, clock, named, run, listed, trained,
                   version, sent>>

\* A .current-next that is left over, or another's, is removed.
ClearNextLink(t) ==
    /\ Step(t, "clear", "link")
    /\ nextLink' = None
    /\ UNCHANGED <<storeVars, versions, current, clock, named, run, listed, trained,
                   version, sent>>

\* symlink_to refuses a name that exists.
MakeNextLink(t) ==
    /\ Step(t, "link", "swap")
    /\ nextLink = None
    /\ nextLink' = version[t]
    /\ UNCHANGED <<storeVars, versions, current, clock, named, run, listed, trained,
                   version, sent>>

\* Mutation: what the listing finds now is recorded.
SaveAnotherListing(t) ==
    /\ Step(t, "save", "publish")
    /\ checkpoint' = [files |-> Page, version |-> version[t]]
    /\ UNCHANGED <<lake, registry, announced, diskVars, clock, named, run, listed,
                   trained, version, sent>>

\* Mutation: the link is moved by the version that the run knows, before the
\* directory is renamed.
LinkBeforeStage(t) ==
    /\ Step(t, "stage", "save")
    /\ current' = version[t]
    /\ UNCHANGED <<storeVars, versions, nextLink, clock, named, run, listed, trained,
                   version, sent>>

\* os.replace(.current-next, current): whoever made the link.
SwapLink(t) ==
    /\ Step(t, "swap", "save")
    /\ nextLink # None
    /\ current' = nextLink
    /\ nextLink' = None
    /\ UNCHANGED <<storeVars, versions, clock, named, run, listed, trained, version,
                   sent>>

\* save_ml_checkpoint replaces the checkpoint by the first listing.
SaveCheckpoint(t) ==
    /\ Step(t, "save", "publish")
    /\ checkpoint' = [files |-> listed[t], version |-> version[t]]
    /\ UNCHANGED <<lake, registry, announced, diskVars, clock, named, run, listed,
                   trained, version, sent>>

\* publish_model_ready, whose failure is only printed.
PublishModelReady(t) ==
    /\ pc[t] = "publish"
    /\ announced' \in {announced, announced \cup {version[t]}}
    /\ End(t)
    /\ UNCHANGED <<lake, checkpoint, registry, diskVars, clock, named, run>>

\* Any exception ends the run, as does a death of the process: a failed call, a
\* version collision, a .current-next that appeared or disappeared.
Fail(t) ==
    /\ pc[t] # "ended"
    /\ End(t)
    /\ UNCHANGED <<storeVars, diskVars, clock, named, run>>

-------------------------------------------------------------------------------
(* The surroundings *)

\* The structured streamer uploads a gold file; keys are not added in order.
AddGoldFile ==
    /\ \E f \in Files \ lake : lake' = lake \cup {f}
    /\ UNCHANGED <<checkpoint, registry, announced, diskVars, clock, named, trainerVars>>

Tick ==
    /\ clock < MaxClock
    /\ clock' = clock + 1
    /\ UNCHANGED <<storeVars, diskVars, named, trainerVars>>

Run(t) ==
    \/ ListForCheckpoint(t) \/ SkipTraining(t) \/ FindNewFiles(t)
    \/ LoadAllGoldDatasets(t) \/ NameVersion(t) \/ UploadFile(t)
    \/ StageBundle(t) \/ ClearNextLink(t) \/ MakeNextLink(t) \/ SwapLink(t)
    \/ SaveCheckpoint(t) \/ PublishModelReady(t) \/ Fail(t)

Next == AddGoldFile \/ Tick \/ \E t \in Trainers : Run(t)

Spec == Init /\ [][Next]_vars

-------------------------------------------------------------------------------
(* Properties *)

Steps == {"ended", "check", "load", "name", "upload", "stage", "clear", "link",
          "swap", "save", "publish"}

\* Every variable stays in its domain.
TypeOK ==
    /\ lake \subseteq Files
    /\ checkpoint \in [files: Models, version: Versions] \cup {None}
    /\ \A v \in DOMAIN registry :
           v \in Versions /\ registry[v] \in [1..BundleSize -> Models]
    /\ \A v \in DOMAIN versions : v \in Versions /\ versions[v] \in Models
    /\ nextLink \in Versions \cup {None}
    /\ current \in Versions \cup {None}
    /\ announced \subseteq Versions
    /\ clock \in Versions
    /\ named \subseteq Versions \X Trainers \X (1..MaxRuns)
    /\ run \in [Trainers -> 0..MaxRuns]
    /\ pc \in [Trainers -> Steps]
    /\ listed \in [Trainers -> Models]
    /\ trained \in [Trainers -> Models]
    /\ version \in [Trainers -> Versions]
    /\ sent \in [Trainers -> 0..BundleSize]

\* Two runs named their models in the same second.
Shared(v) == \E c, d \in named : c # d /\ c[1] = v /\ d[1] = v

\* A file that the checkpoint records is never trained on again, so the model of
\* the recorded version must know it: its bundle is in the registry with all its
\* files, all of one model, and that model is trained on every recorded file
\* (batch_trainer.py:41-52).  That needs the second listing to find what the
\* first has found, which holds while the lake fits in one page; and it needs a
\* version of one's own.
RecordedIsInTheModel ==
    checkpoint # None /\ Cardinality(lake) <= PageSize /\ ~Shared(checkpoint.version) =>
        /\ checkpoint.version \in DOMAIN registry
        /\ \E m \in Models :
              /\ registry[checkpoint.version] = [file \in 1..BundleSize |-> m]
              /\ checkpoint.files \subseteq m

\* Several processes remove, make and move the one .current-next, and each may
\* stop anywhere.  Whatever the active link leads to, or model.ready announces, is
\* in the model directory, and in the registry with all its files
\* (batch_trainer.py:48-62, s3_client.py:109-117).
ReleasedIsComplete ==
    \A v \in announced \cup ({current} \ {None}) :
        /\ v \in DOMAIN versions
        /\ v \in DOMAIN registry
        /\ \A file \in 1..BundleSize : registry[v][file] # {}
================================================================================
