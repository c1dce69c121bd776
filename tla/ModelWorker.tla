------------------------------ MODULE ModelWorker ------------------------------
(***************************************************************************)
(* apps/ml-platform/python-ml-worker, streaming mode: one thread polls the *)
(* gold.ready topic and, for each message, trains a model on the gold      *)
(* object the message names, uploads the bundle to the model registry,     *)
(* activates it in the local model directory through a symlink, announces  *)
(* it on model.ready and commits.  A message that fails every attempt goes *)
(* to the dead letter queue.                                               *)
(*                                                                         *)
(* A remote call that fails after the other side took it looks like one    *)
(* that succeeded followed by a failure of the next call, so one action    *)
(* for failures serves all calls but the commit.                           *)
(***************************************************************************)
EXTENDS Integers, Sequences, FiniteSets

CONSTANTS
    Versions,       \* model versions (compute_model_version)
    Objects,        \* keys of gold objects
    Gold,           \* the messages of gold.ready; the topic has one partition
    MaxPoll,        \* max_poll_records of the consumer
    MaxRetries,     \* ML_MAX_RETRIES
    BundleSize,     \* files of a bundle
    MaxFaults,      \* bound: calls that fail
    MaxDeaths,      \* bound: how often the container dies or is stopped
    MaxOverwrites   \* bound: how often gold objects are replaced

\* A message names a version (a hash of its event id and checksum) and a gold
\* object; "trainable" tells whether the message passes validation and the
\* object holds the rows, features and labels that training asks for.
ASSUME GoldAssumption ==
    Gold \in Seq([version: Versions, object: Objects, trainable: BOOLEAN])

ASSUME WorkerAssumption ==
    /\ MaxPoll \in Nat \ {0}
    /\ MaxRetries \in 1..20
    /\ BundleSize \in Nat \ {0}
    /\ {MaxFaults, MaxDeaths, MaxOverwrites} \subseteq Nat

VARIABLES
    content,      \* gold object -> what it holds, a number per overwrite
    committed,    \* committed offset of the consumer group
    modelReady,   \* the model.ready topic
    dlq,          \* the dead letter topic: offsets of failed messages
    registry,     \* version -> bundle in the model bucket: file -> its model
    versions,     \* version -> model in models/versions/<version>
    current,      \* where the symlink models/current points, "none" at first
    pc,           \* where the worker is
    position,     \* next offset that poll returns
    batch,        \* polled messages not yet finished
    attempt,      \* `attempt` of the message at hand
    model,        \* the model trained in this attempt
    sent,         \* files of its bundle that are uploaded
    faults,       \* how many calls have failed
    deaths        \* how often the container has gone down

kafkaVars  == <<committed, modelReady, dlq>>
diskVars   == <<versions, current>>
memoryVars == <<position, batch, attempt, model, sent>>
workerVars == <<content, kafkaVars, registry, diskVars, pc, memoryVars, faults, deaths>>

-------------------------------------------------------------------------------
Offsets    == 0..(Len(Gold) - 1)
Message(o) == Gold[o + 1]
Now        == Head(batch)          \* the offset at hand
Version    == Message(Now).version
EmptyMap   == [x \in {} |-> {}]
Put(store, key, object) ==
    [k \in DOMAIN store \cup {key} |-> IF k = key THEN object ELSE store[k]]

\* Training has fixed seeds: what a gold object holds determines the model,
\* and two versions trained on the same rows have byte-identical models.
Train(o)  == <<Message(o).object, content[Message(o).object]>>
NoModel   == <<>>
Models    == Objects \X (0..MaxOverwrites)
Bundles   == [1..BundleSize -> Models \cup {NoModel}]
EmptyBundle == [file \in 1..BundleSize |-> NoModel]

Init ==
    /\ content = [o \in Objects |-> 0]
    /\ committed = 0
    /\ modelReady = <<>>
    /\ dlq = {}
    /\ registry = EmptyMap
    /\ versions = EmptyMap
    /\ current = "none"
    /\ pc = "poll"
    /\ position = 0
    /\ batch = <<>>
    /\ attempt = 0
    /\ model = NoModel
    /\ sent = 0
    /\ faults = 0
    /\ deaths = 0

-------------------------------------------------------------------------------
Step(from, to) == pc = from /\ pc' = to /\ UNCHANGED <<content, deaths>>

\* poll moves the position behind everything it returns.
Poll ==
    /\ Step("poll", "next")
    /\ \E n \in 1..MaxPoll :
          /\ position + n <= Len(Gold)
          /\ batch' = [i \in 1..n |-> position + i - 1]
          /\ position' = position + n
    /\ UNCHANGED <<kafkaVars, registry, diskVars, attempt, model, sent,
                   faults>>

\* A poll that returns nothing.
IdlePoll == pc = "poll" /\ UNCHANGED workerVars

\* The next message of the batch, or the next poll when there is none.
NextMessage ==
    /\ Step("next", IF batch = <<>> THEN "poll" ELSE "train")
    /\ attempt' = 0
    /\ UNCHANGED <<kafkaVars, registry, diskVars, position, batch, model, sent,
                   faults>>

\* load_gold_dataset, train_pipeline and export_bundle.  The checksum in the
\* message is not compared with the object that is loaded.
TrainModel ==
    /\ Step("train", "upload")
    /\ Message(Now).trainable
    /\ model' = Train(Now)
    /\ sent' = 0
    /\ UNCHANGED <<kafkaVars, registry, diskVars, position, batch, attempt, faults>>

\* upload_model_bundle, one put per file: a bundle uploaded before under the
\* same version is overwritten file by file.
Uploaded == IF Version \in DOMAIN registry THEN registry[Version] ELSE EmptyBundle

UploadFile ==
    /\ Step("upload", IF sent + 1 = BundleSize THEN "stage" ELSE "upload")
    /\ sent' = sent + 1
    /\ registry' = Put(registry, Version, [Uploaded EXCEPT ![sent + 1] = model])
    /\ UNCHANGED <<kafkaVars, diskVars, position, batch, attempt, model, faults>>

\* Mutation: the bundle that exists is replaced without a look at it.
StageAnyBundle ==
    /\ Step("stage", "link")
    /\ versions' = Put(versions, Version, model)
    /\ UNCHANGED <<kafkaVars, registry, current, memoryVars, faults>>

\* Mutation: the symlink is moved while the bundle is still in staging.
LinkBeforeRename ==
    /\ Step("stage", "link")
    /\ current' = Version
    /\ UNCHANGED <<kafkaVars, registry, versions, memoryVars, faults>>

\* activate_local_bundle up to the rename of the staging directory, which
\* nobody sees before.  A directory of that version stays as it is and must
\* hold the same model.
StageBundle ==
    /\ Step("stage", "link")
    /\ Version \in DOMAIN versions => versions[Version] = model
    /\ versions' = Put(versions, Version, model)
    /\ UNCHANGED <<kafkaVars, registry, current, memoryVars, faults>>

\* os.replace of the symlink.
MoveSymlink ==
    /\ Step("link", "publish")
    /\ current' = Version
    /\ UNCHANGED <<kafkaVars, registry, versions, memoryVars, faults>>

PublishModelReady ==
    /\ Step("publish", "commit")
    /\ modelReady' = Append(modelReady, [offset |-> Now, version |-> Version,
                                         model |-> model])
    /\ UNCHANGED <<committed, dlq, registry, diskVars, memoryVars, faults>>

\* Mutation: a failed message is committed although the dead letter was not
\* written.
PublishDlqFails ==
    /\ Step("dlq", "commit-dlq")
    /\ UNCHANGED <<kafkaVars, registry, diskVars, memoryVars, faults>>

PublishDlq ==
    /\ Step("dlq", "commit-dlq")
    /\ dlq' = dlq \cup {Now}
    /\ UNCHANGED <<committed, modelReady, registry, diskVars, memoryVars, faults>>

\* Mutation: one commit for the whole batch, when its last message is done.
CommitOncePerBatch ==
    /\ pc \in {"commit", "commit-dlq"}
    /\ pc' = "next"
    /\ committed' = IF Len(batch) = 1 THEN position ELSE committed
    /\ batch' = Tail(batch)
    /\ UNCHANGED <<content, deaths, modelReady, dlq, registry, diskVars, position,
                   attempt, model, sent, faults>>

\* consumer.commit() commits the position of the consumer, which lies behind
\* the whole batch.
Commit ==
    /\ pc \in {"commit", "commit-dlq"}
    /\ pc' = "next"
    /\ committed' = position
    /\ batch' = Tail(batch)
    /\ UNCHANGED <<content, deaths, modelReady, dlq, registry, diskVars, position,
                   attempt, model, sent, faults>>

-------------------------------------------------------------------------------
(* Failures *)

\* Mutation: the attempts are not counted.
NextAttemptUncounted == pc' = "train" /\ UNCHANGED attempt

\* The `except` of the retry loop.
NextAttempt == /\ attempt' = attempt + 1
               /\ pc' = IF attempt' < MaxRetries THEN "train" ELSE "dlq"

\* A message that cannot be trained on, or whose version exists with another
\* model, fails by itself.
AttemptFails ==
    /\ \/ pc = "train" /\ ~Message(Now).trainable
       \/ pc = "stage" /\ Version \in DOMAIN versions /\ versions[Version] # model
    /\ NextAttempt
    /\ UNCHANGED <<content, kafkaVars, registry, diskVars, position, batch, model,
                   sent, faults, deaths>>

\* Any call of an attempt may fail; a commit may have taken effect.
CallFails ==
    /\ pc \in {"train", "upload", "stage", "link", "publish", "commit"}
    /\ faults < MaxFaults
    /\ faults' = faults + 1
    /\ committed' \in {committed} \cup (IF pc = "commit" THEN {position} ELSE {})
    /\ NextAttempt
    /\ UNCHANGED <<content, modelReady, dlq, registry, diskVars, position, batch,
                   model, sent, deaths>>

\* The process leaves: it dies anywhere, or a failure on the way to the dead
\* letter queue ends `start`, or the stop event ends it between two messages.
\* It is the foreground process of its container, which goes down with it.
GoDown ==
    /\ pc # "down"
    /\ deaths < MaxDeaths
    /\ deaths' = deaths + 1
    /\ pc' = "down"
    /\ batch' = <<>>
    /\ attempt' = 0
    /\ model' = NoModel
    /\ sent' = 0
    /\ UNCHANGED <<content, kafkaVars, registry, diskVars, position, faults>>

\* Docker starts the container again, with its file system; the consumer
\* resumes at the committed offset.
ComeUp ==
    /\ Step("down", "poll")
    /\ position' = committed
    /\ UNCHANGED <<kafkaVars, registry, diskVars, batch, attempt, model, sent, faults>>

\* The structured streamer replaces a gold object that was announced.
Overwrite(o) ==
    /\ content[o] < MaxOverwrites
    /\ content' = [content EXCEPT ![o] = @ + 1]
    /\ UNCHANGED <<kafkaVars, registry, diskVars, pc, memoryVars, faults, deaths>>

Work == \/ Poll \/ NextMessage \/ TrainModel \/ UploadFile \/ StageBundle
        \/ MoveSymlink \/ PublishModelReady \/ PublishDlq \/ Commit \/ AttemptFails

Next == \/ Work \/ IdlePoll \/ CallFails \/ GoDown \/ ComeUp
        \/ \E o \in Objects : Overwrite(o)

Spec == Init /\ [][Next]_workerVars /\ WF_workerVars(Work \/ ComeUp)

-------------------------------------------------------------------------------
(* Properties *)

Steps == {"poll", "next", "train", "upload", "stage", "link", "publish", "commit",
          "dlq", "commit-dlq", "down"}

\* Every variable stays in its domain; between two polls nothing that was
\* polled is uncommitted.
WorkerTypeOK ==
    /\ content \in [Objects -> 0..MaxOverwrites]
    /\ committed \in 0..Len(Gold) /\ position \in 0..Len(Gold)
    /\ pc = "poll" => position = committed
    /\ modelReady \in Seq([offset: Offsets, version: Versions, model: Models])
    /\ dlq \subseteq Offsets
    /\ \A v \in DOMAIN registry : v \in Versions /\ registry[v] \in Bundles
    /\ \A v \in DOMAIN versions : v \in Versions /\ versions[v] \in Models
    /\ current \in Versions \cup {"none"}
    /\ pc \in Steps
    /\ batch \in Seq(Offsets)
    /\ attempt \in 0..MaxRetries
    /\ model \in Models \cup {NoModel}
    /\ sent \in 0..BundleSize
    /\ faults \in 0..MaxFaults
    /\ deaths \in 0..MaxDeaths

\* The symlink never leads nowhere, whenever the process dies
\* (s3_client.py:109-117: rename first, then move the link).
CurrentIsComplete == current # "none" => current \in DOMAIN versions

\* An announced version is in the registry with all its files, and its local
\* directory holds for ever the very model that was announced, although the
\* message may be processed again after its gold object was replaced
\* (streaming_worker.py:60-72, s3_client.py:94-107).
AnnouncedIsBacked ==
    \A i \in DOMAIN modelReady :
        LET m == modelReady[i] IN
        /\ m.version \in DOMAIN versions
        /\ versions[m.version] = m.model
        /\ m.version \in DOMAIN registry
        /\ \A file \in 1..BundleSize : registry[m.version][file] # NoModel

HasOutcome(o) == \/ o \in dlq
                 \/ \E i \in DOMAIN modelReady : modelReady[i].offset = o

\* A commit covers the whole polled batch, so the rest of a batch is lost when
\* the process leaves in the middle of it; but a commit comes only after an
\* outcome, so what is lost lies less than a poll behind a message that was
\* announced or written to the dead letter queue.
LossIsWithinAPoll ==
    \A o \in 0..(committed - 1) :
        \E p \in Offsets : p <= o /\ o < p + MaxPoll /\ HasOutcome(p)

FirstOffset(v) == CHOOSE o \in Offsets :
                     /\ Message(o).version = v
                     /\ \A p \in Offsets : Message(p).version = v => o <= p

\* The active model is never replaced by the one of an earlier message, whatever
\* is retried or delivered again.
CurrentNeverMovesBack ==
    [][current # "none" => FirstOffset(current') >= FirstOffset(current)]_current

\* However often calls fail and the container dies, the worker comes to the end
\* of the topic: a message that always fails does not hold it up.
EverythingIsCommitted == <>[](committed = Len(Gold))
================================================================================
