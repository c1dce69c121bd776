-------------------------- MODULE InferenceEngineProofs --------------------------
(***************************************************************************)
(* The safety of the worker, and of the worker and the engine together,    *)
(* for every topic, bundle size, batch size and number of failures, deaths *)
(* and overwrites.                                                         *)
(*                                                                         *)
(* The worker (first part).  An announced version is backed because what   *)
(* the worker has uploaded and staged for the message at hand is there by  *)
(* the time it announces, and neither the registry nor the model directory *)
(* ever loses a file.  A loss lies within a poll because every message     *)
(* before the batch is covered by an outcome, and the batch is a run of    *)
(* offsets up to the position.  The active model never moves back because  *)
(* no failure takes the worker back behind its frontier, and what it has   *)
(* staged comes from messages at or before it (OrderInv); so the models of *)
(* one object get newer rows in the order of their messages (ContentInv).  *)
(*                                                                         *)
(* The engine (second part).  The engine only reads what the worker        *)
(* writes, so every step of the platform is a step of the worker or leaves *)
(* it alone, and what is proved of the worker holds beside the engine.  In *)
(* return the engine, which follows the symlink without any lock, never    *)
(* finds it leading nowhere: each read gives a model.  As the symlink only *)
(* moves forward, what a load reads lies between its first read and now in *)
(* the order of the topic (SeenInv); so a served model only gives way to a *)
(* later one, and when the first read and the link of now give the same    *)
(* model, all reads between them gave it.                                  *)
(***************************************************************************)
EXTENDS InferenceEngine, SequenceTheorems, WellFoundedInduction, TLAPS

(***************************************************************************)
(* Part 1: the worker                                                      *)
(***************************************************************************)

\* An attempt is under way.
Attempting == {"train", "upload", "stage", "link", "publish", "commit"}

\* A message is at hand.
Working == Attempting \cup {"dlq", "commit-dlq"}

\* The batch is the last few offsets before the position; with nothing left of it
\* everything up to the position is committed.
BatchInv ==
    /\ Len(batch) <= MaxPoll /\ Len(batch) <= position
    /\ \A i \in 1..Len(batch) : batch[i] = position - Len(batch) + i - 1
    /\ pc \in Working => batch # <<>>
    /\ pc \in {"poll", "down"} => batch = <<>>
    /\ pc # "down" /\ batch = <<>> => position = committed

\* What the attempt has done so far.
AttemptInv ==
    /\ pc \in Attempting => attempt < MaxRetries
    /\ pc \in Attempting \ {"train"} => model \in Models
    /\ pc = "upload" =>
          /\ sent < BundleSize
          /\ \A file \in 1..sent : /\ Version \in DOMAIN registry
                                   /\ registry[Version][file] # NoModel
    /\ pc \in {"stage", "link", "publish"} =>
          /\ Version \in DOMAIN registry
          /\ \A file \in 1..BundleSize : registry[Version][file] # NoModel
    /\ pc \in {"link", "publish"} =>
          Version \in DOMAIN versions /\ versions[Version] = model

\* An offset is covered by an outcome less than a poll before it.
Covered(o) == \E p \in Offsets : p <= o /\ o < p + MaxPoll /\ HasOutcome(p)

\* Everything before the message at hand is covered, and that message when its
\* commit is next.
OutcomeInv ==
    /\ pc # "down" => \A o \in 0..(position - Len(batch) - 1) : Covered(o)
    /\ pc \in {"commit", "commit-dlq"} => HasOutcome(Now)

WInv ==
    /\ WorkerTypeOK
    /\ BatchInv
    /\ AttemptInv
    /\ OutcomeInv
    /\ CurrentIsComplete
    /\ AnnouncedIsBacked
    /\ LossIsWithinAPoll

-------------------------------------------------------------------------------
(* Facts about data *)

LEMMA NoModelIsNone == NoModel \notin Models
<1>1. ASSUME NEW a \in Objects, NEW b \in 0..MaxOverwrites PROVE NoModel # <<a, b>>
    BY DEF NoModel
<1> QED
    BY <1>1 DEF Models

LEMMA GoldFacts ==
    /\ Len(Gold) \in Nat
    /\ \A o \in Offsets : /\ Message(o).version \in Versions
                          /\ Message(o).object \in Objects
<1> DEFINE Messages == [version: Versions, object: Objects, trainable: BOOLEAN]
<1>1. Gold \in Seq(Messages)
    BY GoldAssumption
<1>2. \A m \in Messages : m.version \in Versions /\ m.object \in Objects
    OBVIOUS
<1> HIDE DEF Messages
<1>3. Len(Gold) \in Nat
    BY <1>1
<1>4. \A o \in Offsets : Message(o) \in Messages
    BY <1>1, <1>3 DEF Offsets, Message
<1> QED
    BY <1>2, <1>3, <1>4

\* While a message is at hand it is the oldest that is left of the batch.
LEMMA MessageAtHand ==
    ASSUME WInv, pc \in Working
    PROVE  /\ Now \in Offsets
           /\ Now = position - Len(batch)
           /\ Version \in Versions
           /\ Message(Now).object \in Objects
<1>1. batch \in Seq(Offsets) /\ batch # <<>>
    BY DEF WInv, WorkerTypeOK, BatchInv
<1>2. Now = batch[1] /\ Len(batch) >= 1 /\ Len(batch) \in Nat
    BY <1>1 DEF Now
<1>3. Now \in Offsets
    BY <1>1, <1>2
<1>4. batch[1] = position - Len(batch) + 1 - 1
    BY <1>2 DEF WInv, BatchInv
<1>5. Now = position - Len(batch)
    BY <1>2, <1>4, GoldFacts DEF WInv, WorkerTypeOK
<1> QED
    BY <1>3, <1>5, GoldFacts DEF Version

LEMMA InitWInv == Init => WInv
<1> SUFFICES ASSUME Init PROVE WInv
    OBVIOUS
<1> USE WorkerAssumption, GoldFacts DEF Init
<1>1. WorkerTypeOK
    BY DEF WorkerTypeOK, Steps, EmptyMap
<1>2. BatchInv /\ AttemptInv /\ OutcomeInv
    BY DEF BatchInv, AttemptInv, OutcomeInv, Working, Attempting
<1>3. CurrentIsComplete /\ AnnouncedIsBacked /\ LossIsWithinAPoll
    BY DEF CurrentIsComplete, AnnouncedIsBacked, LossIsWithinAPoll
<1> QED
    BY <1>1, <1>2, <1>3 DEF WInv

-------------------------------------------------------------------------------
(* Types *)

LEMMA StepWorkerTypeOK == WInv /\ [Next]_workerVars => WorkerTypeOK'
<1> SUFFICES ASSUME WInv, [Next]_workerVars PROVE WorkerTypeOK'
    OBVIOUS
<1>1. WorkerTypeOK /\ BatchInv /\ AttemptInv
    BY DEF WInv
<1> USE WorkerAssumption, GoldFacts
<1> USE DEF WorkerTypeOK, Step, Steps, kafkaVars, diskVars, memoryVars
<1>2. CASE Poll
    <2>1. PICK n \in 1..MaxPoll :
              /\ position + n <= Len(Gold)
              /\ batch' = [i \in 1..n |-> position + i - 1]
              /\ position' = position + n
        BY <1>2 DEF Poll
    <2>2. batch' \in Seq(Offsets)
        BY <1>1, <2>1 DEF Offsets
    <2>3. position' \in 0..Len(Gold) /\ pc' = "next"
        BY <1>1, <1>2, <2>1 DEF Poll
    <2> QED
        BY <1>1, <1>2, <2>2, <2>3 DEF Poll
<1>3. CASE IdlePoll
    BY <1>1, <1>3 DEF IdlePoll, workerVars
<1>4. CASE NextMessage
    <2>1. pc' = "poll" => position' = committed'
        BY <1>1, <1>4 DEF NextMessage, BatchInv
    <2> QED
        BY <1>1, <1>4, <2>1 DEF NextMessage
<1>5. CASE TrainModel
    <2>1. Message(Now).object \in Objects
        BY <1>5, MessageAtHand DEF TrainModel, Working, Attempting
    <2>2. Train(Now) \in Models
        BY <1>1, <2>1 DEF Train, Models
    <2> QED
        BY <1>1, <1>5, <2>2 DEF TrainModel
<1>6. CASE UploadFile
    <2>1. Version \in Versions /\ sent < BundleSize /\ model \in Models
        BY <1>1, <1>6, MessageAtHand DEF UploadFile, Working, Attempting, AttemptInv
    <2>2. Uploaded \in Bundles
        BY <1>1 DEF Uploaded, Bundles, EmptyBundle
    <2>3. [Uploaded EXCEPT ![sent + 1] = model] \in Bundles
        BY <2>1, <2>2 DEF Bundles
    <2>4. \A v \in DOMAIN registry' : v \in Versions /\ registry'[v] \in Bundles
        BY <1>1, <1>6, <2>1, <2>3 DEF UploadFile, Put
    <2>5. sent' \in 0..BundleSize /\ pc' \in Steps /\ pc' # "poll"
        BY <1>1, <1>6, <2>1 DEF UploadFile
    <2>6. UNCHANGED <<content, kafkaVars, diskVars, position, batch, attempt, model,
                      faults, deaths>>
        BY <1>6 DEF UploadFile
    <2> QED
        BY <1>1, <2>4, <2>5, <2>6
<1>7. CASE StageBundle
    <2>1. Version \in Versions /\ model \in Models
        BY <1>1, <1>7, MessageAtHand DEF StageBundle, Working, Attempting, AttemptInv
    <2>2. \A v \in DOMAIN versions' : v \in Versions /\ versions'[v] \in Models
        BY <1>1, <1>7, <2>1 DEF StageBundle, Put
    <2> QED
        BY <1>1, <1>7, <2>2 DEF StageBundle
<1>8. CASE MoveSymlink
    <2>1. Version \in Versions
        BY <1>8, MessageAtHand DEF MoveSymlink, Working, Attempting
    <2> QED
        BY <1>1, <1>8, <2>1 DEF MoveSymlink
<1>9. CASE PublishModelReady
    <2>1. Version \in Versions /\ Now \in Offsets /\ model \in Models
        BY <1>1, <1>9, MessageAtHand DEF PublishModelReady, Working, Attempting, AttemptInv
    <2>2. modelReady' \in Seq([offset: Offsets, version: Versions, model: Models])
        BY <1>1, <1>9, <2>1 DEF PublishModelReady
    <2> QED
        BY <1>1, <1>9, <2>2 DEF PublishModelReady
<1>10. CASE PublishDlq
    <2>1. Now \in Offsets
        BY <1>10, MessageAtHand DEF PublishDlq, Working
    <2> QED
        BY <1>1, <1>10, <2>1 DEF PublishDlq
<1>11. CASE Commit
    <2>1. batch # <<>>
        BY <1>1, <1>11 DEF Commit, BatchInv, Working, Attempting
    <2>2. Tail(batch) \in Seq(Offsets)
        BY <1>1, <2>1
    <2> QED
        BY <1>1, <1>11, <2>2 DEF Commit
<1>12. CASE AttemptFails
    <2>1. attempt < MaxRetries
        BY <1>1, <1>12 DEF AttemptFails, AttemptInv, Attempting
    <2> QED
        BY <1>1, <1>12, <2>1 DEF AttemptFails, NextAttempt
<1>13. CASE CallFails
    <2>1. attempt < MaxRetries
        BY <1>1, <1>13 DEF CallFails, AttemptInv, Attempting
    <2> QED
        BY <1>1, <1>13, <2>1 DEF CallFails, NextAttempt
<1>14. CASE GoDown
    BY <1>1, <1>14 DEF GoDown
<1>15. CASE ComeUp
    BY <1>1, <1>15 DEF ComeUp
<1>16. ASSUME NEW o \in Objects, Overwrite(o) PROVE WorkerTypeOK'
    BY <1>1, <1>16 DEF Overwrite
<1>17. CASE UNCHANGED workerVars
    BY <1>1, <1>17 DEF workerVars
<1> QED
    BY <1>2, <1>3, <1>4, <1>5, <1>6, <1>7, <1>8, <1>9, <1>10, <1>11, <1>12, <1>13, <1>14,
       <1>15, <1>16, <1>17 DEF Next, Work

-------------------------------------------------------------------------------
(* The batch and the attempt *)

LEMMA StepBatchInv == WInv /\ [Next]_workerVars => BatchInv'
<1> SUFFICES ASSUME WInv, [Next]_workerVars PROVE BatchInv'
    OBVIOUS
<1>1. BatchInv /\ position \in Nat /\ committed \in Nat /\ batch \in Seq(Offsets)
    BY GoldFacts DEF WInv, WorkerTypeOK
<1> USE DEF Step, Working, Attempting, kafkaVars, diskVars, memoryVars
<1>2. CASE Poll
    <2>1. PICK n \in 1..MaxPoll :
              /\ batch' = [i \in 1..n |-> position + i - 1]
              /\ position' = position + n
        BY <1>2 DEF Poll
    <2>2. Len(batch') = n /\ batch' # <<>>
        BY <2>1, WorkerAssumption
    <2>3. \A i \in 1..n : batch'[i] = position' - n + i - 1
        BY <1>1, <2>1
    <2>4. Len(batch') <= MaxPoll /\ Len(batch') <= position'
        BY <1>1, <2>1, <2>2, WorkerAssumption
    <2>5. pc' = "next"
        BY <1>2 DEF Poll
    <2> QED
        BY <2>2, <2>3, <2>4, <2>5 DEF BatchInv
<1>3. ASSUME UNCHANGED <<batch, position, committed>>,
             pc' \in Working => batch # <<>>,
             pc' = "poll" => batch = <<>>,
             pc # "down" /\ pc' # "down"
      PROVE  BatchInv'
    BY <1>1, <1>3 DEF BatchInv
<1>4. CASE NextMessage
    BY <1>1, <1>3, <1>4 DEF NextMessage
<1>5. CASE TrainModel \/ UploadFile \/ StageBundle \/ MoveSymlink
    BY <1>1, <1>3, <1>5 DEF TrainModel, UploadFile, StageBundle, MoveSymlink, BatchInv
<1>6. CASE PublishModelReady \/ PublishDlq
    BY <1>1, <1>3, <1>6 DEF PublishModelReady, PublishDlq, BatchInv
<1>7. CASE Commit
    <2>1. batch # <<>> /\ batch' = Tail(batch) /\ position' = position
          /\ committed' = position /\ pc' = "next"
        BY <1>1, <1>7 DEF Commit, BatchInv
    <2>2. Len(batch') = Len(batch) - 1 /\ Len(batch) \in Nat \ {0}
          /\ \A i \in 1..Len(batch') : batch'[i] = batch[i + 1]
        BY <1>1, <2>1
    <2>3. \A i \in 1..Len(batch') : batch'[i] = position' - Len(batch') + i - 1
        BY <1>1, <2>1, <2>2 DEF BatchInv
    <2>4. Len(batch') <= MaxPoll /\ Len(batch') <= position'
        BY <1>1, <2>1, <2>2, WorkerAssumption DEF BatchInv
    <2>5. pc' \notin Working /\ pc' \notin {"poll", "down"} /\ position' = committed'
        BY <2>1
    <2> QED
        BY <2>3, <2>4, <2>5 DEF BatchInv
<1>8. CASE AttemptFails
    BY <1>1, <1>3, <1>8 DEF AttemptFails, NextAttempt, BatchInv
<1>9. CASE CallFails
    BY <1>1, <1>9 DEF CallFails, NextAttempt, BatchInv
<1>10. CASE GoDown
    <2>1. Len(batch') = 0 /\ batch' = <<>> /\ position' = position /\ pc' = "down"
        BY <1>10 DEF GoDown
    <2> QED
        BY <1>1, <2>1, WorkerAssumption DEF BatchInv
<1>11. CASE ComeUp
    <2>1. batch = <<>>
        BY <1>1, <1>11 DEF ComeUp, BatchInv
    <2>2. Len(batch') = 0 /\ batch' = <<>> /\ position' = committed /\ pc' = "poll"
          /\ committed' = committed
        BY <1>11, <2>1 DEF ComeUp
    <2> QED
        BY <1>1, <2>2, WorkerAssumption DEF BatchInv
<1>12. CASE IdlePoll \/ UNCHANGED workerVars
    BY <1>1, <1>12 DEF IdlePoll, workerVars, BatchInv
<1>13. ASSUME NEW o \in Objects, Overwrite(o) PROVE BatchInv'
    BY <1>1, <1>13 DEF Overwrite, BatchInv
<1> QED
    BY <1>2, <1>4, <1>5, <1>6, <1>7, <1>8, <1>9, <1>10, <1>11, <1>12, <1>13 DEF Next, Work

\* Neither the registry nor the model directory loses anything.
LEMMA StoresGrow ==
    ASSUME WInv, [Next]_workerVars
    PROVE  /\ \A v \in DOMAIN registry : \A file \in 1..BundleSize :
                  registry[v][file] # NoModel =>
                      v \in DOMAIN registry' /\ registry'[v][file] # NoModel
           /\ \A v \in DOMAIN versions :
                  v \in DOMAIN versions' /\ versions'[v] = versions[v]
<1>1. CASE UploadFile
    <2>1. model # NoModel
        BY <1>1, NoModelIsNone DEF UploadFile, Step, WInv, AttemptInv, Attempting
    <2> DEFINE bundle == [Uploaded EXCEPT ![sent + 1] = model]
    <2>2. registry' = Put(registry, Version, bundle) /\ versions' = versions
        BY <1>1 DEF UploadFile, diskVars
    <2>3. ASSUME Version \in DOMAIN registry, NEW file \in 1..BundleSize,
                 registry[Version][file] # NoModel
          PROVE  bundle[file] # NoModel
        <3>1. Uploaded = registry[Version] /\ Uploaded \in Bundles
            BY <2>3 DEF Uploaded, WInv, WorkerTypeOK
        <3> QED
            BY <2>1, <2>3, <3>1 DEF Bundles
    <2> HIDE DEF bundle
    <2> QED
        BY <2>2, <2>3 DEF Put
<1>2. CASE StageBundle
    <2>1. registry' = registry /\ versions' = Put(versions, Version, model)
          /\ (Version \in DOMAIN versions => versions[Version] = model)
        BY <1>2 DEF StageBundle
    <2> QED
        BY <2>1 DEF Put
<1>3. CASE UNCHANGED <<registry, versions>>
    BY <1>3
<1>4. CASE Next /\ ~UploadFile /\ ~StageBundle
    <2>1. CASE Poll \/ IdlePoll \/ NextMessage \/ TrainModel \/ MoveSymlink
        BY <1>3, <2>1 DEF Poll, IdlePoll, NextMessage, TrainModel, MoveSymlink, diskVars,
           workerVars
    <2>2. CASE PublishModelReady \/ PublishDlq \/ Commit \/ AttemptFails \/ CallFails
        BY <1>3, <2>2 DEF PublishModelReady, PublishDlq, Commit, AttemptFails, CallFails,
           diskVars
    <2>3. CASE GoDown \/ ComeUp \/ \E o \in Objects : Overwrite(o)
        BY <1>3, <2>3 DEF GoDown, ComeUp, Overwrite, diskVars
    <2> QED
        BY <1>4, <2>1, <2>2, <2>3 DEF Next, Work
<1>5. CASE UNCHANGED workerVars
    BY <1>3, <1>5 DEF workerVars, diskVars
<1> QED
    BY <1>1, <1>2, <1>4, <1>5

\* The message at hand, its version and its attempt do not change.
LEMMA StepAttemptInv == WInv /\ [Next]_workerVars => AttemptInv'
<1> SUFFICES ASSUME WInv, [Next]_workerVars PROVE AttemptInv'
    OBVIOUS
<1>1. WorkerTypeOK /\ AttemptInv
    BY DEF WInv
<1>2. batch' = batch => Version' = Version
    BY DEF Version, Now, Message
<1> USE DEF Step, Attempting, kafkaVars, diskVars, memoryVars
<1>3. CASE Poll \/ Commit \/ GoDown \/ ComeUp \/ PublishDlq
    BY <1>3 DEF Poll, Commit, GoDown, ComeUp, PublishDlq, AttemptInv
<1>4. CASE IdlePoll
    BY <1>1, <1>2, <1>4 DEF IdlePoll, workerVars, AttemptInv
<1>5. CASE NextMessage
    BY <1>5, WorkerAssumption DEF NextMessage, AttemptInv
<1>6. CASE TrainModel
    <2>1. Message(Now).object \in Objects
        BY <1>6, MessageAtHand DEF TrainModel, Working
    <2>2. Train(Now) \in Models
        BY <1>1, <2>1 DEF Train, Models, WorkerTypeOK
    <2>3. pc' = "upload" /\ model' = Train(Now) /\ sent' = 0 /\ attempt' = attempt
          /\ attempt < MaxRetries
        BY <1>1, <1>6 DEF TrainModel, AttemptInv
    <2> QED
        BY <2>2, <2>3, WorkerAssumption DEF AttemptInv
<1>7. CASE UploadFile
    <2>1. /\ attempt < MaxRetries /\ model \in Models /\ sent \in Nat /\ sent < BundleSize
          /\ \A file \in 1..sent : Version \in DOMAIN registry
                                   /\ registry[Version][file] # NoModel
        BY <1>1, <1>7 DEF UploadFile, AttemptInv, WorkerTypeOK
    <2>2. /\ UNCHANGED <<attempt, model, batch>>
          /\ sent' = sent + 1
          /\ pc' = IF sent + 1 = BundleSize THEN "stage" ELSE "upload"
          /\ registry' = Put(registry, Version, [Uploaded EXCEPT ![sent + 1] = model])
        BY <1>7 DEF UploadFile
    <2>3. Uploaded \in Bundles /\ model # NoModel
        BY <1>1, <2>1, NoModelIsNone DEF Uploaded, EmptyBundle, Bundles, WorkerTypeOK
    <2>4. Version \in DOMAIN registry' /\ registry'[Version]
              = [Uploaded EXCEPT ![sent + 1] = model]
        BY <2>2 DEF Put
    <2>5. \A file \in 1..(sent + 1) : registry'[Version][file] # NoModel
        <3>1. \A file \in 1..sent : Uploaded[file] # NoModel
            BY <2>1 DEF Uploaded
        <3> QED
            BY <2>1, <2>3, <2>4, <3>1, WorkerAssumption DEF Bundles
    <2>6. \A file \in 1..sent' : /\ Version' \in DOMAIN registry'
                                 /\ registry'[Version'][file] # NoModel
        BY <1>2, <2>2, <2>4, <2>5
    <2>7. sent' <= BundleSize /\ (pc' = "upload" => sent' < BundleSize)
          /\ (pc' # "upload" => sent' = BundleSize) /\ pc' \in {"upload", "stage"}
        BY <2>1, <2>2, WorkerAssumption
    <2>8. BundleSize \in 1..BundleSize
        BY WorkerAssumption
    <2> QED
        BY <2>1, <2>2, <2>6, <2>7, <2>8 DEF AttemptInv
<1>8. CASE StageBundle
    <2>1. /\ UNCHANGED <<registry, batch, model, attempt>>
          /\ pc = "stage" /\ pc' = "link"
          /\ Version \in DOMAIN versions' /\ versions'[Version] = model
        BY <1>8 DEF StageBundle, Put
    <2> QED
        BY <1>1, <1>2, <2>1 DEF AttemptInv
<1>9. CASE MoveSymlink
    BY <1>1, <1>2, <1>9 DEF MoveSymlink, AttemptInv
<1>10. CASE PublishModelReady
    BY <1>1, <1>10 DEF PublishModelReady, AttemptInv
<1>11. CASE AttemptFails
    BY <1>1, <1>11 DEF AttemptFails, NextAttempt, AttemptInv
<1>12. CASE CallFails
    BY <1>1, <1>12 DEF CallFails, NextAttempt, AttemptInv
<1>13. CASE UNCHANGED workerVars
    BY <1>1, <1>2, <1>13 DEF workerVars, AttemptInv
<1>14. ASSUME NEW o \in Objects, Overwrite(o) PROVE AttemptInv'
    BY <1>1, <1>2, <1>14 DEF Overwrite, AttemptInv
<1> QED
    BY <1>3, <1>4, <1>5, <1>6, <1>7, <1>8, <1>9, <1>10, <1>11, <1>12, <1>13, <1>14
       DEF Next, Work

LEMMA StepCurrent == WInv /\ [Next]_workerVars => CurrentIsComplete'
<1> SUFFICES ASSUME WInv, [Next]_workerVars, current' # "none"
             PROVE  current' \in DOMAIN versions'
    BY DEF CurrentIsComplete
<1>1. \A v \in DOMAIN versions : v \in DOMAIN versions'
    BY StoresGrow
<1>2. CASE MoveSymlink
    BY <1>1, <1>2 DEF MoveSymlink, Step, WInv, AttemptInv
<1>3. CASE current' = current
    BY <1>1, <1>3 DEF WInv, CurrentIsComplete
<1>4. CASE Next /\ ~MoveSymlink
    BY <1>3, <1>4 DEF Next, Work, Poll, IdlePoll, workerVars, NextMessage, TrainModel,
       UploadFile, StageBundle, PublishModelReady, PublishDlq, Commit, AttemptFails,
       CallFails, GoDown, ComeUp, Overwrite, diskVars
<1>5. CASE UNCHANGED workerVars
    BY <1>3, <1>5 DEF workerVars, diskVars
<1> QED
    BY <1>2, <1>4, <1>5

LEMMA StepAnnounced == WInv /\ [Next]_workerVars => AnnouncedIsBacked'
<1> SUFFICES ASSUME WInv, [Next]_workerVars PROVE AnnouncedIsBacked'
    OBVIOUS
<1> DEFINE Backed(m) == /\ m.version \in DOMAIN versions
                        /\ versions[m.version] = m.model
                        /\ m.version \in DOMAIN registry
                        /\ \A file \in 1..BundleSize :
                               registry[m.version][file] # NoModel
<1> DEFINE Records == [offset: Offsets, version: Versions, model: Models]
<1>1. AnnouncedIsBacked /\ modelReady \in Seq(Records)
    BY DEF WInv, WorkerTypeOK
<1>2. \A m : Backed(m) => /\ m.version \in DOMAIN versions'
                          /\ versions'[m.version] = m.model
                          /\ m.version \in DOMAIN registry'
                          /\ \A file \in 1..BundleSize :
                                 registry'[m.version][file] # NoModel
    BY StoresGrow, WorkerAssumption
<1>3. CASE PublishModelReady
    <2> DEFINE new == [offset |-> Now, version |-> Version, model |-> model]
    <2>1. Version \in DOMAIN versions /\ versions[Version] = model
          /\ Version \in DOMAIN registry
          /\ \A file \in 1..BundleSize : registry[Version][file] # NoModel
        BY <1>3 DEF PublishModelReady, Step, WInv, AttemptInv
    <2>2. Backed(new)
        BY <2>1
    <2>3. modelReady' = Append(modelReady, new)
        BY <1>3 DEF PublishModelReady
    <2>4. new \in Records
        BY <1>3, MessageAtHand
           DEF PublishModelReady, Step, Working, Attempting, WInv, AttemptInv
    <2> HIDE DEF new, Records
    <2>5. /\ modelReady \in Seq(Records) /\ modelReady' \in Seq(Records)
          /\ Len(modelReady') = Len(modelReady) + 1
          /\ \A i \in 1..Len(modelReady) : modelReady'[i] = modelReady[i]
          /\ modelReady'[Len(modelReady) + 1] = new
        BY <1>1, <2>3, <2>4, AppendProperties
    <2>6. Len(modelReady) \in Nat /\ DOMAIN modelReady = 1..Len(modelReady)
          /\ DOMAIN modelReady' = 1..Len(modelReady')
        BY <2>5
    <2>7. \A i \in DOMAIN modelReady' :
              \/ modelReady'[i] = new
              \/ i \in DOMAIN modelReady /\ modelReady'[i] = modelReady[i]
        BY <2>5, <2>6
    <2> QED
        BY <1>1, <1>2, <2>2, <2>7 DEF AnnouncedIsBacked
<1>4. CASE modelReady' = modelReady
    BY <1>1, <1>2, <1>4 DEF AnnouncedIsBacked
<1>5. CASE Next /\ ~PublishModelReady
    BY <1>4, <1>5 DEF Next, Work, Poll, IdlePoll, workerVars, NextMessage, TrainModel,
       UploadFile, StageBundle, MoveSymlink, PublishDlq, Commit, AttemptFails,
       CallFails, GoDown, ComeUp, Overwrite, kafkaVars
<1>6. CASE UNCHANGED workerVars
    BY <1>4, <1>6 DEF workerVars, kafkaVars
<1> QED
    BY <1>3, <1>5, <1>6

-------------------------------------------------------------------------------
(* Outcomes and commits *)

\* An outcome is never taken back, so what is covered stays covered.
LEMMA OutcomesStay ==
    ASSUME WInv, [Next]_workerVars
    PROVE  \A o \in Offsets :
               \/ o \in dlq
               \/ \E i \in DOMAIN modelReady : modelReady[i].offset = o
               => \/ o \in dlq'
                  \/ \E i \in DOMAIN modelReady' : modelReady'[i].offset = o
<1>1. CASE modelReady' = modelReady /\ dlq \subseteq dlq'
    BY <1>1
<1>2. CASE PublishModelReady
    <2> DEFINE Records == [offset: Offsets, version: Versions, model: Models]
               new == [offset |-> Now, version |-> Version, model |-> model]
    <2>1. modelReady' = Append(modelReady, new) /\ dlq' = dlq
        BY <1>2 DEF PublishModelReady
    <2>2. modelReady \in Seq(Records)
        BY DEF WInv, WorkerTypeOK
    <2>3. new \in Records
        BY <1>2, MessageAtHand
           DEF PublishModelReady, Step, Working, Attempting, WInv, AttemptInv
    <2> HIDE DEF new, Records
    <2>4. /\ modelReady' \in Seq(Records)
          /\ Len(modelReady') = Len(modelReady) + 1
          /\ \A i \in 1..Len(modelReady) : modelReady'[i] = modelReady[i]
        BY <2>1, <2>2, <2>3, AppendProperties
    <2>5. \A i \in DOMAIN modelReady :
              i \in DOMAIN modelReady' /\ modelReady'[i] = modelReady[i]
        BY <2>2, <2>4
    <2> QED
        BY <2>1, <2>5
<1>3. CASE Next /\ ~PublishModelReady
    BY <1>1, <1>3 DEF Next, Work, Poll, IdlePoll, workerVars, NextMessage, TrainModel,
       UploadFile, StageBundle, MoveSymlink, PublishDlq, Commit, AttemptFails,
       CallFails, GoDown, ComeUp, Overwrite, kafkaVars
<1>4. CASE UNCHANGED workerVars
    BY <1>1, <1>4 DEF workerVars, kafkaVars
<1> QED
    BY <1>2, <1>3, <1>4

LEMMA CoveredStays ==
    ASSUME WInv, [Next]_workerVars, NEW o, Covered(o) PROVE Covered(o)'
BY OutcomesStay DEF Covered, HasOutcome

\* With an outcome of the message at hand, the whole batch is covered.
LEMMA CommitIsCovered ==
    ASSUME WInv, pc \in {"commit", "commit-dlq"}
    PROVE  \A o \in 0..(position - 1) : Covered(o)
<1>1. Now \in Offsets /\ Now = position - Len(batch)
    BY MessageAtHand DEF Working, Attempting
<1>2. HasOutcome(Now) /\ \A o \in 0..(position - Len(batch) - 1) : Covered(o)
    BY DEF WInv, OutcomeInv
<1>3. Len(batch) \in Nat /\ Len(batch) <= MaxPoll /\ position \in Nat
    BY GoldFacts DEF WInv, WorkerTypeOK, BatchInv
<1>4. ASSUME NEW o \in 0..(position - 1), o >= Now PROVE Covered(o)
    <2>1. Now <= o /\ o < Now + MaxPoll
        BY <1>1, <1>3, <1>4, WorkerAssumption
    <2> QED
        BY <1>1, <1>2, <2>1 DEF Covered
<1>5. ASSUME NEW o \in 0..(position - 1), o < Now PROVE Covered(o)
    <2>1. o \in 0..(position - Len(batch) - 1)
        BY <1>1, <1>3, <1>5
    <2> QED
        BY <1>2, <2>1
<1> QED
    BY <1>1, <1>3, <1>4, <1>5 DEF Offsets

LEMMA StepLoss == WInv /\ [Next]_workerVars => LossIsWithinAPoll'
<1> SUFFICES ASSUME WInv, [Next]_workerVars, NEW o \in 0..(committed' - 1)
             PROVE  Covered(o)'
    BY DEF LossIsWithinAPoll, Covered
<1>1. SUFFICES Covered(o)
    BY <1>1, CoveredStays
<1>2. CASE committed' = committed
    BY <1>2 DEF WInv, LossIsWithinAPoll, Covered
<1>3. CASE Commit \/ CallFails
    BY <1>2, <1>3, CommitIsCovered DEF Commit, CallFails
<1>4. CASE Next /\ ~Commit /\ ~CallFails
    BY <1>2, <1>4 DEF Next, Work, Poll, IdlePoll, workerVars, NextMessage, TrainModel,
       UploadFile, StageBundle, MoveSymlink, PublishModelReady, PublishDlq, AttemptFails,
       GoDown, ComeUp, Overwrite, kafkaVars
<1>5. CASE UNCHANGED workerVars
    BY <1>2, <1>5 DEF workerVars, kafkaVars
<1> QED
    BY <1>3, <1>4, <1>5

LEMMA StepOutcomeInv == WInv /\ [Next]_workerVars => OutcomeInv'
<1> SUFFICES ASSUME WInv, [Next]_workerVars PROVE OutcomeInv'
    OBVIOUS
<1>1. WorkerTypeOK /\ BatchInv /\ OutcomeInv /\ LossIsWithinAPoll
    BY DEF WInv
<1>2. position \in Nat /\ committed \in Nat /\ batch \in Seq(Offsets) /\ Len(batch) \in Nat
    BY <1>1, GoldFacts DEF WorkerTypeOK
<1>3. \A o \in 0..(committed - 1) : Covered(o)
    BY <1>1 DEF LossIsWithinAPoll, Covered
<1>4. ASSUME pc # "down", position' - Len(batch') = position - Len(batch)
      PROVE  \A o \in 0..(position' - Len(batch') - 1) : Covered(o)'
    BY <1>1, <1>4, CoveredStays DEF OutcomeInv
<1>5. ASSUME UNCHANGED <<batch, position>>, pc # "down",
             pc' \in {"commit", "commit-dlq"} =>
                 pc = pc' /\ UNCHANGED <<dlq, modelReady>>
      PROVE  OutcomeInv'
    <2>1. pc' \in {"commit", "commit-dlq"} => HasOutcome(Now)'
        BY <1>1, <1>5 DEF OutcomeInv, HasOutcome, Now
    <2> QED
        BY <1>4, <1>5, <2>1 DEF OutcomeInv
<1> USE DEF Step, kafkaVars, diskVars, memoryVars
<1>6. CASE Poll
    <2>1. PICK n \in 1..MaxPoll : /\ batch' = [i \in 1..n |-> position + i - 1]
                                  /\ position' = position + n
        BY <1>6 DEF Poll
    <2>2. pc = "poll" /\ pc' = "next"
        BY <1>6 DEF Poll
    <2>3. Len(batch') = n /\ Len(batch) = 0
        BY <1>1, <2>1, <2>2, WorkerAssumption DEF BatchInv
    <2>4. position' - Len(batch') = position - Len(batch)
        BY <1>2, <2>1, <2>3, WorkerAssumption
    <2> QED
        BY <1>4, <2>2, <2>4 DEF OutcomeInv
<1>7. CASE NextMessage
    BY <1>5, <1>7 DEF NextMessage
<1>8. CASE TrainModel \/ UploadFile \/ StageBundle \/ MoveSymlink
    BY <1>5, <1>8 DEF TrainModel, UploadFile, StageBundle, MoveSymlink
<1>9. CASE PublishModelReady
    <2> DEFINE Records == [offset: Offsets, version: Versions, model: Models]
               new == [offset |-> Now, version |-> Version, model |-> model]
    <2>1. modelReady' = Append(modelReady, new) /\ pc = "publish" /\ pc' = "commit"
          /\ UNCHANGED <<batch, position>>
        BY <1>9 DEF PublishModelReady
    <2>2. new \in Records /\ new.offset = Now
        BY <2>1, MessageAtHand DEF Working, Attempting, WInv, AttemptInv
    <2>3. modelReady \in Seq(Records)
        BY <1>1 DEF WorkerTypeOK
    <2> HIDE DEF new, Records
    <2>4. /\ modelReady' \in Seq(Records) /\ Len(modelReady) \in Nat
          /\ Len(modelReady') = Len(modelReady) + 1
          /\ modelReady'[Len(modelReady) + 1] = new
        BY <2>1, <2>2, <2>3, AppendProperties
    <2>5. Len(modelReady) + 1 \in DOMAIN modelReady'
        BY <2>4
    <2>6. Now' = Now
        BY <2>1 DEF Now
    <2>7. HasOutcome(Now)'
        BY <2>2, <2>4, <2>5, <2>6 DEF HasOutcome
    <2> QED
        BY <1>4, <2>1, <2>7 DEF OutcomeInv
<1>10. CASE PublishDlq
    <2>1. pc = "dlq" /\ pc' = "commit-dlq" /\ UNCHANGED <<batch, position>>
          /\ dlq' = dlq \cup {Now}
        BY <1>10 DEF PublishDlq
    <2>2. HasOutcome(Now)'
        BY <2>1 DEF HasOutcome, Now
    <2> QED
        BY <1>4, <2>1, <2>2 DEF OutcomeInv
<1>11. CASE Commit
    <2>1. pc' = "next" /\ position' = position
        BY <1>11 DEF Commit
    <2>2. \A o \in 0..(position - 1) : Covered(o)'
        BY <1>11, CommitIsCovered, CoveredStays DEF Commit
    <2>3. Len(batch') \in Nat
        BY <1>1, <1>2, <1>11 DEF Commit, BatchInv, Working, Attempting
    <2> QED
        BY <1>2, <2>1, <2>2, <2>3 DEF OutcomeInv
<1>12. CASE AttemptFails
    BY <1>5, <1>12 DEF AttemptFails, NextAttempt
<1>13. CASE CallFails
    BY <1>5, <1>13 DEF CallFails, NextAttempt
<1>14. CASE GoDown
    BY <1>14 DEF GoDown, OutcomeInv
<1>15. CASE ComeUp
    <2>1. pc' = "poll" /\ position' = committed /\ batch' = batch /\ Len(batch) = 0
        BY <1>1, <1>15 DEF ComeUp, BatchInv
    <2> QED
        BY <1>2, <1>3, <2>1, CoveredStays DEF OutcomeInv
<1>16. CASE UNCHANGED workerVars \/ IdlePoll
    BY <1>1, <1>4, <1>16 DEF IdlePoll, workerVars, OutcomeInv, Covered, HasOutcome, Now
<1>17. ASSUME NEW o \in Objects, Overwrite(o) PROVE OutcomeInv'
    BY <1>1, <1>17 DEF Overwrite, OutcomeInv, Covered, HasOutcome, Now
<1> QED
    BY <1>6, <1>7, <1>8, <1>9, <1>10, <1>11, <1>12, <1>13, <1>14, <1>15, <1>16, <1>17
       DEF Next, Work

-------------------------------------------------------------------------------
(* Theorems *)

\* Every step of the worker and of its failures keeps the invariant.
LEMMA StepWInv == WInv /\ [Next]_workerVars => WInv'
BY StepWorkerTypeOK, StepBatchInv, StepAttemptInv, StepOutcomeInv, StepCurrent,
   StepAnnounced, StepLoss DEF WInv

\* The invariant holds in every reachable state.
THEOREM SpecWInv == Spec => []WInv
BY InitWInv, StepWInv, PTL DEF Spec

\* Every variable keeps its type, for every topic and all bounds.
THEOREM SpecWorkerTypeOK == Spec => []WorkerTypeOK
BY SpecWInv, PTL DEF WInv

\* The symlink models/current never leads nowhere (s3_client.py:109-117).
THEOREM SpecCurrentIsComplete == Spec => []CurrentIsComplete
BY SpecWInv, PTL DEF WInv

\* An announced model is in the registry with all its files, and in the model
\* directory as it was announced (streaming_worker.py:60-72).
THEOREM SpecAnnouncedIsBacked == Spec => []AnnouncedIsBacked
BY SpecWInv, PTL DEF WInv

\* What a death makes the worker skip lies less than a poll behind an outcome
\* (streaming_worker.py:72).
THEOREM SpecLossIsWithinAPoll == Spec => []LossIsWithinAPoll
BY SpecWInv, PTL DEF WInv

-------------------------------------------------------------------------------
(* The order of the models *)

\* No version comes back once another has been announced.  The streamer gives
\* every announcement a version of its own (the checksum covers the time of the
\* file, producer.rs:66-72); only a retry of the producer repeats one, and that
\* at once.
VersionsInOrder ==
    \A o, p \in Offsets :
        o <= p => FirstOffset(Message(o).version) <= FirstOffset(Message(p).version)

\* The next message that the worker finishes or takes up again.
Frontier == IF pc = "down" THEN committed ELSE position - Len(batch)

\* A death cannot take the worker back behind its frontier, and what is in the
\* model directory comes from messages that the frontier has reached.
OrderInv ==
    /\ Frontier <= committed
    /\ \A v \in DOMAIN versions :
          \E c \in Offsets : c <= Frontier /\ Message(c).version = v

LEMMA FirstOffsetLemma ==
    ASSUME NEW o \in Offsets
    PROVE  LET v == Message(o).version IN
           /\ FirstOffset(v) \in Offsets
           /\ Message(FirstOffset(v)).version = v
           /\ \A p \in Offsets : Message(p).version = v => FirstOffset(v) <= p
<1> DEFINE v == Message(o).version
           Same == {p \in Offsets : Message(p).version = v}
<1>1. Same # {} /\ Same \subseteq Nat
    <2>1. Offsets \subseteq Nat
        BY DEF Offsets
    <2>2. o \in Same
        OBVIOUS
    <2> QED
        BY <2>1, <2>2
<1>2. PICK j \in Same : \A p \in Same : <<p, j>> \notin OpToRel(<, Nat)
    <2> HIDE DEF Same
    <2> QED
        BY <1>1, NatLessThanWellFounded, WFMin
<1>3. \A p \in Same : j <= p
    <2> SUFFICES ASSUME NEW p \in Same PROVE j <= p
        OBVIOUS
    <2>1. p \in Nat /\ j \in Nat
        BY <1>1, <1>2
    <2>2. ~(p < j)
        BY <1>2, <2>1 DEF OpToRel
    <2> QED
        BY <2>1, <2>2
<1>4. \E m \in Offsets : /\ Message(m).version = v
                         /\ \A p \in Offsets : Message(p).version = v => m <= p
    BY <1>2, <1>3
<1> HIDE DEF v, Same
<1>5. /\ FirstOffset(v) \in Offsets
      /\ Message(FirstOffset(v)).version = v
      /\ \A p \in Offsets : Message(p).version = v => FirstOffset(v) <= p
    BY <1>4 DEF FirstOffset
<1> QED
    BY <1>5 DEF v

LEMMA FrontierType == WInv => Frontier \in Nat /\ committed \in Nat /\ position \in Nat
BY GoldFacts DEF WInv, WorkerTypeOK, BatchInv, Frontier

\* Whatever fails, the frontier never goes back.
LEMMA StepFrontier ==
    ASSUME WInv, Frontier <= committed, [Next]_workerVars
    PROVE  Frontier <= Frontier' /\ Frontier' <= committed'
<1>1. /\ position \in Nat /\ committed \in Nat /\ batch \in Seq(Offsets)
      /\ Len(batch) \in Nat /\ Len(batch) <= position
    BY GoldFacts DEF WInv, WorkerTypeOK, BatchInv
<1>2. pc # "down" /\ batch = <<>> => position = committed
    BY DEF WInv, BatchInv
<1>3. pc \in Working => batch # <<>>
    BY DEF WInv, BatchInv
<1> USE <1>1 DEF Frontier, Step, kafkaVars, diskVars, memoryVars
<1>4. CASE Poll
    <2>1. PICK n \in 1..MaxPoll :
              /\ batch' = [i \in 1..n |-> position + i - 1]
              /\ position' = position + n
        BY <1>4 DEF Poll
    <2>2. Len(batch') = n /\ pc = "poll" /\ pc' = "next" /\ committed' = committed
        BY <1>4, <2>1, WorkerAssumption DEF Poll
    <2>3. batch = <<>> /\ Len(batch) = 0
        BY <2>2 DEF WInv, BatchInv
    <2>4. position = committed
        BY <1>2, <2>2, <2>3
    <2>5. Frontier = position /\ Frontier' = position
        BY <2>1, <2>2, <2>3
    <2> QED
        BY <2>2, <2>4, <2>5
<1>5. CASE Commit
    <2>1. batch # <<>> /\ pc # "down" /\ pc' # "down"
          /\ batch' = Tail(batch) /\ position' = position /\ committed' = position
        BY <1>3, <1>5 DEF Commit, Working, Attempting
    <2>2. Len(batch') = Len(batch) - 1 /\ Len(batch) >= 1
        BY <2>1
    <2> QED
        BY <2>1, <2>2
<1>6. CASE CallFails
    <2>1. pc # "down" /\ pc' # "down" /\ UNCHANGED <<batch, position>>
          /\ committed' \in {committed, position}
        BY <1>6 DEF CallFails, NextAttempt
    <2> QED
        BY <2>1
<1>7. CASE GoDown
    BY <1>7 DEF GoDown
<1>8. CASE ComeUp
    <2>1. pc = "down" /\ pc' = "poll" /\ position' = committed /\ batch' = batch
          /\ committed' = committed /\ batch = <<>> /\ Len(batch) = 0
        BY <1>8 DEF ComeUp, WInv, BatchInv
    <2> QED
        BY <2>1
<1>9. ASSUME UNCHANGED <<position, batch, committed>>, pc' = "down" <=> pc = "down"
      PROVE  Frontier <= Frontier' /\ Frontier' <= committed'
    BY <1>9
<1>10. CASE NextMessage \/ TrainModel \/ UploadFile \/ StageBundle
    BY <1>9, <1>10 DEF NextMessage, TrainModel, UploadFile, StageBundle
<1>11. CASE MoveSymlink \/ PublishModelReady \/ PublishDlq \/ AttemptFails
    BY <1>9, <1>11 DEF MoveSymlink, PublishModelReady, PublishDlq, AttemptFails, NextAttempt
<1>12. CASE IdlePoll \/ UNCHANGED workerVars
    BY <1>9, <1>12 DEF IdlePoll, workerVars
<1>13. ASSUME NEW o \in Objects, Overwrite(o)
       PROVE  Frontier <= Frontier' /\ Frontier' <= committed'
    BY <1>9, <1>13 DEF Overwrite
<1> QED
    BY <1>4, <1>5, <1>6, <1>7, <1>8, <1>10, <1>11, <1>12, <1>13 DEF Next, Work

\* The message at hand is at the frontier.
LEMMA NowIsFrontier ==
    ASSUME WInv, pc \in Working PROVE Now = Frontier /\ Now \in Offsets
BY MessageAtHand DEF Frontier, Working, Attempting

\* Only one step writes to the model directory, and only one to the symlink.
LEMMA OnlyStageBundle == [Next]_workerVars /\ versions' # versions => StageBundle
BY DEF Next, Work, Poll, IdlePoll, NextMessage, TrainModel, UploadFile, MoveSymlink,
   PublishModelReady, PublishDlq, Commit, AttemptFails, CallFails, GoDown, ComeUp,
   Overwrite, workerVars, diskVars

LEMMA OnlyMoveSymlink == [Next]_workerVars /\ current' # current => MoveSymlink
BY DEF Next, Work, Poll, IdlePoll, NextMessage, TrainModel, UploadFile, StageBundle,
   PublishModelReady, PublishDlq, Commit, AttemptFails, CallFails, GoDown, ComeUp,
   Overwrite, workerVars, diskVars

LEMMA InitOrderInv == Init => OrderInv
BY DEF Init, OrderInv, Frontier, EmptyMap

LEMMA StepOrderInv == WInv /\ OrderInv /\ [Next]_workerVars => OrderInv'
<1> SUFFICES ASSUME WInv, OrderInv, [Next]_workerVars PROVE OrderInv'
    OBVIOUS
<1>1. Frontier <= Frontier' /\ Frontier' <= committed'
    BY StepFrontier DEF OrderInv
<1>2. Frontier \in Nat /\ Frontier' \in Nat
    <2>1. WInv'
        BY StepWInv
    <2>2. Frontier' \in Nat
        BY <2>1, GoldFacts DEF WInv, WorkerTypeOK, BatchInv, Frontier
    <2> QED
        BY <2>2, FrontierType
<1>3. ASSUME NEW v \in DOMAIN versions'
      PROVE  \E c \in Offsets : c <= Frontier' /\ Message(c).version = v
    <2>1. SUFFICES \E c \in Offsets : c <= Frontier /\ Message(c).version = v
        <3>1. \A c \in Offsets : c <= Frontier => c <= Frontier'
            BY <1>1, <1>2 DEF Offsets
        <3> QED
            BY <2>1, <3>1
    <2>2. CASE v \in DOMAIN versions
        BY <2>2 DEF OrderInv
    <2>3. CASE v \notin DOMAIN versions
        <3>1. StageBundle
            BY <2>3, OnlyStageBundle
        <3>2. v = Version /\ pc = "stage"
            BY <2>3, <3>1 DEF StageBundle, Step, Put
        <3>3. Now = Frontier /\ Now \in Offsets
            BY <3>2, NowIsFrontier DEF Working, Attempting
        <3> QED
            BY <1>2, <3>2, <3>3 DEF Version
    <2> QED
        BY <2>2, <2>3
<1> QED
    BY <1>1, <1>3 DEF OrderInv

\* What is in the model directory comes no later than the message at hand.
LEMMA StagedBefore ==
    ASSUME WInv, OrderInv, VersionsInOrder, pc \in Working, NEW v \in DOMAIN versions
    PROVE  FirstOffset(v) <= FirstOffset(Version)
<1>1. PICK c \in Offsets : c <= Frontier /\ Message(c).version = v
    BY DEF OrderInv
<1>2. Now = Frontier /\ Now \in Offsets
    BY NowIsFrontier
<1> QED
    BY <1>1, <1>2 DEF VersionsInOrder, Version

LEMMA StepCurrentMoves ==
    ASSUME VersionsInOrder, WInv, OrderInv, [Next]_workerVars
    PROVE  [current # "none" => FirstOffset(current') >= FirstOffset(current)]_current
<1> SUFFICES ASSUME current # "none", current' # current
             PROVE  FirstOffset(current') >= FirstOffset(current)
    OBVIOUS
<1>1. MoveSymlink
    BY OnlyMoveSymlink
<1>2. current' = Version /\ pc \in Working
    BY <1>1 DEF MoveSymlink, Step, Working, Attempting
<1>3. current \in DOMAIN versions
    BY DEF WInv, CurrentIsComplete
<1>4. FirstOffset(current) <= FirstOffset(Version)
    BY <1>2, <1>3, StagedBefore
<1>5. FirstOffset(current) \in Nat /\ FirstOffset(Version) \in Nat
    <2>1. PICK c \in Offsets : Message(c).version = current
        BY <1>3 DEF OrderInv
    <2>2. Now \in Offsets
        BY <1>2, NowIsFrontier
    <2> QED
        BY <2>1, <2>2, FirstOffsetLemma DEF Offsets, Version
<1> QED
    BY <1>2, <1>4, <1>5

\* The inductive invariant behind the order of the models.
THEOREM SpecOrderInv == Spec => []OrderInv
<1>1. WInv /\ OrderInv /\ [Next]_workerVars => (WInv /\ OrderInv)'
    BY StepWInv, StepOrderInv
<1>2. Init => WInv /\ OrderInv
    BY InitWInv, InitOrderInv
<1> QED
    BY <1>1, <1>2, PTL DEF Spec

\* The active model is never replaced by the one of an earlier message
\* (s3_client.py:109-117), however the worker retries and wherever it dies, if no
\* version comes back after another.
THEOREM SpecCurrentNeverMovesBack ==
    ASSUME VersionsInOrder PROVE Spec => CurrentNeverMovesBack
<1>1. WInv /\ OrderInv /\ [Next]_workerVars
         => [current # "none" => FirstOffset(current') >= FirstOffset(current)]_current
    BY StepCurrentMoves
<1> QED
    BY <1>1, SpecWInv, SpecOrderInv, PTL DEF Spec, CurrentNeverMovesBack

-------------------------------------------------------------------------------
(* What the models were trained on *)

\* The version is a hash of the event id, and that one of the object's key among
\* others (producer.rs:66-72).
VersionsNameObjects ==
    \A o, p \in Offsets : Message(o).version = Message(p).version =>
                              Message(o).object = Message(p).object

\* A gold object only changes for the next model: of two models of one object the
\* one of the earlier message has the older rows.
ContentInv ==
    /\ \A v \in DOMAIN versions :
          /\ versions[v][1] = Message(FirstOffset(v)).object
          /\ versions[v][2] <= content[versions[v][1]]
    /\ \A u, v \in DOMAIN versions :
          FirstOffset(u) <= FirstOffset(v) /\ versions[u][1] = versions[v][1] =>
              versions[u][2] <= versions[v][2]
    /\ pc \in {"upload", "stage"} =>
          /\ model[1] = Message(Now).object
          /\ model[2] <= content[model[1]]
          /\ \A v \in DOMAIN versions :
                v # Version /\ versions[v][1] = model[1] => versions[v][2] <= model[2]

LEMMA ModelIsPair == \A m \in Models : m = <<m[1], m[2]>> /\ m[1] \in Objects /\ m[2] \in Nat
BY DEF Models

\* Every version in the model directory is that of a message.
LEMMA StagedOffset ==
    ASSUME OrderInv, NEW v \in DOMAIN versions
    PROVE  /\ FirstOffset(v) \in Offsets /\ FirstOffset(v) \in Nat
           /\ Message(FirstOffset(v)).version = v
<1>1. PICK c \in Offsets : Message(c).version = v
    BY DEF OrderInv
<1> QED
    BY <1>1, FirstOffsetLemma DEF Offsets

LEMMA InitContentInv == Init => ContentInv
BY DEF Init, ContentInv, EmptyMap

LEMMA ContentOfStaged ==
    ASSUME VersionsInOrder, VersionsNameObjects, WInv, OrderInv, ContentInv, StageBundle
    PROVE  ContentInv'
<1>1. /\ pc = "stage" /\ pc' = "link" /\ UNCHANGED <<content, batch, model>>
      /\ versions' = Put(versions, Version, model)
      /\ Version \in DOMAIN versions => versions[Version] = model
    BY DEF StageBundle, Step, memoryVars
<1>2. /\ DOMAIN versions' = DOMAIN versions \cup {Version}
      /\ versions'[Version] = model
      /\ \A v \in DOMAIN versions : versions'[v] = versions[v]
    BY <1>1 DEF Put
<1>3. Now \in Offsets /\ pc \in Working
    BY <1>1, NowIsFrontier DEF Working, Attempting
<1>4. /\ FirstOffset(Version) \in Offsets /\ FirstOffset(Version) \in Nat
      /\ Message(FirstOffset(Version)).version = Version
      /\ Message(FirstOffset(Version)).object = Message(Now).object
    <2>1. FirstOffset(Version) \in Offsets /\ Message(FirstOffset(Version)).version = Version
        BY <1>3, FirstOffsetLemma DEF Version
    <2> QED
        BY <1>3, <2>1 DEF VersionsNameObjects, Version, Offsets
<1>5. model \in Models
    BY <1>1 DEF WInv, AttemptInv, Attempting
<1>6. ASSUME NEW v \in DOMAIN versions'
      PROVE  /\ versions'[v][1] = Message(FirstOffset(v)).object
             /\ versions'[v][2] <= content[versions'[v][1]]
    <2>1. CASE v = Version
        BY <1>1, <1>2, <1>4, <2>1 DEF ContentInv
    <2>2. CASE v # Version
        BY <1>2, <2>2 DEF ContentInv
    <2> QED
        BY <2>1, <2>2
<1>7. ASSUME NEW u \in DOMAIN versions', NEW v \in DOMAIN versions',
             FirstOffset(u) <= FirstOffset(v), versions'[u][1] = versions'[v][1]
      PROVE  versions'[u][2] <= versions'[v][2]
    <2>1. CASE u # Version /\ v # Version
        BY <1>2, <1>7, <2>1 DEF ContentInv
    <2>2. CASE u # Version /\ v = Version
        BY <1>1, <1>2, <1>7, <2>2 DEF ContentInv
    <2>3. CASE u = Version /\ v = Version
        BY <1>2, <1>5, <2>3, ModelIsPair
    <2>4. CASE u = Version /\ v # Version
        <3>1. v \in DOMAIN versions
            BY <1>2, <2>4
        <3>2. /\ FirstOffset(v) \in Nat /\ Message(FirstOffset(v)).version = v
              /\ FirstOffset(v) <= FirstOffset(Version)
            BY <1>3, <3>1, StagedBefore, StagedOffset
        <3>3. FirstOffset(v) = FirstOffset(Version)
            BY <1>4, <1>7, <2>4, <3>2
        <3> QED
            BY <1>4, <2>4, <3>2, <3>3
    <2> QED
        BY <2>1, <2>2, <2>3, <2>4
<1> QED
    BY <1>1, <1>6, <1>7 DEF ContentInv

LEMMA StepContentInv ==
    ASSUME VersionsInOrder, VersionsNameObjects, WInv, OrderInv, ContentInv,
           [Next]_workerVars
    PROVE  ContentInv'
<1>1. content \in [Objects -> 0..MaxOverwrites]
    BY DEF WInv, WorkerTypeOK
<1> USE DEF Step, kafkaVars, diskVars, memoryVars
<1>2. ASSUME UNCHANGED <<content, versions>>, pc' \notin {"upload", "stage"}
      PROVE  ContentInv'
    BY <1>2 DEF ContentInv
<1>3. CASE StageBundle
    BY <1>3, ContentOfStaged
<1>4. CASE TrainModel
    <2>1. /\ pc = "train" /\ UNCHANGED <<content, versions, batch>>
          /\ model' = Train(Now)
        BY <1>4 DEF TrainModel
    <2>2. Now' = Now /\ Version' = Version
        BY <2>1 DEF Now, Version, Message
    <2>3. model'[1] = Message(Now).object /\ model'[2] = content[Message(Now).object]
        BY <2>1 DEF Train
    <2>4. content[Message(Now).object] \in Nat
        BY <1>1, <2>1, MessageAtHand DEF Working, Attempting
    <2> QED
        BY <2>1, <2>2, <2>3, <2>4 DEF ContentInv, Message
<1>5. CASE UploadFile
    <2>1. pc = "upload" /\ UNCHANGED <<content, versions, batch, model>>
        BY <1>5 DEF UploadFile
    <2>2. Now' = Now /\ Version' = Version
        BY <2>1 DEF Now, Version, Message
    <2> QED
        BY <2>1, <2>2 DEF ContentInv, Message
<1>6. ASSUME NEW o \in Objects, Overwrite(o) PROVE ContentInv'
    <2>1. content' = [content EXCEPT ![o] = @ + 1] /\ UNCHANGED <<versions, pc, batch, model>>
        BY <1>6 DEF Overwrite
    <2>2. Now' = Now /\ Version' = Version
        BY <2>1 DEF Now, Version, Message
    <2>3. \A x \in Objects :
            content[x] \in Nat /\ content'[x] \in Nat /\ content[x] <= content'[x]
        BY <1>1, <2>1
    <2>4. \A v \in DOMAIN versions : versions[v][1] \in Objects /\ versions[v][2] \in Nat
        BY ModelIsPair DEF WInv, WorkerTypeOK
    <2>5. pc \in {"upload", "stage"} => model[1] \in Objects /\ model[2] \in Nat
        BY ModelIsPair DEF WInv, AttemptInv, Attempting
    <2>6. \A v \in DOMAIN versions : versions[v][2] <= content'[versions[v][1]]
        BY <2>3, <2>4 DEF ContentInv
    <2>7. pc \in {"upload", "stage"} => model[2] <= content'[model[1]]
        BY <2>3, <2>5 DEF ContentInv
    <2> QED
        BY <2>1, <2>2, <2>6, <2>7 DEF ContentInv, Message
<1>7. CASE Poll \/ NextMessage \/ MoveSymlink \/ PublishModelReady \/ PublishDlq
    BY <1>2, <1>7 DEF Poll, NextMessage, MoveSymlink, PublishModelReady, PublishDlq
<1>8. CASE Commit \/ AttemptFails \/ CallFails \/ GoDown \/ ComeUp \/ IdlePoll
    BY <1>2, <1>8 DEF Commit, AttemptFails, CallFails, NextAttempt, GoDown, ComeUp, IdlePoll,
       workerVars
<1>9. CASE UNCHANGED workerVars
    BY <1>9 DEF workerVars, ContentInv, Version, Now, Message
<1> QED
    BY <1>3, <1>4, <1>5, <1>6, <1>7, <1>8, <1>9 DEF Next, Work

\* An object is not announced again after another one was.  (The streamer puts a
\* batch under the same key again only when it repeats it after a death, before
\* the next batch; that a rebalance sets a commit back is left out here.)
ObjectsInRuns ==
    \A o, p, q \in Offsets :
        o <= p /\ p <= q /\ Message(o).object = Message(q).object =>
            Message(p).object = Message(o).object

\* Between two messages that gave the same model, every message gave it.
LEMMA SameModelBetween ==
    ASSUME ObjectsInRuns, WInv, OrderInv, ContentInv,
           NEW u \in DOMAIN versions, NEW w \in DOMAIN versions, NEW v \in DOMAIN versions,
           FirstOffset(u) <= FirstOffset(w), FirstOffset(w) <= FirstOffset(v),
           versions[u] = versions[v]
    PROVE  versions[w] = versions[u]
<1>1. \A x \in DOMAIN versions : versions[x] \in Models
    BY DEF WInv, WorkerTypeOK
<1>2. versions[w][1] = versions[u][1]
    BY StagedOffset DEF ObjectsInRuns, ContentInv
<1>3. FirstOffset(u) \in Nat /\ FirstOffset(w) \in Nat /\ FirstOffset(v) \in Nat
    BY StagedOffset
<1>4. versions[u][2] <= versions[w][2] /\ versions[w][2] <= versions[u][2]
    BY <1>2, <1>3 DEF ContentInv
<1> QED
    BY <1>1, <1>2, <1>4, ModelIsPair

(***************************************************************************)
(* Part 2: the engine beside it                                            *)
(***************************************************************************)

\* A load is under way.
Loading == {"verify", "schema", "session", "swap"}

\* Once a load has begun there is a link to follow, and a load goes on only while
\* its pool is not full.
LoaderInv ==
    /\ loader.at \in Loading => current # "none"
    /\ loader.at \in Loading \ {"swap"} => Len(loader.read.sessions) < PoolSize
    /\ loader.at \in {"verify", "schema"} => loader.read.sessions = <<>>
    /\ loader.at \notin Loading => loader.read.sessions = <<>>
    /\ loader.at = "swap" => Len(loader.read.sessions) = PoolSize

PInv ==
    /\ WInv
    /\ TypeOK
    /\ LoaderInv

\* The engine is a reader: what the platform does to the worker's variables, the
\* worker does.
LEMMA StepOfWorker == [PlatformNext]_vars => [Next]_workerVars
BY DEF PlatformNext, Next, EngineStep, StartWithoutBundle, ReadChecksums,
   VerifyArtifacts, ReadSchema, CommitSession, LoadFails, HotSwap, vars

LEMMA EngineTypes ==
    ASSUME PInv, EngineStep
    PROVE  TypeOK' /\ LoaderInv'
<1>1. WorkerTypeOK' /\ UNCHANGED workerVars
    <2>1. UNCHANGED workerVars
        BY DEF EngineStep, StartWithoutBundle, ReadChecksums, VerifyArtifacts, ReadSchema,
           CommitSession, LoadFails, HotSwap
    <2> QED
        BY <2>1, StepWInv DEF PInv, WInv
<1>2. current # "none" => current \in Versions /\ versions[current] \in Models
    BY DEF PInv, WInv, CurrentIsComplete, WorkerTypeOK
<1>3. UNCHANGED <<current, versions>>
    BY <1>1 DEF workerVars, diskVars
<1> USE <1>1, <1>2, <1>3, PoolAssumption
<1> USE DEF PInv, TypeOK, LoaderInv, Loading, Empty, Idle, NoLoad
<1>4. CASE StartWithoutBundle
    BY <1>4 DEF StartWithoutBundle
<1>5. CASE ReadChecksums
    BY <1>5 DEF ReadChecksums
<1>6. CASE VerifyArtifacts
    BY <1>6 DEF VerifyArtifacts, Load
<1>7. CASE ReadSchema
    BY <1>7 DEF ReadSchema, Reads
<1>8. CASE CommitSession
    <2> DEFINE sessions == Append(loader.read.sessions, versions[current])
    <2>1. /\ loader.read.sessions \in Seq(Models) /\ versions[current] \in Models
          /\ Len(loader.read.sessions) < PoolSize
        BY <1>8 DEF CommitSession
    <2>2. sessions \in Seq(Models) /\ Len(sessions) = Len(loader.read.sessions) + 1
        BY <2>1, AppendProperties
    <2>3. Len(sessions) \in Nat /\ Len(sessions) <= PoolSize
        BY <2>1, <2>2
    <2>4. /\ loader' = [at |-> IF Len(sessions) = PoolSize THEN "swap" ELSE "session",
                        boot |-> loader.boot, from |-> loader.from,
                        read |-> [checksum |-> loader.read.checksum,
                                  version |-> loader.read.version,
                                  sessions |-> sessions]]
          /\ served' = served
        BY <1>8 DEF CommitSession, Reads
    <2> HIDE DEF sessions
    <2>5. /\ loader'.at = IF Len(sessions) = PoolSize THEN "swap" ELSE "session"
          /\ loader'.boot = loader.boot /\ loader'.from = loader.from
          /\ loader'.read = [checksum |-> loader.read.checksum,
                             version |-> loader.read.version, sessions |-> sessions]
          /\ loader'.read.sessions = sessions
        BY <2>4
    <2>6. LoaderInv'
        BY <1>8, <2>2, <2>3, <2>5 DEF CommitSession
    <2>7. loadFaults' \in 0..MaxLoadFaults
        BY <1>8 DEF CommitSession
    <2>8. TypeOK'
        BY <2>2, <2>3, <2>4, <2>5, <2>7
    <2> QED
        BY <2>6, <2>8
<1>9. CASE LoadFails
    <2>1. loadFaults' \in 0..MaxLoadFaults
        BY <1>9 DEF LoadFails, LoadError
    <2>2. served' = served
        BY <1>9 DEF LoadFails
    <2>3. \E at \in {"exited", "idle"} :
            loader' = [at |-> at, boot |-> FALSE, from |-> "none",
                       read |-> [checksum |-> NoModel, version |-> "none",
                                 sessions |-> <<>>]]
        BY <1>9 DEF LoadFails, LoadError
    <2>4. <<>> \in Seq(Models) /\ Len(<<>>) = 0
        OBVIOUS
    <2>5. TypeOK'
        BY <2>1, <2>2, <2>3, <2>4
    <2>6. LoaderInv'
        BY <2>3
    <2> QED
        BY <2>5, <2>6
<1>10. CASE HotSwap
    BY <1>10 DEF HotSwap
<1> QED
    BY <1>4, <1>5, <1>6, <1>7, <1>8, <1>9, <1>10 DEF EngineStep

\* What the container and the worker do to the engine: they take it down, start
\* it, or leave it alone.
LEMMA WorkerSteps ==
    ASSUME PInv, [PlatformNext]_vars, ~EngineStep
    PROVE  TypeOK' /\ LoaderInv'
<1>1. [Next]_workerVars
    BY StepOfWorker
<1>2. WorkerTypeOK' /\ WInv'
    BY <1>1, StepWInv DEF PInv, WInv
<1>3. current # "none" => current' # "none"
    BY <1>1, NoneAssumption, MessageAtHand
       DEF Next, Work, Poll, IdlePoll, NextMessage, TrainModel, UploadFile, StageBundle,
           MoveSymlink, PublishModelReady, PublishDlq, Commit, AttemptFails, CallFails,
           GoDown, ComeUp, Overwrite, workerVars, diskVars, PInv, Step, Working, Attempting
<1>4. CASE UNCHANGED engineVars
    BY <1>2, <1>3, <1>4 DEF engineVars, PInv, TypeOK, LoaderInv, Loading
<1>5. CASE EngineOff \/ EngineStarts
    <2>1. /\ \/ loader' = NoLoad("off", FALSE)
             \/ loader' = NoLoad("start", TRUE)
          /\ served' = Empty /\ loadFaults' \in 0..MaxLoadFaults
        BY <1>5 DEF EngineOff, EngineStarts, PInv, TypeOK
    <2>2. Len(<<>>) = 0 /\ <<>> \in Seq(Models)
        OBVIOUS
    <2>3. served'.sessions = <<>> /\ loader'.read.sessions = <<>>
          /\ loader'.at \in {"off", "start"}
        BY <2>1 DEF Empty, NoLoad
    <2>4. Empty \in [checksum: Models \cup {NoModel},
                    version: Versions \cup {"none"}, sessions: Seq(Models)]
        BY <2>2 DEF Empty
    <2>5. loader' \in [at: {"off", "start", "idle", "verify", "schema", "session",
                            "swap", "exited"},
                       boot: BOOLEAN,
                       from: Versions \cup {"none"},
                       read: [checksum: Models \cup {NoModel},
                              version: Versions \cup {"none"}, sessions: Seq(Models)]]
        <3>1. CASE loader' = NoLoad("off", FALSE)
            BY <2>4, <3>1 DEF NoLoad
        <3>2. CASE loader' = NoLoad("start", TRUE)
            BY <2>4, <3>2 DEF NoLoad
        <3> QED
            BY <2>1, <3>1, <3>2
    <2>6. Len(loader'.read.sessions) <= PoolSize /\ Len(served'.sessions) \in {0, PoolSize}
        BY <2>2, <2>3, PoolAssumption
    <2>7. TypeOK'
        BY <1>2, <2>1, <2>4, <2>5, <2>6 DEF TypeOK
    <2>8. LoaderInv'
        BY <2>3 DEF LoaderInv, Loading
    <2> QED
        BY <2>7, <2>8
<1> QED
    BY <1>4, <1>5 DEF PlatformNext, vars

LEMMA StepPInv == PInv /\ [PlatformNext]_vars => PInv'
BY StepOfWorker, StepWInv, EngineTypes, WorkerSteps DEF PInv

LEMMA InitPInv == PlatformInit => PInv
BY InitWInv, PoolAssumption
   DEF PlatformInit, EngineInit, PInv, WInv, TypeOK, LoaderInv, Loading, Empty, NoLoad

\* The invariant holds in every reachable state of the worker and the engine.
THEOREM PlatformPInv == PlatformSpec => []PInv
BY InitPInv, StepPInv, PTL DEF PlatformSpec

\* Every variable keeps its type, for every topic, pool size and all bounds; a
\* served model has all its sessions.
THEOREM PlatformTypeOK == PlatformSpec => []TypeOK
BY PlatformPInv, PTL DEF PInv

\* The link that the engine follows never leads nowhere.
THEOREM PlatformCurrentIsComplete == PlatformSpec => []CurrentIsComplete
BY PlatformPInv, PTL DEF PInv, WInv

\* Beside the engine too, an announced model is backed.
THEOREM PlatformAnnouncedIsBacked == PlatformSpec => []AnnouncedIsBacked
BY PlatformPInv, PTL DEF PInv, WInv

\* And a loss lies within a poll of an outcome.
THEOREM PlatformLossIsWithinAPoll == PlatformSpec => []LossIsWithinAPoll
BY PlatformPInv, PTL DEF PInv, WInv

-------------------------------------------------------------------------------
(* What the engine has seen *)

Precedes(u, v) == FirstOffset(u) <= FirstOffset(v)

\* Every session was built from a model that was current between then and now.
SeenSince(from, sessions) ==
    \A i \in DOMAIN sessions : \E w \in DOMAIN versions :
        sessions[i] = versions[w] /\ Precedes(from, w) /\ Precedes(w, current)

\* A load reads the symlink from left to right of the topic: the checksum first,
\* then the version and the sessions.  The served model comes before the load.
SeenInv ==
    /\ loader.at \in Loading =>
          /\ loader.from \in DOMAIN versions /\ Precedes(loader.from, current)
          /\ loader.read.checksum = versions[loader.from]
          /\ SeenSince(loader.from, loader.read.sessions)
          /\ served # Empty => Precedes(served.version, loader.from)
    /\ loader.at \in {"session", "swap"} =>
          /\ loader.read.version \in DOMAIN versions
          /\ Precedes(loader.from, loader.read.version)
          /\ Precedes(loader.read.version, current)
    /\ served # Empty =>
          /\ current # "none"
          /\ served.version \in DOMAIN versions /\ Precedes(served.version, current)
          /\ \E u \in DOMAIN versions : /\ Precedes(u, current)
                                        /\ served.checksum = versions[u]
                                        /\ SeenSince(u, served.sessions)
    /\ pc = "down" => served = Empty /\ loader.at = "off"

LEMMA PrecedesIsOrder ==
    ASSUME OrderInv
    PROVE  /\ \A u \in DOMAIN versions : Precedes(u, u)
           /\ \A u, v, w \in DOMAIN versions :
                 Precedes(u, v) /\ Precedes(v, w) => Precedes(u, w)
BY StagedOffset DEF Precedes

\* The worker only adds versions and only moves the symlink forward.
LEMMA WorkerMovesOn ==
    ASSUME VersionsInOrder, WInv, OrderInv, [Next]_workerVars
    PROVE  /\ \A v \in DOMAIN versions : v \in DOMAIN versions' /\ versions'[v] = versions[v]
           /\ current # "none" =>
                 /\ current \in DOMAIN versions /\ current' \in DOMAIN versions'
                 /\ current' # "none" /\ Precedes(current, current')
             /\ FirstOffset(current') \in Nat
                 /\ FirstOffset(current') \in Nat
<1>1. \A v \in DOMAIN versions : v \in DOMAIN versions' /\ versions'[v] = versions[v]
    BY StoresGrow
<1>3. ASSUME current # "none"
      PROVE  /\ current \in DOMAIN versions /\ current' \in DOMAIN versions'
             /\ current' # "none" /\ Precedes(current, current')
             /\ FirstOffset(current') \in Nat
    <2>1. current \in DOMAIN versions
        BY <1>3 DEF WInv, CurrentIsComplete
    <2>2. CASE current' = current
        BY <1>1, <1>3, <2>1, <2>2, PrecedesIsOrder, StagedOffset
    <2>3. CASE current' # current
        <3>1. MoveSymlink
            BY <2>3, OnlyMoveSymlink
        <3>2. current' = Version /\ pc \in Working /\ pc = "link"
            BY <3>1 DEF MoveSymlink, Step, Working, Attempting
        <3>3. Version \in DOMAIN versions /\ Version \in Versions
            BY <3>2, MessageAtHand DEF WInv, AttemptInv
        <3>4. Precedes(current, Version)
            BY <2>1, <3>2, StagedBefore DEF Precedes
        <3> QED
            BY <1>1, <2>1, <3>2, <3>3, <3>4, NoneAssumption, StagedOffset
    <2> QED
        BY <2>2, <2>3
<1> QED
    BY <1>1, <1>3

\* What was seen between then and now stays so when the symlink moves on.
LEMMA SeenStays ==
    ASSUME VersionsInOrder, WInv, OrderInv, [Next]_workerVars, current # "none",
           NEW from, NEW sessions, SeenSince(from, sessions)
    PROVE  \A i \in DOMAIN sessions : \E w \in DOMAIN versions' :
              sessions[i] = versions'[w] /\ Precedes(from, w) /\ Precedes(w, current')
<1> SUFFICES ASSUME NEW i \in DOMAIN sessions
             PROVE  \E w \in DOMAIN versions' :
                       /\ sessions[i] = versions'[w]
                       /\ Precedes(from, w) /\ Precedes(w, current')
    OBVIOUS
<1>1. PICK w \in DOMAIN versions :
          sessions[i] = versions[w] /\ Precedes(from, w) /\ Precedes(w, current)
    BY DEF SeenSince
<1>2. /\ w \in DOMAIN versions' /\ versions'[w] = versions[w]
      /\ current \in DOMAIN versions
      /\ Precedes(current, current') /\ FirstOffset(current') \in Nat
    BY WorkerMovesOn
<1>3. Precedes(w, current')
    <2>1. /\ FirstOffset(w) \in Nat /\ FirstOffset(current) \in Nat
        BY <1>2, StagedOffset
    <2> QED
        BY <1>1, <1>2, <2>1 DEF Precedes
<1> QED
    BY <1>1, <1>2, <1>3

\* The worker alone, the engine at rest or between two reads.
LEMMA SeenBesideWorker ==
    ASSUME VersionsInOrder, PInv, OrderInv, SeenInv, [Next]_workerVars,
           UNCHANGED engineVars, pc' = "down" => pc = "down"
    PROVE  SeenInv'
<1>1. WInv /\ UNCHANGED <<loader, served>>
    BY DEF PInv, engineVars
<1>2. /\ \A v \in DOMAIN versions : v \in DOMAIN versions' /\ versions'[v] = versions[v]
      /\ current # "none" =>
            /\ current \in DOMAIN versions /\ current' # "none"
            /\ Precedes(current, current') /\ FirstOffset(current') \in Nat
    BY <1>1, WorkerMovesOn
<1>3. \A u \in DOMAIN versions : Precedes(u, current) /\ current # "none" =>
                                     Precedes(u, current')
    BY <1>2, StagedOffset DEF Precedes
<1>4. \A from, sessions : SeenSince(from, sessions) /\ current # "none" =>
          \A i \in DOMAIN sessions : \E w \in DOMAIN versions' :
              sessions[i] = versions'[w] /\ Precedes(from, w) /\ Precedes(w, current')
    BY <1>1, SeenStays
<1>5. loader.at \in Loading => current # "none"
    BY DEF PInv, LoaderInv
<1>6. loader'.at \in Loading =>
          /\ loader'.from \in DOMAIN versions' /\ Precedes(loader'.from, current')
          /\ loader'.read.checksum = versions'[loader'.from]
          /\ SeenSince(loader.from, loader.read.sessions)'
          /\ served' # Empty => Precedes(served'.version, loader'.from)
    BY <1>1, <1>2, <1>3, <1>4, <1>5 DEF SeenInv, SeenSince
<1>7. loader'.at \in {"session", "swap"} =>
          /\ loader'.read.version \in DOMAIN versions'
          /\ Precedes(loader'.from, loader'.read.version)
          /\ Precedes(loader'.read.version, current')
    BY <1>1, <1>2, <1>3, <1>5 DEF SeenInv, Loading
<1>8. ASSUME served # Empty
      PROVE  /\ current' # "none"
             /\ served'.version \in DOMAIN versions' /\ Precedes(served'.version, current')
             /\ \E u \in DOMAIN versions' : /\ Precedes(u, current')
                                            /\ served'.checksum = versions'[u]
                                            /\ SeenSince(u, served.sessions)'
    <2>1. PICK u \in DOMAIN versions : /\ Precedes(u, current)
                                       /\ served.checksum = versions[u]
                                       /\ SeenSince(u, served.sessions)
        BY <1>8 DEF SeenInv
    <2>2. current # "none" /\ served.version \in DOMAIN versions
          /\ Precedes(served.version, current)
        BY <1>8 DEF SeenInv
    <2>3. SeenSince(u, served.sessions)'
        BY <1>1, <1>4, <2>1, <2>2 DEF SeenSince
    <2> QED
        BY <1>1, <1>2, <1>3, <2>1, <2>2, <2>3
<1> QED
    BY <1>1, <1>6, <1>7, <1>8 DEF SeenInv, Empty

\* The engine only reads.
LEMMA EngineReads == EngineStep => UNCHANGED workerVars
BY DEF EngineStep, StartWithoutBundle, ReadChecksums, VerifyArtifacts, ReadSchema,
   CommitSession, LoadFails, HotSwap

LEMMA SeenByEngine ==
    ASSUME PInv, OrderInv, SeenInv, EngineStep
    PROVE  SeenInv'
<1>1. UNCHANGED <<current, versions, pc>>
    BY EngineReads DEF workerVars, diskVars
<1>2. current # "none" => current \in DOMAIN versions
    BY DEF PInv, WInv, CurrentIsComplete
<1>3. \A from, sessions : SeenSince(from, sessions)' <=> SeenSince(from, sessions)
    BY <1>1 DEF SeenSince
<1>4. loader.at \in Loading => current # "none"
    BY DEF PInv, LoaderInv
<1>5. pc # "down"
    BY DEF SeenInv, EngineStep, StartWithoutBundle, ReadChecksums, VerifyArtifacts,
       ReadSchema, CommitSession, LoadFails, LoadError, HotSwap, Load
<1>6. ASSUME served' = served
      PROVE  served' # Empty =>
                /\ current' # "none"
                /\ served'.version \in DOMAIN versions' /\ Precedes(served'.version, current')
                /\ \E u \in DOMAIN versions' : /\ Precedes(u, current')
                                               /\ served'.checksum = versions'[u]
                                               /\ SeenSince(u, served.sessions)'
    BY <1>1, <1>3, <1>6 DEF SeenInv, Empty
<1>7. ASSUME served' = served, loader'.at \notin Loading
      PROVE  SeenInv'
    BY <1>1, <1>5, <1>6, <1>7 DEF SeenInv, Empty, Loading
<1>8. CASE StartWithoutBundle \/ LoadFails
    <2>1. served' = served /\ loader'.at \in {"idle", "exited"}
        BY <1>8 DEF StartWithoutBundle, LoadFails, LoadError, Idle, NoLoad
    <2> QED
        BY <1>7, <2>1 DEF Loading
<1>9. CASE ReadChecksums
    <2>1. /\ current # "none" /\ served' = served
          /\ loader'.at = "verify" /\ loader'.from = current
          /\ loader'.read.checksum = versions[current] /\ loader'.read.sessions = <<>>
        BY <1>9 DEF ReadChecksums
    <2>2. current \in DOMAIN versions /\ Precedes(current, current)
        BY <1>2, <2>1, PrecedesIsOrder
    <2>3. SeenSince(loader'.from, loader'.read.sessions)
        BY <2>1 DEF SeenSince
    <2>4. SeenSince(loader.from, loader.read.sessions)'
        BY <1>1, <2>3 DEF SeenSince
    <2>5. served' # Empty => Precedes(served'.version, loader'.from)
        BY <2>1 DEF SeenInv, Empty
    <2> QED
        BY <1>1, <1>5, <1>6, <2>1, <2>2, <2>4, <2>5 DEF SeenInv, Empty
<1>10. CASE VerifyArtifacts
    <2>1. /\ loader.at = "verify" /\ loader'.at = "schema" /\ served' = served
          /\ loader'.from = loader.from /\ loader'.read = loader.read
        BY <1>10 DEF VerifyArtifacts, Load, PInv, TypeOK
    <2>2. SeenSince(loader.from, loader.read.sessions)'
        BY <1>1, <2>1 DEF SeenInv, SeenSince, Loading
    <2> QED
        BY <1>1, <1>5, <1>6, <2>1, <2>2 DEF SeenInv, Empty, Loading
<1>11. CASE ReadSchema
    <2>1. /\ loader.at = "schema" /\ loader'.at = "session" /\ served' = served
          /\ loader'.from = loader.from /\ loader'.read.version = current
          /\ loader'.read.checksum = loader.read.checksum
          /\ loader'.read.sessions = loader.read.sessions
        BY <1>11 DEF ReadSchema, Reads
    <2>2. SeenSince(loader.from, loader.read.sessions)'
        BY <1>1, <2>1 DEF SeenInv, SeenSince, Loading
    <2>3. current \in DOMAIN versions /\ Precedes(current, current)
        BY <1>2, <1>4, <2>1, PrecedesIsOrder DEF Loading
    <2> QED
        BY <1>1, <1>5, <1>6, <2>1, <2>2, <2>3 DEF SeenInv, Empty, Loading
<1>12. CASE CommitSession
    <2> DEFINE sessions == Append(loader.read.sessions, versions[current])
    <2>1. /\ loader.at = "session" /\ loader'.at \in {"swap", "session"}
          /\ served' = served
          /\ loader'.from = loader.from /\ loader'.read.version = loader.read.version
          /\ loader'.read.checksum = loader.read.checksum
          /\ loader'.read.sessions = sessions
        BY <1>12 DEF CommitSession, Reads
    <2>2. /\ current \in DOMAIN versions /\ Precedes(current, current)
          /\ Precedes(loader.from, current)
        BY <1>2, <1>4, <2>1, PrecedesIsOrder DEF SeenInv, Loading
    <2>3. /\ loader.read.sessions \in Seq(Models) /\ versions[current] \in Models
        BY <2>2 DEF PInv, WInv, WorkerTypeOK, TypeOK
    <2>4. \A i \in DOMAIN sessions : \/ i \in DOMAIN loader.read.sessions
                                        /\ sessions[i] = loader.read.sessions[i]
                                     \/ sessions[i] = versions[current]
        BY <2>3, AppendProperties
    <2> HIDE DEF sessions
    <2>5. SeenSince(loader.from, sessions)
        BY <2>1, <2>2, <2>4 DEF SeenInv, SeenSince, Loading
    <2>6. SeenSince(loader.from, loader.read.sessions)'
        BY <1>1, <2>1, <2>5 DEF SeenSince
    <2> QED
        BY <1>1, <1>5, <1>6, <2>1, <2>6 DEF SeenInv, Empty, Loading
<1>13. CASE HotSwap
    <2>1. loader.at = "swap" /\ loader'.at = "idle"
        BY <1>13 DEF HotSwap, Idle, NoLoad
    <2>2. CASE served' = served
        BY <1>7, <2>1, <2>2 DEF Loading
    <2>3. CASE served' = loader.read
        <3>1. /\ loader.from \in DOMAIN versions /\ Precedes(loader.from, current)
              /\ loader.read.checksum = versions[loader.from]
              /\ SeenSince(loader.from, loader.read.sessions)
              /\ loader.read.version \in DOMAIN versions
              /\ Precedes(loader.read.version, current) /\ current # "none"
            BY <1>4, <2>1 DEF SeenInv, Loading
        <3>2. SeenSince(loader.from, served'.sessions)
            BY <2>3, <3>1
        <3>3. \E u \in DOMAIN versions' : /\ Precedes(u, current')
                                          /\ served'.checksum = versions'[u]
                                          /\ SeenSince(u, served.sessions)'
            BY <1>1, <2>3, <3>1, <3>2 DEF SeenSince
        <3> QED
            BY <1>1, <1>5, <2>1, <2>3, <3>1, <3>3 DEF SeenInv, Loading
    <2> QED
        BY <1>13, <2>2, <2>3 DEF HotSwap
<1> QED
    BY <1>8, <1>9, <1>10, <1>11, <1>12, <1>13 DEF EngineStep

LEMMA InitSeenInv == PlatformInit => SeenInv
BY DEF PlatformInit, Init, EngineInit, SeenInv, NoLoad, Loading

LEMMA StepSeenInv ==
    ASSUME VersionsInOrder, PInv, OrderInv, SeenInv, [PlatformNext]_vars
    PROVE  SeenInv'
<1>1. CASE EngineStep
    BY <1>1, SeenByEngine
<1>2. CASE (Work \/ IdlePoll \/ CallFails) /\ UNCHANGED engineVars
    <2>1. pc' = "down" => pc = "down"
        BY <1>2 DEF Work, IdlePoll, CallFails, Step, workerVars, Poll, NextMessage, TrainModel,
           UploadFile, StageBundle, MoveSymlink, PublishModelReady, PublishDlq, Commit,
           AttemptFails, NextAttempt
    <2> QED
        BY <1>2, <2>1, StepOfWorker, SeenBesideWorker
<1>3. ASSUME NEW o \in Objects, Overwrite(o), UNCHANGED engineVars PROVE SeenInv'
    <2>1. pc' = "down" => pc = "down"
        BY <1>3 DEF Overwrite
    <2> QED
        BY <1>3, <2>1, StepOfWorker, SeenBesideWorker
<1>4. CASE UNCHANGED vars
    <2>1. (pc' = "down" => pc = "down") /\ UNCHANGED engineVars
        BY <1>4 DEF vars, workerVars
    <2> QED
        BY <2>1, StepOfWorker, SeenBesideWorker
<1>5. CASE GoDown /\ EngineOff
    BY <1>5 DEF EngineOff, NoLoad, SeenInv, Loading
<1>6. CASE ComeUp /\ EngineStarts
    BY <1>6 DEF ComeUp, Step, EngineStarts, NoLoad, SeenInv, Loading
<1> QED
    BY <1>1, <1>2, <1>3, <1>4, <1>5, <1>6 DEF PlatformNext

\* The served model only gives way to one read since.
LEMMA StepServed ==
    ASSUME VersionsInOrder, PInv, OrderInv, SeenInv, [PlatformNext]_vars
    PROVE  [served # Empty /\ pc' # "down" =>
              /\ served' # Empty
              /\ FirstOffset(served'.version) >= FirstOffset(served.version)]_served
<1> SUFFICES ASSUME served' # served, served # Empty, pc' # "down"
             PROVE  /\ served' # Empty
                    /\ FirstOffset(served'.version) >= FirstOffset(served.version)
    OBVIOUS
<1>1. HotSwap
    <2>1. ~(ComeUp /\ EngineStarts)
        BY DEF ComeUp, Step, SeenInv
    <2>2. ~(GoDown /\ EngineOff)
        BY DEF GoDown
    <2> QED
        BY <2>1, <2>2 DEF PlatformNext, engineVars, vars, EngineStep, StartWithoutBundle,
           ReadChecksums, VerifyArtifacts, ReadSchema, CommitSession, LoadFails
<1>2. loader.at = "swap" /\ served' = loader.read
    BY <1>1 DEF HotSwap
<1>3. /\ loader.from \in DOMAIN versions /\ loader.read.version \in DOMAIN versions
      /\ served.version \in DOMAIN versions
      /\ Precedes(served.version, loader.from)
      /\ Precedes(loader.from, loader.read.version)
    BY <1>2 DEF SeenInv, Loading
<1>4. served'.version \in Versions
    BY <1>2, <1>3 DEF PInv, WInv, WorkerTypeOK
<1>5. served' # Empty
    BY <1>4, NoneAssumption DEF Empty
<1>6. FirstOffset(served.version) <= FirstOffset(loader.read.version)
    BY <1>3, PrecedesIsOrder DEF Precedes
<1>7. /\ FirstOffset(served.version) \in Nat
      /\ FirstOffset(loader.read.version) \in Nat
    BY <1>3, StagedOffset
<1> QED
    BY <1>2, <1>5, <1>6, <1>7

\* Of what was seen between two equal models nothing differs from them.
LEMMA MatchingIsWhole ==
    ASSUME ObjectsInRuns, PInv, OrderInv, ContentInv, SeenInv
    PROVE  MatchingChecksumIsWhole
<1> SUFFICES ASSUME current # "none", served.checksum = versions[current],
                    NEW i \in DOMAIN served.sessions
             PROVE  served.sessions[i] = versions[current]
    BY DEF MatchingChecksumIsWhole
<1>1. served # Empty
    BY DEF Empty
<1>2. PICK u \in DOMAIN versions : /\ Precedes(u, current)
                                   /\ served.checksum = versions[u]
                                   /\ SeenSince(u, served.sessions)
    BY <1>1 DEF SeenInv
<1>3. PICK w \in DOMAIN versions : /\ served.sessions[i] = versions[w]
                                   /\ Precedes(u, w) /\ Precedes(w, current)
    BY <1>2 DEF SeenSince
<1>4. current \in DOMAIN versions
    BY DEF PInv, WInv, CurrentIsComplete
<1> QED
    BY <1>2, <1>3, <1>4, SameModelBetween DEF Precedes, PInv

\* The order of the models and what the engine has seen of it, beside each other.
THEOREM PlatformSeenInv ==
    ASSUME VersionsInOrder PROVE PlatformSpec => [](PInv /\ OrderInv /\ SeenInv)
<1>1. PlatformInit => PInv /\ OrderInv /\ SeenInv
    BY InitPInv, InitOrderInv, InitSeenInv DEF PlatformInit
<1>2. (PInv /\ OrderInv /\ SeenInv) /\ [PlatformNext]_vars => (PInv /\ OrderInv /\ SeenInv)'
    <2>1. PInv /\ OrderInv /\ [PlatformNext]_vars => OrderInv'
        BY StepOfWorker, StepOrderInv DEF PInv
    <2> QED
        BY <2>1, StepPInv, StepSeenInv
<1> QED
    BY <1>1, <1>2, PTL DEF PlatformSpec

\* Beside the engine too, the symlink only moves forward.
THEOREM PlatformCurrentNeverMovesBack ==
    ASSUME VersionsInOrder PROVE PlatformSpec => CurrentNeverMovesBack
<1>1. (PInv /\ OrderInv /\ SeenInv) /\ [PlatformNext]_vars
         => [current # "none" => FirstOffset(current') >= FirstOffset(current)]_current
    BY StepOfWorker, StepCurrentMoves DEF PInv
<1> QED
    BY <1>1, PlatformSeenInv, PTL DEF PlatformSpec, CurrentNeverMovesBack

\* While the container is up, a reload never withdraws a model and never goes
\* back to that of an earlier message (main.rs:59-62), wherever the worker moves
\* the symlink during it.
THEOREM PlatformServedOnlyMovesForward ==
    ASSUME VersionsInOrder PROVE PlatformSpec => ServedOnlyMovesForward
<1>1. (PInv /\ OrderInv /\ SeenInv) /\ [PlatformNext]_vars
         => [served # Empty /\ pc' # "down" =>
               /\ served' # Empty
               /\ FirstOffset(served'.version) >= FirstOffset(served.version)]_served
    BY StepServed
<1> QED
    BY <1>1, PlatformSeenInv, PTL DEF PlatformSpec, ServedOnlyMovesForward

\* The short cut of hot_swap is sound (onnx_engine.rs:128-134): a served model
\* with the checksum of the current one has no session of another, for any pool
\* and any move of the symlink, as long as no object is announced again after
\* another one was.
THEOREM PlatformMatchingChecksumIsWhole ==
    ASSUME VersionsInOrder, VersionsNameObjects, ObjectsInRuns
    PROVE  PlatformSpec => []MatchingChecksumIsWhole
<1>1. PlatformInit => ContentInv
    BY InitContentInv DEF PlatformInit
<1>2. (PInv /\ OrderInv /\ SeenInv) /\ ContentInv /\ [PlatformNext]_vars => ContentInv'
    BY StepOfWorker, StepContentInv DEF PInv
<1>3. (PInv /\ OrderInv /\ SeenInv) /\ ContentInv => MatchingChecksumIsWhole
    BY MatchingIsWhole
<1> QED
    BY <1>1, <1>2, <1>3, PlatformSeenInv, PTL DEF PlatformSpec
================================================================================
