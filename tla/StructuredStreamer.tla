-------------------------- MODULE StructuredStreamer --------------------------
(***************************************************************************)
(* apps/rust-structured-streamer: one process that reads the raw topic,    *)
(* gathers messages into batches, writes each batch through the bronze,    *)
(* silver and gold layers of the object store, announces the gold object   *)
(* on the gold.ready topic and only then commits the batch's offsets.      *)
(*                                                                         *)
(* The process is a single task: `run` awaits `process_completed_batch`    *)
(* before it receives again, so one program counter orders every step.     *)
(* Each await of a remote call is a step of its own, and the process may   *)
(* die between any two of them, or by the `?` of any of them whether or    *)
(* not the remote side took the call.                                      *)
(***************************************************************************)
EXTENDS Integers, Sequences, FiniteSets

CONSTANTS
    Partitions,    \* partitions of the raw topic
    Events,        \* event ids
    Log,           \* partition -> the messages of the partition, in order
    MaxRecords,    \* BatchAccumulatorConfig.max_records
    MaxBytes,      \* BatchAccumulatorConfig.max_bytes
    MaxFailures,   \* bound: how often the process dies
    MaxDay         \* bound: the last date

\* What recv_outcome and the validator make of a message: "valid" passes every
\* rule, "rejected" parses and breaks a semantic rule, "malformed" is empty,
\* too large or not JSON.
Kinds == {"valid", "rejected", "malformed"}

ASSUME LogAssumption ==
    Log \in [Partitions -> Seq([kind: Kinds, event: Events, bytes: Nat])]

ASSUME LimitsAssumption ==
    /\ MaxRecords \in Nat \ {0}
    /\ MaxBytes \in Nat \ {0}
    /\ MaxFailures \in Nat
    /\ MaxDay \in Nat

VARIABLES
    \* Kafka
    committed,   \* partition -> committed offset of the consumer group
    goldReady,   \* the gold.ready topic, oldest message first
    \* the object store: key -> object, a put overwrites
    bronze,      \* [day, batch] -> the batch's Parquet file
    manifests,   \* [day, batch] -> the batch's manifest
    silver,      \* [layer, batch] -> the events the silver file was made from
    gold,        \* batch -> the feature matrix
    \* memory of the process
    pc,          \* where `run` is
    position,    \* partition -> next offset the consumer delivers
    acc,         \* BatchAccumulator: records, partition_offsets, current_bytes
    batch,       \* the CompletedBatch being processed, and what it produced
    \* surroundings
    day,         \* the date of the last batch, part of the bronze and manifest keys
    clock,       \* the time, stamped into every gold file
    failures     \* how often the process has died

kafkaVars == <<committed, goldReady>>
storeVars == <<bronze, manifests, silver, gold>>
envVars   == <<day, clock, failures>>
vars == <<kafkaVars, storeVars, pc, position, acc, batch, envVars>>

-------------------------------------------------------------------------------
(* Messages, batches and the object store *)

\* A message is named by where it is: <<partition, offset>>.
EndOffset(p)  == Len(Log[p])
Messages      == UNION {{p} \X (0..(EndOffset(p) - 1)) : p \in Partitions}
MessageAt(r)  == Log[r[1]][r[2] + 1]
IsValid(r)    == MessageAt(r).kind = "valid"
EventOf(r)    == MessageAt(r).event
EventsOf(rows) == {EventOf(r) : r \in rows}

EmptyMap == [x \in {} |-> {}]
Put(store, key, object) ==
    [k \in DOMAIN store \cup {key} |-> IF k = key THEN object ELSE store[k]]

EmptyAccumulator == [records |-> <<>>, offsets |-> EmptyMap, bytes |-> 0]

\* Mutation: the range is replaced by the last offset instead of widened.
TrackLastOffsetOnly(offsets, p, o) == Put(offsets, p, [min |-> o, max |-> o])

\* track_partition_offset: the lowest and highest offset seen of each partition.
TrackPartitionOffset(offsets, p, o) ==
    Put(offsets, p,
        IF p \notin DOMAIN offsets THEN [min |-> o, max |-> o]
        ELSE [min |-> IF o < offsets[p].min THEN o ELSE offsets[p].min,
              max |-> IF o > offsets[p].max THEN o ELSE offsets[p].max])

\* push and push_invalid: both vectors of the accumulator are `records` here,
\* the kind of a message tells which of the two holds it.
Push(a, r) == [records |-> Append(a.records, r),
               offsets |-> TrackPartitionOffset(a.offsets, r[1], r[2]),
               bytes   |-> a.bytes + MessageAt(r).bytes]

IsFull(a) == \/ Len(a.records) >= MaxRecords
             \/ a.bytes >= MaxBytes

ValidIndices(records) == {i \in DOMAIN records : IsValid(records[i])}

\* Mutation: duplicates are dropped first, so that a rejected copy of an event
\* shadows a valid one.
DeduplicateThenValidate(records) ==
    {records[i] : i \in {j \in ValidIndices(records) :
        \A k \in DOMAIN records :
            EventOf(records[k]) = EventOf(records[j]) => j <= k}}

\* validate_batch keeps the valid records and deduplicate_batch the first of
\* each event id: the rows of the Parquet file.
Kept(records) ==
    {records[i] : i \in {j \in ValidIndices(records) :
        \A k \in ValidIndices(records) :
            EventOf(records[k]) = EventOf(records[j]) => j <= k}}

NoFeatures == [events |-> {}, stamp |-> 0]
NoBatch == [offsets |-> EmptyMap, records |-> <<>>, day |-> 0,
            features |-> NoFeatures]

\* generate_batch_id hashes the offset ranges and nothing else, so the ranges
\* are the id.  The bronze and manifest keys hold the date besides, the silver
\* and gold keys do not.
BatchId  == batch.offsets
DatedKey == [day |-> batch.day, batch |-> BatchId]
SilverLayers == {"kill-events", "player-match"}
SilverKey(layer) == [layer |-> layer, batch |-> BatchId]

-------------------------------------------------------------------------------
Init ==
    /\ committed = [p \in Partitions |-> 0]
    /\ goldReady = <<>>
    /\ bronze = EmptyMap
    /\ manifests = EmptyMap
    /\ silver = EmptyMap
    /\ gold = EmptyMap
    /\ pc = "receive"
    /\ position = [p \in Partitions |-> 0]
    /\ acc = EmptyAccumulator
    /\ batch = NoBatch
    /\ day = 0
    /\ clock = 0
    /\ failures = 0

\* Mutation: the reset after a flush forgets partition_offsets.
FlushKeepsOffsets(a) ==
    /\ acc' = [EmptyAccumulator EXCEPT !.offsets = a.offsets]
    /\ day' \in day..MaxDay
    /\ batch' = [NoBatch EXCEPT !.offsets = a.offsets,
                                !.records = a.records,
                                !.day = day']
    /\ pc' = IF Kept(a.records) = {} THEN "commit" ELSE "bronze"

\* flush hands everything gathered to process_completed_batch and resets the
\* accumulator.  A batch without a valid record has nothing to write and goes
\* straight to the commit.  The date is read once, when processing starts;
\* any number of midnights may have passed since the batch before.
Flush(a) ==
    /\ acc' = EmptyAccumulator
    /\ day' \in day..MaxDay
    /\ batch' = [NoBatch EXCEPT !.offsets = a.offsets,
                                !.records = a.records,
                                !.day = day']
    /\ pc' = IF Kept(a.records) = {} THEN "commit" ELSE "bronze"

\* A message of partition p arrives; the batch is processed at once when the
\* message fills it.
Receive(p) ==
    /\ pc = "receive"
    /\ position[p] < EndOffset(p)
    /\ position' = [position EXCEPT ![p] = @ + 1]
    /\ LET a == Push(acc, <<p, position[p]>>)
       IN  \/ /\ ~IsFull(a)
              /\ acc' = a
              /\ UNCHANGED <<pc, batch, day>>
           \/ /\ IsFull(a)
              /\ Flush(a)
    /\ UNCHANGED <<kafkaVars, storeVars, clock, failures>>

\* Mutation: the timer looks at the size limits instead of the pending count.
TimerFlushOnlyWhenFull ==
    /\ pc = "receive"
    /\ IsFull(acc)
    /\ Flush(acc)
    /\ UNCHANGED <<kafkaVars, storeVars, position, clock, failures>>

\* Half a second without a message, and the batch is older than the flush
\* interval: should_flush_timer, then flush.
TimerFlush ==
    /\ pc = "receive"
    /\ acc.records # <<>>
    /\ Flush(acc)
    /\ UNCHANGED <<kafkaVars, storeVars, position, clock, failures>>

\* A poll that times out with nothing to flush, or reports an error that is
\* only logged.
IdlePoll == /\ pc = "receive"
            /\ UNCHANGED vars

\* The steps of process_completed_batch, and of process_manifest inside it.
Step(from, to) == /\ pc = from
                  /\ pc' = to
                  /\ UNCHANGED <<position, acc, day, failures>>

UploadParquet ==
    /\ Step("bronze", "manifest")
    /\ bronze' = Put(bronze, DatedKey,
                     [rows |-> Kept(batch.records), checksum |-> batch.records])
    /\ UNCHANGED <<kafkaVars, manifests, silver, gold, batch, clock>>

\* The checksum of a file stands for its bytes, which depend on the order in
\* which the records arrived.
Manifest ==
    [offsets   |-> batch.offsets,
     total     |-> Len(batch.records),
     valid     |-> Cardinality(ValidIndices(batch.records)),
     rejected  |-> Cardinality({i \in DOMAIN batch.records :
                                   MessageAt(batch.records[i]).kind = "rejected"}),
     duplicate |-> Cardinality(ValidIndices(batch.records))
                     - Cardinality(Kept(batch.records)),
     data      |-> DatedKey,
     checksum  |-> batch.records]

UploadManifest ==
    /\ Step("manifest", "project")
    /\ manifests' = Put(manifests, DatedKey, Manifest)
    /\ UNCHANGED <<kafkaVars, bronze, silver, gold, batch, clock>>

\* Every bronze row becomes a kill-events row and feeds the player-match row of
\* its player, so both silver files are functions of the events of the rows.
ProcessSilver(rows) == EventsOf(rows)

\* The gold rows are a function of the silver files, and of the time: each row
\* holds the moment the matrix was computed.
GenerateGold(events, now) == [events |-> events, stamp |-> now]

\* The worker follows the manifest to the bronze file and computes the silver
\* and gold rows in memory.
ProjectManifest ==
    /\ Step("project", "kill-events")
    /\ batch' = [batch EXCEPT !.features =
          GenerateGold(ProcessSilver(bronze[manifests[DatedKey].data].rows), clock)]
    /\ clock' = clock + 1
    /\ UNCHANGED <<kafkaVars, storeVars>>

UploadSilver(layer, next) ==
    /\ Step(layer, next)
    /\ silver' = Put(silver, SilverKey(layer), batch.features.events)
    /\ UNCHANGED <<kafkaVars, bronze, manifests, gold, batch, clock>>

\* Mutation: the loop over the layers leaves out silver/player-match.
UploadKillEventsThenGold == UploadSilver("kill-events", "gold")

UploadKillEvents  == UploadSilver("kill-events", "player-match")
UploadPlayerMatch == UploadSilver("player-match", "gold")

\* Mutation: the offsets are committed without announcing the gold file.
UploadGoldThenCommit ==
    /\ Step("gold", "commit")
    /\ gold' = Put(gold, BatchId, batch.features)
    /\ UNCHANGED <<kafkaVars, bronze, manifests, silver, batch, clock>>

UploadGold ==
    /\ Step("gold", "publish")
    /\ gold' = Put(gold, BatchId, batch.features)
    /\ UNCHANGED <<kafkaVars, bronze, manifests, silver, batch, clock>>

\* The checksum of the gold file stands for its contents.
PublishGoldReady ==
    /\ Step("publish", "commit")
    /\ goldReady' = Append(goldReady, [batch    |-> BatchId,
                                       checksum |-> batch.features,
                                       manifest |-> DatedKey])
    /\ UNCHANGED <<committed, storeVars, batch, clock>>

\* Mutation: the offset after the next one is committed.
CommitOneTooFar ==
    /\ Step("commit", "receive")
    /\ committed' = [p \in Partitions |->
                        IF p \in DOMAIN batch.offsets THEN batch.offsets[p].max + 2
                        ELSE committed[p]]
    /\ batch' = NoBatch
    /\ UNCHANGED <<goldReady, storeVars, clock>>

\* Mutation: partitions that are not in the batch are committed as well.
CommitEveryPartition ==
    /\ Step("commit", "receive")
    /\ committed' = [p \in Partitions |->
                        IF p \in DOMAIN batch.offsets THEN batch.offsets[p].max + 1
                        ELSE 0]
    /\ batch' = NoBatch
    /\ UNCHANGED <<goldReady, storeVars, clock>>

\* commit_partition_offsets, for all partitions of the batch in one request.
CommitPartitionOffsets ==
    /\ Step("commit", "receive")
    /\ committed' = [p \in Partitions |->
                        IF p \in DOMAIN batch.offsets THEN batch.offsets[p].max + 1
                        ELSE committed[p]]
    /\ batch' = NoBatch
    /\ UNCHANGED <<goldReady, storeVars, clock>>

\* An error returned through `?`, an open circuit breaker, or the death of the
\* process: memory is gone, whatever reached Kafka or the store stays.
Die ==
    /\ pc # "down"
    /\ failures < MaxFailures
    /\ failures' = failures + 1
    /\ pc' = "down"
    /\ acc' = EmptyAccumulator
    /\ batch' = NoBatch
    /\ UNCHANGED <<kafkaVars, storeVars, position, day, clock>>

\* Mutation: the consumer resumes where it had read to, not where it had
\* committed (as with enable.auto.offset.store).
RestartAtPosition ==
    /\ pc = "down"
    /\ pc' = "receive"
    /\ UNCHANGED <<kafkaVars, storeVars, position, acc, batch, envVars>>

\* The supervisor starts the process again; the consumer resumes at the
\* committed offsets.
Restart ==
    /\ pc = "down"
    /\ pc' = "receive"
    /\ position' = committed
    /\ UNCHANGED <<kafkaVars, storeVars, acc, batch, envVars>>

Process ==
    \/ \E p \in Partitions : Receive(p)
    \/ TimerFlush
    \/ UploadParquet
    \/ UploadManifest
    \/ ProjectManifest
    \/ UploadKillEvents
    \/ UploadPlayerMatch
    \/ UploadGold
    \/ PublishGoldReady
    \/ CommitPartitionOffsets
    \/ Restart

Next == Process \/ IdlePoll \/ Die

\* The process keeps running: tokio polls the one task it has, and Docker
\* restarts a container that exits (restart: unless-stopped).
Spec == Init /\ [][Next]_vars /\ WF_vars(Process)

-------------------------------------------------------------------------------
(* Properties *)

\* The records in memory, gathered or being processed; never both at once.
InFlight == acc.records \o batch.records
InFlightOffsets == IF batch.records = <<>> THEN acc.offsets ELSE batch.offsets

Phases == {"receive", "bronze", "manifest", "project", "kill-events",
           "player-match", "gold", "publish", "commit", "down"}
Offsets  == UNION {0..(EndOffset(p) - 1) : p \in Partitions}
Ranges   == UNION {[D -> [min: Offsets, max: Offsets]] : D \in SUBSET Partitions}
Keys     == [day: Nat, batch: Ranges]
Features == [events: SUBSET Events, stamp: Nat]
ManifestType ==
    [offsets: Ranges, total: Nat, valid: Nat, rejected: Nat, duplicate: Int,
     data: Keys, checksum: Seq(Messages)]

\* Every variable holds a value of its kind and offsets stay inside the log.
TypeOK ==
    /\ committed \in [Partitions -> Nat]
    /\ \A p \in Partitions : committed[p] <= EndOffset(p)
    /\ position \in [Partitions -> Nat]
    /\ \A p \in Partitions : position[p] <= EndOffset(p)
    /\ goldReady \in Seq([batch: Ranges, checksum: Features, manifest: Keys])
    /\ \A k \in DOMAIN bronze :
          k \in Keys /\ bronze[k] \in [rows: SUBSET Messages, checksum: Seq(Messages)]
    /\ \A k \in DOMAIN manifests : k \in Keys /\ manifests[k] \in ManifestType
    /\ \A k \in DOMAIN silver :
          k \in [layer: SilverLayers, batch: Ranges] /\ silver[k] \in SUBSET Events
    /\ \A id \in DOMAIN gold : id \in Ranges /\ gold[id] \in Features
    /\ pc \in Phases
    /\ acc \in [records: Seq(Messages), offsets: Ranges, bytes: Nat]
    /\ batch \in [offsets: Ranges, records: Seq(Messages), day: Nat, features: Features]
    /\ day \in 0..MaxDay
    /\ clock \in Nat
    /\ failures \in 0..MaxFailures

\* Zero loss: a reader of gold.ready can fetch the features of every valid
\* event whose offset is committed, whatever batches it went through and
\* however often the process died (app.rs: upload, project, publish, commit).
Readable == UNION {gold[goldReady[i].batch].events : i \in DOMAIN goldReady}

CommittedIsReadable ==
    \A p \in Partitions : \A o \in 0..(committed[p] - 1) :
        IsValid(<<p, o>>) => EventOf(<<p, o>>) \in Readable

\* A gold.ready message never dangles: its manifest, the bronze file the
\* manifest names, both silver files and the gold file are stored, and the gold
\* and silver files were made from exactly the events of that bronze file.
GoldReadyIsBacked ==
    \A i \in DOMAIN goldReady :
        LET m == goldReady[i] IN
        /\ m.manifest \in DOMAIN manifests
        /\ manifests[m.manifest].data \in DOMAIN bronze
        /\ m.batch \in DOMAIN gold
        /\ gold[m.batch].events = EventsOf(bronze[manifests[m.manifest].data].rows)
        /\ \A layer \in SilverLayers :
              /\ [layer |-> layer, batch |-> m.batch] \in DOMAIN silver
              /\ silver[[layer |-> layer, batch |-> m.batch]] = gold[m.batch].events

\* The batch id hashes only the offset ranges, and keys every file: whatever
\* is stored under an id, by whichever attempt, holds the valid events of
\* exactly those ranges, so an attempt that overwrites another loses nothing.
InRange(r, offsets) == /\ r[1] \in DOMAIN offsets
                       /\ offsets[r[1]].min <= r[2]
                       /\ r[2] <= offsets[r[1]].max
RangeEvents(offsets) == EventsOf({r \in Messages : InRange(r, offsets) /\ IsValid(r)})

StoredUnderIdIsItsRange ==
    /\ \A k \in DOMAIN bronze : EventsOf(bronze[k].rows) = RangeEvents(k.batch)
    /\ \A id \in DOMAIN gold : gold[id].events = RangeEvents(id)

\* When a batch that has rows is about to be committed, its stored manifest
\* agrees with the stored bronze file on the bytes, accounts for each row of
\* it, and its ranges have room for exactly the records it counts.
ManifestAccountsForBatch ==
    (pc = "commit" /\ Kept(batch.records) # {}) =>
        LET m == manifests[DatedKey] IN
        /\ DatedKey \in DOMAIN manifests
        /\ m.data \in DOMAIN bronze
        /\ m.checksum = bronze[m.data].checksum
        /\ m.valid - m.duplicate = Cardinality(bronze[m.data].rows)
        /\ m.total = Cardinality({r \in Messages : InRange(r, m.offsets)})

Elements(seq) == {seq[i] : i \in DOMAIN seq}
Gap == {r \in Messages : committed[r[1]] <= r[2] /\ r[2] < position[r[1]]}
GapRanges == [p \in {q \in Partitions : committed[q] < position[q]} |->
                 [min |-> committed[p], max |-> position[p] - 1]]

\* Memory holds exactly the messages between the committed offset and the
\* consumer's position, each once, and the tracked ranges are exactly those
\* gaps: a commit of the ranges can neither skip nor forget a message.
InFlightIsTheGap ==
    pc # "down" =>
        /\ Elements(InFlight) = Gap
        /\ Len(InFlight) = Cardinality(Gap)
        /\ InFlightOffsets = GapRanges

\* A commit never moves a partition back, so a restart never redelivers what
\* was already acknowledged (commit_partition_offsets sets, it does not raise).
CommitsNeverRegress ==
    [][\A p \in Partitions : committed[p] <= committed'[p]]_committed

\* However often it dies, the process works off the whole log.
EverythingIsCommitted ==
    \A p \in Partitions : <>[](committed[p] = EndOffset(p))

\* The streamer keeps the promise of DurableIngest: readers can fetch what was
\* announced, Kafka is acknowledged up to the committed offsets.
Promise == INSTANCE DurableIngest WITH
    Wanted    <- [p \in Partitions |-> [i \in 1..EndOffset(p) |->
                     IF IsValid(<<p, i - 1>>) THEN {EventOf(<<p, i - 1>>)} ELSE {}]],
    delivered <- Readable,
    acked     <- committed

KeepsPromise == Promise!DurableSpec
===============================================================================
