------------------------ MODULE StructuredStreamerProofs ------------------------
(***************************************************************************)
(* Theorems about StructuredStreamer for every log, every limit and any    *)
(* number of partitions, deaths and midnights.                             *)
(*                                                                         *)
(* The argument: between two restarts memory holds exactly the messages    *)
(* from the committed offset to the consumer's position (GapInv), so the   *)
(* id of a batch determines the events of every file written under it      *)
(* (StoreInv); each phase knows what the phases before it have written     *)
(* (PhaseInv); so when the batch's offsets are committed its events are    *)
(* behind a gold.ready message already (ReadInv).                          *)
(*                                                                         *)
(* Under rebalances (RebalanceSpec) the id no longer determines the events *)
(* and the zero loss rests on another argument: no batch still to come can *)
(* have the id of an announced one and lack the events it is needed for    *)
(* (SecureInv), because it would have to begin after them or end elsewhere.*)
(***************************************************************************)
EXTENDS StreamerRebalance, TLAPS, FiniteSetTheorems, SequenceTheorems

-------------------------------------------------------------------------------
(* Lemmas about the operators of the module *)

\* Messages are the pairs of a partition and an offset below its end.
LEMMA MessagesLemma ==
    \A p, o : <<p, o>> \in Messages <=> p \in Partitions /\ o \in 0..(EndOffset(p) - 1)
BY DEF Messages

LEMMA MessageIsPair ==
    \A r \in Messages : r = <<r[1], r[2]>> /\ r[1] \in Partitions
                        /\ r[2] \in 0..(EndOffset(r[1]) - 1)
BY DEF Messages

LEMMA EndOffsetType == \A p \in Partitions : EndOffset(p) \in Nat
BY LogAssumption DEF EndOffset

LEMMA MessageType ==
    \A r \in Messages : MessageAt(r) \in [kind: Kinds, event: Events, bytes: Nat]
<1> SUFFICES ASSUME NEW r \in Messages
             PROVE  MessageAt(r) \in [kind: Kinds, event: Events, bytes: Nat]
    OBVIOUS
<1>1. /\ r[1] \in Partitions
      /\ r[2] \in 0..(Len(Log[r[1]]) - 1)
  BY MessageIsPair DEF EndOffset
<1>2. Log[r[1]] \in Seq([kind: Kinds, event: Events, bytes: Nat])
  BY <1>1, LogAssumption
<1>3. r[2] + 1 \in 1..Len(Log[r[1]])
  BY <1>1, <1>2
<1> QED  BY <1>2, <1>3, ElementOfSeq DEF MessageAt

LEMMA EventsOfType == \A rows \in SUBSET Messages : EventsOf(rows) \in SUBSET Events
BY MessageType DEF EventsOf, EventOf

\* Deduplication keeps a copy of every valid event: the first one.
LEMMA KeptLemma ==
    ASSUME NEW records \in Seq(Messages)
    PROVE  /\ Kept(records) \subseteq Elements(records)
           /\ \A r \in Kept(records) : IsValid(r)
           /\ \A r \in Elements(records) :
                 IsValid(r) => \E k \in Kept(records) : EventOf(k) = EventOf(r)
<1>1. Kept(records) \subseteq Elements(records) /\ \A r \in Kept(records) : IsValid(r)
  BY DEF Kept, Elements, ValidIndices
<1>2. ASSUME NEW r \in Elements(records), IsValid(r)
      PROVE  \E k \in Kept(records) : EventOf(k) = EventOf(r)
  <2> DEFINE Copies == {k \in ValidIndices(records) : EventOf(records[k]) = EventOf(r)}
  <2>1. Copies # {} /\ Copies \subseteq Nat
    BY <1>2 DEF Elements, ValidIndices
  <2>2. PICK j \in Copies : \A k \in Copies : <<k, j>> \notin OpToRel(<, Nat)
    <3> HIDE DEF Copies
    <3> QED  BY <2>1, NatLessThanWellFounded, WFMin
  <2>3. \A k \in Copies : j <= k
    <3> SUFFICES ASSUME NEW k \in Copies PROVE j <= k  OBVIOUS
    <3>1. k \in Nat /\ j \in Nat
      BY <2>1, <2>2
    <3>2. ~(k < j)
      BY <3>1, <2>2 DEF OpToRel
    <3> QED  BY <3>1, <3>2
  <2>4. records[j] \in Kept(records)
    BY <2>2, <2>3 DEF Kept
  <2> QED  BY <2>2, <2>4
<1> QED  BY <1>1, <1>2

-------------------------------------------------------------------------------
(* The inductive invariant *)

\* records and offsets are what the consumer has read and not committed.
Holds(records, offsets) ==
    /\ Elements(records) = Gap
    /\ Len(records) = Cardinality(Gap)
    /\ offsets = GapRanges

GapInv ==
    /\ pc # "down" => /\ \A p \in Partitions : committed[p] <= position[p]
                      /\ IsFiniteSet(Gap)
    /\ pc = "receive" => Holds(acc.records, acc.offsets) /\ batch = NoBatch
    /\ pc \notin {"receive", "down"} =>
          /\ acc = EmptyAccumulator
          /\ Holds(batch.records, batch.offsets)
          /\ batch.records # <<>>
    /\ pc = "down" => acc = EmptyAccumulator /\ batch = NoBatch

\* Every stored file is determined by its key.
StoreInv ==
    /\ \A k \in DOMAIN bronze : EventsOf(bronze[k].rows) = RangeEvents(k.batch)
    /\ \A k \in DOMAIN manifests : manifests[k].data = k /\ k \in DOMAIN bronze
    /\ \A id \in DOMAIN gold : gold[id].events = RangeEvents(id)

\* What the phases before this one have written.
PhaseInv ==
    /\ pc \in Phases \ {"receive", "down", "bronze", "commit"} => DatedKey \in DOMAIN bronze
    /\ pc \in Phases \ {"receive", "down", "bronze", "manifest", "commit"} =>
          DatedKey \in DOMAIN manifests
    /\ pc \in {"kill-events", "player-match", "gold", "publish"} =>
          batch.features.events = RangeEvents(BatchId)
    /\ pc = "publish" => BatchId \in DOMAIN gold
    /\ pc = "commit" => \/ Kept(batch.records) = {}
                        \/ \E i \in DOMAIN goldReady : goldReady[i].batch = BatchId

\* Whatever was announced is stored, and whatever was committed is announced.
ReadInv ==
    /\ \A i \in DOMAIN goldReady : goldReady[i].batch \in DOMAIN gold
    /\ CommittedIsReadable

IInv == TypeOK /\ GapInv /\ StoreInv /\ PhaseInv /\ ReadInv

-------------------------------------------------------------------------------
(* Lemmas about the gap *)

OffsetTypes == /\ committed \in [Partitions -> Nat]
               /\ position \in [Partitions -> Nat]
               /\ \A p \in Partitions : position[p] <= EndOffset(p)

\* The ranges between any two offsets of each partition are ranges.
LEMMA GapRangesType ==
    \A from, to \in [Partitions -> Nat] :
        (\A p \in Partitions : to[p] <= EndOffset(p)) =>
            [p \in {q \in Partitions : from[q] < to[q]} |->
                [min |-> from[p], max |-> to[p] - 1]] \in Ranges
<1> SUFFICES ASSUME NEW from \in [Partitions -> Nat], NEW to \in [Partitions -> Nat],
                    \A p \in Partitions : to[p] <= EndOffset(p)
             PROVE  [p \in {q \in Partitions : from[q] < to[q]} |->
                        [min |-> from[p], max |-> to[p] - 1]] \in Ranges
    OBVIOUS
<1> DEFINE D == {q \in Partitions : from[q] < to[q]}
           R == [p \in D |-> [min |-> from[p], max |-> to[p] - 1]]
<1>1. \A p \in D : from[p] \in Offsets /\ to[p] - 1 \in Offsets
  BY EndOffsetType DEF Offsets
<1>2. R \in [D -> [min: Offsets, max: Offsets]]
  BY <1>1
<1>3. D \in SUBSET Partitions
  OBVIOUS
<1> QED  BY <1>2, <1>3 DEF Ranges

\* The ranges of the gap cover the gap and nothing else.
LEMMA GapRangesLemma ==
    ASSUME OffsetTypes
    PROVE  /\ \A r \in Messages : InRange(r, GapRanges) <=> r \in Gap
           /\ RangeEvents(GapRanges) = EventsOf({r \in Gap : IsValid(r)})
<1>1. ASSUME NEW r \in Messages PROVE InRange(r, GapRanges) <=> r \in Gap
  <2>1. r[1] \in Partitions /\ r[2] \in Nat
    BY MessageIsPair
  <2> QED  BY <2>1 DEF InRange, GapRanges, Gap, OffsetTypes
<1>2. Gap \subseteq Messages
  BY DEF Gap
<1>3. {r \in Messages : InRange(r, GapRanges) /\ IsValid(r)} = {r \in Gap : IsValid(r)}
  BY <1>1, <1>2
<1> QED  BY <1>1, <1>3 DEF RangeEvents

\* What a batch that holds the gap writes is what its ranges name.
LEMMA KeptOfGap ==
    ASSUME OffsetTypes, NEW records \in Seq(Messages), NEW offsets, Holds(records, offsets)
    PROVE  EventsOf(Kept(records)) = RangeEvents(offsets)
<1>1. RangeEvents(offsets) = EventsOf({r \in Elements(records) : IsValid(r)})
  BY GapRangesLemma DEF Holds
<1> QED  BY <1>1, KeptLemma DEF EventsOf

\* The next message of a partition extends the gap and its ranges by one.
LEMMA ReceiveExtends ==
    ASSUME OffsetTypes, NEW p \in Partitions, position[p] < EndOffset(p),
           \A q \in Partitions : committed[q] <= position[q],
           UNCHANGED committed, position' = [position EXCEPT ![p] = @ + 1]
    PROVE  /\ <<p, position[p]>> \in Messages
           /\ <<p, position[p]>> \notin Gap
           /\ Gap' = Gap \cup {<<p, position[p]>>}
           /\ GapRanges' = TrackPartitionOffset(GapRanges, p, position[p])
<1> DEFINE m == <<p, position[p]>>
<1>1. m \in Messages
  BY MessagesLemma, EndOffsetType DEF OffsetTypes
<1>2. m \notin Gap
  BY DEF Gap, OffsetTypes
<1>3. ASSUME NEW r \in Messages PROVE r \in Gap' <=> r \in Gap \/ r = m
  <2>1. r = <<r[1], r[2]>> /\ r[1] \in Partitions /\ r[2] \in Nat
    BY MessageIsPair
  <2>2. CASE r[1] = p
    <3>1. r = m <=> r[2] = position[p]
      BY <2>1, <2>2
    <3> QED  BY <2>1, <2>2, <3>1 DEF Gap, OffsetTypes
  <2>3. CASE r[1] # p
    BY <2>1, <2>3 DEF Gap, OffsetTypes
  <2> QED  BY <2>2, <2>3
<1>4. Gap' = Gap \cup {m}
  BY <1>1, <1>3 DEF Gap
<1>5. GapRanges' = TrackPartitionOffset(GapRanges, p, position[p])
  <2> DEFINE D == {q \in Partitions : committed[q] < position[q]}
             old(q) == [min |-> committed[q], max |-> position[q] - 1]
             new == IF p \notin D THEN [min |-> position[p], max |-> position[p]]
                    ELSE [min |-> IF position[p] < old(p).min THEN position[p] ELSE old(p).min,
                          max |-> IF position[p] > old(p).max THEN position[p] ELSE old(p).max]
  <2>1. GapRanges = [q \in D |-> old(q)]
    BY DEF GapRanges
  <2>2. TrackPartitionOffset(GapRanges, p, position[p])
          = [q \in D \cup {p} |-> IF q = p THEN new ELSE old(q)]
    <3>1. DOMAIN GapRanges = D /\ \A q \in D : GapRanges[q] = old(q)
      BY <2>1
    <3> HIDE DEF D
    <3> QED  BY <3>1 DEF TrackPartitionOffset, Put
  <2>3. new = [min |-> committed[p], max |-> position[p]]
    BY DEF OffsetTypes
  <2>4. \A q \in Partitions : position'[q] = IF q = p THEN position[p] + 1 ELSE position[q]
    BY DEF OffsetTypes
  <2>5. {q \in Partitions : committed'[q] < position'[q]} = D \cup {p}
    <3>1. \A q \in Partitions : committed'[q] < position'[q] <=> q \in D \cup {p}
      BY <2>4 DEF OffsetTypes
    <3> QED  BY <3>1
  <2>6. \A q \in D \cup {p} :
           [min |-> committed'[q], max |-> position'[q] - 1] = IF q = p THEN new ELSE old(q)
    BY <2>3, <2>4 DEF OffsetTypes
  <2>7. GapRanges' = [q \in D \cup {p} |-> IF q = p THEN new ELSE old(q)]
    <3> HIDE DEF D, old, new
    <3> QED  BY <2>5, <2>6 DEF GapRanges
  <2> QED  BY <2>2, <2>7
<1> QED  BY <1>1, <1>2, <1>4, <1>5

\* Without a read or a commit the gap stays what it is; when the consumer's
\* position is the committed offset it is empty.
LEMMA GapUnchanged ==
    ASSUME UNCHANGED <<committed, position>>
    PROVE  /\ Gap' = Gap
           /\ GapRanges' = GapRanges
BY DEF Gap, GapRanges

LEMMA EmptyGap ==
    ASSUME committed \in [Partitions -> Nat], position = committed
    PROVE  /\ Gap = {}
           /\ IsFiniteSet(Gap)
           /\ Holds(<<>>, EmptyMap)
<1>1. Gap = {}
  <2>1. \A r \in Messages : committed[r[1]] \in Nat /\ r[2] \in Nat
    BY MessageIsPair
  <2> QED  BY <2>1 DEF Gap
<1>2. IsFiniteSet(Gap) /\ Cardinality(Gap) = 0
  BY <1>1, FS_EmptySet
<1>3. GapRanges = EmptyMap
  <2>1. {q \in Partitions : committed[q] < position[q]} = {}
    OBVIOUS
  <2> QED  BY <2>1 DEF GapRanges, EmptyMap
<1>4. Elements(<<>>) = {}
  BY DEF Elements
<1> QED  BY <1>1, <1>2, <1>3, <1>4 DEF Holds

LEMMA EmptyGapOf ==
    ASSUME committed' \in [Partitions -> Nat], position' = committed'
    PROVE  Gap' = {} /\ GapRanges' = EmptyMap
<1>1. \A r \in Messages : r[1] \in Partitions /\ r[2] \in Nat
  BY MessageIsPair
<1>2. Gap' = {}
  BY <1>1 DEF Gap
<1>3. {q \in Partitions : committed'[q] < position'[q]} = {}
  OBVIOUS
<1> QED  BY <1>2, <1>3 DEF GapRanges, EmptyMap

LEMMA EmptyTypes ==
    /\ EmptyMap \in Ranges
    /\ NoFeatures \in Features
    /\ EmptyAccumulator \in [records: Seq(Messages), offsets: Ranges, bytes: Nat]
    /\ NoBatch \in [offsets: Ranges, records: Seq(Messages), day: Nat, features: Features]
<1>1. EmptyMap \in Ranges
  <2>1. EmptyMap \in [{} -> [min: Offsets, max: Offsets]]
    BY DEF EmptyMap
  <2> QED  BY <2>1 DEF Ranges
<1>2. NoFeatures \in Features
  BY DEF NoFeatures, Features
<1> QED  BY <1>1, <1>2 DEF EmptyAccumulator, NoBatch

\* The readers of gold.ready see the events of the announced ranges.
LEMMA ReadableLemma ==
    ASSUME StoreInv, \A i \in DOMAIN goldReady : goldReady[i].batch \in DOMAIN gold
    PROVE  \A e : e \in Readable <=>
              \E i \in DOMAIN goldReady : e \in RangeEvents(goldReady[i].batch)
BY DEF Readable, StoreInv

-------------------------------------------------------------------------------
(* The invariant holds initially *)

LEMMA InitIInv == Init => IInv
<1> SUFFICES ASSUME Init PROVE IInv
    OBVIOUS
<1> USE DEF Init
<1>1. committed \in [Partitions -> Nat] /\ position = committed
  OBVIOUS
<1>2. TypeOK
  <2>1. \A p \in Partitions : committed[p] <= EndOffset(p) /\ position[p] <= EndOffset(p)
    BY EndOffsetType
  <2> QED  BY <2>1, EmptyTypes, LimitsAssumption DEF TypeOK, EmptyMap, Phases
<1>3. GapInv
  BY <1>1, EmptyGap DEF GapInv, EmptyAccumulator
<1>4. StoreInv /\ PhaseInv
  BY DEF StoreInv, PhaseInv, EmptyMap
<1>5. ReadInv
  BY DEF ReadInv, CommittedIsReadable
<1> QED  BY <1>2, <1>3, <1>4, <1>5 DEF IInv

-------------------------------------------------------------------------------
(* Every step preserves the invariant *)

Busy == Phases \ {"receive", "down"}

\* The steps of process_completed_batch before the commit leave the gap and the
\* batch's records alone.
LEMMA BusyGap ==
    ASSUME IInv, NEW from \in Busy, NEW to \in Busy, Step(from, to),
           UNCHANGED committed,
           batch'.records = batch.records, batch'.offsets = batch.offsets
    PROVE  GapInv'
<1>1. Gap' = Gap /\ GapRanges' = GapRanges
  BY GapUnchanged DEF Step
<1>2. pc = from /\ pc' = to /\ UNCHANGED <<position, acc>>
  BY DEF Step
<1>3. Holds(batch.records, batch.offsets)'
  BY <1>1, <1>2 DEF IInv, GapInv, Holds, Busy, Phases
<1> QED  BY <1>1, <1>2, <1>3 DEF IInv, GapInv, Busy, Phases

\* What a batch in process holds.
LEMMA BusyFacts ==
    ASSUME IInv, pc \in Busy
    PROVE  /\ OffsetTypes
           /\ batch \in [offsets: Ranges, records: Seq(Messages), day: Nat, features: Features]
           /\ DatedKey \in Keys /\ DatedKey.batch = BatchId
           /\ BatchId \in Ranges
           /\ batch.records # <<>>
           /\ Holds(batch.records, batch.offsets)
           /\ EventsOf(Kept(batch.records)) = RangeEvents(BatchId)
           /\ Kept(batch.records) \in SUBSET Messages
<1>1. OffsetTypes
  BY DEF IInv, TypeOK, OffsetTypes
<1>2. batch \in [offsets: Ranges, records: Seq(Messages), day: Nat, features: Features]
  BY DEF IInv, TypeOK
<1>3. DatedKey \in Keys /\ DatedKey.batch = BatchId /\ BatchId \in Ranges
  BY <1>2 DEF DatedKey, BatchId, Keys
<1>4. Holds(batch.records, batch.offsets) /\ batch.records # <<>>
  BY DEF IInv, GapInv, Busy
<1>5. EventsOf(Kept(batch.records)) = RangeEvents(BatchId)
  BY <1>1, <1>2, <1>4, KeptOfGap DEF BatchId
<1>6. Kept(batch.records) \in SUBSET Messages
  BY <1>2, <1>4, KeptLemma DEF Holds, Gap
<1> QED  BY <1>1, <1>2, <1>3, <1>4, <1>5, <1>6

LEMMA UploadParquetStep == IInv /\ UploadParquet => IInv'
<1> SUFFICES ASSUME IInv, UploadParquet PROVE IInv'
    OBVIOUS
<1>0. /\ pc = "bronze" /\ pc' = "manifest"
      /\ UNCHANGED <<position, acc, day, failures>>
      /\ UNCHANGED <<committed, goldReady, manifests, silver, gold, batch, clock>>
  BY DEF UploadParquet, Step, kafkaVars
<1>b. pc \in Busy
  BY <1>0 DEF Busy, Phases
<1> DEFINE file == [rows |-> Kept(batch.records), checksum |-> batch.records]
<1>1. /\ DOMAIN bronze' = DOMAIN bronze \cup {DatedKey}
      /\ bronze'[DatedKey] = file
      /\ \A k \in DOMAIN bronze : k # DatedKey => bronze'[k] = bronze[k]
  BY DEF UploadParquet, Put
<1>2. file \in [rows: SUBSET Messages, checksum: Seq(Messages)]
  BY <1>b, BusyFacts
<1>3. TypeOK'
  <2>1. \A k \in DOMAIN bronze' :
           k \in Keys /\ bronze'[k] \in [rows: SUBSET Messages, checksum: Seq(Messages)]
    <3> HIDE DEF file
    <3> QED  BY <1>1, <1>2, <1>b, BusyFacts DEF IInv, TypeOK
  <2> QED  BY <2>1, <1>0 DEF IInv, TypeOK, Phases
<1>4. GapInv'
  <2>1. Step("bronze", "manifest") /\ "bronze" \in Busy /\ "manifest" \in Busy
    BY DEF UploadParquet, Busy, Phases
  <2> QED  BY <1>0, <2>1, BusyGap
<1>5. StoreInv'
  <2>1. EventsOf(file.rows) = RangeEvents(DatedKey.batch)
    BY <1>b, BusyFacts
  <2>2. \A k \in DOMAIN bronze' : EventsOf(bronze'[k].rows) = RangeEvents(k.batch)
    <3> HIDE DEF file
    <3> QED  BY <1>1, <2>1 DEF IInv, StoreInv
  <2> QED  BY <1>0, <1>1, <2>2 DEF IInv, StoreInv
<1>6. PhaseInv'
  BY <1>0, <1>1 DEF PhaseInv, DatedKey, BatchId, Phases
<1>7. ReadInv'
  BY <1>0 DEF IInv, ReadInv, CommittedIsReadable, Readable
<1> QED  BY <1>3, <1>4, <1>5, <1>6, <1>7 DEF IInv

LEMMA ManifestLemma ==
    ASSUME IInv, pc \in Busy
    PROVE  Manifest \in ManifestType /\ Manifest.data = DatedKey
<1> DEFINE records == batch.records
<1>1. records \in Seq(Messages) /\ batch.offsets \in Ranges
  BY BusyFacts
<1>2. ASSUME NEW S \in SUBSET (DOMAIN records)
      PROVE  Cardinality(S) \in Nat
  <2>1. DOMAIN records = 1..Len(records) /\ Len(records) \in Nat
    BY <1>1
  <2>2. IsFiniteSet(DOMAIN records)
    BY <2>1, FS_Interval
  <2> QED  BY <2>2, FS_Subset, FS_CardinalityType
<1>3. Cardinality(ValidIndices(records)) \in Nat
  BY <1>2 DEF ValidIndices
<1>4. Cardinality({i \in DOMAIN records : MessageAt(records[i]).kind = "rejected"}) \in Nat
  BY <1>2
<1>5. Cardinality(Kept(records)) \in Nat
  <2>1. Kept(records) \subseteq Gap
    BY <1>1, KeptLemma, BusyFacts DEF Holds
  <2>2. IsFiniteSet(Gap)
    BY DEF IInv, GapInv, Busy
  <2> QED  BY <2>1, <2>2, FS_Subset, FS_CardinalityType
<1>6. DatedKey \in Keys /\ Len(records) \in Nat
  BY <1>1, BusyFacts
<1> QED
  <2> DEFINE valid == Cardinality(ValidIndices(records))
             rejected == Cardinality({i \in DOMAIN records :
                                        MessageAt(records[i]).kind = "rejected"})
             unique == Cardinality(Kept(records))
  <2>1. Manifest = [offsets |-> batch.offsets, total |-> Len(records), valid |-> valid,
                    rejected |-> rejected, duplicate |-> valid - unique,
                    data |-> DatedKey, checksum |-> records]
    BY DEF Manifest
  <2>2. valid \in Nat /\ rejected \in Nat /\ unique \in Nat
    BY <1>3, <1>4, <1>5
  <2> HIDE DEF valid, rejected, unique
  <2> QED  BY <1>1, <1>6, <2>1, <2>2 DEF ManifestType

LEMMA UploadManifestStep == IInv /\ UploadManifest => IInv'
<1> SUFFICES ASSUME IInv, UploadManifest PROVE IInv'
    OBVIOUS
<1>0. /\ pc = "manifest" /\ pc' = "project"
      /\ UNCHANGED <<position, acc, day, failures>>
      /\ UNCHANGED <<committed, goldReady, bronze, silver, gold, batch, clock>>
  BY DEF UploadManifest, Step, kafkaVars
<1>b. pc \in Busy
  BY <1>0 DEF Busy, Phases
<1>1. /\ DOMAIN manifests' = DOMAIN manifests \cup {DatedKey}
      /\ manifests'[DatedKey] = Manifest
      /\ \A k \in DOMAIN manifests : k # DatedKey => manifests'[k] = manifests[k]
  BY DEF UploadManifest, Put
<1>2. \A k \in DOMAIN manifests' : k \in Keys /\ manifests'[k] \in ManifestType
  BY <1>1, <1>b, BusyFacts, ManifestLemma DEF IInv, TypeOK
<1>3. TypeOK'
  BY <1>0, <1>2 DEF IInv, TypeOK, Phases
<1>4. GapInv'
  <2>1. Step("manifest", "project") /\ "manifest" \in Busy /\ "project" \in Busy
    BY DEF UploadManifest, Busy, Phases
  <2> QED  BY <1>0, <2>1, BusyGap
<1>5. StoreInv'
  <2>1. DatedKey \in DOMAIN bronze
    BY <1>0 DEF IInv, PhaseInv, Phases
  <2>2. \A k \in DOMAIN manifests' : manifests'[k].data = k /\ k \in DOMAIN bronze
    BY <1>1, <1>b, <2>1, ManifestLemma DEF IInv, StoreInv
  <2> QED  BY <1>0, <2>2 DEF IInv, StoreInv
<1>6. PhaseInv'
  <2>1. DatedKey' = DatedKey /\ DatedKey \in DOMAIN bronze
    BY <1>0 DEF IInv, PhaseInv, DatedKey, BatchId, Phases
  <2> QED  BY <1>0, <1>1, <2>1 DEF PhaseInv
<1>7. ReadInv'
  BY <1>0 DEF IInv, ReadInv, CommittedIsReadable, Readable
<1> QED  BY <1>3, <1>4, <1>5, <1>6, <1>7 DEF IInv

LEMMA ProjectManifestStep == IInv /\ ProjectManifest => IInv'
<1> SUFFICES ASSUME IInv, ProjectManifest PROVE IInv'
    OBVIOUS
<1> DEFINE file == bronze[manifests[DatedKey].data]
<1>0. /\ pc = "project" /\ pc' = "kill-events"
      /\ UNCHANGED <<position, acc, day, failures>>
      /\ UNCHANGED <<committed, goldReady, bronze, manifests, silver, gold>>
      /\ clock' = clock + 1
  BY DEF ProjectManifest, Step, kafkaVars, storeVars
<1>b. pc \in Busy
  BY <1>0 DEF Busy, Phases
<1>1. /\ DatedKey \in DOMAIN bronze
      /\ DatedKey \in DOMAIN manifests
      /\ file = bronze[DatedKey]
  BY <1>0 DEF IInv, PhaseInv, StoreInv, Phases
<1>2. /\ EventsOf(file.rows) = RangeEvents(BatchId)
      /\ EventsOf(file.rows) \in SUBSET Events
  BY <1>1, <1>b, BusyFacts, EventsOfType DEF IInv, StoreInv, TypeOK
<1>3. batch' = [batch EXCEPT !.features = [events |-> EventsOf(file.rows), stamp |-> clock]]
  BY DEF ProjectManifest, GenerateGold, ProcessSilver
<1>4. /\ batch' \in [offsets: Ranges, records: Seq(Messages), day: Nat, features: Features]
      /\ batch'.records = batch.records /\ batch'.offsets = batch.offsets
      /\ batch'.day = batch.day
      /\ batch'.features.events = RangeEvents(BatchId)
  <2>1. [events |-> EventsOf(file.rows), stamp |-> clock] \in Features
    BY <1>2 DEF IInv, TypeOK, Features
  <2>2. batch \in [offsets: Ranges, records: Seq(Messages), day: Nat, features: Features]
    BY DEF IInv, TypeOK
  <2> HIDE DEF file
  <2> QED  BY <1>2, <1>3, <2>1, <2>2
<1>5. TypeOK'
  BY <1>0, <1>4 DEF IInv, TypeOK, Phases
<1>6. GapInv'
  <2>1. Step("project", "kill-events") /\ "project" \in Busy /\ "kill-events" \in Busy
    BY DEF ProjectManifest, Busy, Phases
  <2> QED  BY <1>0, <1>4, <2>1, BusyGap
<1>7. StoreInv'
  BY <1>0 DEF IInv, StoreInv
<1>8. PhaseInv'
  <2>1. BatchId' = BatchId /\ DatedKey' = DatedKey
    BY <1>4 DEF BatchId, DatedKey
  <2> QED  BY <1>0, <1>1, <1>4, <2>1 DEF PhaseInv
<1>9. ReadInv'
  BY <1>0 DEF IInv, ReadInv, CommittedIsReadable, Readable
<1> QED  BY <1>5, <1>6, <1>7, <1>8, <1>9 DEF IInv

LEMMA UploadSilverStep ==
    ASSUME IInv, NEW layer \in SilverLayers, NEW next \in {"player-match", "gold"},
           UploadSilver(layer, next)
    PROVE  IInv'
<1>0. /\ pc = layer /\ pc' = next
      /\ layer \in {"kill-events", "player-match"}
      /\ UNCHANGED <<position, acc, day, failures>>
      /\ UNCHANGED <<committed, goldReady, bronze, manifests, gold, batch, clock>>
  BY DEF UploadSilver, Step, kafkaVars, SilverLayers
<1>b. pc \in Busy /\ pc' \in Busy
  BY <1>0 DEF Busy, Phases
<1>1. /\ DOMAIN silver' = DOMAIN silver \cup {SilverKey(layer)}
      /\ silver'[SilverKey(layer)] = batch.features.events
      /\ \A k \in DOMAIN silver : k # SilverKey(layer) => silver'[k] = silver[k]
  BY DEF UploadSilver, Put
<1>2. TypeOK'
  <2>1. batch.features.events \in SUBSET Events
    BY DEF IInv, TypeOK, Features
  <2>2. SilverKey(layer) \in [layer: SilverLayers, batch: Ranges]
    BY <1>b, BusyFacts DEF SilverKey
  <2>3. \A k \in DOMAIN silver' :
           k \in [layer: SilverLayers, batch: Ranges] /\ silver'[k] \in SUBSET Events
    BY <1>1, <2>1, <2>2 DEF IInv, TypeOK
  <2> QED  BY <1>0, <2>3 DEF IInv, TypeOK, Phases
<1>3. GapInv'
  <2>1. Step(layer, next) /\ layer \in Busy /\ next \in Busy
    BY <1>0, <1>b DEF UploadSilver
  <2> QED  BY <1>0, <2>1, BusyGap
<1>4. StoreInv'
  BY <1>0 DEF IInv, StoreInv
<1>5. PhaseInv'
  <2>1. BatchId' = BatchId /\ DatedKey' = DatedKey
    BY <1>0 DEF BatchId, DatedKey
  <2>2. /\ DatedKey \in DOMAIN bronze /\ DatedKey \in DOMAIN manifests
        /\ batch.features.events = RangeEvents(BatchId)
    BY <1>0 DEF IInv, PhaseInv, Phases
  <2> QED  BY <1>0, <2>1, <2>2 DEF PhaseInv
<1>6. ReadInv'
  BY <1>0 DEF IInv, ReadInv, CommittedIsReadable, Readable
<1> QED  BY <1>2, <1>3, <1>4, <1>5, <1>6 DEF IInv

LEMMA UploadGoldStep == IInv /\ UploadGold => IInv'
<1> SUFFICES ASSUME IInv, UploadGold PROVE IInv'
    OBVIOUS
<1>0. /\ pc = "gold" /\ pc' = "publish"
      /\ UNCHANGED <<position, acc, day, failures>>
      /\ UNCHANGED <<committed, goldReady, bronze, manifests, silver, batch, clock>>
  BY DEF UploadGold, Step, kafkaVars
<1>b. pc \in Busy
  BY <1>0 DEF Busy, Phases
<1>1. /\ DOMAIN gold' = DOMAIN gold \cup {BatchId}
      /\ gold'[BatchId] = batch.features
      /\ \A id \in DOMAIN gold : id # BatchId => gold'[id] = gold[id]
  BY DEF UploadGold, Put
<1>2. batch.features.events = RangeEvents(BatchId) /\ batch.features \in Features
  BY <1>0 DEF IInv, PhaseInv, TypeOK
<1>3. TypeOK'
  <2>1. \A id \in DOMAIN gold' : id \in Ranges /\ gold'[id] \in Features
    BY <1>1, <1>2, <1>b, BusyFacts DEF IInv, TypeOK
  <2> QED  BY <1>0, <2>1 DEF IInv, TypeOK, Phases
<1>4. GapInv'
  <2>1. Step("gold", "publish") /\ "gold" \in Busy /\ "publish" \in Busy
    BY DEF UploadGold, Busy, Phases
  <2> QED  BY <1>0, <2>1, BusyGap
<1>5. StoreInv'
  <2>1. \A id \in DOMAIN gold' : gold'[id].events = RangeEvents(id)
    BY <1>1, <1>2 DEF IInv, StoreInv
  <2> QED  BY <1>0, <2>1 DEF IInv, StoreInv
<1>6. PhaseInv'
  <2>1. BatchId' = BatchId /\ DatedKey' = DatedKey
    BY <1>0 DEF BatchId, DatedKey
  <2>2. DatedKey \in DOMAIN bronze /\ DatedKey \in DOMAIN manifests
    BY <1>0 DEF IInv, PhaseInv, Phases
  <2> QED  BY <1>0, <1>1, <1>2, <2>1, <2>2 DEF PhaseInv
<1>7. ReadInv'
  <2>1. \A i \in DOMAIN goldReady : goldReady[i].batch \in DOMAIN gold
    BY DEF IInv, ReadInv
  <2>2. \A i \in DOMAIN goldReady' : goldReady'[i].batch \in DOMAIN gold'
    BY <1>0, <1>1, <2>1
  <2>3. Readable \subseteq Readable'
    <3>1. \A i \in DOMAIN goldReady :
             gold'[goldReady[i].batch].events = gold[goldReady[i].batch].events
      BY <1>1, <1>2, <2>1 DEF IInv, StoreInv
    <3> QED  BY <1>0, <3>1 DEF Readable
  <2> QED  BY <1>0, <2>2, <2>3 DEF IInv, ReadInv, CommittedIsReadable
<1> QED  BY <1>3, <1>4, <1>5, <1>6, <1>7 DEF IInv

LEMMA PublishGoldReadyStep == IInv /\ PublishGoldReady => IInv'
<1> SUFFICES ASSUME IInv, PublishGoldReady PROVE IInv'
    OBVIOUS
<1> DEFINE Message == [batch: Ranges, checksum: Features, manifest: Keys]
           m == [batch |-> BatchId, checksum |-> batch.features, manifest |-> DatedKey]
<1>0. /\ pc = "publish" /\ pc' = "commit"
      /\ UNCHANGED <<position, acc, day, failures>>
      /\ UNCHANGED <<committed, bronze, manifests, silver, gold, batch, clock>>
      /\ goldReady' = Append(goldReady, m)
  BY DEF PublishGoldReady, Step, storeVars
<1>b. pc \in Busy
  BY <1>0 DEF Busy, Phases
<1>1. m \in Message /\ goldReady \in Seq(Message)
  BY <1>b, BusyFacts DEF IInv, TypeOK
<1>2. /\ goldReady' \in Seq(Message)
      /\ DOMAIN goldReady' = DOMAIN goldReady \cup {Len(goldReady) + 1}
      /\ goldReady'[Len(goldReady) + 1] = m
      /\ \A i \in DOMAIN goldReady : goldReady'[i] = goldReady[i]
  <2> HIDE DEF m, Message
  <2> QED  BY <1>0, <1>1, AppendProperties, LenProperties
<1>3. TypeOK'
  BY <1>0, <1>2 DEF IInv, TypeOK, Phases
<1>4. GapInv'
  <2>1. Step("publish", "commit") /\ "publish" \in Busy /\ "commit" \in Busy
    BY DEF PublishGoldReady, Busy, Phases
  <2> QED  BY <1>0, <2>1, BusyGap
<1>5. StoreInv'
  BY <1>0 DEF IInv, StoreInv
<1>6. PhaseInv'
  <2>1. goldReady'[Len(goldReady) + 1].batch = BatchId'
    BY <1>0, <1>2 DEF BatchId
  <2> QED  BY <1>0, <1>2, <2>1 DEF PhaseInv
<1>7. ReadInv'
  <2>1. BatchId \in DOMAIN gold
    BY <1>0 DEF IInv, PhaseInv
  <2>2. \A i \in DOMAIN goldReady' : goldReady'[i].batch \in DOMAIN gold'
    BY <1>0, <1>2, <2>1 DEF IInv, ReadInv
  <2>3. Readable \subseteq Readable'
    BY <1>0, <1>2 DEF Readable
  <2> QED  BY <1>0, <2>2, <2>3 DEF IInv, ReadInv, CommittedIsReadable
<1> QED  BY <1>3, <1>4, <1>5, <1>6, <1>7 DEF IInv

\* The commit covers exactly the gap, and what it covers is announced.
LEMMA CommitStep == IInv /\ CommitPartitionOffsets => IInv' /\ committed' = position
<1> SUFFICES ASSUME IInv, CommitPartitionOffsets PROVE IInv' /\ committed' = position
    OBVIOUS
<1>0. /\ pc = "commit" /\ pc' = "receive"
      /\ UNCHANGED <<position, acc, day, failures>>
      /\ UNCHANGED <<goldReady, bronze, manifests, silver, gold, clock>>
      /\ batch' = NoBatch
  BY DEF CommitPartitionOffsets, Step, storeVars
<1>b. pc \in Busy
  BY <1>0 DEF Busy, Phases
<1>1. OffsetTypes /\ \A p \in Partitions : committed[p] <= position[p]
  BY <1>b, BusyFacts DEF IInv, GapInv, Busy
<1>2. committed' = position
  <2>1. batch.offsets = GapRanges
    BY <1>b, BusyFacts DEF Holds
  <2> DEFINE D == {q \in Partitions : committed[q] < position[q]}
  <2>2. /\ DOMAIN GapRanges = D
        /\ \A p \in D : GapRanges[p].max + 1 = position[p]
    BY <1>1 DEF GapRanges, OffsetTypes
  <2>3. \A p \in Partitions :
          (IF p \in DOMAIN batch.offsets THEN batch.offsets[p].max + 1 ELSE committed[p])
             = position[p]
    BY <1>1, <2>1, <2>2 DEF OffsetTypes
  <2>4. committed' = [p \in Partitions |->
                        IF p \in DOMAIN batch.offsets THEN batch.offsets[p].max + 1
                        ELSE committed[p]]
    BY DEF CommitPartitionOffsets
  <2>5. position = [p \in Partitions |-> position[p]]
    BY <1>1 DEF OffsetTypes
  <2> QED  BY <2>3, <2>4, <2>5
<1>3. TypeOK'
  BY <1>0, <1>1, <1>2, EmptyTypes DEF IInv, TypeOK, Phases, OffsetTypes
<1>4. GapInv'
  <2>1. Gap' = {} /\ IsFiniteSet(Gap') /\ Holds(<<>>, EmptyMap)'
    <3>1. (committed \in [Partitions -> Nat])' /\ (position = committed)'
      BY <1>0, <1>1, <1>2 DEF OffsetTypes
    <3>2. Gap' = {} /\ GapRanges' = EmptyMap
      BY <3>1, EmptyGapOf
    <3> QED  BY <3>2, FS_EmptySet DEF Holds, Elements
  <2>2. acc = EmptyAccumulator
    BY <1>0 DEF IInv, GapInv
  <2>3. \A p \in Partitions : committed'[p] <= position'[p]
    BY <1>0, <1>1, <1>2 DEF OffsetTypes
  <2> QED  BY <1>0, <2>1, <2>2, <2>3 DEF GapInv, EmptyAccumulator
<1>5. StoreInv'
  BY <1>0 DEF IInv, StoreInv
<1>6. PhaseInv'
  BY <1>0 DEF PhaseInv, Phases
<1>7. ReadInv'
  <2>1. ASSUME NEW p \in Partitions, NEW o \in 0..(position[p] - 1), IsValid(<<p, o>>)
        PROVE  EventOf(<<p, o>>) \in Readable
    <3>0. o \in Nat /\ position[p] \in Nat /\ committed[p] \in Nat
      BY <1>1 DEF OffsetTypes
    <3>1. CASE o < committed[p]
      BY <2>1, <3>0, <3>1 DEF IInv, ReadInv, CommittedIsReadable
    <3>2. CASE committed[p] <= o
      <4>1. <<p, o>> \in Gap
        <5>1. <<p, o>> \in Messages
          BY <1>1, <3>0, EndOffsetType, MessagesLemma DEF OffsetTypes
        <5> QED  BY <3>0, <3>2, <5>1 DEF Gap
      <4>2. EventOf(<<p, o>>) \in RangeEvents(BatchId)
        <5>1. RangeEvents(BatchId) = EventsOf({r \in Gap : IsValid(r)})
          BY <1>1, <1>b, BusyFacts, GapRangesLemma DEF Holds, BatchId
        <5> QED  BY <2>1, <4>1, <5>1 DEF EventsOf
      <4>3. Kept(batch.records) # {}
        <5>1. <<p, o>> \in Elements(batch.records) /\ batch.records \in Seq(Messages)
          BY <4>1, <1>b, BusyFacts DEF Holds
        <5> QED  BY <2>1, <5>1, KeptLemma
      <4>4. PICK i \in DOMAIN goldReady : goldReady[i].batch = BatchId
        BY <1>0, <4>3 DEF IInv, PhaseInv
      <4> QED  BY <4>2, <4>4, ReadableLemma DEF IInv, ReadInv
    <3> QED  BY <3>0, <3>1, <3>2
  <2>2. Readable' = Readable
    BY <1>0 DEF Readable
  <2>3. CommittedIsReadable'
    BY <1>2, <2>1, <2>2 DEF CommittedIsReadable
  <2> QED  BY <1>0, <2>3 DEF IInv, ReadInv
<1> QED  BY <1>2, <1>3, <1>4, <1>5, <1>6, <1>7 DEF IInv

\* records and offsets are what will be read and not committed after the step.
HeldNext(records, offsets) ==
    /\ Elements(records) = Gap'
    /\ Len(records) = Cardinality(Gap')
    /\ offsets = GapRanges'
    /\ IsFiniteSet(Gap')
    /\ \A p \in Partitions : committed'[p] <= position'[p]

\* Flushing what the gap holds starts the processing of exactly the gap.
LEMMA FlushKeeps ==
    ASSUME IInv, pc = "receive",
           NEW a, a.records \in Seq(Messages), a.offsets \in Ranges, a.records # <<>>,
           Flush(a), HeldNext(a.records, a.offsets)
    PROVE  /\ GapInv'
           /\ acc' \in [records: Seq(Messages), offsets: Ranges, bytes: Nat]
           /\ batch' \in [offsets: Ranges, records: Seq(Messages), day: Nat,
                          features: Features]
           /\ day' \in 0..MaxDay
           /\ pc' = IF Kept(a.records) = {} THEN "commit" ELSE "bronze"
           /\ batch'.records = a.records
<1>1. /\ acc' = EmptyAccumulator
      /\ day' \in day..MaxDay
      /\ batch' = [offsets |-> a.offsets, records |-> a.records, day |-> day',
                   features |-> NoFeatures]
      /\ pc' = IF Kept(a.records) = {} THEN "commit" ELSE "bronze"
  BY DEF Flush, NoBatch
<1>2. day' \in 0..MaxDay /\ day' \in Nat
  BY <1>1, LimitsAssumption DEF IInv, TypeOK
<1>3. pc' \in {"commit", "bronze"}
  BY <1>1
<1>4. Holds(batch.records, batch.offsets)'
  BY <1>1 DEF Holds, HeldNext
<1>5. GapInv'
  BY <1>1, <1>3, <1>4 DEF GapInv, HeldNext
<1> QED  BY <1>1, <1>2, <1>5, EmptyTypes

LEMMA ReceiveStep ==
    ASSUME IInv, NEW p \in Partitions, Receive(p)
    PROVE  IInv'
<1> DEFINE m == <<p, position[p]>>
           a == Push(acc, m)
<1>0. /\ pc = "receive"
      /\ position[p] < EndOffset(p)
      /\ position' = [position EXCEPT ![p] = @ + 1]
      /\ UNCHANGED <<committed, goldReady, bronze, manifests, silver, gold, clock, failures>>
      /\ \/ ~IsFull(a) /\ acc' = a /\ UNCHANGED <<pc, batch, day>>
         \/ IsFull(a) /\ Flush(a)
  BY DEF Receive, kafkaVars, storeVars
<1>1. OffsetTypes /\ \A q \in Partitions : committed[q] <= position[q]
  BY <1>0 DEF IInv, TypeOK, OffsetTypes, GapInv
<1>2. /\ Holds(acc.records, acc.offsets) /\ IsFiniteSet(Gap) /\ batch = NoBatch
      /\ acc \in [records: Seq(Messages), offsets: Ranges, bytes: Nat]
  BY <1>0 DEF IInv, GapInv, TypeOK
<1>3. /\ m \in Messages /\ m \notin Gap
      /\ Gap' = Gap \cup {m}
      /\ GapRanges' = TrackPartitionOffset(GapRanges, p, position[p])
  BY <1>0, <1>1, ReceiveExtends
<1>4. OffsetTypes'
  BY <1>0, <1>1, EndOffsetType DEF OffsetTypes
<1>5. /\ a.records = Append(acc.records, m)
      /\ a.offsets = GapRanges'
      /\ a.bytes \in Nat
      /\ a = [records |-> a.records, offsets |-> a.offsets, bytes |-> a.bytes]
  <2>1. MessageAt(m).bytes \in Nat
    BY <1>3, MessageType
  <2>2. a = [records |-> Append(acc.records, m),
             offsets |-> TrackPartitionOffset(acc.offsets, p, position[p]),
             bytes   |-> acc.bytes + MessageAt(m).bytes]
    BY DEF Push
  <2>3. acc.bytes + MessageAt(m).bytes \in Nat
    BY <1>2, <2>1
  <2>4. /\ a.records = Append(acc.records, m)
        /\ a.offsets = TrackPartitionOffset(acc.offsets, p, position[p])
        /\ a.bytes = acc.bytes + MessageAt(m).bytes
    <3> HIDE DEF m, a
    <3> QED  BY <2>2
  <2>5. acc.offsets = GapRanges
    BY <1>2 DEF Holds
  <2> HIDE DEF m, a
  <2> QED  BY <1>3, <2>2, <2>3, <2>4, <2>5
<1>6. /\ a.records \in Seq(Messages) /\ a.records # <<>>
      /\ Elements(a.records) = Elements(acc.records) \cup {m}
      /\ Len(a.records) = Len(acc.records) + 1
  <2>1. acc.records \in Seq(Messages)
    BY <1>2
  <2>2. /\ a.records \in Seq(Messages) /\ a.records # <<>>
        /\ Len(a.records) = Len(acc.records) + 1 /\ Len(acc.records) \in Nat
        /\ DOMAIN a.records = 1..Len(a.records)
        /\ DOMAIN acc.records = 1..Len(acc.records)
        /\ \A i \in 1..Len(acc.records) : a.records[i] = acc.records[i]
        /\ a.records[Len(acc.records) + 1] = m
    <3> HIDE DEF m, a
    <3> QED  BY <1>3, <1>5, <2>1, AppendProperties, LenProperties
  <2> HIDE DEF m, a
  <2> QED  BY <2>2 DEF Elements
<1>7. a.offsets \in Ranges
  <2>1. GapRanges' \in Ranges
    <3>1. /\ committed' \in [Partitions -> Nat] /\ position' \in [Partitions -> Nat]
          /\ \A q \in Partitions : position'[q] <= EndOffset(q)
      BY <1>4 DEF OffsetTypes
    <3> QED  BY <3>1, GapRangesType DEF GapRanges
  <2> QED  BY <1>5, <2>1
<1>8. IsFiniteSet(Gap') /\ Cardinality(Gap') = Cardinality(Gap) + 1
  BY <1>2, <1>3, FS_AddElement
<1>9. HeldNext(a.records, a.offsets)
  <2>1. \A q \in Partitions : committed'[q] <= position'[q]
    BY <1>0, <1>1 DEF OffsetTypes
  <2> HIDE DEF m, a
  <2> QED  BY <1>2, <1>3, <1>5, <1>6, <1>8, <2>1 DEF Holds, HeldNext
<1>11. TypeOK' /\ GapInv' /\ PhaseInv'
  <2>1. CASE acc' = a /\ UNCHANGED <<pc, batch, day>>
    <3>1. acc' \in [records: Seq(Messages), offsets: Ranges, bytes: Nat]
      <4> HIDE DEF a
      <4> QED  BY <1>5, <1>6, <1>7, <2>1
    <3>2. TypeOK'
      BY <1>0, <1>4, <2>1, <3>1 DEF IInv, TypeOK, OffsetTypes
    <3>3. GapInv'
      <4>1. Holds(acc.records, acc.offsets)'
        BY <1>9, <2>1 DEF Holds, HeldNext
      <4> HIDE DEF m, a
      <4> QED  BY <1>0, <1>2, <1>9, <2>1, <4>1 DEF GapInv, HeldNext
    <3>4. PhaseInv'
      BY <1>0, <2>1 DEF PhaseInv, Phases
    <3> QED  BY <3>2, <3>3, <3>4
  <2>2. CASE Flush(a)
    <3>1. /\ GapInv'
          /\ acc' \in [records: Seq(Messages), offsets: Ranges, bytes: Nat]
          /\ batch' \in [offsets: Ranges, records: Seq(Messages), day: Nat,
                         features: Features]
          /\ day' \in 0..MaxDay
          /\ pc' = IF Kept(a.records) = {} THEN "commit" ELSE "bronze"
          /\ batch'.records = a.records
      <4> HIDE DEF a
      <4> QED  BY <1>0, <1>6, <1>7, <1>9, <2>2, FlushKeeps
    <3>2. TypeOK'
      <4> HIDE DEF a
      <4> QED  BY <1>0, <1>4, <3>1 DEF IInv, TypeOK, OffsetTypes, Phases
    <3>3. PhaseInv'
      <4> HIDE DEF a
      <4> QED  BY <3>1 DEF PhaseInv, Phases
    <3> QED  BY <3>1, <3>2, <3>3
  <2> QED  BY <1>0, <2>1, <2>2
<1>12. StoreInv' /\ ReadInv'
  BY <1>0 DEF IInv, StoreInv, ReadInv, CommittedIsReadable, Readable
<1> QED  BY <1>11, <1>12 DEF IInv

LEMMA TimerFlushStep == IInv /\ TimerFlush => IInv'
<1> SUFFICES ASSUME IInv, TimerFlush PROVE IInv'
    OBVIOUS
<1>0. /\ pc = "receive" /\ acc.records # <<>> /\ Flush(acc)
      /\ UNCHANGED <<committed, goldReady, bronze, manifests, silver, gold,
                     position, clock, failures>>
  BY DEF TimerFlush, kafkaVars, storeVars
<1>1. /\ Holds(acc.records, acc.offsets) /\ IsFiniteSet(Gap)
      /\ \A p \in Partitions : committed[p] <= position[p]
      /\ acc.records \in Seq(Messages) /\ acc.offsets \in Ranges
  BY <1>0 DEF IInv, GapInv, TypeOK
<1>2. HeldNext(acc.records, acc.offsets)
  BY <1>0, <1>1, GapUnchanged DEF Holds, HeldNext
<1>3. /\ GapInv'
      /\ acc' \in [records: Seq(Messages), offsets: Ranges, bytes: Nat]
      /\ batch' \in [offsets: Ranges, records: Seq(Messages), day: Nat, features: Features]
      /\ day' \in 0..MaxDay
      /\ pc' = IF Kept(acc.records) = {} THEN "commit" ELSE "bronze"
      /\ batch'.records = acc.records
  BY <1>0, <1>1, <1>2, FlushKeeps
<1>4. TypeOK'
  BY <1>0, <1>3 DEF IInv, TypeOK, Phases
<1>5. StoreInv' /\ ReadInv'
  BY <1>0 DEF IInv, StoreInv, ReadInv, CommittedIsReadable, Readable
<1>6. PhaseInv'
  BY <1>3 DEF PhaseInv, Phases
<1> QED  BY <1>3, <1>4, <1>5, <1>6 DEF IInv

LEMMA DieStep == IInv /\ Die => IInv'
<1> SUFFICES ASSUME IInv, Die PROVE IInv'
    OBVIOUS
<1>0. /\ pc' = "down" /\ acc' = EmptyAccumulator /\ batch' = NoBatch
      /\ failures < MaxFailures /\ failures' = failures + 1
      /\ UNCHANGED <<committed, goldReady, bronze, manifests, silver, gold,
                     position, day, clock>>
  BY DEF Die, kafkaVars, storeVars
<1>1. TypeOK'
  BY <1>0, EmptyTypes, LimitsAssumption DEF IInv, TypeOK, Phases
<1>2. GapInv' /\ PhaseInv'
  BY <1>0 DEF GapInv, PhaseInv, Phases
<1>3. StoreInv' /\ ReadInv'
  BY <1>0 DEF IInv, StoreInv, ReadInv, CommittedIsReadable, Readable
<1> QED  BY <1>1, <1>2, <1>3 DEF IInv

LEMMA RestartStep == IInv /\ Restart => IInv'
<1> SUFFICES ASSUME IInv, Restart PROVE IInv'
    OBVIOUS
<1>0. /\ pc = "down" /\ pc' = "receive" /\ position' = committed
      /\ UNCHANGED <<committed, goldReady, bronze, manifests, silver, gold,
                     acc, batch, day, clock, failures>>
  BY DEF Restart, kafkaVars, storeVars, envVars
<1>1. TypeOK'
  BY <1>0 DEF IInv, TypeOK, Phases
<1>2. committed \in [Partitions -> Nat] /\ acc = EmptyAccumulator /\ batch = NoBatch
  BY <1>0 DEF IInv, TypeOK, GapInv
<1>3. GapInv'
  <2>1. Gap' = {} /\ GapRanges' = EmptyMap
    BY <1>0, <1>2, EmptyGapOf
  <2>2. \A p \in Partitions : committed'[p] <= position'[p]
    BY <1>0, <1>2
  <2> QED  BY <1>0, <1>2, <2>1, <2>2, FS_EmptySet DEF GapInv, Holds, Elements, EmptyAccumulator
<1>4. PhaseInv'
  BY <1>0 DEF PhaseInv, Phases
<1>5. StoreInv' /\ ReadInv'
  BY <1>0 DEF IInv, StoreInv, ReadInv, CommittedIsReadable, Readable
<1> QED  BY <1>1, <1>3, <1>4, <1>5 DEF IInv

LEMMA StutterStep == IInv /\ UNCHANGED vars => IInv'
<1> SUFFICES ASSUME IInv, UNCHANGED vars PROVE IInv'
    OBVIOUS
<1>0. UNCHANGED <<committed, goldReady, bronze, manifests, silver, gold, pc, position,
                  acc, batch, day, clock, failures>>
  BY DEF vars, kafkaVars, storeVars, envVars
<1>1. TypeOK'
  BY <1>0 DEF IInv, TypeOK
<1>2. GapInv'
  BY <1>0, GapUnchanged DEF IInv, GapInv, Holds
<1>3. StoreInv' /\ PhaseInv' /\ ReadInv'
  BY <1>0 DEF IInv, StoreInv, PhaseInv, DatedKey, BatchId, ReadInv,
     CommittedIsReadable, Readable
<1> QED  BY <1>1, <1>2, <1>3 DEF IInv

LEMMA NextIInv == IInv /\ [Next]_vars => IInv'
<1> SUFFICES ASSUME IInv, [Next]_vars PROVE IInv'
    OBVIOUS
<1>1. CASE \E p \in Partitions : Receive(p)
  BY <1>1, ReceiveStep
<1>2. CASE TimerFlush
  BY <1>2, TimerFlushStep
<1>3. CASE UploadParquet
  BY <1>3, UploadParquetStep
<1>4. CASE UploadManifest
  BY <1>4, UploadManifestStep
<1>5. CASE ProjectManifest
  BY <1>5, ProjectManifestStep
<1>6. CASE UploadKillEvents
  BY <1>6, UploadSilverStep DEF UploadKillEvents, SilverLayers
<1>7. CASE UploadPlayerMatch
  BY <1>7, UploadSilverStep DEF UploadPlayerMatch, SilverLayers
<1>8. CASE UploadGold
  BY <1>8, UploadGoldStep
<1>9. CASE PublishGoldReady
  BY <1>9, PublishGoldReadyStep
<1>10. CASE CommitPartitionOffsets
  BY <1>10, CommitStep
<1>11. CASE Restart
  BY <1>11, RestartStep
<1>12. CASE Die
  BY <1>12, DieStep
<1>13. CASE IdlePoll \/ UNCHANGED vars
  BY <1>13, StutterStep DEF IdlePoll
<1> QED  BY <1>1, <1>2, <1>3, <1>4, <1>5, <1>6, <1>7, <1>8, <1>9, <1>10, <1>11, <1>12, <1>13
         DEF Next, Process

-------------------------------------------------------------------------------
(* Theorems *)

THEOREM SpecIInv == Spec => []IInv
BY InitIInv, NextIInv, PTL DEF Spec

\* Every variable keeps its type, and no offset leaves the log.
THEOREM SpecTypeOK == Spec => []TypeOK
<1>1. IInv => TypeOK
  BY DEF IInv
<1> QED  BY <1>1, SpecIInv, PTL

\* Zero loss: every valid event below a committed offset is readable behind the
\* gold.ready topic, however often the process dies and wherever.
THEOREM SpecCommittedIsReadable == Spec => []CommittedIsReadable
<1>1. IInv => CommittedIsReadable
  BY DEF IInv, ReadInv
<1> QED  BY <1>1, SpecIInv, PTL

\* Bronze and gold files are functions of their keys, so that a put of one
\* attempt over another's loses nothing.
THEOREM SpecStoredUnderIdIsItsRange == Spec => []StoredUnderIdIsItsRange
<1>1. IInv => StoredUnderIdIsItsRange
  BY DEF IInv, StoreInv, StoredUnderIdIsItsRange
<1> QED  BY <1>1, SpecIInv, PTL

\* Memory holds each message between committed offset and position once, and
\* the tracked ranges are those gaps.
THEOREM SpecInFlightIsTheGap == Spec => []InFlightIsTheGap
<1>1. IInv => InFlightIsTheGap
  <2> SUFFICES ASSUME IInv, pc # "down"
               PROVE  /\ Elements(InFlight) = Gap
                      /\ Len(InFlight) = Cardinality(Gap)
                      /\ InFlightOffsets = GapRanges
      BY DEF InFlightIsTheGap
  <2>0. acc.records \in Seq(Messages) /\ batch.records \in Seq(Messages)
    BY DEF IInv, TypeOK
  <2>1. CASE pc = "receive"
    <3>1. Holds(acc.records, acc.offsets) /\ batch.records = <<>>
      BY <2>1 DEF IInv, GapInv, NoBatch
    <3>2. InFlight = acc.records /\ InFlightOffsets = acc.offsets
      BY <2>0, <3>1, ConcatEmptySeq DEF InFlight, InFlightOffsets
    <3> QED  BY <3>1, <3>2 DEF Holds
  <2>2. CASE pc # "receive"
    <3>1. /\ Holds(batch.records, batch.offsets) /\ batch.records # <<>>
          /\ acc.records = <<>>
      BY <2>2 DEF IInv, GapInv, EmptyAccumulator
    <3>2. InFlight = batch.records /\ InFlightOffsets = batch.offsets
      BY <2>0, <3>1, ConcatEmptySeq DEF InFlight, InFlightOffsets
    <3> QED  BY <3>1, <3>2 DEF Holds
  <2> QED  BY <2>1, <2>2
<1> QED  BY <1>1, SpecIInv, PTL

\* Only the commit changes the committed offsets, and it raises them to the
\* position.
LEMMA CommittedStep ==
    ASSUME IInv, [Next]_vars
    PROVE  \/ UNCHANGED committed
           \/ CommitPartitionOffsets /\ committed' = position
BY CommitStep DEF Next, Process, Receive, TimerFlush, UploadParquet, UploadManifest,
   ProjectManifest, UploadKillEvents, UploadPlayerMatch, UploadSilver, UploadGold,
   PublishGoldReady, Restart, Die, IdlePoll, vars, kafkaVars

\* A commit never moves a partition back.
THEOREM SpecCommitsNeverRegress == Spec => CommitsNeverRegress
<1>1. IInv /\ [Next]_vars => [\A p \in Partitions : committed[p] <= committed'[p]]_committed
  <2> SUFFICES ASSUME IInv, CommitPartitionOffsets, committed' = position
               PROVE  \A p \in Partitions : committed[p] <= committed'[p]
      BY CommittedStep
  <2> QED  BY DEF IInv, GapInv, CommitPartitionOffsets, Step
<1> QED  BY <1>1, SpecIInv, PTL DEF Spec, CommitsNeverRegress

\* What readers of gold.ready can fetch only grows.
LEMMA ReadableGrows ==
    ASSUME IInv, IInv', [Next]_vars
    PROVE  Readable \subseteq Readable' /\ Readable' \in SUBSET Events
<1>1. /\ DOMAIN goldReady \subseteq DOMAIN goldReady'
      /\ \A i \in DOMAIN goldReady : goldReady'[i] = goldReady[i]
  <2>1. CASE UNCHANGED goldReady
    BY <2>1
  <2>2. CASE PublishGoldReady
    <3> DEFINE m == [batch |-> BatchId, checksum |-> batch.features, manifest |-> DatedKey]
               Message == [batch: Ranges, checksum: Features, manifest: Keys]
    <3>1. goldReady' = Append(goldReady, m) /\ pc \in Busy
      BY <2>2 DEF PublishGoldReady, Step, Busy, Phases
    <3>2. m \in Message /\ goldReady \in Seq(Message)
      BY <3>1, BusyFacts DEF IInv, TypeOK
    <3> HIDE DEF m, Message
    <3> QED  BY <3>1, <3>2, AppendProperties, LenProperties
  <2> QED
    BY <2>1, <2>2 DEF Next, Process, Receive, TimerFlush, UploadParquet, UploadManifest,
       ProjectManifest, UploadKillEvents, UploadPlayerMatch, UploadSilver, UploadGold,
       CommitPartitionOffsets, Restart, Die, IdlePoll, vars, kafkaVars
<1>2. StoreInv /\ \A i \in DOMAIN goldReady : goldReady[i].batch \in DOMAIN gold
  BY DEF IInv, ReadInv
<1>3. /\ \A i \in DOMAIN goldReady' : goldReady'[i].batch \in DOMAIN gold'
      /\ \A id \in DOMAIN gold' : gold'[id].events = RangeEvents(id)
  BY DEF IInv, StoreInv, ReadInv
<1>4. \A e : e \in Readable' <=>
         \E i \in DOMAIN goldReady' : e \in RangeEvents(goldReady'[i].batch)
  BY <1>3 DEF Readable
<1>5. Readable \subseteq Readable'
  BY <1>1, <1>2, <1>4, ReadableLemma
<1>6. Readable' \in SUBSET Events
  <2>1. \A id \in DOMAIN gold' : gold'[id].events \in SUBSET Events
    BY DEF IInv, TypeOK, Features
  <2> QED  BY <1>3, <2>1 DEF Readable
<1> QED  BY <1>5, <1>6

\* The detailed streamer implements the abstract promise: each step of it is a
\* delivery, an acknowledgement, or invisible to both sides.
THEOREM SpecKeepsPromise == Spec => KeepsPromise
<1> DEFINE wanted == [p \in Partitions |-> [i \in 1..EndOffset(p) |->
                     IF IsValid(<<p, i - 1>>) THEN {EventOf(<<p, i - 1>>)} ELSE {}]]
<1>1. Init => Promise!DurableInit
  BY DEF Init, Promise!DurableInit, Readable
<1>2. IInv /\ IInv' /\ [Next]_vars => [Promise!DurableNext]_<<Readable, committed>>
  <2> SUFFICES ASSUME IInv, IInv', [Next]_vars
               PROVE  Promise!DurableNext \/ UNCHANGED <<Readable, committed>>
      OBVIOUS
  <2>1. CASE UNCHANGED committed
    <3>1. Promise!Deliver
      BY <2>1, ReadableGrows DEF Promise!Deliver
    <3> QED  BY <3>1 DEF Promise!DurableNext
  <2>2. CASE CommitPartitionOffsets /\ committed' = position
    <3>1. Readable' = Readable
      BY <2>2 DEF CommitPartitionOffsets, storeVars, Readable
    <3>2. /\ committed' \in [Partitions -> Nat]
          /\ \A p \in Partitions : committed[p] <= committed'[p]
                                  /\ committed'[p] <= EndOffset(p)
      BY <2>2 DEF IInv, TypeOK, GapInv, CommitPartitionOffsets, Step
    <3>3. ASSUME NEW p \in Partitions
          PROVE  /\ Len(wanted[p]) = EndOffset(p)
                 /\ \A i \in 1..committed'[p] : wanted[p][i] \subseteq Readable
      <4>1. EndOffset(p) \in Nat
        BY EndOffsetType
      <4>2. /\ wanted[p] \in Seq(SUBSET {EventOf(<<p, i - 1>>) : i \in 1..EndOffset(p)})
            /\ DOMAIN wanted[p] = 1..EndOffset(p)
        <5> DEFINE S == {EventOf(<<p, i - 1>>) : i \in 1..EndOffset(p)}
        <5>1. wanted[p] \in [1..EndOffset(p) -> SUBSET S]
          OBVIOUS
        <5> HIDE DEF wanted, S
        <5>2. wanted[p] \in Seq(SUBSET S)
          BY <4>1, <5>1, SeqDef
        <5> QED  BY <5>1, <5>2 DEF S
      <4>3. Len(wanted[p]) = EndOffset(p)
        <5> HIDE DEF wanted
        <5>1. Len(wanted[p]) \in Nat /\ 1..Len(wanted[p]) = 1..EndOffset(p)
          BY <4>2, LenProperties
        <5> QED  BY <4>1, <5>1
      <4>4. ASSUME NEW i \in 1..committed'[p]
            PROVE  wanted[p][i] \subseteq Readable
        <5>1. i \in 1..EndOffset(p) /\ i - 1 \in 0..(committed'[p] - 1)
          BY <3>2, <4>1
        <5>2. IsValid(<<p, i - 1>>) => EventOf(<<p, i - 1>>) \in Readable
          BY <3>1, <5>1 DEF IInv, ReadInv, CommittedIsReadable
        <5> QED  BY <5>1, <5>2
      <4> QED  BY <4>3, <4>4
    <3>4. Promise!Acknowledge
      <4> HIDE DEF wanted
      <4>1. /\ committed' \in [Partitions -> Nat]
            /\ \A p \in Partitions :
                  /\ committed[p] <= committed'[p]
                  /\ committed'[p] <= Len(wanted[p])
                  /\ \A i \in 1..committed'[p] : wanted[p][i] \subseteq Readable
            /\ UNCHANGED Readable
        BY <3>1, <3>2, <3>3
      <4> QED  BY <4>1 DEF Promise!Acknowledge, wanted
    <3> QED  BY <3>4 DEF Promise!DurableNext
  <2> QED  BY <2>1, <2>2, CommittedStep
<1> QED  BY <1>1, <1>2, SpecIInv, PTL DEF Spec, KeepsPromise, Promise!DurableSpec

-------------------------------------------------------------------------------
(* What stands behind a gold.ready message *)

\* The silver files are determined by their keys as well, and each phase knows
\* which of them it has written; so everything a message refers to is stored.
BackedInv ==
    /\ \A k \in DOMAIN silver : silver[k] = RangeEvents(k.batch)
    /\ pc \in {"player-match", "gold", "publish"} => SilverKey("kill-events") \in DOMAIN silver
    /\ pc \in {"gold", "publish"} => SilverKey("player-match") \in DOMAIN silver
    /\ \A i \in DOMAIN goldReady :
          /\ goldReady[i].manifest \in DOMAIN manifests
          /\ goldReady[i].manifest.batch = goldReady[i].batch
          /\ goldReady[i].batch \in DOMAIN gold
          /\ \A layer \in SilverLayers :
                [layer |-> layer, batch |-> goldReady[i].batch] \in DOMAIN silver

\* Uploading a silver layer adds a key and removes none, so what the published
\* messages name is still there.
LEMMA BackedSilverStep ==
    ASSUME IInv, BackedInv, NEW layer \in SilverLayers, NEW next \in {"player-match", "gold"},
           layer = "kill-events" <=> next = "player-match",
           UploadSilver(layer, next)
    PROVE  BackedInv'
<1>0. /\ pc = layer /\ pc' = next /\ layer \in {"kill-events", "player-match"}
      /\ UNCHANGED <<goldReady, manifests, gold, batch>>
  BY DEF UploadSilver, Step, kafkaVars, SilverLayers
<1>1. /\ DOMAIN silver' = DOMAIN silver \cup {SilverKey(layer)}
      /\ silver'[SilverKey(layer)] = batch.features.events
      /\ \A k \in DOMAIN silver : k # SilverKey(layer) => silver'[k] = silver[k]
  BY DEF UploadSilver, Put
<1>2. batch.features.events = RangeEvents(BatchId) /\ SilverKey(layer).batch = BatchId
  BY <1>0 DEF IInv, PhaseInv, SilverKey
<1>3. \A k \in DOMAIN silver' : silver'[k] = RangeEvents(k.batch)
  BY <1>1, <1>2 DEF BackedInv
<1>4. /\ pc' \in {"player-match", "gold", "publish"}
           => SilverKey("kill-events") \in DOMAIN silver'
      /\ pc' \in {"gold", "publish"} => SilverKey("player-match") \in DOMAIN silver'
  BY <1>0, <1>1 DEF BackedInv
<1>5. \A k : SilverKey(k)' = SilverKey(k)
  BY <1>0 DEF SilverKey, BatchId
<1> QED  BY <1>0, <1>1, <1>3, <1>4, <1>5 DEF BackedInv

LEMMA BackedPublishStep == IInv /\ BackedInv /\ PublishGoldReady => BackedInv'
<1> SUFFICES ASSUME IInv, BackedInv, PublishGoldReady PROVE BackedInv'
    OBVIOUS
<1> DEFINE Message == [batch: Ranges, checksum: Features, manifest: Keys]
           m == [batch |-> BatchId, checksum |-> batch.features, manifest |-> DatedKey]
<1>0. /\ pc = "publish" /\ pc' = "commit" /\ pc \in Busy
      /\ UNCHANGED <<manifests, silver, gold, batch>>
      /\ goldReady' = Append(goldReady, m)
  BY DEF PublishGoldReady, Step, storeVars, Busy, Phases
<1>1. m \in Message /\ goldReady \in Seq(Message)
  BY <1>0, BusyFacts DEF IInv, TypeOK
<1>2. \A i \in DOMAIN goldReady' :
         goldReady'[i] = m \/ (i \in DOMAIN goldReady /\ goldReady'[i] = goldReady[i])
  <2> HIDE DEF m, Message
  <2> QED  BY <1>0, <1>1, AppendProperties, LenProperties
<1>3. /\ m.manifest = DatedKey /\ m.batch = BatchId
      /\ DatedKey \in DOMAIN manifests /\ DatedKey.batch = BatchId
      /\ BatchId \in DOMAIN gold
      /\ \A layer \in SilverLayers : [layer |-> layer, batch |-> BatchId] \in DOMAIN silver
  BY <1>0, BusyFacts DEF IInv, PhaseInv, BackedInv, SilverKey, SilverLayers, Phases
<1>4. ASSUME NEW i \in DOMAIN goldReady'
      PROVE  /\ goldReady'[i].manifest \in DOMAIN manifests'
             /\ goldReady'[i].manifest.batch = goldReady'[i].batch
             /\ goldReady'[i].batch \in DOMAIN gold'
             /\ \A layer \in SilverLayers :
                   [layer |-> layer, batch |-> goldReady'[i].batch] \in DOMAIN silver'
  <2> HIDE DEF m
  <2>1. CASE goldReady'[i] = m
    BY <1>0, <1>3, <2>1
  <2>2. CASE i \in DOMAIN goldReady /\ goldReady'[i] = goldReady[i]
    BY <1>0, <2>2 DEF BackedInv
  <2> QED  BY <1>2, <2>1, <2>2
<1> QED  BY <1>0, <1>4 DEF BackedInv

LEMMA NextBackedInv == IInv /\ BackedInv /\ [Next]_vars => BackedInv'
<1> SUFFICES ASSUME IInv, BackedInv, [Next]_vars PROVE BackedInv'
    OBVIOUS
<1>1. CASE UploadManifest
  <2>1. /\ pc' = "project"
        /\ UNCHANGED <<goldReady, silver, gold>>
        /\ DOMAIN manifests \subseteq DOMAIN manifests'
    BY <1>1 DEF UploadManifest, Step, kafkaVars, Put
  <2> QED  BY <2>1 DEF BackedInv
<1>2. CASE UploadKillEvents
  BY <1>2, BackedSilverStep DEF UploadKillEvents, SilverLayers
<1>3. CASE UploadPlayerMatch
  BY <1>3, BackedSilverStep DEF UploadPlayerMatch, SilverLayers
<1>4. CASE UploadGold
  <2>1. /\ pc = "gold" /\ pc' = "publish"
        /\ UNCHANGED <<goldReady, silver, manifests, batch>>
        /\ DOMAIN gold \subseteq DOMAIN gold'
    BY <1>4 DEF UploadGold, Step, kafkaVars, Put
  <2>2. \A k : SilverKey(k)' = SilverKey(k)
    BY <2>1 DEF SilverKey, BatchId
  <2> QED  BY <2>1, <2>2 DEF BackedInv
<1>5. CASE PublishGoldReady
  BY <1>5, BackedPublishStep
<1>6. CASE (\E p \in Partitions : Receive(p)) \/ TimerFlush \/ UploadParquet \/ ProjectManifest
           \/ CommitPartitionOffsets \/ Restart \/ Die
  <2>1. /\ pc' \notin {"player-match", "gold", "publish"}
        /\ UNCHANGED <<goldReady, silver, manifests, gold>>
    BY <1>6 DEF Receive, TimerFlush, Flush, UploadParquet, ProjectManifest,
       CommitPartitionOffsets, Restart, Die, Step, kafkaVars, storeVars
  <2> QED  BY <2>1 DEF BackedInv
<1>7. CASE IdlePoll \/ UNCHANGED vars
  BY <1>7 DEF IdlePoll, vars, kafkaVars, storeVars, BackedInv, SilverKey, BatchId
<1> QED  BY <1>1, <1>2, <1>3, <1>4, <1>5, <1>6, <1>7 DEF Next, Process

\* A gold.ready message never dangles, and what stands behind it was made from
\* one and the same set of events.
THEOREM SpecGoldReadyIsBacked == Spec => []GoldReadyIsBacked
<1>1. Init => BackedInv
  BY DEF Init, BackedInv, EmptyMap
<1>2. IInv /\ BackedInv => GoldReadyIsBacked
  <2> SUFFICES ASSUME IInv, BackedInv, NEW i \in DOMAIN goldReady
               PROVE  LET m == goldReady[i] IN
                      /\ m.manifest \in DOMAIN manifests
                      /\ manifests[m.manifest].data \in DOMAIN bronze
                      /\ m.batch \in DOMAIN gold
                      /\ gold[m.batch].events = EventsOf(bronze[manifests[m.manifest].data].rows)
                      /\ \A layer \in SilverLayers :
                            /\ [layer |-> layer, batch |-> m.batch] \in DOMAIN silver
                            /\ silver[[layer |-> layer, batch |-> m.batch]] = gold[m.batch].events
      BY DEF GoldReadyIsBacked
  <2> DEFINE m == goldReady[i]
  <2>1. /\ m.manifest \in DOMAIN manifests /\ m.manifest.batch = m.batch
        /\ m.batch \in DOMAIN gold
        /\ \A layer \in SilverLayers : [layer |-> layer, batch |-> m.batch] \in DOMAIN silver
    BY DEF BackedInv
  <2>2. manifests[m.manifest].data = m.manifest /\ m.manifest \in DOMAIN bronze
    BY <2>1 DEF IInv, StoreInv
  <2>3. /\ EventsOf(bronze[m.manifest].rows) = RangeEvents(m.batch)
        /\ gold[m.batch].events = RangeEvents(m.batch)
    BY <2>1, <2>2 DEF IInv, StoreInv
  <2>4. \A layer \in SilverLayers :
           silver[[layer |-> layer, batch |-> m.batch]] = RangeEvents(m.batch)
    BY <2>1 DEF BackedInv
  <2> HIDE DEF m
  <2> QED  BY <2>1, <2>2, <2>3, <2>4 DEF m
<1>3. Spec => []BackedInv
  BY <1>1, NextBackedInv, SpecIInv, PTL DEF Spec
<1> QED  BY <1>2, <1>3, SpecIInv, PTL

-------------------------------------------------------------------------------
(* What the manifest of a batch says *)

\* The puts of bronze file and manifest that lie behind this phase.
ManifestIsPut == \/ pc \in Busy \ {"bronze", "manifest", "commit"}
                 \/ pc = "commit" /\ Kept(batch.records) # {}
BronzeIsPut   == ManifestIsPut \/ pc = "manifest"

\* The batch in work finds its own files under its keys, whatever an earlier
\* attempt has left there.
AccountInv ==
    /\ BronzeIsPut => /\ DatedKey \in DOMAIN bronze
                      /\ bronze[DatedKey] = [rows     |-> Kept(batch.records),
                                             checksum |-> batch.records]
    /\ ManifestIsPut => DatedKey \in DOMAIN manifests /\ manifests[DatedKey] = Manifest

\* A batch that is flushed has either nothing to put or nothing put yet.
LEMMA FlushPutsNothing ==
    ASSUME NEW a, Flush(a) PROVE ~BronzeIsPut'
<1>1. batch'.records = a.records
  BY DEF Flush, NoBatch
<1>2. \/ pc' = "commit" /\ Kept(batch'.records) = {}
      \/ pc' = "bronze"
  BY <1>1 DEF Flush
<1>3. ManifestIsPut' => \/ pc' \in Busy \ {"bronze", "manifest", "commit"}
                        \/ pc' = "commit" /\ Kept(batch'.records) # {}
  BY DEF ManifestIsPut, Busy, Phases
<1> QED  BY <1>2, <1>3 DEF BronzeIsPut

\* The remaining steps of process_completed_batch leave the files and the batch
\* alone, but for its features, which neither file holds.
LEMMA AccountKept ==
    ASSUME AccountInv, ManifestIsPut, UNCHANGED <<bronze, manifests>>,
           batch'.records = batch.records, batch'.offsets = batch.offsets,
           batch'.day = batch.day
    PROVE  AccountInv'
<1>1. /\ DatedKey' = DatedKey
      /\ Kept(batch'.records) = Kept(batch.records)
  BY DEF DatedKey, BatchId
<1>2. Manifest' = Manifest
  BY <1>1 DEF Manifest
<1>3. BronzeIsPut
  BY DEF BronzeIsPut
<1> QED  BY <1>1, <1>2, <1>3 DEF AccountInv

LEMMA NextAccountInv == IInv /\ AccountInv /\ [Next]_vars => AccountInv'
<1> SUFFICES ASSUME IInv, AccountInv, [Next]_vars PROVE AccountInv'
    OBVIOUS
<1>0. ASSUME ~BronzeIsPut' PROVE AccountInv'
  BY <1>0 DEF AccountInv, BronzeIsPut
<1>1. CASE UploadParquet
  <2>1. /\ pc' = "manifest" /\ batch' = batch
        /\ bronze' = Put(bronze, DatedKey, [rows     |-> Kept(batch.records),
                                            checksum |-> batch.records])
    BY <1>1 DEF UploadParquet, Step
  <2>2. DatedKey' = DatedKey /\ ~ManifestIsPut'
    BY <2>1 DEF DatedKey, BatchId, ManifestIsPut
  <2> QED  BY <2>1, <2>2 DEF AccountInv, Put
<1>2. CASE UploadManifest
  <2>1. /\ pc = "manifest" /\ batch' = batch /\ bronze' = bronze
        /\ manifests' = Put(manifests, DatedKey, Manifest)
    BY <1>2 DEF UploadManifest, Step
  <2>2. DatedKey' = DatedKey
    BY <2>1 DEF DatedKey, BatchId
  <2>3. Manifest' = Manifest
    BY <2>1, <2>2 DEF Manifest
  <2>4. BronzeIsPut
    BY <2>1 DEF BronzeIsPut
  <2> QED  BY <2>1, <2>2, <2>3, <2>4 DEF AccountInv, Put
<1>3. CASE ProjectManifest \/ UploadKillEvents \/ UploadPlayerMatch \/ UploadGold
           \/ PublishGoldReady
  <2>1. ManifestIsPut /\ UNCHANGED <<bronze, manifests>>
    BY <1>3 DEF ProjectManifest, UploadKillEvents, UploadPlayerMatch, UploadSilver,
       UploadGold, PublishGoldReady, Step, storeVars, ManifestIsPut, Busy, Phases
  <2>2. /\ batch'.records = batch.records /\ batch'.offsets = batch.offsets
        /\ batch'.day = batch.day
    <3>1. batch \in [offsets: Ranges, records: Seq(Messages), day: Nat, features: Features]
      BY DEF IInv, TypeOK
    <3>2. CASE ProjectManifest
      BY <3>1, <3>2 DEF ProjectManifest
    <3>3. CASE UNCHANGED batch
      BY <3>3
    <3> QED  BY <1>3, <3>2, <3>3 DEF UploadKillEvents, UploadPlayerMatch, UploadSilver,
             UploadGold, PublishGoldReady
  <2> QED  BY <2>1, <2>2, AccountKept
<1>4. CASE \E p \in Partitions : Receive(p)
  <2>1. PICK p \in Partitions : Receive(p)
    BY <1>4
  <2>2. CASE pc' = "receive"
    BY <2>2, <1>0 DEF BronzeIsPut, ManifestIsPut, Busy
  <2>3. CASE Flush(Push(acc, <<p, position[p]>>))
    BY <2>3, FlushPutsNothing, <1>0
  <2> QED  BY <2>1, <2>2, <2>3 DEF Receive
<1>5. CASE TimerFlush
  BY <1>5, FlushPutsNothing, <1>0 DEF TimerFlush
<1>6. CASE CommitPartitionOffsets \/ Restart \/ Die
  <2>1. pc' \in {"receive", "down"}
    BY <1>6 DEF CommitPartitionOffsets, Restart, Die, Step
  <2> QED  BY <2>1, <1>0 DEF BronzeIsPut, ManifestIsPut, Busy
<1>7. CASE IdlePoll \/ UNCHANGED vars
  <2>1. UNCHANGED <<pc, batch, bronze, manifests>>
    BY <1>7 DEF IdlePoll, vars, storeVars
  <2>2. /\ DatedKey' = DatedKey
        /\ BronzeIsPut' = BronzeIsPut /\ ManifestIsPut' = ManifestIsPut
    BY <2>1 DEF DatedKey, BatchId, BronzeIsPut, ManifestIsPut
  <2>3. Manifest' = Manifest
    BY <2>1, <2>2 DEF Manifest
  <2> QED  BY <2>1, <2>2, <2>3 DEF AccountInv
<1> QED  BY <1>1, <1>2, <1>3, <1>4, <1>5, <1>6, <1>7 DEF Next, Process

\* The counters come from three stages and add up: the duplicates are what is
\* valid and not in the file, and a batch holds each message of its ranges once.
LEMMA AccountAddsUp == IInv /\ AccountInv => ManifestAccountsForBatch
<1> SUFFICES ASSUME IInv, AccountInv, pc = "commit", Kept(batch.records) # {}
             PROVE  /\ DatedKey \in DOMAIN manifests
                    /\ manifests[DatedKey].data \in DOMAIN bronze
                    /\ manifests[DatedKey].checksum
                          = bronze[manifests[DatedKey].data].checksum
                    /\ manifests[DatedKey].valid - manifests[DatedKey].duplicate
                          = Cardinality(bronze[manifests[DatedKey].data].rows)
                    /\ manifests[DatedKey].total
                          = Cardinality({r \in Messages :
                                            InRange(r, manifests[DatedKey].offsets)})
    BY DEF ManifestAccountsForBatch
<1> DEFINE valid == Cardinality(ValidIndices(batch.records))
           unique == Cardinality(Kept(batch.records))
<1>1. /\ DatedKey \in DOMAIN bronze
      /\ bronze[DatedKey].rows = Kept(batch.records)
      /\ bronze[DatedKey].checksum = batch.records
      /\ DatedKey \in DOMAIN manifests /\ manifests[DatedKey] = Manifest
  BY DEF AccountInv, BronzeIsPut, ManifestIsPut
<1>2. pc \in Busy
  BY DEF Busy, Phases
<1>3. valid \in Nat /\ unique \in Nat
  <2>1. batch.records \in Seq(Messages)
    BY <1>2, BusyFacts
  <2>2. /\ ValidIndices(batch.records) \subseteq 1..Len(batch.records)
        /\ Len(batch.records) \in Nat
    BY <2>1 DEF ValidIndices
  <2>3. Kept(batch.records) \subseteq Gap /\ IsFiniteSet(Gap)
    BY <1>2, <2>1, KeptLemma, BusyFacts DEF Holds, IInv, GapInv, Busy
  <2>4. IsFiniteSet(1..Len(batch.records))
    BY <2>2, FS_Interval
  <2>5. IsFiniteSet(ValidIndices(batch.records)) /\ IsFiniteSet(Kept(batch.records))
    BY <2>2, <2>3, <2>4, FS_Subset
  <2> QED  BY <2>5, FS_CardinalityType
<1>4. /\ Manifest.data = DatedKey /\ Manifest.checksum = batch.records
      /\ Manifest.total = Len(batch.records) /\ Manifest.offsets = batch.offsets
      /\ Manifest.valid = valid /\ Manifest.duplicate = valid - unique
  BY DEF Manifest
<1>5. valid - (valid - unique) = unique
  <2> HIDE DEF valid, unique
  <2> QED  BY <1>3
<1>6. Len(batch.records) = Cardinality({r \in Messages : InRange(r, batch.offsets)})
  <2>1. Len(batch.records) = Cardinality(Gap) /\ batch.offsets = GapRanges
    BY <1>2, BusyFacts DEF Holds
  <2>2. {r \in Messages : InRange(r, GapRanges)} = Gap
    BY <1>2, BusyFacts, GapRangesLemma DEF Gap
  <2> QED  BY <2>1, <2>2
<1> HIDE DEF valid, unique
<1> QED  BY <1>1, <1>4, <1>5, <1>6 DEF unique

\* When a batch that has rows is committed, its manifest accounts for every
\* record of its ranges and every row of its bronze file, whatever earlier
\* attempts left under the same keys.
THEOREM SpecManifestAccountsForBatch == Spec => []ManifestAccountsForBatch
<1>1. Init => AccountInv
  BY DEF Init, AccountInv, BronzeIsPut, ManifestIsPut, Busy
<1>2. Spec => []AccountInv
  BY <1>1, NextAccountInv, SpecIInv, PTL DEF Spec
<1> QED  BY <1>2, AccountAddsUp, SpecIInv, PTL

-------------------------------------------------------------------------------
(* The streamer under rebalances (StreamerRebalance) *)

\* A rebalance breaks GapInv and StoreInv: the buffer outlives the move of the
\* position, so a batch may hold a message twice or leave one out, and two
\* batches of one id may differ.  RInv replaces them.

\* What is in memory, gathered or being processed.
Held == Elements(acc.records) \cup Elements(batch.records)

ShapeInv ==
    /\ committed \in [Partitions -> Nat] /\ position \in [Partitions -> Nat]
    /\ goldReady \in Seq([batch: Ranges, checksum: Features, manifest: Keys])
    /\ pc \in Phases
    /\ acc \in [records: Seq(Messages), offsets: Ranges, bytes: Nat]
    /\ batch \in [offsets: Ranges, records: Seq(Messages), day: Nat, features: Features]
    /\ day \in Nat /\ clock \in Nat
    /\ pc \in Busy <=> batch.records # <<>>
    /\ pc \notin Busy => batch = NoBatch
    /\ pc # "receive" => acc = EmptyAccumulator

\* The tracked ranges begin and end at a message that is held, and leave none
\* of their partition out.
TracksInv ==
    /\ \A r \in Held : r[1] \in DOMAIN InFlightOffsets
    /\ \A p \in DOMAIN InFlightOffsets :
          LET range == InFlightOffsets[p] IN
          /\ <<p, range.min>> \in Held
          /\ <<p, range.max>> \in Held
          /\ \A r \in Held : r[1] = p => r[2] \in range.min..range.max

\* What the batch in work has written under its own keys.
BatchEvents == EventsOf(Kept(batch.records))

WrittenInv ==
    /\ pc \in Busy \ {"bronze", "commit"} =>
          DatedKey \in DOMAIN bronze /\ EventsOf(bronze[DatedKey].rows) = BatchEvents
    /\ pc \in Busy \ {"bronze", "manifest", "commit"} =>
          DatedKey \in DOMAIN manifests /\ manifests[DatedKey].data = DatedKey
    /\ pc \in {"kill-events", "player-match", "gold"} => batch.features.events = BatchEvents
    /\ \A i \in DOMAIN goldReady : goldReady[i].batch \in DOMAIN gold
    /\ pc = "publish" => BatchId \in DOMAIN gold /\ gold[BatchId].events = BatchEvents
    /\ pc = "commit" => \/ Kept(batch.records) = {}
                        \/ /\ gold[BatchId].events = BatchEvents
                           /\ \E i \in DOMAIN goldReady : goldReady[i].batch = BatchId

\* Nothing that is read or committed from now on begins at or before o.
Passed(p, o) ==
    /\ o < committed[p]
    /\ pc # "down" => o < position[p]
    /\ p \in DOMAIN InFlightOffsets => o < InFlightOffsets[p].min

\* Nothing that is read or committed from now on ends at m without o in it.
Avoided(p, o, m) ==
    /\ committed[p] \notin (o + 1)..m
    /\ \/ <<p, o>> \in Held
       \/ /\ pc # "down" => position[p] \notin (o + 1)..m
          /\ \A r \in Held : r[1] = p => r[2] \notin o..m

\* An announced batch has the event of o, and no batch to come has its id and
\* lacks the event.
SecuredBy(id, p, o) ==
    /\ p \in DOMAIN id
    /\ id[p].min <= o /\ o <= id[p].max
    /\ EventOf(<<p, o>>) \in gold[id].events
    /\ Passed(p, o) \/ Avoided(p, o, id[p].max)

Secure(p, o) ==
    IsValid(<<p, o>>) => \E i \in DOMAIN goldReady : SecuredBy(goldReady[i].batch, p, o)

SecureInv ==
    \A p \in Partitions : \A o \in Nat :
        /\ o < committed[p] => Secure(p, o)
        /\ pc # "down" /\ o < position[p] => Secure(p, o) \/ <<p, o>> \in Held
        /\ p \in DOMAIN InFlightOffsets /\ o <= InFlightOffsets[p].max =>
               Secure(p, o) \/ <<p, o>> \in Held

RInv == ShapeInv /\ TracksInv /\ WrittenInv /\ SecureInv

-------------------------------------------------------------------------------
(* Facts about RInv *)

\* What the tracked ranges and the held messages are, by where they are.
LEMMA InFlightLemma ==
    ASSUME ShapeInv
    PROVE  /\ pc \in Busy => /\ Held = Elements(batch.records)
                             /\ InFlightOffsets = batch.offsets
           /\ pc \notin Busy => /\ Held = Elements(acc.records)
                                /\ InFlightOffsets = acc.offsets
           /\ pc = "down" => Held = {} /\ InFlightOffsets = EmptyMap
           /\ Held \subseteq Messages
           /\ InFlightOffsets \in Ranges
<1>1. Elements(<<>>) = {}
  BY DEF Elements
<1>2. /\ Elements(acc.records) \subseteq Messages
      /\ Elements(batch.records) \subseteq Messages
  BY DEF ShapeInv, Elements
<1>3. acc.offsets \in Ranges /\ batch.offsets \in Ranges
  BY DEF ShapeInv
<1>4. CASE pc \in Busy
  BY <1>1, <1>2, <1>3, <1>4 DEF ShapeInv, Held, InFlightOffsets, EmptyAccumulator, Busy
<1>5. CASE pc \notin Busy
  BY <1>1, <1>2, <1>3, <1>5 DEF ShapeInv, Held, InFlightOffsets, EmptyAccumulator, NoBatch
<1> QED  BY <1>4, <1>5

\* A range is a pair of offsets of a partition.
LEMMA RangesLemma ==
    \A id \in Ranges : \A p \in DOMAIN id :
        p \in Partitions /\ id[p].min \in Nat /\ id[p].max \in Nat
<1>1. Offsets \subseteq Nat
  BY DEF Offsets
<1> QED  BY <1>1 DEF Ranges

LEMMA AnnouncedType ==
    ShapeInv => \A i \in DOMAIN goldReady : goldReady[i].batch \in Ranges
<1> SUFFICES ASSUME ShapeInv, NEW i \in DOMAIN goldReady
             PROVE  goldReady[i].batch \in Ranges
    OBVIOUS
<1> DEFINE Message == [batch: Ranges, checksum: Features, manifest: Keys]
<1>1. goldReady \in Seq(Message)
  BY DEF ShapeInv
<1>2. goldReady[i] \in Message
  <2> HIDE DEF Message
  <2> QED  BY <1>1, ElementOfSeq, LenProperties
<1> QED  BY <1>2

\* Where the messages in memory are.
LEMMA TracksLemma ==
    ASSUME RInv
    PROVE  /\ \A p \in DOMAIN InFlightOffsets :
                 LET range == InFlightOffsets[p] IN
                 /\ p \in Partitions
                 /\ range.min \in Nat /\ range.max \in Nat /\ range.min <= range.max
                 /\ <<p, range.max>> \in Held
           /\ \A p, o : <<p, o>> \in Held =>
                 /\ p \in DOMAIN InFlightOffsets
                 /\ o \in Nat /\ InFlightOffsets[p].min <= o /\ o <= InFlightOffsets[p].max
<1>1. InFlightOffsets \in Ranges /\ Held \subseteq Messages
  BY InFlightLemma DEF RInv
<1>2. ASSUME NEW p, NEW o, <<p, o>> \in Held
      PROVE  /\ p \in DOMAIN InFlightOffsets
             /\ o \in InFlightOffsets[p].min..InFlightOffsets[p].max
             /\ o \in Nat
  <2>1. p \in DOMAIN InFlightOffsets
    BY <1>2 DEF RInv, TracksInv
  <2>2. \A r \in Held : r[1] = p => r[2] \in InFlightOffsets[p].min..InFlightOffsets[p].max
    BY <2>1 DEF RInv, TracksInv
  <2>3. <<p, o>> \in Messages
    BY <1>1, <1>2
  <2> QED  BY <1>2, <2>1, <2>2, <2>3, MessagesLemma
<1>3. ASSUME NEW p \in DOMAIN InFlightOffsets
      PROVE  /\ p \in Partitions
             /\ InFlightOffsets[p].min \in Nat /\ InFlightOffsets[p].max \in Nat
             /\ <<p, InFlightOffsets[p].max>> \in Held
  BY <1>1, RangesLemma DEF RInv, TracksInv
<1>4. ASSUME NEW p \in DOMAIN InFlightOffsets
      PROVE  InFlightOffsets[p].min <= InFlightOffsets[p].max
  <2>1. InFlightOffsets[p].max \in InFlightOffsets[p].min..InFlightOffsets[p].max
    BY <1>2, <1>3
  <2> QED  BY <1>3, <2>1
<1>5. ASSUME NEW p, NEW o, <<p, o>> \in Held
      PROVE  InFlightOffsets[p].min <= o /\ o <= InFlightOffsets[p].max
  BY <1>2, <1>3, <1>5
<1> QED  BY <1>2, <1>3, <1>4, <1>5

\* What was secure stays so when nothing that it depends on changes, or only
\* more is announced.
LEMMA SecureKept ==
    ASSUME SecureInv, UNCHANGED <<committed, position, gold>>,
           Held' = Held, InFlightOffsets' = InFlightOffsets,
           pc' = "down" <=> pc = "down",
           \A i \in DOMAIN goldReady : i \in DOMAIN goldReady' /\ goldReady'[i] = goldReady[i]
    PROVE  SecureInv'
<1>1. ASSUME NEW p, NEW o, Secure(p, o) PROVE Secure(p, o)'
  <2>1. Passed(p, o)' = Passed(p, o)
    BY DEF Passed
  <2>2. \A m : Avoided(p, o, m)' = Avoided(p, o, m)
    BY DEF Avoided
  <2>3. \A id : SecuredBy(id, p, o)' = SecuredBy(id, p, o)
    BY <2>1, <2>2 DEF SecuredBy
  <2> QED  BY <1>1, <2>3 DEF Secure, IsValid
<1> QED  BY <1>1 DEF SecureInv

-------------------------------------------------------------------------------
(* Every step preserves RInv *)

LEMMA InitRInv == Init => RInv
<1> SUFFICES ASSUME Init PROVE RInv
    OBVIOUS
<1> USE DEF Init
<1>1. ShapeInv
  BY EmptyTypes DEF ShapeInv, Busy, Phases, NoBatch, EmptyAccumulator
<1>2. Held = {} /\ InFlightOffsets = EmptyMap
  BY DEF Held, Elements, InFlightOffsets, EmptyAccumulator, NoBatch
<1>3. TracksInv
  BY <1>2 DEF TracksInv, EmptyMap
<1>4. WrittenInv
  BY DEF WrittenInv, Busy
<1>5. SecureInv
  BY <1>2 DEF SecureInv, EmptyMap
<1> QED  BY <1>1, <1>3, <1>4, <1>5 DEF RInv

\* The steps of process_completed_batch before the commit hold on to what is in
\* memory.
LEMMA BusyStep ==
    ASSUME RInv, NEW from \in Busy, NEW to \in Busy, Step(from, to),
           UNCHANGED committed,
           batch'.records = batch.records, batch'.offsets = batch.offsets,
           batch' \in [offsets: Ranges, records: Seq(Messages), day: Nat, features: Features],
           goldReady' \in Seq([batch: Ranges, checksum: Features, manifest: Keys]),
           clock' \in Nat
    PROVE  /\ ShapeInv' /\ TracksInv'
           /\ Held' = Held /\ InFlightOffsets' = InFlightOffsets
           /\ pc # "down" /\ pc' # "down"
<1>1. pc = from /\ pc' = to /\ UNCHANGED <<position, acc, day>>
  BY DEF Step
<1>2. ShapeInv'
  BY <1>1 DEF RInv, ShapeInv, Busy
<1>3. Held' = Held /\ InFlightOffsets' = InFlightOffsets
  BY <1>1 DEF Held, InFlightOffsets
<1>4. TracksInv'
  BY <1>3 DEF RInv, TracksInv
<1> QED  BY <1>1, <1>2, <1>3, <1>4 DEF Busy

LEMMA BatchEventsType ==
    ASSUME ShapeInv
    PROVE  BatchEvents \in SUBSET Events /\ Kept(batch.records) \in SUBSET Messages
<1>1. batch.records \in Seq(Messages)
  BY DEF ShapeInv
<1>2. Kept(batch.records) \subseteq Elements(batch.records)
  BY <1>1, KeptLemma
<1>3. Elements(batch.records) \subseteq Messages
  BY <1>1 DEF Elements
<1> QED  BY <1>2, <1>3, EventsOfType DEF BatchEvents

LEMMA RebalanceUploadParquet == RInv /\ UploadParquet => RInv'
<1> SUFFICES ASSUME RInv, UploadParquet PROVE RInv'
    OBVIOUS
<1>0. /\ pc = "bronze" /\ pc' = "manifest" /\ Step("bronze", "manifest")
      /\ UNCHANGED <<committed, position, goldReady, manifests, gold, batch, clock>>
  BY DEF UploadParquet, Step, kafkaVars
<1>1. /\ ShapeInv' /\ TracksInv'
      /\ Held' = Held /\ InFlightOffsets' = InFlightOffsets /\ pc # "down" /\ pc' # "down"
  <2>1. "bronze" \in Busy /\ "manifest" \in Busy
    BY DEF Busy, Phases
  <2> QED  BY <1>0, <2>1, BusyStep DEF RInv, ShapeInv
<1>2. WrittenInv'
  <2>1. DatedKey \in DOMAIN bronze' /\ bronze'[DatedKey].rows = Kept(batch.records)
    BY DEF UploadParquet, Put
  <2> QED  BY <1>0, <2>1 DEF RInv, WrittenInv, DatedKey, BatchId, BatchEvents
<1>3. SecureInv'
  BY <1>0, <1>1, SecureKept DEF RInv
<1> QED  BY <1>1, <1>2, <1>3 DEF RInv

LEMMA RebalanceUploadManifest == RInv /\ UploadManifest => RInv'
<1> SUFFICES ASSUME RInv, UploadManifest PROVE RInv'
    OBVIOUS
<1>0. /\ pc = "manifest" /\ pc' = "project" /\ Step("manifest", "project")
      /\ UNCHANGED <<committed, position, goldReady, bronze, gold, batch, clock>>
  BY DEF UploadManifest, Step, kafkaVars
<1>b. "manifest" \in Busy /\ "project" \in Busy
  BY DEF Busy, Phases
<1>1. /\ ShapeInv' /\ TracksInv'
      /\ Held' = Held /\ InFlightOffsets' = InFlightOffsets /\ pc # "down" /\ pc' # "down"
  BY <1>0, <1>b, BusyStep DEF RInv, ShapeInv
<1>2. WrittenInv'
  <2>1. DatedKey \in DOMAIN manifests' /\ manifests'[DatedKey].data = DatedKey
    BY DEF UploadManifest, Put, Manifest
  <2>2. DatedKey \in DOMAIN bronze /\ EventsOf(bronze[DatedKey].rows) = BatchEvents
    BY <1>0, <1>b DEF RInv, WrittenInv
  <2> QED  BY <1>0, <2>1, <2>2 DEF RInv, WrittenInv, DatedKey, BatchId, BatchEvents
<1>3. SecureInv'
  BY <1>0, <1>1, SecureKept DEF RInv
<1> QED  BY <1>1, <1>2, <1>3 DEF RInv

LEMMA RebalanceProjectManifest == RInv /\ ProjectManifest => RInv'
<1> SUFFICES ASSUME RInv, ProjectManifest PROVE RInv'
    OBVIOUS
<1>0. /\ pc = "project" /\ pc' = "kill-events" /\ Step("project", "kill-events")
      /\ UNCHANGED <<committed, position, goldReady, bronze, manifests, gold>>
      /\ clock' = clock + 1
  BY DEF ProjectManifest, Step, kafkaVars, storeVars
<1>b. "project" \in Busy /\ "kill-events" \in Busy
  BY DEF Busy, Phases
<1>2. /\ DatedKey \in DOMAIN bronze /\ EventsOf(bronze[DatedKey].rows) = BatchEvents
      /\ DatedKey \in DOMAIN manifests /\ manifests[DatedKey].data = DatedKey
  BY <1>0, <1>b DEF RInv, WrittenInv
<1>3. batch' = [batch EXCEPT !.features = [events |-> BatchEvents, stamp |-> clock]]
  BY <1>2 DEF ProjectManifest, GenerateGold, ProcessSilver
<1>4. /\ batch' \in [offsets: Ranges, records: Seq(Messages), day: Nat, features: Features]
      /\ batch'.records = batch.records /\ batch'.offsets = batch.offsets
      /\ batch'.day = batch.day
      /\ batch'.features.events = BatchEvents
  <2>1. [events |-> BatchEvents, stamp |-> clock] \in Features
    BY BatchEventsType DEF RInv, ShapeInv, Features
  <2>2. batch \in [offsets: Ranges, records: Seq(Messages), day: Nat, features: Features]
    BY DEF RInv, ShapeInv
  <2> QED  BY <1>3, <2>1, <2>2
<1>5. /\ ShapeInv' /\ TracksInv'
      /\ Held' = Held /\ InFlightOffsets' = InFlightOffsets /\ pc # "down" /\ pc' # "down"
  <2>1. clock' \in Nat
    BY <1>0 DEF RInv, ShapeInv
  <2> QED  BY <1>0, <1>b, <1>4, <2>1, BusyStep DEF RInv, ShapeInv
<1>6. WrittenInv'
  <2>1. DatedKey' = DatedKey /\ BatchEvents' = BatchEvents
    BY <1>4 DEF DatedKey, BatchId, BatchEvents
  <2> QED  BY <1>0, <1>2, <1>4, <2>1 DEF RInv, WrittenInv
<1>7. SecureInv'
  BY <1>0, <1>5, SecureKept DEF RInv
<1> QED  BY <1>5, <1>6, <1>7 DEF RInv

LEMMA RebalanceUploadSilver ==
    ASSUME RInv, NEW layer \in SilverLayers, NEW next \in {"player-match", "gold"},
           UploadSilver(layer, next)
    PROVE  RInv'
<1>0. /\ pc = layer /\ pc' = next /\ Step(layer, next)
      /\ UNCHANGED <<committed, position, goldReady, bronze, manifests, gold, batch, clock>>
  BY DEF UploadSilver, Step, kafkaVars
<1>b. layer \in Busy /\ next \in Busy
  BY DEF Busy, Phases, SilverLayers
<1>1. /\ ShapeInv' /\ TracksInv'
      /\ Held' = Held /\ InFlightOffsets' = InFlightOffsets /\ pc # "down" /\ pc' # "down"
  BY <1>0, <1>b, BusyStep DEF RInv, ShapeInv
<1>2. WrittenInv'
  <2>1. /\ DatedKey' = DatedKey /\ BatchEvents' = BatchEvents
        /\ pc \in {"kill-events", "player-match"}
    BY <1>0 DEF DatedKey, BatchId, BatchEvents, SilverLayers
  <2>2. /\ DatedKey \in DOMAIN bronze /\ EventsOf(bronze[DatedKey].rows) = BatchEvents
        /\ DatedKey \in DOMAIN manifests /\ manifests[DatedKey].data = DatedKey
        /\ batch.features.events = BatchEvents
    BY <2>1 DEF RInv, WrittenInv, Busy, Phases
  <2> QED  BY <1>0, <2>1, <2>2 DEF RInv, WrittenInv
<1>3. SecureInv'
  BY <1>0, <1>1, SecureKept DEF RInv
<1> QED  BY <1>1, <1>2, <1>3 DEF RInv

\* A batch in work holds the valid events of what is in memory.
LEMMA HeldEvents ==
    ASSUME ShapeInv, pc \in Busy, NEW r \in Held, IsValid(r)
    PROVE  EventOf(r) \in BatchEvents /\ Kept(batch.records) # {}
<1>1. batch.records \in Seq(Messages) /\ r \in Elements(batch.records)
  BY InFlightLemma DEF ShapeInv
<1>2. PICK k \in Kept(batch.records) : EventOf(k) = EventOf(r)
  BY <1>1, KeptLemma
<1> QED  BY <1>2 DEF BatchEvents, EventsOf

\* The put may replace a gold file that readers rely on, but then the message
\* they rely on it for is in the batch as well: a batch of the same id that lacks
\* it would have begun after it (Passed) or ended elsewhere (Avoided).
LEMMA RebalanceUploadGold == RInv /\ UploadGold => RInv'
<1> SUFFICES ASSUME RInv, UploadGold PROVE RInv'
    OBVIOUS
<1>0. /\ pc = "gold" /\ pc' = "publish" /\ Step("gold", "publish")
      /\ UNCHANGED <<committed, position, goldReady, bronze, manifests, batch, clock>>
  BY DEF UploadGold, Step, kafkaVars
<1>b. "gold" \in Busy /\ "publish" \in Busy
  BY DEF Busy, Phases
<1>1. /\ ShapeInv' /\ TracksInv'
      /\ Held' = Held /\ InFlightOffsets' = InFlightOffsets /\ pc # "down" /\ pc' # "down"
  BY <1>0, <1>b, BusyStep DEF RInv, ShapeInv
<1>2. /\ gold'[BatchId].events = BatchEvents
      /\ \A id \in DOMAIN gold : id # BatchId => gold'[id] = gold[id]
  BY <1>0 DEF UploadGold, Put, RInv, WrittenInv
<1>3. WrittenInv'
  <2>1. /\ DatedKey' = DatedKey /\ BatchEvents' = BatchEvents /\ BatchId' = BatchId
    BY <1>0 DEF DatedKey, BatchId, BatchEvents
  <2>2. /\ DatedKey \in DOMAIN bronze /\ EventsOf(bronze[DatedKey].rows) = BatchEvents
        /\ DatedKey \in DOMAIN manifests /\ manifests[DatedKey].data = DatedKey
    BY <1>0, <1>b DEF RInv, WrittenInv
  <2>3. BatchId \in DOMAIN gold' /\ DOMAIN gold \subseteq DOMAIN gold'
    BY DEF UploadGold, Put
  <2> QED  BY <1>0, <1>2, <2>1, <2>2, <2>3 DEF RInv, WrittenInv
<1>4. SecureInv'
  <2>1. ASSUME NEW p \in Partitions, NEW o \in Nat, Secure(p, o), IsValid(<<p, o>>)
        PROVE  \E i \in DOMAIN goldReady : SecuredBy(goldReady[i].batch, p, o)'
    <3>1. PICK i \in DOMAIN goldReady : SecuredBy(goldReady[i].batch, p, o)
      BY <2>1 DEF Secure
    <3> DEFINE id == goldReady[i].batch
    <3>2. Passed(p, o)' = Passed(p, o) /\ \A m : Avoided(p, o, m)' = Avoided(p, o, m)
      BY <1>0, <1>1 DEF Passed, Avoided
    <3>3. EventOf(<<p, o>>) \in gold'[id].events
      <4>1. CASE id # BatchId /\ id \in DOMAIN gold
        BY <1>2, <3>1, <4>1 DEF SecuredBy
      <4>2. CASE id = BatchId
        <5>1. InFlightOffsets = id
          BY <1>0, <1>b, <4>2, InFlightLemma DEF RInv, BatchId
        <5>2. <<p, o>> \in Held
          <6>1. /\ p \in DOMAIN id /\ id[p].min \in Nat /\ id[p].max \in Nat
                /\ id[p].min <= o /\ o <= id[p].max
                /\ <<p, id[p].max>> \in Held
            BY <3>1, <5>1, RangesLemma, InFlightLemma DEF SecuredBy, RInv, TracksInv
          <6>2. ~Passed(p, o)
            BY <5>1, <6>1 DEF Passed
          <6>3. id[p].max \in o..id[p].max
            BY <6>1
          <6>4. Avoided(p, o, id[p].max)
            BY <3>1, <6>2 DEF SecuredBy
          <6> QED  BY <6>1, <6>3, <6>4 DEF Avoided
        <5> QED  BY <1>0, <1>b, <1>2, <2>1, <4>2, <5>2, HeldEvents DEF RInv
      <4>3. id \in DOMAIN gold
        BY DEF RInv, WrittenInv
      <4> QED  BY <4>1, <4>2, <4>3
    <3> QED  BY <1>0, <3>1, <3>2, <3>3 DEF SecuredBy
  <2>2. ASSUME NEW p \in Partitions, NEW o \in Nat, Secure(p, o) PROVE Secure(p, o)'
    BY <1>0, <2>1, <2>2 DEF Secure, IsValid
  <2> QED  BY <1>0, <1>1, <2>2 DEF RInv, SecureInv
<1> QED  BY <1>1, <1>3, <1>4 DEF RInv

LEMMA RebalancePublishGoldReady == RInv /\ PublishGoldReady => RInv'
<1> SUFFICES ASSUME RInv, PublishGoldReady PROVE RInv'
    OBVIOUS
<1> DEFINE Message == [batch: Ranges, checksum: Features, manifest: Keys]
           m == [batch |-> BatchId, checksum |-> batch.features, manifest |-> DatedKey]
<1>0. /\ pc = "publish" /\ pc' = "commit" /\ Step("publish", "commit")
      /\ UNCHANGED <<committed, position, bronze, manifests, gold, batch, clock>>
      /\ goldReady' = Append(goldReady, m)
  BY DEF PublishGoldReady, Step, storeVars
<1>b. "publish" \in Busy /\ "commit" \in Busy
  BY DEF Busy, Phases
<1>1. m \in Message /\ goldReady \in Seq(Message)
  BY DEF RInv, ShapeInv, DatedKey, BatchId, Keys
<1>2. /\ goldReady' \in Seq(Message)
      /\ DOMAIN goldReady' = DOMAIN goldReady \cup {Len(goldReady) + 1}
      /\ goldReady'[Len(goldReady) + 1] = m
      /\ \A i \in DOMAIN goldReady : goldReady'[i] = goldReady[i]
  <2> HIDE DEF m, Message
  <2> QED  BY <1>0, <1>1, AppendProperties, LenProperties
<1>3. /\ ShapeInv' /\ TracksInv'
      /\ Held' = Held /\ InFlightOffsets' = InFlightOffsets /\ pc # "down" /\ pc' # "down"
  BY <1>0, <1>b, <1>2, BusyStep DEF RInv, ShapeInv
<1>4. WrittenInv'
  <2>1. BatchId' = BatchId /\ BatchEvents' = BatchEvents
    BY <1>0 DEF BatchId, BatchEvents
  <2>2. BatchId \in DOMAIN gold /\ gold[BatchId].events = BatchEvents
    BY <1>0 DEF RInv, WrittenInv
  <2>3. goldReady'[Len(goldReady) + 1].batch = BatchId
    BY <1>2
  <2> QED  BY <1>0, <1>2, <2>1, <2>2, <2>3 DEF RInv, WrittenInv
<1>5. SecureInv'
  BY <1>0, <1>2, <1>3, SecureKept DEF RInv
<1> QED  BY <1>3, <1>4, <1>5 DEF RInv

\* A commit secures whatever the batch holds, and disturbs nothing that was
\* secure: it ends where the batch ends.
LEMMA RebalanceCommit == RInv /\ CommitPartitionOffsets => RInv'
<1> SUFFICES ASSUME RInv, CommitPartitionOffsets PROVE RInv'
    OBVIOUS
<1> DEFINE id == batch.offsets
<1>0. /\ pc = "commit" /\ pc' = "receive"
      /\ UNCHANGED <<position, acc, day, goldReady, bronze, manifests, gold, clock>>
      /\ batch' = NoBatch
      /\ committed' = [p \in Partitions |->
                           IF p \in DOMAIN id THEN id[p].max + 1 ELSE committed[p]]
  BY DEF CommitPartitionOffsets, Step, storeVars
<1>b. pc \in Busy
  BY <1>0 DEF Busy, Phases
<1>1. /\ InFlightOffsets = id /\ id \in Ranges
      /\ Held = Elements(batch.records)
  BY <1>b, InFlightLemma DEF RInv
<1>2. \A p \in DOMAIN id : /\ p \in Partitions /\ id[p].min \in Nat /\ id[p].max \in Nat
                           /\ <<p, id[p].max>> \in Held
                           /\ id[p].min <= id[p].max
  BY <1>1, TracksLemma
<1>3. ShapeInv'
  <2>1. committed' \in [Partitions -> Nat]
    <3>1. \A p \in Partitions : committed[p] \in Nat
      BY DEF RInv, ShapeInv
    <3>2. ASSUME NEW p \in DOMAIN id PROVE id[p].max + 1 \in Nat
      <4>1. id[p].max \in Nat
        BY <1>2
      <4> QED  BY <4>1
    <3>3. \A p \in Partitions :
             (IF p \in DOMAIN id THEN id[p].max + 1 ELSE committed[p]) \in Nat
      BY <3>1, <3>2
    <3> HIDE DEF id
    <3> QED  BY <1>0, <3>3
  <2>2. acc = EmptyAccumulator
    BY <1>0 DEF RInv, ShapeInv
  <2>3. batch' = NoBatch /\ NoBatch.records = <<>>
    BY <1>0 DEF NoBatch
  <2> QED  BY <1>0, <2>1, <2>2, <2>3, EmptyTypes DEF RInv, ShapeInv, Busy, Phases
<1>4. Held' = {} /\ InFlightOffsets' = EmptyMap
  <2>1. acc' = EmptyAccumulator
    BY <1>0 DEF RInv, ShapeInv
  <2> QED  BY <1>0, <2>1 DEF Held, InFlightOffsets, EmptyAccumulator, NoBatch, Elements
<1>5. TracksInv'
  BY <1>4 DEF TracksInv, EmptyMap
<1>6. WrittenInv'
  BY <1>0 DEF RInv, WrittenInv, Busy, Phases
<1>7. ASSUME NEW p \in Partitions, NEW o \in Nat, IsValid(<<p, o>>), <<p, o>> \in Held
      PROVE  Secure(p, o)'
  <2>1. PICK i \in DOMAIN goldReady : goldReady[i].batch = id
    BY <1>0, <1>b, <1>7, HeldEvents DEF RInv, WrittenInv, BatchId
  <2>2. EventOf(<<p, o>>) \in gold[id].events
    BY <1>0, <1>b, <1>7, HeldEvents DEF RInv, WrittenInv, BatchId
  <2>3. p \in DOMAIN id /\ id[p].min <= o /\ o <= id[p].max
    BY <1>1, <1>7, TracksLemma
  <2>4. committed'[p] = id[p].max + 1
    BY <1>0, <2>3
  <2> DEFINE m == goldReady[i].batch[p].max
  <2>5. Passed(p, o)' \/ Avoided(p, o, m)'
    <3>1. position[p] \in Nat /\ m \in Nat /\ m' = m /\ committed'[p] = m + 1
      BY <1>0, <1>2, <2>1, <2>3, <2>4 DEF RInv, ShapeInv
    <3>2. CASE o < position[p]
      <4>1. o < committed'[p]
        BY <2>1, <2>3, <3>1
      <4> QED  BY <1>0, <1>4, <3>2, <4>1 DEF Passed, EmptyMap
    <3>3. CASE ~(o < position[p])
      <4>1. committed'[p] \notin (o + 1)..m /\ position[p] \notin (o + 1)..m
        <5> HIDE DEF m
        <5> QED  BY <3>1, <3>3
      <4> QED  BY <1>0, <1>4, <3>1, <4>1 DEF Avoided
    <3> QED  BY <3>2, <3>3
  <2>6. SecuredBy(goldReady[i].batch, p, o)'
    BY <1>0, <2>1, <2>2, <2>3, <2>5 DEF SecuredBy
  <2> QED  BY <1>0, <2>1, <2>6 DEF Secure
<1>8. ASSUME NEW p \in Partitions, NEW o \in Nat, Secure(p, o) PROVE Secure(p, o)'
  <2>1. SUFFICES ASSUME IsValid(<<p, o>>), <<p, o>> \notin Held,
                        NEW i \in DOMAIN goldReady, SecuredBy(goldReady[i].batch, p, o)
                 PROVE  SecuredBy(goldReady[i].batch, p, o)'
    BY <1>0, <1>7, <1>8 DEF Secure, IsValid
  <2> DEFINE m == goldReady[i].batch[p].max
  <2>2. /\ committed[p] \in Nat /\ position[p] \in Nat
    BY DEF RInv, ShapeInv
  <2>3. CASE Passed(p, o)
    <3>1. o < committed'[p]
      <4>1. CASE p \in DOMAIN id
        <5>1. committed'[p] = id[p].max + 1 /\ o < id[p].min
          BY <1>0, <1>1, <2>3, <4>1 DEF Passed
        <5>2. id[p].min \in Nat /\ id[p].max \in Nat /\ id[p].min <= id[p].max
          BY <1>2, <4>1
        <5> QED  BY <5>1, <5>2
      <4>2. CASE p \notin DOMAIN id
        BY <1>0, <2>3, <4>2 DEF Passed
      <4> QED  BY <4>1, <4>2
    <3>2. o < position[p]
      BY <1>0, <2>3 DEF Passed
    <3>3. Passed(p, o)'
      BY <1>0, <1>4, <3>1, <3>2 DEF Passed, EmptyMap
    <3> QED  BY <1>0, <2>1, <3>3 DEF SecuredBy
  <2>4. CASE Avoided(p, o, m)
    <3>1. m \in Nat
      <4>1. goldReady[i].batch \in Ranges
        BY AnnouncedType DEF RInv
      <4> QED  BY <2>1, <4>1, RangesLemma DEF SecuredBy
    <3>2. committed'[p] \notin (o + 1)..m
      <4>1. CASE p \in DOMAIN id
        <5>1. id[p].max \notin o..m
          BY <1>2, <2>1, <2>4, <4>1 DEF Avoided
        <5>2. committed'[p] = id[p].max + 1 /\ id[p].max \in Nat
          BY <1>0, <1>2, <4>1
        <5> QED  BY <3>1, <5>1, <5>2
      <4>2. CASE p \notin DOMAIN id
        BY <1>0, <2>4, <4>2 DEF Avoided
      <4> QED  BY <4>1, <4>2
    <3>3. Avoided(p, o, m)'
      BY <1>0, <1>4, <2>1, <2>4, <3>2 DEF Avoided
    <3> QED  BY <1>0, <2>1, <3>3 DEF SecuredBy
  <2> QED  BY <2>1, <2>3, <2>4 DEF SecuredBy
<1>9. SecureInv'
  <2> SUFFICES ASSUME NEW p \in Partitions, NEW o \in Nat
               PROVE  /\ o < committed'[p] => Secure(p, o)'
                      /\ o < position[p] => Secure(p, o)'
    BY <1>0, <1>4 DEF SecureInv, EmptyMap
  <2>1. \/ Secure(p, o) \/ <<p, o>> \in Held => Secure(p, o)'
    BY <1>0, <1>7, <1>8 DEF Secure, IsValid
  <2>2. o < position[p] => Secure(p, o) \/ <<p, o>> \in Held
    BY <1>0 DEF RInv, SecureInv
  <2>3. o < committed'[p] => Secure(p, o) \/ <<p, o>> \in Held
    <3>1. CASE p \in DOMAIN id
      <4>1. o < committed'[p] => o <= id[p].max
        <5>1. committed'[p] = id[p].max + 1 /\ id[p].max \in Nat
          BY <1>0, <1>2, <3>1
        <5> QED  BY <5>1
      <4> QED  BY <1>1, <3>1, <4>1 DEF RInv, SecureInv
    <3>2. CASE p \notin DOMAIN id
      BY <1>0, <3>2 DEF RInv, SecureInv
    <3> QED  BY <3>1, <3>2
  <2> QED  BY <2>1, <2>2, <2>3
<1> QED  BY <1>3, <1>5, <1>6, <1>9 DEF RInv

\* What a flush hands over is what was gathered.
LEMMA FlushShape ==
    ASSUME ShapeInv, pc = "receive",
           NEW a, a \in [records: Seq(Messages), offsets: Ranges, bytes: Nat],
           a.records # <<>>, Flush(a)
    PROVE  /\ acc' = EmptyAccumulator
           /\ batch' \in [offsets: Ranges, records: Seq(Messages), day: Nat,
                          features: Features]
           /\ batch'.records = a.records /\ batch'.offsets = a.offsets
           /\ day' \in Nat
           /\ pc' \in {"commit", "bronze"}
           /\ pc' = "commit" => Kept(batch'.records) = {}
<1>1. /\ acc' = EmptyAccumulator
      /\ day' \in day..MaxDay
      /\ batch' = [offsets |-> a.offsets, records |-> a.records, day |-> day',
                   features |-> NoFeatures]
      /\ pc' = IF Kept(a.records) = {} THEN "commit" ELSE "bronze"
  BY DEF Flush, NoBatch
<1>2. day' \in Nat
  BY <1>1, LimitsAssumption DEF ShapeInv
<1> QED  BY <1>1, <1>2, EmptyTypes

\* The memory after a step of the receive phase whose accumulator was a before
\* it was flushed, if it was.
Gathered(a) ==
    \/ acc' = a /\ UNCHANGED <<pc, batch, day>>
    \/ Flush(a)

LEMMA GatheredShape ==
    ASSUME RInv, pc = "receive",
           NEW a, a \in [records: Seq(Messages), offsets: Ranges, bytes: Nat],
           a.records # <<>>, Gathered(a),
           position' \in [Partitions -> Nat],
           UNCHANGED <<committed, goldReady, bronze, manifests, gold, clock>>
    PROVE  /\ ShapeInv' /\ WrittenInv'
           /\ Held' = Elements(a.records) /\ InFlightOffsets' = a.offsets
           /\ pc' # "down"
<1>0. batch = NoBatch /\ batch.records = <<>> /\ Elements(<<>>) = {}
  BY DEF RInv, ShapeInv, Busy, NoBatch, Elements
<1>1. CASE acc' = a /\ UNCHANGED <<pc, batch, day>>
  <2>1. ShapeInv'
    BY <1>0, <1>1 DEF RInv, ShapeInv
  <2>2. WrittenInv'
    BY <1>1 DEF RInv, WrittenInv, Busy, Phases
  <2>3. Held' = Elements(a.records) /\ InFlightOffsets' = a.offsets
    BY <1>0, <1>1 DEF Held, InFlightOffsets
  <2> QED  BY <1>1, <2>1, <2>2, <2>3
<1>2. CASE Flush(a)
  <2>1. /\ acc' = EmptyAccumulator
        /\ batch' \in [offsets: Ranges, records: Seq(Messages), day: Nat,
                       features: Features]
        /\ batch'.records = a.records /\ batch'.offsets = a.offsets
        /\ day' \in Nat
        /\ pc' \in {"commit", "bronze"}
        /\ pc' = "commit" => Kept(batch'.records) = {}
    BY <1>2, FlushShape DEF RInv
  <2>2. ShapeInv'
    BY <2>1, EmptyTypes DEF RInv, ShapeInv, Busy, Phases
  <2>3. WrittenInv'
    BY <2>1 DEF RInv, WrittenInv, Busy, Phases
  <2>4. Held' = Elements(a.records) /\ InFlightOffsets' = a.offsets
    BY <1>0, <2>1 DEF Held, InFlightOffsets, EmptyAccumulator
  <2> QED  BY <2>1, <2>2, <2>3, <2>4
<1> QED  BY <1>1, <1>2 DEF Gathered

LEMMA RebalanceTimerFlush == RInv /\ TimerFlush => RInv'
<1> SUFFICES ASSUME RInv, TimerFlush PROVE RInv'
    OBVIOUS
<1>0. /\ pc = "receive" /\ acc.records # <<>> /\ Gathered(acc)
      /\ UNCHANGED <<committed, goldReady, bronze, manifests, gold, position, clock>>
  BY DEF TimerFlush, Gathered, kafkaVars, storeVars
<1>1. /\ ShapeInv' /\ WrittenInv'
      /\ Held' = Elements(acc.records) /\ InFlightOffsets' = acc.offsets
      /\ pc' # "down"
  <2>1. acc \in [records: Seq(Messages), offsets: Ranges, bytes: Nat]
    BY DEF RInv, ShapeInv
  <2>2. position' \in [Partitions -> Nat]
    BY <1>0 DEF RInv, ShapeInv
  <2> QED  BY <1>0, <2>1, <2>2, GatheredShape
<1>2. Held' = Held /\ InFlightOffsets' = InFlightOffsets
  BY <1>0, <1>1, InFlightLemma DEF RInv, Busy
<1>3. TracksInv'
  BY <1>2 DEF RInv, TracksInv
<1>4. SecureInv'
  BY <1>0, <1>1, <1>2, SecureKept DEF RInv
<1> QED  BY <1>1, <1>3, <1>4 DEF RInv

LEMMA RebalanceDie == RInv /\ Die => RInv'
<1> SUFFICES ASSUME RInv, Die PROVE RInv'
    OBVIOUS
<1>0. /\ pc' = "down" /\ acc' = EmptyAccumulator /\ batch' = NoBatch
      /\ UNCHANGED <<committed, goldReady, bronze, manifests, gold, position, day, clock>>
  BY DEF Die, kafkaVars, storeVars
<1>1. ShapeInv'
  <2>1. NoBatch.records = <<>>
    BY DEF NoBatch
  <2> QED  BY <1>0, <2>1, EmptyTypes DEF RInv, ShapeInv, Busy, Phases
<1>2. Held' = {} /\ InFlightOffsets' = EmptyMap
  BY <1>0 DEF Held, InFlightOffsets, EmptyAccumulator, NoBatch, Elements
<1>3. TracksInv' /\ WrittenInv'
  BY <1>0, <1>2 DEF RInv, TracksInv, WrittenInv, EmptyMap, Busy
<1>4. ASSUME NEW p, NEW o, Secure(p, o) PROVE Secure(p, o)'
  <2>1. Passed(p, o) => Passed(p, o)'
    BY <1>0, <1>2 DEF Passed, EmptyMap
  <2>2. \A m : Avoided(p, o, m) => Avoided(p, o, m)'
    BY <1>0, <1>2 DEF Avoided
  <2>3. \A id : SecuredBy(id, p, o) => SecuredBy(id, p, o)'
    BY <1>0, <2>1, <2>2 DEF SecuredBy
  <2> QED  BY <1>0, <1>4, <2>3 DEF Secure, IsValid
<1>5. SecureInv'
  BY <1>0, <1>2, <1>4 DEF RInv, SecureInv, EmptyMap
<1> QED  BY <1>1, <1>3, <1>5 DEF RInv

\* The consumer goes on from the committed offsets: after a restart with an empty
\* memory, after a rebalance with the memory it had.
LEMMA SecureAtCommitted ==
    ASSUME RInv, pc' = "receive", position' = committed,
           UNCHANGED <<committed, goldReady, gold>>,
           Held' = Held, InFlightOffsets' = InFlightOffsets
    PROVE  SecureInv'
<1>1. ASSUME NEW p, NEW o, Secure(p, o) PROVE Secure(p, o)'
  <2>1. Passed(p, o) => Passed(p, o)'
    BY DEF Passed
  <2>2. \A m : Avoided(p, o, m) => Avoided(p, o, m)'
    BY DEF Avoided
  <2>3. \A id : SecuredBy(id, p, o) => SecuredBy(id, p, o)'
    BY <2>1, <2>2 DEF SecuredBy
  <2> QED  BY <1>1, <2>3 DEF Secure, IsValid
<1>2. ASSUME NEW p \in Partitions, NEW o \in Nat
      PROVE  /\ o < committed[p] => Secure(p, o)'
             /\ o < position'[p] => Secure(p, o)'
  BY <1>1 DEF RInv, SecureInv
<1>3. pc # "down" \/ (Held = {} /\ InFlightOffsets = EmptyMap)
  BY InFlightLemma DEF RInv
<1> QED  BY <1>1, <1>2, <1>3 DEF RInv, SecureInv, EmptyMap

LEMMA RebalanceRestart == RInv /\ Restart => RInv'
<1> SUFFICES ASSUME RInv, Restart PROVE RInv'
    OBVIOUS
<1>0. /\ pc = "down" /\ pc' = "receive" /\ position' = committed
      /\ UNCHANGED <<committed, goldReady, bronze, manifests, gold, acc, batch, day, clock>>
  BY DEF Restart, kafkaVars, storeVars, envVars
<1>1. ShapeInv' /\ WrittenInv'
  BY <1>0 DEF RInv, ShapeInv, WrittenInv, Busy, Phases
<1>2. Held' = Held /\ InFlightOffsets' = InFlightOffsets
  BY <1>0 DEF Held, InFlightOffsets
<1>3. TracksInv' /\ SecureInv'
  BY <1>0, <1>2, SecureAtCommitted DEF RInv, TracksInv
<1> QED  BY <1>1, <1>3 DEF RInv

LEMMA RebalanceStep == RInv /\ Rebalance => RInv'
<1> SUFFICES ASSUME RInv, Rebalance PROVE RInv'
    OBVIOUS
<1>0. /\ pc = "receive" /\ pc' = "receive" /\ position' = committed
      /\ UNCHANGED <<committed, goldReady, bronze, manifests, gold, acc, batch, day, clock>>
  BY DEF Rebalance, kafkaVars, storeVars, envVars
<1>1. ShapeInv' /\ WrittenInv'
  BY <1>0 DEF RInv, ShapeInv, WrittenInv, Busy, Phases
<1>2. Held' = Held /\ InFlightOffsets' = InFlightOffsets
  BY <1>0 DEF Held, InFlightOffsets
<1>3. TracksInv' /\ SecureInv'
  BY <1>0, <1>2, SecureAtCommitted DEF RInv, TracksInv
<1> QED  BY <1>1, <1>3 DEF RInv

\* A tracked range is widened by a message of its partition.
LEMMA TrackLemma ==
    ASSUME NEW offsets \in Ranges, NEW p \in Partitions, NEW o \in 0..(EndOffset(p) - 1)
    PROVE  LET wider == TrackPartitionOffset(offsets, p, o) IN
           /\ wider \in Ranges
           /\ DOMAIN wider = DOMAIN offsets \cup {p}
           /\ \A q \in DOMAIN offsets : q # p => wider[q] = offsets[q]
           /\ p \notin DOMAIN offsets => wider[p].min = o /\ wider[p].max = o
           /\ p \in DOMAIN offsets =>
                 /\ wider[p].min = IF o < offsets[p].min THEN o ELSE offsets[p].min
                 /\ wider[p].max = IF o > offsets[p].max THEN o ELSE offsets[p].max
<1> DEFINE range == IF p \notin DOMAIN offsets THEN [min |-> o, max |-> o]
                    ELSE [min |-> IF o < offsets[p].min THEN o ELSE offsets[p].min,
                          max |-> IF o > offsets[p].max THEN o ELSE offsets[p].max]
           wider == [q \in DOMAIN offsets \cup {p} |->
                        IF q = p THEN range ELSE offsets[q]]
<1>1. TrackPartitionOffset(offsets, p, o) = wider
  BY DEF TrackPartitionOffset, Put
<1>2. /\ offsets \in [DOMAIN offsets -> [min: Offsets, max: Offsets]]
      /\ DOMAIN offsets \subseteq Partitions
  BY DEF Ranges
<1>3. o \in Offsets
  BY DEF Offsets
<1>4. range \in [min: Offsets, max: Offsets]
  BY <1>2, <1>3
<1>5. wider \in [DOMAIN offsets \cup {p} -> [min: Offsets, max: Offsets]]
  <2> HIDE DEF range
  <2> QED  BY <1>2, <1>4
<1>6. wider \in Ranges
  <2>1. DOMAIN offsets \cup {p} \in SUBSET Partitions
    BY <1>2
  <2> HIDE DEF wider
  <2> QED  BY <1>5, <2>1 DEF Ranges
<1>7. /\ DOMAIN wider = DOMAIN offsets \cup {p}
      /\ \A q \in DOMAIN offsets : q # p => wider[q] = offsets[q]
      /\ wider[p] = range
  <2> HIDE DEF range
  <2> QED  OBVIOUS
<1>8. /\ p \notin DOMAIN offsets => range.min = o /\ range.max = o
      /\ p \in DOMAIN offsets =>
            /\ range.min = IF o < offsets[p].min THEN o ELSE offsets[p].min
            /\ range.max = IF o > offsets[p].max THEN o ELSE offsets[p].max
  OBVIOUS
<1> HIDE DEF range, wider
<1> QED  BY <1>1, <1>6, <1>7, <1>8

\* One message more in the accumulator.
LEMMA PushLemma ==
    ASSUME NEW a \in [records: Seq(Messages), offsets: Ranges, bytes: Nat],
           NEW r \in Messages
    PROVE  /\ Push(a, r) \in [records: Seq(Messages), offsets: Ranges, bytes: Nat]
           /\ Push(a, r).records # <<>>
           /\ Elements(Push(a, r).records) = Elements(a.records) \cup {r}
           /\ Push(a, r).offsets = TrackPartitionOffset(a.offsets, r[1], r[2])
<1>1. Push(a, r) = [records |-> Append(a.records, r),
                    offsets |-> TrackPartitionOffset(a.offsets, r[1], r[2]),
                    bytes   |-> a.bytes + MessageAt(r).bytes]
  BY DEF Push
<1>2. TrackPartitionOffset(a.offsets, r[1], r[2]) \in Ranges
  BY TrackLemma, MessageIsPair
<1>3. a.bytes + MessageAt(r).bytes \in Nat
  BY MessageType
<1>4. a.records \in Seq(Messages)
  OBVIOUS
<1>5. /\ Append(a.records, r) \in Seq(Messages) /\ Append(a.records, r) # <<>>
      /\ Elements(Append(a.records, r)) = Elements(a.records) \cup {r}
  BY <1>4, AppendProperties, LenProperties DEF Elements
<1> QED  BY <1>1, <1>2, <1>3, <1>5

LEMMA RebalanceReceive ==
    ASSUME RInv, NEW p \in Partitions, NEW o, o = position[p], Receive(p)
    PROVE  RInv'
<1> DEFINE a == Push(acc, <<p, o>>)
<1>0. /\ pc = "receive" /\ o < EndOffset(p)
      /\ position' = [position EXCEPT ![p] = @ + 1]
      /\ UNCHANGED <<committed, goldReady, bronze, manifests, gold, clock>>
      /\ Gathered(a)
  BY DEF Receive, Gathered, kafkaVars, storeVars
<1>1. /\ position \in [Partitions -> Nat] /\ committed \in [Partitions -> Nat]
      /\ acc \in [records: Seq(Messages), offsets: Ranges, bytes: Nat]
  BY DEF RInv, ShapeInv
<1>2. o \in Nat /\ <<p, o>> \in Messages /\ o \in 0..(EndOffset(p) - 1)
  BY <1>0, <1>1, MessagesLemma, EndOffsetType
<1>3. /\ a \in [records: Seq(Messages), offsets: Ranges, bytes: Nat]
      /\ a.records # <<>>
      /\ Elements(a.records) = Elements(acc.records) \cup {<<p, o>>}
      /\ a.offsets = TrackPartitionOffset(acc.offsets, p, o)
  <2>1. \A r \in Messages :
           /\ Push(acc, r) \in [records: Seq(Messages), offsets: Ranges, bytes: Nat]
           /\ Push(acc, r).records # <<>>
           /\ Elements(Push(acc, r).records) = Elements(acc.records) \cup {r}
           /\ Push(acc, r).offsets = TrackPartitionOffset(acc.offsets, r[1], r[2])
    BY <1>1, PushLemma
  <2>2. <<p, o>>[1] = p /\ <<p, o>>[2] = o
    OBVIOUS
  <2> QED  BY <1>2, <2>1, <2>2
<1>4. position' \in [Partitions -> Nat]
  BY <1>0, <1>1
<1>5. /\ ShapeInv' /\ WrittenInv' /\ pc' # "down"
      /\ Held' = Elements(a.records) /\ InFlightOffsets' = a.offsets
  <2> HIDE DEF a
  <2> QED  BY <1>0, <1>3, <1>4, GatheredShape
<1>6. /\ Held' = Held \cup {<<p, o>>}
      /\ InFlightOffsets' = TrackPartitionOffset(InFlightOffsets, p, o)
  <2>1. Held = Elements(acc.records) /\ InFlightOffsets = acc.offsets
    BY <1>0, InFlightLemma DEF RInv, Busy
  <2> HIDE DEF a
  <2> QED  BY <1>3, <1>5, <2>1
<1> HIDE DEF a
<1>7. /\ DOMAIN InFlightOffsets' = DOMAIN InFlightOffsets \cup {p}
      /\ \A q \in DOMAIN InFlightOffsets :
            q # p => InFlightOffsets'[q] = InFlightOffsets[q]
      /\ p \notin DOMAIN InFlightOffsets =>
            InFlightOffsets'[p].min = o /\ InFlightOffsets'[p].max = o
      /\ p \in DOMAIN InFlightOffsets =>
            /\ InFlightOffsets'[p].min =
                  IF o < InFlightOffsets[p].min THEN o ELSE InFlightOffsets[p].min
            /\ InFlightOffsets'[p].max =
                  IF o > InFlightOffsets[p].max THEN o ELSE InFlightOffsets[p].max
  <2>1. InFlightOffsets \in Ranges
    BY InFlightLemma DEF RInv
  <2> QED  BY <1>2, <1>6, <2>1, TrackLemma
<1>8. TracksInv'
  <2>1. \A r \in Held' : r[1] \in DOMAIN InFlightOffsets'
    BY <1>6, <1>7 DEF RInv, TracksInv
  <2>2. ASSUME NEW q \in DOMAIN InFlightOffsets'
        PROVE  /\ <<q, InFlightOffsets'[q].min>> \in Held'
               /\ <<q, InFlightOffsets'[q].max>> \in Held'
               /\ \A r \in Held' : r[1] = q =>
                     r[2] \in InFlightOffsets'[q].min..InFlightOffsets'[q].max
    <3>1. CASE q # p
      <4>1. q \in DOMAIN InFlightOffsets /\ InFlightOffsets'[q] = InFlightOffsets[q]
        BY <1>7, <3>1
      <4> QED  BY <1>6, <3>1, <4>1 DEF RInv, TracksInv
    <3>2. CASE q = p /\ p \notin DOMAIN InFlightOffsets
      <4>1. \A r \in Held' : r[1] = p => r = <<p, o>>
        BY <1>6, <3>2 DEF RInv, TracksInv
      <4> QED  BY <1>2, <1>6, <1>7, <3>2, <4>1
    <3>3. CASE q = p /\ p \in DOMAIN InFlightOffsets
      <4> DEFINE range == InFlightOffsets[p]
      <4>1. /\ <<p, range.min>> \in Held /\ <<p, range.max>> \in Held
            /\ \A r \in Held : r[1] = p => r[2] \in range.min..range.max
        BY <3>3 DEF RInv, TracksInv
      <4>2. range.min \in Nat /\ range.max \in Nat
        BY <3>3, TracksLemma
      <4>3. \A r \in Held' : r[1] = p => r[2] = o \/ r[2] \in range.min..range.max
        BY <1>6, <4>1
      <4>4. /\ InFlightOffsets'[p].min = IF o < range.min THEN o ELSE range.min
            /\ InFlightOffsets'[p].max = IF o > range.max THEN o ELSE range.max
        BY <1>7, <3>3
      <4> HIDE DEF range
      <4>5. \A r \in Held' : r[1] = p =>
               r[2] \in InFlightOffsets'[p].min..InFlightOffsets'[p].max
        BY <1>2, <4>2, <4>3, <4>4
      <4> QED  BY <1>6, <3>3, <4>1, <4>4, <4>5
    <3> QED  BY <3>1, <3>2, <3>3
  <2> QED  BY <2>1, <2>2 DEF TracksInv
<1>9. ASSUME NEW q \in Partitions, NEW n \in Nat, Secure(q, n)
      PROVE  Secure(q, n)'
  <2>1. SUFFICES ASSUME NEW i \in DOMAIN goldReady, SecuredBy(goldReady[i].batch, q, n)
                 PROVE  SecuredBy(goldReady[i].batch, q, n)'
    BY <1>0, <1>9 DEF Secure, IsValid
  <2> DEFINE end == goldReady[i].batch[q].max
  <2>2. end \in Nat /\ n <= end
    BY <2>1, AnnouncedType, RangesLemma DEF RInv, SecuredBy
  <2>3. CASE q # p
    <3>1. position'[q] = position[q]
      BY <1>0, <1>1, <2>3
    <3>2. Passed(q, n) => Passed(q, n)'
      BY <1>0, <1>5, <1>7, <2>3, <3>1 DEF Passed
    <3>3. Avoided(q, n, end) => Avoided(q, n, end)'
      <4>1. \A r \in Held' : r[1] = q => r \in Held
        <5>1. <<p, o>>[1] # q
          BY <2>3
        <5> QED  BY <1>6, <5>1
      <4>2. <<q, n>> \in Held => <<q, n>> \in Held'
        BY <1>6
      <4>3. end' = end
        BY <1>0
      <4> HIDE DEF end
      <4> QED  BY <1>0, <1>5, <3>1, <4>1, <4>2, <4>3 DEF Avoided
    <3> QED  BY <1>0, <2>1, <3>2, <3>3 DEF SecuredBy
  <2>4. CASE q = p
    <3>1. position'[p] = o + 1
      BY <1>0, <1>1
    <3>2. ASSUME Passed(p, n) PROVE Passed(p, n)'
      <4>1. n < committed[p] /\ n < o
        BY <1>0, <3>2 DEF Passed
      <4>2. n < InFlightOffsets'[p].min
        BY <1>7, <3>2, <4>1 DEF Passed
      <4> QED  BY <1>0, <1>2, <3>1, <4>1, <4>2 DEF Passed
    <3>3. ASSUME Avoided(p, n, end) PROVE Avoided(p, n, end)'
      <4>1. CASE <<p, n>> \in Held \/ n = o
        BY <1>0, <1>6, <3>3, <4>1 DEF Avoided
      <4>2. CASE <<p, n>> \notin Held /\ n # o
        <5>1. /\ o \notin (n + 1)..end
              /\ \A r \in Held : r[1] = p => r[2] \notin n..end
          BY <1>0, <3>3, <4>2 DEF Avoided
        <5>2. o + 1 \notin (n + 1)..end /\ o \notin n..end
          <6> HIDE DEF end
          <6> QED  BY <1>2, <2>2, <4>2, <5>1
        <5>3. \A r \in Held' : r[1] = p => r[2] \notin n..end
          BY <1>6, <5>1, <5>2
        <5> QED  BY <1>0, <3>1, <3>3, <5>2, <5>3 DEF Avoided
      <4> QED  BY <4>1, <4>2
    <3> QED  BY <1>0, <2>1, <2>4, <3>2, <3>3 DEF SecuredBy
  <2> QED  BY <2>3, <2>4
<1>10. SecureInv'
  <2> SUFFICES ASSUME NEW q \in Partitions, NEW n \in Nat
               PROVE  /\ n < committed'[q] => Secure(q, n)'
                      /\ n < position'[q] => Secure(q, n)' \/ <<q, n>> \in Held'
                      /\ q \in DOMAIN InFlightOffsets' /\ n <= InFlightOffsets'[q].max =>
                            Secure(q, n)' \/ <<q, n>> \in Held'
    BY DEF SecureInv
  <2>1. Secure(q, n) \/ <<q, n>> \in Held => Secure(q, n)' \/ <<q, n>> \in Held'
    BY <1>6, <1>9
  <2>2. /\ n < committed[q] => Secure(q, n)
        /\ n < position[q] => Secure(q, n) \/ <<q, n>> \in Held
        /\ q \in DOMAIN InFlightOffsets /\ n <= InFlightOffsets[q].max =>
              Secure(q, n) \/ <<q, n>> \in Held
    BY <1>0 DEF RInv, SecureInv
  <2>3. n < committed'[q] => Secure(q, n)'
    BY <1>0, <1>9, <2>2
  <2>4. CASE q # p
    <3>1. position'[q] = position[q]
      BY <1>0, <1>1, <2>4
    <3> QED  BY <1>7, <2>1, <2>2, <2>3, <2>4, <3>1
  <2>5. CASE q = p
    <3>1. n <= o => Secure(q, n)' \/ <<q, n>> \in Held'
      <4>1. CASE n < o
        BY <2>1, <2>2, <2>5, <4>1
      <4>2. CASE n = o
        BY <1>6, <2>5, <4>2
      <4> QED  BY <1>2, <4>1, <4>2
    <3>2. n < position'[p] => n <= o
      <4>1. position'[p] = o + 1
        BY <1>0, <1>1
      <4> QED  BY <1>2, <4>1
    <3>3. n <= InFlightOffsets'[p].max =>
             n <= o \/ (p \in DOMAIN InFlightOffsets /\ n <= InFlightOffsets[p].max)
      BY <1>7
    <3> QED  BY <2>1, <2>2, <2>3, <2>5, <3>1, <3>2, <3>3
  <2> QED  BY <2>4, <2>5
<1> QED  BY <1>5, <1>8, <1>10 DEF RInv

LEMMA RebalanceUnchanged == RInv /\ UNCHANGED vars => RInv'
<1> SUFFICES ASSUME RInv, UNCHANGED vars PROVE RInv'
    OBVIOUS
<1>1. /\ UNCHANGED <<committed, position, goldReady, bronze, manifests, gold>>
      /\ UNCHANGED <<pc, acc, batch, day, clock>>
  BY DEF vars, kafkaVars, storeVars, envVars
<1>2. ShapeInv' /\ WrittenInv'
  BY <1>1 DEF RInv, ShapeInv, WrittenInv, DatedKey, BatchId, BatchEvents
<1>3. Held' = Held /\ InFlightOffsets' = InFlightOffsets
  BY <1>1 DEF Held, InFlightOffsets
<1>4. TracksInv' /\ SecureInv'
  BY <1>1, <1>3, SecureKept DEF RInv, TracksInv
<1> QED  BY <1>2, <1>4 DEF RInv

LEMMA NextRInv ==
    RInv /\ [RebalanceNext]_<<vars, rebalances>> => RInv'
<1> SUFFICES ASSUME RInv, [RebalanceNext]_<<vars, rebalances>> PROVE RInv'
    OBVIOUS
<1>1. CASE UNCHANGED vars
  BY <1>1, RebalanceUnchanged
<1>2. CASE Rebalance
  BY <1>2, RebalanceStep
<1>3. CASE Process
  <2>1. ASSUME UploadKillEvents PROVE RInv'
    BY <2>1, RebalanceUploadSilver DEF UploadKillEvents, SilverLayers
  <2>2. ASSUME UploadPlayerMatch PROVE RInv'
    BY <2>2, RebalanceUploadSilver DEF UploadPlayerMatch, SilverLayers
  <2> QED  BY <1>3, <2>1, <2>2, RebalanceReceive, RebalanceTimerFlush,
              RebalanceUploadParquet, RebalanceUploadManifest, RebalanceProjectManifest,
              RebalanceUploadGold, RebalancePublishGoldReady, RebalanceCommit,
              RebalanceRestart
           DEF Process
<1>4. CASE Die
  BY <1>4, RebalanceDie
<1> QED  BY <1>1, <1>2, <1>3, <1>4 DEF RebalanceNext, Next, IdlePoll

\* What is committed is announced: the reason for all of the above.
LEMMA SecureIsReadable == RInv => CommittedIsReadable
<1> SUFFICES ASSUME RInv, NEW p \in Partitions, NEW o \in 0..(committed[p] - 1),
                    IsValid(<<p, o>>)
             PROVE  EventOf(<<p, o>>) \in Readable
    BY DEF CommittedIsReadable
<1>1. o \in Nat /\ o < committed[p]
  BY DEF RInv, ShapeInv
<1>2. PICK i \in DOMAIN goldReady : SecuredBy(goldReady[i].batch, p, o)
  BY <1>1 DEF RInv, SecureInv, Secure
<1> QED  BY <1>2 DEF SecuredBy, Readable

\* The strengthened invariant holds in every state of the streamer, whenever and
\* however often its consumer group rebalances.
THEOREM RebalanceRInv == RebalanceSpec => []RInv
<1>1. RebalanceInit => RInv
  BY InitRInv DEF RebalanceInit
<1> QED  BY <1>1, NextRInv, PTL DEF RebalanceSpec

\* No valid event whose offset is committed is lost (app.rs: upload, project,
\* publish, commit), although a rebalance takes the position back under the
\* buffer, so that batches overlap, skip offsets and overwrite one another.
THEOREM RebalanceCommittedIsReadable == RebalanceSpec => []CommittedIsReadable
BY RebalanceRInv, SecureIsReadable, PTL
===============================================================================
