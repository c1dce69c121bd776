# Verification of the FPS anti-cheat data platform

TLA+ models of the platform under `src/`, TLC configurations that check them on
small instances, and TLAPS proofs about all ten models. Every definition is
translated from the code; `PROJECT.json` gives the lines of each one, the runs,
the mutants that each property must catch, the hazards and the theorems.

## 1. The system

```
CSV (object store) -> go-ingestor replay -> raw topic -> structured streamer -> bronze/silver/gold
                                                              | gold.ready
                    go-api <- Unix socket <- inference engine <- models/current <- ML worker
```

The parts share no memory. They interact through Kafka topics (raw, invalid,
gold.ready, model.ready, dead letters), objects in MinIO, a directory of model
versions with a symlink, and one Unix domain socket.

| Component (under `src/apps/`) | State | Operations | What is hard | What makes it correct | Module |
|---|---|---|---|---|---|
| **rust-structured-streamer**, ingest and storage (`app.rs`, `ingest/`, `storage/`, `transport/`) | consumer position, committed offsets, accumulator, batch in work, objects of three layers, gold.ready | receive, flush by count, bytes or time, upload bronze, manifest, silver, gold, publish, commit | death at any await, calls that fail after they took effect, date change, rebalances | nothing is committed that is not readable; a retry overwrites with the same contents; announced files exist | `StructuredStreamer`, `StreamerRebalance`, `DurableIngest` |
| same, silver and gold features (`transform/`), with the normaliser of the ingestor | none between batches | one row per match and player from the events of a batch | redelivered rows, matches that span batches, empty cells, two names for one player | features mean what they are called; a partial row never exaggerates | `MatchFeatures` |
| same, circuit breaker (`worker/`) | open or closed, the last CPU sample | sample, refuse, end, restart | counters that fall, state lost with the process | usage is a percentage; a refused batch gets through in the end | `CircuitBreaker` |
| **go-ingestor replay** (`app/replay.go`, `pipeline/`, `storage/checkpoint.go`) | channels, worker pool, two buffers, ack tracker, checkpoint object | read, normalise, buffer, flush, save, resume, reset | four kinds of goroutines, timer against main loop, cancellation, failed sends | checkpoint covers only delivered rows, no row dropped, the run ends | `ReplayIngestor` |
| **go-ingestor dataset sync** (`app/dataset_sync.go`) | archive, CSV objects and manifest in the store | download, put, extract, skip if present, write a manifest | overlapping and interrupted runs, objects of an older data set, existence tests that fail | the manifest names existing files, of one version after a run that was alone | `DatasetSync` |
| **python-ml-worker**, streaming (`app/streaming_worker.py`, `storage/`, `kafka/`, `pipeline/`) | position, polled batch, attempt, registry, version directories, symlink | poll, train, upload, stage, link, announce, dead-letter, commit, stop | commits of a whole poll, redelivery, replaced gold objects, death between rename and link | announced bundles exist, the current model never moves back | `ModelWorker` |
| **python-ml-worker**, on demand (`app/batch_trainer.py`, `storage/checkpoint.py`) | checkpoint object; shares registry, version directories and symlink | list twice, train, upload, stage, link, record, announce | two trainers at once, files that arrive between the listings, a page limit, versions of one second | a recorded file is in the model; what is active or announced is complete | `BatchTrainer` |
| **rust-inference**, engine (`inference/onnx_engine.rs`, `main.rs`) | served model, load in progress | start, reload, verify, swap, predict | files read one by one through a symlink that moves | settles on the current model, keeps a good one | `InferenceEngine`, `UdsServer` |
| **rust-inference**, socket server (`ipc/uds_server.rs`) and **go-api** client (`infra/ipc_client.go`) | socket file, permits, tasks, pending connections | dial, accept, acquire, read, predict, answer, shut down, restart | swap during a request, all permits out, stalled peers, a leftover socket file | answers of one model, calls return, shutdown ends | `UdsServer` |
| **rust-inference**, evidence and policy (`evidence/`, `decision/`, the policy files `config/ml-risk-policy.yml` and `src/configs/policies.yaml`) | the policy read at the start | score and features to a decision | rank, cut-off, rounding, rule order, boundaries, two files that differ | the decision is what the policy file says of the request; under the deployed file more headshots are never milder | `PolicyEvaluator` |
| go-api HTTP, dashboard, Kaggle client, configuration, logging, compose file | none worth modelling | I/O | | | not modelled |

`ml-platform/python-ml-worker/src/main.py` is an older single-file copy of the
worker whose imports are absent from the tree, although `Dockerfile:90` starts
it. The model follows `python-ml-worker/src/app/` and the modules it imports.

## 2. Modules and how they follow the code

**`StructuredStreamer`.** One program counter `pc`, because `run` awaits
`process_completed_batch` before it receives again. `Receive` is one turn of the
loop (`recv_outcome`, `push`, a flush if the buffer is full), `TimerFlush` and
`IdlePoll` the poll that times out. Each remote call is an action of its own:
`UploadParquet`, `UploadManifest`, `ProjectManifest` (reads back and computes),
the two silver layers, `UploadGold`, `PublishGoldReady`,
`CommitPartitionOffsets`. `Die` is a crash or the `?` of any call, with the
memory lost; a call that failed after it took effect is the action followed by
`Die`. `Restart` resumes at the committed offsets. A message is its place in the
log, a batch id the ranges it hashes, a file the rows it was made from. The gold
file carries the time at which it was made, as `gold.rs:117` does, so two
attempts differ. Either limit, records or bytes, fills a batch.

**`StreamerRebalance`** adds the rebalance. `KafkaConsumer::new` installs no
callback, so the position rewinds and the buffer stays.

**`DurableIngest`** is the promise of the streamer and nothing of its inside:
valid events become readable in any groups, an offset is acknowledged only when
everything valid below it is readable, and neither is taken back.
`StructuredStreamer` implements it under the mapping `delivered <- Readable`,
`acked <- committed` (`KeepsPromise`).

**`ReplayIngestor`.** The reader, the workers, the main loop and the flush timer
interleave; `main` is where the main goroutine stands, `flush` who holds
`flushMu` and what of its snapshot is unsent. Buffers go on growing during a
flush, since sends happen outside `mu`. `TakeResult` is one `AddEvent` or
`AddInvalid` (with `RecordAck`), `BeginFlush`, `Produce`, `ProduceFails` one
flush, `FlushNothing` a flush of an empty buffer that still had to wait for the
lock. `LoadCheckpoint`, `ResetCheckpoint` and `SaveCheckpoint` may fail.
`Delay` is the pause of `-stream-delay-ms` after a row for the raw topic, which
a cancellation may end together with the run. `StreamBreaks` is a read error,
`Signal` cancels, `Crash` takes the memory away,
and the process is launched again with some command line. The byte limit of a
batch is left out: an envelope has about 300 bytes, so the count limit is
reached first.

**`ModelWorker`.** One thread. A commit without arguments commits the position,
that is everything the last poll returned. `Train` is a function of what the gold
object holds when it is read; an object may be replaced while its message waits
(`Overwrite`). Uploads go file by file; staging is a rename, then the link
moves. `CallFails` is an exception of any call and goes to the next attempt or,
after the last one, to the dead letters.

**`InferenceEngine`** extends the worker with the engine of the same container.
A load opens the checksums, the artifacts, the schema and one session after
another through `models/current`, each a step, and the worker may move the link
between any two. `HotSwap` compares checksums, as `hot_swap` does. `LoadFails` is
every way out of `load_from_directory` with an error: an artifact of another
version than the checksums, or a missing or unreadable file, a refused schema or
threshold, an error of ONNX or CUDA (these up to `MaxLoadFaults`). It keeps what is
served, or ends the engine at its start.

**`UdsServer`.** `Dial`/`DialFails` are `IPCClient.Predict`; `PrepareSocketPath`,
`Bind`, `Accept`, `AcquirePermit`, `Stop`, `RemoveSocket` are
`run_until_shutdown`, where the wait for a permit is outside the `select!`;
`ReadRequest` to `WriteResponse` are one spawned task. From `Predict` to
`ReadVersion` the task does not await, so `Exit` waits for it; other tasks are
dropped with the runtime. `HotSwap` here is only "a later model is served".
`RunSessionFails` is a session that fails or gives no score between 0 and 1; its
response is an error and names no model. `WriteFails` is a response that cannot
be written, or not in two seconds: the permit comes back as after any other. A
death of the container leaves the socket file, and `Restart` assumes that the engine
loads its model (`main.rs:30` ends the process otherwise).

**`MatchFeatures`** follows one row from the CSV file to the gold matrix: the
names that the normaliser gives it (`Envelope`: the digest of a name in
`player_id`, the plain name in the payload), the schema that both envelopes share
(`BronzeRow`), deduplication, `KillEvents` and `PlayerMatch` of silver, and
`Features` of gold with the sort, the neighbour differences and the median of the
code. Around it stands just enough of the streamer to decide which rows meet in
one batch: `Receive`, `SetBack` (a restart or a rebalance), `ProcessManifest`.
Times and distances are integers, the four coordinates of a kill are their one
distance, and a median is kept twice so that it stays an integer. A sort is any
arrangement of a column that is in order; equal cells make no difference.

**`CircuitBreaker`.** The kernel moves on its own (`BusyTick`, `IdleTick`,
`IowaitMoves` up and down, memory between three levels). `Ask` is `can_spawn`
with the sample it takes; either file under `/proc` may be unreadable. `Accept`
processes the batch, `Refuse` fails it, which ends the process (`app.rs`), and
`Restart` makes a breaker without history. A percentage is a ratio of ticks.

**`DatasetSync`.** One process per `make` target, so several may run. Each takes
`ReuseArchive` or `DownloadArchive` and `PutArchive`, looks at every CSV of its
temporary file (`SkipCsv`, `PutCsv`) and writes the manifest last. An object is
the version of the data set it is from. An existence test that fails counts as
absence, as in the code; `Fail` is an error, a stop or a death.

**`BatchTrainer`.** Both listings are actions of their own, since the streamer may
add files between them, and each is the first page of `list_objects_v2`. The
upload goes file by file; `StageBundle`, `ClearNextLink`, `MakeNextLink` and
`SwapLink` are the file operations on the one `.current-next` that all trainers
share. A model is the set of files it was trained on, a version a second of the
clock. `Fail` covers a failed call, a collision of versions and a death.

**`PolicyEvaluator`** is `evaluate_request` behind the prediction: z scores
against the lobby in exact integer arithmetic, rounding to a tenth, the stable
sort and the cut to two, the rules that look at features alone, the ordered rules
of the policy file and its default. Two policy files are in the repository:
`MlRiskPolicy` is the one that the deployment names (`POLICY_PATH` in
`apps/ml-platform/.env:11`), `ConfigsPolicy` is `configs/policies.yaml`, the one that
every Rust test loads (`tests/common/mod.rs:38`). A process reads either at its start
(`PolicyInit`) and never again.

The `MC*` modules hold the constants of the runs that a `.cfg` cannot write.

## 3. The runs

| Run | Shows |
|---|---|
| `streamer` | Types, zero loss, backed announcements, contents by key, manifest counts, buffer = gap, no commit moves back, progress, and the refinement of `DurableIngest`, over two deaths and a change of date. |
| `rebalance` | With two rebalances and a death nothing committed is lost and everything becomes readable in the end. |
| `batch_id_reuse` (violation) | After a rebalance two different batches have one id, and the second overwrites the first with fewer events; `accumulator.rs:10` calls the id unique. |
| `replay` | The checkpoint is honest, no row is dropped between goroutines, a completed run has sent what it read, a resumed run saves no less, and each run ends. |
| `inference` | Worker and engine interleaved: bundles stay backed, a loss stays within one poll, the active model never moves back, the topic is worked off, and the engine settles on the current model in spite of torn loads. |
| `uds` | Permits match tasks on every path, an answer's model was served during the call and its version is no older, every call returns, a signal ends the server, a restart listens again. |
| `features` | Sorting and scanning neighbours finds what the gold features mean (`Reference`, stated over sets by counting), whatever the order and the repetitions of a batch; and no partial row makes a player look worse than the whole file. |
| `killer_uncredited` (violation) | The kills of a batch are grouped under the killer's plain name and looked up under the digest of the player's: his row counts none, against `gold.rs:45`. |
| `breaker` | The usage never underflows although `iowait` falls, no batch meets an open breaker, and a refused batch is processed in the end even if memory stays between the watermarks. |
| `trainer` | What the checkpoint records is in the model of its version, and whatever is active or announced is complete in the directory and in the registry. |
| `dataset` | The manifest never names a missing file, and a run that was alone leaves archive, files and manifest of one version: a forced one always, another if the store agreed before. |
| `policy` | Evidence, cut-off and ordered rules decide what the policy file says of a request, under either file; under the deployed one a higher headshot ratio is never milder. |

**Bounds and why they are enough.**
*Streamer*: two partitions (a commit sets both at once), four messages, among them
a rejected copy of a valid event, one that fills a batch by its bytes and a
payload that is not JSON; two deaths, so that a retry dies as well; two dates. A
batch has two records, so count, bytes and time each flush it. *Rebalance*: one
partition, since all rewind alike; four messages and two rebalances give
overlapping and nested ranges. *Replay*: four rows of all three kinds, two workers
and channels of one place (so that both channels fill), batches of two, two
launches (a resume), five command lines. *Inference*: one object announced twice
and replaced once, one untrainable message, polls of two, two attempts, bundles of
two files, two sessions, one failing call, one failing load, two deaths. *uds*:
three calls on two permits (the third waits in the listener), two sessions, two
models, one death.
*Features*: every file of up to four out of eight kinds of rows (kills exactly
ten and more than ten seconds apart, without a time, without a place, by a zone,
in another match, the other way round, a summary), every split, one rewind; four
rows give medians of even and odd counts, three intervals and a repeated row.
*Breaker*: two batches, so that the second meets the history of the first or of a
new process; five busy ticks against three idle and two of iowait cross the 80 %
watermark both ways; memory rises twice. *Trainer*: two trainers with two runs,
three files over pages of two, bundles of two files, two seconds. *Dataset*: two
processes, two names, three versions of which the second has lost a file.
*Policy*: both sides of every threshold of score, z score, and hard rule of both
files, ties between z scores, requests of five and of eleven features.
Constants that their declarations call bounds (`Max...`, `Batches`) exist only to
keep the instances finite, except `MaxRecords`, `MaxBytes`, `MaxBatchSize`,
`MaxPoll`, `MaxRetries` and `MaxConcurrency`, which the code has.
Symmetry is used for the trainers and the synchronisations, which are
interchangeable and whose runs state no liveness.

**Fairness.**
*Streamer*: weak fairness of the whole process; tokio runs its one task, and
`restart: unless-stopped` of `docker-compose.yml` brings it back.
*Replay*: weak fairness per goroutine and remote call. The main loop's flush has
strong fairness: the timer may take `flushMu` again and again, but Go hands a
mutex to a waiter that has starved for a millisecond. Reads, signals and
failures have none.
*Worker and engine*: the worker thread, the reload ticker and the container go
on. *uds*: listener, tasks and Docker go on; whether a client ever completes its
line is not assumed, only that the read timeout fires. `Stop` has strong
fairness because `select!` picks at random among ready branches, so a stream of
connections does not hide the signal.
*Breaker*: the process asks when it has a batch, the supervisor restarts it; of
the machine it is assumed that idle time passes (`IdleAssumption`: enough of it to
bring the average since the boot under the watermark) and that memory does not
stay at 85 % for good. The code promises nothing on a machine that is overloaded
for ever, and without these two assumptions a batch may be refused for ever.
*Features*, *trainer*, *dataset* and *policy* state safety only.
In `replay`, `uds`, `features`, `breaker`, `trainer` and `policy` processes may
end for good, or there is nothing left to process, so deadlock is not checked
there.

## 4. What is proved

Eight modules hold proofs. Each states an inductive invariant, has a lemma per
action that preserves it, and ends in theorems `Spec...` about the specification
(`Rebalance...` and `Platform...` for those that extend another one).
The assumptions are the named `ASSUME`s of the component modules, which TLC
evaluates in the runs: sizes are natural numbers and not zero where the code
needs one, sequences and records have their shape, absence (`None`) is not a
value. Hypotheses that the code does not guarantee in every deployment are named
operators in the `ASSUME` of the theorem that needs them: `PlainCommandLines`,
`VersionsInOrder`, `VersionsNameObjects` and `ObjectsInRuns` below.

**`StructuredStreamerProofs`**, for every log, any number of partitions, events
and failures, and any limits: `SpecTypeOK`, `SpecCommittedIsReadable`,
`SpecStoredUnderIdIsItsRange`, `SpecInFlightIsTheGap`, `SpecGoldReadyIsBacked`,
`SpecManifestAccountsForBatch`, the action property `SpecCommitsNeverRegress`, and
`SpecKeepsPromise`: the streamer implements `DurableIngest`.
`CommittedIsReadable` is not inductive: it says nothing of what a commit is about
to cover. `IInv` adds

1. `GapInv`: memory (the buffer, or the batch in work, never both) holds exactly
   the messages from the committed offset to the position, and the tracked
   ranges are those gaps. Committing the ranges therefore commits what was
   processed.
2. `StoreInv`: a file is a function of its key. The events of a bronze or gold
   file are those of the ranges in its batch id, so an overwrite by a retry is
   harmless. This is where rebalances would break the argument.
3. `PhaseInv`: what the earlier phases of the batch have written; at the commit
   the batch is announced or had no valid event.
4. `ReadInv`: the announced batches have a gold file, and zero loss itself.

`BackedInv` carries the silver layers and manifests through in the same way.
`AccountInv` says that the batch in work finds, under its keys, the bronze file and
the manifest it wrote itself; its counters then add up because by `GapInv` a batch
holds each message of its ranges once. The
lemma `KeptLemma` states that dropping duplicates after validation keeps every
valid event of a batch, by taking the first of its copies (well-founded `<` on
`Nat`). The refinement maps each action to a `Deliver` (`PublishGoldReady`), an
`Acknowledge` (the commit) or a stutter.

The same module proves `RebalanceCommittedIsReadable`, zero loss of
`StreamerRebalance`, for any number of rebalances. Neither `GapInv` nor `StoreInv`
survives them: the buffer outlives the rewind, so ranges and messages part and a
file is no longer a function of its key. `RInv` replaces them by

1. `ShapeInv` and `TracksInv`: the tracked range of a partition runs from the first
   to the last of its messages in memory, be it in the buffer or in the batch in work.
   What lies between them need not be there.
2. `WrittenInv`: what the earlier phases of the batch have written.
3. `SecureInv`: every message below a committed offset, below the position or within
   reach of a tracked range is in memory or secure. A valid message o is secure if an
   announced batch has its event and no batch to come has the id of that one without
   the event: every batch to come begins behind o (`Passed`), or none without o ends
   where that one ended (`Avoided`).

So a file is overwritten with other contents, as `batch_id_reuse` shows, but it never
loses the last copy of a committed event.

**`UdsServerProofs`**, for any number of calls, permits, sessions, models and
deaths: `SpecTypeOK` (with the accounting of permits) and
`SpecAnswerIsOfOneModel`. `IInv` adds `QueueInv` (a call is in the backlog at
most once, and at most one connection is accepted and not yet spawned, only while
the listener waits for a permit: one permit pays for one task) and `CallInv` (the
model served at the start of the call, the one that scores and the one named in
the response come in this order).

**`ReplayIngestorProofs`**, for every file, every set of command lines, any number
of workers, launches and failures, any channels and batch size:
`SpecNothingIsDropped`, `SpecCompletionDelivers`, `SpecCheckpointIsDelivered`,
`SpecResumedNeverMovesBack`. `RInv` adds to the types and to `NothingIsDropped`

1. `FlushInv`: who holds `flushMu`, what its snapshot is of, and that the final
   flush of the main loop leaves behind it neither a buffered row nor a snapshot
   of the timer. Completion rests on this.
2. `PoolInv`: the pool and the buffers are empty before the loop, and the pool
   is empty after it unless the context was cancelled.
3. `TrackerInv`: a resume begins right behind the tracker, which only moves up.

`CheckpointIsDelivered` needs `AckInv` as well: an acknowledged row is in Kafka, in
a buffer or in the snapshot being sent, and once the checkpoint is about to be
saved it is in Kafka. Its theorem assumes `PlainCommandLines`, that no command
line is a dry run or starts behind the first row: in both the code records rows
that were never sent.

**`InferenceEngineProofs`** (worker and engine), for every topic, poll and
bundle size and any number of failures, deaths and overwrites:
`CurrentIsComplete`, `AnnouncedIsBacked`, `LossIsWithinAPoll`, of the worker alone
(`Spec...`) and beside the engine (`Platform...`). `WInv` says that the polled
batch is the run of offsets up to the position (`BatchInv`), what the attempt has
uploaded and staged so far (`AttemptInv`), and that every earlier message has an
outcome less than a poll before it (`OutcomeInv`). For the platform, every step
is a step of the worker or leaves it alone (`StepOfWorker`), so `WInv` is kept;
the converse `LoaderInv`, that a load under way always finds the link leading to
a directory, uses `CurrentIsComplete`.

The order results are `SpecCurrentNeverMovesBack`, `PlatformCurrentNeverMovesBack`,
`PlatformServedOnlyMovesForward` and `PlatformMatchingChecksumIsWhole`. `OrderInv`
says that no failure takes the worker back behind its `Frontier`, the next message
to finish, and that everything staged or linked comes from a message at or before
it. `SeenInv` says that what a load has read lies between its first read and the
link of now. They assume `VersionsInOrder`, that no version comes back after a later
one: a version hashes the event id and the checksum (`event_schemas.py:24-29`), the
checksum covers the time in the file, so each announcement has its own, and the
retries of the producer repeat one at once. The last result adds `ContentInv`, that
of two models of one object the one of the earlier message has the older rows, from
`VersionsNameObjects` (the event id hashes the object key, `producer.rs:66-72`), and
`ObjectsInRuns`, that an object is not announced again after another one. This one
is needed: on a topic a, b, a with an overwrite between, TLC finds a torn load that
has the checksum of the current bundle and a session of the other. A batch comes
back under its key only when it is repeated after a death, before the next batch,
or after a rebalance that set the commit back.

**`BatchTrainerProofs`**, for any number of trainers, runs, files and seconds and
any page: `SpecReleasedIsComplete` and `SpecRecordedIsInTheModel`. `LinkInv`
follows a bundle from upload to link: whatever `.current-next` or `current` leads
to was uploaded and staged by somebody, and neither is undone, so it does not
matter who moves whose link. `UploadInv` ties the files of a version to the model
of its trainer unless the version is `Shared`, which the history `named` decides;
`TrainedInv` ties the second listing to the first by `PageIsAll`: a lake that fits
in a page is listed whole.

**`DatasetSyncProofs`**, for any number of processes, names and versions:
`SpecManifestedFilesExist` and `SpecLoneRunAgrees`. `ProgressInv` says which CSVs
of its archive a process has seen to, `LoneInv` what a run that is still alone has
made of the store, `AloneInv` that at most one is alone.

**`CircuitBreakerProofs`**, for any watermarks and bounds:
`SpecUsageIsAPercentage` and `SpecOpenIsNeverAsked`. The usage needs one more
fact, `SampleIsPast`: the busy part of the last sample is at most the busy counter
of now, whatever `iowait` did in between.

**`ComputationProofs`** is about both computations, which share what a sort is:
every finite set has a sorted arrangement (`SortLemma`). That is induction over
data, done by a minimal counterexample: `WFMin` of the library picks the smallest
set that has none, and what comes last in it can be taken off (`LastLemma`).

*Features*, for files of any length, any batches and redeliveries:
`SpecGoldMeetsReference` and `SpecSplitNeverExaggerates`. The invariant `BatchInv` is
simple (the gold rows are the projection of the batch, and batches hold rows of the
file); the work is in the computation. The code sorts and scans, the reference
speaks of a set of rows. `KthLemma` and `OneKthLemma`: the k-th cell of a sorted
column is the one value with fewer than k cells below it and at least k not above
it, so all sorts agree (`SameValuesLemma`) and the median is that of the ranks
(`MedianLemma`). `NeighboursLemma`: no two times are closer than some two
neighbours. `FollowersLemma`: there are as many short differences as kills that
follow some other one shortly, by a bijection through an arrangement that breaks
ties by row. `UniqueLemma` and `ProjectionLemma`: deduplication leaves one record
for each row, and the records under a player's key are in bijection with the rows
that count as his kills, whose columns `FeaturesLemma` turns into the features. A
player without records has no summary row either, so his kills are 0
(`NoKillsLemma`). For the split, `MonotoneLemma` shows that the reference only grows
with the set of kills, and `DomainLemma` that the whole file names every player of a
batch.

*Policy*, for requests with any number of features of any values:
`SpecDecisionMeetsPolicy` (either file) and `SpecMoreHeadshotsNeverMilder` (the
deployed one). The model sorts
and cuts; the properties count how many anomalies outrank the headshots. What
connects the two is `InOrderLemma` (the anomalies can be put in order),
`RankedLemma` (the result has each of them once, by counting) and `TopTwoLemma` (the
headshots are among the first two if and only if fewer than two outrank them).
`DecisionLemma` then computes the decision from the request, for each file. More
headshots raise their own z score and nobody else's (`HeadshotsLemma`), so they are
outranked by no
more anomalies than before.

*Only model-checked.* Liveness under fairness, which is outside the prover's reach
(`EverythingBecomesReadable`, `EverythingIsCommitted`, `EveryBatchIsProcessed`,
`RunEnds`, `SettlesOnCurrent`, `EveryCallReturns`, `SignalEndsServer` and
`ListensAgain`). Every safety property of a passing run is a theorem.
The two violations are counterexamples and have nothing to prove.

## 5. Observations from modelling

- *Rebalances*. `GoldReadyIsBacked`, `StoredUnderIdIsItsRange` and
  `EverythingIsCommitted` hold for the streamer alone and fail once the group
  rebalances: a batch from a buffer that outlived a rebalance overwrites another,
  and a commit may set a partition back and leave it there if no more messages
  come. What survives is that everything becomes readable.
- *Malformed payloads* are committed without being written anywhere when their
  batch has no valid event, although `accumulator.rs:12` wants them durable first.
- *Retries of an announcement*. `producer.rs:55` says a retry repeats the
  `event_id`. The id hashes the checksum of the gold file, whose rows are stamped
  with `Utc::now()` (`gold.rs:117`), so a batch processed again after a death is
  announced under another id. The worker derives its version from that id and
  trains again.
- *Features*. The kills of a named killer never reach his gold row
  (`killer_uncredited`), and `payload.kills` of a summary row is read by silver
  only: gold counts the row itself as one kill. A death without a killer counts
  as a kill of its victim. A match whose events fall into two batches has two
  rows per player, which INVARIANT 6 of `scripts/verify_invariants.py` forbids.
- *Circuit breaker*. The hysteresis that `circuit_breaker.rs:66` and the
  repository's README describe never acts, because the refusal that opens the
  breaker ends the process. The first sample of a new process is the average
  since the boot, not the "real-time" value of `circuit_breaker.rs:11`.
- *Replay*. A row is acknowledged in the tracker when it is buffered; the
  checkpoint is honest only because `saveCheckpoint` does nothing while
  `RecordsRead` is 0, and that is set after the loop (`replay.go:251`). For the
  same reason no checkpoint is saved during a run, and an interrupted run starts
  again. If a flush of the timer fails, its handler cancels the context and the run
ends without an error: `main.go` sees no signal and logs completion although rows
were not sent. A dry run, the default of the flag, saves a checkpoint for rows it never
  sent (`replay.go:244`). A run whose download breaks reports completion
  (`replay.go:161`). A failed reset is only logged (`replay.go:112`), and the run
  resumes from the checkpoint it was to forget. A blank row takes an index that no
  worker acknowledges (`parser.go:124`), so the contiguous index stays below it.
  Parallel workers swap rows of one match, against `producer.go:31`.
- *Data set*. A failed existence test counts as absence, and a CSV that exists is
  skipped even when the archive is newer: runs that are interrupted, overlap or
  overlook an object leave files of several versions under one manifest. Two data
  sets share one manifest key.
- *Worker*. The commit after one message covers the rest of the poll, although the
  comment at `streaming_worker.py:71` speaks of that message; a stop or death then
  loses up to a poll (`LossIsWithinAPoll`).
- *Batch trainer*. Two trainers in one second share a version and write one
  registry bundle; the checkpoint of one overwrites that of the other; files
  behind the first page of 1000 keys are never trained on. `make ml` runs the
  worker by `docker compose run --rm` without a volume for the models, so the
  model it activates goes with the container, and what it starts is
  `src/main.py`, whose imports are absent.
- *Engine*. Torn loads are repaired at a later tick because the checksum differs
  from that of the current bundle (`MatchingChecksumIsWhole`). If the same model
  bytes come back under a later version (objects a, b, a) while a load is torn,
  the checksum matches and the engine keeps sessions of the other bundle. The
  run has no such return and the theorem excludes it (`ObjectsInRuns`). A torn load
  serves, until then, the checksum of one bundle with sessions of another, against `onnx_engine.rs:62`. A bundle that fails
  verification at the start ends the engine, and nothing restarts it while the
  container's foreground process lives.
- *Requests*. A response may name a newer version than the model that scored it,
  since `engine.version()` is read after `predict`; never an older one.
- *Evidence and policy*. Evidence is cut to the two largest z scores before the
  policy asks for the headshots, so two larger deviations elsewhere turn a
  suspension into `CLEAR`; a score of 0.80 or more without headshots is `CLEAR`
  too, milder than one between 0.60 and 0.80. The lobby names six features and
  the heuristic rules ask for ten or more, while the trained bundles and the
  dashboard have five: for those the bans never fire, and the evidence called
  `headshot_ratio` is computed from the third of the five, the median kill distance.
- *Two policies*. The Rust tests load `configs/policies.yaml`, the deployment
  `ml-risk-policy.yml`, and they differ where it matters: without headshots a
  score of 0.85 or more is `PERMANENT_BAN` in the first and `CLEAR` in the second;
  a score from 0.80 to 0.85 is escalated in the first and suspended or cleared in the
  second; the z score of the headshots is 3.0 against 2.5, the priority of a
  suspension URGENT (which `decision_evaluator_test` expects) against CRITICAL. No
  test reads the deployed file. In the first the suspension is the milder
  outcome, so more headshots turn a ban into a suspension, and
  `MoreHeadshotsNeverMilder` is stated of the deployed file only. Its comments ask for
  a z score `> 3.0` (`policies.yaml:35,42`), while the code compares the rounded z
  score with `>=`, so that 2.95 is enough; and its header speaks of a hot reload
  (`policies.yaml:5`), while the file is read once, in `DecisionEvaluator::new`.

## 6. Not modelled, and what is left

Not modelled: HTTP handlers of go-api (of which only the call of the socket is
modelled, in `UdsServer`), dashboard, Kaggle client, configuration, event types and
logging (no state, or only I/O); `src/main.py` of the worker, which cannot be
imported; compose file, topics and scripts (deployment; fairness of restarts rests
on them); Parquet and Arrow encoding (a file is the rows it was made from);
numerical training (a function of the gold objects); the rounding of `f32`.

What would come next:

1. A composition from CSV row to served model over the abstract promises of the
   parts: `DurableIngest` and counterparts for the ingestor and the worker.
2. Worker and batch trainer on one model directory: both use `.current-next`, and
   `CurrentNeverMovesBack` is stated for the worker alone.
