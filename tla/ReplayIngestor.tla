---------------------------- MODULE ReplayIngestor ----------------------------
(***************************************************************************)
(* apps/go-ingestor, command replay: a one-shot process that reads one CSV *)
(* file row by row, normalises the rows on a pool of workers, gathers the  *)
(* results in two buffers (valid rows for the raw topic, rejected rows for *)
(* the invalid topic), sends the buffers to Kafka and, at the end of the   *)
(* file, saves in the object store up to which row it has come.  The next  *)
(* launch resumes behind the saved row.                                    *)
(*                                                                         *)
(* Goroutines that interleave: the reader, the workers, the main loop and  *)
(* the timer of the flusher.  `flushMu` admits one flush at a time; sends  *)
(* happen under it but outside `mu`, so rows are buffered meanwhile.       *)
(***************************************************************************)
EXTENDS Integers, Sequences, FiniteSets

CONSTANTS
    File,          \* the kinds of the rows, in file order
    Configs,       \* the command lines the process may be launched with
    Workers,       \* workers of the pool (runtime.NumCPU() * 2)
    ChannelSize,   \* capacity of the pool's two channels (100 per worker)
    MaxBatchSize,  \* BatchConfig.MaxBatchSize
    MaxLaunches    \* bound: how often the process is started

\* What the parser and the normalizer make of a row: a "blank" row is counted
\* and skipped, the others become an envelope or an InvalidRecord.
Kinds == {"valid", "invalid", "blank"}

ASSUME FileAssumption == File \in Seq(Kinds)

ASSUME ConfigsAssumption ==
    Configs \subseteq [limit: Nat, start: Nat, dryRun: BOOLEAN,
                       disable: BOOLEAN, reset: BOOLEAN, delay: BOOLEAN]

ASSUME SizesAssumption ==
    /\ Workers \in Nat \ {0}
    /\ ChannelSize \in Nat \ {0}
    /\ MaxBatchSize \in Nat \ {0}
    /\ MaxLaunches \in Nat

VARIABLES
    \* outside the process
    delivered,    \* the rows Kafka holds, on either topic
    checkpoint,   \* LastAckedRecordIndex of the checkpoint object, 0 if none
    launches,     \* how often the process was started
    \* the main goroutine
    config,       \* the command line
    main,         \* where the main goroutine is
    from,         \* cfg.StartRecord, moved by a resume
    tracker,      \* ContiguousAckTracker
    current,      \* the row whose Add call is flushing, 0 if none
    recordsRead,  \* stats.RecordsRead
    outcome,      \* what main.go logs at the end of the run
    \* the reader goroutine and the worker pool
    reader,       \* next row, rows submitted, whether the jobs are closed
    jobs,         \* channel of the rows to normalise
    held,         \* rows that workers are normalising
    exited,       \* workers that have left early
    results,      \* channel of the rows normalised
    \* the flusher
    buffer,       \* "raw" -> rawEnvelopes, "invalid" -> invalidRecs
    flush,        \* who holds flushMu, and the snapshot not yet sent
    timer,        \* what the timer goroutine does next
    \* contexts
    cancelled,    \* the context of Run
    signalled     \* the context of main.go

poolVars  == <<jobs, held, exited, results>>
mainVars  == <<config, main, from, tracker, current, recordsRead, outcome>>
flushVars == <<buffer, flush, timer>>
ctxVars   == <<cancelled, signalled>>
vars == <<delivered, checkpoint, launches, mainVars, reader, poolVars,
          flushVars, ctxVars>>

-------------------------------------------------------------------------------
Rows     == DOMAIN File
IsData(r) == File[r] # "blank"
Queues   == {"raw", "invalid"}
Queue(r) == IF File[r] = "valid" THEN "raw" ELSE "invalid"
Elements(s) == {s[i] : i \in DOMAIN s}

\* NewContiguousAckTracker and RecordAck: the last row moves over every
\* acknowledged successor, which leaves the pending set.
TrackerAt(n) == [last |-> n, pending |-> {}]

RecordAck(t, r) ==
    LET acked == t.pending \cup {r}
        last  == CHOOSE n \in {t.last} \cup acked :
                    /\ n >= t.last
                    /\ (t.last + 1)..n \subseteq acked
                    /\ n + 1 \notin acked
    IN  [last |-> last, pending |-> acked \ ((t.last + 1)..last)]

IdleReader  == [row |-> 1, submitted |-> 0, closed |-> FALSE]
EmptyBuffer == [queue \in Queues |-> <<>>]
NoFlush     == [owner |-> "none", queue |-> "raw", sending |-> <<>>]
NoConfig    == [limit |-> 0, start |-> 1, dryRun |-> FALSE, disable |-> FALSE,
                reset |-> FALSE, delay |-> FALSE]

\* A process that is not running has no memory.
Down == /\ config = NoConfig      /\ main = "down"
        /\ from = 1               /\ tracker = TrackerAt(0)
        /\ current = 0            /\ recordsRead = 0
        /\ outcome = "none"       /\ reader = IdleReader
        /\ jobs = <<>>            /\ held = {}
        /\ exited = 0             /\ results = <<>>
        /\ buffer = EmptyBuffer
        /\ flush = NoFlush        /\ timer = "idle"
        /\ cancelled = FALSE      /\ signalled = FALSE

Init == /\ delivered = {}
        /\ checkpoint = 0
        /\ launches = 0
        /\ Down

-------------------------------------------------------------------------------
(* Start of a run *)

\* NewReplayer, then Run up to the reset.
Launch(c) ==
    /\ main = "down"
    /\ launches < MaxLaunches
    /\ launches' = launches + 1
    /\ config' = c
    /\ main' = IF c.reset THEN "reset" ELSE "load"
    /\ from' = c.start
    /\ tracker' = TrackerAt(IF c.start > 0 THEN c.start - 1 ELSE 0)
    /\ UNCHANGED <<delivered, checkpoint, current, recordsRead, outcome,
                   reader, poolVars, flushVars, ctxVars>>

\* A failed removal is logged and the run goes on.
ResetCheckpoint ==
    /\ main = "reset"
    /\ main' = "load"
    /\ checkpoint' \in {0, checkpoint}
    /\ UNCHANGED <<delivered, launches, config, from, tracker, current,
                   recordsRead, outcome, reader, poolVars, flushVars, ctxVars>>

\* Mutation: the resumed run keeps the tracker of a run from the first row.
ResumeWithOldTracker ==
    /\ ~config.disable
    /\ config.start <= 1
    /\ checkpoint > 0
    /\ from' = checkpoint + 1
    /\ UNCHANGED tracker

\* A run from the first row resumes behind the checkpoint.
Resume ==
    /\ ~config.disable
    /\ config.start <= 1
    /\ checkpoint > 0
    /\ from' = checkpoint + 1
    /\ tracker' = TrackerAt(checkpoint)

\* Without a checkpoint, or when it cannot be read, the run starts where the
\* command line says.
LoadCheckpoint ==
    /\ main = "load"
    /\ main' = "loop"
    /\ Resume \/ UNCHANGED <<from, tracker>>
    /\ UNCHANGED <<delivered, checkpoint, launches, config, current,
                   recordsRead, outcome, reader, poolVars, flushVars, ctxVars>>

-------------------------------------------------------------------------------
(* The reader goroutine and the worker pool *)

Started == main \notin {"down", "reset", "load"}

readOnly == <<delivered, checkpoint, launches, mainVars, flushVars, ctxVars>>

AtEnd == \/ config.limit > 0 /\ reader.submitted >= config.limit
         \/ reader.row > Len(File)

\* Mutation: the jobs stay open when the limit is reached.
StopsOnlyAtEndOfFile == reader.row > Len(File)

StopsReading == AtEnd

\* Limit or EOF: CloseJobs.
StopReading ==
    /\ Started /\ ~reader.closed /\ StopsReading
    /\ reader' = [reader EXCEPT !.closed = TRUE]
    /\ UNCHANGED <<poolVars, readOnly>>

\* Any other error of Next (the download stream broke) is logged and ends the
\* loop the way EOF does.
StreamBreaks ==
    /\ Started /\ ~reader.closed /\ ~AtEnd
    /\ reader' = [reader EXCEPT !.closed = TRUE]
    /\ UNCHANGED <<poolVars, readOnly>>

\* Next counts a blank row and goes on, the loop skips rows before the start.
SkipRow ==
    /\ Started /\ ~reader.closed /\ ~AtEnd
    /\ ~IsData(reader.row) \/ reader.row < from
    /\ reader' = [row |-> reader.row + 1, submitted |-> reader.submitted,
                  closed |-> FALSE]
    /\ UNCHANGED <<poolVars, readOnly>>

\* Submit blocks while the jobs channel is full.
SubmitRow ==
    /\ Started /\ ~reader.closed /\ ~AtEnd
    /\ IsData(reader.row) /\ reader.row >= from
    /\ Len(jobs) < ChannelSize
    /\ reader' = [row |-> reader.row + 1, submitted |-> reader.submitted + 1,
                  closed |-> FALSE]
    /\ jobs' = Append(jobs, reader.row)
    /\ UNCHANGED <<held, exited, results, readOnly>>

\* The workers that cannot take a job.
Busy == Cardinality(held) + exited

\* A free worker takes the oldest job and normalises it.
TakeJob ==
    /\ Started /\ jobs # <<>> /\ Busy < Workers
    /\ jobs' = Tail(jobs)
    /\ held' = held \cup {Head(jobs)}
    /\ UNCHANGED <<reader, exited, results, readOnly>>

\* Workers finish in any order; a send blocks while the channel is full.
SendResult(r) ==
    /\ Started /\ r \in held /\ Len(results) < ChannelSize
    /\ held' = held \ {r}
    /\ results' = Append(results, r)
    /\ UNCHANGED <<reader, jobs, exited, readOnly>>

\* Once the context is cancelled a worker may drop its result and exit.
WorkerExits(r) ==
    /\ Started /\ r \in held /\ cancelled
    /\ held' = held \ {r}
    /\ exited' = exited + 1
    /\ UNCHANGED <<reader, jobs, results, readOnly>>

\* The result channel is closed when the last worker has left.
ResultsClosed ==
    /\ held = {}
    /\ exited = Workers \/ (reader.closed /\ jobs = <<>>)

-------------------------------------------------------------------------------
(* Ends of the run *)

\* Run returns nil: main.go logs a stop if it was signalled, else completion.
ReturnNil ==
    /\ main' = "returned"
    /\ outcome' = IF signalled THEN "stopped" ELSE "completed"

\* Run returns an error: RunReplay drops it if it says "context canceled".
ReturnError ==
    \/ cancelled /\ ReturnNil
    \/ /\ main' = "returned"
       /\ outcome' = IF signalled THEN "stopped" ELSE "failed"

-------------------------------------------------------------------------------
(* The flusher.  The actors are "main" and "timer". *)

\* Which queue an actor is about to flush, or is flushing.
Wants(a) ==
    IF a = "timer" THEN timer
    ELSE IF main = "add" THEN Queue(current)
    ELSE IF main = "finalRaw" THEN "raw"
    ELSE IF main = "finalInvalid" THEN "invalid"
    ELSE "idle"

\* With -stream-delay-ms the loop pauses after every row for the raw topic.
AfterRow(r) == IF config.delay /\ Queue(r) = "raw" THEN "delay" ELSE "loop"

\* A flush of an actor returns without error; `some` says whether it sent
\* anything.  AddEvent and AddInvalid return to the loop, which acknowledges
\* the row and after a flush of the raw queue calls saveCheckpoint; FlushAll
\* goes from the raw to the invalid queue.
FlushDone(a, some) ==
    IF a = "timer" THEN
        /\ timer' = IF timer = "raw" THEN "invalid" ELSE "idle"
        /\ UNCHANGED mainVars
    ELSE
        /\ IF main = "add" THEN
               /\ tracker' = RecordAck(tracker, current)
               /\ current' = 0
               /\ main' = IF some /\ Queue(current) = "raw" /\ ~config.dryRun
                          THEN "save" ELSE AfterRow(current)
           ELSE /\ main' = IF main = "finalRaw" THEN "finalInvalid"
                                                ELSE "finalSave"
                /\ UNCHANGED <<tracker, current>>
        /\ UNCHANGED <<config, from, recordsRead, outcome, timer>>

TimerTick ==
    /\ main # "down" /\ timer = "idle"
    /\ timer' = "raw"
    /\ UNCHANGED <<delivered, checkpoint, launches, mainVars, reader, poolVars,
                   buffer, flush, ctxVars>>

\* Mutation: an empty buffer is noticed before flushMu is taken.
FlushNothingUnlocked(a) ==
    /\ Wants(a) \in Queues
    /\ buffer[Wants(a)] = <<>> \/ config.dryRun
    /\ buffer' = [buffer EXCEPT ![Wants(a)] = <<>>]
    /\ FlushDone(a, buffer[Wants(a)] # <<>>)
    /\ UNCHANGED <<delivered, checkpoint, launches, reader, poolVars, flush,
                   ctxVars>>

\* FlushRaw and FlushInvalid up to the snapshot: nothing to do, or a dry run,
\* which has no producer and drops the rows.
FlushNothing(a) ==
    /\ Wants(a) \in Queues
    /\ flush.owner = "none"
    /\ buffer[Wants(a)] = <<>> \/ config.dryRun
    /\ buffer' = [buffer EXCEPT ![Wants(a)] = <<>>]
    /\ FlushDone(a, buffer[Wants(a)] # <<>>)
    /\ UNCHANGED <<delivered, checkpoint, launches, reader, poolVars, flush,
                   ctxVars>>

\* The buffer becomes the snapshot.
BeginFlush(a) ==
    /\ Wants(a) \in Queues
    /\ flush.owner = "none"
    /\ buffer[Wants(a)] # <<>> /\ ~config.dryRun
    /\ flush' = [owner |-> a, queue |-> Wants(a), sending |-> buffer[Wants(a)]]
    /\ buffer' = [buffer EXCEPT ![Wants(a)] = <<>>]
    /\ UNCHANGED <<delivered, checkpoint, launches, mainVars, reader, poolVars,
                   timer, ctxVars>>

\* ProduceEvent, ProduceKillEvent or ProduceInvalid of the next row.
Produce ==
    /\ flush.owner # "none"
    /\ delivered' = delivered \cup {Head(flush.sending)}
    /\ IF Len(flush.sending) > 1
       THEN /\ flush' = [owner |-> flush.owner, queue |-> flush.queue,
                         sending |-> Tail(flush.sending)]
            /\ UNCHANGED <<mainVars, timer>>
       ELSE /\ flush' = NoFlush
            /\ FlushDone(flush.owner, TRUE)
    /\ UNCHANGED <<checkpoint, launches, reader, poolVars, buffer, ctxVars>>

\* Mutation: the row that failed is not put back.
RequeueAfterFailed(sending) == Tail(sending)

\* The rows that go back in front of the buffer, the one that failed included.
Requeued(sending) == sending

\* Kafka may have taken the row although the call failed.
ProduceFails ==
    /\ flush.owner # "none"
    /\ delivered' \in {delivered, delivered \cup {Head(flush.sending)}}
    /\ buffer' = [buffer EXCEPT ![flush.queue] = Requeued(flush.sending) \o @]
    /\ flush' = NoFlush
    /\ IF flush.owner = "timer"
       THEN timer' = "failed" /\ UNCHANGED mainVars
       ELSE /\ ReturnError
            /\ UNCHANGED <<config, from, tracker, current, recordsRead, timer>>
    /\ UNCHANGED <<checkpoint, launches, reader, poolVars, ctxVars>>

\* errHandler cancels the context of Run.
TimerCancels ==
    /\ timer = "failed"
    /\ timer' = "idle"
    /\ cancelled' = TRUE
    /\ UNCHANGED <<delivered, checkpoint, launches, mainVars, reader, poolVars,
                   buffer, flush, signalled>>

-------------------------------------------------------------------------------
(* The main loop *)

\* The next result: AddEvent or AddInvalid buffers it and, if the buffer is
\* full, flushes it before the row is acknowledged.
TakeResult ==
    /\ main = "loop" /\ ~cancelled /\ results # <<>>
    /\ LET r == Head(results)
           q == Append(buffer[Queue(r)], r)
       IN  /\ buffer' = [buffer EXCEPT ![Queue(r)] = q]
           /\ IF Len(q) >= MaxBatchSize
              THEN /\ main' = "add"
                   /\ current' = r
                   /\ UNCHANGED tracker
              ELSE /\ main' = AfterRow(r)
                   /\ tracker' = RecordAck(tracker, r)
                   /\ UNCHANGED current
    /\ results' = Tail(results)
    /\ UNCHANGED <<delivered, checkpoint, launches, config, from, recordsRead,
                   outcome, reader, jobs, held, exited, flush, timer,
                   ctxVars>>

\* A result that arrives after the cancellation ends the run.
TakeResultCancelled ==
    /\ main = "loop" /\ cancelled /\ results # <<>>
    /\ ReturnNil
    /\ results' = Tail(results)
    /\ UNCHANGED <<delivered, checkpoint, launches, config, from, tracker,
                   current, recordsRead, reader, jobs, held, exited, flushVars,
                   ctxVars>>

\* The pause is over, or the cancellation ends it and the run.
Delay ==
    /\ main = "delay"
    /\ \/ main' = "loop" /\ UNCHANGED outcome
       \/ cancelled /\ ReturnNil
    /\ UNCHANGED <<delivered, checkpoint, launches, config, from, tracker,
                   current, recordsRead, reader, poolVars, flushVars, ctxVars>>

\* The result channel is drained and closed.
EndOfResults ==
    /\ main = "loop" /\ results = <<>> /\ ResultsClosed
    /\ recordsRead' = reader.submitted - Len(jobs)
    /\ IF cancelled THEN ReturnNil
       ELSE main' = "finalRaw" /\ UNCHANGED outcome
    /\ UNCHANGED <<delivered, checkpoint, launches, config, from, tracker,
                   current, reader, poolVars, flushVars, ctxVars>>

\* Mutation: the statistics are counted while the loop runs.
SavesInLoop == ~config.disable

\* RecordsRead is set once the loop has ended: before that nothing is saved.
CanSave == ~config.disable /\ recordsRead # 0

\* saveCheckpoint; a failed upload is logged and the run goes on.
SaveCheckpoint ==
    /\ main \in {"save", "finalSave"}
    /\ checkpoint' \in {checkpoint} \cup (IF CanSave THEN {tracker.last} ELSE {})
    /\ IF main = "save"
       THEN main' = (IF config.delay THEN "delay" ELSE "loop") /\ UNCHANGED outcome
       ELSE ReturnNil
    /\ UNCHANGED <<delivered, launches, config, from, tracker, current,
                   recordsRead, reader, poolVars, flushVars, ctxVars>>

-------------------------------------------------------------------------------
(* Signals and the end of the process *)

Signal ==
    /\ main \notin {"down", "returned"} /\ ~signalled
    /\ signalled' = TRUE
    /\ cancelled' = TRUE
    /\ UNCHANGED <<delivered, checkpoint, launches, mainVars, reader, poolVars,
                   flushVars>>

\* The memory is gone, as in Down.
Leave ==
    /\ config' = NoConfig      /\ main' = "down"
    /\ from' = 1               /\ tracker' = TrackerAt(0)
    /\ current' = 0            /\ recordsRead' = 0
    /\ outcome' = "none"       /\ reader' = IdleReader
    /\ jobs' = <<>>            /\ held' = {}
    /\ exited' = 0             /\ results' = <<>>
    /\ buffer' = EmptyBuffer
    /\ flush' = NoFlush        /\ timer' = "idle"
    /\ cancelled' = FALSE      /\ signalled' = FALSE
    /\ UNCHANGED <<delivered, checkpoint, launches>>

Exit  == main = "returned" /\ Leave
Crash == main \notin {"down", "returned"} /\ Leave

Flusher(a) == FlushNothing(a) \/ BeginFlush(a)

Next ==
    \/ \E c \in Configs : Launch(c)
    \/ ResetCheckpoint \/ LoadCheckpoint
    \/ StopReading \/ StreamBreaks \/ SkipRow \/ SubmitRow
    \/ TakeJob
    \/ \E r \in Rows : SendResult(r) \/ WorkerExits(r)
    \/ TakeResult \/ TakeResultCancelled \/ Delay
    \/ EndOfResults \/ SaveCheckpoint
    \/ TimerTick \/ TimerCancels
    \/ \E a \in {"main", "timer"} : FlushNothing(a) \/ BeginFlush(a)
    \/ Produce \/ ProduceFails
    \/ Signal \/ Exit \/ Crash

\* Every goroutine is scheduled, every remote call answers and a pause ends.  flushMu hands
\* over to a waiter that has starved (Go's mutexes do after 1 ms), so the main
\* loop gets it although the timer may come back for it again and again.
Fairness ==
    /\ WF_vars(ResetCheckpoint) /\ WF_vars(LoadCheckpoint)
    /\ WF_vars(StopReading) /\ WF_vars(SkipRow) /\ WF_vars(SubmitRow)
    /\ WF_vars(TakeJob) /\ WF_vars(\E r \in Rows : SendResult(r))
    /\ WF_vars(TakeResult \/ TakeResultCancelled \/ EndOfResults)
    /\ WF_vars(Delay) /\ WF_vars(SaveCheckpoint) /\ WF_vars(Exit)
    /\ SF_vars(Flusher("main")) /\ WF_vars(Flusher("timer"))
    /\ WF_vars(Produce \/ ProduceFails) /\ WF_vars(TimerCancels)

Spec     == Init /\ [][Next]_vars
FairSpec == Spec /\ Fairness

-------------------------------------------------------------------------------
(* Properties *)

Places == {"down", "reset", "load", "loop", "add", "save", "delay", "finalRaw",
           "finalInvalid", "finalSave", "returned"}

\* Every variable stays in its domain: no more rows are in a channel, with a
\* worker or in a buffer's flush than code and configuration allow.
TypeOK ==
    /\ delivered \subseteq Rows
    /\ checkpoint \in 0..Len(File)
    /\ launches \in 0..MaxLaunches
    /\ config \in Configs \cup {NoConfig}
    /\ main \in Places
    /\ from \in Nat
    /\ tracker \in [last: Nat, pending: SUBSET Rows]
    /\ current \in Rows \cup {0}
    /\ recordsRead \in 0..Len(File)
    /\ outcome \in {"none", "completed", "stopped", "failed"}
    /\ reader \in [row: 1..(Len(File) + 1), submitted: 0..Len(File),
                   closed: BOOLEAN]
    /\ jobs \in Seq(Rows) /\ results \in Seq(Rows)
    /\ held \subseteq Rows
    /\ exited \in 0..Workers
    /\ Len(jobs) <= ChannelSize
    /\ Len(results) <= ChannelSize
    /\ Busy <= Workers
    /\ buffer \in [Queues -> Seq(Rows)]
    /\ flush \in [owner: {"none", "main", "timer"}, queue: Queues,
                  sending: Seq(Rows)]
    /\ timer \in {"idle", "raw", "invalid", "failed"}
    /\ cancelled \in BOOLEAN
    /\ signalled \in BOOLEAN

\* checkpoint.go:18 calls the saved index the highest up to which Kafka has
\* acknowledged every row, and the next launch skips all of them (replay.go:
\* 118-130).  The tracker is fed when a row is buffered, not when Kafka has it,
\* so this rests on the flushes being over whenever a save takes effect.
CheckpointIsDelivered ==
    \A r \in Rows : r <= checkpoint /\ IsData(r) => r \in delivered

InFlight ==
    Elements(jobs) \cup held \cup Elements(results)
    \cup Elements(buffer["raw"]) \cup Elements(buffer["invalid"])
    \cup Elements(flush.sending)

\* As long as the run goes on, every row the reader has taken is in Kafka or
\* somewhere in the process: neither the hand-over between the goroutines nor
\* a failed flush (batcher.go:185-192, 233-238) loses one.
NothingIsDropped ==
    Started /\ main # "returned" /\ ~cancelled /\ ~config.dryRun =>
        \A r \in Rows : from <= r /\ r < reader.row /\ IsData(r) =>
            r \in delivered \cup InFlight

\* A run that ends by itself has sent every row it read, whatever the timer
\* was doing during the final FlushAll (replay.go:237-246).
CompletionDelivers ==
    main = "returned" /\ outcome = "completed" /\ ~cancelled /\ ~config.dryRun =>
        \A r \in Rows : from <= r /\ r < reader.row /\ IsData(r) =>
            r \in delivered

\* A run that resumed never saves less than it resumed from, however little it
\* reads: only a reset, or a run that could not read the checkpoint and began
\* before it, moves the checkpoint back (replay.go:118-130, 249-275).
ResumedNeverMovesBack ==
    [][checkpoint' < checkpoint => main = "reset" \/ from <= checkpoint]_vars

\* A run ends: no goroutine waits for ever on a full or an unclosed channel, on
\* flushMu or on the pool, however reads, sends, saves and signals turn out.
RunEnds == main # "down" ~> main = "down"
==============================================================================
