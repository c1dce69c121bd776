-------------------------- MODULE ReplayIngestorProofs --------------------------
(***************************************************************************)
(* The safety of ReplayIngestor for every file, pool, channel and batch    *)
(* size and number of launches.                                            *)
(*                                                                         *)
(* The tracker runs ahead of Kafka, so a row it has acknowledged is only   *)
(* known to be in Kafka, in a buffer or in a snapshot.  A save takes       *)
(* effect only after the loop, when FlushAll has emptied both buffers and  *)
(* no snapshot is left: flushMu makes the final flush wait for the timer's *)
(* snapshot, and with nothing buffered the timer cannot take another.      *)
(***************************************************************************)
EXTENDS ReplayIngestor, SequenceTheorems, WellFoundedInduction, TLAPS

Types ==
    /\ delivered \subseteq Rows
    /\ checkpoint \in Nat
    /\ config \in Configs \cup {NoConfig}
    /\ main \in Places
    /\ from \in Nat
    /\ tracker \in [last: Nat, pending: SUBSET Rows]
    /\ current \in Rows \cup {0}
    /\ main = "add" => current \in Rows
    /\ reader \in [row: 1..(Len(File) + 1), submitted: Nat, closed: BOOLEAN]
    /\ jobs \in Seq(Rows) /\ results \in Seq(Rows)
    /\ held \subseteq Rows
    /\ exited \in Nat
    /\ buffer \in [Queues -> Seq(Rows)]
    /\ flush \in [owner: {"none", "main", "timer"}, queue: Queues, sending: Seq(Rows)]
    /\ timer \in {"idle", "raw", "invalid", "failed"}
    /\ cancelled \in BOOLEAN /\ signalled \in BOOLEAN

\* The loop has ended by itself.
AfterLoop == {"finalRaw", "finalInvalid", "finalSave"}

\* Whoever holds flushMu has a snapshot of the queue it wants, and FlushAll leaves
\* behind it neither a buffered row nor the timer's snapshot.
FlushInv ==
    /\ flush.owner = "none" => flush.sending = <<>>
    /\ flush.owner # "none" => /\ flush.sending # <<>>
                               /\ flush.queue = Wants(flush.owner)
                               /\ ~config.dryRun
    /\ flush.owner = "main" /\ main \in AfterLoop => buffer[flush.queue] = <<>>
    /\ main \in {"finalInvalid", "finalSave"} =>
           /\ buffer["raw"] = <<>>
           /\ flush.owner # "none" => flush.queue = "invalid"
    /\ main = "finalSave" => buffer["invalid"] = <<>> /\ flush.owner = "none"

\* Before the loop the pool and the buffers are empty; after it the pool is, unless
\* the context was cancelled.
PoolInv ==
    /\ ~Started =>
           /\ reader = IdleReader /\ jobs = <<>> /\ held = {} /\ results = <<>>
           /\ exited = 0 /\ flush.owner = "none"
           /\ \A q \in Queues : buffer[q] = <<>>
    /\ recordsRead # 0 => main \in AfterLoop \cup {"returned"}
    /\ exited > 0 => cancelled
    /\ main \in AfterLoop \/ (main = "returned" /\ outcome = "completed") =>
           \/ cancelled
           \/ reader.closed /\ jobs = <<>> /\ held = {} /\ results = <<>>

\* A resume begins right behind the tracker, which only moves up.
TrackerInv == from <= tracker.last + 1

RInv ==
    /\ Types
    /\ FlushInv
    /\ PoolInv
    /\ TrackerInv
    /\ NothingIsDropped
    /\ CompletionDelivers

\* What the process has taken off the workers and not thrown away.
Kept == delivered \cup Elements(flush.sending)
        \cup UNION {Elements(buffer[q]) : q \in Queues}

\* An acknowledged row is still kept; one that is saved as acknowledged is in Kafka.
AckInv ==
    /\ \A r \in Rows : IsData(r) /\ (r <= tracker.last \/ r \in tracker.pending)
                           => r \in Kept
    /\ main = "add" => current \in Kept
    /\ CheckpointIsDelivered

\* A dry run, and a run that starts behind the first row, save rows that were never
\* delivered; the others do not.
PlainCommandLines == \A c \in Configs : c.start <= 1 /\ ~c.dryRun

-------------------------------------------------------------------------------
(* Sequences of rows *)

\* Append adds one element, Tail takes the head away, \o joins.
LEMMA ElementsOfAppend ==
    ASSUME NEW S, NEW s \in Seq(S), NEW e \in S
    PROVE  Elements(Append(s, e)) = Elements(s) \cup {e}
<1> DEFINE t == Append(s, e)
<1>1. /\ t \in Seq(S) /\ Len(t) = Len(s) + 1 /\ Len(s) \in Nat
      /\ \A i \in 1..Len(s) : t[i] = s[i]
      /\ t[Len(s) + 1] = e
    BY AppendProperties
<1> HIDE DEF t
<1>2. DOMAIN t = 1..Len(t) /\ DOMAIN s = 1..Len(s)
    BY <1>1
<1>3. ASSUME NEW i \in DOMAIN t PROVE t[i] \in Elements(s) \cup {e}
    <2>1. CASE i = Len(s) + 1
        BY <1>1, <2>1
    <2>2. CASE i \in DOMAIN s
        BY <1>1, <1>2, <2>2 DEF Elements
    <2> QED
        BY <1>1, <1>2, <2>1, <2>2
<1>4. Len(s) + 1 \in DOMAIN t /\ \A i \in DOMAIN s : i \in DOMAIN t
    BY <1>1, <1>2
<1>5. e \in Elements(t) /\ \A i \in DOMAIN s : s[i] \in Elements(t)
    BY <1>1, <1>2, <1>4 DEF Elements
<1>6. Elements(t) = Elements(s) \cup {e}
    BY <1>3, <1>5 DEF Elements
<1> QED
    BY <1>6 DEF t

LEMMA ElementsOfTail ==
    ASSUME NEW S, NEW s \in Seq(S), s # <<>>
    PROVE  /\ Head(s) \in S
           /\ Tail(s) \in Seq(S)
           /\ Elements(s) = {Head(s)} \cup Elements(Tail(s))
<1> DEFINE t == Tail(s)
<1>1. /\ Head(s) \in S /\ t \in Seq(S) /\ Len(t) = Len(s) - 1
      /\ \A i \in 1..Len(t) : t[i] = s[i + 1]
    BY HeadTailProperties
<1>2. Head(s) = s[1]
    OBVIOUS
<1> HIDE DEF t
<1>3. Len(s) \in Nat /\ Len(s) >= 1 /\ DOMAIN t = 1..Len(t) /\ DOMAIN s = 1..Len(s)
    BY <1>1
<1>4. ASSUME NEW i \in DOMAIN s PROVE s[i] \in {Head(s)} \cup Elements(t)
    <2>1. CASE i = 1
        BY <1>2, <2>1
    <2>2. CASE i # 1
        <3>1. i - 1 \in DOMAIN t /\ t[i - 1] = s[i]
            BY <1>1, <1>3, <2>2
        <3> QED
            BY <3>1 DEF Elements
    <2> QED
        BY <2>1, <2>2
<1>5. \A i \in DOMAIN t : t[i] \in Elements(s)
    <2>1. \A i \in DOMAIN t : i + 1 \in DOMAIN s /\ t[i] = s[i + 1]
        BY <1>1, <1>3
    <2> QED
        BY <2>1 DEF Elements
<1>6. Head(s) \in Elements(s)
    <2>1. 1 \in DOMAIN s
        BY <1>3
    <2> QED
        BY <1>2, <2>1 DEF Elements
<1>7. Elements(s) = {Head(s)} \cup Elements(t)
    BY <1>4, <1>5, <1>6 DEF Elements
<1> QED
    BY <1>1, <1>7 DEF t

LEMMA ElementsOfConcat ==
    ASSUME NEW S, NEW s \in Seq(S), NEW t \in Seq(S)
    PROVE  s \o t \in Seq(S) /\ Elements(s \o t) = Elements(s) \cup Elements(t)
<1>1. /\ s \o t \in Seq(S)
      /\ DOMAIN (s \o t) = 1..Len(s \o t) /\ DOMAIN s = 1..Len(s) /\ DOMAIN t = 1..Len(t)
    BY ConcatProperties
<1>2. Elements(s) = Range(s) /\ Elements(t) = Range(t) /\ Elements(s \o t) = Range(s \o t)
    BY DEF Elements, Range
<1> QED
    BY <1>1, <1>2, RangeConcatenation

LEMMA NoElements == Elements(<<>>) = {}
<1>1. DOMAIN <<>> = {}
    OBVIOUS
<1> QED
    BY <1>1 DEF Elements

-------------------------------------------------------------------------------
(* The tracker *)

\* RecordAck keeps what was acknowledged, adds the row and nothing else, and never
\* moves the last row back.
LEMMA RecordAckProperties ==
    ASSUME NEW t \in [last: Nat, pending: SUBSET Rows], NEW r \in Rows
    PROVE  /\ RecordAck(t, r) \in [last: Nat, pending: SUBSET Rows]
           /\ RecordAck(t, r).last >= t.last
           /\ \A x \in Rows :
                 x <= RecordAck(t, r).last \/ x \in RecordAck(t, r).pending =>
                     x <= t.last \/ x \in t.pending \/ x = r
<1> DEFINE acked == t.pending \cup {r}
           Runs == {n \in Nat : n >= t.last /\ n + 1 \notin acked}
           Less == {ss \in Nat \X Nat : ss[1] < ss[2]}
           IsLast(n) == /\ n >= t.last
                        /\ (t.last + 1)..n \subseteq acked
                        /\ n + 1 \notin acked
           last == CHOOSE n \in {t.last} \cup acked : IsLast(n)
<1>1. acked \subseteq Rows /\ Rows = 1..Len(File) /\ Len(File) \in Nat /\ t.last \in Nat
    BY FileAssumption DEF Rows
<1> HIDE DEF acked
<1>2. Runs # {} /\ Runs \subseteq Nat
    <2> DEFINE n == IF t.last >= Len(File) THEN t.last ELSE Len(File)
    <2>1. n \in Nat /\ n >= t.last /\ n >= Len(File)
        BY <1>1
    <2>2. n + 1 \notin Rows
        BY <1>1, <2>1
    <2>3. n \in Runs
        BY <1>1, <2>1, <2>2
    <2> QED
        BY <2>3
<1>3. PICK m \in Runs : \A n \in Runs : ~(n < m)
    <2>1. IsWellFoundedOn(Less, Nat)
        BY NatLessThanWellFounded, Zenon DEF OpToRel
    <2> HIDE DEF Less, Runs
    <2>2. PICK m \in Runs : \A n \in Runs : ~(<<n, m>> \in Less)
        BY <1>2, <2>1, WFMin
    <2> QED
        BY <1>2, <2>2 DEF Less
<1>4. (t.last + 1)..m \subseteq acked
    <2> SUFFICES ASSUME NEW x \in (t.last + 1)..m PROVE x \in acked
        OBVIOUS
    <2>1. x - 1 \in Nat /\ x - 1 >= t.last /\ x - 1 < m /\ (x - 1) + 1 = x
        BY <1>1, <1>3
    <2>2. x - 1 \notin Runs
        BY <1>3, <2>1
    <2> QED
        BY <2>1, <2>2
<1>5. m \in {t.last} \cup acked /\ IsLast(m)
    BY <1>1, <1>3, <1>4
<1>6. last \in {t.last} \cup acked /\ IsLast(last)
    <2> HIDE DEF IsLast
    <2> QED
        BY <1>5
<1>7. RecordAck(t, r) = [last |-> last, pending |-> acked \ ((t.last + 1)..last)]
    BY DEF RecordAck, acked
<1> HIDE DEF last
<1>8. last \in Nat /\ last >= t.last /\ (t.last + 1)..last \subseteq acked
    BY <1>1, <1>6
<1>9. ASSUME NEW x \in Rows, x <= last \/ x \in acked
      PROVE  x <= t.last \/ x \in t.pending \/ x = r
    <2>1. CASE x \in acked
        BY <2>1 DEF acked
    <2>2. CASE x <= last /\ x > t.last
        <3>1. x \in (t.last + 1)..last
            BY <1>1, <1>8, <2>2
        <3> QED
            BY <1>8, <2>1, <3>1
    <2> QED
        BY <1>1, <1>9, <2>1, <2>2
<1>10. RecordAck(t, r).last = last /\ RecordAck(t, r).pending \subseteq acked
    BY <1>7
<1>11. RecordAck(t, r) \in [last: Nat, pending: SUBSET Rows]
    <2> DEFINE rest == acked \ ((t.last + 1)..last)
    <2>1. rest \in SUBSET Rows
        BY <1>1
    <2> HIDE DEF rest
    <2>2. RecordAck(t, r) = [last |-> last, pending |-> rest]
        BY <1>7 DEF rest
    <2> QED
        BY <1>8, <2>1, <2>2
<1> QED
    BY <1>8, <1>9, <1>10, <1>11

-------------------------------------------------------------------------------
(* Types *)

\* The memory of a process that is not running has its types.
NoMemoryTypes ==
    /\ TrackerAt(0) \in [last: Nat, pending: SUBSET Rows]
    /\ IdleReader \in [row: 1..(Len(File) + 1), submitted: Nat, closed: BOOLEAN]
    /\ EmptyBuffer \in [Queues -> Seq(Rows)]
    /\ NoFlush \in [owner: {"none", "main", "timer"}, queue: Queues, sending: Seq(Rows)]
    /\ <<>> \in Seq(Rows)

LEMMA NoMemory == NoMemoryTypes
<1>1. Len(File) \in Nat
    BY FileAssumption
<1>2. <<>> \in Seq(Rows)
    OBVIOUS
<1> QED
    BY <1>1, <1>2 DEF NoMemoryTypes, TrackerAt, IdleReader, EmptyBuffer, NoFlush, Queues

LEMMA InitRInv == Init => RInv /\ AckInv
<1> SUFFICES ASSUME Init PROVE RInv /\ AckInv
    OBVIOUS
<1>1. Len(File) \in Nat /\ Rows = 1..Len(File)
    BY FileAssumption DEF Rows
<1>0. NoMemoryTypes
    BY NoMemory
<1> USE DEF Init, Down, NoConfig, EmptyBuffer, NoFlush, IdleReader, TrackerAt, Queues
<1>2. Types
    BY <1>0 DEF Types, Places, NoMemoryTypes
<1>3. FlushInv /\ PoolInv /\ TrackerInv
    BY DEF FlushInv, PoolInv, TrackerInv, AfterLoop, Started
<1>4. NothingIsDropped /\ CompletionDelivers
    BY DEF NothingIsDropped, CompletionDelivers, Started
<1>5. AckInv
    BY <1>1 DEF AckInv, CheckpointIsDelivered
<1> QED
    BY <1>2, <1>3, <1>4, <1>5 DEF RInv

\* What a flush that is done leaves behind has its type.
LEMMA FlushDoneTypes ==
    ASSUME Types, NEW a \in {"main", "timer"}, NEW some \in BOOLEAN,
           Wants(a) \in Queues, FlushDone(a, some)
    PROVE  /\ main' \in Places
           /\ tracker' \in [last: Nat, pending: SUBSET Rows]
           /\ current' \in Rows \cup {0}
           /\ main' # "add" \/ (main' = main /\ current' = current)
           /\ timer' \in {"idle", "raw", "invalid", "failed"}
           /\ UNCHANGED <<config, from, recordsRead, outcome>>
<1>1. CASE a = "timer"
    BY <1>1 DEF Types, FlushDone, mainVars
<1>2. CASE a = "main" /\ main = "add"
    <2>1. current \in Rows
        BY <1>2 DEF Types
    <2>2. /\ tracker' = RecordAck(tracker, current) /\ current' = 0
          /\ main' \in {"save", "loop", "delay"}
          /\ UNCHANGED <<config, from, recordsRead, outcome, timer>>
        BY <1>2 DEF FlushDone, AfterRow
    <2> QED
        BY <2>1, <2>2, RecordAckProperties DEF Types, Places
<1>3. CASE a = "main" /\ main # "add"
    BY <1>3 DEF Types, FlushDone, Places
<1> QED
    BY <1>1, <1>2, <1>3

LEMMA StepTypes == Types /\ FlushInv /\ [Next]_vars => Types'
<1> SUFFICES ASSUME Types, FlushInv, [Next]_vars PROVE Types'
    OBVIOUS
<1>1. Len(File) \in Nat /\ Rows = 1..Len(File)
    BY FileAssumption DEF Rows
<1> USE DEF mainVars, poolVars, flushVars, ctxVars, readOnly
<1>2. ASSUME NEW c \in Configs, Launch(c) PROVE Types'
    <2>1. c.start \in Nat
        BY ConfigsAssumption
    <2> DEFINE n == IF c.start > 0 THEN c.start - 1 ELSE 0
    <2>2. n \in Nat /\ tracker' = [last |-> n, pending |-> {}]
        BY <1>2, <2>1 DEF Launch, TrackerAt
    <2> HIDE DEF n
    <2>3. tracker' \in [last: Nat, pending: SUBSET Rows] /\ from' = c.start
          /\ config' = c /\ main' \in {"reset", "load"}
        BY <1>2, <2>2 DEF Launch
    <2> QED
        BY <1>2, <2>1, <2>3 DEF Launch, Types, Places
<1>3. CASE ResetCheckpoint \/ LoadCheckpoint
    BY <1>3 DEF ResetCheckpoint, LoadCheckpoint, Resume, TrackerAt, Types, Places
<1>4. CASE StopReading \/ StreamBreaks
    BY <1>4 DEF StopReading, StreamBreaks, Types
<1>5. CASE SkipRow
    <2>1. reader' \in [row: 1..(Len(File) + 1), submitted: Nat, closed: BOOLEAN]
        BY <1>1, <1>5 DEF SkipRow, AtEnd, Types
    <2> QED
        BY <1>5, <2>1 DEF SkipRow, Types
<1>6. CASE SubmitRow
    <2>1. reader.row \in Rows /\ reader.submitted \in Nat
        BY <1>1, <1>6 DEF SubmitRow, AtEnd, Types
    <2>2. jobs' \in Seq(Rows)
        BY <1>6, <2>1, AppendProperties DEF SubmitRow, Types
    <2>3. reader' \in [row: 1..(Len(File) + 1), submitted: Nat, closed: BOOLEAN]
        BY <1>1, <1>6, <2>1 DEF SubmitRow
    <2> QED
        BY <1>6, <2>2, <2>3 DEF SubmitRow, Types
<1>7. CASE TakeJob
    BY <1>7, ElementsOfTail DEF TakeJob, Types
<1>8. ASSUME NEW r \in Rows, SendResult(r) PROVE Types'
    BY <1>8, AppendProperties DEF SendResult, Types
<1>9. ASSUME NEW r \in Rows, WorkerExits(r) PROVE Types'
    BY <1>9 DEF WorkerExits, Types
<1>10. CASE TakeResult
    <2> DEFINE r == Head(results)
    <2>1. r \in Rows /\ Tail(results) \in Seq(Rows)
        BY <1>10, ElementsOfTail DEF TakeResult, Types
    <2>2. Queue(r) \in Queues /\ buffer[Queue(r)] \in Seq(Rows)
        BY DEF Queue, Queues, Types
    <2>3. Append(buffer[Queue(r)], r) \in Seq(Rows)
        BY <2>1, <2>2, AppendProperties
    <2>4. buffer' \in [Queues -> Seq(Rows)]
        BY <1>10, <2>2, <2>3 DEF TakeResult, Types
    <2>5. \/ main' = "add" /\ current' = r /\ UNCHANGED tracker
          \/ /\ main' \in {"loop", "delay"} /\ tracker' = RecordAck(tracker, r)
             /\ UNCHANGED current
        BY <1>10 DEF TakeResult, AfterRow
    <2>6. /\ main' \in Places
          /\ tracker' \in [last: Nat, pending: SUBSET Rows]
          /\ current' \in Rows \cup {0}
          /\ main' = "add" => current' \in Rows
        <3>1. RecordAck(tracker, r) \in [last: Nat, pending: SUBSET Rows]
            BY <2>1, RecordAckProperties DEF Types
        <3> HIDE DEF r
        <3> QED
            BY <1>10, <2>1, <2>5, <3>1 DEF TakeResult, Types, Places
    <2> QED
        BY <1>10, <2>1, <2>4, <2>6 DEF TakeResult, Types
<1>11. CASE TakeResultCancelled
    BY <1>11, ElementsOfTail DEF TakeResultCancelled, ReturnNil, Types, Places
<1>12. CASE EndOfResults
    BY <1>12 DEF EndOfResults, ReturnNil, Types, Places
<1>13. CASE SaveCheckpoint \/ Delay
    BY <1>13 DEF SaveCheckpoint, Delay, ReturnNil, Types, Places
<1>14. CASE TimerTick \/ TimerCancels \/ Signal
    BY <1>14 DEF TimerTick, TimerCancels, Signal, Types
<1>15. ASSUME NEW a \in {"main", "timer"}, FlushNothing(a) PROVE Types'
    <2>1. buffer' \in [Queues -> Seq(Rows)]
        BY <1>15 DEF FlushNothing, Types
    <2> QED
        BY <1>15, <2>1, FlushDoneTypes DEF FlushNothing, Types
<1>16. ASSUME NEW a \in {"main", "timer"}, BeginFlush(a) PROVE Types'
    <2>1. flush' \in [owner: {"none", "main", "timer"}, queue: Queues, sending: Seq(Rows)]
        BY <1>16 DEF BeginFlush, Types
    <2>2. buffer' \in [Queues -> Seq(Rows)]
        BY <1>16 DEF BeginFlush, Types
    <2> QED
        BY <1>16, <2>1, <2>2 DEF BeginFlush, Types
<1>17. CASE Produce
    <2>1. Head(flush.sending) \in Rows /\ Tail(flush.sending) \in Seq(Rows)
        BY <1>17, ElementsOfTail DEF Produce, Types, FlushInv
    <2>2. CASE Len(flush.sending) > 1
        <3>1. flush' \in [owner: {"none", "main", "timer"}, queue: Queues,
                          sending: Seq(Rows)]
            <4>1. flush' = [owner |-> flush.owner, queue |-> flush.queue,
                            sending |-> Tail(flush.sending)]
                BY <1>17, <2>2 DEF Produce
            <4>2. flush.owner \in {"none", "main", "timer"} /\ flush.queue \in Queues
                BY DEF Types
            <4> QED
                BY <2>1, <4>1, <4>2
        <3> QED
            BY <1>17, <2>1, <2>2, <3>1 DEF Produce, Types
    <2>3. CASE ~(Len(flush.sending) > 1)
        <3>1. flush.owner \in {"main", "timer"} /\ Wants(flush.owner) \in Queues
            BY <1>17 DEF Produce, Types, FlushInv
        <3>2. FlushDone(flush.owner, TRUE) /\ flush' = NoFlush
            BY <1>17, <2>3 DEF Produce
        <3> QED
            BY <1>17, <2>1, <3>1, <3>2, FlushDoneTypes, NoMemory
               DEF Produce, Types, NoMemoryTypes
    <2> QED
        BY <2>2, <2>3
<1>18. CASE ProduceFails
    <2>1. Head(flush.sending) \in Rows
        BY <1>18, ElementsOfTail DEF ProduceFails, Types, FlushInv
    <2>2. /\ buffer' = [buffer EXCEPT ![flush.queue] = flush.sending \o @]
          /\ flush.queue \in Queues
          /\ flush' = NoFlush
        BY <1>18 DEF ProduceFails, Requeued, Types
    <2>3. flush.sending \o buffer[flush.queue] \in Seq(Rows)
        BY <2>2, ElementsOfConcat DEF Types
    <2>4. buffer' \in [Queues -> Seq(Rows)]
        BY <2>2, <2>3 DEF Types
    <2>5. /\ UNCHANGED <<config, from, tracker, current>>
          /\ main' \in {main, "returned"} /\ timer' \in {timer, "failed"}
        BY <1>18 DEF ProduceFails, ReturnError, ReturnNil
    <2>6. delivered' \subseteq Rows
        BY <1>18, <2>1 DEF ProduceFails, Types
    <2> QED
        BY <1>18, <2>2, <2>4, <2>5, <2>6, NoMemory
           DEF ProduceFails, Types, Places, NoMemoryTypes
<1>19. CASE Exit \/ Crash
    <2>1. Leave
        BY <1>19 DEF Exit, Crash
    <2>2. /\ config' = NoConfig /\ current' = 0 /\ exited' = 0 /\ held' = {}
          /\ tracker' \in [last: Nat, pending: SUBSET Rows]
          /\ reader' \in [row: 1..(Len(File) + 1), submitted: Nat, closed: BOOLEAN]
          /\ buffer' \in [Queues -> Seq(Rows)]
          /\ flush' \in [owner: {"none", "main", "timer"}, queue: Queues, sending: Seq(Rows)]
          /\ jobs' \in Seq(Rows) /\ results' \in Seq(Rows)
        BY <2>1, NoMemory DEF Leave, NoMemoryTypes
    <2>3. main' = "down" /\ timer' = "idle" /\ from' = 1
          /\ cancelled' = FALSE /\ signalled' = FALSE
          /\ UNCHANGED <<delivered, checkpoint>>
        BY <2>1 DEF Leave
    <2> QED
        BY <2>2, <2>3 DEF Types, Places
<1>20. CASE UNCHANGED vars
    BY <1>20 DEF vars, Types
<1> QED
    BY <1>2, <1>3, <1>4, <1>5, <1>6, <1>7, <1>8, <1>9, <1>10, <1>11, <1>12, <1>13, <1>14,
       <1>15, <1>16, <1>17, <1>18, <1>19, <1>20 DEF Next

-------------------------------------------------------------------------------
(* The flusher *)

\* Where the main goroutine, the timer and the tracker are when a flush is done.
LEMMA FlushDoneMoves ==
    ASSUME Types, NEW a \in {"main", "timer"}, NEW some \in BOOLEAN,
           Wants(a) \in Queues, FlushDone(a, some)
    PROVE  /\ UNCHANGED <<config, from, recordsRead, outcome>>
           /\ \/ a = "timer" /\ UNCHANGED <<main, tracker, current>>
              \/ /\ a = "main" /\ main = "add" /\ main' \in {"save", "loop", "delay"}
                 /\ current \in Rows
                 /\ tracker' = RecordAck(tracker, current)
                 /\ timer' = timer
              \/ /\ a = "main" /\ main = "finalRaw" /\ main' = "finalInvalid"
                 /\ UNCHANGED <<tracker, current, timer>>
              \/ /\ a = "main" /\ main = "finalInvalid" /\ main' = "finalSave"
                 /\ UNCHANGED <<tracker, current, timer>>
<1>1. CASE a = "timer"
    BY <1>1 DEF FlushDone, mainVars, AfterRow
<1>2. CASE a = "main"
    <2>1. main \in {"add", "finalRaw", "finalInvalid"}
        BY <1>2 DEF Wants, Queues
    <2> QED
        BY <1>2, <2>1 DEF FlushDone, Types, AfterRow
<1> QED
    BY <1>1, <1>2

LEMMA StepFlushInv == RInv /\ [Next]_vars => FlushInv'
<1> SUFFICES ASSUME RInv, [Next]_vars PROVE FlushInv'
    OBVIOUS
<1>1. Types /\ FlushInv /\ PoolInv
    BY DEF RInv
<1>2. /\ flush.owner \in {"none", "main", "timer"} /\ flush.queue \in Queues
      /\ flush.owner = "main" => main \in {"add", "finalRaw", "finalInvalid"}
      /\ flush.owner = "timer" => timer = flush.queue
    BY <1>1 DEF Types, FlushInv, Wants, Queues
<1>3. ~Started => flush.owner = "none" /\ \A q \in Queues : buffer[q] = <<>>
    BY <1>1 DEF PoolInv
<1> USE DEF mainVars, poolVars, flushVars, ctxVars, readOnly
<1>4. ASSUME UNCHANGED <<config, main, current, buffer, flush, timer>> PROVE FlushInv'
    BY <1>1, <1>4 DEF FlushInv, Wants
<1>5. ASSUME NEW c \in Configs, Launch(c) PROVE FlushInv'
    BY <1>1, <1>3, <1>5 DEF Launch, Started, FlushInv
<1>6. CASE ResetCheckpoint \/ LoadCheckpoint
    BY <1>1, <1>3, <1>6 DEF ResetCheckpoint, LoadCheckpoint, Started, FlushInv
<1>7. CASE \/ StopReading \/ StreamBreaks \/ SkipRow \/ SubmitRow \/ TakeJob \/ Signal
           \/ \E r \in Rows : SendResult(r) \/ WorkerExits(r)
           \/ UNCHANGED vars
    BY <1>4, <1>7 DEF StopReading, StreamBreaks, SkipRow, SubmitRow, TakeJob, SendResult,
       WorkerExits, Signal, vars
<1>8. CASE TakeResult
    <2>1. main = "loop" /\ main' \in {"loop", "delay", "add"} /\ UNCHANGED <<flush, timer, config>>
        BY <1>8 DEF TakeResult, AfterRow
    <2> QED
        BY <1>1, <1>2, <2>1 DEF FlushInv, Wants, AfterLoop
<1>9. CASE TakeResultCancelled \/ EndOfResults
    <2>1. main = "loop" /\ main' \in {"finalRaw", "returned"}
          /\ UNCHANGED <<flush, timer, config>>
        BY <1>9 DEF TakeResultCancelled, Delay, EndOfResults, ReturnNil
    <2> QED
        BY <1>1, <1>2, <2>1 DEF FlushInv, Wants
<1>10. CASE SaveCheckpoint \/ Delay
    <2>1. main \in {"save", "delay", "finalSave"} /\ main' \in {"loop", "delay", "returned"}
          /\ UNCHANGED <<flush, timer, config>>
        BY <1>10 DEF SaveCheckpoint, Delay, ReturnNil
    <2> QED
        BY <1>1, <1>2, <2>1 DEF FlushInv, Wants
<1>11. CASE TimerTick \/ TimerCancels
    <2>1. timer \in {"idle", "failed"} /\ UNCHANGED <<main, flush, buffer, config, current>>
        BY <1>11 DEF TimerTick, TimerCancels
    <2>2. flush.owner # "timer"
        BY <1>2, <2>1 DEF Queues
    <2> QED
        BY <1>1, <1>2, <2>1, <2>2 DEF FlushInv, Wants
<1>12. ASSUME NEW a \in {"main", "timer"}, FlushNothing(a) PROVE FlushInv'
    <2>1. /\ Wants(a) \in Queues /\ flush.owner = "none" /\ flush' = flush
          /\ buffer' = [buffer EXCEPT ![Wants(a)] = <<>>]
          /\ \E some \in BOOLEAN : FlushDone(a, some)
        BY <1>12 DEF FlushNothing
    <2>2. /\ buffer'[Wants(a)] = <<>>
          /\ \A q \in Queues : buffer[q] = <<>> => buffer'[q] = <<>>
        BY <1>1, <2>1 DEF Types
    <2>3. /\ a = "main" /\ main = "finalRaw" => Wants(a) = "raw"
          /\ a = "main" /\ main = "finalInvalid" => Wants(a) = "invalid"
        BY DEF Wants
    <2>4. \/ main' = main
          \/ main' \in {"save", "loop", "delay"}
          \/ a = "main" /\ main = "finalRaw" /\ main' = "finalInvalid"
          \/ a = "main" /\ main = "finalInvalid" /\ main' = "finalSave"
        BY <1>1, <2>1, FlushDoneMoves
    <2> QED
        BY <1>1, <2>1, <2>2, <2>3, <2>4 DEF FlushInv, Queues
<1>13. ASSUME NEW a \in {"main", "timer"}, BeginFlush(a) PROVE FlushInv'
    <2>1. /\ Wants(a) \in Queues /\ flush.owner = "none" /\ buffer[Wants(a)] # <<>>
          /\ ~config.dryRun
          /\ flush' = [owner |-> a, queue |-> Wants(a), sending |-> buffer[Wants(a)]]
          /\ buffer' = [buffer EXCEPT ![Wants(a)] = <<>>]
          /\ UNCHANGED <<config, main, current, timer>>
        BY <1>13 DEF BeginFlush
    <2>2. flush'.owner = a /\ flush'.queue = Wants(a) /\ flush'.sending = buffer[Wants(a)]
        BY <2>1
    <2>3. Wants(a)' = Wants(a)
        BY <2>1, <2>2 DEF Wants
    <2>4. /\ buffer'[Wants(a)] = <<>>
          /\ \A q \in Queues : buffer[q] = <<>> => buffer'[q] = <<>>
        BY <1>1, <2>1 DEF Types
    <2> QED
        BY <1>1, <2>1, <2>2, <2>3, <2>4 DEF FlushInv, Queues
<1>14. CASE Produce
    <2>1. CASE Len(flush.sending) > 1
        <3>1. flush' = [owner |-> flush.owner, queue |-> flush.queue,
                        sending |-> Tail(flush.sending)]
              /\ UNCHANGED <<config, main, current, buffer, timer>>
            BY <1>14, <2>1 DEF Produce
        <3>2. Len(Tail(flush.sending)) = Len(flush.sending) - 1
            BY <1>1, <1>14, HeadTailProperties DEF Produce, Types, FlushInv
        <3>3. Tail(flush.sending) # <<>>
            <4> DEFINE rest == Tail(flush.sending)
            <4>1. Len(rest) > 0
                BY <1>1, <2>1, <3>2 DEF Types
            <4> HIDE DEF rest
            <4>2. rest # <<>>
                BY <4>1
            <4> QED
                BY <4>2 DEF rest
        <3>4. flush'.owner = flush.owner /\ flush'.queue = flush.queue
              /\ flush'.sending = Tail(flush.sending)
            BY <1>1, <3>1 DEF Types
        <3>5. \A a \in {"main", "timer"} : Wants(a)' = Wants(a)
            BY <3>1 DEF Wants
        <3> QED
            BY <1>1, <1>2, <1>14, <3>1, <3>3, <3>4, <3>5 DEF FlushInv, Produce
    <2>2. CASE ~(Len(flush.sending) > 1)
        <3>1. /\ flush' = NoFlush /\ FlushDone(flush.owner, TRUE) /\ UNCHANGED buffer
              /\ flush.owner # "none"
            BY <1>14, <2>2 DEF Produce
        <3>2. Wants(flush.owner) = flush.queue
            BY <1>1, <3>1 DEF FlushInv
        <3>3. /\ flush.owner = "main" /\ main = "finalRaw" => flush.queue = "raw"
              /\ flush.owner = "main" /\ main = "finalInvalid" => flush.queue = "invalid"
            BY <3>2 DEF Wants
        <3>4. \/ main' = main /\ flush.owner = "timer"
              \/ main' \in {"save", "loop", "delay"}
              \/ flush.owner = "main" /\ main = "finalRaw" /\ main' = "finalInvalid"
              \/ flush.owner = "main" /\ main = "finalInvalid" /\ main' = "finalSave"
            BY <1>1, <1>2, <3>1, <3>2, FlushDoneMoves
        <3>5. flush'.owner = "none" /\ flush'.sending = <<>>
            BY <3>1 DEF NoFlush
        <3> QED
            BY <1>1, <3>1, <3>3, <3>4, <3>5 DEF FlushInv, AfterLoop
    <2> QED
        BY <2>1, <2>2
<1>15. CASE ProduceFails
    <2>1. /\ flush.owner # "none" /\ flush' = NoFlush
          /\ buffer' = [buffer EXCEPT ![flush.queue] = flush.sending \o @]
          /\ \/ flush.owner = "timer" /\ main' = main
             \/ main' = "returned"
        BY <1>15 DEF ProduceFails, Requeued, ReturnError, ReturnNil
    <2>2. flush'.owner = "none" /\ flush'.sending = <<>>
        BY <2>1 DEF NoFlush
    <2>3. flush.queue = "invalid" => buffer'["raw"] = buffer["raw"]
        BY <1>1, <2>1 DEF Types, Queues
    <2> QED
        BY <1>1, <2>1, <2>2, <2>3 DEF FlushInv
<1>16. CASE Exit \/ Crash
    <2>1. main' = "down" /\ flush' = NoFlush
        BY <1>16 DEF Exit, Crash, Leave
    <2> QED
        BY <2>1 DEF FlushInv, NoFlush
<1> QED
    BY <1>5, <1>6, <1>7, <1>8, <1>9, <1>10, <1>11, <1>12, <1>13, <1>14, <1>15, <1>16
       DEF Next

-------------------------------------------------------------------------------
(* The pool *)

LEMMA StepPoolInv == RInv /\ [Next]_vars => PoolInv'
<1> SUFFICES ASSUME RInv, [Next]_vars PROVE PoolInv'
    OBVIOUS
<1>1. Types /\ FlushInv /\ PoolInv
    BY DEF RInv
<1> USE DEF mainVars, poolVars, flushVars, ctxVars, readOnly
<1>2. ASSUME UNCHANGED <<main, outcome, recordsRead, reader, poolVars>>,
             cancelled => cancelled',
             ~Started => UNCHANGED <<buffer, flush>>
      PROVE  PoolInv'
    BY <1>1, <1>2 DEF PoolInv, Started
<1>3. ASSUME NEW c \in Configs, Launch(c) PROVE PoolInv'
    BY <1>1, <1>3 DEF Launch, PoolInv, Started, AfterLoop
<1>4. CASE ResetCheckpoint \/ LoadCheckpoint
    BY <1>1, <1>4 DEF ResetCheckpoint, LoadCheckpoint, PoolInv, Started, AfterLoop
<1>5. CASE StopReading \/ StreamBreaks
    <2>1. reader'.closed = TRUE
        BY <1>1, <1>5 DEF StopReading, StreamBreaks, Types
    <2> QED
        BY <1>1, <1>5, <2>1 DEF StopReading, StreamBreaks, PoolInv, Started
<1>6. CASE SkipRow \/ SubmitRow
    BY <1>1, <1>6 DEF SkipRow, SubmitRow, PoolInv, Started
<1>7. CASE TakeJob
    BY <1>1, <1>7 DEF TakeJob, PoolInv, Started
<1>8. ASSUME NEW r \in Rows, SendResult(r) \/ WorkerExits(r) PROVE PoolInv'
    BY <1>1, <1>8 DEF SendResult, WorkerExits, PoolInv, Started
<1>9. CASE TakeResult
    BY <1>1, <1>9 DEF TakeResult, AfterRow, PoolInv, Started, AfterLoop
<1>10. CASE TakeResultCancelled
    BY <1>1, <1>10 DEF TakeResultCancelled, ReturnNil, PoolInv, Started, AfterLoop
<1>11. CASE EndOfResults
    <2>1. /\ main' \in {"finalRaw", "returned"}
          /\ results = <<>> /\ held = {}
          /\ exited = Workers \/ (reader.closed /\ jobs = <<>>)
          /\ UNCHANGED <<reader, poolVars, cancelled>>
        BY <1>11 DEF EndOfResults, ResultsClosed, ReturnNil
    <2>2. exited = Workers => cancelled
        BY <1>1, SizesAssumption DEF PoolInv
    <2> QED
        BY <1>1, <2>1, <2>2 DEF PoolInv, Started, AfterLoop
<1>12. CASE SaveCheckpoint \/ Delay
    <2>1. /\ \/ main \in {"save", "delay"} /\ main' \in {"loop", "delay"}
             \/ main = "delay" /\ cancelled /\ main' = "returned"
             \/ main = "finalSave" /\ main' = "returned"
          /\ UNCHANGED <<reader, poolVars, recordsRead, buffer, flush, cancelled>>
        BY <1>12 DEF SaveCheckpoint, Delay, ReturnNil
    <2> QED
        BY <1>1, <2>1 DEF PoolInv, Started, AfterLoop
<1>13. CASE TimerTick \/ TimerCancels \/ Signal
    BY <1>2, <1>13 DEF TimerTick, TimerCancels, Signal
<1>14. ASSUME main \in {"add", "finalRaw", "finalInvalid"} \/ main' = main,
              main' = main \/ main' \in {"save", "loop", "delay"} \/
                  (main \in AfterLoop /\ main' \in AfterLoop),
              main \in AfterLoop => main' \in AfterLoop,
              main = "returned" => main' = main /\ UNCHANGED outcome,
              UNCHANGED <<reader, poolVars, recordsRead, cancelled>>,
              ~Started => flush' = flush /\ \A q \in Queues : buffer'[q] = <<>>
       PROVE  PoolInv'
    BY <1>1, <1>14 DEF PoolInv, Started, AfterLoop
<1>15. ASSUME NEW a \in {"main", "timer"}, FlushNothing(a) PROVE PoolInv'
    <2>1. PICK some \in BOOLEAN : FlushDone(a, some)
        BY <1>15 DEF FlushNothing
    <2>2. /\ Wants(a) \in Queues /\ flush' = flush
          /\ buffer' = [buffer EXCEPT ![Wants(a)] = <<>>]
          /\ UNCHANGED <<reader, poolVars, cancelled>>
        BY <1>15 DEF FlushNothing
    <2>3. ~Started => \A q \in Queues : buffer'[q] = <<>>
        BY <1>1, <2>2 DEF PoolInv, Types
    <2>4. /\ UNCHANGED <<recordsRead, outcome>>
          /\ \/ main' = main
             \/ main = "add" /\ main' \in {"save", "loop", "delay"}
             \/ main \in AfterLoop \ {"finalSave"} /\ main' \in AfterLoop
        BY <1>1, <2>1, <2>2, FlushDoneMoves DEF AfterLoop
    <2> QED
        BY <1>14, <2>2, <2>3, <2>4 DEF AfterLoop
<1>16. ASSUME NEW a \in {"main", "timer"}, BeginFlush(a) PROVE PoolInv'
    BY <1>1, <1>2, <1>16 DEF BeginFlush, PoolInv
<1>17. CASE Produce
    <2>1. Started
        BY <1>1, <1>17 DEF Produce, PoolInv
    <2>2. CASE Len(flush.sending) > 1
        BY <1>2, <1>17, <2>1, <2>2 DEF Produce
    <2>3. CASE ~(Len(flush.sending) > 1)
        <3>1. FlushDone(flush.owner, TRUE) /\ flush.owner \in {"main", "timer"}
              /\ Wants(flush.owner) \in Queues
              /\ UNCHANGED <<reader, poolVars, cancelled>>
            BY <1>1, <1>17, <2>3 DEF Produce, Types, FlushInv
        <3>2. /\ UNCHANGED <<recordsRead, outcome>>
              /\ \/ main' = main
                 \/ main = "add" /\ main' \in {"save", "loop", "delay"}
                 \/ main \in AfterLoop \ {"finalSave"} /\ main' \in AfterLoop
            BY <1>1, <3>1, FlushDoneMoves DEF AfterLoop
        <3> QED
            BY <1>14, <2>1, <3>1, <3>2 DEF AfterLoop
    <2> QED
        BY <2>2, <2>3
<1>18. CASE ProduceFails
    <2>1. Started
        BY <1>1, <1>18 DEF ProduceFails, PoolInv
    <2>2. /\ UNCHANGED <<reader, poolVars, recordsRead, cancelled>>
          /\ \/ UNCHANGED <<main, outcome>>
             \/ main' = "returned" /\ (cancelled \/ outcome' # "completed")
        BY <1>18 DEF ProduceFails, ReturnError, ReturnNil
    <2>3. CASE main' = main /\ outcome' = outcome
        BY <1>2, <2>1, <2>2, <2>3
    <2>4. CASE main' = "returned" /\ (cancelled \/ outcome' # "completed")
        BY <1>1, <2>1, <2>2, <2>4 DEF PoolInv, Started, AfterLoop
    <2> QED
        BY <2>2, <2>3, <2>4
<1>19. CASE Exit \/ Crash
    BY <1>19 DEF Exit, Crash, Leave, PoolInv, Started, AfterLoop, EmptyBuffer, NoFlush
<1>20. CASE UNCHANGED vars
    BY <1>2, <1>20 DEF vars
<1> QED
    BY <1>3, <1>4, <1>5, <1>6, <1>7, <1>8, <1>9, <1>10, <1>11, <1>12, <1>13, <1>15, <1>16,
       <1>17, <1>18, <1>19, <1>20 DEF Next

\* What a step may do to the tracker: it acknowledges a row, or leaves it alone, or
\* sets it anew before the loop.
LEMMA TrackerMoves ==
    ASSUME RInv, [Next]_vars
    PROVE  \/ UNCHANGED <<tracker, from>>
           \/ UNCHANGED from /\ \E r \in Rows :
                  /\ tracker' = RecordAck(tracker, r)
                  /\ ~Leave
                  /\ \/ TakeResult /\ r = Head(results)
                     \/ main = "add" /\ r = current
           \/ \E c \in Configs : Launch(c)
           \/ LoadCheckpoint
           \/ Leave
<1>1. Types /\ FlushInv
    BY DEF RInv
<1> USE DEF mainVars, poolVars, flushVars, ctxVars, readOnly
<1>2. CASE TakeResult
    <2>1. Head(results) \in Rows /\ from' = from /\ ~Leave
        BY <1>1, <1>2, ElementsOfTail DEF TakeResult, AfterRow, Types, Leave
    <2>2. tracker' = tracker \/ tracker' = RecordAck(tracker, Head(results))
        BY <1>2 DEF TakeResult
    <2> QED
        BY <1>2, <2>1, <2>2
<1>3. ASSUME NEW a \in {"main", "timer"}, NEW some \in BOOLEAN, FlushDone(a, some),
             Wants(a) \in Queues
      PROVE  /\ UNCHANGED from
             /\ \/ tracker' = tracker
                \/ /\ tracker' = RecordAck(tracker, current) /\ current \in Rows
                   /\ main = "add" /\ ~Leave
    BY <1>1, <1>3, FlushDoneMoves DEF Leave
<1>4. ASSUME NEW a \in {"main", "timer"}, FlushNothing(a)
      PROVE  /\ UNCHANGED from
             /\ \/ tracker' = tracker
                \/ /\ tracker' = RecordAck(tracker, current) /\ current \in Rows
                   /\ main = "add" /\ ~Leave
    BY <1>3, <1>4 DEF FlushNothing
<1>5. CASE Produce
    <2>1. CASE Len(flush.sending) > 1
        BY <1>5, <2>1 DEF Produce
    <2>2. CASE ~(Len(flush.sending) > 1)
        <3>1. FlushDone(flush.owner, TRUE) /\ flush.owner \in {"main", "timer"}
              /\ Wants(flush.owner) \in Queues
            BY <1>1, <1>5, <2>2 DEF Produce, Types, FlushInv
        <3> QED
            BY <1>3, <3>1
    <2> QED
        BY <2>1, <2>2
<1>6. CASE ProduceFails
    BY <1>6 DEF ProduceFails, ReturnError, ReturnNil
<1> QED
    BY <1>2, <1>4, <1>5, <1>6
       DEF Next, ResetCheckpoint, StopReading, StreamBreaks, SkipRow, SubmitRow, TakeJob,
           SendResult, WorkerExits, TakeResultCancelled, Delay, EndOfResults, SaveCheckpoint,
           TimerTick, TimerCancels, BeginFlush, Signal, Exit, Crash, vars

LEMMA StepTrackerInv == RInv /\ [Next]_vars => TrackerInv'
<1> SUFFICES ASSUME RInv, [Next]_vars PROVE TrackerInv'
    OBVIOUS
<1>1. Types /\ TrackerInv
    BY DEF RInv
<1>2. tracker.last \in Nat /\ from \in Nat /\ checkpoint \in Nat
    BY <1>1 DEF Types
<1>3. ASSUME NEW r \in Rows, tracker' = RecordAck(tracker, r), UNCHANGED from
      PROVE  TrackerInv'
    <2>1. RecordAck(tracker, r).last \in Nat /\ RecordAck(tracker, r).last >= tracker.last
        BY <1>1, RecordAckProperties DEF Types
    <2> QED
        BY <1>1, <1>2, <1>3, <2>1 DEF TrackerInv
<1>4. ASSUME NEW c \in Configs, Launch(c) PROVE TrackerInv'
    BY <1>4, ConfigsAssumption DEF Launch, TrackerAt, TrackerInv
<1>5. CASE LoadCheckpoint
    BY <1>1, <1>2, <1>5 DEF LoadCheckpoint, Resume, TrackerAt, TrackerInv
<1>6. CASE Leave
    BY <1>6 DEF Leave, TrackerAt, TrackerInv
<1>7. CASE UNCHANGED <<tracker, from>>
    BY <1>1, <1>7 DEF TrackerInv
<1> QED
    BY <1>3, <1>4, <1>5, <1>6, <1>7, TrackerMoves

-------------------------------------------------------------------------------
(* Rows on their way *)

\* What AddEvent and AddInvalid do with a row.
LEMMA TakenIsBuffered ==
    ASSUME Types, TakeResult
    PROVE  /\ Elements(results) = {Head(results)} \cup Elements(results')
           /\ Head(results) \in Kept'
           /\ \A q \in Queues : Elements(buffer[q]) \subseteq Elements(buffer'[q])
<1> DEFINE x == Head(results)
<1>1. x \in Rows /\ Queue(x) \in Queues
      /\ Elements(results) = {x} \cup Elements(results')
    BY ElementsOfTail DEF TakeResult, Types, Queue, Queues
<1>2. buffer' = [buffer EXCEPT ![Queue(x)] = Append(buffer[Queue(x)], x)]
    BY DEF TakeResult
<1>3. buffer[Queue(x)] \in Seq(Rows)
    BY <1>1 DEF Types
<1> HIDE DEF x
<1>4. Elements(Append(buffer[Queue(x)], x)) = Elements(buffer[Queue(x)]) \cup {x}
    BY <1>1, <1>3, ElementsOfAppend
<1>5. /\ x \in Elements(buffer'[Queue(x)])
      /\ \A q \in Queues : Elements(buffer[q]) \subseteq Elements(buffer'[q])
    BY <1>1, <1>2, <1>4 DEF Types
<1>6. x \in Kept'
    BY <1>1, <1>5 DEF Kept
<1> QED
    BY <1>1, <1>5, <1>6 DEF x

\* A flush moves rows between a buffer, a snapshot and Kafka; none is lost unless
\* the run is a dry one or the process leaves.
LEMMA StepKept ==
    ASSUME RInv, [Next]_vars, ~config.dryRun, ~Leave
    PROVE  \A r \in Kept : r \in Kept'
<1> SUFFICES ASSUME NEW r \in Kept PROVE r \in Kept'
    OBVIOUS
<1>1. Types /\ FlushInv
    BY DEF RInv
<1> USE DEF mainVars, poolVars, flushVars, ctxVars, readOnly
<1>2. CASE UNCHANGED <<delivered, buffer, flush>>
    BY <1>2 DEF Kept
<1>3. CASE TakeResult
    BY <1>1, <1>3, TakenIsBuffered DEF TakeResult, Kept
<1>4. ASSUME NEW a \in {"main", "timer"}, FlushNothing(a) PROVE r \in Kept'
    <2>1. Wants(a) \in Queues /\ buffer[Wants(a)] = <<>>
          /\ buffer' = [buffer EXCEPT ![Wants(a)] = <<>>]
          /\ UNCHANGED <<delivered, flush>>
        BY <1>4 DEF FlushNothing, FlushDone
    <2>2. \A q \in Queues : buffer'[q] = buffer[q]
        BY <1>1, <2>1 DEF Types
    <2> QED
        BY <2>1, <2>2 DEF Kept
<1>5. ASSUME NEW a \in {"main", "timer"}, BeginFlush(a) PROVE r \in Kept'
    <2>1. /\ Wants(a) \in Queues /\ flush.owner = "none"
          /\ flush'.sending = buffer[Wants(a)]
          /\ buffer' = [buffer EXCEPT ![Wants(a)] = <<>>]
          /\ delivered' = delivered
        BY <1>5 DEF BeginFlush
    <2>2. Elements(flush.sending) = {}
        BY <1>1, <2>1, NoElements DEF FlushInv
    <2>3. \A q \in Queues : q = Wants(a) \/ buffer'[q] = buffer[q]
        BY <1>1, <2>1 DEF Types
    <2> QED
        BY <2>1, <2>2, <2>3 DEF Kept
<1>6. CASE Produce
    <2>1. /\ flush.sending \in Seq(Rows) /\ flush.sending # <<>>
          /\ delivered' = delivered \cup {Head(flush.sending)}
          /\ buffer' = buffer
        BY <1>1, <1>6 DEF Produce, Types, FlushInv
    <2>2. Elements(flush.sending) = {Head(flush.sending)} \cup Elements(Tail(flush.sending))
        BY <2>1, ElementsOfTail
    <2>3. CASE Len(flush.sending) > 1
        <3>1. flush' = [owner |-> flush.owner, queue |-> flush.queue,
                        sending |-> Tail(flush.sending)]
            BY <1>6, <2>3 DEF Produce
        <3>2. flush'.sending = Tail(flush.sending)
            BY <3>1
        <3> QED
            BY <2>1, <2>2, <3>2 DEF Kept
    <2>4. CASE ~(Len(flush.sending) > 1)
        <3> DEFINE rest == Tail(flush.sending)
                   n == Len(flush.sending)
        <3>1. rest \in Seq(Rows) /\ Len(rest) = n - 1 /\ n \in Nat
            BY <2>1, HeadTailProperties
        <3>2. ~(n > 1)
            BY <2>4
        <3> HIDE DEF rest, n
        <3>3. Len(rest) = 0
            BY <3>1, <3>2
        <3>4. rest = <<>>
            BY <3>1, <3>3, EmptySeq
        <3>5. Tail(flush.sending) = <<>>
            BY <3>4 DEF rest
        <3> QED
            BY <2>1, <2>2, <3>5, NoElements DEF Kept
    <2> QED
        BY <2>3, <2>4
<1>7. CASE ProduceFails
    <2>1. /\ flush.queue \in Queues /\ delivered \subseteq delivered'
          /\ buffer' = [buffer EXCEPT ![flush.queue] = flush.sending \o @]
        BY <1>1, <1>7 DEF ProduceFails, Requeued, Types
    <2>2. Elements(flush.sending \o buffer[flush.queue])
              = Elements(flush.sending) \cup Elements(buffer[flush.queue])
        BY <1>1, <2>1, ElementsOfConcat DEF Types
    <2>3. /\ Elements(flush.sending) \subseteq Elements(buffer'[flush.queue])
          /\ \A q \in Queues : Elements(buffer[q]) \subseteq Elements(buffer'[q])
        BY <1>1, <2>1, <2>2 DEF Types
    <2> QED
        BY <2>1, <2>3 DEF Kept
<1> QED
    BY <1>2, <1>3, <1>4, <1>5, <1>6, <1>7
       DEF Next, Launch, ResetCheckpoint, LoadCheckpoint, StopReading, StreamBreaks, SkipRow,
           SubmitRow, TakeJob, SendResult, WorkerExits, TakeResultCancelled, Delay, EndOfResults,
           SaveCheckpoint, TimerTick, TimerCancels, Signal, Exit, Crash, vars

\* What the pool still has.
Pooled == Elements(jobs) \cup held \cup Elements(results)

LEMMA KeptOrPooled == delivered \cup InFlight = Kept \cup Pooled
BY DEF InFlight, Kept, Pooled, Queues

\* The pool hands its rows on: to a buffer at the end.
LEMMA StepPooled ==
    ASSUME RInv, [Next]_vars, ~cancelled, ~config.dryRun, ~Leave
    PROVE  \A r \in Kept \cup Pooled : r \in Kept' \cup Pooled'
<1> SUFFICES ASSUME NEW r \in Pooled PROVE r \in Kept' \cup Pooled'
    BY StepKept
<1>1. Types
    BY DEF RInv
<1> USE DEF mainVars, poolVars, flushVars, ctxVars, readOnly
<1>2. CASE UNCHANGED poolVars
    BY <1>2 DEF Pooled
<1>3. CASE SubmitRow
    <2>1. reader.row \in Rows
        BY <1>1, <1>3, FileAssumption DEF SubmitRow, AtEnd, Types, Rows
    <2>2. Elements(jobs') = Elements(jobs) \cup {reader.row}
        BY <1>1, <1>3, <2>1, ElementsOfAppend DEF SubmitRow, Types
    <2> QED
        BY <1>3, <2>2 DEF SubmitRow, Pooled
<1>4. CASE TakeJob
    <2>1. Elements(jobs) = {Head(jobs)} \cup Elements(jobs')
        BY <1>1, <1>4, ElementsOfTail DEF TakeJob, Types
    <2> QED
        BY <1>4, <2>1 DEF TakeJob, Pooled
<1>5. ASSUME NEW x \in Rows, SendResult(x) PROVE r \in Pooled'
    <2>1. Elements(results') = Elements(results) \cup {x}
        BY <1>1, <1>5, ElementsOfAppend DEF SendResult, Types
    <2> QED
        BY <1>5, <2>1 DEF SendResult, Pooled
<1>6. CASE TakeResult
    BY <1>1, <1>6, TakenIsBuffered DEF TakeResult, Pooled
<1>7. CASE TakeResultCancelled \/ \E x \in Rows : WorkerExits(x)
    BY <1>7 DEF TakeResultCancelled, WorkerExits
<1> QED
    BY <1>2, <1>3, <1>4, <1>5, <1>6, <1>7
       DEF Next, Launch, ResetCheckpoint, LoadCheckpoint, StopReading, StreamBreaks, SkipRow,
           Delay, EndOfResults, SaveCheckpoint, TimerTick, TimerCancels, FlushNothing, BeginFlush,
           Produce, ProduceFails, Signal, Exit, Crash, vars

\* What a step of a started run leaves as it is.
LEMMA RunGoesOn ==
    ASSUME RInv, [Next]_vars, Started, ~Leave
    PROVE  /\ UNCHANGED <<config, from>>
           /\ cancelled => cancelled'
           /\ delivered \subseteq delivered'
           /\ main = "returned" => main' = "returned" /\ outcome' = outcome
           /\ \/ SkipRow \/ SubmitRow
              \/ reader' = reader
              \/ reader'.row = reader.row /\ ~reader.closed
<1>1. Types /\ FlushInv
    BY DEF RInv
<1> USE DEF mainVars, poolVars, flushVars, ctxVars, readOnly, Started
<1>2. CASE StopReading \/ StreamBreaks
    <2>1. reader'.row = reader.row
        BY <1>1, <1>2 DEF StopReading, StreamBreaks, Types
    <2> QED
        BY <1>2, <2>1 DEF StopReading, StreamBreaks
<1>3. CASE SkipRow \/ SubmitRow \/ TakeJob \/ \E r \in Rows : SendResult(r) \/ WorkerExits(r)
    BY <1>3 DEF SkipRow, SubmitRow, TakeJob, SendResult, WorkerExits
<1>4. CASE TakeResult \/ TakeResultCancelled \/ Delay \/ EndOfResults \/ SaveCheckpoint
    BY <1>4 DEF TakeResult, TakeResultCancelled, Delay, EndOfResults, SaveCheckpoint, ReturnNil
<1>5. CASE TimerTick \/ TimerCancels \/ Signal
    BY <1>5 DEF TimerTick, TimerCancels, Signal
<1>6. ASSUME NEW a \in {"main", "timer"}, NEW some \in BOOLEAN, FlushDone(a, some),
             Wants(a) \in Queues
      PROVE  /\ UNCHANGED <<config, from, outcome>>
             /\ main = "returned" => main' = "returned"
    BY <1>1, <1>6, FlushDoneMoves
<1>7. ASSUME NEW a \in {"main", "timer"}, FlushNothing(a)
      PROVE  /\ UNCHANGED <<config, from, outcome, delivered, reader, cancelled>>
             /\ main = "returned" => main' = "returned"
    BY <1>6, <1>7 DEF FlushNothing
<1>8. ASSUME NEW a \in {"main", "timer"}, BeginFlush(a)
      PROVE  UNCHANGED <<config, from, outcome, delivered, reader, cancelled, main>>
    BY <1>8 DEF BeginFlush
<1>9. CASE Produce
    <2>1. UNCHANGED <<reader, cancelled>> /\ delivered \subseteq delivered'
          /\ flush.owner \in {"main", "timer"} /\ Wants(flush.owner) \in Queues
        BY <1>1, <1>9 DEF Produce, Types, FlushInv
    <2>2. UNCHANGED mainVars \/ FlushDone(flush.owner, TRUE)
        BY <1>9 DEF Produce
    <2>3. UNCHANGED <<config, from, outcome>> /\ (main = "returned" => main' = "returned")
        BY <1>6, <2>1, <2>2
    <2> QED
        BY <2>1, <2>3
<1>10. CASE ProduceFails
    <2>1. UNCHANGED <<reader, cancelled, config, from>> /\ delivered \subseteq delivered'
        BY <1>10 DEF ProduceFails
    <2>2. flush.owner = "timer" => UNCHANGED <<main, outcome>>
        BY <1>10 DEF ProduceFails
    <2>3. flush.owner # "timer" => main # "returned"
        BY <1>1, <1>10 DEF ProduceFails, Types, FlushInv, Wants, Queues
    <2> QED
        BY <2>1, <2>2, <2>3
<1>11. CASE UNCHANGED vars
    BY <1>11 DEF vars
<1> QED
    BY <1>2, <1>3, <1>4, <1>5, <1>7, <1>8, <1>9, <1>10, <1>11
       DEF Next, Launch, ResetCheckpoint, LoadCheckpoint, Exit, Crash

\* A run begins with nothing read.
LEMMA RunBegins ==
    ASSUME RInv, [Next]_vars, ~Started
    PROVE  ~Started' \/ reader' = IdleReader
<1> USE DEF mainVars, poolVars, flushVars, ctxVars, readOnly
<1>1. reader = IdleReader /\ flush.owner = "none" /\ main \notin {"add", "loop"}
      /\ main \notin AfterLoop \cup {"save"}
    BY DEF RInv, PoolInv, Started, AfterLoop
<1>2. CASE \/ \E c \in Configs : Launch(c)
           \/ ResetCheckpoint \/ LoadCheckpoint
           \/ TimerTick \/ TimerCancels \/ Signal
           \/ \E a \in {"main", "timer"} : FlushNothing(a) \/ BeginFlush(a)
           \/ UNCHANGED vars
    BY <1>1, <1>2 DEF Launch, ResetCheckpoint, LoadCheckpoint, TimerTick, TimerCancels, Signal,
       FlushNothing, BeginFlush, vars
<1>3. CASE Exit \/ Crash
    BY <1>3 DEF Exit, Crash, Leave
<1> QED
    BY <1>1, <1>2, <1>3
       DEF Next, Started, StopReading, StreamBreaks, SkipRow, SubmitRow, TakeJob, SendResult,
           WorkerExits, TakeResult, TakeResultCancelled, Delay, EndOfResults, SaveCheckpoint, Produce,
           ProduceFails, AfterLoop

LEMMA StepNothingIsDropped == RInv /\ [Next]_vars => NothingIsDropped'
<1> SUFFICES ASSUME RInv, [Next]_vars,
                    Started', main' # "returned", ~cancelled', ~config'.dryRun,
                    NEW r \in Rows, from' <= r, r < reader'.row, IsData(r)
             PROVE  r \in delivered' \cup InFlight'
    BY DEF NothingIsDropped
<1>1. Types /\ NothingIsDropped /\ r \in Nat /\ r >= 1
    BY FileAssumption DEF RInv, Rows
<1>2. ~Leave
    BY DEF Leave, Started
<1>3. Started
    <2>1. reader'.row # 1
        BY <1>1
    <2> QED
        BY <2>1, RunBegins DEF IdleReader
<1>4. /\ UNCHANGED <<config, from>> /\ ~cancelled /\ main # "returned"
      /\ \/ SkipRow \/ SubmitRow
         \/ reader'.row = reader.row
    BY <1>2, <1>3, RunGoesOn
<1>5. r \in Kept' \cup Pooled' => r \in delivered' \cup InFlight'
    BY DEF InFlight, Kept, Pooled, Queues
<1>6. CASE r < reader.row
    <2>1. r \in delivered \cup InFlight
        BY <1>1, <1>3, <1>4, <1>6 DEF NothingIsDropped
    <2> QED
        BY <1>2, <1>4, <1>5, <2>1, StepPooled, KeptOrPooled
<1>7. CASE ~(r < reader.row)
    <2>1. (SkipRow \/ SubmitRow) /\ r = reader.row
        BY <1>1, <1>4, <1>7 DEF SkipRow, SubmitRow, Types
    <2>2. SubmitRow
        BY <1>1, <1>4, <2>1 DEF SkipRow, Types
    <2>3. Elements(jobs') = Elements(jobs) \cup {r}
        BY <1>1, <2>1, <2>2, ElementsOfAppend DEF SubmitRow, Types
    <2> QED
        BY <1>5, <2>3 DEF Pooled
<1> QED
    BY <1>6, <1>7

LEMMA StepCompletionDelivers == RInv /\ [Next]_vars => CompletionDelivers'
<1> SUFFICES ASSUME RInv, [Next]_vars,
                    main' = "returned", outcome' = "completed", ~cancelled', ~config'.dryRun,
                    NEW r \in Rows, from' <= r, r < reader'.row, IsData(r)
             PROVE  r \in delivered'
    BY DEF CompletionDelivers
<1>1. Types /\ FlushInv /\ PoolInv /\ NothingIsDropped /\ CompletionDelivers
    BY DEF RInv
<1>2. ~Leave
    BY DEF Leave
<1>3. Started
    <2>1. reader'.row # 1 /\ Started'
        BY FileAssumption DEF Rows, Started
    <2> QED
        BY <2>1, RunBegins DEF IdleReader
<1>4. /\ UNCHANGED <<config, from>> /\ ~cancelled /\ delivered \subseteq delivered'
      /\ main = "returned" => outcome' = outcome
      /\ \/ SkipRow \/ SubmitRow
         \/ reader' = reader
         \/ reader'.row = reader.row /\ ~reader.closed
    BY <1>2, <1>3, RunGoesOn
<1>5. CASE main = "returned"
    <2>1. outcome = "completed" /\ reader.closed
        BY <1>1, <1>4, <1>5 DEF PoolInv
    <2>2. reader' = reader
        BY <1>4, <2>1 DEF SkipRow, SubmitRow
    <2> QED
        BY <1>1, <1>4, <1>5, <2>1, <2>2 DEF CompletionDelivers
<1>6. CASE main # "returned"
    <2> USE DEF mainVars, poolVars, flushVars, ctxVars, readOnly
    <2>1. SaveCheckpoint /\ main = "finalSave"
        <3>1. ~TakeResultCancelled /\ ~Delay /\ ~EndOfResults
            BY <1>4, <1>6 DEF TakeResultCancelled, Delay, EndOfResults
        <3>2. ~ProduceFails
            BY <1>4, <1>6 DEF ProduceFails, ReturnError
        <3>3. ASSUME NEW a \in {"main", "timer"} PROVE ~FlushNothing(a)
            BY <1>1, <1>6, FlushDoneMoves DEF FlushNothing
        <3>4. ~Produce
            BY <1>1, <1>6, FlushDoneMoves DEF Produce, Types, FlushInv
        <3> QED
            BY <1>2, <1>6, <3>1, <3>2, <3>3, <3>4
               DEF Next, Launch, ResetCheckpoint, LoadCheckpoint, StopReading, StreamBreaks,
                   SkipRow, SubmitRow, TakeJob, SendResult, WorkerExits, TakeResult,
                   AfterRow, SaveCheckpoint, TimerTick, TimerCancels, BeginFlush, Signal, Exit, Crash,
                   vars
    <2>2. reader' = reader /\ delivered' = delivered
        BY <2>1 DEF SaveCheckpoint
    <2>3. jobs = <<>> /\ held = {} /\ results = <<>>
        BY <1>1, <1>4, <2>1 DEF PoolInv, AfterLoop
    <2>4. buffer["raw"] = <<>> /\ buffer["invalid"] = <<>> /\ flush.sending = <<>>
        BY <1>1, <2>1 DEF FlushInv
    <2>5. InFlight = {}
        BY <2>3, <2>4, NoElements DEF InFlight
    <2>6. r \in delivered \cup InFlight
        BY <1>1, <1>3, <1>4, <1>6, <2>2 DEF NothingIsDropped
    <2> QED
        BY <2>2, <2>5, <2>6
<1> QED
    BY <1>5, <1>6

-------------------------------------------------------------------------------
(* The checkpoint *)

\* Only a reset and a save touch the checkpoint.
LEMMA CheckpointMoves ==
    ASSUME Types, [Next]_vars
    PROVE  \/ checkpoint' = checkpoint
           \/ main = "reset"
           \/ SaveCheckpoint /\ CanSave /\ checkpoint' = tracker.last
BY DEF Next, Launch, ResetCheckpoint, LoadCheckpoint, StopReading, StreamBreaks, SkipRow,
   SubmitRow, TakeJob, SendResult, WorkerExits, TakeResult, TakeResultCancelled,
   Delay, EndOfResults, SaveCheckpoint, TimerTick, TimerCancels, FlushNothing, BeginFlush, Produce,
   ProduceFails, Signal, Exit, Crash, Leave, vars, readOnly, mainVars, poolVars, flushVars,
   ctxVars

\* A save is the one after the loop: everything kept is then in Kafka.
LEMMA SavesAreFinal ==
    ASSUME RInv, SaveCheckpoint, CanSave PROVE main = "finalSave" /\ Kept = delivered
<1>1. main = "finalSave"
    BY DEF RInv, PoolInv, SaveCheckpoint, CanSave, AfterLoop
<1>2. \A q \in Queues : buffer[q] = <<>>
    BY <1>1 DEF RInv, FlushInv, Queues
<1>3. flush.sending = <<>>
    BY <1>1 DEF RInv, FlushInv
<1> QED
    BY <1>1, <1>2, <1>3, NoElements DEF Kept

LEMMA StepAckInv ==
    ASSUME PlainCommandLines, RInv, AckInv, [Next]_vars PROVE AckInv'
<1>1. Types /\ FlushInv /\ PoolInv
    BY DEF RInv
<1>2. ~config.dryRun
    BY <1>1 DEF PlainCommandLines, Types, NoConfig
<1>3. ASSUME ~Leave PROVE \A r \in Kept : r \in Kept'
    BY <1>2, <1>3, StepKept
<1>4. CheckpointIsDelivered'
    <2> SUFFICES ASSUME NEW r \in Rows, r <= checkpoint', IsData(r) PROVE r \in delivered'
        BY DEF CheckpointIsDelivered
    <2>1. delivered \subseteq delivered'
        BY DEF Next, Launch, ResetCheckpoint, LoadCheckpoint, StopReading, StreamBreaks,
           SkipRow, SubmitRow, TakeJob, SendResult, WorkerExits, TakeResult,
           TakeResultCancelled, Delay, EndOfResults, SaveCheckpoint, TimerTick, TimerCancels,
           FlushNothing, BeginFlush, Produce, ProduceFails, Signal, Exit, Crash, Leave, vars,
           readOnly
    <2>2. CASE checkpoint' = checkpoint
        BY <2>1, <2>2 DEF AckInv, CheckpointIsDelivered
    <2>3. CASE ResetCheckpoint
        <3>1. checkpoint' # 0
            BY FileAssumption DEF Rows
        <3> QED
            BY <2>2, <2>3, <3>1 DEF ResetCheckpoint
    <2>4. CASE SaveCheckpoint /\ CanSave /\ checkpoint' = tracker.last
        BY <2>1, <2>4, SavesAreFinal DEF AckInv
    <2>5. main = "reset" /\ ~ResetCheckpoint => checkpoint' = checkpoint
        BY DEF Next, Launch, LoadCheckpoint, StopReading, StreamBreaks, SkipRow, SubmitRow,
           TakeJob, SendResult, WorkerExits, TakeResult, TakeResultCancelled, Delay, EndOfResults,
           SaveCheckpoint, TimerTick, TimerCancels, FlushNothing, BeginFlush, Produce,
           ProduceFails, Signal, Exit, Crash, Leave, vars, readOnly
    <2> QED
        BY <1>1, <2>2, <2>3, <2>4, <2>5, CheckpointMoves
<1>5. main' = "add" => current' \in Kept'
    <2> SUFFICES ASSUME main' = "add" PROVE current' \in Kept'
        OBVIOUS
    <2>1. ~Leave
        BY DEF Leave
    <2>2. CASE main = "add" /\ current' = current
        BY <1>3, <2>1, <2>2 DEF AckInv
    <2>3. CASE TakeResult
        BY <1>1, <2>2, <2>3, TakenIsBuffered DEF TakeResult, AfterRow
    <2>4. ASSUME NEW a \in {"main", "timer"}, NEW some \in BOOLEAN, FlushDone(a, some),
                 Wants(a) \in Queues
          PROVE  main = "add" /\ current' = current
        BY <1>1, <2>4, FlushDoneMoves
    <2>5. ASSUME NEW a \in {"main", "timer"}, FlushNothing(a)
          PROVE  main = "add" /\ current' = current
        BY <2>4, <2>5 DEF FlushNothing
    <2>6. CASE Produce
        <3>1. flush.owner \in {"main", "timer"} /\ Wants(flush.owner) \in Queues
            BY <1>1, <2>6 DEF Produce, Types, FlushInv
        <3> QED
            BY <2>2, <2>4, <2>6, <3>1 DEF Produce, mainVars
    <2> QED
        BY <2>2, <2>3, <2>5, <2>6
           DEF Next, Launch, ResetCheckpoint, LoadCheckpoint, StopReading, StreamBreaks,
               SkipRow, SubmitRow, TakeJob, SendResult, WorkerExits, TakeResultCancelled,
               Delay, EndOfResults, SaveCheckpoint, TimerTick, TimerCancels, BeginFlush,
               ProduceFails, ReturnError, ReturnNil, Signal, Exit, Crash, Leave, vars,
               readOnly, mainVars, poolVars, flushVars, ctxVars
<1>6. ASSUME NEW r \in Rows, IsData(r), r <= tracker'.last \/ r \in tracker'.pending
      PROVE  r \in Kept'
    <2>1. r \in Nat /\ r >= 1
        BY FileAssumption DEF Rows
    <2>2. CASE UNCHANGED <<tracker, from>> /\ ~Leave
        BY <1>3, <1>6, <2>2 DEF AckInv
    <2>3. ASSUME NEW x \in Rows, tracker' = RecordAck(tracker, x), ~Leave,
                 \/ TakeResult /\ x = Head(results)
                 \/ main = "add" /\ x = current
          PROVE  r \in Kept'
        <3>1. r <= tracker.last \/ r \in tracker.pending \/ r = x
            BY <1>1, <1>6, <2>3, RecordAckProperties DEF Types
        <3>2. x \in Kept'
            BY <1>1, <1>3, <2>3, TakenIsBuffered DEF AckInv
        <3> QED
            BY <1>3, <1>6, <2>3, <3>1, <3>2 DEF AckInv
    <2>4. ASSUME NEW c \in Configs, Launch(c) PROVE FALSE
        <3>1. c.start \in Nat /\ c.start <= 1
            BY ConfigsAssumption DEF PlainCommandLines
        <3>2. tracker' = TrackerAt(0)
            BY <2>4, <3>1 DEF Launch
        <3> QED
            BY <1>6, <2>1, <3>2 DEF TrackerAt
    <2>5. CASE LoadCheckpoint /\ ~UNCHANGED <<tracker, from>>
        <3>1. tracker' = TrackerAt(checkpoint) /\ delivered' = delivered
            BY <2>5 DEF LoadCheckpoint, Resume
        <3>2. r <= checkpoint
            BY <1>6, <3>1 DEF TrackerAt
        <3> QED
            BY <1>6, <3>1, <3>2 DEF AckInv, CheckpointIsDelivered, Kept
    <2>6. CASE Leave
        <3>1. tracker' = TrackerAt(0)
            BY <2>6 DEF Leave
        <3> QED
            BY <1>6, <2>1, <3>1 DEF TrackerAt
    <2> QED
        BY <2>2, <2>3, <2>4, <2>5, <2>6, TrackerMoves
<1> QED
    BY <1>4, <1>5, <1>6 DEF AckInv

-------------------------------------------------------------------------------
(* Theorems *)

LEMMA StepRInv == RInv /\ [Next]_vars => RInv'
<1>1. RInv /\ [Next]_vars => Types'
    BY StepTypes DEF RInv
<1> QED
    BY <1>1, StepFlushInv, StepPoolInv, StepTrackerInv, StepNothingIsDropped,
       StepCompletionDelivers DEF RInv

\* The invariant holds in every reachable state.
THEOREM SpecRInv == Spec => []RInv
BY InitRInv, StepRInv, PTL DEF Spec

\* No row is lost between the goroutines or by a failed flush (batcher.go:185-192).
THEOREM SpecNothingIsDropped == Spec => []NothingIsDropped
BY SpecRInv, PTL DEF RInv

\* A run that ends by itself has sent what it read (replay.go:237-246).
THEOREM SpecCompletionDelivers == Spec => []CompletionDelivers
BY SpecRInv, PTL DEF RInv

\* A saved row, and every row before it, is in Kafka, if no run is a dry run and
\* none starts behind the first row (checkpoint.go:18).
THEOREM SpecCheckpointIsDelivered ==
    ASSUME PlainCommandLines PROVE Spec => []CheckpointIsDelivered
<1>1. Init => RInv /\ AckInv
    BY InitRInv
<1>2. (RInv /\ AckInv) /\ [Next]_vars => (RInv /\ AckInv)'
    BY StepRInv, StepAckInv
<1>3. RInv /\ AckInv => CheckpointIsDelivered
    BY DEF AckInv
<1> QED
    BY <1>1, <1>2, <1>3, PTL DEF Spec

\* A run that resumed never moves the checkpoint back (replay.go:118-130, 249-275).
THEOREM SpecResumedNeverMovesBack == Spec => ResumedNeverMovesBack
<1>1. ASSUME RInv, [Next]_vars, checkpoint' < checkpoint
      PROVE  main = "reset" \/ from <= checkpoint
    <2>1. /\ checkpoint \in Nat /\ from \in Nat /\ tracker.last \in Nat
          /\ from <= tracker.last + 1
        BY <1>1 DEF RInv, Types, TrackerInv
    <2>2. CASE checkpoint' = checkpoint
        BY <1>1, <2>1, <2>2
    <2>3. CASE checkpoint' = tracker.last
        BY <1>1, <2>1, <2>3
    <2> QED
        BY <1>1, <2>2, <2>3, CheckpointMoves DEF RInv
<1>2. RInv /\ [Next]_vars
          => [checkpoint' < checkpoint => main = "reset" \/ from <= checkpoint]_vars
    BY <1>1
<1> QED
    BY <1>2, SpecRInv, PTL DEF Spec, ResumedNeverMovesBack
================================================================================
