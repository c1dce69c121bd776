----------------------------- MODULE CircuitBreaker -----------------------------
(***************************************************************************)
(* The gate in front of the projection of a batch:                         *)
(* apps/rust-structured-streamer/src/worker/circuit_breaker.rs, as         *)
(* dynamic_pool.rs uses it.  Before a manifest is processed the breaker    *)
(* measures the machine from /proc, trips at the high watermarks and       *)
(* recovers at the low ones.  A refusal fails the batch, and a failed      *)
(* batch ends the process (app.rs); the container is then started again,   *)
(* with a new breaker.                                                     *)
(*                                                                         *)
(* A percentage is a ratio of ticks here, not the f32 nearest to it.       *)
(***************************************************************************)
EXTENDS Integers

CONSTANTS
    HighCpu, LowCpu,             \* watermarks of the processor, in percent
    Batches,                     \* bound: batches to process
    MaxBusy, MaxIdle, MaxIowait, \* bounds: ticks of the kernel
    MaxRises                     \* bound: how often memory use rises

ASSUME BreakerAssumption ==
    /\ HighCpu \in 0..100 /\ LowCpu \in 0..HighCpu
    /\ {Batches, MaxBusy, MaxIdle, MaxIowait, MaxRises} \subseteq Nat

\* The machine is idle for long enough to bring its average since the boot below
\* the high watermark.
ASSUME IdleAssumption == 100 * MaxBusy < HighCpu * (MaxBusy + MaxIdle)

VARIABLES
    busy, idle, iowait,  \* /proc/stat: ticks since the boot
    memory,              \* /proc/meminfo, against the two watermarks
    rises,               \* how often `memory` has risen
    process,             \* the streamer: "up" or "down"
    state,               \* of the breaker: "Closed" or "Open"
    prevIdle, prevTotal, \* the previous sample
    backlog              \* batches still to be processed

kernel  == <<busy, idle, iowait, memory, rises>>
breaker == <<state, prevIdle, prevTotal>>
vars    == <<kernel, process, breaker, backlog>>

\* At most 80 %, between 80 % and 85 %, at least 85 %.
Levels == <<"low", "between", "high">>
Level(l) == CHOOSE n \in DOMAIN Levels : Levels[n] = l

TypeOK ==
    /\ busy \in Nat /\ idle \in Nat /\ iowait \in Nat
    /\ memory \in {"low", "between", "high"}
    /\ rises \in Nat
    /\ process \in {"up", "down"}
    /\ state \in {"Closed", "Open"}
    /\ prevIdle \in Nat /\ prevTotal \in Nat
    /\ backlog \in Nat

-------------------------------------------------------------------------------
(* The measurement: read_proc_metrics *)

\* Mutation: u64 subtraction without saturation (16 bits are wide enough here).
WrappingSub(a, b) == (a - b) % 65536

SaturatingSub(a, b) == IF a > b THEN a - b ELSE 0

IdleTime  == idle + iowait
TotalTime == busy + IdleTime
DiffIdle  == SaturatingSub(IdleTime, prevIdle)
DiffTotal == SaturatingSub(TotalTime, prevTotal)

\* A file that cannot be read, and an interval without a tick, count as 0 %.
CpuAtLeast(percent, readable) ==
    /\ readable
    /\ DiffTotal > 0
    /\ 100 * (DiffTotal - DiffIdle) >= percent * DiffTotal
CpuAtMost(percent, readable) ==
    \/ ~readable
    \/ 100 * (DiffTotal - DiffIdle) <= percent * DiffTotal
MemoryHigh(readable) == readable /\ memory = "high"
MemoryLow(readable)  == readable => memory = "low"

\* The state after can_spawn, which answers whether it is "Closed".
CanSpawn(statReadable, meminfoReadable) ==
    LET overloaded == CpuAtLeast(HighCpu, statReadable) \/ MemoryHigh(meminfoReadable)
        recovered  == CpuAtMost(LowCpu, statReadable) /\ MemoryLow(meminfoReadable)
    IN  IF (state = "Closed" /\ ~overloaded) \/ (state = "Open" /\ recovered)
        THEN "Closed" ELSE "Open"

-------------------------------------------------------------------------------
(* The kernel *)

Init ==
    /\ busy = 0 /\ idle = 0 /\ iowait = 0
    /\ memory = "low" /\ rises = 0
    /\ process = "up"
    /\ state = "Closed" /\ prevIdle = 0 /\ prevTotal = 0
    /\ backlog = Batches

BusyTick ==
    /\ busy < MaxBusy
    /\ busy' = busy + 1
    /\ UNCHANGED <<idle, iowait, memory, rises, process, breaker, backlog>>

IdleTick ==
    /\ idle < MaxIdle
    /\ idle' = idle + 1
    /\ UNCHANGED <<busy, iowait, memory, rises, process, breaker, backlog>>

\* The one counter of /proc/stat that may also fall (proc(5)).
IowaitMoves ==
    /\ iowait' \in {iowait + 1, iowait - 1} \cap 0..MaxIowait
    /\ UNCHANGED <<busy, idle, memory, rises, process, breaker, backlog>>

MemoryRises ==
    /\ rises < MaxRises
    /\ memory' \in {"between", "high"}
    /\ Level(memory') > Level(memory)
    /\ rises' = rises + 1
    /\ UNCHANGED <<busy, idle, iowait, process, breaker, backlog>>

MemoryFalls ==
    /\ memory' \in {"low", "between"}
    /\ Level(memory') < Level(memory)
    /\ UNCHANGED <<busy, idle, iowait, rises, process, breaker, backlog>>

-------------------------------------------------------------------------------
(* The process: DynamicWorkerPool::process_manifest *)

\* The breaker is asked, which takes a sample.
Ask(statReadable, meminfoReadable) ==
    /\ process = "up" /\ backlog > 0
    /\ state' = CanSpawn(statReadable, meminfoReadable)
    /\ IF statReadable
       THEN prevIdle' = IdleTime /\ prevTotal' = TotalTime
       ELSE UNCHANGED <<prevIdle, prevTotal>>
    /\ UNCHANGED kernel

\* The batch is processed.
Accept ==
    \E s, m \in BOOLEAN :
        /\ Ask(s, m)
        /\ state' = "Closed"
        /\ backlog' = backlog - 1
        /\ UNCHANGED process

\* Mutation: the process waits and asks again.
RefuseAndWait ==
    \E s, m \in BOOLEAN :
        /\ Ask(s, m)
        /\ state' = "Open"
        /\ UNCHANGED <<process, backlog>>

\* The batch fails, its offsets stay uncommitted, and the process ends.
Refuse ==
    \E s, m \in BOOLEAN :
        /\ Ask(s, m)
        /\ state' = "Open"
        /\ process' = "down"
        /\ UNCHANGED backlog

\* Mutation: the state of the breaker outlives the process.
RestartWithBreaker ==
    /\ process = "down"
    /\ process' = "up"
    /\ UNCHANGED <<kernel, breaker, backlog>>

\* The supervisor starts the process, which makes a new breaker: its first
\* sample is the average since the boot.
Restart ==
    /\ process = "down"
    /\ process' = "up"
    /\ state' = "Closed" /\ prevIdle' = 0 /\ prevTotal' = 0
    /\ UNCHANGED <<kernel, backlog>>

Next ==
    \/ BusyTick \/ IdleTick \/ IowaitMoves \/ MemoryRises \/ MemoryFalls
    \/ Accept \/ Refuse \/ Restart

\* The process runs when it can, the supervisor restarts it, time passes, and
\* memory use does not stay at its high watermark.  It may stay between the
\* watermarks for good.
Fairness ==
    /\ WF_vars(Accept \/ Refuse)
    /\ WF_vars(Restart)
    /\ WF_vars(IdleTick)
    /\ WF_vars(memory = "high" /\ MemoryFalls)

Spec == Init /\ [][Next]_vars /\ Fairness

-------------------------------------------------------------------------------
(* Properties *)

\* circuit_breaker.rs:110 subtracts two u64 whose operands saturated apart from
\* each other, which panics or wraps if the idle part is the larger one: it never
\* is, whenever the breaker is asked, although iowait may fall between two samples.
UsageIsAPercentage == DiffIdle <= DiffTotal

\* No batch meets an open breaker: the refusal that opens it ends the process
\* (dynamic_pool.rs:35), so that the recovery at the low watermarks
\* (circuit_breaker.rs:66) is never reached.
OpenIsNeverAsked == process = "up" => state = "Closed"

\* A refused batch is processed in the end.  Memory may stay between the
\* watermarks for ever, where an open breaker would not close again.
EveryBatchIsProcessed == <>(backlog = 0)
================================================================================
