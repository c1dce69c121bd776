--------------------------- MODULE StreamerRebalance ---------------------------
(***************************************************************************)
(* The structured streamer when its consumer group rebalances under it: it *)
(* misses its session timeout, its partitions are revoked and handed back. *)
(* KafkaConsumer::new installs no rebalance callback, so the consumer      *)
(* resumes at the committed offsets while the accumulator keeps what it    *)
(* gathered before: messages are gathered twice, and in one buffer.        *)
(***************************************************************************)
EXTENDS StructuredStreamer

CONSTANT MaxRebalances   \* bound: how often the group rebalances
ASSUME RebalanceAssumption == MaxRebalances \in Nat

VARIABLE rebalances      \* how often it has

\* Mutation: a callback drops the buffer and the consumer goes on from where
\* it was.
RebalanceDropsBuffer ==
    /\ pc = "receive"
    /\ rebalances < MaxRebalances
    /\ rebalances' = rebalances + 1
    /\ acc' = EmptyAccumulator
    /\ UNCHANGED <<kafkaVars, storeVars, pc, position, batch, envVars>>

\* Revocation and assignment are served inside recv, never while a batch is
\* processed; a commit refused because the group moved on is a Die step.
Rebalance ==
    /\ pc = "receive"
    /\ rebalances < MaxRebalances
    /\ rebalances' = rebalances + 1
    /\ position' = committed
    /\ UNCHANGED <<kafkaVars, storeVars, pc, acc, batch, envVars>>

RebalanceInit == Init /\ rebalances = 0
RebalanceNext == \/ Next /\ UNCHANGED rebalances
                 \/ Rebalance
RebalanceSpec == /\ RebalanceInit
                 /\ [][RebalanceNext]_<<vars, rebalances>>
                 /\ WF_<<vars, rebalances>>(Process /\ UNCHANGED rebalances)

\* Every valid event of the topic becomes readable behind gold.ready and stays
\* so, although a buffer that outlived a rebalance can commit an offset lower
\* than the one already committed and leave it there.
EverythingBecomesReadable ==
    <>[](\A r \in Messages : IsValid(r) => EventOf(r) \in Readable)

\* What accumulator.rs:10 says of the batch id ("the unique SHA-256 hash of the
\* batch"): two different sets of events are never stored under one id, so a
\* put that overwrites a bronze file drops no event from it.
OverwriteDropsNoEvent ==
    [][\A k \in DOMAIN bronze :
          EventsOf(bronze[k].rows) \subseteq EventsOf(bronze'[k].rows)]_bronze
===============================================================================
