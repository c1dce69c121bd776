---------------------------- MODULE DurableIngest ----------------------------
(***************************************************************************)
(* What the structured streamer promises to whoever feeds it and to        *)
(* whoever reads behind it, and nothing of how it keeps the promise: valid *)
(* events become readable downstream in groups, in any order and any       *)
(* number of times, and an offset is acknowledged to Kafka only once every *)
(* valid event below it is readable.  Neither side is ever taken back.     *)
(***************************************************************************)
EXTENDS Naturals, Sequences

CONSTANTS Partitions,  \* the partitions of the raw topic
          Events,      \* the identities (event_id) of events
          Wanted       \* partition -> sequence of sets: the valid event, if
                       \* any, that the message at each offset carries

VARIABLES delivered,   \* the events that readers downstream can fetch
          acked        \* partition -> first offset not yet acknowledged

DurableInit == /\ delivered = {}
               /\ acked = [p \in Partitions |-> 0]

\* A group of events becomes readable downstream.
Deliver == /\ delivered' \in SUBSET Events
           /\ delivered \subseteq delivered'
           /\ UNCHANGED acked

\* Some partitions are acknowledged further, never beyond what is readable.
Acknowledge == /\ acked' \in [Partitions -> Nat]
               /\ \A p \in Partitions :
                     /\ acked[p] <= acked'[p]
                     /\ acked'[p] <= Len(Wanted[p])
                     /\ \A i \in 1..acked'[p] : Wanted[p][i] \subseteq delivered
               /\ UNCHANGED delivered

DurableNext == Deliver \/ Acknowledge

DurableSpec == DurableInit /\ [][DurableNext]_<<delivered, acked>>
==============================================================================
