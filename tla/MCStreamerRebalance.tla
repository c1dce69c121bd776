------------------------- MODULE MCStreamerRebalance -------------------------
(* One partition is enough: a rebalance moves every partition back alike.   *)
EXTENDS StreamerRebalance

Msg(kind, event) == [kind |-> kind, event |-> event, bytes |-> 1]

MCLog == [p \in {0} |-> <<Msg("rejected", "a"), Msg("valid", "a"),
                          Msg("valid", "b"), Msg("valid", "c")>>]
===============================================================================
