------------------------- MODULE MCStructuredStreamer -------------------------
(* Small instances of StructuredStreamer.  In MCLog partition 1 holds an     *)
(* event large enough to fill a batch by its bytes alone, and after it a     *)
(* payload that is not JSON; partition 0 a rejected copy of the event that   *)
(* may come before or after.                                                 *)
EXTENDS StructuredStreamer

Msg(kind, event, bytes) == [kind |-> kind, event |-> event, bytes |-> bytes]

MCLog == [p \in {0, 1} |->
            IF p = 0 THEN <<Msg("valid", "a", 1), Msg("rejected", "b", 1)>>
            ELSE <<Msg("valid", "b", 3), Msg("malformed", "a", 1)>>]
===============================================================================
