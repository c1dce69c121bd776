--------------------------- MODULE MCInferenceEngine ---------------------------
(* gold.ready as the streamer fills it: an object that is announced twice,   *)
(* and a message that cannot be trained on.                                  *)
EXTENDS InferenceEngine

Ready(version, object, trainable) ==
    [version |-> version, object |-> object, trainable |-> trainable]

MCGold == <<Ready("v1", "a", TRUE), Ready("v2", "a", TRUE),
            Ready("v3", "a", FALSE)>>
================================================================================
