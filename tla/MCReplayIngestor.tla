--------------------------- MODULE MCReplayIngestor ---------------------------
(* A file of two valid rows, a rejected and a blank one, and the command     *)
(* lines it is replayed with.                                                *)
EXTENDS ReplayIngestor

MCFile == <<"valid", "invalid", "blank", "valid">>

\* make run, make run-reset, a run of limited length, one without checkpoint and
\* one that pauses between rows.
Plain     == NoConfig
WithReset == [NoConfig EXCEPT !.reset = TRUE]
Limited   == [NoConfig EXCEPT !.limit = 2]
Unsaved   == [NoConfig EXCEPT !.disable = TRUE]
Delayed   == [NoConfig EXCEPT !.delay = TRUE]
MCConfigs == {Plain, WithReset, Limited, Unsaved, Delayed}
==============================================================================
