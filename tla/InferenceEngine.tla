---------------------------- MODULE InferenceEngine ----------------------------
(***************************************************************************)
(* apps/ml-platform/rust-inference beside the worker in one container: at  *)
(* the start, and then at every tick of the reload task, the engine loads  *)
(* the bundle behind the symlink models/current and swaps it in when its   *)
(* model.onnx has another checksum than the model it serves.               *)
(*                                                                         *)
(* load_from_directory opens the files one after another, each through the *)
(* symlink, which the worker may move between any two of them.             *)
(***************************************************************************)
EXTENDS ModelWorker

CONSTANTS
    PoolSize,       \* INFERENCE_SESSION_POOL_SIZE
    MaxLoadFaults   \* bound: loads that fail although the link has not moved

ASSUME PoolAssumption == PoolSize \in Nat \ {0} /\ MaxLoadFaults \in Nat

\* A link that is not there is not the link to a version.
ASSUME NoneAssumption == "none" \notin Versions

VARIABLES
    loader,     \* where a load is, and what it has read so far
    served,     \* the LoadedModel that answers requests
    loadFaults  \* how often a load has failed of itself

engineVars == <<loader, served, loadFaults>>
vars == <<workerVars, engineVars>>

\* A LoadedModel: checksum is that of model.onnx in checksums.sha256 (the model
\* itself stands for it), version comes from feature_schema.json, sessions are
\* built from model.onnx.  The thresholds are the same in every bundle.
Empty     == [checksum |-> NoModel, version |-> "none", sessions |-> <<>>]
NoLoad(at, boot) == [at |-> at, boot |-> boot, from |-> "none", read |-> Empty]
Idle      == NoLoad("idle", FALSE)

EngineInit == /\ loader = NoLoad("start", TRUE)
              /\ served = Empty
              /\ loadFaults = 0

-------------------------------------------------------------------------------
(* load_from_directory *)

Load(from, to) == loader.at = from /\ loader' = [loader EXCEPT !.at = to]

\* The load goes on to `to` with what it has read so far.
Reads(to, read) ==
    loader' = [at |-> to, boot |-> loader.boot, from |-> loader.from, read |-> read]

\* No bundle yet: the engine starts without a model, a reload does nothing.
StartWithoutBundle ==
    /\ current = "none"
    /\ loader.at = "start"
    /\ loader' = Idle
    /\ UNCHANGED <<workerVars, served, loadFaults>>

\* Mutation: a bundle is loaded only while there is no model.
ReadChecksumsOnce ==
    /\ current # "none" /\ served = Empty
    /\ loader.at \in {"start", "idle"}
    /\ loader' = [at |-> "verify", boot |-> loader.boot, from |-> current,
                  read |-> [checksum |-> versions[current], version |-> "none",
                            sessions |-> <<>>]]
    /\ UNCHANGED <<workerVars, served, loadFaults>>

\* checksums.sha256 of the directory that the symlink names now.
ReadChecksums ==
    /\ current # "none"
    /\ loader.at \in {"start", "idle"}
    /\ loader' = [at |-> "verify", boot |-> loader.boot, from |-> current,
                  read |-> [checksum |-> versions[current], version |-> "none",
                            sessions |-> <<>>]]
    /\ UNCHANGED <<workerVars, served, loadFaults>>

\* Every artifact has the checksum that was read.  Schema and manifest name
\* the version, so the artifacts of another version never pass; a load whose
\* last artifact was read before the symlink moved is one that passes here.
VerifyArtifacts ==
    /\ current = loader.from
    /\ Load("verify", "schema")
    /\ UNCHANGED <<workerVars, served, loadFaults>>

ReadSchema ==
    /\ loader.at = "schema"
    /\ Reads("session", [checksum |-> loader.read.checksum, version |-> current,
                         sessions |-> loader.read.sessions])
    /\ UNCHANGED <<workerVars, served, loadFaults>>

\* Mutation: the checksum is taken from the file when its last session is built.
ChecksumOfLastSession ==
    /\ loader.at = "session"
    /\ LET sessions == Append(loader.read.sessions, versions[current])
       IN  Reads(IF Len(sessions) = PoolSize THEN "swap" ELSE "session",
                 [checksum |-> versions[current], version |-> loader.read.version,
                  sessions |-> sessions])
    /\ UNCHANGED <<workerVars, served, loadFaults>>

\* One session of the pool, built from model.onnx.
CommitSession ==
    /\ loader.at = "session"
    /\ LET sessions == Append(loader.read.sessions, versions[current])
       IN  Reads(IF Len(sessions) = PoolSize THEN "swap" ELSE "session",
                 [checksum |-> loader.read.checksum, version |-> loader.read.version,
                  sessions |-> sessions])
    /\ UNCHANGED <<workerVars, served, loadFaults>>

\* A load ends with an error: an artifact is of another version, or a file cannot
\* be read or is missing, the schema or the thresholds are refused, ONNX or CUDA
\* fails, which is bounded.
LoadError ==
    /\ loader.at \in {"verify", "schema", "session"}
    /\ \/ /\ loader.at = "verify" /\ current # loader.from
          /\ UNCHANGED loadFaults
       \/ loadFaults < MaxLoadFaults /\ loadFaults' = loadFaults + 1
    /\ loader' = IF loader.boot THEN NoLoad("exited", FALSE) ELSE Idle

\* Mutation: a candidate that fails takes the place of the served model.
LoadFailsDropsModel == LoadError /\ served' = Empty /\ UNCHANGED workerVars

\* A reload drops the candidate; the start of the engine ends with the error, and
\* nothing starts it again.
LoadFails == LoadError /\ UNCHANGED <<workerVars, served>>

\* hot_swap, or the end of new_with_pool.
HotSwap ==
    /\ loader.at = "swap"
    /\ loader' = Idle
    /\ served' = IF served.checksum = loader.read.checksum THEN served ELSE loader.read
    /\ UNCHANGED <<workerVars, loadFaults>>

-------------------------------------------------------------------------------
EngineStep == \/ StartWithoutBundle \/ ReadChecksums \/ VerifyArtifacts
              \/ ReadSchema \/ CommitSession \/ LoadFails \/ HotSwap

\* The container takes the engine down and brings it up with the worker.
EngineOff    == loader' = NoLoad("off", FALSE) /\ served' = Empty /\ UNCHANGED loadFaults
EngineStarts == loader' = NoLoad("start", TRUE) /\ served' = Empty /\ UNCHANGED loadFaults

PlatformInit == Init /\ EngineInit

PlatformNext ==
    \/ (Work \/ IdlePoll \/ CallFails) /\ UNCHANGED engineVars
    \/ \E o \in Objects : Overwrite(o) /\ UNCHANGED engineVars
    \/ EngineStep
    \/ GoDown /\ EngineOff
    \/ ComeUp /\ EngineStarts

\* The worker's thread and the reload task are scheduled, and Docker restarts
\* the container (restart: unless-stopped).
PlatformSpec ==
    /\ PlatformInit /\ [][PlatformNext]_vars
    /\ WF_vars(Work /\ UNCHANGED engineVars)
    /\ WF_vars(ComeUp /\ EngineStarts)
    /\ WF_vars(EngineStep)

-------------------------------------------------------------------------------
(* Properties *)

\* Every variable stays in its domain.
TypeOK ==
    /\ WorkerTypeOK
    /\ loader \in [at: {"off", "start", "idle", "verify", "schema", "session",
                        "swap", "exited"},
                   boot: BOOLEAN,
                   from: Versions \cup {"none"},
                   read: [checksum: Models \cup {NoModel},
                          version: Versions \cup {"none"}, sessions: Seq(Models)]]
    /\ served \in [checksum: Models \cup {NoModel},
                   version: Versions \cup {"none"}, sessions: Seq(Models)]
    /\ Len(loader.read.sessions) <= PoolSize
    /\ Len(served.sessions) \in {0, PoolSize}
    /\ loadFaults \in 0..MaxLoadFaults

\* What hot_swap relies on when it leaves the served model alone because its
\* checksum is that of the current bundle (onnx_engine.rs:128-134): all of its
\* sessions are then built from that bundle, so a load that the worker tore
\* apart is always replaced at a later tick.  It takes that the messages of one
\* object are not interrupted by those of another: after a, b, a with an
\* overwrite between, a torn load of the first a and b may have the checksum of
\* the second.
MatchingChecksumIsWhole ==
    current # "none" /\ served.checksum = versions[current] =>
        \A i \in DOMAIN served.sessions : served.sessions[i] = versions[current]

\* While the container is up a served model is never withdrawn, nor replaced by
\* that of an earlier message (main.rs:59-62: a bad candidate must not replace
\* the good model).
ServedOnlyMovesForward ==
    [][served # Empty /\ pc' # "down" =>
          /\ served' # Empty
          /\ FirstOffset(served'.version) >= FirstOffset(served.version)]_served

\* When the worker has come to rest, every session of the engine runs the
\* current model, whatever loads failed on the way, unless it was the one at the
\* start of the engine.
SettlesOnCurrent ==
    <>[](current = "none" \/ loader.at = "exited"
         \/ /\ served # Empty
            /\ \A i \in DOMAIN served.sessions : served.sessions[i] = versions[current])
================================================================================
