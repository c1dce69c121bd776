------------------------------ MODULE UdsServer ------------------------------
(***************************************************************************)
(* The request path of the ML platform: go-api opens one connection per    *)
(* prediction to the Unix domain socket of rust-inference, whose listener  *)
(* takes a permit before it spawns a task for a connection; the task reads *)
(* one line, runs a session of the served model and writes one line.       *)
(* Meanwhile the reload task swaps the model, a signal ends the process in *)
(* order, or the container dies and leaves the socket file behind.         *)
(***************************************************************************)
EXTENDS Integers, Sequences, FiniteSets

CONSTANTS
    Calls,           \* calls of IPCClient.Predict, each a connection
    Invalid,         \* those with a request that is refused (too long, not JSON,
                     \* bad identifiers, wrong number of features)
    MaxConcurrency,  \* IPC_MAX_CONCURRENCY
    PoolSize,        \* INFERENCE_SESSION_POOL_SIZE
    Backlog,         \* connections the kernel holds for the listener
    MaxVersion,      \* bound: models that are served one after another
    MaxKills         \* bound: how often the container dies

ASSUME CallsAssumption == IsFiniteSet(Calls) /\ Invalid \subseteq Calls

ASSUME LimitsAssumption ==
    /\ {MaxConcurrency, PoolSize, Backlog} \subseteq Nat \ {0}
    /\ {MaxVersion, MaxKills} \subseteq Nat

VARIABLES
    client,     \* call -> where the client is, and the answer it got
    socket,     \* whether the socket file exists
    listener,   \* where run_until_shutdown is, or how the process ended
    signalled,  \* a shutdown signal has come
    backlog,    \* connections not yet accepted
    permits,    \* free permits of the semaphore
    task,       \* call -> its task in the server
    served,     \* number of the served model, 0 for none
    nextSession,\* model -> its counter, modulo the pool size
    kills       \* how often the container has died

serverVars == <<socket, listener, signalled, backlog, permits, task>>
engineVars == <<served, nextSession>>
vars == <<client, serverVars, engineVars, kills>>

-------------------------------------------------------------------------------
Versions == 1..MaxVersion

\* since is the model served when the call began; an answer names the model that
\* was asked for the score (0: there was none) and the version in the response.
\* An answer that is not ok has the status UNAVAILABLE and neither.
NoAnswer == [ok |-> FALSE, model |-> 0, version |-> 0]
Start    == [at |-> "new", since |-> 0, answer |-> NoAnswer]
NoTask   == [at |-> "none", slot |-> 0, response |-> NoAnswer]

Held    == {"predict", "lock", "run", "version"}    \* one poll of the task
Spawned == {"read", "write"} \cup Held
Open    == {c \in Calls : client[c].at = "waiting"}
Finish(calls, end) ==
    client' = [c \in Calls |-> IF c \in calls THEN [Start EXCEPT !.at = end]
                               ELSE client[c]]

Init ==
    /\ client = [c \in Calls |-> Start]
    /\ socket = FALSE
    /\ listener = "prepare"
    /\ signalled = FALSE
    /\ backlog = <<>>
    /\ permits = MaxConcurrency
    /\ task = [c \in Calls |-> NoTask]
    /\ served = 0
    /\ nextSession = [v \in Versions |-> 0]
    /\ kills = 0

-------------------------------------------------------------------------------
(* The client: IPCClient.Predict *)

Listening == listener \in {"accept", "permit"}

Dial(c) ==
    /\ client[c].at = "new"
    /\ Listening /\ Len(backlog) < Backlog
    /\ client' = [client EXCEPT ![c] = [at |-> "waiting", since |-> served,
                                        answer |-> NoAnswer]]
    /\ backlog' = Append(backlog, c)
    /\ UNCHANGED <<socket, listener, signalled, permits, task, engineVars, kills>>

\* No socket file, nobody behind it, or a full backlog.
DialFails(c) ==
    /\ client[c].at = "new"
    /\ ~Listening \/ Len(backlog) >= Backlog
    /\ Finish({c}, "failed")
    /\ UNCHANGED <<serverVars, engineVars, kills>>

-------------------------------------------------------------------------------
(* The listener: run_until_shutdown *)

\* Mutation: a socket file that was left behind stays.
KeepSocketPath ==
    /\ listener = "prepare"
    /\ listener' = "bind"
    /\ UNCHANGED <<client, socket, signalled, backlog, permits, task, engineVars, kills>>

PrepareSocketPath ==
    /\ listener = "prepare"
    /\ listener' = "bind"
    /\ socket' = FALSE
    /\ UNCHANGED <<client, signalled, backlog, permits, task, engineVars, kills>>

\* bind refuses a path that exists.
Bind ==
    /\ listener = "bind" /\ ~socket
    /\ listener' = "accept"
    /\ socket' = TRUE
    /\ UNCHANGED <<client, signalled, backlog, permits, task, engineVars, kills>>

Accept ==
    /\ listener = "accept" /\ backlog # <<>>
    /\ listener' = "permit"
    /\ task' = [task EXCEPT ![Head(backlog)].at = "accepted"]
    /\ backlog' = Tail(backlog)
    /\ UNCHANGED <<client, socket, signalled, permits, engineVars, kills>>

\* Mutation: the task is spawned first and waits for its permit itself.
SpawnWithoutPermit ==
    /\ listener = "permit"
    /\ listener' = "accept"
    /\ permits' = permits - 1
    /\ task' = [c \in Calls |-> IF task[c].at = "accepted"
                                THEN [task[c] EXCEPT !.at = "read"] ELSE task[c]]
    /\ UNCHANGED <<client, socket, signalled, backlog, engineVars, kills>>

\* The listener waits for a permit and does not look at the signal meanwhile.
AcquirePermit ==
    /\ listener = "permit" /\ permits > 0
    /\ listener' = "accept"
    /\ permits' = permits - 1
    /\ task' = [c \in Calls |-> IF task[c].at = "accepted"
                                THEN [task[c] EXCEPT !.at = "read"] ELSE task[c]]
    /\ UNCHANGED <<client, socket, signalled, backlog, engineVars, kills>>

\* The listener is dropped, and with it every connection of the backlog.
Stop ==
    /\ listener = "accept" /\ signalled
    /\ listener' = "remove"
    /\ Finish({c \in Calls : \E i \in DOMAIN backlog : backlog[i] = c}, "failed")
    /\ backlog' = <<>>
    /\ UNCHANGED <<socket, signalled, permits, task, engineVars, kills>>

RemoveSocket ==
    /\ listener = "remove"
    /\ listener' = "leave"
    /\ socket' = FALSE
    /\ UNCHANGED <<client, signalled, backlog, permits, task, engineVars, kills>>

\* main returns and the runtime drops the tasks that wait for their stream; one
\* that is being polled runs on until it waits.
Exit ==
    /\ listener = "leave"
    /\ \A c \in Calls : task[c].at \notin Held
    /\ listener' = "exited"
    /\ Finish(Open, "failed")
    /\ task' = [c \in Calls |-> NoTask]
    /\ permits' = MaxConcurrency
    /\ UNCHANGED <<socket, signalled, backlog, engineVars, kills>>

-------------------------------------------------------------------------------
(* A task: handle_connection and predict *)

Move(c, from, to) == task[c].at = from /\ task' = [task EXCEPT ![c].at = to]
InTask == UNCHANGED <<socket, listener, signalled, backlog, kills>>

\* The line is complete, if the client ever completes it.  A request that is
\* refused gets an answer at once.
ReadRequest(c) ==
    /\ Move(c, "read", IF c \in Invalid THEN "write" ELSE "predict")
    /\ InTask /\ UNCHANGED <<client, permits, engineVars>>

\* Mutation: no timeout around the read.
NeverTimesOut(c) == FALSE /\ UNCHANGED vars

\* Two seconds without a complete line: the task ends without an answer.
ReadTimesOut(c) ==
    /\ Move(c, "read", "none")
    /\ permits' = permits + 1
    /\ Finish({c}, "failed")
    /\ InTask /\ UNCHANGED engineVars

\* current_model clones the pointer: the task keeps this model over a swap.
Predict(c) ==
    /\ task[c].at = "predict"
    /\ IF served = 0
       THEN task' = [task EXCEPT ![c].at = "write"] /\ UNCHANGED nextSession
       ELSE /\ task' = [task EXCEPT ![c] =
                  [at |-> "lock", slot |-> nextSession[served],
                   response |-> [NoAnswer EXCEPT !.model = served]]]
            /\ nextSession' = [nextSession EXCEPT ![served] = (@ + 1) % PoolSize]
    /\ InTask /\ UNCHANGED <<client, permits, served>>

\* The mutex of the session.
LockSession(c) ==
    /\ \A d \in Calls : ~ /\ task[d].at = "run"
                          /\ task[d].slot = task[c].slot
                          /\ task[d].response.model = task[c].response.model
    /\ Move(c, "lock", "run")
    /\ InTask /\ UNCHANGED <<client, permits, engineVars>>

RunSession(c) ==
    /\ Move(c, "run", "version")
    /\ InTask /\ UNCHANGED <<client, permits, engineVars>>

\* The session fails or its score is not in 0..1: the response is an error.
RunSessionFails(c) ==
    /\ Move(c, "run", "write")
    /\ InTask /\ UNCHANGED <<client, permits, engineVars>>

\* Mutation: the version that was served when the call came in.
ReportedAtStart(c) == client[c].since

\* engine.version() looks at the served model again.
Reported(c) == served

ReadVersion(c) ==
    /\ task[c].at = "version"
    /\ task' = [task EXCEPT ![c] =
          [at |-> "write", slot |-> task[c].slot,
           response |-> [ok |-> TRUE, model |-> task[c].response.model,
                         version |-> Reported(c)]]]
    /\ InTask /\ UNCHANGED <<client, permits, engineVars>>

\* Mutation: the permit is not part of the task.
WriteResponseKeepsPermit(c) ==
    /\ task[c].at = "write"
    /\ task' = [task EXCEPT ![c] = NoTask]
    /\ client' = [client EXCEPT ![c] = [at |-> "answered", since |-> client[c].since,
                                        answer |-> task[c].response]]
    /\ InTask /\ UNCHANGED <<permits, engineVars>>

WriteResponse(c) ==
    /\ task[c].at = "write"
    /\ task' = [task EXCEPT ![c] = NoTask]
    /\ permits' = permits + 1
    /\ client' = [client EXCEPT ![c] = [at |-> "answered", since |-> client[c].since,
                                        answer |-> task[c].response]]
    /\ InTask /\ UNCHANGED engineVars

\* Two seconds without room for the response, or the peer is gone.
WriteFails(c) ==
    /\ task[c].at = "write"
    /\ task' = [task EXCEPT ![c] = NoTask]
    /\ permits' = permits + 1
    /\ Finish({c}, "failed")
    /\ InTask /\ UNCHANGED engineVars

-------------------------------------------------------------------------------
(* Around the server *)

\* The reload task, which main awaits before it returns: a later model is served.
HotSwap ==
    /\ served < MaxVersion /\ listener \notin {"killed", "exited"}
    /\ served' = served + 1
    /\ UNCHANGED <<client, serverVars, nextSession, kills>>

Signal ==
    /\ listener \in {"accept", "permit"} /\ ~signalled
    /\ signalled' = TRUE
    /\ UNCHANGED <<client, socket, listener, backlog, permits, task, engineVars, kills>>

\* The container goes down; its file system, and the socket file, remain.
Kill ==
    /\ kills < MaxKills /\ listener # "killed"
    /\ kills' = kills + 1
    /\ listener' = "killed"
    /\ signalled' = FALSE
    /\ Finish(Open, "failed")
    /\ backlog' = <<>>
    /\ permits' = MaxConcurrency
    /\ task' = [c \in Calls |-> NoTask]
    /\ nextSession' = [v \in Versions |-> 0]
    /\ UNCHANGED <<socket, served>>

\* Docker starts it again; the engine loads the bundle on disk.
Restart ==
    /\ listener = "killed"
    /\ listener' = "prepare"
    /\ UNCHANGED <<client, socket, signalled, backlog, permits, task, engineVars, kills>>

ListenerStep == \/ PrepareSocketPath \/ Bind \/ Accept \/ AcquirePermit
                \/ Stop \/ RemoveSocket \/ Exit
TaskStep(c) == \/ ReadTimesOut(c) \/ Predict(c) \/ LockSession(c)
               \/ RunSession(c) \/ RunSessionFails(c) \/ ReadVersion(c)
               \/ WriteResponse(c) \/ WriteFails(c)

Next == \/ ListenerStep \/ HotSwap \/ Signal \/ Kill \/ Restart
        \/ \E c \in Calls : Dial(c) \/ DialFails(c) \/ ReadRequest(c) \/ TaskStep(c)

\* The listener, every task and Docker go on; a client may never complete its
\* line.  The select of the listener picks among its ready branches at random, so
\* connections without end do not keep it from the signal: Stop needs strong
\* fairness.
Spec == /\ Init /\ [][Next]_vars
        /\ WF_vars(ListenerStep) /\ SF_vars(Stop) /\ WF_vars(Restart)
        /\ \A c \in Calls : WF_vars(TaskStep(c))

-------------------------------------------------------------------------------
(* Properties *)

Answers == [ok: BOOLEAN, model: 0..MaxVersion, version: 0..MaxVersion]
Clients == [at: {"new", "waiting", "answered", "failed"}, since: 0..MaxVersion,
            answer: Answers]
Tasks   == [at: Spawned \cup {"none", "accepted"}, slot: 0..(PoolSize - 1),
            response: Answers]

DomainOK ==
    /\ client \in [Calls -> Clients]
    /\ socket \in BOOLEAN /\ signalled \in BOOLEAN
    /\ listener \in {"killed", "prepare", "bind", "accept", "permit", "remove",
                     "leave", "exited"}
    /\ backlog \in Seq(Calls) /\ Len(backlog) <= Backlog
    /\ task \in [Calls -> Tasks]
    /\ served \in 0..MaxVersion
    /\ nextSession \in [Versions -> 0..(PoolSize - 1)]
    /\ kills \in 0..MaxKills

Running == {c \in Calls : task[c].at \in Spawned}
PermitsOK == /\ permits \in 0..MaxConcurrency
             /\ permits = MaxConcurrency - Cardinality(Running)

\* Every variable stays in its domain, and a permit is out for exactly the
\* spawned tasks: no way out of a task leaks one or returns it twice
\* (uds_server.rs:107-116).
TypeOK == DomainOK /\ PermitsOK

\* An answer with a score comes from one model that was served during the call,
\* however the reload task swaps meanwhile; its version is not that of an older
\* model (onnx_engine.rs:154-218, uds_server.rs:210-221).  A call that began with
\* a model is never told that there is none, also when its answer is an error.
AnswerIsOfOneModel ==
    \A c \in Calls \ Invalid : client[c].at = "answered" =>
        LET a == client[c].answer IN
        /\ client[c].since <= a.model /\ a.model <= served
        /\ a.ok => 0 < a.model /\ a.model <= a.version /\ a.version <= served

\* Every call that got a connection returns in the end, although the client reads
\* without a deadline (ipc_client.go:38): stalled peers hold a permit for two
\* seconds at most, and the end of the server closes the rest.
EveryCallReturns == <>[](Open = {})

\* A shutdown signal ends the process, also when every permit is out and the
\* listener waits for one (uds_server.rs:99-110).
SignalEndsServer == signalled ~> listener \in {"exited", "killed"}

\* After a death of the container the server listens again, in spite of the
\* socket file it left (prepare_socket_path).
ListensAgain == listener = "killed" ~> listener = "accept"
================================================================================
