---------------------------- MODULE UdsServerProofs ----------------------------
(***************************************************************************)
(* Theorems about UdsServer for any number of calls, permits, sessions,    *)
(* swaps and deaths of the container.                                      *)
(*                                                                         *)
(* Permits are accounted for because every action that ends a task returns *)
(* its permit, and the listener spawns exactly the one task it accepted    *)
(* (QueueInv).  An answer is of one model because the models a task meets  *)
(* on its way, at the start of the call, at current_model and at           *)
(* engine.version, only grow (CallInv).                                    *)
(***************************************************************************)
EXTENDS UdsServer, TLAPS, FiniteSetTheorems, SequenceTheorems

-------------------------------------------------------------------------------
(* The inductive invariant *)

\* What the property says of an answer.
AnswerInv(since, a) ==
    /\ since <= a.model /\ a.model <= served
    /\ a.ok => 0 < a.model /\ a.model <= a.version /\ a.version <= served

\* What is known of one call: a task belongs to a client that waits, and the
\* models it met so far are in the order in which they were served.
CallInv(c) ==
    /\ task[c].at # "none" => client[c].at = "waiting"
    /\ client[c].at = "waiting" => client[c].since <= served
    /\ task[c].at \in {"none", "accepted", "read", "predict"} =>
          task[c].response = NoAnswer
    /\ task[c].at \in {"lock", "run", "version"} =>
          /\ ~task[c].response.ok /\ task[c].response.model > 0
          /\ client[c].since <= task[c].response.model
          /\ task[c].response.model <= served
    /\ task[c].at = "write" /\ c \notin Invalid =>
          AnswerInv(client[c].since, task[c].response)
    /\ client[c].at = "answered" /\ c \notin Invalid =>
          AnswerInv(client[c].since, client[c].answer)

\* The calls in the backlog wait and have no task yet, each is there once, and
\* nobody but the listener holds the connection it accepted last.
Accepted == {c \in Calls : task[c].at = "accepted"}
QueueInv ==
    /\ \A i \in 1..Len(backlog) : /\ client[backlog[i]].at = "waiting"
                                  /\ task[backlog[i]].at = "none"
    /\ \A i, j \in 1..Len(backlog) : backlog[i] = backlog[j] => i = j
    /\ ~Listening => backlog = <<>>
    /\ listener = "permit" => \E c \in Calls : Accepted = {c}
    /\ listener # "permit" => Accepted = {}

IInv == TypeOK /\ QueueInv /\ \A c \in Calls : CallInv(c)

-------------------------------------------------------------------------------
(* The accounting of permits *)

LEMMA RunningFinite ==
    /\ IsFiniteSet(Running)
    /\ Cardinality(Running) \in Nat
BY CallsAssumption, FS_Subset, FS_CardinalityType DEF Running

\* A step that spawns and ends no task and leaves the permits alone.
LEMMA PermitsSame ==
    ASSUME PermitsOK, Running' = Running, permits' = permits
    PROVE  PermitsOK'
BY DEF PermitsOK

\* A step that gives the one task it spawns a free permit.
LEMMA PermitTaken ==
    ASSUME PermitsOK, NEW c, c \notin Running, Running' = Running \cup {c},
           permits > 0, permits' = permits - 1
    PROVE  PermitsOK'
<1>1. Cardinality(Running') = Cardinality(Running) + 1
  BY RunningFinite, FS_AddElement
<1> QED  BY <1>1, RunningFinite, LimitsAssumption DEF PermitsOK

\* A step that ends one task and returns its permit.
LEMMA PermitReturned ==
    ASSUME PermitsOK, NEW c, c \in Running, Running' = Running \ {c},
           permits' = permits + 1
    PROVE  PermitsOK'
<1>1. Cardinality(Running') = Cardinality(Running) - 1 /\ Cardinality(Running') \in Nat
  BY RunningFinite, FS_RemoveElement, FS_CardinalityType
<1> QED  BY <1>1, RunningFinite, LimitsAssumption DEF PermitsOK

\* All tasks end.
LEMMA PermitsReset ==
    ASSUME task' = [c \in Calls |-> NoTask], permits' = MaxConcurrency
    PROVE  PermitsOK'
<1>1. Running' = {}
  BY DEF Running, NoTask, Spawned, Held
<1> QED  BY <1>1, FS_EmptySet, LimitsAssumption DEF PermitsOK

-------------------------------------------------------------------------------
(* Each action preserves the invariant *)

LEMMA StartTypes ==
    /\ NoAnswer \in Answers
    /\ Start \in Clients
    /\ NoTask \in Tasks
    /\ [v \in Versions |-> 0] \in [Versions -> 0..(PoolSize - 1)]
BY LimitsAssumption DEF NoAnswer, Answers, Start, Clients, NoTask, Tasks

\* A client or a task of a given kind is of its type.
LEMMA ClientType ==
    ASSUME NEW at \in {"new", "waiting", "answered", "failed"},
           NEW since \in 0..MaxVersion, NEW answer \in Answers
    PROVE  [at |-> at, since |-> since, answer |-> answer] \in Clients
BY DEF Clients

LEMMA TaskType ==
    ASSUME NEW at \in Spawned \cup {"none", "accepted"},
           NEW slot \in 0..(PoolSize - 1), NEW response \in Answers
    PROVE  [at |-> at, slot |-> slot, response |-> response] \in Tasks
BY DEF Tasks

LEMMA InitIInv == Init => IInv
<1> SUFFICES ASSUME Init PROVE IInv
    OBVIOUS
<1> USE DEF Init
<1>1. DomainOK
  <2>1. backlog \in Seq(Calls) /\ Len(backlog) <= Backlog
    BY EmptySeq, LimitsAssumption
  <2>2. client \in [Calls -> Clients] /\ task \in [Calls -> Tasks]
    BY StartTypes
  <2>3. served \in 0..MaxVersion /\ kills \in 0..MaxKills
    BY LimitsAssumption
  <2> QED  BY <2>1, <2>2, <2>3, StartTypes DEF DomainOK
<1>2. PermitsOK
  <2>1. Running = {}
    BY DEF Running, NoTask, Spawned, Held
  <2> QED  BY <2>1, FS_EmptySet, LimitsAssumption DEF PermitsOK
<1>3. QueueInv
  BY DEF QueueInv, Listening, Accepted, NoTask
<1>4. \A c \in Calls : CallInv(c)
  BY DEF CallInv, AnswerInv, Start, NoTask
<1> QED  BY <1>1, <1>2, <1>3, <1>4 DEF IInv, TypeOK

LEMMA DialStep ==
    ASSUME IInv, NEW c \in Calls, Dial(c)
    PROVE  IInv'
<1>0. /\ client[c].at = "new" /\ Listening /\ Len(backlog) < Backlog
      /\ client' = [client EXCEPT ![c] = [at |-> "waiting", since |-> served,
                                          answer |-> NoAnswer]]
      /\ backlog' = Append(backlog, c)
      /\ UNCHANGED <<socket, listener, signalled, permits, task, served, nextSession, kills>>
  BY DEF Dial, engineVars
<1>1. DomainOK /\ backlog \in Seq(Calls) /\ Len(backlog) \in Nat
  BY LenProperties DEF IInv, TypeOK, DomainOK
<1>2. /\ backlog' \in Seq(Calls) /\ Len(backlog') = Len(backlog) + 1
      /\ \A i \in 1..Len(backlog) : backlog'[i] = backlog[i] /\ backlog[i] \in Calls
      /\ backlog'[Len(backlog) + 1] = c
  BY <1>0, <1>1, AppendProperties, ElementOfSeq
<1>3. DomainOK'
  <2>1. client'[c] \in Clients /\ client' \in [Calls -> Clients]
    BY <1>0, <1>1, StartTypes, ClientType DEF DomainOK
  <2>2. Len(backlog') <= Backlog
    BY <1>0, <1>1, <1>2, LimitsAssumption
  <2> QED  BY <1>0, <1>1, <1>2, <2>1, <2>2 DEF DomainOK
<1>4. PermitsOK'
  BY <1>0, PermitsSame DEF IInv, TypeOK, Running
<1>5. \A i \in 1..Len(backlog) : backlog[i] # c /\ client'[backlog[i]] = client[backlog[i]]
  BY <1>0, <1>1, <1>2 DEF IInv, QueueInv, DomainOK
<1>6. task[c].at = "none" /\ client'[c].at = "waiting"
  BY <1>0, <1>1 DEF IInv, CallInv, AnswerInv, DomainOK
<1>7. QueueInv'
  <2>1. \A i \in 1..Len(backlog') : /\ client'[backlog'[i]].at = "waiting"
                                    /\ task'[backlog'[i]].at = "none"
    BY <1>0, <1>1, <1>2, <1>5, <1>6 DEF IInv, QueueInv
  <2>2. \A i, j \in 1..Len(backlog') : backlog'[i] = backlog'[j] => i = j
    BY <1>0, <1>1, <1>2, <1>5 DEF IInv, QueueInv
  <2> QED  BY <1>0, <2>1, <2>2 DEF IInv, QueueInv, Listening, Accepted
<1>8. ASSUME NEW d \in Calls PROVE CallInv(d)'
  BY <1>0, <1>1, <1>6 DEF IInv, CallInv, AnswerInv, DomainOK
<1> QED  BY <1>3, <1>4, <1>7, <1>8 DEF IInv, TypeOK

\* Steps of the listener, a signal and a restart leave clients, tasks and queue
\* alone.
LEMMA QuietStep ==
    ASSUME IInv, UNCHANGED <<client, backlog, permits, task, served, nextSession, kills>>,
           socket' \in BOOLEAN, signalled' \in BOOLEAN,
           listener' \in {"killed", "prepare", "bind", "accept", "permit",
                          "remove", "leave", "exited"},
           listener' = "permit" <=> listener = "permit",
           ~Listening' => backlog = <<>>
    PROVE  IInv'
<1>1. DomainOK'
  BY DEF IInv, TypeOK, DomainOK
<1>2. PermitsOK'
  BY PermitsSame DEF IInv, TypeOK, Running
<1>3. QueueInv'
  BY DEF IInv, QueueInv, Accepted
<1>4. \A d \in Calls : CallInv(d)'
  BY DEF IInv, CallInv, AnswerInv
<1> QED  BY <1>1, <1>2, <1>3, <1>4 DEF IInv, TypeOK

LEMMA ListenerQuietSteps ==
    ASSUME IInv, PrepareSocketPath \/ Bind \/ RemoveSocket \/ Signal \/ Restart
                 \/ UNCHANGED vars
    PROVE  IInv'
<1>1. UNCHANGED <<client, backlog, permits, task, served, nextSession, kills>>
  BY DEF PrepareSocketPath, Bind, RemoveSocket, Signal, Restart, vars, serverVars, engineVars
<1>2. socket \in BOOLEAN /\ signalled \in BOOLEAN
  BY DEF IInv, TypeOK, DomainOK
<1>3. socket' \in BOOLEAN /\ signalled' \in BOOLEAN
  BY <1>2 DEF PrepareSocketPath, Bind, RemoveSocket, Signal, Restart, vars, serverVars
<1>4. /\ listener' \in {"killed", "prepare", "bind", "accept", "permit",
                        "remove", "leave", "exited"}
      /\ listener' = "permit" <=> listener = "permit"
      /\ ~Listening' => backlog = <<>>
  BY DEF PrepareSocketPath, Bind, RemoveSocket, Signal, Restart, vars, serverVars,
         Listening, IInv, TypeOK, DomainOK, QueueInv
<1> QED  BY <1>1, <1>3, <1>4, QuietStep

LEMMA DialFailsStep ==
    ASSUME IInv, NEW c \in Calls, DialFails(c)
    PROVE  IInv'
<1>0. /\ client[c].at = "new"
      /\ client' = [d \in Calls |-> IF d \in {c} THEN [Start EXCEPT !.at = "failed"]
                                    ELSE client[d]]
      /\ UNCHANGED <<socket, listener, signalled, backlog, permits, task, served,
                     nextSession, kills>>
  BY DEF DialFails, Finish, serverVars, engineVars
<1>1. DomainOK
  BY DEF IInv, TypeOK
<1>2. DomainOK'
  <2>1. [Start EXCEPT !.at = "failed"] \in Clients
    BY StartTypes DEF Clients
  <2> QED  BY <1>0, <1>1, <2>1 DEF DomainOK
<1>3. PermitsOK'
  BY <1>0, PermitsSame DEF IInv, TypeOK, Running
<1>4. QueueInv'
  <2>1. \A i \in 1..Len(backlog) : backlog[i] \in Calls /\ backlog[i] # c
    BY <1>0, <1>1, ElementOfSeq DEF IInv, QueueInv, DomainOK
  <2> QED  BY <1>0, <2>1 DEF IInv, QueueInv, Listening, Accepted
<1>5. ASSUME NEW d \in Calls PROVE CallInv(d)'
  BY <1>0, <1>1 DEF IInv, CallInv, AnswerInv, Start, DomainOK
<1> QED  BY <1>2, <1>3, <1>4, <1>5 DEF IInv, TypeOK

LEMMA AcceptStep ==
    ASSUME IInv, Accept
    PROVE  IInv'
<1> DEFINE c == Head(backlog)
<1>0. /\ listener = "accept" /\ backlog # <<>> /\ listener' = "permit"
      /\ task' = [task EXCEPT ![c].at = "accepted"]
      /\ backlog' = Tail(backlog)
      /\ UNCHANGED <<client, socket, signalled, permits, served, nextSession, kills>>
  BY DEF Accept, engineVars
<1>1. DomainOK /\ backlog \in Seq(Calls) /\ Len(backlog) \in Nat \ {0}
  BY <1>0, EmptySeq DEF IInv, TypeOK, DomainOK
<1>2. /\ c \in Calls /\ c = backlog[1]
      /\ backlog' \in Seq(Calls) /\ Len(backlog') = Len(backlog) - 1
      /\ \A i \in 1..Len(backlog') : backlog'[i] = backlog[i + 1]
  BY <1>0, <1>1, HeadTailProperties
<1> HIDE DEF c
<1>3. task[c].at = "none" /\ client[c].at = "waiting"
  BY <1>1, <1>2 DEF IInv, QueueInv
<1>4. DomainOK'
  <2>1. [task[c] EXCEPT !.at = "accepted"] \in Tasks
    BY <1>1, <1>2 DEF DomainOK, Tasks
  <2>2. task' \in [Calls -> Tasks]
    BY <1>0, <1>1, <2>1 DEF DomainOK
  <2>3. Len(backlog') <= Backlog
    BY <1>1, <1>2, LimitsAssumption DEF DomainOK
  <2> QED  BY <1>0, <1>1, <1>2, <2>2, <2>3 DEF DomainOK
<1>5. PermitsOK'
  <2>1. Running' = Running
    BY <1>0, <1>1, <1>2, <1>3 DEF Running, Spawned, Held, DomainOK
  <2> QED  BY <1>0, <2>1, PermitsSame DEF IInv, TypeOK
<1>6. QueueInv'
  <2>1. \A i \in 1..Len(backlog') : /\ i + 1 \in 1..Len(backlog)
                                    /\ backlog'[i] = backlog[i + 1]
                                    /\ backlog'[i] # c /\ backlog'[i] \in Calls
    BY <1>1, <1>2, ElementOfSeq DEF IInv, QueueInv
  <2>2. \A i \in 1..Len(backlog') : /\ client'[backlog'[i]].at = "waiting"
                                    /\ task'[backlog'[i]].at = "none"
    BY <1>0, <1>1, <2>1 DEF IInv, QueueInv, DomainOK
  <2>3. \A i, j \in 1..Len(backlog') : backlog'[i] = backlog'[j] => i = j
    <3> SUFFICES ASSUME NEW i \in 1..Len(backlog'), NEW j \in 1..Len(backlog'),
                        backlog'[i] = backlog'[j]
                 PROVE  i = j
        OBVIOUS
    <3>1. i + 1 = j + 1
      BY <2>1 DEF IInv, QueueInv
    <3> QED  BY <3>1
  <2>4. Accepted' = {c}
    BY <1>0, <1>1, <1>2 DEF IInv, QueueInv, Accepted, DomainOK
  <2> QED  BY <1>0, <1>2, <2>2, <2>3, <2>4 DEF QueueInv, Listening
<1>7. ASSUME NEW d \in Calls PROVE CallInv(d)'
  BY <1>0, <1>1, <1>2, <1>3 DEF IInv, CallInv, AnswerInv, DomainOK
<1> QED  BY <1>4, <1>5, <1>6, <1>7 DEF IInv, TypeOK

\* The permit goes to the one task that was accepted.
LEMMA AcquirePermitStep ==
    ASSUME IInv, AcquirePermit
    PROVE  IInv'
<1>0. /\ listener = "permit" /\ permits > 0 /\ listener' = "accept"
      /\ permits' = permits - 1
      /\ task' = [d \in Calls |-> IF task[d].at = "accepted"
                                  THEN [task[d] EXCEPT !.at = "read"] ELSE task[d]]
      /\ UNCHANGED <<client, socket, signalled, backlog, served, nextSession, kills>>
  BY DEF AcquirePermit, engineVars
<1>1. DomainOK
  BY DEF IInv, TypeOK
<1>2. PICK c \in Calls : Accepted = {c}
  BY <1>0 DEF IInv, QueueInv
<1>3. /\ task[c].at = "accepted" /\ task'[c].at = "read"
      /\ task'[c].response = task[c].response
      /\ \A d \in Calls : d # c => task'[d] = task[d] /\ task[d].at # "accepted"
  BY <1>0, <1>1, <1>2 DEF Accepted, DomainOK, Tasks
<1>4. DomainOK'
  <2>1. \A d \in Calls : [task[d] EXCEPT !.at = "read"] \in Tasks
    BY <1>1 DEF DomainOK, Tasks, Spawned
  <2> QED  BY <1>0, <1>1, <2>1 DEF DomainOK
<1>5. PermitsOK'
  <2>1. Running' = Running \cup {c} /\ c \notin Running
    BY <1>3 DEF Running, Spawned, Held
  <2> QED  BY <1>0, <2>1, PermitTaken DEF IInv, TypeOK
<1>6. QueueInv'
  <2>1. \A i \in 1..Len(backlog) : backlog[i] \in Calls /\ backlog[i] # c
    BY <1>1, <1>3, ElementOfSeq DEF IInv, QueueInv, DomainOK
  <2>2. Accepted' = {}
    BY <1>3 DEF Accepted
  <2> QED  BY <1>0, <1>3, <2>1, <2>2 DEF IInv, QueueInv, Listening
<1>7. ASSUME NEW d \in Calls PROVE CallInv(d)'
  BY <1>0, <1>1, <1>3 DEF IInv, CallInv, AnswerInv
<1> QED  BY <1>4, <1>5, <1>6, <1>7 DEF IInv, TypeOK

LEMMA StopStep ==
    ASSUME IInv, Stop
    PROVE  IInv'
<1> DEFINE Waiting == {c \in Calls : \E i \in DOMAIN backlog : backlog[i] = c}
<1>0. /\ listener = "accept" /\ listener' = "remove" /\ backlog' = <<>>
      /\ client' = [d \in Calls |-> IF d \in Waiting THEN [Start EXCEPT !.at = "failed"]
                                    ELSE client[d]]
      /\ UNCHANGED <<socket, signalled, permits, task, served, nextSession, kills>>
  BY DEF Stop, Finish, engineVars
<1>1. DomainOK /\ DOMAIN backlog = 1..Len(backlog)
  BY LenProperties DEF IInv, TypeOK, DomainOK
<1>2. \A d \in Waiting : task[d].at = "none"
  BY <1>1 DEF IInv, QueueInv
<1> HIDE DEF Waiting
<1>3. DomainOK'
  <2>1. [Start EXCEPT !.at = "failed"] \in Clients
    BY StartTypes DEF Clients
  <2>2. client' \in [Calls -> Clients]
    BY <1>0, <1>1, <2>1 DEF DomainOK
  <2>3. backlog' \in Seq(Calls) /\ Len(backlog') <= Backlog
    BY <1>0, EmptySeq, LimitsAssumption
  <2> QED  BY <1>0, <1>1, <2>2, <2>3 DEF DomainOK
<1>4. PermitsOK'
  BY <1>0, PermitsSame DEF IInv, TypeOK, Running
<1>5. QueueInv'
  BY <1>0 DEF IInv, QueueInv, Listening, Accepted
<1>6. ASSUME NEW d \in Calls PROVE CallInv(d)'
  BY <1>0, <1>2 DEF IInv, CallInv, AnswerInv, Start
<1> QED  BY <1>3, <1>4, <1>5, <1>6 DEF IInv, TypeOK

\* The process is gone, in order or not: its tasks end and open calls fail.
LEMMA ProcessEnds ==
    ASSUME IInv, Finish(Open, "failed"), backlog' = <<>>,
           task' = [c \in Calls |-> NoTask], permits' = MaxConcurrency,
           listener' \in {"killed", "exited"}, socket' = socket,
           signalled' \in BOOLEAN, served' = served,
           nextSession' \in [Versions -> 0..(PoolSize - 1)], kills' \in 0..MaxKills
    PROVE  IInv'
<1>1. DomainOK
  BY DEF IInv, TypeOK
<1>2. /\ client' = [d \in Calls |-> IF d \in Open THEN [Start EXCEPT !.at = "failed"]
                                    ELSE client[d]]
      /\ \A d \in Calls : d \in Open <=> client[d].at = "waiting"
  BY DEF Finish, Open
<1>3. DomainOK'
  <2>1. [Start EXCEPT !.at = "failed"] \in Clients
    BY StartTypes DEF Clients
  <2>2. client' \in [Calls -> Clients]
    BY <1>1, <1>2, <2>1 DEF DomainOK
  <2>3. backlog' \in Seq(Calls) /\ Len(backlog') <= Backlog
    BY EmptySeq, LimitsAssumption
  <2>4. task' \in [Calls -> Tasks]
    BY StartTypes
  <2> QED  BY <1>1, <2>2, <2>3, <2>4 DEF DomainOK
<1>4. PermitsOK'
  BY PermitsReset
<1>5. QueueInv'
  BY DEF QueueInv, Listening, Accepted, NoTask
<1>6. ASSUME NEW d \in Calls PROVE CallInv(d)'
  <2>1. CASE d \in Open
    BY <1>2, <2>1 DEF CallInv, AnswerInv, Start, NoTask
  <2>2. CASE d \notin Open
    BY <1>2, <2>2 DEF IInv, CallInv, AnswerInv, NoTask
  <2> QED  BY <2>1, <2>2
<1> QED  BY <1>3, <1>4, <1>5, <1>6 DEF IInv, TypeOK

LEMMA ExitStep == IInv /\ Exit => IInv'
<1> SUFFICES ASSUME IInv, Exit PROVE IInv'
    OBVIOUS
<1>1. backlog = <<>>
  BY DEF Exit, IInv, QueueInv, Listening
<1>2. /\ Finish(Open, "failed") /\ backlog' = <<>> /\ listener' = "exited"
      /\ task' = [c \in Calls |-> NoTask] /\ permits' = MaxConcurrency
      /\ UNCHANGED <<socket, signalled, served, nextSession, kills>>
  BY <1>1 DEF Exit, engineVars
<1> QED  BY <1>2, ProcessEnds DEF IInv, TypeOK, DomainOK

LEMMA KillStep == IInv /\ Kill => IInv'
<1> SUFFICES ASSUME IInv, Kill PROVE IInv'
    OBVIOUS
<1>1. /\ Finish(Open, "failed") /\ backlog' = <<>> /\ listener' = "killed"
      /\ task' = [c \in Calls |-> NoTask] /\ permits' = MaxConcurrency
      /\ signalled' = FALSE /\ UNCHANGED <<socket, served>>
      /\ nextSession' = [v \in Versions |-> 0]
  BY DEF Kill
<1>2. kills' \in 0..MaxKills
  BY LimitsAssumption DEF Kill, IInv, TypeOK, DomainOK
<1> QED  BY <1>1, <1>2, StartTypes, ProcessEnds

\* A step inside a task that keeps its permit.
LEMMA TaskMoves ==
    ASSUME IInv, NEW c \in Calls, task[c].at \in Spawned,
           NEW t \in Tasks, t.at \in Spawned, task' = [task EXCEPT ![c] = t],
           UNCHANGED <<client, socket, listener, signalled, backlog, permits, served, kills>>,
           nextSession' \in [Versions -> 0..(PoolSize - 1)],
           CallInv(c)'
    PROVE  IInv'
<1>1. DomainOK
  BY DEF IInv, TypeOK
<1>2. task'[c] = t /\ \A d \in Calls : d # c => task'[d] = task[d]
  BY <1>1 DEF DomainOK
<1>3. DomainOK'
  BY <1>1 DEF DomainOK
<1>4. PermitsOK'
  <2>1. Running' = Running
    BY <1>2 DEF Running
  <2> QED  BY <2>1, PermitsSame DEF IInv, TypeOK
<1>5. QueueInv'
  <2>1. \A i \in 1..Len(backlog) : backlog[i] \in Calls /\ backlog[i] # c
    BY <1>1, ElementOfSeq DEF IInv, QueueInv, DomainOK, Spawned, Held
  <2>2. Accepted' = Accepted
    BY <1>2 DEF Accepted, Spawned, Held
  <2> QED  BY <1>2, <2>1, <2>2 DEF IInv, QueueInv, Listening
<1>6. ASSUME NEW d \in Calls PROVE CallInv(d)'
  BY <1>2 DEF IInv, CallInv, AnswerInv
<1> QED  BY <1>3, <1>4, <1>5, <1>6 DEF IInv, TypeOK

\* The end of a task: the permit comes back and the call returns.
LEMMA TaskEnds ==
    ASSUME IInv, NEW c \in Calls, task[c].at \in Spawned,
           NEW t \in Tasks, t.at = "none", task' = [task EXCEPT ![c] = t],
           NEW k \in Clients, k.at \in {"answered", "failed"},
           client' = [d \in Calls |-> IF d = c THEN k ELSE client[d]],
           permits' = permits + 1,
           UNCHANGED <<socket, listener, signalled, backlog, served, nextSession, kills>>,
           CallInv(c)'
    PROVE  IInv'
<1>1. DomainOK
  BY DEF IInv, TypeOK
<1>2. /\ task'[c] = t /\ client'[c] = k
      /\ \A d \in Calls : d # c => task'[d] = task[d] /\ client'[d] = client[d]
  BY <1>1 DEF DomainOK
<1>3. DomainOK'
  BY <1>1 DEF DomainOK
<1>4. PermitsOK'
  <2>1. Running' = Running \ {c} /\ c \in Running
    BY <1>2 DEF Running, Spawned, Held
  <2> QED  BY <2>1, PermitReturned DEF IInv, TypeOK
<1>5. QueueInv'
  <2>1. \A i \in 1..Len(backlog) : backlog[i] \in Calls /\ backlog[i] # c
    BY <1>1, ElementOfSeq DEF IInv, QueueInv, DomainOK, Spawned, Held
  <2>2. Accepted' = Accepted
    BY <1>2 DEF Accepted, Spawned, Held
  <2> QED  BY <1>2, <2>1, <2>2 DEF IInv, QueueInv, Listening
<1>6. ASSUME NEW d \in Calls PROVE CallInv(d)'
  BY <1>2 DEF IInv, CallInv, AnswerInv
<1> QED  BY <1>3, <1>4, <1>5, <1>6 DEF IInv, TypeOK

\* What Move and InTask say of the task and of the rest.
LEMMA MoveTo ==
    ASSUME IInv, NEW c \in Calls, NEW from, NEW to \in Spawned \cup {"none"},
           Move(c, from, to)
    PROVE  LET t == [at |-> to, slot |-> task[c].slot, response |-> task[c].response]
           IN  /\ t \in Tasks /\ task[c].at = from
               /\ task' = [task EXCEPT ![c] = t]
<1>1. task \in [Calls -> Tasks] /\ task[c] \in Tasks
  BY DEF IInv, TypeOK, DomainOK
<1>2. [task[c] EXCEPT !.at = to] =
         [at |-> to, slot |-> task[c].slot, response |-> task[c].response]
  BY <1>1 DEF Tasks
<1> QED  BY <1>1, <1>2 DEF Move, Tasks

\* The task reads, waits for its session or runs it: the model stays.
LEMMA MoveSteps ==
    ASSUME IInv, NEW c \in Calls, ReadRequest(c) \/ LockSession(c) \/ RunSession(c) \/ RunSessionFails(c)
    PROVE  IInv'
<1>1. PICK from \in {"read", "lock", "run"}, to \in {"predict", "write", "run", "version"} :
         /\ Move(c, from, to)
         /\ from = "read" => to = IF c \in Invalid THEN "write" ELSE "predict"
         /\ from = "lock" => to = "run"
         /\ from = "run" => to \in {"version", "write"}
  BY DEF ReadRequest, LockSession, RunSession, RunSessionFails
<1>2. UNCHANGED <<client, socket, listener, signalled, backlog, permits, served,
                  nextSession, kills>>
  BY DEF ReadRequest, LockSession, RunSession, RunSessionFails, InTask, engineVars
<1> DEFINE t == [at |-> to, slot |-> task[c].slot, response |-> task[c].response]
<1>3. t \in Tasks /\ task[c].at = from /\ task' = [task EXCEPT ![c] = t]
  BY <1>1, MoveTo DEF Spawned, Held
<1>4. task[c].at \in Spawned /\ t.at \in Spawned
  BY <1>3 DEF Spawned, Held
<1>5. task'[c] = t /\ t.at = to /\ t.response = task[c].response
  BY <1>3 DEF IInv, TypeOK, DomainOK
<1>6. CallInv(c)'
  BY <1>1, <1>2, <1>3, <1>5 DEF IInv, CallInv, AnswerInv
<1>7. nextSession' \in [Versions -> 0..(PoolSize - 1)]
  BY <1>2 DEF IInv, TypeOK, DomainOK
<1> QED  BY <1>2, <1>3, <1>4, <1>6, <1>7, TaskMoves

LEMMA ReadTimesOutStep ==
    ASSUME IInv, NEW c \in Calls, ReadTimesOut(c)
    PROVE  IInv'
<1>1. /\ Move(c, "read", "none") /\ permits' = permits + 1
      /\ client' = [d \in Calls |-> IF d = c THEN [Start EXCEPT !.at = "failed"]
                                    ELSE client[d]]
      /\ UNCHANGED <<socket, listener, signalled, backlog, served, nextSession, kills>>
  BY DEF ReadTimesOut, Finish, InTask, engineVars
<1> DEFINE t == [at |-> "none", slot |-> task[c].slot, response |-> task[c].response]
           k == [Start EXCEPT !.at = "failed"]
<1>2. t \in Tasks /\ task[c].at = "read" /\ task' = [task EXCEPT ![c] = t]
  BY <1>1, MoveTo
<1>3. k \in Clients /\ k.at = "failed"
  BY StartTypes DEF Clients
<1>4. task'[c] = t /\ client'[c] = k /\ t.response = task[c].response
  BY <1>1, <1>2 DEF IInv, TypeOK, DomainOK
<1>5. CallInv(c)'
  BY <1>2, <1>3, <1>4 DEF IInv, CallInv, AnswerInv
<1>6. task[c].at \in Spawned
  BY <1>2 DEF Spawned
<1>7. /\ t.at = "none" /\ k.at \in {"answered", "failed"}
      /\ client' = [d \in Calls |-> IF d = c THEN k ELSE client[d]]
  BY <1>1, <1>3
<1> HIDE DEF t, k
<1> QED  BY <1>1, <1>2, <1>3, <1>5, <1>6, <1>7, TaskEnds

\* current_model: the model is at least the one the call began with.
LEMMA PredictStep ==
    ASSUME IInv, NEW c \in Calls, Predict(c)
    PROVE  IInv'
<1>1. /\ task[c].at = "predict" /\ task[c].response = NoAnswer
      /\ UNCHANGED <<client, socket, listener, signalled, backlog, permits, served, kills>>
  BY DEF Predict, InTask, IInv, CallInv
<1>2. DomainOK /\ task[c] \in Tasks
  BY DEF IInv, TypeOK, DomainOK
<1>3. client[c].at = "waiting" /\ client[c].since \in Nat /\ client[c].since <= served
  <2>1. client[c] \in Clients
    BY <1>2 DEF DomainOK
  <2> QED  BY <1>1, <2>1, LimitsAssumption DEF IInv, CallInv, AnswerInv, Clients
<1>4. CASE served = 0
  <2> DEFINE t == [at |-> "write", slot |-> task[c].slot, response |-> task[c].response]
  <2>1. Move(c, "predict", "write") /\ UNCHANGED nextSession
    BY <1>1, <1>4 DEF Predict, Move
  <2>2. t \in Tasks /\ task' = [task EXCEPT ![c] = t]
    BY <2>1, MoveTo DEF Spawned
  <2>3. task'[c] = t
    BY <1>2, <2>2 DEF DomainOK
  <2>4. CallInv(c)'
    BY <1>1, <1>3, <1>4, <2>3 DEF CallInv, AnswerInv, NoAnswer
  <2> QED  BY <1>1, <1>2, <2>1, <2>2, <2>4, TaskMoves DEF Spawned, Held, DomainOK
<1>5. CASE served # 0
  <2> DEFINE r == [ok |-> FALSE, model |-> served, version |-> 0]
             t == [at |-> "lock", slot |-> nextSession[served], response |-> r]
  <2>1. /\ task' = [task EXCEPT ![c] = t]
        /\ nextSession' = [nextSession EXCEPT ![served] = (@ + 1) % PoolSize]
    BY <1>5 DEF Predict, NoAnswer
  <2>2. served \in Versions /\ served \in 0..MaxVersion
    BY <1>2, <1>5, LimitsAssumption DEF DomainOK, Versions
  <2>3. nextSession[served] \in 0..(PoolSize - 1)
    BY <1>2, <2>2 DEF DomainOK
  <2>4. (nextSession[served] + 1) % PoolSize \in 0..(PoolSize - 1)
    BY <2>3, LimitsAssumption
  <2>5. nextSession' \in [Versions -> 0..(PoolSize - 1)]
    BY <1>2, <2>1, <2>4 DEF DomainOK
  <2>6. r \in Answers
    BY <2>2, LimitsAssumption DEF Answers
  <2>7. t \in Tasks
    BY <2>3, <2>6, TaskType DEF Spawned, Held
  <2>8. task'[c] = t
    BY <1>2, <2>1 DEF DomainOK
  <2>9. CallInv(c)'
    <3>1. /\ task'[c].at = "lock" /\ ~task'[c].response.ok
          /\ task'[c].response.model = served
      BY <2>8
    <3>2. served \in Nat /\ served > 0
      BY <2>2, LimitsAssumption DEF Versions
    <3> QED  BY <1>1, <1>3, <3>1, <3>2 DEF CallInv
  <2> QED  BY <1>1, <2>1, <2>5, <2>7, <2>9, TaskMoves DEF Spawned, Held
<1> QED  BY <1>4, <1>5

\* engine.version: the model served now is no older than the one that answered.
LEMMA ReadVersionStep ==
    ASSUME IInv, NEW c \in Calls, ReadVersion(c)
    PROVE  IInv'
<1> DEFINE r == [ok |-> TRUE, model |-> task[c].response.model, version |-> served]
           t == [at |-> "write", slot |-> task[c].slot, response |-> r]
<1>1. /\ task[c].at = "version" /\ task' = [task EXCEPT ![c] = t]
      /\ UNCHANGED <<client, socket, listener, signalled, backlog, permits, served,
                     nextSession, kills>>
  BY DEF ReadVersion, Reported, InTask, engineVars
<1>2. DomainOK /\ task[c] \in Tasks /\ served \in 0..MaxVersion
  BY DEF IInv, TypeOK, DomainOK
<1>3. /\ client[c].since <= task[c].response.model
      /\ task[c].response.model > 0 /\ task[c].response.model <= served
      /\ client[c].at = "waiting"
  BY <1>1 DEF IInv, CallInv, AnswerInv
<1>4. t \in Tasks
  BY <1>2, TaskType DEF Tasks, Answers, Spawned, Held
<1>5. task'[c] = t
  BY <1>1, <1>2 DEF DomainOK
<1>6. CallInv(c)'
  BY <1>1, <1>2, <1>3, <1>5, LimitsAssumption DEF IInv, CallInv, AnswerInv
<1> QED  BY <1>1, <1>2, <1>4, <1>6, TaskMoves DEF DomainOK, Spawned, Held

LEMMA WriteResponseStep ==
    ASSUME IInv, NEW c \in Calls, WriteResponse(c)
    PROVE  IInv'
<1> DEFINE k == [at |-> "answered", since |-> client[c].since, answer |-> task[c].response]
<1>1. /\ task[c].at = "write" /\ task' = [task EXCEPT ![c] = NoTask]
      /\ client' = [client EXCEPT ![c] = k]
      /\ permits' = permits + 1
      /\ UNCHANGED <<socket, listener, signalled, backlog, served, nextSession, kills>>
  BY DEF WriteResponse, InTask, engineVars
<1>2. /\ task \in [Calls -> Tasks] /\ client \in [Calls -> Clients]
      /\ task[c] \in Tasks /\ client[c] \in Clients
  BY DEF IInv, TypeOK, DomainOK
<1>3. k \in Clients /\ NoTask \in Tasks /\ NoTask.at = "none"
  BY <1>2, StartTypes DEF Clients, Tasks, NoTask
<1>4. task'[c] = NoTask /\ client'[c] = k
  BY <1>1, <1>2
<1>5. CallInv(c)'
  BY <1>1, <1>4 DEF IInv, CallInv, AnswerInv, NoTask
<1>6. /\ k.at \in {"answered", "failed"}
      /\ client' = [d \in Calls |-> IF d = c THEN k ELSE client[d]]
  BY <1>1, <1>2
<1> HIDE DEF k
<1> QED  BY <1>1, <1>3, <1>5, <1>6, TaskEnds DEF Spawned

LEMMA WriteFailsStep ==
    ASSUME IInv, NEW c \in Calls, WriteFails(c)
    PROVE  IInv'
<1> DEFINE k == [Start EXCEPT !.at = "failed"]
<1>1. /\ task[c].at = "write" /\ task' = [task EXCEPT ![c] = NoTask]
      /\ client' = [d \in Calls |-> IF d = c THEN k ELSE client[d]]
      /\ permits' = permits + 1
      /\ UNCHANGED <<socket, listener, signalled, backlog, served, nextSession, kills>>
  BY DEF WriteFails, Finish, InTask, engineVars
<1>2. /\ k \in Clients /\ k.at = "failed"
      /\ NoTask \in Tasks /\ NoTask.at = "none"
  BY StartTypes DEF Clients, Start, NoTask
<1>3. task'[c] = NoTask /\ client'[c] = k
  BY <1>1 DEF IInv, TypeOK, DomainOK
<1>4. CallInv(c)'
  BY <1>2, <1>3 DEF CallInv, NoTask
<1>5. k.at \in {"answered", "failed"}
  BY <1>2
<1> HIDE DEF k
<1> QED  BY <1>1, <1>2, <1>4, <1>5, TaskEnds DEF Spawned

LEMMA HotSwapStep ==
    ASSUME IInv, HotSwap
    PROVE  IInv'
<1>1. /\ served < MaxVersion /\ served' = served + 1
      /\ UNCHANGED <<client, socket, listener, signalled, backlog, permits, task,
                     nextSession, kills>>
  BY DEF HotSwap, serverVars
<1>2. DomainOK /\ served \in Nat
  BY LimitsAssumption DEF IInv, TypeOK, DomainOK
<1>3. DomainOK'
  BY <1>1, <1>2, LimitsAssumption DEF DomainOK
<1>4. PermitsOK'
  BY <1>1, PermitsSame DEF IInv, TypeOK, Running
<1>5. QueueInv'
  BY <1>1 DEF IInv, QueueInv, Listening, Accepted
<1>6. ASSUME NEW d \in Calls PROVE CallInv(d)'
  <2>1. /\ client[d].since \in Nat
        /\ task[d].response.model \in Nat /\ task[d].response.version \in Nat
        /\ client[d].answer.model \in Nat /\ client[d].answer.version \in Nat
    BY <1>2, LimitsAssumption DEF DomainOK, Clients, Tasks, Answers
  <2> QED  BY <1>1, <1>2, <2>1 DEF IInv, CallInv, AnswerInv
<1> QED  BY <1>3, <1>4, <1>5, <1>6 DEF IInv, TypeOK

LEMMA NextIInv == IInv /\ [Next]_vars => IInv'
<1> SUFFICES ASSUME IInv, [Next]_vars PROVE IInv'
    OBVIOUS
<1>1. CASE ListenerStep
  BY <1>1, ListenerQuietSteps, AcceptStep, AcquirePermitStep, StopStep, ExitStep
     DEF ListenerStep
<1>2. CASE HotSwap
  BY <1>2, HotSwapStep
<1>3. CASE Kill
  BY <1>3, KillStep
<1>4. CASE Signal \/ Restart \/ UNCHANGED vars
  BY <1>4, ListenerQuietSteps
<1>5. CASE \E c \in Calls : Dial(c) \/ DialFails(c) \/ ReadRequest(c) \/ TaskStep(c)
  <2> SUFFICES ASSUME NEW c \in Calls,
                      Dial(c) \/ DialFails(c) \/ ReadRequest(c) \/ TaskStep(c)
               PROVE  IInv'
      BY <1>5
  <2> QED  BY DialStep, DialFailsStep, MoveSteps, ReadTimesOutStep, PredictStep,
              ReadVersionStep, WriteResponseStep, WriteFailsStep DEF TaskStep
<1> QED  BY <1>1, <1>2, <1>3, <1>4, <1>5 DEF Next

-------------------------------------------------------------------------------
(* Theorems *)

\* The inductive invariant: permits, the queue of the listener and the order of
\* the models that each call meets.
THEOREM SpecIInv == Spec => []IInv
BY InitIInv, NextIInv, PTL DEF Spec

\* Every variable keeps its type, and the permits that are out are exactly those
\* of the spawned tasks, on every path out of a task.
THEOREM SpecTypeOK == Spec => []TypeOK
<1>1. IInv => TypeOK
  BY DEF IInv
<1> QED  BY <1>1, SpecIInv, PTL

\* An answer comes from a model that was served during the call, and its version
\* is not that of an older model.
THEOREM SpecAnswerIsOfOneModel == Spec => []AnswerIsOfOneModel
<1>1. IInv => AnswerIsOfOneModel
  BY DEF IInv, CallInv, AnswerInv, AnswerIsOfOneModel
<1> QED  BY <1>1, SpecIInv, PTL
===============================================================================
