-------------------------- MODULE CircuitBreakerProofs --------------------------
(***************************************************************************)
(* The two safety properties of CircuitBreaker, for all watermarks and     *)
(* bounds.  The subtraction in the usage is sound because of what the last *)
(* sample leaves behind: the time that was not idle then is part of the    *)
(* busy ticks of now, however the idle counters have moved since.          *)
(***************************************************************************)
EXTENDS CircuitBreaker, TLAPS

\* Ticks that were not idle when the last sample was taken have been counted.
SampleIsPast == prevTotal - prevIdle <= busy

IInv ==
    /\ TypeOK
    /\ SampleIsPast
    /\ OpenIsNeverAsked

\* The initial state and every step keep the types, the sample in the past and
\* the breaker of a running process closed.
LEMMA InitIInv == Init => IInv
BY BreakerAssumption DEF Init, IInv, TypeOK, SampleIsPast, OpenIsNeverAsked

LEMMA StepIInv == IInv /\ [Next]_vars => IInv'
<1> SUFFICES ASSUME IInv, [Next]_vars PROVE IInv'
    OBVIOUS
<1> USE DEF IInv, TypeOK, SampleIsPast, OpenIsNeverAsked
<1>1. CASE BusyTick
    BY <1>1 DEF BusyTick, breaker
<1>2. CASE IdleTick
    BY <1>2 DEF IdleTick, breaker
<1>3. CASE IowaitMoves
    BY <1>3, BreakerAssumption DEF IowaitMoves, breaker
<1>4. CASE MemoryRises
    BY <1>4 DEF MemoryRises, breaker
<1>5. CASE MemoryFalls
    BY <1>5 DEF MemoryFalls, breaker
<1>6. ASSUME NEW s \in BOOLEAN, NEW m \in BOOLEAN, Ask(s, m)
      PROVE  /\ busy' \in Nat /\ idle' \in Nat /\ iowait' \in Nat
             /\ memory' \in {"low", "between", "high"} /\ rises' \in Nat
             /\ prevIdle' \in Nat /\ prevTotal' \in Nat
             /\ SampleIsPast'
    <2>1. UNCHANGED <<busy, idle, iowait, memory, rises>>
        BY <1>6 DEF Ask, kernel
    <2>2. CASE s
        <3>1. prevIdle' = idle + iowait /\ prevTotal' = busy + (idle + iowait)
            BY <1>6, <2>2 DEF Ask, IdleTime, TotalTime
        <3> QED
            BY <2>1, <3>1
    <2>3. CASE ~s
        BY <1>6, <2>1, <2>3 DEF Ask
    <2> QED
        BY <2>2, <2>3
<1>7. CASE Accept
    <2>1. PICK s \in BOOLEAN, m \in BOOLEAN : Ask(s, m)
        BY <1>7 DEF Accept
    <2>2. state' = "Closed" /\ backlog' = backlog - 1 /\ backlog > 0 /\ process' = process
        BY <1>7 DEF Accept, Ask
    <2> QED
        BY <1>6, <2>1, <2>2
<1>8. CASE Refuse
    <2>1. PICK s \in BOOLEAN, m \in BOOLEAN : Ask(s, m)
        BY <1>8 DEF Refuse
    <2>2. state' = "Open" /\ process' = "down" /\ backlog' = backlog
        BY <1>8 DEF Refuse
    <2> QED
        BY <1>6, <2>1, <2>2
<1>9. CASE Restart
    BY <1>9 DEF Restart, kernel
<1>10. CASE UNCHANGED vars
    BY <1>10 DEF vars, kernel, breaker
<1> QED
    BY <1>1, <1>2, <1>3, <1>4, <1>5, <1>7, <1>8, <1>9, <1>10 DEF Next

\* The invariant holds in every reachable state.
THEOREM SpecIInv == Spec => []IInv
BY InitIInv, StepIInv, PTL DEF Spec

\* Every variable keeps its type, for all watermarks and bounds.
THEOREM SpecTypeOK == Spec => []TypeOK
BY SpecIInv, PTL DEF IInv

\* The idle part of an interval is never larger than the whole, so that the
\* unsigned subtraction of circuit_breaker.rs:110 stays in range.
THEOREM SpecUsageIsAPercentage == Spec => []UsageIsAPercentage
<1>1. IInv => UsageIsAPercentage
    BY DEF IInv, TypeOK, SampleIsPast, UsageIsAPercentage, DiffIdle, DiffTotal,
           IdleTime, TotalTime, SaturatingSub
<1> QED
    BY <1>1, SpecIInv, PTL

\* A running process has a closed breaker (dynamic_pool.rs:35).
THEOREM SpecOpenIsNeverAsked == Spec => []OpenIsNeverAsked
BY SpecIInv, PTL DEF IInv
================================================================================
