--------------------------- MODULE NseFetchProofs ---------------------------
(***************************************************************************)
(* Theorems about the fetches from NSE, for any callers, also infinitely   *)
(* many, and any values of the breaker's, the retries' and the throttle's  *)
(* settings that the assumption allows.                                    *)
(***************************************************************************)
EXTENDS NseFetch, FiniteSetTheorems, TLAPS

(* Before its first call a fetch has made no attempt, in a call at least   *)
(* one, and in a backoff one less than it may make.                        *)
AttemptsAreCounted ==
    \A c \in Callers :
        /\ pc[c] \in {"idle", "queued", "throttle", "pausing"} => attempt[c] = 0
        /\ pc[c] = "calling" => attempt[c] >= 1
        /\ pc[c] = "backoff" => attempt[c] >= 1 /\ attempt[c] < MaxAttempts

CallsAreTimed == \A c \in Callers : pc[c] = "calling" => age[c] <= CallTimeout

(* A first attempt that is under way was begun at the last dispatch, or    *)
(* earlier.                                                                *)
DispatchesAreTimed ==
    \A c \in Callers : pc[c] = "calling" /\ attempt[c] = 1 => age[c] >= sinceDispatch

(* In HALF_OPEN the breaker has counted every probe that is under way.  In *)
(* the other states it may have lost count: they are those of the last     *)
(* period, and end before the next begins.                                 *)
ProbesAreCounted ==
    /\ IsFiniteSet(Probes)
    /\ Cardinality(Probes) <= IF state = "HALF_OPEN" THEN halfOpenCalls ELSE HalfOpenMaxCalls

Timing == AttemptsAreCounted /\ CallsAreTimed /\ DispatchesAreTimed

IInv == TypeOK /\ Timing /\ NothingStartsWhileOpen /\ ProbesAreCounted

(* The ways in which one caller's step changes the state of the calls: it  *)
(* begins a call, or waits, or its fetch ends.                             *)
Begins(c) ==
    /\ pc[c] \in {"throttle", "pausing", "backoff"}
    /\ Enter(c)
    /\ UNCHANGED <<failureCount, sinceFailure, healthy>>
    /\ \/ pc[c] = "backoff" /\ UNCHANGED sinceDispatch
       \/ pc[c] # "backoff" /\ sinceDispatch >= MinInterval /\ sinceDispatch' = 0

Waits(c) ==
    /\ \/ pc[c] = "idle" /\ pc' = [pc EXCEPT ![c] = "queued"]
       \/ pc[c] = "queued" /\ pc' = [pc EXCEPT ![c] = "throttle"]
       \/ pc[c] = "throttle" /\ pc' = [pc EXCEPT ![c] = "pausing"]
    /\ UNCHANGED <<breakerVars, sinceDispatch, attempt, age, admitted, healthy>>

Ends(c) ==
    /\ pc[c] = "calling"
    /\ \/ RecordSuccess /\ Return(c)
       \/ RecordFailure /\ \E retryable \in BOOLEAN : AfterFailure(c, retryable)
    /\ UNCHANGED <<sinceDispatch, healthy>>

LEMMA StepsOfNext ==
    ASSUME Next
    PROVE  (\E c \in Callers : Begins(c) \/ Waits(c) \/ Ends(c)) \/ Tick \/ NseRecovers
<1>1. ASSUME NEW c \in Callers, Ask(c) \/ Fetching(c)
      PROVE  Begins(c) \/ Waits(c)
  BY <1>1 DEF Ask, Fetching, AcquirePermit, EnterThrottle, LeaveThrottle, Retry,
              Start, Begins, Waits
<1>2. ASSUME NEW c \in Callers, Ending(c) PROVE Ends(c)
  BY <1>2 DEF Ending, Succeed, Fail, TimeOut, Ends
<1> QED BY <1>1, <1>2 DEF Next

(* A call that passes the breaker, and one that is refused. *)
LEMMA EnterCases ==
    ASSUME NEW c \in Callers, Enter(c)
    PROVE  \/ state = "CLOSED" /\ Dispatch(c, "CLOSED") /\ UNCHANGED halfOpenCalls
           \/ /\ Probing /\ ProbesMade < HalfOpenMaxCalls
              /\ Dispatch(c, "HALF_OPEN") /\ halfOpenCalls' = ProbesMade + 1
           \/ Return(c) /\ UNCHANGED <<state, halfOpenCalls>>
BY DEF Enter

LEMMA InitEstablishes == Init => IInv
<1> SUFFICES ASSUME Init PROVE IInv
  OBVIOUS
<1>1. TypeOK
  <2>1. /\ pc \in [Callers -> Phases]
        /\ attempt \in [Callers -> 0 .. MaxAttempts]
        /\ age \in [Callers -> Nat]
        /\ admitted \in [Callers -> States \ {"OPEN"}]
    BY FetchAssumption DEF Init, Phases, States
  <2>2. 0 \in 0 .. FailureThreshold /\ 0 \in 0 .. HalfOpenMaxCalls
    BY FetchAssumption
  <2>3. RecoveryTimeout \in 0 .. RecoveryTimeout /\ MinInterval \in 0 .. MinInterval
    BY FetchAssumption
  <2> QED BY <2>1, <2>2, <2>3 DEF Init, TypeOK, States
<1>2. Timing
  BY FetchAssumption DEF Init, Timing, AttemptsAreCounted, CallsAreTimed, DispatchesAreTimed
<1>3. NothingStartsWhileOpen
  BY DEF Init, NothingStartsWhileOpen
<1>4. ProbesAreCounted
  <2>1. Probes = {}
    BY DEF Init, Probes
  <2> QED BY <2>1, FS_EmptySet, FetchAssumption DEF Init, ProbesAreCounted
<1> QED BY <1>1, <1>2, <1>3, <1>4 DEF IInv

-----------------------------------------------------------------------------

LEMMA TypeIsPreserved == TypeOK /\ Timing /\ [Next]_vars => TypeOK'
<1> SUFFICES ASSUME TypeOK, Timing, [Next]_vars PROVE TypeOK'
  OBVIOUS
<1>1. ASSUME NEW c \in Callers, Begins(c) PROVE TypeOK'
  <2>1. attempt[c] \in 0 .. MaxAttempts - 1
    BY <1>1, FetchAssumption DEF Begins, Timing, AttemptsAreCounted, TypeOK
  <2>2. CASE Return(c) /\ UNCHANGED <<state, halfOpenCalls>>
    BY <1>1, <2>2, FetchAssumption DEF Begins, Return, TypeOK, Phases, States
  <2>3. ASSUME NEW as \in {"CLOSED", "HALF_OPEN"}, Dispatch(c, as),
               halfOpenCalls' \in 0 .. HalfOpenMaxCalls
        PROVE  TypeOK'
    <3>1. attempt[c] + 1 \in 0 .. MaxAttempts
      BY <2>1, FetchAssumption
    <3>2. /\ pc' \in [Callers -> Phases]
          /\ attempt' \in [Callers -> 0 .. MaxAttempts]
          /\ age' \in [Callers -> Nat]
          /\ admitted' \in [Callers -> States \ {"OPEN"}]
      BY <2>3, <3>1 DEF Dispatch, TypeOK, Phases, States
    <3>3. sinceDispatch' \in 0 .. MinInterval
      BY <1>1, FetchAssumption DEF Begins, TypeOK
    <3> QED BY <1>1, <2>3, <3>2, <3>3 DEF Begins, Dispatch, TypeOK, States
  <2>4. ProbesMade \in 0 .. HalfOpenMaxCalls
    BY FetchAssumption DEF ProbesMade, TypeOK
  <2>5. ProbesMade < HalfOpenMaxCalls => ProbesMade + 1 \in 0 .. HalfOpenMaxCalls
    BY <2>4, FetchAssumption
  <2>6. Enter(c)
    BY <1>1 DEF Begins
  <2>7. UNCHANGED halfOpenCalls => halfOpenCalls' \in 0 .. HalfOpenMaxCalls
    BY DEF TypeOK
  <2> QED BY <2>2, <2>3, <2>5, <2>6, <2>7, EnterCases
<1>2. ASSUME NEW c \in Callers, Waits(c) PROVE TypeOK'
  BY <1>2 DEF Waits, TypeOK, Phases, breakerVars
<1>3. ASSUME NEW c \in Callers, Ends(c) PROVE TypeOK'
  <2>1. /\ state' \in States
        /\ failureCount' \in 0 .. FailureThreshold
        /\ halfOpenCalls' \in 0 .. HalfOpenMaxCalls
        /\ sinceFailure' \in 0 .. RecoveryTimeout
    BY <1>3, FetchAssumption
       DEF Ends, RecordSuccess, RecordFailure, AtMost, TypeOK, States
  <2>2. /\ pc' \in [Callers -> Phases]
        /\ attempt' \in [Callers -> 0 .. MaxAttempts]
        /\ age' \in [Callers -> Nat]
        /\ admitted' \in [Callers -> States \ {"OPEN"}]
    BY <1>3, FetchAssumption DEF Ends, Return, AfterFailure, TypeOK, Phases, States
  <2> QED BY <1>3, <2>1, <2>2 DEF Ends, TypeOK
<1>4. CASE Tick
  <2>1. sinceFailure' \in 0 .. RecoveryTimeout /\ sinceDispatch' \in 0 .. MinInterval
    BY <1>4, FetchAssumption DEF Tick, AtMost, TypeOK
  <2>2. age' \in [Callers -> Nat]
    BY <1>4, FetchAssumption DEF Tick, AtMost, TypeOK
  <2> QED BY <1>4, <2>1, <2>2 DEF Tick, TypeOK
<1>5. CASE NseRecovers
  BY <1>5 DEF NseRecovers, TypeOK, breakerVars, callVars
<1>6. CASE UNCHANGED vars
  BY <1>6 DEF vars, TypeOK, breakerVars, callVars
<1> QED BY <1>1, <1>2, <1>3, <1>4, <1>5, <1>6, StepsOfNext

LEMMA TimingIsPreserved == TypeOK /\ Timing /\ [Next]_vars => Timing'
<1> SUFFICES ASSUME TypeOK, Timing, [Next]_vars PROVE Timing'
  OBVIOUS
<1> USE DEF Timing, AttemptsAreCounted, CallsAreTimed, DispatchesAreTimed
<1>1. ASSUME NEW c \in Callers, Begins(c) PROVE Timing'
  <2>1. attempt[c] \in Nat
    BY FetchAssumption DEF TypeOK
  <2>2. sinceDispatch' = sinceDispatch \/ sinceDispatch' = 0
    BY <1>1 DEF Begins
  <2>3. \A d \in Callers : age[d] \in Nat
    BY DEF TypeOK
  <2>4. pc[c] # "backoff" => sinceDispatch' = 0
    BY <1>1 DEF Begins
  <2>5. sinceDispatch \in Nat
    BY FetchAssumption DEF TypeOK
  <2>6. CASE Return(c)
    BY <2>2, <2>3, <2>5, <2>6 DEF Return, TypeOK
  <2>7. ASSUME NEW as, Dispatch(c, as) PROVE Timing'
    <3>1. pc[c] = "backoff" => attempt[c] >= 1
      OBVIOUS
    <3>2. pc[c] # "backoff" => sinceDispatch' = 0
      BY <2>4
    <3> QED
      BY <1>1, <2>1, <2>2, <2>3, <2>5, <2>7, <3>1, <3>2, FetchAssumption
         DEF Begins, Dispatch, TypeOK
  <2> QED BY <1>1, <2>6, <2>7, EnterCases DEF Begins
<1>2. ASSUME NEW c \in Callers, Waits(c) PROVE Timing'
  BY <1>2 DEF Waits, TypeOK
<1>3. ASSUME NEW c \in Callers, Ends(c) PROVE Timing'
  BY <1>3 DEF Ends, Return, AfterFailure, TypeOK
<1>4. CASE Tick
  BY <1>4, FetchAssumption DEF Tick, AtMost, TypeOK
<1>5. CASE NseRecovers
  BY <1>5 DEF NseRecovers, callVars
<1>6. CASE UNCHANGED vars
  BY <1>6 DEF vars, callVars
<1> QED BY <1>1, <1>2, <1>3, <1>4, <1>5, <1>6, StepsOfNext

LEMMA OpennessIsPreserved ==
    TypeOK /\ NothingStartsWhileOpen /\ [Next]_vars => NothingStartsWhileOpen'
<1> SUFFICES ASSUME TypeOK, NothingStartsWhileOpen, [Next]_vars
             PROVE  NothingStartsWhileOpen'
  OBVIOUS
<1> USE DEF NothingStartsWhileOpen
<1>1. ASSUME NEW c \in Callers, Begins(c) PROVE NothingStartsWhileOpen'
  BY <1>1, EnterCases DEF Begins, Dispatch, Return, TypeOK
<1>2. ASSUME NEW c \in Callers, Waits(c) PROVE NothingStartsWhileOpen'
  BY <1>2 DEF Waits, breakerVars, TypeOK
<1>3. ASSUME NEW c \in Callers, Ends(c) PROVE NothingStartsWhileOpen'
  <2>1. \A d \in Callers : pc'[d] = "calling" => pc[d] = "calling" /\ age'[d] = age[d]
    BY <1>3 DEF Ends, Return, AfterFailure, TypeOK
  <2>2. \A d \in Callers : age[d] \in Nat
    BY DEF TypeOK
  <2>3. CASE RecordFailure
    BY <2>1, <2>2, <2>3 DEF RecordFailure
  <2>4. CASE RecordSuccess
    BY <2>1, <2>4 DEF RecordSuccess
  <2> QED BY <1>3, <2>3, <2>4 DEF Ends
<1>4. CASE Tick
  <2>1. \A d \in Callers : pc'[d] = "calling" => age'[d] = age[d] + 1
    BY <1>4 DEF Tick, TypeOK
  <2>2. sinceFailure' <= sinceFailure + 1
    BY <1>4, FetchAssumption DEF Tick, AtMost, TypeOK
  <2>3. sinceFailure \in Nat /\ sinceFailure' \in Nat /\ \A d \in Callers : age[d] \in Nat
    BY <1>4, FetchAssumption DEF Tick, AtMost, TypeOK
  <2> QED BY <1>4, <2>1, <2>2, <2>3 DEF Tick
<1>5. CASE NseRecovers
  BY <1>5 DEF NseRecovers, breakerVars, callVars
<1>6. CASE UNCHANGED vars
  BY <1>6 DEF vars, breakerVars, callVars
<1> QED BY <1>1, <1>2, <1>3, <1>4, <1>5, <1>6, StepsOfNext

(* What a step that begins no call does to the probes. *)
LEMMA FewerProbes ==
    ASSUME TypeOK, TypeOK', ProbesAreCounted, Probes' \subseteq Probes,
           state' = "HALF_OPEN" => state = "HALF_OPEN" /\ halfOpenCalls' = halfOpenCalls
    PROVE  ProbesAreCounted'
<1>1. IsFiniteSet(Probes') /\ Cardinality(Probes') <= Cardinality(Probes)
  BY FS_Subset DEF ProbesAreCounted
<1>2. Cardinality(Probes) \in Nat /\ Cardinality(Probes') \in Nat
  BY <1>1, FS_CardinalityType DEF ProbesAreCounted
<1>3. halfOpenCalls \in 0 .. HalfOpenMaxCalls
  BY DEF TypeOK
<1> QED BY <1>1, <1>2, <1>3, FetchAssumption DEF ProbesAreCounted

LEMMA ProbesStayCounted == IInv /\ [Next]_vars => ProbesAreCounted'
<1> SUFFICES ASSUME IInv, [Next]_vars PROVE ProbesAreCounted'
  OBVIOUS
<1>a. TypeOK /\ TypeOK'
  BY TypeIsPreserved DEF IInv
<1>b. ProbesAreCounted
  BY DEF IInv
<1>1. ASSUME NEW c \in Callers, Begins(c) PROVE ProbesAreCounted'
  <2>1. CASE Return(c) /\ UNCHANGED <<state, halfOpenCalls>>
    <3>1. Probes' \subseteq Probes
      BY <1>a, <2>1 DEF Return, Probes, TypeOK
    <3> QED BY <1>a, <1>b, <2>1, <3>1, FewerProbes
  <2>2. CASE Dispatch(c, "CLOSED")
    <3>1. Probes' \subseteq Probes
      BY <1>a, <2>2 DEF Dispatch, Probes, TypeOK
    <3>2. state' # "HALF_OPEN"
      BY <2>2 DEF Dispatch
    <3> QED BY <1>a, <1>b, <3>1, <3>2, FewerProbes
  <2>3. CASE /\ Probing /\ ProbesMade < HalfOpenMaxCalls
             /\ Dispatch(c, "HALF_OPEN") /\ halfOpenCalls' = ProbesMade + 1
    <3>1. Probes' \subseteq Probes \cup {c}
      BY <1>a, <2>3 DEF Dispatch, Probes, TypeOK
    <3>2. Cardinality(Probes) <= ProbesMade
      <4>1. CASE state = "HALF_OPEN"
        BY <1>b, <4>1 DEF ProbesAreCounted, ProbesMade
      <4>2. CASE state = "OPEN"
        <5>1. sinceFailure >= RecoveryTimeout
          BY <2>3, <4>2 DEF Probing, Cooled
        <5>2. \A d \in Callers : pc[d] # "calling"
          <6> SUFFICES ASSUME NEW d \in Callers, pc[d] = "calling" PROVE FALSE
            OBVIOUS
          <6>1. age[d] >= sinceFailure /\ age[d] <= CallTimeout
            BY <4>2 DEF IInv, NothingStartsWhileOpen, Timing, CallsAreTimed
          <6>2. age[d] \in Nat /\ sinceFailure \in Nat
            BY <1>a, FetchAssumption DEF TypeOK
          <6> QED BY <5>1, <6>1, <6>2, FetchAssumption
        <5>3. Probes = {}
          BY <5>2 DEF Probes
        <5> QED BY <4>2, <5>3, FS_EmptySet DEF ProbesMade
      <4> QED BY <2>3, <4>1, <4>2 DEF Probing
    <3>3. IsFiniteSet(Probes)
      BY <1>b DEF ProbesAreCounted
    <3>4. /\ IsFiniteSet(Probes \cup {c})
          /\ Cardinality(Probes \cup {c}) <= Cardinality(Probes) + 1
      BY <3>3, FS_AddElement, FS_CardinalityType
    <3>5. IsFiniteSet(Probes') /\ Cardinality(Probes') <= Cardinality(Probes \cup {c})
      BY <3>1, <3>4, FS_Subset
    <3>6. /\ Cardinality(Probes) \in Nat /\ Cardinality(Probes') \in Nat
          /\ Cardinality(Probes \cup {c}) \in Nat
      BY <3>3, <3>4, <3>5, FS_CardinalityType
    <3>7. ProbesMade \in Nat
      BY <1>a, FetchAssumption DEF ProbesMade, TypeOK
    <3>8. Cardinality(Probes') <= halfOpenCalls'
      BY <2>3, <3>2, <3>4, <3>5, <3>6, <3>7
    <3>9. state' = "HALF_OPEN"
      BY <2>3 DEF Dispatch
    <3> QED BY <3>5, <3>8, <3>9 DEF ProbesAreCounted
  <2> QED BY <1>1, <2>1, <2>2, <2>3, EnterCases DEF Begins
<1>2. ASSUME NEW c \in Callers, Waits(c) PROVE ProbesAreCounted'
  <2>1. Probes' \subseteq Probes
    BY <1>a, <1>2 DEF Waits, Probes, TypeOK
  <2> QED BY <1>a, <1>b, <1>2, <2>1, FewerProbes DEF Waits, breakerVars
<1>3. ASSUME NEW c \in Callers, Ends(c) PROVE ProbesAreCounted'
  <2>1. Probes' \subseteq Probes
    BY <1>a, <1>3 DEF Ends, Return, AfterFailure, Probes, TypeOK
  <2>2. state' = "HALF_OPEN" => state = "HALF_OPEN" /\ halfOpenCalls' = halfOpenCalls
    BY <1>3 DEF Ends, RecordSuccess, RecordFailure
  <2> QED BY <1>a, <1>b, <2>1, <2>2, FewerProbes
<1>4. CASE Tick
  BY <1>b, <1>4 DEF Tick, ProbesAreCounted, Probes
<1>5. CASE NseRecovers
  BY <1>b, <1>5 DEF NseRecovers, ProbesAreCounted, Probes, breakerVars, callVars
<1>6. CASE UNCHANGED vars
  BY <1>b, <1>6 DEF vars, ProbesAreCounted, Probes, breakerVars, callVars
<1> QED BY <1>1, <1>2, <1>3, <1>4, <1>5, <1>6, StepsOfNext

-----------------------------------------------------------------------------
(* In every reachable state the breaker, the calls and the clocks keep     *)
(* step.                                                                   *)
THEOREM FetchInvariance == Spec => []IInv
<1>1. Init => IInv
  BY InitEstablishes
<1>2. IInv /\ [Next]_vars => IInv'
  BY TypeIsPreserved, TimingIsPreserved, OpennessIsPreserved, ProbesStayCounted DEF IInv
<1> QED BY <1>1, <1>2, PTL DEF Spec

(* Every variable keeps its type, for any callers, permits and timeouts. *)
THEOREM TypeCorrect == Spec => []TypeOK
<1>1. IInv => TypeOK
  BY DEF IInv
<1>. QED  BY <1>1, FetchInvariance, PTL

(* While the breaker is OPEN and cooling no call begins. *)
THEOREM OpenMeansClosedToCalls == Spec => []NothingStartsWhileOpen
<1>1. IInv => NothingStartsWhileOpen
  BY DEF IInv
<1> QED BY <1>1, FetchInvariance, PTL

(* HALF_OPEN never has more probes under way than half_open_max_calls: the *)
(* recovery timeout is longer than a call, so a period begins without any. *)
THEOREM ProbesStayBounded == Spec => []ProbesAreBounded
<1>1. IInv => ProbesAreBounded
  <2> SUFFICES ASSUME IInv PROVE ProbesAreBounded
    OBVIOUS
  <2>1. Cardinality(Probes) \in Nat
    BY FS_CardinalityType DEF IInv, ProbesAreCounted
  <2>2. halfOpenCalls \in 0 .. HalfOpenMaxCalls
    BY DEF IInv, TypeOK
  <2> QED BY <2>1, <2>2, FetchAssumption DEF IInv, ProbesAreCounted, ProbesAreBounded
<1> QED BY <1>1, FetchInvariance, PTL

(* First attempts are at least the throttle's interval apart. *)
THEOREM DispatchesAreSpaced == Spec => FirstAttemptsAreSpaced
<1> DEFINE Spaced == \A c \in Callers :
                       attempt[c] = 0 /\ pc'[c] = "calling"
                       => \A d \in Callers \ {c} :
                            pc[d] = "calling" /\ attempt[d] = 1 => age[d] >= MinInterval
<1>1. IInv /\ [Next]_vars => [Spaced]_vars
  <2> SUFFICES ASSUME IInv, Next, NEW c \in Callers, attempt[c] = 0, pc'[c] = "calling",
                      NEW d \in Callers \ {c}, pc[d] = "calling", attempt[d] = 1
               PROVE  age[d] >= MinInterval
    OBVIOUS
  <2> USE DEF IInv, Timing
  <2>1. pc[c] # "calling" /\ pc[c] # "backoff"
    BY DEF AttemptsAreCounted
  <2>2. ASSUME NEW b \in Callers, Begins(b) PROVE sinceDispatch >= MinInterval
    <3>1. b = c
      BY <2>1, <2>2, EnterCases DEF Begins, Dispatch, Return, TypeOK
    <3> QED BY <2>1, <2>2, <3>1 DEF Begins
  <2>3. ASSUME NEW b \in Callers, Waits(b) \/ Ends(b) PROVE FALSE
    BY <2>1, <2>3 DEF Waits, Ends, Return, AfterFailure, TypeOK
  <2>4. ~(Tick \/ NseRecovers)
    BY <2>1 DEF Tick, NseRecovers, callVars
  <2>5. sinceDispatch >= MinInterval
    BY <2>2, <2>3, <2>4, StepsOfNext
  <2>6. age[d] >= sinceDispatch /\ age[d] \in Nat /\ sinceDispatch \in Nat
    BY FetchAssumption DEF DispatchesAreTimed, TypeOK
  <2> QED BY <2>5, <2>6, FetchAssumption
<1>2. Spec => [][Spaced]_vars
  BY <1>1, FetchInvariance, PTL DEF Spec
<1> QED BY <1>2 DEF FirstAttemptsAreSpaced
=============================================================================
