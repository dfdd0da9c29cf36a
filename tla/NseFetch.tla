------------------------------ MODULE NseFetch ------------------------------
(***************************************************************************)
(* One symbol's history fetched live from NSE: the semaphore and the       *)
(* throttle of NSEMarketDataClient.fetch_historical_bars, the retries of   *)
(* resilient() and the CircuitBreaker all fetches share.                   *)
(*                                                                         *)
(* Time is counted in ticks.  Every clock the code reads is kept as the    *)
(* time since its last reset, up to the bound it is compared with.  What   *)
(* the coroutine does between two suspensions is one step.                 *)
(***************************************************************************)
EXTENDS Integers, FiniteSets

CONSTANTS
    Callers,            \* coroutines that may fetch, again and again
    Permits,            \* of _fetch_semaphore
    FailureThreshold, RecoveryTimeout, HalfOpenMaxCalls,    \* of the breaker
    MaxAttempts, Backoff, CallTimeout,                      \* of resilient()
    MinInterval         \* of the throttle

ASSUME FetchAssumption ==
    /\ Permits \in Nat \ {0}
    /\ FailureThreshold \in Nat \ {0}
    /\ HalfOpenMaxCalls \in Nat \ {0}
    /\ MaxAttempts \in Nat \ {0}
    /\ Backoff \in Nat /\ MinInterval \in Nat
    /\ CallTimeout \in Nat \ {0}
    /\ RecoveryTimeout \in Nat /\ RecoveryTimeout > CallTimeout

Phases == {"idle", "queued", "throttle", "pausing", "calling", "backoff"}
States == {"CLOSED", "OPEN", "HALF_OPEN"}

AtMost(n, bound) == IF n < bound THEN n ELSE bound

VARIABLES
    state,          \* of the breaker
    failureCount,   \* saturates: it is only compared with the threshold
    halfOpenCalls,
    sinceFailure,   \* since _last_failure_time
    sinceDispatch,  \* since _last_dispatch_time
    pc, attempt,    \* where each caller is, and which attempt it makes
    age,            \* how long its call, or its sleep between two, has lasted
    healthy,        \* NSE answers every call, from now on
    admitted        \* history: the state that let a caller's call pass

breakerVars == <<state, failureCount, halfOpenCalls, sinceFailure>>
callVars == <<pc, attempt, age, admitted>>
vars == <<breakerVars, sinceDispatch, callVars, healthy>>

Init ==
    /\ state = "CLOSED"
    /\ failureCount = 0
    /\ halfOpenCalls = 0
    /\ sinceFailure = RecoveryTimeout
    /\ sinceDispatch = MinInterval
    /\ pc = [c \in Callers |-> "idle"]
    /\ attempt = [c \in Callers |-> 0]
    /\ age = [c \in Callers |-> 0]
    /\ healthy = FALSE
    /\ admitted = [c \in Callers |-> "CLOSED"]

-----------------------------------------------------------------------------
(* The breaker. *)

Cooled == sinceFailure >= RecoveryTimeout
Probing == state = "HALF_OPEN" \/ (state = "OPEN" /\ Cooled)
ProbesMade == IF state = "OPEN" THEN 0 ELSE halfOpenCalls

(* The fetch is over, with bars or without; its permit is free again. *)
Return(c) ==
    /\ pc' = [pc EXCEPT ![c] = "idle"]
    /\ attempt' = [attempt EXCEPT ![c] = 0]
    /\ age' = [age EXCEPT ![c] = 0]
    /\ admitted' = [admitted EXCEPT ![c] = "CLOSED"]

Dispatch(c, as) ==
    /\ pc' = [pc EXCEPT ![c] = "calling"]
    /\ attempt' = [attempt EXCEPT ![c] = @ + 1]
    /\ age' = [age EXCEPT ![c] = 0]
    /\ admitted' = [admitted EXCEPT ![c] = as]
    /\ state' = as

(* Slip: one probe too many. *)
EnterOneMore(c) ==
    \/ /\ state = "CLOSED"
       /\ Dispatch(c, "CLOSED")
       /\ UNCHANGED halfOpenCalls
    \/ /\ Probing /\ ProbesMade <= HalfOpenMaxCalls
       /\ Dispatch(c, "HALF_OPEN")
       /\ halfOpenCalls' = ProbesMade + 1
    \/ /\ \/ state = "OPEN" /\ ~Cooled
          \/ Probing /\ ProbesMade > HalfOpenMaxCalls
       /\ Return(c)
       /\ UNCHANGED <<state, halfOpenCalls>>

(* __aenter__: the call passes, or CircuitBreakerOpenError, which is not   *)
(* retried and which fetch_historical_bars turns into no bars.             *)
Enter(c) ==
    \/ /\ state = "CLOSED"
       /\ Dispatch(c, "CLOSED")
       /\ UNCHANGED halfOpenCalls
    \/ /\ Probing /\ ProbesMade < HalfOpenMaxCalls
       /\ Dispatch(c, "HALF_OPEN")
       /\ halfOpenCalls' = ProbesMade + 1
    \/ /\ \/ state = "OPEN" /\ ~Cooled
          \/ Probing /\ ProbesMade >= HalfOpenMaxCalls
       /\ Return(c)
       /\ UNCHANGED <<state, halfOpenCalls>>

(* __aexit__ without an exception. *)
RecordSuccess ==
    /\ failureCount' = 0
    /\ state' = IF state = "HALF_OPEN" THEN "CLOSED" ELSE state
    /\ UNCHANGED <<halfOpenCalls, sinceFailure>>

(* Slip: the time of the failure is not recorded. *)
RecordFailureUndated ==
    /\ failureCount' = AtMost(failureCount + 1, FailureThreshold)
    /\ state' = IF failureCount + 1 >= FailureThreshold THEN "OPEN" ELSE state
    /\ UNCHANGED <<halfOpenCalls, sinceFailure>>

(* __aexit__ with one: only a full count opens the breaker, in any state. *)
RecordFailure ==
    /\ failureCount' = AtMost(failureCount + 1, FailureThreshold)
    /\ sinceFailure' = 0
    /\ state' = IF failureCount + 1 >= FailureThreshold THEN "OPEN" ELSE state
    /\ UNCHANGED halfOpenCalls

-----------------------------------------------------------------------------
(* fetch_historical_bars. *)

Ask(c) ==
    /\ pc[c] = "idle"
    /\ pc' = [pc EXCEPT ![c] = "queued"]
    /\ UNCHANGED <<breakerVars, sinceDispatch, attempt, age, admitted, healthy>>

Holders == {c \in Callers : pc[c] \notin {"idle", "queued"}}

AcquirePermit(c) ==
    /\ pc[c] = "queued"
    /\ Cardinality(Holders) < Permits
    /\ pc' = [pc EXCEPT ![c] = "throttle"]
    /\ UNCHANGED <<breakerVars, sinceDispatch, attempt, age, admitted, healthy>>

(* Slip: the time of the dispatch is not recorded. *)
StartUntimed(c) ==
    /\ Enter(c)
    /\ UNCHANGED <<failureCount, sinceFailure, sinceDispatch, healthy>>

Start(c) ==
    /\ Enter(c)
    /\ sinceDispatch' = 0
    /\ UNCHANGED <<failureCount, sinceFailure, healthy>>

(* _throttle takes the lock, and keeps it while it sleeps. *)
EnterThrottle(c) ==
    /\ pc[c] = "throttle"
    /\ \A d \in Callers : pc[d] # "pausing"
    /\ \/ sinceDispatch >= MinInterval /\ Start(c)
       \/ /\ sinceDispatch < MinInterval
          /\ pc' = [pc EXCEPT ![c] = "pausing"]
          /\ UNCHANGED <<breakerVars, sinceDispatch, attempt, age, admitted, healthy>>

LeaveThrottle(c) ==
    /\ pc[c] = "pausing"
    /\ sinceDispatch >= MinInterval
    /\ Start(c)

(* The next attempt of resilient() enters the breaker, not the throttle. *)
Retry(c) ==
    /\ pc[c] = "backoff"
    /\ age[c] >= Backoff
    /\ Enter(c)
    /\ UNCHANGED <<failureCount, sinceFailure, sinceDispatch, healthy>>

Succeed(c) ==
    /\ pc[c] = "calling"
    /\ RecordSuccess
    /\ Return(c)
    /\ UNCHANGED <<sinceDispatch, healthy>>

(* A timeout, ConnectionError or OSError is tried again, any other error   *)
(* and the last attempt's are not.                                         *)
AfterFailure(c, retryable) ==
    IF retryable /\ attempt[c] < MaxAttempts
    THEN /\ pc' = [pc EXCEPT ![c] = "backoff"]
         /\ age' = [age EXCEPT ![c] = 0]
         /\ admitted' = [admitted EXCEPT ![c] = "CLOSED"]
         /\ UNCHANGED attempt
    ELSE Return(c)

Fail(c) ==
    /\ pc[c] = "calling"
    /\ ~healthy
    /\ RecordFailure
    /\ \E retryable \in BOOLEAN : AfterFailure(c, retryable)
    /\ UNCHANGED <<sinceDispatch, healthy>>

(* Slip: the decorator is given no timeout. *)
NoTimeOut(c) == FALSE

(* wait_for gives up on the call.  Its thread goes on and touches nothing  *)
(* that is modelled.                                                       *)
TimeOut(c) ==
    /\ pc[c] = "calling"
    /\ ~healthy
    /\ age[c] = CallTimeout
    /\ RecordFailure
    /\ AfterFailure(c, TRUE)
    /\ UNCHANGED <<sinceDispatch, healthy>>

-----------------------------------------------------------------------------
(* The rest of the world. *)

(* Time passes; a call whose time is up is ended before it does. *)
Tick ==
    /\ \A c \in Callers : pc[c] = "calling" => age[c] < CallTimeout
    /\ sinceFailure' = AtMost(sinceFailure + 1, RecoveryTimeout)
    /\ sinceDispatch' = AtMost(sinceDispatch + 1, MinInterval)
    /\ age' = [c \in Callers |->
                 CASE pc[c] = "calling" -> age[c] + 1
                   [] pc[c] = "backoff" -> AtMost(age[c] + 1, Backoff)
                   [] OTHER -> age[c]]
    /\ UNCHANGED <<state, failureCount, halfOpenCalls, pc, attempt, admitted, healthy>>

(* The outage ends for good. *)
NseRecovers ==
    /\ ~healthy
    /\ healthy' = TRUE
    /\ UNCHANGED <<breakerVars, sinceDispatch, callVars>>

Fetching(c) ==
    \/ AcquirePermit(c) \/ EnterThrottle(c) \/ LeaveThrottle(c) \/ Retry(c)

Ending(c) == Succeed(c) \/ Fail(c) \/ TimeOut(c)

Next ==
    \/ \E c \in Callers : Ask(c) \/ Fetching(c) \/ Ending(c)
    \/ Tick
    \/ NseRecovers

Spec == Init /\ [][Next]_vars

(* asyncio's semaphore and lock serve their waiters in order, sleeps end,  *)
(* time passes, a healthy NSE answers, and wait_for ends the other calls.  *)
FairSpec ==
    /\ Spec
    /\ WF_vars(Tick)
    /\ \A c \in Callers :
         /\ SF_vars(AcquirePermit(c)) /\ SF_vars(EnterThrottle(c))
         /\ WF_vars(LeaveThrottle(c)) /\ WF_vars(Retry(c))
         /\ WF_vars(TimeOut(c)) /\ WF_vars(healthy /\ Succeed(c))

(* Somebody keeps asking. *)
DemandSpec == FairSpec /\ \A c \in Callers : WF_vars(Ask(c))

-----------------------------------------------------------------------------
(* PROPERTIES                                                              *)

TypeOK ==
    /\ state \in States
    /\ failureCount \in 0 .. FailureThreshold
    /\ halfOpenCalls \in 0 .. HalfOpenMaxCalls
    /\ sinceFailure \in 0 .. RecoveryTimeout
    /\ sinceDispatch \in 0 .. MinInterval
    /\ pc \in [Callers -> Phases]
    /\ attempt \in [Callers -> 0 .. MaxAttempts]
    /\ age \in [Callers -> Nat]
    /\ healthy \in BOOLEAN
    /\ admitted \in [Callers -> States \ {"OPEN"}]

(* No more than half_open_max_calls probes are under way at once, also     *)
(* when a late success closes the breaker under a probe, failures open it  *)
(* again and it probes anew: each period outlives the calls of the last.   *)
Probes == {c \in Callers : pc[c] = "calling" /\ admitted[c] = "HALF_OPEN"}
ProbesAreBounded == Cardinality(Probes) <= HalfOpenMaxCalls

(* While the breaker is OPEN and cooling, the calls still under way were   *)
(* all begun before the failure it counts from: none slips in.             *)
NothingStartsWhileOpen ==
    state = "OPEN" => \A c \in Callers : pc[c] = "calling" => age[c] >= sinceFailure

(* A fetch makes its first attempt only when any other first attempt still *)
(* under way has lasted the minimum interval, whoever sleeps, retries or   *)
(* holds the throttle's lock meanwhile.  (A retry does not wait.)          *)
FirstAttemptsAreSpaced ==
    [][\A c \in Callers :
          attempt[c] = 0 /\ pc'[c] = "calling"
          => \A d \in Callers \ {c} :
                pc[d] = "calling" /\ attempt[d] = 1 => age[d] >= MinInterval]_vars

(* Every fetch returns, whatever NSE does. *)
EveryFetchReturns == \A c \in Callers : (pc[c] # "idle") ~> (pc[c] = "idle")

(* The claims of documents and comments that the code refutes. *)

(* "CircuitBreaker with half-open recovery": once NSE answers again and    *)
(* fetches keep being asked for, the breaker closes.                       *)
BreakerRecovers == healthy ~> (state = "CLOSED")
=============================================================================
