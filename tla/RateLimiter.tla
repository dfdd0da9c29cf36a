------------------------------ MODULE RateLimiter ------------------------------
(* RateLimitMiddleware (interface/api/middleware.py): one dictionary of the   *)
(* times at which each address was let through, pruned for the address that   *)
(* asks and swept of idle addresses once a window. Between the prune and the  *)
(* entry nothing is awaited, so that a request is one step. A request is      *)
(* [ip, at, exempt]; a list of times is a set of entries.                     *)
EXTENDS Inputs, Values

CONSTANTS
  MaxRequests,     \* 200
  WindowSeconds    \* 60

ASSUME LimitAssumption == MaxRequests \in Nat \ {0} /\ WindowSeconds \in Nat \ {0}

\* The clock does not step back.
InOrder(r) ==
  /\ Len(r) \in Nat /\ DOMAIN r = 1..Len(r)
  /\ \A i \in DOMAIN r : r[i].at \in Nat \ {0} /\ r[i].exempt \in BOOLEAN
  /\ \A i, j \in DOMAIN r : i <= j => r[i].at <= r[j].at

ASSUME RequestsAssumption == "requests" \in DOMAIN Inputs => \A r \in Inputs["requests"] : InOrder(r)

\* What is stored of a request is its time; two of the same instant are two.
Entry(r, n) == [at |-> r.at, number |-> n]

InWindow(entries, now) == {t \in entries : t.at > now - WindowSeconds}

\* Slip: an address is idle when its first request is.
SweepOfEarly(s, now) ==
  IF now - s.lastSweep < WindowSeconds THEN s
  ELSE [lastSweep |-> now,
        times |-> [ip \in {k \in DOMAIN s.times : s.times[k] # {} /\ InWindow(s.times[k], now) = s.times[k]}
                     |-> s.times[ip]]]

\* At most once a window, the addresses without a time in the window go.
SweepIdleClients(s, now) ==
  IF now - s.lastSweep < WindowSeconds THEN s
  ELSE [lastSweep |-> now,
        times |-> [ip \in {k \in DOMAIN s.times : InWindow(s.times[k], now) # {}} |-> s.times[ip]]]

TimesOf(s, ip) == IF ip \in DOMAIN s.times THEN s.times[ip] ELSE {}

WithTimes(s, ip, entries) ==
  [lastSweep |-> s.lastSweep, times |-> Over([k \in {ip} |-> entries], s.times)]

Cleanup(s, ip, now) == WithTimes(s, ip, InWindow(TimesOf(s, ip), now))

\* served: the requests that were passed on. r is the n-th.
Dispatch(state, r, n) ==
  LET s == Cleanup(SweepIdleClients(state.limiter, r.at), r.ip, r.at)
  IN  IF r.exempt THEN [limiter |-> state.limiter, served |-> state.served \cup {n}]
      ELSE IF Cardinality(s.times[r.ip]) >= MaxRequests THEN [limiter |-> s, served |-> state.served]
      ELSE [limiter |-> WithTimes(s, r.ip, s.times[r.ip] \cup {Entry(r, n)}), served |-> state.served \cup {n}]

AtStart(start) == [limiter |-> [lastSweep |-> start, times |-> <<>>], served |-> {}]

DispatchedTo(requests, start, last) ==
  LET upTo[n \in 0..last] == IF n = 0 THEN AtStart(start) ELSE Dispatch(upTo[n - 1], requests[n], n)
  IN  upTo[last]

Dispatched(requests, start) == DispatchedTo(requests, start, Len(requests))

\* Whatever the sweeps forget and whoever else asks, a request is refused just
\* when as many of its own address as allowed were let through in the window
\* before it; and no address is remembered for two windows after its last.
LimitIsExact ==
  Is("requests") =>
    LET r == input.value
        end == Dispatched(r, 1)
        Before(i) == {j \in 1..(i - 1) : /\ r[j].ip = r[i].ip /\ ~r[j].exempt /\ j \in end.served
                                         /\ r[j].at > r[i].at - WindowSeconds}
        now == Max({1} \cup {r[i].at : i \in {k \in DOMAIN r : ~r[k].exempt}})
    IN  /\ \A i \in DOMAIN r : i \in end.served <=> r[i].exempt \/ Cardinality(Before(i)) < MaxRequests
        /\ \A ip \in DOMAIN end.limiter.times :
             \E t \in end.limiter.times[ip] : t.at > now - 2 * WindowSeconds
================================================================================
