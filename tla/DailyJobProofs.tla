--------------------------- MODULE DailyJobProofs ---------------------------
(***************************************************************************)
(* Theorems about the lock of the daily job, for any number of processes,  *)
(* days, strategies and faults.                                            *)
(***************************************************************************)
EXTENDS DailyJob, TLAPS

(* What each job knows of its lock.  A job that works has a date, and owns *)
(* the key of that date unless the TTL ended; who does not work has none,  *)
(* so that its end, by whatever fault, deletes no key.                     *)
KnowsItsDate ==
    \A w \in Workers : IF pc[w] \in InJob THEN date[w] \in Days ELSE date[w] = NoDay

OwnsItsLock ==
    \A w \in Workers :
        pc[w] \in InJob => date[w] \in expired \/ lock[date[w]] = w

IInv == TypeOK /\ KnowsItsDate /\ OwnsItsLock

LEMMA DaysAreNotNoDay == Days \subseteq Nat /\ NoDay \notin Days
BY DEF Days, NoDay

-----------------------------------------------------------------------------

LEMMA InitEstablishes == Init => IInv
<1> SUFFICES ASSUME Init PROVE IInv
  OBVIOUS
<1>a. 1 \in Days /\ 0 \in 0 .. MaxFaults
  BY JobAssumption DEF Days
<1>b. /\ pc \in [Workers -> Phases]
      /\ date \in [Workers -> Days \cup {NoDay}]
      /\ todo \in [Workers -> SUBSET Strategies]
      /\ lock \in [Days -> Workers \cup {Free}]
      /\ jobs \in [Days -> Nat]
      /\ attempted \in [Days -> SUBSET Strategies]
  BY DEF Init, Phases
<1>1. TypeOK
  BY <1>a, <1>b DEF Init, TypeOK
<1>2. KnowsItsDate /\ OwnsItsLock
  BY DEF Init, KnowsItsDate, OwnsItsLock, InJob
<1> QED BY <1>1, <1>2 DEF IInv

(* The release frees nothing but the key of its own job's date. *)
LEMMA DroppedIsOwn ==
    ASSUME TypeOK, NEW w \in Workers
    PROVE  /\ Dropped(w) \in [Days -> Workers \cup {Free}]
           /\ \A d \in Days :
                Dropped(w)[d] # lock[d] => d = date[w] /\ lock[d] = w
BY DEF TypeOK, Dropped

LEMMA TypeIsPreserved == IInv /\ [Next]_vars => TypeOK'
<1> SUFFICES ASSUME IInv, [Next]_vars PROVE TypeOK'
  OBVIOUS
<1> USE DEF IInv
<1>1. CASE FireTime
  BY <1>1 DEF FireTime, TypeOK, Phases, historyVars
<1>2. CASE Midnight
  <2>1. today' \in Days
    BY <1>2, JobAssumption DEF Midnight, TypeOK, Days
  <2> QED BY <1>2, <2>1 DEF Midnight, TypeOK, jobVars, historyVars
<1>3. ASSUME NEW w \in Workers, AcquireLock(w) PROVE TypeOK'
  BY <1>3 DEF AcquireLock, Goto, TypeOK, Phases, clockVars
<1>4. ASSUME NEW w \in Workers, ListStrategies(w) PROVE TypeOK'
  BY <1>4 DEF ListStrategies, Goto, TypeOK, Phases, clockVars, historyVars
<1>5. ASSUME NEW w \in Workers, ScreenStrategy(w) PROVE TypeOK'
  <2>1. PICK s \in todo[w] :
          /\ todo' = [todo EXCEPT ![w] = @ \ {s}]
          /\ attempted' = [attempted EXCEPT ![date[w]] = @ \cup {s}]
          /\ Goto(w, IF todo[w] = {s} THEN "release" ELSE "screen")
    BY <1>5 DEF ScreenStrategy
  <2>2. todo' \in [Workers -> SUBSET Strategies]
    BY <2>1 DEF TypeOK
  <2>3. attempted' \in [Days -> SUBSET Strategies]
    BY <2>1 DEF TypeOK
  <2>4. pc' \in [Workers -> Phases]
    BY <2>1 DEF TypeOK, Goto, Phases
  <2> QED BY <1>5, <2>2, <2>3, <2>4 DEF ScreenStrategy, TypeOK, clockVars
<1>6. ASSUME NEW w \in Workers, ReleaseLock(w) PROVE TypeOK'
  BY <1>6, DroppedIsOwn DEF ReleaseLock, Goto, TypeOK, Phases, clockVars, historyVars
<1>7. ASSUME NEW w \in Workers, JobFails(w) PROVE TypeOK'
  <2>1. faults' \in 0 .. MaxFaults
    BY <1>7, JobAssumption DEF JobFails, Fault, TypeOK
  <2>2. /\ lock' \in [Days -> Workers \cup {Free}]
        /\ date' \in [Workers -> Days \cup {NoDay}]
        /\ pc' \in [Workers -> Phases]
    BY <1>7 DEF JobFails, Goto, TypeOK, Phases
  <2> QED BY <1>7, <2>1, <2>2 DEF JobFails, TypeOK, clockVars, historyVars
<1>8. ASSUME NEW w \in Workers, Stop(w) PROVE TypeOK'
  <2>1. faults' \in 0 .. MaxFaults
    BY <1>8, JobAssumption DEF Stop, Fault, TypeOK
  <2>2. lock' \in [Days -> Workers \cup {Free}]
    BY <1>8, DroppedIsOwn DEF Stop, TypeOK
  <2> QED BY <1>8, <2>1, <2>2 DEF Stop, Goto, TypeOK, Phases, clockVars, historyVars
<1>9. ASSUME NEW w \in Workers, Restart(w) PROVE TypeOK'
  BY <1>9 DEF Restart, TypeOK, clockVars, jobVars, historyVars
<1>10. ASSUME NEW d \in Days, LockExpires(d) PROVE TypeOK'
  BY <1>10, JobAssumption DEF LockExpires, Fault, TypeOK, clockVars, jobVars
<1>11. CASE UNCHANGED vars
  BY <1>11 DEF vars, TypeOK, clockVars, jobVars, historyVars
<1> QED
  BY <1>1, <1>2, <1>3, <1>4, <1>5, <1>6, <1>7, <1>8, <1>9, <1>10, <1>11 DEF Next, Work

-----------------------------------------------------------------------------

LEMMA DatesAreKnown == IInv /\ [Next]_vars => KnowsItsDate'
<1> SUFFICES ASSUME IInv, [Next]_vars, NEW v \in Workers
             PROVE  (IF pc[v] \in InJob THEN date[v] \in Days ELSE date[v] = NoDay)'
  BY DEF KnowsItsDate
<1> USE DEF IInv, KnowsItsDate, TypeOK, InJob, Phases
<1>1. CASE FireTime
  BY <1>1 DEF FireTime
<1>2. CASE Midnight
  BY <1>2 DEF Midnight, jobVars, Days
<1>3. ASSUME NEW w \in Workers, AcquireLock(w)
      PROVE  (IF pc[v] \in InJob THEN date[v] \in Days ELSE date[v] = NoDay)'
  BY <1>3 DEF AcquireLock, Goto
<1>4. ASSUME NEW w \in Workers, ListStrategies(w)
      PROVE  (IF pc[v] \in InJob THEN date[v] \in Days ELSE date[v] = NoDay)'
  BY <1>4 DEF ListStrategies, Goto
<1>5. ASSUME NEW w \in Workers, ScreenStrategy(w)
      PROVE  (IF pc[v] \in InJob THEN date[v] \in Days ELSE date[v] = NoDay)'
  BY <1>5 DEF ScreenStrategy, Goto
<1>6. ASSUME NEW w \in Workers, ReleaseLock(w)
      PROVE  (IF pc[v] \in InJob THEN date[v] \in Days ELSE date[v] = NoDay)'
  BY <1>6 DEF ReleaseLock, Goto
<1>7. ASSUME NEW w \in Workers, JobFails(w)
      PROVE  (IF pc[v] \in InJob THEN date[v] \in Days ELSE date[v] = NoDay)'
  BY <1>7 DEF JobFails, Goto
<1>8. ASSUME NEW w \in Workers, Stop(w)
      PROVE  (IF pc[v] \in InJob THEN date[v] \in Days ELSE date[v] = NoDay)'
  BY <1>8 DEF Stop, Goto
<1>9. ASSUME NEW w \in Workers, Restart(w)
      PROVE  (IF pc[v] \in InJob THEN date[v] \in Days ELSE date[v] = NoDay)'
  BY <1>9 DEF Restart, jobVars
<1>10. ASSUME NEW d \in Days, LockExpires(d)
       PROVE  (IF pc[v] \in InJob THEN date[v] \in Days ELSE date[v] = NoDay)'
  BY <1>10 DEF LockExpires, jobVars
<1>11. CASE UNCHANGED vars
  BY <1>11 DEF vars, jobVars
<1> QED
  BY <1>1, <1>2, <1>3, <1>4, <1>5, <1>6, <1>7, <1>8, <1>9, <1>10, <1>11 DEF Next, Work

LEMMA LocksAreKept == IInv /\ [Next]_vars => OwnsItsLock'
<1> DEFINE Owns(v) == pc[v] \in InJob => date[v] \in expired \/ lock[date[v]] = v
<1> SUFFICES ASSUME IInv, [Next]_vars, NEW v \in Workers
             PROVE  Owns(v)'
  BY DEF OwnsItsLock
<1>a. Owns(v) /\ (pc[v] \in InJob => date[v] \in Days)
  BY DEF IInv, OwnsItsLock, KnowsItsDate
<1> USE DEF IInv, TypeOK, InJob
<1>1. CASE FireTime
  BY <1>1, <1>a DEF FireTime, historyVars
<1>2. CASE Midnight
  BY <1>2, <1>a DEF Midnight, jobVars, historyVars
<1>3. ASSUME NEW w \in Workers, AcquireLock(w) PROVE Owns(v)'
  BY <1>3, <1>a, JobAssumption DEF AcquireLock, Goto
<1>4. ASSUME NEW w \in Workers, ListStrategies(w) PROVE Owns(v)'
  BY <1>4, <1>a DEF ListStrategies, Goto, historyVars
<1>5. ASSUME NEW w \in Workers, ScreenStrategy(w) PROVE Owns(v)'
  BY <1>5, <1>a DEF ScreenStrategy, Goto
<1>6. ASSUME NEW w \in Workers, ReleaseLock(w) PROVE Owns(v)'
  BY <1>6, <1>a, DroppedIsOwn DEF ReleaseLock, Goto, historyVars
<1>7. ASSUME NEW w \in Workers, JobFails(w) PROVE Owns(v)'
  BY <1>7, <1>a, JobAssumption DEF JobFails, Goto, historyVars
<1>8. ASSUME NEW w \in Workers, Stop(w) PROVE Owns(v)'
  BY <1>8, <1>a, DroppedIsOwn DEF Stop, Goto, historyVars
<1>9. ASSUME NEW w \in Workers, Restart(w) PROVE Owns(v)'
  BY <1>9, <1>a DEF Restart, jobVars, historyVars
<1>10. ASSUME NEW d \in Days, LockExpires(d) PROVE Owns(v)'
  BY <1>10, <1>a DEF LockExpires, jobVars
<1>11. CASE UNCHANGED vars
  BY <1>11, <1>a DEF vars, jobVars, historyVars
<1> QED
  BY <1>1, <1>2, <1>3, <1>4, <1>5, <1>6, <1>7, <1>8, <1>9, <1>10, <1>11 DEF Next, Work

-----------------------------------------------------------------------------
(* In every reachable state a working job has its date, and its lock or an *)
(* expired one.                                                            *)
THEOREM Invariance == Spec => []IInv
<1>1. Init => IInv
  BY InitEstablishes
<1>2. IInv /\ [Next]_vars => IInv'
  BY TypeIsPreserved, DatesAreKnown, LocksAreKept DEF IInv
<1> QED BY <1>1, <1>2, PTL DEF Spec

(* Every variable keeps its type, for any processes, days and faults. *)
THEOREM TypeCorrect == Spec => []TypeOK
<1>1. IInv => TypeOK
  BY DEF IInv
<1>. QED  BY <1>1, Invariance, PTL

(* Two processes work on one date only after a lock of that date expired:  *)
(* a key has one owner, and both would have to own it.                     *)
THEOREM JobsOfADateAreAlone == Spec => []OneJobAtATime
<1>1. IInv => OneJobAtATime
  BY DEF IInv, OwnsItsLock, OneJobAtATime
<1> QED BY <1>1, Invariance, PTL

(* Whatever step takes a lock from a process is the end of that process's  *)
(* own job or the TTL.                                                     *)
THEOREM OnlyTheOwnerFreesALock == Spec => LockIsLostByItsOwner
<1> DEFINE Lost == \A d \in Days, w \in Workers :
                     lock[d] = w /\ lock'[d] # w
                     => \/ pc[w] # "idle" /\ pc'[w] = "idle"
                        \/ d \in expired' /\ jobVars' = jobVars
<1>1. IInv /\ [Next]_vars => [Lost]_vars
  <2> SUFFICES ASSUME IInv, Next,
                      NEW d \in Days, NEW w \in Workers, lock[d] = w, lock'[d] # w
               PROVE  \/ pc[w] # "idle" /\ pc'[w] = "idle"
                      \/ d \in expired' /\ jobVars' = jobVars
    OBVIOUS
  <2>a. lock' # lock
    OBVIOUS
  <2> USE DEF IInv, TypeOK
  <2>1. ASSUME NEW v \in Workers, AcquireLock(v) PROVE FALSE
    BY <2>1, <2>a, JobAssumption DEF AcquireLock
  <2>2. ASSUME NEW v \in Workers, ReleaseLock(v)
        PROVE  pc[w] # "idle" /\ pc'[w] = "idle"
    BY <2>2, DroppedIsOwn DEF ReleaseLock, Goto
  <2>3. ASSUME NEW v \in Workers, JobFails(v) PROVE FALSE
    BY <2>3, <2>a, JobAssumption DEF JobFails
  <2>4. ASSUME NEW v \in Workers, Stop(v)
        PROVE  pc[w] # "idle" /\ pc'[w] = "idle"
    <3>1. d = date[v] /\ v = w
      BY <2>4, <2>a, DroppedIsOwn DEF Stop
    <3>2. pc[v] \in InJob
      BY <3>1, DaysAreNotNoDay DEF KnowsItsDate
    <3> QED BY <2>4, <3>1, <3>2 DEF Stop, Goto, InJob
  <2>5. ASSUME NEW e \in Days, LockExpires(e)
        PROVE  d \in expired' /\ jobVars' = jobVars
    BY <2>5 DEF LockExpires
  <2>6. ASSUME NEW v \in Workers,
               ListStrategies(v) \/ ScreenStrategy(v) \/ Restart(v)
        PROVE  FALSE
    BY <2>6, <2>a DEF ListStrategies, ScreenStrategy, Restart
  <2>7. ~(FireTime \/ Midnight)
    BY <2>a DEF FireTime, Midnight
  <2> QED BY <2>1, <2>2, <2>3, <2>4, <2>5, <2>6, <2>7 DEF Next, Work
<1>2. Spec => [][Lost]_vars
  BY <1>1, Invariance, PTL DEF Spec
<1> QED BY <1>2 DEF LockIsLostByItsOwner
=============================================================================
