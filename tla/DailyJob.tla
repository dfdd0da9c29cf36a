------------------------------ MODULE DailyJob ------------------------------
(***************************************************************************)
(* The daily screening job on several API processes: each has a scheduler  *)
(* whose jobs live in its memory, all fire at the same time of day, and a  *)
(* Redis lock named by the date lets one of them through.  What the job    *)
(* does for one strategy is ScreeningRuns; here it is one step.            *)
(***************************************************************************)
EXTENDS Integers, FiniteSets

CONSTANTS
    Workers,        \* API processes with scheduler_enabled
    Strategies,     \* the active production strategies
    Free,           \* no owner
    MaxDay,         \* the clock stops there
    MaxFaults       \* crashes, failed Redis or SQL calls, expired locks, in all

ASSUME JobAssumption ==
    /\ Free \notin Workers
    /\ MaxDay \in Nat \ {0}
    /\ MaxFaults \in Nat

Days == 1 .. MaxDay
NoDay == 0

Phases == {"idle", "fired", "list", "screen", "release"}
InJob == {"list", "screen", "release"}

VARIABLES
    today, late,    \* the date, and whether the time of the job has passed
    up,             \* the processes that run
    pc, date, todo, \* of each one's job: the date of its lock, what is left
    lock,           \* owner of daily_screening:<date>
    jobs,           \* history: jobs let through, by date
    attempted,      \* history: strategies whose pipeline was run, by date
    expired,        \* history: dates whose lock has expired under its owner
    faults

clockVars == <<today, late>>
jobVars == <<pc, date, todo>>
historyVars == <<jobs, attempted, expired>>
vars == <<clockVars, up, jobVars, lock, historyVars, faults>>

Init ==
    /\ today = 1 /\ late = FALSE
    /\ up = Workers
    /\ pc = [w \in Workers |-> "idle"]
    /\ date = [w \in Workers |-> NoDay]
    /\ todo = [w \in Workers |-> {}]
    /\ lock = [d \in Days |-> Free]
    /\ jobs = [d \in Days |-> 0]
    /\ attempted = [d \in Days |-> {}]
    /\ expired = {}
    /\ faults = 0

Fault == faults < MaxFaults /\ faults' = faults + 1

-----------------------------------------------------------------------------
(* The scheduler.  A process that is down at this time has no trace of the *)
(* job in its store when it is up again; one whose job still runs is at    *)
(* max_instances and skips it.                                             *)
FireTime ==
    /\ ~late
    /\ late' = TRUE
    /\ pc' = [w \in Workers |-> IF w \in up /\ pc[w] = "idle" THEN "fired" ELSE pc[w]]
    /\ UNCHANGED <<today, up, date, todo, lock, historyVars, faults>>

(* A job that is due starts on its day; it may run past midnight. *)
Midnight ==
    /\ late /\ today < MaxDay
    /\ \A w \in Workers : pc[w] # "fired"
    /\ today' = today + 1
    /\ late' = FALSE
    /\ UNCHANGED <<up, jobVars, lock, historyVars, faults>>

-----------------------------------------------------------------------------
(* _run_daily_screening_job. *)

Goto(w, phase) == pc' = [pc EXCEPT ![w] = phase]

(* Slip: the job is not told whether it was acquired. *)
AcquireAnyway(w) ==
    /\ pc[w] = "fired"
    /\ lock' = IF lock[today] = Free THEN [lock EXCEPT ![today] = w] ELSE lock
    /\ date' = [date EXCEPT ![w] = today]
    /\ jobs' = [jobs EXCEPT ![today] = @ + 1]
    /\ Goto(w, "list")
    /\ UNCHANGED <<clockVars, up, todo, attempted, expired, faults>>

AcquireLock(w) ==
    /\ pc[w] = "fired"
    /\ IF lock[today] = Free
       THEN /\ lock' = [lock EXCEPT ![today] = w]
            /\ date' = [date EXCEPT ![w] = today]
            /\ jobs' = [jobs EXCEPT ![today] = @ + 1]
            /\ Goto(w, "list")
       ELSE /\ Goto(w, "idle")
            /\ UNCHANGED <<lock, date, jobs>>
    /\ UNCHANGED <<clockVars, up, todo, attempted, expired, faults>>

ListStrategies(w) ==
    /\ pc[w] = "list"
    /\ todo' = [todo EXCEPT ![w] = Strategies]
    /\ Goto(w, "screen")
    /\ UNCHANGED <<clockVars, up, date, lock, historyVars, faults>>

(* Slip: the loop ends with the first error. *)
ScreenUntilError(w) ==
    /\ pc[w] = "screen"
    /\ \E s \in todo[w] :
         /\ todo' = [todo EXCEPT ![w] = @ \ {s}]
         /\ attempted' = [attempted EXCEPT ![date[w]] = @ \cup {s}]
         /\ Goto(w, "release")
    /\ UNCHANGED <<clockVars, up, date, lock, jobs, expired, faults>>

(* One strategy, whatever becomes of it: its error is logged. *)
ScreenStrategy(w) ==
    /\ pc[w] = "screen"
    /\ \E s \in todo[w] :
         /\ todo' = [todo EXCEPT ![w] = @ \ {s}]
         /\ attempted' = [attempted EXCEPT ![date[w]] = @ \cup {s}]
         /\ Goto(w, IF todo[w] = {s} THEN "release" ELSE "screen")
    /\ UNCHANGED <<clockVars, up, date, lock, jobs, expired, faults>>

(* Slip: the key is deleted whoever holds it. *)
DroppedUnseen(w) == [d \in Days |-> IF d = date[w] THEN Free ELSE lock[d]]

Dropped(w) == [d \in Days |-> IF d = date[w] /\ lock[d] = w THEN Free ELSE lock[d]]

(* The release deletes the key only if it still holds this job's token. *)
ReleaseLock(w) ==
    /\ pc[w] = "release"
    /\ lock' = Dropped(w)
    /\ date' = [date EXCEPT ![w] = NoDay]
    /\ Goto(w, "idle")
    /\ UNCHANGED <<clockVars, up, todo, historyVars, faults>>

-----------------------------------------------------------------------------
(* Faults. *)

(* Redis or the list of strategies fails.  The lock may be set although    *)
(* the reply is lost, and stays when the call that deletes it is.          *)
JobFails(w) ==
    /\ Fault
    /\ \/ /\ pc[w] = "fired"
          /\ lock' \in {lock, IF lock[today] = Free
                             THEN [lock EXCEPT ![today] = w] ELSE lock}
          /\ Goto(w, "idle")
          /\ UNCHANGED date
       \/ /\ pc[w] = "list"
          /\ Goto(w, "release")
          /\ UNCHANGED <<date, lock>>
       \/ /\ pc[w] = "release"
          /\ date' = [date EXCEPT ![w] = NoDay]
          /\ Goto(w, "idle")
          /\ UNCHANGED lock
    /\ UNCHANGED <<clockVars, up, todo, historyVars>>

(* The lock's TTL ends before the job does. *)
LockExpires(d) ==
    /\ Fault
    /\ lock[d] # Free
    /\ lock' = [lock EXCEPT ![d] = Free]
    /\ expired' = expired \cup {d}
    /\ UNCHANGED <<clockVars, up, jobVars, jobs, attempted>>

(* The process stops: a job that is cancelled releases its lock, one that  *)
(* is killed leaves it to the TTL.                                         *)
Stop(w) ==
    /\ Fault
    /\ w \in up
    /\ up' = up \ {w}
    /\ lock' \in {lock, Dropped(w)}
    /\ Goto(w, "idle")
    /\ date' = [date EXCEPT ![w] = NoDay]
    /\ todo' = [todo EXCEPT ![w] = {}]
    /\ UNCHANGED <<clockVars, historyVars>>

Restart(w) ==
    /\ w \notin up
    /\ up' = up \cup {w}
    /\ UNCHANGED <<clockVars, jobVars, lock, historyVars, faults>>

Work(w) == AcquireLock(w) \/ ListStrategies(w) \/ ScreenStrategy(w) \/ ReleaseLock(w)

Next ==
    \/ FireTime \/ Midnight
    \/ \E w \in Workers : Work(w) \/ JobFails(w) \/ Stop(w) \/ Restart(w)
    \/ \E d \in Days : LockExpires(d)

Spec == Init /\ [][Next]_vars

(* A job that is due is started and goes on; processes are restarted; the  *)
(* time of day comes.  Days need not pass.                                 *)
FairSpec ==
    /\ Spec
    /\ WF_vars(FireTime)
    /\ \A w \in Workers : WF_vars(Work(w)) /\ WF_vars(Restart(w))

-----------------------------------------------------------------------------
(* PROPERTIES                                                              *)

TypeOK ==
    /\ today \in Days /\ late \in BOOLEAN
    /\ up \subseteq Workers
    /\ pc \in [Workers -> Phases]
    /\ date \in [Workers -> Days \cup {NoDay}]
    /\ todo \in [Workers -> SUBSET Strategies]
    /\ lock \in [Days -> Workers \cup {Free}]
    /\ jobs \in [Days -> Nat]
    /\ attempted \in [Days -> SUBSET Strategies]
    /\ expired \subseteq Days
    /\ faults \in 0 .. MaxFaults

(* Two jobs of the same date run at once only if the lock has expired.  A  *)
(* job never works under another's lock, nor without having had one.       *)
OneJobAtATime ==
    \A v, w \in Workers :
        /\ v # w
        /\ pc[v] \in InJob /\ pc[w] \in InJob
        /\ date[v] = date[w]
        => date[w] \in expired

(* A lock is lost by its owner's own step or by its TTL: never by the end  *)
(* of a job whose lock had expired and was taken by another.               *)
LockIsLostByItsOwner ==
    [][\A d \in Days, w \in Workers :
          lock[d] = w /\ lock'[d] # w
          => \/ pc[w] # "idle" /\ pc'[w] = "idle"
             \/ d \in expired' /\ jobVars' = jobVars]_vars

(* A date whose job was due on some process gets every strategy screened,  *)
(* if nothing went wrong: a process that steps back left it to one that    *)
(* finishes, and one strategy's error does not stop the next.              *)
DayIsServed ==
    \A d \in Days :
        (today = d /\ \E w \in Workers : pc[w] = "fired")
        ~> (attempted[d] = Strategies \/ faults > 0)

(* The claims of docstrings that the code refutes. *)

(* "The daily job never runs twice for the same date when workers are      *)
(* scaled out", not even when no lock expires.                             *)
NeverRunsTwice == \A d \in Days : jobs[d] <= 1

(* "On startup, if the scheduler was down during a scheduled job window,   *)
(* the missed run is detected and executed once."                          *)
MissedRunIsCaughtUp ==
    \A d \in Days :
        (today = d /\ late /\ up = {}) ~> (attempted[d] # {})
=============================================================================
