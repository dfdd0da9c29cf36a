--------------------------- MODULE ScreeningRuns ---------------------------
(***************************************************************************)
(* The life of a row of screening_runs: who creates it (TriggerRefresh or  *)
(* the orchestrator), how one execution of the screening pipeline ingests  *)
(* bars, adopts or creates the row, evaluates the universe, stages the     *)
(* result rows and commits, and what the two except handlers make of an    *)
(* error.  Several requests run the pipeline at once, each in a database   *)
(* session of its own; only what a session committed is in "runs".         *)
(*                                                                         *)
(* A request is one call that reaches the code:                            *)
(*   record      POST /runs            a PENDING row, nothing else         *)
(*   background  POST /runs/execute    a PENDING row, the pipeline later   *)
(*   direct      POST /runs/execute with background=false, the CLI-style   *)
(*               call and the scheduled job: no row before the pipeline    *)
(***************************************************************************)
EXTENDS Integers

CONSTANTS
    Requests,       \* the calls, each made once
    Strategies,     \* active strategies; one stands for its id and config_hash
    MaxDay,         \* the clock stops there
    MaxDbErrors,    \* failed SQL statements and lost commits, in all
    MaxCrashes      \* deaths of the API process

ASSUME BoundsAssumption ==
    /\ MaxDay \in Nat \ {0}
    /\ MaxDbErrors \in Nat
    /\ MaxCrashes \in Nat

Days == 1 .. MaxDay
NoDay == 0                  \* latest_date() is None, data_version "none"
Partial == -1               \* scores of an evaluation that lost a statement

RunStatus == {"PENDING", "RUNNING", "COMPLETED", "FAILED"}
RunIds == Nat \ {0}
NoRun == 0                  \* existing_run_id is None

(* A row of screening_runs with the rows that hang on it: "results" is the *)
(* session its scores were computed for, NoDay when it has none.           *)
Row == [status       : RunStatus,
        strategy     : Strategies,
        run_date     : Days,
        data_version : Days \cup {NoDay},
        results      : Days \cup {NoDay, Partial}]

(* The unit of work of a session that holds no row. *)
NoRow == [status |-> "none"]

Kinds == {"record", "background", "direct"}
Job == [kind : Kinds, strategy : Strategies \cup {"none"},
        force : BOOLEAN, run : RunIds \cup {NoRun}]
Scan == [ref : Days \cup {NoDay}, start : Nat, newest : Days \cup {NoDay},
         asof : Days \cup {NoDay, Partial}]

Phases == {"idle", "insert", "start", "fetch", "ingest", "persist",
           "resolve", "open", "insertRun", "evaluate", "save", "commit",
           "return", "handler", "outer", "done"}

Outcomes == {"none", "returned", "unanswered", "raised", "conflict", "crashed"}

VARIABLES
    runs,       \* committed rows, by id
    nextId,     \* the id sequence
    latest,     \* max(ohlcv_daily.date), committed
    listed,     \* list_active() finds a security
    today,      \* the wall-clock date
    pc,         \* where each request is
    job,        \* its arguments and the id of its row
    scan,       \* the dates it has read and still needs
    staged,     \* the row its session has not committed
    sess,       \* its session: "ok", or "broken" after a database error
    outcome,    \* how it ended
    returned,   \* the run id it returned
    dbErrors, crashes

requestVars == <<pc, job, scan, staged, sess, outcome, returned>>
marketVars == <<latest, listed, today>>
faultVars == <<dbErrors, crashes>>
vars == <<runs, nextId, marketVars, requestVars, faultVars>>

-----------------------------------------------------------------------------
Key(row) == <<row.strategy, row.run_date, row.data_version>>

(* A flushed, uncommitted INSERT: its key blocks any other INSERT of it. *)
Inserted(t) == /\ staged[t] # NoRow
               /\ job[t].run # NoRun
               /\ job[t].run \notin DOMAIN runs

KeyIsFree(k) == \A u \in Requests : Inserted(u) => Key(staged[u]) # k

KeyIsTaken(k) == \E r \in DOMAIN runs : Key(runs[r]) = k

(* The committed rows once row r is written. *)
Written(r, row) == [x \in DOMAIN runs \cup {r} |-> IF x = r THEN row ELSE runs[x]]

Completed == {r \in DOMAIN runs : runs[r].status = "COMPLETED"}

(* The first of list_runs("completed", 1, 0): newest run_date, newest id. *)
IsNewestCompleted(r) ==
    /\ r \in Completed
    /\ \A x \in Completed :
          \/ runs[x].run_date < runs[r].run_date
          \/ runs[x].run_date = runs[r].run_date /\ x <= r

NoJob == [kind |-> "record", strategy |-> "none", force |-> FALSE, run |-> NoRun]
NoScan == [ref |-> NoDay, start |-> NoDay, newest |-> NoDay, asof |-> NoDay]

Init ==
    /\ runs = [r \in {} |-> NoRow]
    /\ nextId = 1
    /\ latest = NoDay
    /\ listed = FALSE
    /\ today = 1
    /\ pc = [t \in Requests |-> "idle"]
    /\ job = [t \in Requests |-> NoJob]
    /\ scan = [t \in Requests |-> NoScan]
    /\ staged = [t \in Requests |-> NoRow]
    /\ sess = [t \in Requests |-> "ok"]
    /\ outcome = [t \in Requests |-> "none"]
    /\ returned = [t \in Requests |-> NoRun]
    /\ dbErrors = 0
    /\ crashes = 0
-----------------------------------------------------------------------------
(* The requests. *)

(* TriggerRefresh.execute, up to the INSERT it flushes: the row is dated   *)
(* with the clock and carries the version of the bars stored at this time. *)
TriggerRefresh(t) ==
    /\ pc[t] = "idle"
    /\ \E s \in Strategies, kind \in {"record", "background"}, force \in BOOLEAN :
         /\ job' = [job EXCEPT ![t] = [kind |-> kind, strategy |-> s,
                                       force |-> force, run |-> NoRun]]
         /\ staged' = [staged EXCEPT ![t] =
                         [status |-> "PENDING", strategy |-> s, run_date |-> today,
                          data_version |-> latest, results |-> NoDay]]
    /\ pc' = [pc EXCEPT ![t] = "insert"]
    /\ UNCHANGED <<runs, nextId, marketVars, scan, sess, outcome, returned, faultVars>>

(* The request ends; its session closes, which rolls back what it staged. *)
End(t, how) ==
    /\ pc' = [pc EXCEPT ![t] = "done"]
    /\ outcome' = [outcome EXCEPT ![t] = how]
    /\ scan' = [scan EXCEPT ![t] = NoScan]
    /\ staged' = [staged EXCEPT ![t] = NoRow]
    /\ sess' = [sess EXCEPT ![t] = "ok"]

(* The INSERT waits for an uncommitted row of the same key, fails on a     *)
(* committed one, and is committed at once.  The response carries the id.  *)
InsertPending(t) ==
    /\ pc[t] = "insert"
    /\ KeyIsFree(Key(staged[t]))
    /\ IF KeyIsTaken(Key(staged[t]))
       THEN /\ End(t, "conflict")
            /\ UNCHANGED <<runs, nextId, job, returned>>
       ELSE /\ runs' = Written(nextId, staged[t])
            /\ nextId' = nextId + 1
            /\ job' = [job EXCEPT ![t].run = nextId]
            /\ returned' = [returned EXCEPT ![t] = nextId]
            /\ IF job[t].kind = "record"
               THEN End(t, "returned")
               ELSE /\ pc' = [pc EXCEPT ![t] = "start"]
                    /\ staged' = [staged EXCEPT ![t] = NoRow]
                    /\ UNCHANGED <<scan, sess, outcome>>
    /\ UNCHANGED <<marketVars, faultVars>>

(* A blocking call: no row is made for it before the pipeline runs. *)
CallDirectly(t) ==
    /\ pc[t] = "idle"
    /\ \E s \in Strategies, force \in BOOLEAN :
         job' = [job EXCEPT ![t] = [kind |-> "direct", strategy |-> s,
                                    force |-> force, run |-> NoRun]]
    /\ pc' = [pc EXCEPT ![t] = "start"]
    /\ UNCHANGED <<runs, nextId, marketVars, scan, staged, sess, outcome, returned, faultVars>>

-----------------------------------------------------------------------------
(* ExecuteScreening.execute: ingestion. *)

Goto(t, phase) == pc' = [pc EXCEPT ![t] = phase]

BeginExecute(t) ==
    /\ pc[t] = "start"
    /\ Goto(t, "fetch")
    /\ scan' = [scan EXCEPT ![t] =
                   [@ EXCEPT !.ref = today,
                             !.start = IF job[t].force THEN 1 ELSE latest + 1]]
    /\ UNCHANGED <<runs, nextId, marketVars, job, staged, sess, outcome, returned, faultVars>>

(* The provider turns its own failures into empty sessions, so any session *)
(* of the window may be the newest one that has bars.                      *)
FetchEodRange(t) ==
    /\ pc[t] = "fetch"
    /\ \/ \E d \in scan[t].start .. scan[t].ref :
            /\ scan' = [scan EXCEPT ![t] = [@ EXCEPT !.newest = d, !.start = NoDay]]
            /\ Goto(t, "ingest")
       \/ /\ Goto(t, IF job[t].force \/ ~listed THEN "outer" ELSE "resolve")
          /\ scan' = [scan EXCEPT ![t].start = NoDay]
    /\ UNCHANGED <<runs, nextId, marketVars, job, staged, sess, outcome, returned, faultVars>>

UpsertSecurities(t) ==
    /\ pc[t] = "ingest"
    /\ listed' = TRUE
    /\ Goto(t, "persist")
    /\ UNCHANGED <<runs, nextId, latest, today, job, scan, staged, sess,
                   outcome, returned, faultVars>>

PersistBars(t) ==
    /\ pc[t] = "persist"
    /\ latest' = IF scan[t].newest > latest THEN scan[t].newest ELSE latest
    /\ scan' = [scan EXCEPT ![t].newest = NoDay]
    /\ Goto(t, "resolve")
    /\ UNCHANGED <<runs, nextId, listed, today, job, staged, sess,
                   outcome, returned, faultVars>>

ResolveScreeningDate(t) ==
    /\ pc[t] = "resolve"
    /\ scan' = [scan EXCEPT ![t] =
                   [@ EXCEPT !.asof = IF latest = NoDay THEN scan[t].ref ELSE latest,
                             !.ref = NoDay]]
    /\ Goto(t, "open")
    /\ UNCHANGED <<runs, nextId, marketVars, job, staged, sess, outcome, returned, faultVars>>

-----------------------------------------------------------------------------
(* ScreeningOrchestrator.run_daily_screening. *)

(* Slip: the RUNNING status of an adopted row is committed at once. *)
OpenRunCommitted(t) ==
    /\ pc[t] = "open"
    /\ job[t].run # NoRun
    /\ staged' = [staged EXCEPT ![t] = [runs[job[t].run] EXCEPT !.status = "RUNNING"]]
    /\ runs' = Written(job[t].run, staged'[t])
    /\ Goto(t, "evaluate")
    /\ UNCHANGED <<nextId, marketVars, job, scan, sess, outcome, returned, faultVars>>

(* Slip: a created row is dated with the clock. *)
OpenRunDatedToday(t) ==
    /\ pc[t] = "open"
    /\ job[t].run = NoRun
    /\ staged' = [staged EXCEPT ![t] =
                    [status |-> "RUNNING", strategy |-> job[t].strategy, run_date |-> today,
                     data_version |-> latest, results |-> NoDay]]
    /\ Goto(t, "insertRun")
    /\ UNCHANGED <<runs, nextId, marketVars, job, scan, sess, outcome, returned, faultVars>>

(* The latest bar date is read again.  An adopted row keeps its run_date   *)
(* and its data_version: update() writes neither.                          *)
OpenRun(t) ==
    /\ pc[t] = "open"
    /\ IF job[t].run # NoRun
       THEN /\ staged' = [staged EXCEPT ![t] = [runs[job[t].run] EXCEPT !.status = "RUNNING"]]
            /\ Goto(t, "evaluate")
       ELSE /\ staged' = [staged EXCEPT ![t] =
                            [status       |-> "RUNNING",
                             strategy     |-> job[t].strategy,
                             run_date     |-> scan[t].asof,
                             data_version |-> IF latest = NoDay THEN scan[t].asof ELSE latest,
                             results      |-> NoDay]]
            /\ Goto(t, "insertRun")
    /\ UNCHANGED <<runs, nextId, marketVars, job, scan, sess, outcome, returned, faultVars>>

(* create() flushes the INSERT; the commit comes with the results.  A      *)
(* taken key raises out of the orchestrator before its try block.          *)
InsertRun(t) ==
    /\ pc[t] = "insertRun"
    /\ KeyIsFree(Key(staged[t]))
    /\ IF KeyIsTaken(Key(staged[t]))
       THEN /\ sess' = [sess EXCEPT ![t] = "broken"]
            /\ outcome' = [outcome EXCEPT ![t] = "conflict"]
            /\ Goto(t, "outer")
            /\ UNCHANGED <<nextId, job>>
       ELSE /\ job' = [job EXCEPT ![t].run = nextId]
            /\ nextId' = nextId + 1
            /\ Goto(t, "evaluate")
            /\ UNCHANGED <<sess, outcome>>
    /\ UNCHANGED <<runs, marketVars, scan, staged, returned, faultVars>>

EvaluateUniverse(t) ==
    /\ pc[t] = "evaluate"
    /\ Goto(t, "save")
    /\ UNCHANGED <<runs, nextId, marketVars, job, scan, staged, sess,
                   outcome, returned, faultVars>>

(* A statement fails while one symbol is processed: the error is counted   *)
(* as that symbol's failure and the evaluation goes on, in a transaction   *)
(* in which every later statement fails.                                   *)
EvaluateLosesStatement(t) ==
    /\ pc[t] = "evaluate"
    /\ dbErrors < MaxDbErrors
    /\ dbErrors' = dbErrors + 1
    /\ sess' = [sess EXCEPT ![t] = "broken"]
    /\ scan' = [scan EXCEPT ![t].asof = Partial]
    /\ Goto(t, "save")
    /\ UNCHANGED <<runs, nextId, marketVars, job, staged, outcome, returned, crashes>>

(* Slip: the error of a lost statement is cleared with its symbol. *)
SaveResultsRegardless(t) ==
    /\ pc[t] = "save"
    /\ staged' = [staged EXCEPT ![t].results = scan[t].asof]
    /\ Goto(t, "commit")
    /\ UNCHANGED <<runs, nextId, marketVars, job, scan, sess, outcome, returned, faultVars>>

(* Slip: save_results commits what it should flush. *)
SaveResultsCommitted(t) ==
    /\ pc[t] = "save"
    /\ sess[t] = "ok"
    /\ staged' = [staged EXCEPT ![t].results = scan[t].asof]
    /\ runs' = Written(job[t].run, staged'[t])
    /\ Goto(t, "commit")
    /\ UNCHANGED <<nextId, marketVars, job, scan, sess, outcome, returned, faultVars>>

SaveResults(t) ==
    /\ pc[t] = "save"
    /\ IF sess[t] = "ok"
       THEN /\ staged' = [staged EXCEPT ![t].results = scan[t].asof]
            /\ Goto(t, "commit")
       ELSE /\ Goto(t, "handler")
            /\ UNCHANGED staged
    /\ UNCHANGED <<runs, nextId, marketVars, job, scan, sess, outcome, returned, faultVars>>

(* COMPLETED and the results become visible in one commit. *)
Publish(t) == runs' = Written(job[t].run, [staged[t] EXCEPT !.status = "COMPLETED"])

CommitRun(t) ==
    /\ pc[t] = "commit"
    /\ Publish(t)
    /\ IF job[t].kind = "background"
       THEN End(t, "returned")
       ELSE /\ Goto(t, "return")
            /\ staged' = [staged EXCEPT ![t] = NoRow]
            /\ UNCHANGED <<scan, sess, outcome>>
    /\ UNCHANGED <<nextId, marketVars, job, returned, faultVars>>

(* The connection dies in the commit: the caller sees an error, the server *)
(* may have committed.                                                     *)
CommitLost(t) ==
    /\ pc[t] = "commit"
    /\ dbErrors < MaxDbErrors
    /\ dbErrors' = dbErrors + 1
    /\ Publish(t) \/ UNCHANGED runs
    /\ sess' = [sess EXCEPT ![t] = "broken"]
    /\ Goto(t, "handler")
    /\ UNCHANGED <<nextId, marketVars, job, scan, staged, outcome, returned, crashes>>

(* A direct call does not return the id it created but the newest          *)
(* completed run of any strategy.                                          *)
ReturnNewestCompleted(t) ==
    /\ pc[t] = "return"
    /\ \E r \in DOMAIN runs :
         /\ IsNewestCompleted(r)
         /\ returned' = [returned EXCEPT ![t] = r]
    /\ End(t, "returned")
    /\ UNCHANGED <<runs, nextId, marketVars, job, faultVars>>

-----------------------------------------------------------------------------
(* Errors. *)

(* Slip: the handler takes a new session when its own is broken. *)
HandleErrorInNewSession(t) ==
    /\ pc[t] = "handler"
    /\ runs' = Written(job[t].run, [staged[t] EXCEPT !.status = "FAILED"])
    /\ staged' = [staged EXCEPT ![t] = NoRow]
    /\ Goto(t, "outer")
    /\ UNCHANGED <<nextId, marketVars, job, scan, sess, outcome, returned, faultVars>>

(* Slip: the handler waits for its session to recover. *)
HandleErrorWaits(t) ==
    /\ pc[t] = "handler"
    /\ sess[t] = "ok"
    /\ runs' = Written(job[t].run, [staged[t] EXCEPT !.status = "FAILED"])
    /\ staged' = [staged EXCEPT ![t] = NoRow]
    /\ Goto(t, "outer")
    /\ UNCHANGED <<nextId, marketVars, job, scan, sess, outcome, returned, faultVars>>

(* The orchestrator's except: FAILED is committed with whatever the        *)
(* session staged, unless the session is broken; then the error goes on.   *)
HandleError(t) ==
    /\ pc[t] = "handler"
    /\ IF sess[t] = "ok"
       THEN runs' = Written(job[t].run, [staged[t] EXCEPT !.status = "FAILED"])
       ELSE UNCHANGED runs
    /\ staged' = [staged EXCEPT ![t] = NoRow]
    /\ Goto(t, "outer")
    /\ UNCHANGED <<nextId, marketVars, job, scan, sess, outcome, returned, faultVars>>

(* Slip: the error is logged and the row is forgotten. *)
MarkNothing(t) ==
    /\ pc[t] = "outer"
    /\ End(t, IF outcome[t] = "conflict" THEN "conflict" ELSE "raised")
    /\ UNCHANGED <<runs, nextId, marketVars, job, returned, faultVars>>

(* The pipeline's except and _mark_run_failed: only a row made before the  *)
(* pipeline is marked, in the session that raised.                         *)
MarkRunFailed(t) ==
    /\ pc[t] = "outer"
    /\ IF job[t].kind = "background" /\ sess[t] = "ok"
       THEN runs' = Written(job[t].run, [runs[job[t].run] EXCEPT !.status = "FAILED"])
       ELSE UNCHANGED runs
    /\ End(t, IF outcome[t] = "conflict" THEN "conflict" ELSE "raised")
    /\ UNCHANGED <<nextId, marketVars, job, returned, faultVars>>

InOrchestratorTry(t) == pc[t] \in {"evaluate", "save", "commit", "handler"}

(* An error that is not the database's: no strategy, an unparsable         *)
(* instrument list, no security with a bar on the date, a ranking error.   *)
PythonError(t) ==
    /\ pc[t] \in {"fetch", "ingest", "evaluate", "commit"}
    /\ Goto(t, IF InOrchestratorTry(t) THEN "handler" ELSE "outer")
    /\ UNCHANGED <<runs, nextId, marketVars, job, scan, staged, sess,
                   outcome, returned, faultVars>>

(* A statement fails and raises.  In the request of a background run (the  *)
(* INSERT, or reading the row back) nobody handles it, and the pipeline    *)
(* is never started.                                                       *)
DbError(t) ==
    /\ dbErrors < MaxDbErrors
    /\ dbErrors' = dbErrors + 1
    /\ IF pc[t] = "insert" \/ (pc[t] = "start" /\ job[t].kind = "background")
       THEN End(t, "unanswered")
       ELSE /\ pc[t] \notin {"idle", "done", "commit"}
            /\ Goto(t, IF InOrchestratorTry(t) THEN "handler" ELSE "outer")
            /\ sess' = [sess EXCEPT ![t] = "broken"]
            /\ UNCHANGED <<scan, staged, outcome>>
    /\ UNCHANGED <<runs, nextId, marketVars, job, returned, crashes>>

(* The process dies: what was staged is rolled back, nothing resumes.  No  *)
(* start-up code looks at the rows it leaves.                              *)
Crash ==
    /\ crashes < MaxCrashes
    /\ crashes' = crashes + 1
    /\ LET Lost == {t \in Requests : pc[t] \notin {"idle", "done"}} IN
         /\ Lost # {}
         /\ pc' = [t \in Requests |-> IF t \in Lost THEN "done" ELSE pc[t]]
         /\ outcome' = [t \in Requests |-> IF t \in Lost THEN "crashed" ELSE outcome[t]]
         /\ scan' = [t \in Requests |-> NoScan]
         /\ staged' = [t \in Requests |-> NoRow]
         /\ sess' = [t \in Requests |-> "ok"]
    /\ UNCHANGED <<runs, nextId, marketVars, job, returned, dbErrors>>

-----------------------------------------------------------------------------
(* The market. *)

NextDay ==
    /\ today < MaxDay
    /\ today' = today + 1
    /\ UNCHANGED <<runs, nextId, latest, listed, requestVars, faultVars>>

(* Bars another use case stores: the live refresh of a single symbol. *)
RefreshBars ==
    /\ listed
    /\ \E d \in latest + 1 .. today : latest' = d
    /\ UNCHANGED <<runs, nextId, listed, today, requestVars, faultVars>>

-----------------------------------------------------------------------------
(* What the event loop carries on with, once a request is made. *)
Proceed(t) ==
    \/ InsertPending(t)
    \/ BeginExecute(t) \/ FetchEodRange(t) \/ UpsertSecurities(t) \/ PersistBars(t)
    \/ ResolveScreeningDate(t) \/ OpenRun(t) \/ InsertRun(t)
    \/ EvaluateUniverse(t) \/ SaveResults(t) \/ CommitRun(t)
    \/ ReturnNewestCompleted(t) \/ HandleError(t) \/ MarkRunFailed(t)

Disturbed(t) ==
    \/ EvaluateLosesStatement(t) \/ CommitLost(t) \/ PythonError(t) \/ DbError(t)

Next ==
    \/ \E t \in Requests : TriggerRefresh(t) \/ CallDirectly(t)
                           \/ Proceed(t) \/ Disturbed(t)
    \/ Crash
    \/ NextDay
    \/ RefreshBars

Spec == Init /\ [][Next]_vars

(* asyncio resumes every task that can go on, so a request that can take   *)
(* its next step eventually takes it.  Nobody owes a request, an error, a  *)
(* crash, a new day or a refresh.                                          *)
FairSpec == Spec /\ \A t \in Requests : WF_vars(Proceed(t))

-----------------------------------------------------------------------------
(* PROPERTIES                                                              *)

(* Every variable keeps its type. *)
TypeOK ==
    /\ runs \in [DOMAIN runs -> Row] /\ DOMAIN runs \subseteq RunIds
    /\ nextId \in RunIds
    /\ latest \in Days \cup {NoDay}
    /\ listed \in BOOLEAN
    /\ today \in Days
    /\ pc \in [Requests -> Phases]
    /\ job \in [Requests -> Job]
    /\ scan \in [Requests -> Scan]
    /\ staged \in [Requests -> Row \cup {NoRow}]
    /\ sess \in [Requests -> {"ok", "broken"}]
    /\ outcome \in [Requests -> Outcomes]
    /\ returned \in [Requests -> RunIds \cup {NoRun}]
    /\ dbErrors \in 0 .. MaxDbErrors
    /\ crashes \in 0 .. MaxCrashes

(* A COMPLETED row has the complete results of one session date: never     *)
(* none, never those of an evaluation that lost a statement on the way     *)
(* ("Failure: mark FAILED, no partial COMPLETED").                         *)
NoPartialCompleted == \A r \in Completed : runs[r].results \in Days

(* A run is immutable once COMPLETED (ADR-006): whatever its session, the  *)
(* two except handlers, a lost commit, a crash or another request do next. *)
CompletedIsImmutable ==
    [][\A r \in Completed : r \in DOMAIN runs' /\ runs'[r] = runs[r]]_vars

(* RUNNING is a state of the session only: no reader ever sees it, so a    *)
(* crash leaves PENDING rows and no RUNNING ones.                          *)
RunningIsNeverVisible == \A r \in DOMAIN runs : runs[r].status # "RUNNING"

(* A background request that is over left its row PENDING only if a        *)
(* database error or a crash got in between: each of the other errors      *)
(* reaches one of the two handlers with the right row.                     *)
AbandonedOnlyByFault ==
    \A t \in Requests :
        /\ pc[t] = "done"
        /\ job[t].kind = "background"
        /\ job[t].run # NoRun
        => \/ runs[job[t].run].status \in {"COMPLETED", "FAILED"}
           \/ outcome[t] = "crashed"
           \/ dbErrors > 0

(* What a request that returns normally tells its caller: a recorded or    *)
(* background run its own row, a direct call a COMPLETED row no older than *)
(* its own, which is COMPLETED too.                                        *)
ReturnsARunThatExists ==
    \A t \in Requests : outcome[t] = "returned" =>
        /\ job[t].kind # "direct" => returned[t] = job[t].run
        /\ job[t].kind = "direct" =>
              /\ {job[t].run, returned[t]} \subseteq Completed
              /\ runs[returned[t]].run_date >= runs[job[t].run].run_date

(* A request ends as it says it did: it leaves no row behind but by a      *)
(* fault, and what it returns is there to be read.                         *)
RequestsEndTruthfully == AbandonedOnlyByFault /\ ReturnsARunThatExists

(* Which way the dates of a COMPLETED row can be off.  A created row is    *)
(* dated by the session its results are for.  An adopted row is dated by   *)
(* its trigger: its data_version was read before the ingestion and is      *)
(* never newer than its results, whoever stores bars in between.           *)
DatesBracketResults ==
    \A t \in Requests :
        LET r == job[t].run IN
        r \in Completed =>
            IF job[t].kind = "background"
            THEN runs[r].data_version <= runs[r].results
            ELSE runs[r].results = runs[r].run_date

(* The run table implements the promise of RunSnapshots: the error text    *)
(* and the times a FAILED row carries are not part of it.                  *)
Board == [r \in DOMAIN runs |-> [status |-> runs[r].status, snapshot |-> runs[r].results]]
Snapshot == INSTANCE RunSnapshots
    WITH board <- Board, Snapshots <- Days, NoSnapshot <- NoDay
ImplementsRunSnapshots == Snapshot!Spec

(* Every request that is made ends, with errors and crashes: two requests  *)
(* for the same key wait for one another at most until one commits.        *)
EveryRequestEnds ==
    \A t \in Requests : (pc[t] # "idle") ~> (pc[t] = "done")

(* The claims of documents, comments and docstrings that the code refutes. *)

(* The comment in run_screening_pipeline: a pre-created row does not stay  *)
(* PENDING once its pipeline has failed.                                   *)
NoRowLeftPending ==
    \A t \in Requests :
        /\ outcome[t] = "raised"
        /\ job[t].kind = "background"
        /\ job[t].run # NoRun
        => runs[job[t].run].status # "PENDING"

(* "Runs are manually re-triggerable and idempotent": the row of a FAILED  *)
(* run never refuses the request that would run it again.                  *)
FailedIsRetriggerable ==
    [][\A t \in Requests :
          outcome[t] # "conflict" /\ outcome'[t] = "conflict"
          => \A r \in DOMAIN runs :
                Key(runs[r]) = Key(staged[t]) => runs[r].status # "FAILED"]_vars
=============================================================================
