------------------------ MODULE ScreeningRunsProofs ------------------------
(***************************************************************************)
(* Theorems about ScreeningRuns, for any requests, strategies and bounds,  *)
(* all from one inductive invariant, IInv: type correctness, no partial    *)
(* COMPLETED run, no RUNNING run visible, the immutability of a COMPLETED  *)
(* run, and that the run table implements RunSnapshots.  One lemma per     *)
(* action shows that it keeps IInv; StepIInv says what it has to show.     *)
(***************************************************************************)
EXTENDS ScreeningRuns, TLAPS

BeforeRun == {"start", "fetch", "ingest", "persist", "resolve", "open", "insertRun"}
WithRun == {"evaluate", "save", "commit", "handler"}
InPipeline == BeforeRun \cup WithRun \cup {"return", "outer"}

(* Ids are drawn once and belong to one request. *)
IdsAreFresh ==
    /\ \A r \in DOMAIN runs : r < nextId
    /\ \A t \in Requests : job[t].run < nextId
    /\ \A t, u \in Requests : t # u /\ job[t].run # NoRun => job[t].run # job[u].run

(* Which row a request works on: a background pipeline on a committed one, *)
(* a direct call on none until it has inserted its own.                    *)
OwnsItsRow(t) ==
    /\ pc[t] # "idle" => job[t].strategy \in Strategies
    /\ pc[t] \in {"idle", "insert", "insertRun"} => job[t].run = NoRun
    /\ pc[t] = "insert" => job[t].kind # "direct"
    /\ pc[t] \in InPipeline => job[t].kind # "record"
    /\ pc[t] \in InPipeline /\ job[t].kind = "background" => job[t].run \in DOMAIN runs
    /\ pc[t] \in BeforeRun /\ job[t].run # NoRun => job[t].kind = "background"
    /\ pc[t] \in WithRun => job[t].run # NoRun

(* What a session has read and staged. *)
HoldsItsWork(t) ==
    /\ pc[t] \in {"fetch", "ingest", "persist", "resolve"} => scan[t].ref \in Days
    /\ pc[t] = "fetch" => scan[t].start >= 1
    /\ pc[t] \in {"open", "insertRun", "evaluate", "save"} /\ sess[t] = "ok"
       => scan[t].asof \in Days
    /\ pc[t] \in {"idle", "insert", "commit"} \cup BeforeRun => sess[t] = "ok"
    /\ pc[t] \in {"insert", "insertRun"} \cup WithRun => staged[t] \in Row
    /\ pc[t] = "insert" => staged[t].status = "PENDING"
    /\ pc[t] \in {"insert", "insertRun", "evaluate", "save"} => staged[t].results = NoDay
    /\ pc[t] = "commit" => staged[t].results \in Days
    /\ pc[t] = "handler" /\ sess[t] = "ok" => staged[t].results # Partial

(* A session that can still write finds its row open. *)
FindsItsRowOpen(t) ==
    sess[t] = "ok" /\ job[t].run \in DOMAIN runs =>
        /\ pc[t] \in BeforeRun \cup WithRun => runs[job[t].run].status = "PENDING"
        /\ pc[t] = "outer" => runs[job[t].run].status \in {"PENDING", "FAILED"}

(* Committed rows carry nothing or a whole snapshot, COMPLETED ones the    *)
(* latter; an open row carries nothing.                                    *)
RowsAreWhole ==
    \A r \in DOMAIN runs :
        /\ runs[r].results # Partial
        /\ runs[r].status = "COMPLETED" => runs[r].results \in Days
        /\ runs[r].status = "PENDING" => runs[r].results = NoDay

Mine(t) == OwnsItsRow(t) /\ HoldsItsWork(t) /\ FindsItsRowOpen(t)

IInv == /\ TypeOK
        /\ IdsAreFresh
        /\ \A t \in Requests : Mine(t)
        /\ RowsAreWhole

-----------------------------------------------------------------------------
(* The initial state satisfies the invariant: there are no rows. *)
LEMMA InitIInv == Init => IInv
<1> SUFFICES ASSUME Init PROVE IInv
  OBVIOUS
<1>1. TypeOK
  <2>1. runs \in [DOMAIN runs -> Row] /\ DOMAIN runs \subseteq RunIds
    BY DEF Init, RunIds
  <2>2. nextId \in RunIds
    BY DEF Init, RunIds
  <2>8. latest \in Days \cup {NoDay} /\ listed \in BOOLEAN
    BY DEF Init
  <2>3. today \in Days /\ dbErrors \in 0 .. MaxDbErrors /\ crashes \in 0 .. MaxCrashes
    BY BoundsAssumption DEF Init, Days
  <2>4. pc \in [Requests -> Phases] /\ outcome \in [Requests -> Outcomes]
    BY DEF Init, Phases, Outcomes
  <2>5. job \in [Requests -> Job]
    BY DEF Init, NoJob, Job, Kinds, NoRun
  <2>6. scan \in [Requests -> Scan]
    BY DEF Init, NoScan, Scan, NoDay
  <2>7. /\ staged \in [Requests -> Row \cup {NoRow}]
        /\ sess \in [Requests -> {"ok", "broken"}]
        /\ returned \in [Requests -> RunIds \cup {NoRun}]
    BY DEF Init
  <2>. QED  BY <2>1, <2>2, <2>3, <2>4, <2>5, <2>6, <2>7, <2>8 DEF TypeOK
<1>2. IdsAreFresh /\ RowsAreWhole
  BY DEF Init, IdsAreFresh, RowsAreWhole, NoJob, NoRun
<1>3. ASSUME NEW t \in Requests PROVE Mine(t)
  BY <1>3 DEF Init, Mine, OwnsItsRow, HoldsItsWork, FindsItsRowOpen, BeforeRun, WithRun,
         InPipeline, NoJob
<1>. QED  BY <1>1, <1>2, <1>3 DEF IInv

(* A step of request t that writes no row but its own leaves what the      *)
(* other requests rely on as it was.                                       *)
MovesOnly(t) ==
    /\ \A u \in Requests \ {t} :
         /\ pc'[u] = pc[u] /\ job'[u] = job[u] /\ scan'[u] = scan[u]
         /\ staged'[u] = staged[u] /\ sess'[u] = sess[u]
    /\ DOMAIN runs \subseteq DOMAIN runs'
    /\ DOMAIN runs' \subseteq DOMAIN runs \cup {nextId, job[t].run}
    /\ \A r \in DOMAIN runs : r # job[t].run => runs'[r] = runs[r]

LEMMA OthersKeep ==
    ASSUME IInv, TypeOK', NEW t \in Requests, MovesOnly(t), NEW u \in Requests, u # t
    PROVE  Mine(u)'
<1>0. job[u].run \in RunIds \cup {NoRun} /\ nextId \in RunIds
  BY DEF IInv, TypeOK, Job
<1>1. job[u].run # nextId
  BY <1>0 DEF IInv, IdsAreFresh, RunIds, NoRun
<1>2. job[u].run # NoRun => job[u].run # job[t].run
  BY DEF IInv, IdsAreFresh
<1>3. NoRun \notin DOMAIN runs
  BY DEF IInv, TypeOK, RunIds, NoRun
<1>4. OwnsItsRow(u)'
  BY DEF IInv, Mine, MovesOnly, OwnsItsRow
<1>5. HoldsItsWork(u)'
  BY DEF IInv, Mine, MovesOnly, HoldsItsWork
<1>6. FindsItsRowOpen(u)'
  <2>1. CASE job[u].run \in DOMAIN runs
    BY <2>1, <1>2, <1>3 DEF IInv, Mine, MovesOnly, FindsItsRowOpen
  <2>2. CASE job[u].run \notin DOMAIN runs /\ job[u].run # NoRun
    BY <2>2, <1>0, <1>1, <1>2 DEF MovesOnly, FindsItsRowOpen
  <2>3. CASE job[u].run = NoRun
    BY <2>3, <1>0, <1>1, <1>3 DEF IInv, TypeOK, MovesOnly, FindsItsRowOpen, RunIds, NoRun
  <2>. QED  BY <2>1, <2>2, <2>3
<1>. QED  BY <1>4, <1>5, <1>6 DEF Mine

(* The end of a request leaves it typed and with nothing in hand. *)
LEMMA EndFacts ==
    ASSUME TypeOK, NEW t \in Requests, NEW how \in Outcomes, End(t, how)
    PROVE  /\ pc' \in [Requests -> Phases] /\ outcome' \in [Requests -> Outcomes]
           /\ scan' \in [Requests -> Scan]
           /\ staged' \in [Requests -> Row \cup {NoRow}]
           /\ sess' \in [Requests -> {"ok", "broken"}]
           /\ pc'[t] = "done"
           /\ \A u \in Requests \ {t} :
                 /\ pc'[u] = pc[u] /\ scan'[u] = scan[u]
                 /\ staged'[u] = staged[u] /\ sess'[u] = sess[u]
BY DEF TypeOK, End, Phases, Outcomes, Scan, NoScan, NoDay

(* A request that is over relies on nothing but its strategy. *)
LEMMA DoneIsMine ==
    ASSUME NEW t \in Requests, pc'[t] = "done", job'[t].strategy \in Strategies
    PROVE  Mine(t)'
BY DEF Mine, OwnsItsRow, HoldsItsWork, FindsItsRowOpen, InPipeline, BeforeRun, WithRun

(* What a step of one request has to show: the rest of the invariant is kept. *)
LEMMA StepIInv ==
    ASSUME IInv, NEW t \in Requests, TypeOK', IdsAreFresh', RowsAreWhole',
           MovesOnly(t), Mine(t)'
    PROVE  IInv'
BY OthersKeep DEF IInv

(* A row whose results are nothing or a whole snapshot. *)
Whole(row) == /\ row.results # Partial
              /\ row.status = "COMPLETED" => row.results \in Days
              /\ row.status = "PENDING" => row.results = NoDay

(* The rows the last commit and the two except handlers write. *)
LEMMA PublishedIsWhole ==
    ASSUME NEW row \in Row, row.results \in Days
    PROVE  /\ [row EXCEPT !.status = "COMPLETED"] \in Row
           /\ Whole([row EXCEPT !.status = "COMPLETED"])
BY BoundsAssumption DEF Row, RunStatus, Whole, Days, Partial

LEMMA FailedIsWhole ==
    ASSUME NEW row \in Row
    PROVE  /\ [row EXCEPT !.status = "FAILED"] \in Row
           /\ row.results # Partial => Whole([row EXCEPT !.status = "FAILED"])
BY DEF Row, RunStatus, Whole

(* A request that writes its own row and draws no id. *)
LEMMA OwnRowFacts ==
    ASSUME IInv, NEW t \in Requests, job[t].run # NoRun,
           NEW row \in Row, Whole(row),
           runs' = Written(job[t].run, row), UNCHANGED <<nextId, job>>
    PROVE  /\ runs' \in [DOMAIN runs' -> Row] /\ DOMAIN runs' \subseteq RunIds
           /\ DOMAIN runs' = DOMAIN runs \cup {job[t].run}
           /\ \A x \in DOMAIN runs : x # job[t].run => runs'[x] = runs[x]
           /\ runs'[job[t].run] = row
           /\ IdsAreFresh' /\ RowsAreWhole'
<1>1. job[t].run \in RunIds
  BY DEF IInv, TypeOK, Job
<1>2. /\ DOMAIN runs' = DOMAIN runs \cup {job[t].run}
      /\ runs' \in [DOMAIN runs' -> Row] /\ DOMAIN runs' \subseteq RunIds
      /\ runs'[job[t].run] = row
      /\ \A x \in DOMAIN runs : x # job[t].run => runs'[x] = runs[x]
  BY <1>1 DEF IInv, TypeOK, Written
<1>3. IdsAreFresh'
  BY <1>2 DEF IInv, IdsAreFresh
<1>4. RowsAreWhole'
  BY <1>2 DEF IInv, RowsAreWhole, Whole
<1>. QED  BY <1>2, <1>3, <1>4

(* A request that ends and writes no row. *)
LEMMA EndIInv ==
    ASSUME IInv, NEW t \in Requests, NEW how \in Outcomes, End(t, how),
           UNCHANGED <<runs, nextId, job, marketVars>>, job[t].strategy \in Strategies,
           returned' \in [Requests -> RunIds \cup {NoRun}],
           dbErrors' \in 0 .. MaxDbErrors, crashes' \in 0 .. MaxCrashes
    PROVE  IInv'
<1>0. /\ pc' \in [Requests -> Phases] /\ outcome' \in [Requests -> Outcomes]
      /\ scan' \in [Requests -> Scan]
      /\ staged' \in [Requests -> Row \cup {NoRow}]
      /\ sess' \in [Requests -> {"ok", "broken"}]
      /\ pc'[t] = "done"
      /\ \A u \in Requests \ {t} :
            /\ pc'[u] = pc[u] /\ scan'[u] = scan[u]
            /\ staged'[u] = staged[u] /\ sess'[u] = sess[u]
  BY EndFacts DEF IInv
<1>1. TypeOK'
  BY <1>0 DEF IInv, TypeOK, marketVars
<1>2. IdsAreFresh' /\ RowsAreWhole'
  BY DEF IInv, IdsAreFresh, RowsAreWhole
<1>3. MovesOnly(t)
  BY <1>0 DEF MovesOnly
<1>4. Mine(t)'
  BY <1>0, DoneIsMine
<1>. QED  BY <1>1, <1>2, <1>3, <1>4, StepIInv

(* A request that ends and writes its own row. *)
LEMMA EndWithRowIInv ==
    ASSUME IInv, NEW t \in Requests, NEW how \in Outcomes, End(t, how),
           job[t].run # NoRun, NEW row \in Row, Whole(row),
           runs' = Written(job[t].run, row),
           UNCHANGED <<nextId, job, marketVars, returned, faultVars>>,
           job[t].strategy \in Strategies
    PROVE  IInv'
<1>0. /\ pc' \in [Requests -> Phases] /\ outcome' \in [Requests -> Outcomes]
      /\ scan' \in [Requests -> Scan]
      /\ staged' \in [Requests -> Row \cup {NoRow}]
      /\ sess' \in [Requests -> {"ok", "broken"}]
      /\ pc'[t] = "done"
      /\ \A u \in Requests \ {t} :
            /\ pc'[u] = pc[u] /\ scan'[u] = scan[u]
            /\ staged'[u] = staged[u] /\ sess'[u] = sess[u]
  BY EndFacts DEF IInv
<1>a. /\ runs' \in [DOMAIN runs' -> Row] /\ DOMAIN runs' \subseteq RunIds
      /\ DOMAIN runs' = DOMAIN runs \cup {job[t].run}
      /\ \A x \in DOMAIN runs : x # job[t].run => runs'[x] = runs[x]
      /\ IdsAreFresh' /\ RowsAreWhole'
  BY OwnRowFacts
<1>1. TypeOK'
  BY <1>0, <1>a DEF IInv, TypeOK, marketVars, faultVars
<1>3. MovesOnly(t)
  BY <1>0, <1>a DEF MovesOnly
<1>4. Mine(t)'
  BY <1>0, DoneIsMine
<1>. QED  BY <1>1, <1>a, <1>3, <1>4, StepIInv

(* The trigger stages a PENDING row for the clock date.                    *)
LEMMA TriggerRefreshIInv ==
    ASSUME IInv, NEW t \in Requests, TriggerRefresh(t) PROVE IInv'
<1>a. PICK s \in Strategies, kind \in {"record", "background"}, force \in BOOLEAN :
        /\ job' = [job EXCEPT ![t] = [kind |-> kind, strategy |-> s,
                                      force |-> force, run |-> NoRun]]
        /\ staged' = [staged EXCEPT ![t] =
                        [status |-> "PENDING", strategy |-> s, run_date |-> today,
                         data_version |-> latest, results |-> NoDay]]
  BY DEF TriggerRefresh
<1>b. [kind |-> kind, strategy |-> s, force |-> force, run |-> NoRun] \in Job
  BY DEF Job, Kinds, NoRun
<1>c. [status |-> "PENDING", strategy |-> s, run_date |-> today,
       data_version |-> latest, results |-> NoDay] \in Row
  BY DEF IInv, TypeOK, Row, RunStatus
<1> USE DEF TriggerRefresh, Goto, marketVars, requestVars, faultVars
<1>1. TypeOK'
  BY <1>a, <1>b, <1>c DEF IInv, TypeOK, Phases
<1>2. IdsAreFresh'
  BY <1>a DEF IInv, IdsAreFresh, TypeOK, RunIds, NoRun
<1>3. RowsAreWhole'
  BY DEF IInv, RowsAreWhole
<1>4. MovesOnly(t)
  BY DEF IInv, MovesOnly, TypeOK
<1>5. OwnsItsRow(t)'
  BY <1>a DEF IInv, TypeOK, OwnsItsRow, BeforeRun, WithRun, InPipeline
<1>6. HoldsItsWork(t)'
  <2>1. sess[t] = "ok"
    BY DEF IInv, Mine, HoldsItsWork
  <2>. QED  BY <2>1, <1>a, <1>c DEF IInv, TypeOK, HoldsItsWork, BeforeRun, WithRun
<1>7. FindsItsRowOpen(t)'
  BY DEF IInv, TypeOK, FindsItsRowOpen, BeforeRun, WithRun
<1>. QED  BY <1>1, <1>2, <1>3, <1>4, <1>5, <1>6, <1>7, StepIInv DEF Mine

(* The request inserts its row under a fresh id, or is refused.            *)
LEMMA InsertPendingIInv ==
    ASSUME IInv, NEW t \in Requests, InsertPending(t) PROVE IInv'
<1>a. /\ pc[t] = "insert" /\ staged[t] \in Row /\ job[t].run = NoRun /\ sess[t] = "ok"
      /\ staged[t].status = "PENDING" /\ staged[t].results = NoDay
      /\ job[t] \in Job /\ job[t].strategy \in Strategies
  BY DEF InsertPending, IInv, TypeOK, Mine, OwnsItsRow, HoldsItsWork
<1>b. nextId \in RunIds /\ nextId \notin DOMAIN runs /\ DOMAIN runs \subseteq RunIds /\ TypeOK
  BY DEF IInv, TypeOK, IdsAreFresh, RunIds
<1>c. UNCHANGED <<marketVars, faultVars>>
  BY DEF InsertPending
<1>1. CASE KeyIsTaken(Key(staged[t]))
  <2>1. End(t, "conflict") /\ UNCHANGED <<runs, nextId, job, returned>>
    BY <1>1 DEF InsertPending
  <2>2. dbErrors' \in 0 .. MaxDbErrors /\ crashes' \in 0 .. MaxCrashes
        /\ returned' \in [Requests -> RunIds \cup {NoRun}]
    BY <2>1, <1>b, <1>c DEF TypeOK, faultVars
  <2>3. "conflict" \in Outcomes
    BY DEF Outcomes
  <2>. QED  BY <2>1, <2>2, <2>3, <1>a, <1>c, EndIInv
<1>2. CASE ~KeyIsTaken(Key(staged[t]))
  <2>1. /\ runs' = Written(nextId, staged[t])
        /\ nextId' = nextId + 1
        /\ job' = [job EXCEPT ![t] = [@ EXCEPT !.run = nextId]]
        /\ returned' = [returned EXCEPT ![t] = nextId]
        /\ \/ job[t].kind = "record" /\ End(t, "returned")
           \/ /\ job[t].kind # "record"
              /\ pc' = [pc EXCEPT ![t] = "start"]
              /\ staged' = [staged EXCEPT ![t] = NoRow]
              /\ UNCHANGED <<scan, sess, outcome>>
    BY <1>2 DEF InsertPending
  <2>2. /\ DOMAIN runs' = DOMAIN runs \cup {nextId}
        /\ runs' \in [DOMAIN runs' -> Row] /\ DOMAIN runs' \subseteq RunIds
        /\ runs'[nextId] = staged[t]
        /\ \A x \in DOMAIN runs : x # nextId => runs'[x] = runs[x]
    BY <2>1, <1>a, <1>b DEF TypeOK, Written
  <2>3. [job[t] EXCEPT !.run = nextId] \in Job
    BY <1>a, <1>b DEF Job
  <2>4. /\ job' \in [Requests -> Job] /\ job'[t].run = nextId
        /\ job'[t].strategy \in Strategies /\ job'[t].kind = job[t].kind
        /\ \A u \in Requests \ {t} : job'[u] = job[u]
    BY <2>1, <2>3, <1>a, <1>b DEF TypeOK, Job
  <2>5. returned' \in [Requests -> RunIds \cup {NoRun}] /\ nextId' \in RunIds
    BY <2>1, <1>b DEF TypeOK, RunIds
  <2>6. IdsAreFresh'
    <3>1. \A u \in Requests : job[u].run \in Nat /\ job[u].run < nextId
      BY <1>b DEF IInv, IdsAreFresh, TypeOK, Job, RunIds, NoRun
    <3>2. \A r \in DOMAIN runs' : r < nextId'
      BY <2>1, <2>2, <1>b DEF IInv, IdsAreFresh, RunIds
    <3>3. \A u \in Requests : job'[u].run < nextId'
      BY <2>1, <2>4, <3>1, <1>b DEF RunIds
    <3>4. \A u, v \in Requests : u # v /\ job'[u].run # NoRun => job'[u].run # job'[v].run
      BY <2>4, <3>1, <1>b DEF IInv, IdsAreFresh, RunIds
    <3>. QED  BY <3>2, <3>3, <3>4 DEF IdsAreFresh
  <2>7. RowsAreWhole'
    <3>1. NoDay # Partial
      BY DEF NoDay, Partial
    <3>. QED  BY <2>2, <1>a, <1>b, <3>1 DEF IInv, RowsAreWhole
  <2>8. CASE job[t].kind = "record"
    <3>1. End(t, "returned") /\ "returned" \in Outcomes
      BY <2>1, <2>8 DEF Outcomes
    <3>2. /\ pc' \in [Requests -> Phases] /\ outcome' \in [Requests -> Outcomes]
          /\ scan' \in [Requests -> Scan]
          /\ staged' \in [Requests -> Row \cup {NoRow}]
          /\ sess' \in [Requests -> {"ok", "broken"}]
          /\ pc'[t] = "done"
          /\ \A u \in Requests \ {t} :
                /\ pc'[u] = pc[u] /\ scan'[u] = scan[u]
                /\ staged'[u] = staged[u] /\ sess'[u] = sess[u]
      BY <3>1, <1>b, EndFacts
    <3>3. TypeOK'
      BY <3>2, <2>2, <2>4, <2>5, <1>b, <1>c DEF TypeOK, marketVars, faultVars
    <3>4. MovesOnly(t)
      BY <3>2, <2>2, <2>4, <1>b DEF MovesOnly
    <3>5. Mine(t)'
      BY <3>2, <2>4, DoneIsMine
    <3>. QED  BY <3>3, <3>4, <3>5, <2>6, <2>7, StepIInv
  <2>9. CASE job[t].kind # "record"
    <3>1. /\ pc' = [pc EXCEPT ![t] = "start"]
          /\ staged' = [staged EXCEPT ![t] = NoRow]
          /\ UNCHANGED <<scan, sess, outcome>>
      BY <2>1, <2>9
    <3>2. TypeOK'
      BY <3>1, <2>2, <2>4, <2>5, <1>b, <1>c DEF TypeOK, marketVars, faultVars, Phases
    <3>3. MovesOnly(t)
      BY <3>1, <2>2, <2>4, <1>b DEF MovesOnly, TypeOK
    <3>4. pc'[t] = "start" /\ sess'[t] = "ok" /\ nextId # NoRun
      BY <3>1, <1>a, <1>b DEF TypeOK, RunIds, NoRun
    <3>5. job'[t].kind = "background"
      BY <2>4, <2>9, <1>a DEF IInv, Mine, OwnsItsRow, Job, Kinds
    <3>6. OwnsItsRow(t)'
      BY <3>4, <3>5, <2>2, <2>4 DEF OwnsItsRow, WithRun
    <3>7. HoldsItsWork(t)'
      BY <3>4 DEF HoldsItsWork, WithRun
    <3>8. FindsItsRowOpen(t)'
      BY <3>4, <2>2, <2>4, <1>a DEF FindsItsRowOpen
    <3>. QED  BY <3>2, <3>3, <3>6, <3>7, <3>8, <2>6, <2>7, StepIInv DEF Mine
  <2>. QED  BY <2>8, <2>9
<1>. QED  BY <1>1, <1>2

(* A blocking call starts without a row.                                   *)
LEMMA CallDirectlyIInv ==
    ASSUME IInv, NEW t \in Requests, CallDirectly(t) PROVE IInv'
<1>a. PICK s \in Strategies, force \in BOOLEAN :
        job' = [job EXCEPT ![t] = [kind |-> "direct", strategy |-> s,
                                   force |-> force, run |-> NoRun]]
  BY DEF CallDirectly
<1>b. [kind |-> "direct", strategy |-> s, force |-> force, run |-> NoRun] \in Job
  BY DEF Job, Kinds, NoRun
<1> USE DEF CallDirectly, Goto, marketVars, requestVars, faultVars
<1>1. TypeOK'
  BY <1>a, <1>b DEF IInv, TypeOK, Phases
<1>2. IdsAreFresh'
  BY <1>a DEF IInv, IdsAreFresh, TypeOK, RunIds, NoRun
<1>3. RowsAreWhole'
  BY DEF IInv, RowsAreWhole
<1>4. MovesOnly(t)
  BY DEF IInv, MovesOnly, TypeOK
<1>5. OwnsItsRow(t)'
  BY <1>a DEF IInv, TypeOK, OwnsItsRow, BeforeRun, WithRun, InPipeline
<1>6. HoldsItsWork(t)'
  <2>1. sess[t] = "ok"
    BY DEF IInv, Mine, HoldsItsWork
  <2>. QED  BY <2>1 DEF IInv, TypeOK, HoldsItsWork, BeforeRun, WithRun
<1>7. FindsItsRowOpen(t)'
  BY <1>a DEF IInv, TypeOK, FindsItsRowOpen, BeforeRun, WithRun, NoRun, RunIds
<1>. QED  BY <1>1, <1>2, <1>3, <1>4, <1>5, <1>6, <1>7, StepIInv DEF Mine

(* The pipeline fixes its window; nothing is written.                      *)
LEMMA BeginExecuteIInv ==
    ASSUME IInv, NEW t \in Requests, BeginExecute(t) PROVE IInv'
<1>a. (IF job[t].force THEN 1 ELSE latest + 1) \in Nat \ {0}
  BY BoundsAssumption DEF IInv, TypeOK, Days, NoDay
<1>b. [scan[t] EXCEPT !.ref = today,
                      !.start = IF job[t].force THEN 1 ELSE latest + 1] \in Scan
  BY <1>a DEF IInv, TypeOK, Scan
<1> USE DEF BeginExecute, Goto, marketVars, requestVars, faultVars
<1>1. TypeOK'
  BY <1>b DEF IInv, TypeOK, Phases
<1>2. IdsAreFresh'
  BY DEF IInv, IdsAreFresh, TypeOK
<1>3. RowsAreWhole'
  BY DEF IInv, RowsAreWhole
<1>4. MovesOnly(t)
  BY DEF IInv, MovesOnly, TypeOK
<1>5. OwnsItsRow(t)'
  BY DEF IInv, TypeOK, Mine, OwnsItsRow, BeforeRun, WithRun, InPipeline
<1>6. HoldsItsWork(t)'
  BY <1>a DEF IInv, TypeOK, Mine, HoldsItsWork, BeforeRun, WithRun, Scan
<1>7. FindsItsRowOpen(t)'
  BY DEF IInv, TypeOK, Mine, OwnsItsRow, HoldsItsWork, FindsItsRowOpen, BeforeRun,
       WithRun
<1>. QED  BY <1>1, <1>2, <1>3, <1>4, <1>5, <1>6, <1>7, StepIInv DEF Mine

(* The newest fetched session lies in the window.                          *)
LEMMA FetchEodRangeIInv ==
    ASSUME IInv, NEW t \in Requests, FetchEodRange(t) PROVE IInv'
<1>a. \A d \in scan[t].start .. scan[t].ref : d \in Days
  <2>1. scan[t] \in Scan /\ scan[t].start >= 1 /\ scan[t].ref \in Days
    BY DEF FetchEodRange, IInv, TypeOK, Mine, HoldsItsWork
  <2>. QED  BY <2>1, BoundsAssumption DEF Scan, Days
<1>b. scan[t] \in Scan
  BY DEF IInv, TypeOK
<1>c. \A d \in Days : [scan[t] EXCEPT !.newest = d, !.start = NoDay] \in Scan
  BY <1>b DEF Scan, NoDay
<1>d. [scan[t] EXCEPT !.start = NoDay] \in Scan
  BY <1>b DEF Scan, NoDay
<1>e. scan' \in [Requests -> Scan] /\ scan'[t].ref = scan[t].ref
  <2>1. ASSUME NEW d \in scan[t].start .. scan[t].ref,
               scan' = [scan EXCEPT ![t] = [@ EXCEPT !.newest = d, !.start = NoDay]]
        PROVE  scan' \in [Requests -> Scan] /\ scan'[t].ref = scan[t].ref
    <3>1. [scan[t] EXCEPT !.newest = d, !.start = NoDay] \in Scan
      BY <1>a, <1>c
    <3>. QED  BY <2>1, <3>1, <1>b DEF IInv, TypeOK, Scan
  <2>2. CASE scan' = [scan EXCEPT ![t] = [@ EXCEPT !.start = NoDay]]
    BY <2>2, <1>b, <1>d DEF IInv, TypeOK, Scan
  <2>. QED  BY <2>1, <2>2 DEF FetchEodRange
<1> USE DEF FetchEodRange, Goto, marketVars, requestVars, faultVars
<1>1. TypeOK'
  BY <1>e DEF IInv, TypeOK, Phases
<1>2. IdsAreFresh'
  BY DEF IInv, IdsAreFresh, TypeOK
<1>3. RowsAreWhole'
  BY DEF IInv, RowsAreWhole
<1>4. MovesOnly(t)
  BY DEF IInv, MovesOnly, TypeOK
<1>5. OwnsItsRow(t)'
  BY DEF IInv, TypeOK, Mine, OwnsItsRow, BeforeRun, WithRun, InPipeline
<1>6. HoldsItsWork(t)'
  BY <1>e DEF IInv, TypeOK, Mine, HoldsItsWork, BeforeRun, WithRun
<1>7. FindsItsRowOpen(t)'
  BY DEF IInv, TypeOK, Mine, OwnsItsRow, HoldsItsWork, FindsItsRowOpen, BeforeRun,
       WithRun
<1>. QED  BY <1>1, <1>2, <1>3, <1>4, <1>5, <1>6, <1>7, StepIInv DEF Mine

(* Securities are listed; no run row is involved.                          *)
LEMMA UpsertSecuritiesIInv ==
    ASSUME IInv, NEW t \in Requests, UpsertSecurities(t) PROVE IInv'
<1> USE DEF UpsertSecurities, Goto, marketVars, requestVars, faultVars
<1>1. TypeOK'
  BY DEF IInv, TypeOK, Phases, Outcomes
<1>2. IdsAreFresh'
  BY DEF IInv, IdsAreFresh, TypeOK
<1>3. RowsAreWhole'
  BY DEF IInv, RowsAreWhole
<1>4. MovesOnly(t)
  BY DEF IInv, MovesOnly, TypeOK
<1>5. OwnsItsRow(t)'
  BY DEF IInv, TypeOK, Mine, OwnsItsRow, BeforeRun, WithRun, InPipeline
<1>6. HoldsItsWork(t)'
  BY DEF IInv, TypeOK, Mine, OwnsItsRow, HoldsItsWork, BeforeRun, WithRun
<1>7. FindsItsRowOpen(t)'
  BY DEF IInv, TypeOK, Mine, OwnsItsRow, HoldsItsWork, FindsItsRowOpen, BeforeRun,
       WithRun
<1>. QED  BY <1>1, <1>2, <1>3, <1>4, <1>5, <1>6, <1>7, StepIInv DEF Mine

(* Bars are stored; the newest stored date stays a session date.           *)
LEMMA PersistBarsIInv ==
    ASSUME IInv, NEW t \in Requests, PersistBars(t) PROVE IInv'
<1> USE DEF PersistBars, Goto, marketVars, requestVars, faultVars
<1>1. TypeOK'
  <2>1. latest' \in Days \cup {NoDay}
    BY DEF IInv, TypeOK, Scan
  <2>2. scan' \in [Requests -> Scan]
    BY DEF IInv, TypeOK, Scan, NoDay
  <2>. QED  BY <2>1, <2>2 DEF IInv, TypeOK, Phases
<1>2. IdsAreFresh'
  BY DEF IInv, IdsAreFresh, TypeOK
<1>3. RowsAreWhole'
  BY DEF IInv, RowsAreWhole
<1>4. MovesOnly(t)
  BY DEF IInv, MovesOnly, TypeOK
<1>5. OwnsItsRow(t)'
  BY DEF IInv, TypeOK, Mine, OwnsItsRow, BeforeRun, WithRun, InPipeline
<1>6. HoldsItsWork(t)'
  BY DEF IInv, TypeOK, Mine, OwnsItsRow, HoldsItsWork, BeforeRun, WithRun
<1>7. FindsItsRowOpen(t)'
  BY DEF IInv, TypeOK, Mine, OwnsItsRow, HoldsItsWork, FindsItsRowOpen, BeforeRun,
       WithRun
<1>. QED  BY <1>1, <1>2, <1>3, <1>4, <1>5, <1>6, <1>7, StepIInv DEF Mine

(* The date screened is a session date.                                    *)
LEMMA ResolveScreeningDateIInv ==
    ASSUME IInv, NEW t \in Requests, ResolveScreeningDate(t) PROVE IInv'
<1>a. (IF latest = NoDay THEN scan[t].ref ELSE latest) \in Days
  BY DEF ResolveScreeningDate, IInv, TypeOK, Mine, HoldsItsWork
<1>b. [scan[t] EXCEPT !.asof = IF latest = NoDay THEN scan[t].ref ELSE latest,
                      !.ref = NoDay] \in Scan
  BY <1>a DEF IInv, TypeOK, Scan
<1> USE DEF ResolveScreeningDate, Goto, marketVars, requestVars, faultVars
<1>1. TypeOK'
  BY <1>b DEF IInv, TypeOK, Phases
<1>2. IdsAreFresh'
  BY DEF IInv, IdsAreFresh, TypeOK
<1>3. RowsAreWhole'
  BY DEF IInv, RowsAreWhole
<1>4. MovesOnly(t)
  BY DEF IInv, MovesOnly, TypeOK
<1>5. OwnsItsRow(t)'
  BY DEF IInv, TypeOK, Mine, OwnsItsRow, BeforeRun, WithRun, InPipeline
<1>6. HoldsItsWork(t)'
  BY <1>a DEF IInv, TypeOK, Mine, HoldsItsWork, BeforeRun, WithRun, Scan
<1>7. FindsItsRowOpen(t)'
  BY DEF IInv, TypeOK, Mine, OwnsItsRow, HoldsItsWork, FindsItsRowOpen, BeforeRun,
       WithRun
<1>. QED  BY <1>1, <1>2, <1>3, <1>4, <1>5, <1>6, <1>7, StepIInv DEF Mine

(* The row is adopted as it was committed, or a new one is staged.         *)
LEMMA OpenRunIInv ==
    ASSUME IInv, NEW t \in Requests, OpenRun(t) PROVE IInv'
<1>a. job[t].run # NoRun => runs[job[t].run] \in Row /\ job[t].run \in DOMAIN runs
  BY DEF OpenRun, IInv, TypeOK, Mine, OwnsItsRow, BeforeRun, InPipeline
<1>b. job[t].run # NoRun =>
        /\ runs[job[t].run].results = NoDay
        /\ [runs[job[t].run] EXCEPT !.status = "RUNNING"] \in Row
  BY <1>a DEF OpenRun, IInv, RowsAreWhole, Mine, HoldsItsWork, FindsItsRowOpen,
       BeforeRun, Row, RunStatus
<1>c. [status       |-> "RUNNING",
       strategy     |-> job[t].strategy,
       run_date     |-> scan[t].asof,
       data_version |-> IF latest = NoDay THEN scan[t].asof ELSE latest,
       results      |-> NoDay] \in Row
  BY DEF OpenRun, IInv, TypeOK, Mine, OwnsItsRow, HoldsItsWork, BeforeRun,
       InPipeline, Row, RunStatus
<1> USE DEF OpenRun, Goto, marketVars, requestVars, faultVars
<1>1. TypeOK'
  BY <1>b, <1>c DEF IInv, TypeOK, Phases
<1>2. IdsAreFresh'
  BY DEF IInv, IdsAreFresh, TypeOK
<1>3. RowsAreWhole'
  BY DEF IInv, RowsAreWhole
<1>4. MovesOnly(t)
  BY DEF IInv, MovesOnly, TypeOK
<1>5. OwnsItsRow(t)'
  BY DEF IInv, TypeOK, Mine, OwnsItsRow, BeforeRun, WithRun, InPipeline
<1>6. HoldsItsWork(t)'
  BY <1>a, <1>b, <1>c DEF IInv, TypeOK, Mine, HoldsItsWork, BeforeRun, WithRun, Row
<1>7. FindsItsRowOpen(t)'
  BY DEF IInv, TypeOK, Mine, OwnsItsRow, HoldsItsWork, FindsItsRowOpen, BeforeRun,
       WithRun
<1>. QED  BY <1>1, <1>2, <1>3, <1>4, <1>5, <1>6, <1>7, StepIInv DEF Mine

(* A direct call inserts its row in the session, uncommitted.              *)
LEMMA InsertRunIInv ==
    ASSUME IInv, NEW t \in Requests, InsertRun(t) PROVE IInv'
<1>a. /\ pc[t] = "insertRun" /\ staged[t] \in Row /\ sess[t] = "ok"
      /\ staged[t].results = NoDay /\ scan[t].asof \in Days
      /\ job[t] \in Job /\ job[t].strategy \in Strategies /\ job[t].kind # "record"
      /\ job[t].run # NoRun => job[t].run \in DOMAIN runs
  BY DEF InsertRun, IInv, TypeOK, Mine, OwnsItsRow, HoldsItsWork, BeforeRun, InPipeline
<1>b. nextId \in RunIds /\ nextId \notin DOMAIN runs /\ DOMAIN runs \subseteq RunIds /\ TypeOK
  BY DEF IInv, TypeOK, IdsAreFresh, RunIds
<1>c. UNCHANGED <<runs, marketVars, scan, staged, returned, faultVars>>
  BY DEF InsertRun
<1>d. RowsAreWhole'
  BY <1>c DEF IInv, RowsAreWhole
<1>1. CASE KeyIsTaken(Key(staged[t]))
  <2>1. /\ sess' = [sess EXCEPT ![t] = "broken"]
        /\ outcome' = [outcome EXCEPT ![t] = "conflict"]
        /\ pc' = [pc EXCEPT ![t] = "outer"]
        /\ UNCHANGED <<nextId, job>>
    BY <1>1 DEF InsertRun, Goto
  <2>2. TypeOK'
    BY <2>1, <1>b, <1>c DEF TypeOK, Phases, Outcomes, marketVars, faultVars
  <2>3. IdsAreFresh'
    BY <2>1, <1>c DEF IInv, IdsAreFresh
  <2>4. MovesOnly(t)
    BY <2>1, <1>b, <1>c DEF MovesOnly, TypeOK
  <2>5. pc'[t] = "outer" /\ sess'[t] = "broken"
    BY <2>1, <1>b DEF TypeOK
  <2>6. OwnsItsRow(t)'
    BY <2>1, <2>5, <1>a, <1>c DEF IInv, Mine, OwnsItsRow, BeforeRun, WithRun, InPipeline
  <2>7. HoldsItsWork(t)'
    BY <2>5 DEF HoldsItsWork, BeforeRun, WithRun
  <2>8. FindsItsRowOpen(t)'
    BY <2>5 DEF FindsItsRowOpen
  <2>. QED  BY <2>2, <2>3, <2>4, <2>6, <2>7, <2>8, <1>d, StepIInv DEF Mine
<1>2. CASE ~KeyIsTaken(Key(staged[t]))
  <2>1. /\ job' = [job EXCEPT ![t] = [@ EXCEPT !.run = nextId]]
        /\ nextId' = nextId + 1
        /\ pc' = [pc EXCEPT ![t] = "evaluate"]
        /\ UNCHANGED <<sess, outcome>>
    BY <1>2 DEF InsertRun, Goto
  <2>2. [job[t] EXCEPT !.run = nextId] \in Job
    BY <1>a, <1>b DEF Job
  <2>3. /\ job' \in [Requests -> Job] /\ job'[t].run = nextId
        /\ job'[t].strategy \in Strategies /\ job'[t].kind = job[t].kind
        /\ \A u \in Requests \ {t} : job'[u] = job[u]
    BY <2>1, <2>2, <1>a, <1>b DEF TypeOK, Job
  <2>4. nextId' \in RunIds
    BY <2>1, <1>b DEF RunIds
  <2>5. TypeOK'
    BY <2>1, <2>3, <2>4, <1>b, <1>c DEF TypeOK, Phases, marketVars, faultVars
  <2>6. IdsAreFresh'
    <3>1. \A u \in Requests : job[u].run \in Nat /\ job[u].run < nextId
      BY <1>b DEF IInv, IdsAreFresh, TypeOK, Job, RunIds, NoRun
    <3>2. \A r \in DOMAIN runs' : r < nextId'
      BY <2>1, <1>b, <1>c DEF IInv, IdsAreFresh, RunIds
    <3>3. \A u \in Requests : job'[u].run < nextId'
      BY <2>1, <2>3, <3>1, <1>b DEF RunIds
    <3>4. \A u, v \in Requests : u # v /\ job'[u].run # NoRun => job'[u].run # job'[v].run
      BY <2>3, <3>1, <1>b DEF IInv, IdsAreFresh, RunIds
    <3>. QED  BY <3>2, <3>3, <3>4 DEF IdsAreFresh
  <2>7. MovesOnly(t)
    BY <2>1, <2>3, <1>b, <1>c DEF MovesOnly, TypeOK
  <2>8. /\ pc'[t] = "evaluate" /\ sess'[t] = "ok" /\ nextId # NoRun
        /\ job'[t].kind = "background" => job'[t].run \in DOMAIN runs'
    <3>1. pc'[t] = "evaluate" /\ sess'[t] = "ok" /\ nextId # NoRun
      BY <2>1, <1>a, <1>b DEF TypeOK, RunIds, NoRun
    <3>2. job[t].kind # "background"
      BY <1>a, <1>b DEF IInv, Mine, OwnsItsRow, BeforeRun, InPipeline, RunIds, NoRun
    <3>. QED  BY <3>1, <3>2, <2>3
  <2>9. OwnsItsRow(t)'
    BY <2>8, <2>3, <1>a DEF OwnsItsRow, BeforeRun
  <2>10. HoldsItsWork(t)'
    BY <2>8, <1>a, <1>c DEF HoldsItsWork, BeforeRun
  <2>11. FindsItsRowOpen(t)'
    BY <2>3, <1>b, <1>c DEF FindsItsRowOpen
  <2>. QED  BY <2>5, <2>6, <2>7, <2>9, <2>10, <2>11, <1>d, StepIInv DEF Mine
<1>. QED  BY <1>1, <1>2

(* A clean evaluation changes nothing that is stored.                      *)
LEMMA EvaluateUniverseIInv ==
    ASSUME IInv, NEW t \in Requests, EvaluateUniverse(t) PROVE IInv'
<1> USE DEF EvaluateUniverse, Goto, marketVars, requestVars, faultVars
<1>1. TypeOK'
  BY DEF IInv, TypeOK, Phases, Outcomes
<1>2. IdsAreFresh'
  BY DEF IInv, IdsAreFresh, TypeOK
<1>3. RowsAreWhole'
  BY DEF IInv, RowsAreWhole
<1>4. MovesOnly(t)
  BY DEF IInv, MovesOnly, TypeOK
<1>5. OwnsItsRow(t)'
  BY DEF IInv, TypeOK, Mine, OwnsItsRow, BeforeRun, WithRun, InPipeline
<1>6. HoldsItsWork(t)'
  BY DEF IInv, TypeOK, Mine, OwnsItsRow, HoldsItsWork, BeforeRun, WithRun
<1>7. FindsItsRowOpen(t)'
  BY DEF IInv, TypeOK, Mine, OwnsItsRow, HoldsItsWork, FindsItsRowOpen, BeforeRun,
       WithRun
<1>. QED  BY <1>1, <1>2, <1>3, <1>4, <1>5, <1>6, <1>7, StepIInv DEF Mine

(* A lost statement leaves a broken session behind.                        *)
LEMMA EvaluateLosesStatementIInv ==
    ASSUME IInv, NEW t \in Requests, EvaluateLosesStatement(t) PROVE IInv'
<1> USE DEF EvaluateLosesStatement, Goto, marketVars, requestVars, faultVars
<1>1. TypeOK'
  <2>1. scan' \in [Requests -> Scan]
    BY DEF IInv, TypeOK, Scan
  <2>2. dbErrors' \in 0 .. MaxDbErrors
    BY BoundsAssumption DEF IInv, TypeOK
  <2>. QED  BY <2>1, <2>2 DEF IInv, TypeOK, Phases
<1>2. IdsAreFresh'
  BY DEF IInv, IdsAreFresh, TypeOK
<1>3. RowsAreWhole'
  BY DEF IInv, RowsAreWhole
<1>4. MovesOnly(t)
  BY DEF IInv, MovesOnly, TypeOK
<1>5. OwnsItsRow(t)'
  BY DEF IInv, TypeOK, Mine, OwnsItsRow, BeforeRun, WithRun, InPipeline
<1>6. HoldsItsWork(t)'
  BY DEF IInv, TypeOK, Mine, OwnsItsRow, HoldsItsWork, BeforeRun, WithRun
<1>7. FindsItsRowOpen(t)'
  BY DEF IInv, TypeOK, Mine, OwnsItsRow, HoldsItsWork, FindsItsRowOpen, BeforeRun,
       WithRun
<1>. QED  BY <1>1, <1>2, <1>3, <1>4, <1>5, <1>6, <1>7, StepIInv DEF Mine

(* Only a session that is not broken stages results.                       *)
LEMMA SaveResultsIInv ==
    ASSUME IInv, NEW t \in Requests, SaveResults(t) PROVE IInv'
<1> USE DEF SaveResults, Goto, marketVars, requestVars, faultVars
<1>1. TypeOK'
  <2>1. staged[t] \in Row
    BY DEF IInv, Mine, HoldsItsWork, BeforeRun, WithRun
  <2>2. [staged[t] EXCEPT !.results = scan[t].asof] \in Row
    BY <2>1 DEF IInv, TypeOK, Scan, Row
  <2>3. staged' \in [Requests -> Row \cup {NoRow}]
    BY <2>2 DEF IInv, TypeOK
  <2>. QED  BY <2>3 DEF IInv, TypeOK, Phases
<1>2. IdsAreFresh'
  BY DEF IInv, IdsAreFresh, TypeOK
<1>3. RowsAreWhole'
  BY DEF IInv, RowsAreWhole
<1>4. MovesOnly(t)
  BY DEF IInv, MovesOnly, TypeOK
<1>5. OwnsItsRow(t)'
  BY DEF IInv, TypeOK, Mine, OwnsItsRow, BeforeRun, WithRun, InPipeline
<1>6. HoldsItsWork(t)'
  <2>1. staged[t] \in Row /\ (sess[t] = "ok" => scan[t].asof \in Days)
    BY DEF IInv, Mine, HoldsItsWork, BeforeRun, WithRun
  <2>2. [staged[t] EXCEPT !.results = scan[t].asof] \in Row
    BY <2>1 DEF IInv, TypeOK, Scan, Row
  <2>. QED  BY <2>1, <2>2 DEF IInv, TypeOK, HoldsItsWork, BeforeRun, WithRun, Row
<1>7. FindsItsRowOpen(t)'
  BY DEF IInv, TypeOK, Mine, OwnsItsRow, HoldsItsWork, FindsItsRowOpen, BeforeRun,
       WithRun
<1>. QED  BY <1>1, <1>2, <1>3, <1>4, <1>5, <1>6, <1>7, StepIInv DEF Mine

(* The commit publishes a row whose results are whole.                     *)
LEMMA CommitRunIInv ==
    ASSUME IInv, NEW t \in Requests, CommitRun(t) PROVE IInv'
<1>a. /\ job[t].run # NoRun /\ job[t].strategy \in Strategies /\ job[t].kind # "record"
      /\ staged[t] \in Row /\ staged[t].results \in Days /\ TypeOK
  BY DEF CommitRun, IInv, Mine, OwnsItsRow, HoldsItsWork, WithRun, InPipeline
<1> DEFINE row == [staged[t] EXCEPT !.status = "COMPLETED"]
<1>b. row \in Row /\ Whole(row)
  BY <1>a, PublishedIsWhole
<1>c. /\ runs' = Written(job[t].run, row)
      /\ UNCHANGED <<nextId, marketVars, job, returned, faultVars>>
  BY DEF CommitRun, Publish
<1>1. CASE job[t].kind = "background"
  <2>1. End(t, "returned") /\ "returned" \in Outcomes
    BY <1>1 DEF CommitRun, Outcomes
  <2>. QED  BY <2>1, <1>a, <1>b, <1>c, EndWithRowIInv
<1>2. CASE job[t].kind # "background"
  <2>1. /\ pc' = [pc EXCEPT ![t] = "return"]
        /\ staged' = [staged EXCEPT ![t] = NoRow]
        /\ UNCHANGED <<scan, sess, outcome>>
    BY <1>2 DEF CommitRun, Goto
  <2>2. /\ runs' \in [DOMAIN runs' -> Row] /\ DOMAIN runs' \subseteq RunIds
        /\ DOMAIN runs' = DOMAIN runs \cup {job[t].run}
        /\ \A x \in DOMAIN runs : x # job[t].run => runs'[x] = runs[x]
        /\ IdsAreFresh' /\ RowsAreWhole'
    BY <1>a, <1>b, <1>c, OwnRowFacts
  <2>3. TypeOK'
    BY <2>1, <2>2, <1>a, <1>c DEF TypeOK, Phases, marketVars, faultVars
  <2>4. MovesOnly(t)
    BY <2>1, <2>2, <1>a, <1>c DEF MovesOnly, TypeOK
  <2>5. pc'[t] = "return"
    BY <2>1, <1>a DEF TypeOK
  <2>6. Mine(t)'
    BY <2>2, <2>5, <1>a, <1>c DEF Mine, OwnsItsRow, HoldsItsWork, FindsItsRowOpen,
         BeforeRun, WithRun, InPipeline
  <2>. QED  BY <2>2, <2>3, <2>4, <2>6, StepIInv
<1>. QED  BY <1>1, <1>2

(* A lost commit publishes the same row or none, and breaks the session.   *)
LEMMA CommitLostIInv ==
    ASSUME IInv, NEW t \in Requests, CommitLost(t) PROVE IInv'
<1>a. /\ job[t].run # NoRun /\ job[t].strategy \in Strategies /\ job[t].kind # "record"
      /\ job[t].kind = "background" => job[t].run \in DOMAIN runs
      /\ staged[t] \in Row /\ staged[t].results \in Days /\ TypeOK
  BY DEF CommitLost, IInv, Mine, OwnsItsRow, HoldsItsWork, WithRun, InPipeline
<1> DEFINE row == [staged[t] EXCEPT !.status = "COMPLETED"]
<1>b. row \in Row /\ Whole(row)
  BY <1>a, PublishedIsWhole
<1>c. /\ sess' = [sess EXCEPT ![t] = "broken"]
      /\ pc' = [pc EXCEPT ![t] = "handler"]
      /\ UNCHANGED <<nextId, marketVars, job, scan, staged, outcome, returned, crashes>>
  BY DEF CommitLost, Goto
<1>d. dbErrors' \in 0 .. MaxDbErrors
  BY <1>a, BoundsAssumption DEF CommitLost, TypeOK
<1>e. /\ runs' \in [DOMAIN runs' -> Row] /\ DOMAIN runs' \subseteq RunIds
      /\ DOMAIN runs \subseteq DOMAIN runs'
      /\ DOMAIN runs' \subseteq DOMAIN runs \cup {job[t].run}
      /\ \A x \in DOMAIN runs : x # job[t].run => runs'[x] = runs[x]
      /\ IdsAreFresh' /\ RowsAreWhole'
  <2>1. CASE Publish(t)
    BY <2>1, <1>a, <1>b, <1>c, OwnRowFacts DEF Publish
  <2>2. CASE UNCHANGED runs
    BY <2>2, <1>a, <1>c DEF TypeOK, IInv, IdsAreFresh, RowsAreWhole
  <2>. QED  BY <2>1, <2>2 DEF CommitLost
<1>1. TypeOK'
  BY <1>a, <1>c, <1>d, <1>e DEF TypeOK, Phases, marketVars
<1>2. MovesOnly(t)
  BY <1>a, <1>c, <1>e DEF MovesOnly, TypeOK
<1>3. pc'[t] = "handler" /\ sess'[t] = "broken"
  BY <1>a, <1>c DEF TypeOK
<1>4. OwnsItsRow(t)'
  BY <1>3, <1>a, <1>c, <1>e DEF OwnsItsRow, BeforeRun
<1>5. HoldsItsWork(t)'
  BY <1>3, <1>a, <1>c DEF HoldsItsWork, BeforeRun
<1>6. FindsItsRowOpen(t)'
  BY <1>3 DEF FindsItsRowOpen
<1>. QED  BY <1>1, <1>2, <1>4, <1>5, <1>6, <1>e, StepIInv DEF Mine

(* The direct call ends with the id of some completed row.                 *)
LEMMA ReturnNewestCompletedIInv ==
    ASSUME IInv, NEW t \in Requests, ReturnNewestCompleted(t) PROVE IInv'
<1>1. End(t, "returned") /\ "returned" \in Outcomes
  BY DEF ReturnNewestCompleted, Outcomes
<1>2. job[t].strategy \in Strategies
  BY DEF ReturnNewestCompleted, IInv, Mine, OwnsItsRow
<1>3. UNCHANGED <<runs, nextId, job, marketVars, faultVars>>
  BY DEF ReturnNewestCompleted
<1>4. returned' \in [Requests -> RunIds \cup {NoRun}]
  BY DEF ReturnNewestCompleted, IInv, TypeOK
<1>5. dbErrors' \in 0 .. MaxDbErrors /\ crashes' \in 0 .. MaxCrashes
  BY <1>3 DEF IInv, TypeOK, faultVars
<1>. QED  BY <1>1, <1>2, <1>3, <1>4, <1>5, EndIInv

(* The orchestrator marks its own open row FAILED, or nothing.             *)
LEMMA HandleErrorIInv ==
    ASSUME IInv, NEW t \in Requests, HandleError(t) PROVE IInv'
<1>a. /\ pc[t] = "handler" /\ job[t].run # NoRun
      /\ job[t].strategy \in Strategies /\ job[t].kind # "record"
      /\ job[t].kind = "background" => job[t].run \in DOMAIN runs
      /\ staged[t] \in Row /\ TypeOK
      /\ sess[t] = "ok" => staged[t].results # Partial
  BY DEF HandleError, IInv, Mine, OwnsItsRow, HoldsItsWork, WithRun, InPipeline
<1> DEFINE row == [staged[t] EXCEPT !.status = "FAILED"]
<1>b. row \in Row /\ (sess[t] = "ok" => Whole(row))
  BY <1>a, FailedIsWhole
<1>c. /\ staged' = [staged EXCEPT ![t] = NoRow]
      /\ pc' = [pc EXCEPT ![t] = "outer"]
      /\ UNCHANGED <<nextId, marketVars, job, scan, sess, outcome, returned, faultVars>>
  BY DEF HandleError, Goto
<1>e. /\ runs' \in [DOMAIN runs' -> Row] /\ DOMAIN runs' \subseteq RunIds
      /\ DOMAIN runs \subseteq DOMAIN runs'
      /\ DOMAIN runs' \subseteq DOMAIN runs \cup {job[t].run}
      /\ \A x \in DOMAIN runs : x # job[t].run => runs'[x] = runs[x]
      /\ IdsAreFresh' /\ RowsAreWhole'
      /\ sess[t] = "ok" => runs'[job[t].run].status = "FAILED"
  <2>1. CASE sess[t] = "ok"
    <3>1. runs' = Written(job[t].run, row)
      BY <2>1 DEF HandleError
    <3>2. row.status = "FAILED"
      BY <1>a DEF Row
    <3>. QED  BY <2>1, <3>1, <3>2, <1>a, <1>b, <1>c, OwnRowFacts
  <2>2. CASE sess[t] # "ok"
    BY <2>2, <1>a, <1>c DEF HandleError, TypeOK, IInv, IdsAreFresh, RowsAreWhole
  <2>. QED  BY <2>1, <2>2
<1>1. TypeOK'
  BY <1>a, <1>c, <1>e DEF TypeOK, Phases, marketVars, faultVars
<1>2. MovesOnly(t)
  BY <1>a, <1>c, <1>e DEF MovesOnly, TypeOK
<1>3. pc'[t] = "outer"
  BY <1>a, <1>c DEF TypeOK
<1>4. OwnsItsRow(t)'
  BY <1>3, <1>a, <1>c, <1>e DEF OwnsItsRow, BeforeRun, WithRun
<1>5. HoldsItsWork(t)'
  BY <1>3 DEF HoldsItsWork, BeforeRun, WithRun
<1>6. FindsItsRowOpen(t)'
  BY <1>3, <1>c, <1>e DEF FindsItsRowOpen, BeforeRun, WithRun
<1>. QED  BY <1>1, <1>2, <1>4, <1>5, <1>6, <1>e, StepIInv DEF Mine

(* The pipeline marks its own row FAILED, or nothing.                      *)
LEMMA MarkRunFailedIInv ==
    ASSUME IInv, NEW t \in Requests, MarkRunFailed(t) PROVE IInv'
<1>a. /\ job[t].strategy \in Strategies /\ TypeOK
      /\ job[t].kind = "background" => job[t].run \in DOMAIN runs
  BY DEF MarkRunFailed, IInv, Mine, OwnsItsRow, InPipeline
<1>b. PICK how \in Outcomes : End(t, how)
  BY DEF MarkRunFailed, Outcomes
<1>c. UNCHANGED <<nextId, marketVars, job, returned, faultVars>>
  BY DEF MarkRunFailed
<1>1. CASE job[t].kind = "background" /\ sess[t] = "ok"
  <2> DEFINE row == [runs[job[t].run] EXCEPT !.status = "FAILED"]
  <2>1. runs' = Written(job[t].run, row)
    BY <1>1 DEF MarkRunFailed
  <2>2. runs[job[t].run] \in Row /\ runs[job[t].run].results # Partial
    BY <1>1, <1>a DEF TypeOK, IInv, RowsAreWhole
  <2>3. row \in Row /\ Whole(row)
    BY <2>2, FailedIsWhole
  <2>4. job[t].run # NoRun
    BY <1>1, <1>a DEF TypeOK, RunIds, NoRun
  <2>. QED  BY <2>1, <2>3, <2>4, <1>a, <1>b, <1>c, EndWithRowIInv
<1>2. CASE ~(job[t].kind = "background" /\ sess[t] = "ok")
  <2>1. UNCHANGED runs
    BY <1>2 DEF MarkRunFailed
  <2>2. /\ returned' \in [Requests -> RunIds \cup {NoRun}]
        /\ dbErrors' \in 0 .. MaxDbErrors /\ crashes' \in 0 .. MaxCrashes
    BY <1>a, <1>c DEF TypeOK, faultVars
  <2>. QED  BY <2>1, <2>2, <1>a, <1>b, <1>c, EndIInv
<1>. QED  BY <1>1, <1>2

(* An error of the code leaves the session usable.                         *)
LEMMA PythonErrorIInv ==
    ASSUME IInv, NEW t \in Requests, PythonError(t) PROVE IInv'
<1> USE DEF PythonError, InOrchestratorTry, Goto, marketVars, requestVars, faultVars
<1>1. TypeOK'
  BY DEF IInv, TypeOK, Phases, Outcomes
<1>2. IdsAreFresh'
  BY DEF IInv, IdsAreFresh, TypeOK
<1>3. RowsAreWhole'
  BY DEF IInv, RowsAreWhole
<1>4. MovesOnly(t)
  BY DEF IInv, MovesOnly, TypeOK
<1>5. OwnsItsRow(t)'
  BY DEF IInv, TypeOK, Mine, OwnsItsRow, BeforeRun, WithRun, InPipeline
<1>6. HoldsItsWork(t)'
  <2>1. Partial \notin Days /\ Partial # NoDay
    BY BoundsAssumption DEF Partial, NoDay, Days
  <2>2. pc[t] \in WithRun => staged[t] \in Row /\ (sess[t] = "ok" =>
       staged[t].results # Partial)
    BY <2>1 DEF IInv, Mine, HoldsItsWork, WithRun
  <2>. QED  BY <2>2 DEF IInv, TypeOK, HoldsItsWork, BeforeRun, WithRun
<1>7. FindsItsRowOpen(t)'
  BY DEF IInv, TypeOK, Mine, OwnsItsRow, HoldsItsWork, FindsItsRowOpen, BeforeRun,
       WithRun
<1>. QED  BY <1>1, <1>2, <1>3, <1>4, <1>5, <1>6, <1>7, StepIInv DEF Mine

(* An error of the database leaves the session broken.                     *)
LEMMA DbErrorIInv ==
    ASSUME IInv, NEW t \in Requests, DbError(t) PROVE IInv'
<1>a. dbErrors' \in 0 .. MaxDbErrors
  BY BoundsAssumption DEF DbError, IInv, TypeOK
<1>b. /\ UNCHANGED <<runs, nextId, marketVars, job, returned, crashes>>
      /\ returned' \in [Requests -> RunIds \cup {NoRun}] /\ crashes' \in 0 .. MaxCrashes
      /\ TypeOK
  BY DEF DbError, IInv, TypeOK
<1>1. CASE pc[t] = "insert" \/ (pc[t] = "start" /\ job[t].kind = "background")
  <2>1. End(t, "unanswered") /\ "unanswered" \in Outcomes
    BY <1>1 DEF DbError, Outcomes
  <2>2. job[t].strategy \in Strategies
    BY <1>1 DEF IInv, Mine, OwnsItsRow
  <2>. QED  BY <2>1, <2>2, <1>a, <1>b, EndIInv
<1>2. CASE ~(pc[t] = "insert" \/ (pc[t] = "start" /\ job[t].kind = "background"))
  <2>1. /\ pc[t] \notin {"idle", "done", "commit", "insert"}
        /\ pc' = [pc EXCEPT ![t] = IF InOrchestratorTry(t) THEN "handler" ELSE "outer"]
        /\ sess' = [sess EXCEPT ![t] = "broken"]
        /\ UNCHANGED <<scan, staged, outcome>>
    BY <1>2 DEF DbError, Goto
  <2>2. TypeOK'
    BY <2>1, <1>a, <1>b DEF TypeOK, Phases, marketVars
  <2>3. IdsAreFresh' /\ RowsAreWhole'
    BY <1>b DEF IInv, IdsAreFresh, RowsAreWhole
  <2>4. MovesOnly(t)
    BY <2>1, <1>b DEF MovesOnly, TypeOK
  <2>5. /\ sess'[t] = "broken"
        /\ pc'[t] = IF InOrchestratorTry(t) THEN "handler" ELSE "outer"
    BY <2>1, <1>b DEF TypeOK
  <2>6. OwnsItsRow(t)'
    <3>1. pc[t] \in InPipeline
      BY <2>1, <1>b DEF TypeOK, Phases, InPipeline, BeforeRun, WithRun
    <3>. QED  BY <3>1, <2>5, <1>b DEF IInv, Mine, OwnsItsRow, InOrchestratorTry,
                BeforeRun, WithRun, InPipeline
  <2>7. HoldsItsWork(t)'
    BY <2>1, <2>5, <1>b DEF IInv, Mine, HoldsItsWork, InOrchestratorTry, BeforeRun, WithRun
  <2>8. FindsItsRowOpen(t)'
    BY <2>5 DEF FindsItsRowOpen
  <2>. QED  BY <2>2, <2>3, <2>4, <2>6, <2>7, <2>8, StepIInv DEF Mine
<1>. QED  BY <1>1, <1>2

-----------------------------------------------------------------------------
(* The process dies: every request that was under way is over, no row is written. *)
LEMMA CrashIInv == IInv /\ Crash => IInv'
<1> SUFFICES ASSUME IInv, Crash PROVE IInv'
  OBVIOUS
<1>a. TypeOK /\ UNCHANGED <<runs, nextId, marketVars, job, returned, dbErrors>>
  BY DEF Crash, IInv
<1>b. /\ pc' = [t \in Requests |-> IF pc[t] \notin {"idle", "done"} THEN "done" ELSE pc[t]]
      /\ outcome' = [t \in Requests |-> IF pc[t] \notin {"idle", "done"} THEN "crashed"
                                        ELSE outcome[t]]
      /\ scan' = [t \in Requests |-> NoScan]
      /\ staged' = [t \in Requests |-> NoRow]
      /\ sess' = [t \in Requests |-> "ok"]
  BY DEF Crash
<1>c. crashes' \in 0 .. MaxCrashes
  BY <1>a, BoundsAssumption DEF Crash, TypeOK
<1>1. TypeOK'
  <2>1. pc' \in [Requests -> Phases] /\ outcome' \in [Requests -> Outcomes]
    BY <1>a, <1>b DEF TypeOK, Phases, Outcomes
  <2>2. scan' \in [Requests -> Scan]
    BY <1>b DEF NoScan, Scan, NoDay
  <2>3. staged' \in [Requests -> Row \cup {NoRow}] /\ sess' \in [Requests -> {"ok", "broken"}]
    BY <1>b
  <2>. QED  BY <2>1, <2>2, <2>3, <1>a, <1>c DEF TypeOK, marketVars
<1>2. IdsAreFresh' /\ RowsAreWhole'
  BY <1>a DEF IInv, IdsAreFresh, RowsAreWhole
<1>3. ASSUME NEW t \in Requests PROVE Mine(t)'
  <2>1. CASE pc[t] = "idle"
    <3>1. pc'[t] = "idle" /\ sess'[t] = "ok"
      BY <2>1, <1>b
    <3>. QED  BY <2>1, <3>1, <1>a DEF IInv, Mine, OwnsItsRow, HoldsItsWork,
                FindsItsRowOpen, BeforeRun, WithRun, InPipeline
  <2>2. CASE pc[t] # "idle"
    <3>1. pc'[t] = "done"
      BY <2>2, <1>b
    <3>2. job'[t].strategy \in Strategies
      BY <2>2, <1>a DEF IInv, Mine, OwnsItsRow
    <3>. QED  BY <3>1, <3>2, DoneIsMine
  <2>. QED  BY <2>1, <2>2
<1>. QED  BY <1>1, <1>2, <1>3 DEF IInv

(* The clock, and bars stored by others: no request and no row moves. *)
LEMMA MarketIInv == IInv /\ (NextDay \/ RefreshBars \/ UNCHANGED vars) => IInv'
<1> SUFFICES ASSUME IInv, NextDay \/ RefreshBars \/ UNCHANGED vars PROVE IInv'
  OBVIOUS
<1>a. UNCHANGED <<runs, nextId, listed, requestVars, faultVars>> \/ UNCHANGED vars
  BY DEF NextDay, RefreshBars
<1>b. UNCHANGED <<runs, nextId, listed, pc, job, scan, staged, sess, outcome,
                  returned, dbErrors, crashes>>
  BY <1>a DEF vars, marketVars, requestVars, faultVars
<1>1. latest' \in Days \cup {NoDay} /\ today' \in Days
  <2>1. CASE NextDay
    BY <2>1, BoundsAssumption DEF NextDay, IInv, TypeOK, Days
  <2>2. CASE RefreshBars
    BY <2>2, BoundsAssumption DEF RefreshBars, IInv, TypeOK, Days, NoDay
  <2>3. CASE UNCHANGED vars
    BY <2>3 DEF vars, marketVars, IInv, TypeOK
  <2>. QED  BY <2>1, <2>2, <2>3
<1>2. TypeOK'
  BY <1>b, <1>1 DEF IInv, TypeOK
<1>3. IdsAreFresh' /\ RowsAreWhole'
  BY <1>b DEF IInv, IdsAreFresh, RowsAreWhole
<1>4. ASSUME NEW t \in Requests PROVE Mine(t)'
  BY <1>b DEF IInv, Mine, OwnsItsRow, HoldsItsWork, FindsItsRowOpen
<1>. QED  BY <1>2, <1>3, <1>4 DEF IInv

(* Every step keeps the invariant. *)
LEMMA NextIInv == IInv /\ [Next]_vars => IInv'
<1> SUFFICES ASSUME IInv, [Next]_vars PROVE IInv'
  OBVIOUS
<1>1. ASSUME NEW t \in Requests,
             TriggerRefresh(t) \/ CallDirectly(t) \/ Proceed(t) \/ Disturbed(t)
      PROVE  IInv'
  <2>1. CASE TriggerRefresh(t) \/ CallDirectly(t)
    BY <2>1, TriggerRefreshIInv, CallDirectlyIInv
  <2>2. CASE Proceed(t)
    BY <2>2, InsertPendingIInv, BeginExecuteIInv, FetchEodRangeIInv, UpsertSecuritiesIInv,
       PersistBarsIInv, ResolveScreeningDateIInv, OpenRunIInv, InsertRunIInv,
       EvaluateUniverseIInv, SaveResultsIInv, CommitRunIInv, ReturnNewestCompletedIInv,
       HandleErrorIInv, MarkRunFailedIInv DEF Proceed
  <2>3. CASE Disturbed(t)
    BY <2>3, EvaluateLosesStatementIInv, CommitLostIInv, PythonErrorIInv, DbErrorIInv
       DEF Disturbed
  <2>. QED  BY <1>1, <2>1, <2>2, <2>3
<1>2. CASE Crash
  BY <1>2, CrashIInv
<1>3. CASE NextDay \/ RefreshBars \/ UNCHANGED vars
  BY <1>3, MarketIInv
<1>. QED  BY <1>1, <1>2, <1>3 DEF Next

(* The invariant holds in every reachable state. *)
THEOREM Invariance == Spec => []IInv
BY InitIInv, NextIInv, PTL DEF Spec

(* Every variable keeps its type, for any number of requests and faults. *)
THEOREM TypeCorrect == Spec => []TypeOK
<1>1. IInv => TypeOK
  BY DEF IInv
<1>. QED  BY <1>1, Invariance, PTL

(* No COMPLETED row with missing or damaged results, whatever fails: the   *)
(* session that would commit one is broken and commits nothing.            *)
THEOREM CompletedRunsAreWhole == Spec => []NoPartialCompleted
<1>1. IInv => NoPartialCompleted
  BY DEF IInv, RowsAreWhole, NoPartialCompleted, Completed
<1>. QED  BY <1>1, Invariance, PTL
-----------------------------------------------------------------------------
(* What a step that changes the table writes: a new PENDING row, or the    *)
(* request's own row, which is new, open, or FAILED already.               *)
Announces(id, row) == /\ id \in RunIds /\ id \notin DOMAIN runs
                      /\ row.status = "PENDING" /\ row.results = NoDay

Settles(id, row) ==
    /\ id \in RunIds
    /\ id \in DOMAIN runs => \/ runs[id].status = "PENDING"
                             \/ /\ runs[id].status = "FAILED" /\ row.status = "FAILED"
                                /\ runs[id].results = row.results
    /\ \/ row.status = "COMPLETED" /\ row.results \in Days
       \/ row.status = "FAILED" /\ row.results \in Days \cup {NoDay}

(* The only writes are these. *)
LEMMA WritesOpenRows ==
    ASSUME IInv, [Next]_vars, runs' # runs
    PROVE  \E id, row : runs' = Written(id, row) /\ (Announces(id, row) \/ Settles(id, row))
<1>0. PICK t \in Requests : Proceed(t) \/ CommitLost(t)
  BY DEF Next, vars, TriggerRefresh, CallDirectly, Disturbed, EvaluateLosesStatement,
     PythonError, DbError, Crash, NextDay, RefreshBars
<1>a. OwnsItsRow(t) /\ HoldsItsWork(t) /\ FindsItsRowOpen(t) /\ TypeOK
  BY DEF IInv, Mine
<1>b. job[t].run # NoRun => job[t].run \in RunIds
  BY <1>a DEF TypeOK, Job
<1>1. CASE InsertPending(t)
  <2>1. pc[t] = "insert" /\ runs' = Written(nextId, staged[t])
    BY <1>1 DEF InsertPending
  <2>2. nextId \in RunIds /\ nextId \notin DOMAIN runs
    BY <1>a DEF TypeOK, IInv, IdsAreFresh, RunIds
  <2>. QED  BY <2>1, <2>2, <1>a DEF HoldsItsWork, Announces
<1>2. CASE CommitRun(t) \/ CommitLost(t)
  <2> DEFINE row == [staged[t] EXCEPT !.status = "COMPLETED"]
  <2>1. pc[t] = "commit" /\ runs' = Written(job[t].run, row)
    BY <1>2 DEF CommitRun, CommitLost, Publish
  <2>2. row.status = "COMPLETED" /\ row.results \in Days
    BY <2>1, <1>a DEF HoldsItsWork, WithRun, Row
  <2>3. job[t].run \in RunIds /\ sess[t] = "ok"
    BY <2>1, <1>a, <1>b DEF OwnsItsRow, HoldsItsWork, WithRun
  <2>4. job[t].run \in DOMAIN runs => runs[job[t].run].status = "PENDING"
    BY <2>1, <2>3, <1>a DEF FindsItsRowOpen, WithRun
  <2>5. Settles(job[t].run, row)
    BY <2>2, <2>3, <2>4 DEF Settles
  <2>. QED  BY <2>1, <2>5
<1>3. CASE HandleError(t)
  <2> DEFINE row == [staged[t] EXCEPT !.status = "FAILED"]
  <2>1. pc[t] = "handler" /\ sess[t] = "ok" /\ runs' = Written(job[t].run, row)
    BY <1>3 DEF HandleError
  <2>2. row.status = "FAILED" /\ row.results \in Days \cup {NoDay}
    BY <2>1, <1>a DEF HoldsItsWork, WithRun, Row
  <2>3. job[t].run \in RunIds
    BY <2>1, <1>a, <1>b DEF OwnsItsRow, WithRun
  <2>4. job[t].run \in DOMAIN runs => runs[job[t].run].status = "PENDING"
    BY <2>1, <1>a DEF FindsItsRowOpen, WithRun
  <2>5. Settles(job[t].run, row)
    BY <2>2, <2>3, <2>4 DEF Settles
  <2>. QED  BY <2>1, <2>5
<1>4. CASE MarkRunFailed(t)
  <2> DEFINE row == [runs[job[t].run] EXCEPT !.status = "FAILED"]
  <2>1. /\ pc[t] = "outer" /\ sess[t] = "ok" /\ job[t].kind = "background"
        /\ runs' = Written(job[t].run, row)
    BY <1>4 DEF MarkRunFailed
  <2>2. job[t].run \in DOMAIN runs /\ job[t].run \in RunIds
    BY <2>1, <1>a DEF OwnsItsRow, InPipeline, TypeOK
  <2>3. runs[job[t].run] \in Row /\ runs[job[t].run].results # Partial
    BY <2>2, <1>a DEF TypeOK, IInv, RowsAreWhole
  <2>4. /\ row.status = "FAILED" /\ row.results = runs[job[t].run].results
        /\ row.results \in Days \cup {NoDay}
    BY <2>3 DEF Row
  <2>5. runs[job[t].run].status \in {"PENDING", "FAILED"}
    BY <2>1, <2>2, <1>a DEF FindsItsRowOpen
  <2>6. Settles(job[t].run, row)
    BY <2>2, <2>4, <2>5 DEF Settles
  <2>. QED  BY <2>1, <2>6
<1>. QED  BY <1>0, <1>1, <1>2, <1>3, <1>4 DEF Proceed, BeginExecute, FetchEodRange,
            UpsertSecurities, PersistBars, ResolveScreeningDate, OpenRun, InsertRun,
            EvaluateUniverse, SaveResults, ReturnNewestCompleted

(* No reader ever finds a RUNNING row: the status the orchestrator sets is *)
(* overwritten, or rolled back, in the transaction that set it.            *)
THEOREM RunningStaysInItsSession == Spec => []RunningIsNeverVisible
<1>1. Init => RunningIsNeverVisible
  BY DEF Init, RunningIsNeverVisible
<1>2. IInv /\ RunningIsNeverVisible /\ [Next]_vars => RunningIsNeverVisible'
  <2> SUFFICES ASSUME IInv, RunningIsNeverVisible, [Next]_vars
               PROVE  RunningIsNeverVisible'
    OBVIOUS
  <2>1. CASE runs' # runs
    <3>1. PICK id, row : runs' = Written(id, row) /\ (Announces(id, row) \/ Settles(id, row))
      BY <2>1, WritesOpenRows
    <3>2. row.status # "RUNNING"
      BY <3>1 DEF Announces, Settles
    <3>. QED  BY <3>1, <3>2 DEF RunningIsNeverVisible, Written
  <2>2. CASE runs' = runs
    BY <2>2 DEF RunningIsNeverVisible
  <2>. QED  BY <2>1, <2>2
<1>. QED  BY <1>1, <1>2, Invariance, PTL DEF Spec

(* A step rewrites no COMPLETED row: a session that may have lost a commit *)
(* is broken and writes nothing, and no two requests share an id.          *)
LEMMA CompletedStays ==
    ASSUME IInv, [Next]_vars, NEW r \in Completed
    PROVE  r \in DOMAIN runs' /\ runs'[r] = runs[r]
<1>0. r \in DOMAIN runs /\ runs[r].status = "COMPLETED"
  BY DEF Completed
<1>1. CASE runs' # runs
  <2>1. PICK id, row : runs' = Written(id, row) /\ (Announces(id, row) \/ Settles(id, row))
    BY <1>1, WritesOpenRows
  <2>2. r # id
    BY <2>1, <1>0 DEF Announces, Settles
  <2>. QED  BY <2>1, <2>2, <1>0 DEF Written
<1>. QED  BY <1>0, <1>1

(* A run is immutable once COMPLETED (ADR-006), under any interleaving of  *)
(* requests, database errors, lost commits and crashes.                    *)
THEOREM CompletedRunsAreImmutable == Spec => CompletedIsImmutable
<1>1. IInv /\ [Next]_vars
      => [\A r \in Completed : r \in DOMAIN runs' /\ runs'[r] = runs[r]]_vars
  BY CompletedStays
<1>. QED  BY <1>1, Invariance, PTL DEF Spec, CompletedIsImmutable
-----------------------------------------------------------------------------
(* A write shows on the board as the row it writes. *)
LEMMA BoardShows ==
    ASSUME NEW id, NEW row, runs' = Written(id, row)
    PROVE  Snapshot!Shows(id, row.status, row.results) /\ id \in DOMAIN Board'
BY DEF Written, Board, Snapshot!Shows

(* A step of the run table is a step of RunSnapshots or changes nothing on *)
(* its board, as when a FAILED row is marked FAILED again.                 *)
LEMMA StepImplements == IInv /\ [Next]_vars => [Snapshot!Next]_Board
<1> SUFFICES ASSUME IInv, [Next]_vars, Board' # Board PROVE Snapshot!Next
  OBVIOUS
<1>1. runs' # runs
  BY DEF Board
<1>2. PICK id, row : runs' = Written(id, row) /\ (Announces(id, row) \/ Settles(id, row))
  BY <1>1, WritesOpenRows
<1>3. Snapshot!Shows(id, row.status, row.results) /\ id \in DOMAIN Board'
  BY <1>2, BoardShows
<1>4. DOMAIN Board = DOMAIN runs /\ \A x \in DOMAIN runs : Board[x].status = runs[x].status
  BY DEF Board
<1>5. CASE Announces(id, row)
  BY <1>3, <1>4, <1>5 DEF Announces, RunIds, Snapshot!Next, Snapshot!Announce,
     Snapshot!IsNew, Snapshot!Ids
<1>6. CASE Settles(id, row)
  <2>1. CASE id \in DOMAIN runs /\ runs[id].status # "PENDING"
    <3>1. Board[id] = [status |-> row.status, snapshot |-> row.results]
      BY <2>1, <1>6 DEF Settles, Board
    <3>2. Board' = [x \in DOMAIN Board \cup {id} |->
                      IF x = id THEN [status |-> row.status, snapshot |-> row.results]
                      ELSE Board[x]]
      BY <1>3 DEF Snapshot!Shows
    <3>3. Board = [x \in DOMAIN Board |-> Board[x]]
      BY DEF Board
    <3>. QED  BY <2>1, <3>1, <3>2, <3>3, <1>4
  <2>2. CASE id \notin DOMAIN runs \/ runs[id].status = "PENDING"
    <3>1. Snapshot!IsNew(id) \/ Snapshot!IsOpen(id)
      BY <2>2, <1>4, <1>6 DEF Settles, RunIds, Snapshot!IsNew, Snapshot!IsOpen, Snapshot!Ids
    <3>2. CASE row.status = "COMPLETED"
      <4>1. Snapshot!Complete(id)
        BY <3>1, <3>2, <1>3, <1>6 DEF Settles, Snapshot!Complete
      <4>. QED  BY <4>1, <1>3 DEF Snapshot!Next
    <3>3. CASE row.status = "FAILED"
      <4>1. Snapshot!Fail(id)
        BY <3>1, <3>3, <1>3, <1>6 DEF Settles, Snapshot!Fail
      <4>. QED  BY <4>1, <1>3 DEF Snapshot!Next
    <3>. QED  BY <3>2, <3>3, <1>6 DEF Settles
  <2>. QED  BY <2>1, <2>2
<1>. QED  BY <1>2, <1>5, <1>6

(* The run table keeps the promise of RunSnapshots: a run is announced,    *)
(* published once and whole or failed, and then never changes.             *)
THEOREM ImplementsSnapshots == Spec => ImplementsRunSnapshots
<1>1. Init => Snapshot!Init
  BY DEF Init, Board, Snapshot!Init
<1>. QED  BY <1>1, StepImplements, Invariance, PTL
         DEF Spec, ImplementsRunSnapshots, Snapshot!Spec

-----------------------------------------------------------------------------
(* What a run says of itself and what its caller is told, for any requests,   *)
(* strategies and faults: DatesBracketResults and RequestsEndTruthfully, both  *)
(* inductive beside IInv.                                                     *)

(* Whatever request t does, the rows and the sessions of the others stay.    *)
Steps(t) == TriggerRefresh(t) \/ CallDirectly(t) \/ Proceed(t) \/ Disturbed(t)

Quiet(t) ==
  \/ BeginExecute(t) \/ FetchEodRange(t) \/ UpsertSecurities(t) \/ PersistBars(t)
  \/ ResolveScreeningDate(t) \/ OpenRun(t) \/ EvaluateUniverse(t) \/ SaveResults(t)
  \/ EvaluateLosesStatement(t) \/ PythonError(t)

\* The end of a request concerns nobody else.
LEMMA EndMoves ==
    ASSUME TypeOK, NEW t \in Requests, NEW how \in Outcomes, End(t, how),
           NEW u \in Requests \ {t}
    PROVE  /\ pc'[u] = pc[u] /\ scan'[u] = scan[u] /\ staged'[u] = staged[u]
           /\ sess'[u] = sess[u] /\ outcome'[u] = outcome[u]
BY DEF End, TypeOK

\* Steps that write neither rows nor jobs.
LEMMA QuietMoves ==
    ASSUME IInv, NEW t \in Requests, Quiet(t)
    PROVE  /\ UNCHANGED <<runs, job, returned, outcome>>
           /\ \A u \in Requests \ {t} :
                 pc'[u] = pc[u] /\ scan'[u] = scan[u] /\ staged'[u] = staged[u] /\ sess'[u] = sess[u]
<1> USE DEF IInv, TypeOK, Goto
<1>1. CASE BeginExecute(t) \/ UpsertSecurities(t) \/ PersistBars(t) \/ ResolveScreeningDate(t)
  BY <1>1 DEF BeginExecute, UpsertSecurities, PersistBars, ResolveScreeningDate
<1>2. CASE FetchEodRange(t)
  BY <1>2 DEF FetchEodRange
<1>3. CASE OpenRun(t) \/ EvaluateUniverse(t) \/ SaveResults(t)
  BY <1>3 DEF OpenRun, EvaluateUniverse, SaveResults
<1>4. CASE EvaluateLosesStatement(t) \/ PythonError(t)
  BY <1>4 DEF EvaluateLosesStatement, PythonError
<1>. QED  BY <1>1, <1>2, <1>3, <1>4 DEF Quiet

\* A row of another request is not the one written.
LEMMA RowsOfOthers ==
    ASSUME IInv, NEW t \in Requests, NEW u \in Requests \ {t}, NEW id, NEW row,
           id = nextId \/ (id = job[t].run /\ id # NoRun), runs' = Written(id, row),
           job[u].run # NoRun
    PROVE  /\ (job[u].run \in DOMAIN runs') = (job[u].run \in DOMAIN runs)
           /\ job[u].run \in DOMAIN runs => runs'[job[u].run] = runs[job[u].run]
<1>1. job[u].run \in RunIds /\ nextId \in RunIds
  BY DEF IInv, TypeOK, Job
<1>2. job[u].run # nextId
  BY <1>1 DEF IInv, IdsAreFresh, RunIds
<1>3. job[u].run # id
  BY <1>2 DEF IInv, IdsAreFresh
<1>. QED  BY <1>3 DEF Written

\* What the others rely on, of any step of t.
KeepsOf(u) ==
  /\ pc'[u] = pc[u] /\ scan'[u] = scan[u] /\ staged'[u] = staged[u] /\ sess'[u] = sess[u]
  /\ job'[u] = job[u] /\ outcome'[u] = outcome[u] /\ returned'[u] = returned[u]
  /\ job[u].run # NoRun =>
       /\ (job[u].run \in DOMAIN runs') = (job[u].run \in DOMAIN runs)
       /\ job[u].run \in DOMAIN runs => runs'[job[u].run] = runs[job[u].run]

LEMMA StepKeeps ==
    ASSUME IInv, NEW t \in Requests, Steps(t), NEW u \in Requests \ {t}
    PROVE  KeepsOf(u)
<1>a. TypeOK /\ OwnsItsRow(t) /\ HoldsItsWork(t)
  BY DEF IInv, Mine
<1>0. {"conflict", "returned", "unanswered", "raised"} \subseteq Outcomes
  BY DEF Outcomes
<1>1. CASE Quiet(t)
  BY <1>1, QuietMoves DEF KeepsOf
<1>2. CASE TriggerRefresh(t) \/ CallDirectly(t)
  BY <1>2, <1>a DEF TriggerRefresh, CallDirectly, KeepsOf, TypeOK
<1>3. CASE InsertPending(t)
  <2>1. CASE End(t, "conflict") /\ UNCHANGED <<runs, nextId, job, returned>>
    BY <2>1, <1>0, <1>a, EndMoves DEF KeepsOf
  <2>2. CASE /\ runs' = Written(nextId, staged[t])
             /\ job' = [job EXCEPT ![t].run = nextId]
             /\ returned' = [returned EXCEPT ![t] = nextId]
             /\ \/ End(t, "returned")
                \/ /\ pc' = [pc EXCEPT ![t] = "start"]
                   /\ staged' = [staged EXCEPT ![t] = NoRow]
                   /\ UNCHANGED <<scan, sess, outcome>>
    <3>1. /\ pc'[u] = pc[u] /\ scan'[u] = scan[u] /\ staged'[u] = staged[u]
          /\ sess'[u] = sess[u] /\ outcome'[u] = outcome[u]
      BY <2>2, <1>0, <1>a, EndMoves DEF TypeOK
    <3>2. job'[u] = job[u] /\ returned'[u] = returned[u]
      BY <2>2, <1>a DEF TypeOK
    <3>3. nextId = nextId /\ runs' = Written(nextId, staged[t])
      BY <2>2
    <3>. QED  BY <3>1, <3>2, <3>3, RowsOfOthers DEF KeepsOf
  <2>. QED  BY <1>3, <2>1, <2>2 DEF InsertPending
<1>4. CASE InsertRun(t)
  BY <1>4, <1>a DEF InsertRun, Goto, KeepsOf, TypeOK
<1>5. CASE CommitRun(t)
  <2>1. job[t].run # NoRun /\ runs' = Written(job[t].run, [staged[t] EXCEPT !.status = "COMPLETED"])
    BY <1>5, <1>a DEF CommitRun, Publish, OwnsItsRow, WithRun
  <2>2. /\ pc'[u] = pc[u] /\ scan'[u] = scan[u] /\ staged'[u] = staged[u]
        /\ sess'[u] = sess[u] /\ outcome'[u] = outcome[u]
    <3>1. CASE End(t, "returned")
      BY <3>1, <1>0, <1>a, EndMoves
    <3>2. CASE ~End(t, "returned")
      BY <3>2, <1>5, <1>a DEF CommitRun, Goto, TypeOK
    <3>. QED  BY <3>1, <3>2
  <2>3. job' = job /\ returned' = returned
    BY <1>5 DEF CommitRun
  <2>. QED  BY <2>1, <2>2, <2>3, RowsOfOthers DEF KeepsOf
<1>6. CASE CommitLost(t)
  <2>1. CASE Publish(t)
    <3>1. job[t].run # NoRun /\ runs' = Written(job[t].run, [staged[t] EXCEPT !.status = "COMPLETED"])
      BY <1>6, <2>1, <1>a DEF CommitLost, Publish, OwnsItsRow, WithRun
    <3>2. /\ pc'[u] = pc[u] /\ scan' = scan /\ staged' = staged /\ sess'[u] = sess[u]
          /\ job' = job /\ returned' = returned /\ outcome' = outcome
      BY <1>6, <1>a DEF CommitLost, Goto, TypeOK
    <3>. QED  BY <3>1, <3>2, RowsOfOthers DEF KeepsOf
  <2>2. CASE UNCHANGED runs
    BY <2>2, <1>6, <1>a DEF CommitLost, Goto, TypeOK, KeepsOf
  <2>. QED  BY <1>6, <2>1, <2>2 DEF CommitLost
<1>7. CASE ReturnNewestCompleted(t)
  <2>1. End(t, "returned") /\ UNCHANGED <<runs, job>> /\ returned'[u] = returned[u]
    BY <1>7, <1>a DEF ReturnNewestCompleted, TypeOK
  <2>. QED  BY <2>1, <1>0, <1>a, EndMoves DEF KeepsOf
<1>8. CASE HandleError(t)
  <2>1. /\ pc'[u] = pc[u] /\ scan' = scan /\ staged'[u] = staged[u] /\ sess' = sess
        /\ job' = job /\ returned' = returned /\ outcome' = outcome
    BY <1>8, <1>a DEF HandleError, Goto, TypeOK
  <2>2. CASE sess[t] = "ok"
    <3>1. job[t].run # NoRun /\ runs' = Written(job[t].run, [staged[t] EXCEPT !.status = "FAILED"])
      BY <1>8, <2>2, <1>a DEF HandleError, OwnsItsRow, WithRun
    <3>. QED  BY <3>1, <2>1, RowsOfOthers DEF KeepsOf
  <2>3. CASE sess[t] # "ok"
    BY <2>3, <2>1, <1>8 DEF HandleError, KeepsOf
  <2>. QED  BY <2>2, <2>3
<1>9. CASE MarkRunFailed(t)
  <2>1. /\ End(t, IF outcome[t] = "conflict" THEN "conflict" ELSE "raised")
        /\ UNCHANGED <<job, returned>> /\ pc[t] = "outer"
    BY <1>9 DEF MarkRunFailed
  <2>2. (IF outcome[t] = "conflict" THEN "conflict" ELSE "raised") \in Outcomes
    BY <1>0
  <2>3. /\ pc'[u] = pc[u] /\ scan'[u] = scan[u] /\ staged'[u] = staged[u]
        /\ sess'[u] = sess[u] /\ outcome'[u] = outcome[u]
    BY <2>1, <2>2, <1>a, EndMoves
  <2>4. CASE job[t].kind = "background" /\ sess[t] = "ok"
    <3>1. runs' = Written(job[t].run, [runs[job[t].run] EXCEPT !.status = "FAILED"])
      BY <1>9, <2>4 DEF MarkRunFailed
    <3>2. job[t].run # NoRun
      BY <2>1, <2>4, <1>a DEF OwnsItsRow, InPipeline, TypeOK, RunIds, NoRun
    <3>. QED  BY <3>1, <3>2, <2>1, <2>3, RowsOfOthers DEF KeepsOf
  <2>5. CASE ~(job[t].kind = "background" /\ sess[t] = "ok")
    BY <1>9, <2>5, <2>1, <2>3 DEF MarkRunFailed, KeepsOf
  <2>. QED  BY <2>4, <2>5
<1>10. CASE DbError(t)
  <2>1. CASE End(t, "unanswered")
    BY <2>1, <1>10, <1>0, <1>a, EndMoves DEF DbError, KeepsOf
  <2>2. CASE ~End(t, "unanswered")
    BY <2>2, <1>10, <1>a DEF DbError, Goto, TypeOK, KeepsOf
  <2>. QED  BY <2>1, <2>2
<1>. QED  BY <1>1, <1>2, <1>3, <1>4, <1>5, <1>6, <1>7, <1>8, <1>9, <1>10
          DEF Steps, Proceed, Disturbed, Quiet

-----------------------------------------------------------------------------
(* Dates.                                                                    *)

\* An adopted row keeps a version that was read before the date screened.
AdoptedDates(t) ==
  LET r == job[t].run
  IN  /\ r \in DOMAIN runs => runs[r].data_version <= latest
      /\ pc[t] \in WithRun => staged[t].data_version = runs[r].data_version
      /\ pc[t] \in {"open", "evaluate", "save"} /\ sess[t] = "ok"
         => runs[r].data_version <= scan[t].asof
      /\ pc[t] = "commit" => runs[r].data_version <= staged[t].results
      /\ r \in Completed => runs[r].data_version <= runs[r].results

\* A created row is dated by the session it is for, from its INSERT on.
CreatedDates(t) ==
  LET r == job[t].run
  IN  /\ pc[t] \in {"insertRun", "evaluate", "save"} /\ sess[t] = "ok"
         => staged[t].run_date = scan[t].asof
      /\ pc[t] = "commit" => staged[t].run_date = staged[t].results
      /\ r \in Completed => runs[r].results = runs[r].run_date

DatesOf(t) ==
  /\ pc[t] = "insert" => staged[t].data_version <= latest
  /\ job[t].kind = "record" /\ job[t].run \in DOMAIN runs => runs[job[t].run].status = "PENDING"
  /\ job[t].kind = "background" => AdoptedDates(t)
  /\ job[t].kind = "direct" => CreatedDates(t)

DInv == \A t \in Requests : DatesOf(t)

-----------------------------------------------------------------------------
\* The bars only grow.
LEMMA LatestGrows ==
    ASSUME IInv, [Next]_vars PROVE latest <= latest' /\ latest \in Int /\ latest' \in Int
<1>1. latest \in Int /\ latest' \in Int
  BY NextIInv DEF IInv, TypeOK, Days, NoDay
<1>2. CASE RefreshBars
  BY <1>1, <1>2 DEF RefreshBars
<1>3. CASE UNCHANGED latest
  BY <1>1, <1>3
<1>4. ASSUME NEW t \in Requests, PersistBars(t) PROVE latest <= latest'
  <2>1. scan[t].newest \in Int
    BY DEF IInv, TypeOK, Scan, Days, NoDay
  <2>. QED  BY <2>1, <1>1, <1>4 DEF PersistBars
<1>. QED  BY <1>1, <1>2, <1>3, <1>4 DEF Next, vars, marketVars, Crash, NextDay, Proceed, Disturbed,
     TriggerRefresh, CallDirectly, InsertPending, BeginExecute, FetchEodRange, UpsertSecurities,
     ResolveScreeningDate, OpenRun, InsertRun, EvaluateUniverse, SaveResults, CommitRun,
     ReturnNewestCompleted, HandleError, MarkRunFailed, EvaluateLosesStatement, CommitLost,
     PythonError, DbError

\* What the others have, a step of t leaves as it is.
LEMMA DatesOfOthersStay ==
    ASSUME IInv, IInv', NEW u \in Requests, DatesOf(u), KeepsOf(u), latest <= latest',
           latest \in Int, latest' \in Int
    PROVE  DatesOf(u)'
<1>1. job[u].run = NoRun => job[u].run \notin DOMAIN runs /\ job[u].run \notin DOMAIN runs'
  BY DEF IInv, TypeOK, RunIds, NoRun
<1>2. /\ (job[u].run \in DOMAIN runs') = (job[u].run \in DOMAIN runs)
      /\ job[u].run \in DOMAIN runs => runs'[job[u].run] = runs[job[u].run]
  BY <1>1 DEF KeepsOf
<1>3. job[u].run \in DOMAIN runs => runs[job[u].run].data_version \in Int
  BY DEF IInv, TypeOK, Row, Days, NoDay
<1>4. pc[u] = "insert" => staged[u].data_version \in Int
  BY DEF IInv, Mine, HoldsItsWork, Row, Days, NoDay
<1>5. pc[u] = "insert" => staged[u].data_version <= latest /\ staged[u].data_version <= latest'
  BY <1>4 DEF DatesOf
<1>6. CASE job[u].kind = "background"
  <2>1. AdoptedDates(u)
    BY <1>6 DEF DatesOf
  <2>2. job[u].run \in DOMAIN runs => runs[job[u].run].data_version <= latest'
    BY <2>1, <1>3 DEF AdoptedDates
  <2>3. pc[u] \in WithRun \cup {"open"} => job[u].run \in DOMAIN runs
    BY <1>6 DEF IInv, Mine, OwnsItsRow, InPipeline, BeforeRun, WithRun
  <2>4. AdoptedDates(u)'
    BY <2>1, <2>2, <2>3, <1>2 DEF AdoptedDates, KeepsOf, Completed, WithRun
  <2>. QED  BY <2>4, <1>5, <1>6 DEF DatesOf, KeepsOf
<1>7. CASE job[u].kind # "background"
  BY <1>7, <1>2, <1>5 DEF DatesOf, CreatedDates, KeepsOf, Completed
<1>. QED  BY <1>6, <1>7

(* A step that writes no row and leaves t where no date is compared, or in *)
(* the handler with what it staged, keeps its dates.                       *)
LEMMA DatesAreKept ==
    ASSUME NEW t \in Requests, DatesOf(t), UNCHANGED <<runs, job, latest>>,
           \/ pc'[t] \notin {"insert", "open", "insertRun"} \cup WithRun
           \/ pc[t] \in WithRun /\ pc'[t] = "handler" /\ staged'[t] = staged[t]
    PROVE  DatesOf(t)'
BY DEF DatesOf, AdoptedDates, CreatedDates, Completed, WithRun

\* What each action makes of the dates of its own request.
LEMMA TriggerRefreshDates ==
    ASSUME IInv, NEW t \in Requests, DatesOf(t), TriggerRefresh(t)
    PROVE  DatesOf(t)'
<1>1. /\ pc'[t] = "insert" /\ job'[t].run = NoRun /\ job'[t].kind # "direct"
      /\ staged'[t].data_version = latest /\ UNCHANGED <<runs, latest>>
      /\ latest \in Days \cup {NoDay}
  BY DEF TriggerRefresh, IInv, TypeOK, marketVars
<1>2. NoRun \notin DOMAIN runs /\ latest <= latest
  BY <1>1 DEF IInv, TypeOK, RunIds, NoRun, Days, NoDay
<1>. QED  BY <1>1, <1>2 DEF DatesOf, AdoptedDates, Completed, WithRun

LEMMA CallDirectlyDates ==
    ASSUME IInv, NEW t \in Requests, DatesOf(t), CallDirectly(t)
    PROVE  DatesOf(t)'
<1>1. /\ pc'[t] = "start" /\ job'[t].run = NoRun /\ job'[t].kind = "direct"
      /\ UNCHANGED <<runs, latest>>
  BY DEF CallDirectly, IInv, TypeOK, marketVars
<1>2. NoRun \notin DOMAIN runs
  BY DEF IInv, TypeOK, RunIds, NoRun
<1>. QED  BY <1>1, <1>2 DEF DatesOf, CreatedDates, Completed

LEMMA InsertPendingDates ==
    ASSUME IInv, NEW t \in Requests, DatesOf(t), InsertPending(t)
    PROVE  DatesOf(t)'
<1>a. /\ pc[t] = "insert" /\ job[t].run = NoRun /\ job[t].kind # "direct"
      /\ staged[t] \in Row /\ staged[t].status = "PENDING" /\ latest' = latest
      /\ staged[t].data_version <= latest
  BY DEF InsertPending, DatesOf, IInv, Mine, OwnsItsRow, HoldsItsWork, marketVars
<1>1. CASE End(t, "conflict") /\ UNCHANGED <<runs, job>>
  <2>1. pc'[t] = "done"
    BY <1>1 DEF End, IInv, TypeOK
  <2>. QED  BY <2>1, <1>1, <1>a, DatesAreKept DEF WithRun
<1>2. CASE runs' = Written(nextId, staged[t]) /\ job' = [job EXCEPT ![t].run = nextId]
  <2>1. pc'[t] \in {"done", "start"}
    BY <1>2, <1>a DEF InsertPending, End, IInv, TypeOK
  <2>2. job'[t].run = nextId /\ job'[t].kind = job[t].kind
    BY <1>2 DEF IInv, TypeOK
  <2>3. runs'[nextId] = staged[t]
    BY <1>2 DEF Written
  <2>. QED  BY <2>1, <2>2, <2>3, <1>a DEF DatesOf, AdoptedDates, Completed, WithRun
<1>. QED  BY <1>1, <1>2 DEF InsertPending

LEMMA BeginExecuteDates ==
    ASSUME IInv, NEW t \in Requests, DatesOf(t), BeginExecute(t)
    PROVE  DatesOf(t)'
<1>1. pc'[t] = "fetch" /\ UNCHANGED <<runs, job, latest>>
  BY DEF BeginExecute, Goto, IInv, TypeOK, marketVars
<1>. QED  BY <1>1, DatesAreKept DEF WithRun

LEMMA FetchEodRangeDates ==
    ASSUME IInv, NEW t \in Requests, DatesOf(t), FetchEodRange(t)
    PROVE  DatesOf(t)'
<1>1. pc'[t] \in {"ingest", "outer", "resolve"} /\ UNCHANGED <<runs, job, latest>>
  BY DEF FetchEodRange, Goto, IInv, TypeOK, marketVars
<1>. QED  BY <1>1, DatesAreKept DEF WithRun

LEMMA UpsertSecuritiesDates ==
    ASSUME IInv, NEW t \in Requests, DatesOf(t), UpsertSecurities(t)
    PROVE  DatesOf(t)'
<1>1. pc'[t] = "persist" /\ UNCHANGED <<runs, job, latest>>
  BY DEF UpsertSecurities, Goto, IInv, TypeOK
<1>. QED  BY <1>1, DatesAreKept DEF WithRun

LEMMA PersistBarsDates ==
    ASSUME IInv, NEW t \in Requests, DatesOf(t), PersistBars(t), latest <= latest',
           latest \in Int, latest' \in Int
    PROVE  DatesOf(t)'
<1>1. pc'[t] = "resolve" /\ UNCHANGED <<runs, job>>
  BY DEF PersistBars, Goto, IInv, TypeOK
<1>2. job[t].run \in DOMAIN runs => runs[job[t].run].data_version \in Int
  BY DEF IInv, TypeOK, Row, Days, NoDay
<1>. QED  BY <1>1, <1>2 DEF DatesOf, AdoptedDates, CreatedDates, Completed, WithRun

LEMMA ResolveScreeningDateDates ==
    ASSUME IInv, NEW t \in Requests, DatesOf(t), ResolveScreeningDate(t)
    PROVE  DatesOf(t)'
<1>1. /\ pc[t] = "resolve" /\ pc'[t] = "open" /\ UNCHANGED <<runs, job, latest>>
      /\ latest # NoDay => scan'[t].asof = latest
      /\ latest = NoDay => scan'[t].asof = scan[t].ref
      /\ latest \in Days \cup {NoDay}
  BY DEF ResolveScreeningDate, Goto, IInv, TypeOK, marketVars
<1>2. scan[t].ref \in Days
  BY <1>1 DEF IInv, Mine, HoldsItsWork
<1>3. latest <= scan'[t].asof
  BY <1>1, <1>2 DEF Days, NoDay
<1>4. job[t].run \in DOMAIN runs => runs[job[t].run].data_version \in Int
  BY DEF IInv, TypeOK, Row, Days, NoDay
<1>5. scan'[t].asof \in Int /\ latest \in Int
  BY <1>1, <1>2 DEF Days, NoDay
<1>6. CASE job[t].kind = "background"
  <2>1. AdoptedDates(t) /\ job[t].run \in DOMAIN runs
    BY <1>1, <1>6 DEF DatesOf, IInv, Mine, OwnsItsRow, InPipeline, BeforeRun
  <2>2. runs[job[t].run].data_version <= scan'[t].asof
    BY <2>1, <1>3, <1>4, <1>5 DEF AdoptedDates
  <2>. QED  BY <2>1, <2>2, <1>1, <1>6 DEF DatesOf, AdoptedDates, Completed, WithRun
<1>7. CASE job[t].kind # "background"
  BY <1>1, <1>7 DEF DatesOf, CreatedDates, Completed
<1>. QED  BY <1>6, <1>7

LEMMA OpenRunDates ==
    ASSUME IInv, NEW t \in Requests, DatesOf(t), OpenRun(t)
    PROVE  DatesOf(t)'
<1>a. pc[t] = "open" /\ sess[t] = "ok" /\ UNCHANGED <<runs, job, latest, scan, sess>> /\ TypeOK
      /\ job[t].kind # "record"
  BY DEF OpenRun, IInv, Mine, OwnsItsRow, HoldsItsWork, BeforeRun, InPipeline, marketVars
<1>1. CASE job[t].run # NoRun
  <2>1. /\ pc'[t] = "evaluate"
        /\ staged'[t] = [runs[job[t].run] EXCEPT !.status = "RUNNING"]
    BY <1>1, <1>a DEF OpenRun, Goto, TypeOK
  <2>2. job[t].kind = "background" /\ job[t].run \in DOMAIN runs
    BY <1>1, <1>a DEF IInv, Mine, OwnsItsRow, BeforeRun, InPipeline
  <2>3. staged'[t].data_version = runs[job[t].run].data_version
    BY <2>1, <2>2, <1>a DEF TypeOK, Row
  <2>. QED  BY <2>1, <2>2, <2>3, <1>a DEF DatesOf, AdoptedDates, Completed, WithRun
<1>2. CASE job[t].run = NoRun
  <2>1. pc'[t] = "insertRun" /\ staged'[t].run_date = scan[t].asof
    BY <1>2, <1>a DEF OpenRun, Goto, TypeOK
  <2>2. job[t].kind = "direct" /\ job[t].run \notin DOMAIN runs
    BY <1>2, <1>a DEF IInv, Mine, OwnsItsRow, BeforeRun, InPipeline, TypeOK, RunIds, NoRun, Job, Kinds
  <2>. QED  BY <2>1, <2>2, <1>a DEF DatesOf, CreatedDates, Completed
<1>. QED  BY <1>1, <1>2

LEMMA InsertRunDates ==
    ASSUME IInv, NEW t \in Requests, DatesOf(t), InsertRun(t)
    PROVE  DatesOf(t)'
<1>a. /\ pc[t] = "insertRun" /\ sess[t] = "ok" /\ job[t].run = NoRun
      /\ UNCHANGED <<runs, scan, staged, latest>> /\ TypeOK
  BY DEF InsertRun, IInv, Mine, OwnsItsRow, HoldsItsWork, BeforeRun, marketVars
<1>b. job[t].kind = "direct" /\ CreatedDates(t)
  BY <1>a DEF DatesOf, IInv, Mine, OwnsItsRow, BeforeRun, InPipeline, TypeOK, RunIds, NoRun, Job, Kinds
<1>1. CASE pc' = [pc EXCEPT ![t] = "outer"] /\ UNCHANGED job
  BY <1>1, <1>a, <1>b DEF DatesOf, CreatedDates, Completed, TypeOK
<1>2. CASE pc' = [pc EXCEPT ![t] = "evaluate"] /\ job' = [job EXCEPT ![t].run = nextId]
  <2>1. nextId \notin DOMAIN runs'
    BY <1>a DEF IInv, IdsAreFresh, TypeOK, RunIds
  <2>2. job'[t].run = nextId /\ job'[t].kind = "direct" /\ pc'[t] = "evaluate"
    BY <1>2, <1>a, <1>b DEF TypeOK
  <2>. QED  BY <2>1, <2>2, <1>a, <1>b DEF DatesOf, CreatedDates, Completed
<1>. QED  BY <1>1, <1>2 DEF InsertRun, Goto

LEMMA EvaluateUniverseDates ==
    ASSUME IInv, NEW t \in Requests, DatesOf(t), EvaluateUniverse(t)
    PROVE  DatesOf(t)'
<1>1. /\ pc[t] = "evaluate" /\ pc'[t] = "save"
      /\ UNCHANGED <<runs, job, latest, scan, staged, sess>>
  BY DEF EvaluateUniverse, Goto, IInv, TypeOK, marketVars
<1>. QED  BY <1>1 DEF DatesOf, AdoptedDates, CreatedDates, Completed, WithRun

LEMMA SaveResultsDates ==
    ASSUME IInv, NEW t \in Requests, DatesOf(t), SaveResults(t)
    PROVE  DatesOf(t)'
<1>a. pc[t] = "save" /\ UNCHANGED <<runs, job, scan, latest>> /\ TypeOK
      /\ job[t].kind # "record" /\ staged[t] \in Row
  BY DEF SaveResults, IInv, Mine, OwnsItsRow, HoldsItsWork, WithRun, InPipeline, marketVars
<1>1. CASE sess[t] = "ok"
  <2>1. pc'[t] = "commit" /\ staged'[t] = [staged[t] EXCEPT !.results = scan[t].asof]
    BY <1>1, <1>a DEF SaveResults, Goto, TypeOK
  <2>2. /\ staged'[t].data_version = staged[t].data_version
        /\ staged'[t].run_date = staged[t].run_date
        /\ staged'[t].results = scan[t].asof
    BY <2>1, <1>a DEF Row
  <2>. QED  BY <2>1, <2>2, <1>1, <1>a
            DEF DatesOf, AdoptedDates, CreatedDates, Completed, WithRun
<1>2. CASE sess[t] # "ok"
  <2>1. pc'[t] = "handler" /\ staged' = staged
    BY <1>2, <1>a DEF SaveResults, Goto, TypeOK
  <2>. QED  BY <2>1, <1>a, DatesAreKept DEF WithRun
<1>. QED  BY <1>1, <1>2

\* The commit gives the row the dates of what was staged.
LEMMA PublishDates ==
    ASSUME IInv, NEW t \in Requests, DatesOf(t), pc[t] = "commit", Publish(t),
           UNCHANGED <<job, latest>>,
           \/ pc'[t] \in {"done", "return"}
           \/ pc'[t] = "handler" /\ staged' = staged
    PROVE  DatesOf(t)'
<1>a. /\ staged[t] \in Row /\ job[t].kind # "record" /\ TypeOK
      /\ job[t].run # NoRun
  BY DEF IInv, Mine, OwnsItsRow, HoldsItsWork, WithRun, InPipeline
<1>1. /\ runs'[job[t].run] = [staged[t] EXCEPT !.status = "COMPLETED"]
      /\ job[t].run \in DOMAIN runs'
  BY DEF Publish, Written
<1>2. /\ runs'[job[t].run].data_version = staged[t].data_version
      /\ runs'[job[t].run].run_date = staged[t].run_date
      /\ runs'[job[t].run].results = staged[t].results
  BY <1>1, <1>a DEF Row
<1>3. CASE job[t].kind = "background"
  <2>1. AdoptedDates(t) /\ job[t].run \in DOMAIN runs
    BY <1>3 DEF DatesOf, IInv, Mine, OwnsItsRow, WithRun, InPipeline
  <2>2. AdoptedDates(t)'
    BY <2>1, <1>2 DEF AdoptedDates, WithRun
  <2>. QED  BY <2>2, <1>3 DEF DatesOf
<1>4. CASE job[t].kind = "direct"
  BY <1>2, <1>4 DEF DatesOf, CreatedDates
<1>. QED  BY <1>3, <1>4, <1>a DEF TypeOK, Job, Kinds

LEMMA CommitRunDates ==
    ASSUME IInv, NEW t \in Requests, DatesOf(t), CommitRun(t)
    PROVE  DatesOf(t)'
<1>1. /\ pc[t] = "commit" /\ pc'[t] \in {"done", "return"} /\ Publish(t)
      /\ UNCHANGED <<job, latest>>
  BY DEF CommitRun, Goto, End, IInv, TypeOK, marketVars
<1>. QED  BY <1>1, PublishDates DEF WithRun

LEMMA ReturnNewestCompletedDates ==
    ASSUME IInv, NEW t \in Requests, DatesOf(t), ReturnNewestCompleted(t)
    PROVE  DatesOf(t)'
<1>1. pc'[t] = "done" /\ UNCHANGED <<runs, job, latest>>
  BY DEF ReturnNewestCompleted, End, IInv, TypeOK, marketVars
<1>. QED  BY <1>1, DatesAreKept DEF WithRun

LEMMA HandleErrorDates ==
    ASSUME IInv, NEW t \in Requests, DatesOf(t), HandleError(t)
    PROVE  DatesOf(t)'
<1>1. /\ pc[t] = "handler" /\ pc'[t] = "outer" /\ UNCHANGED <<job, latest>>
      /\ staged[t] \in Row /\ job[t].kind # "record"
  BY DEF HandleError, Goto, IInv, TypeOK, Mine, OwnsItsRow, HoldsItsWork, WithRun, InPipeline,
     marketVars
<1>2. CASE UNCHANGED runs
  BY <1>1, <1>2, DatesAreKept DEF WithRun
<1>3. CASE runs' = Written(job[t].run, [staged[t] EXCEPT !.status = "FAILED"])
  <2>1. /\ runs'[job[t].run].status = "FAILED"
        /\ runs'[job[t].run].data_version = staged[t].data_version
    BY <1>1, <1>3 DEF Written, Row
  <2>2. job[t].kind = "background" => job[t].run \in DOMAIN runs
    BY <1>1 DEF IInv, Mine, OwnsItsRow, WithRun, InPipeline
  <2>. QED  BY <2>1, <2>2, <1>1 DEF DatesOf, AdoptedDates, CreatedDates, Completed, WithRun
<1>. QED  BY <1>2, <1>3 DEF HandleError

LEMMA MarkRunFailedDates ==
    ASSUME IInv, NEW t \in Requests, DatesOf(t), MarkRunFailed(t)
    PROVE  DatesOf(t)'
<1>1. /\ pc[t] = "outer" /\ pc'[t] = "done" /\ UNCHANGED <<job, latest>>
      /\ job[t].kind # "record"
  BY DEF MarkRunFailed, End, IInv, TypeOK, Mine, OwnsItsRow, InPipeline, marketVars
<1>2. CASE UNCHANGED runs
  BY <1>1, <1>2, DatesAreKept DEF WithRun
<1>3. CASE /\ job[t].kind = "background"
           /\ runs' = Written(job[t].run, [runs[job[t].run] EXCEPT !.status = "FAILED"])
  <2>1. job[t].run \in DOMAIN runs /\ runs[job[t].run] \in Row
    BY <1>1, <1>3 DEF IInv, TypeOK, Mine, OwnsItsRow, InPipeline
  <2>2. /\ runs'[job[t].run].status = "FAILED"
        /\ runs'[job[t].run].data_version = runs[job[t].run].data_version
    BY <2>1, <1>3 DEF Written, Row
  <2>. QED  BY <2>1, <2>2, <1>1, <1>3 DEF DatesOf, AdoptedDates, Completed, WithRun
<1>. QED  BY <1>2, <1>3 DEF MarkRunFailed

LEMMA EvaluateLosesStatementDates ==
    ASSUME IInv, NEW t \in Requests, DatesOf(t), EvaluateLosesStatement(t)
    PROVE  DatesOf(t)'
<1>1. /\ pc[t] = "evaluate" /\ pc'[t] = "save" /\ sess'[t] = "broken"
      /\ UNCHANGED <<runs, job, latest, staged>>
  BY DEF EvaluateLosesStatement, Goto, IInv, TypeOK, marketVars
<1>. QED  BY <1>1 DEF DatesOf, AdoptedDates, CreatedDates, Completed, WithRun

LEMMA CommitLostDates ==
    ASSUME IInv, NEW t \in Requests, DatesOf(t), CommitLost(t)
    PROVE  DatesOf(t)'
<1>1. /\ pc[t] = "commit" /\ pc'[t] = "handler" /\ UNCHANGED <<job, latest, staged>>
      /\ Publish(t) \/ UNCHANGED runs
  BY DEF CommitLost, Goto, IInv, TypeOK, marketVars
<1>2. CASE UNCHANGED runs
  BY <1>1, <1>2, DatesAreKept DEF WithRun
<1>. QED  BY <1>1, <1>2, PublishDates

LEMMA PythonErrorDates ==
    ASSUME IInv, NEW t \in Requests, DatesOf(t), PythonError(t)
    PROVE  DatesOf(t)'
<1>1. /\ UNCHANGED <<runs, job, latest, staged>>
      /\ \/ pc'[t] = "outer"
         \/ pc[t] \in WithRun /\ pc'[t] = "handler"
  BY DEF PythonError, InOrchestratorTry, Goto, IInv, TypeOK, WithRun, marketVars
<1>. QED  BY <1>1, DatesAreKept DEF WithRun

LEMMA DbErrorDates ==
    ASSUME IInv, NEW t \in Requests, DatesOf(t), DbError(t)
    PROVE  DatesOf(t)'
<1>1. /\ UNCHANGED <<runs, job, latest>>
      /\ \/ pc'[t] \in {"done", "outer"}
         \/ pc[t] \in WithRun /\ pc'[t] = "handler" /\ staged' = staged
  BY DEF DbError, End, InOrchestratorTry, Goto, IInv, TypeOK, WithRun, marketVars
<1>. QED  BY <1>1, DatesAreKept DEF WithRun

\* DInv holds at first, and beside IInv every step keeps it.
LEMMA InitDInv == Init => DInv
BY DEF Init, DInv, DatesOf, AdoptedDates, CreatedDates, WithRun, Completed, NoJob

LEMMA NextDInv == IInv /\ DInv /\ [Next]_vars => DInv'
<1> SUFFICES ASSUME IInv, DInv, [Next]_vars, NEW u \in Requests PROVE DatesOf(u)'
  BY DEF DInv
<1>0. IInv' /\ latest <= latest' /\ latest \in Int /\ latest' \in Int /\ DatesOf(u)
  BY NextIInv, LatestGrows DEF DInv
<1>1. ASSUME NEW t \in Requests, Steps(t) PROVE DatesOf(u)'
  <2>1. CASE t # u
    BY <1>0, <1>1, <2>1, StepKeeps, DatesOfOthersStay
  <2>2. CASE TriggerRefresh(u) \/ CallDirectly(u)
    BY <1>0, <2>2, TriggerRefreshDates, CallDirectlyDates
  <2>3. CASE Proceed(u)
    BY <1>0, <2>3, InsertPendingDates, BeginExecuteDates, FetchEodRangeDates,
       UpsertSecuritiesDates, PersistBarsDates, ResolveScreeningDateDates, OpenRunDates,
       InsertRunDates, EvaluateUniverseDates, SaveResultsDates, CommitRunDates,
       ReturnNewestCompletedDates, HandleErrorDates, MarkRunFailedDates DEF Proceed
  <2>4. CASE Disturbed(u)
    BY <1>0, <2>4, EvaluateLosesStatementDates, CommitLostDates, PythonErrorDates,
       DbErrorDates DEF Disturbed
  <2>. QED  BY <1>1, <2>1, <2>2, <2>3, <2>4 DEF Steps
<1>2. CASE Crash
  <2>1. /\ UNCHANGED <<runs, job, latest>>
        /\ pc' = [t \in Requests |-> IF pc[t] \notin {"idle", "done"} THEN "done" ELSE pc[t]]
    BY <1>2 DEF Crash, marketVars
  <2>2. pc'[u] \in {"idle", "done"}
    BY <2>1
  <2>. QED  BY <1>0, <2>1, <2>2, DatesAreKept DEF WithRun
<1>3. CASE NextDay \/ RefreshBars \/ UNCHANGED vars
  <2>1. UNCHANGED <<runs, pc, job, scan, staged, sess, outcome, returned>>
    BY <1>3 DEF NextDay, RefreshBars, vars, requestVars
  <2>. QED  BY <1>0, <2>1, DatesOfOthersStay DEF KeepsOf
<1>. QED  BY <1>1, <1>2, <1>3 DEF Next, Steps

(* Which way the dates of a COMPLETED row can be off, for any interleaving *)
(* of requests, ingestions, midnights, errors and crashes.                 *)
THEOREM DatesBracket == Spec => []DatesBracketResults
<1>1. IInv /\ DInv => DatesBracketResults
  <2> SUFFICES ASSUME IInv, DInv, NEW t \in Requests, job[t].run \in Completed
               PROVE  IF job[t].kind = "background"
                      THEN runs[job[t].run].data_version <= runs[job[t].run].results
                      ELSE runs[job[t].run].results = runs[job[t].run].run_date
    BY DEF DatesBracketResults
  <2>1. job[t].kind \in Kinds /\ DatesOf(t) /\ job[t].kind # "record"
    BY DEF IInv, TypeOK, Job, DInv, DatesOf, Completed
  <2>. QED  BY <2>1 DEF Kinds, DatesOf, AdoptedDates, CreatedDates
<1>. QED  BY <1>1, InitDInv, NextDInv, Invariance, PTL DEF Spec

-----------------------------------------------------------------------------
(* Answers.                                                                  *)

\* Only a fault breaks the session of a background run, and one that is over
\* without a fault has settled its row; a caller is told of its own row, or of
\* one as new.
AnswerOf(t) ==
  LET r == job[t].run
  IN  /\ job[t].kind = "background" /\ sess[t] = "broken" => dbErrors > 0
      /\ job[t].kind = "background" /\ pc[t] = "done" /\ r # NoRun
         => \/ r \in DOMAIN runs /\ runs[r].status \in {"COMPLETED", "FAILED"}
            \/ outcome[t] = "crashed"
            \/ dbErrors > 0
      /\ pc[t] # "done" => outcome[t] \in {"none", "conflict"}
      /\ job[t].kind # "direct" /\ r # NoRun => returned[t] = r
      /\ job[t].kind # "direct" /\ outcome[t] = "returned" => r # NoRun
      /\ pc[t] = "return" => job[t].kind = "direct" /\ r \in Completed
      /\ job[t].kind = "direct" /\ outcome[t] = "returned" =>
           /\ {r, returned[t]} \subseteq Completed
           /\ runs[returned[t]].run_date >= runs[r].run_date

AInv == \A t \in Requests : AnswerOf(t)

\* What the others answer, a step of t leaves as it is.
LEMMA AnswersOfOthersStay ==
    ASSUME IInv, [Next]_vars, NEW u \in Requests, AnswerOf(u), KeepsOf(u),
           dbErrors > 0 => dbErrors' > 0
    PROVE  AnswerOf(u)'
<1>1. \A r \in Completed : r \in Completed' /\ runs'[r] = runs[r]
  BY CompletedStays DEF Completed
<1>2. NoRun \notin DOMAIN runs
  BY DEF IInv, TypeOK, RunIds, NoRun
<1>3. CASE job[u].kind = "direct"
  BY <1>1, <1>3 DEF AnswerOf, KeepsOf
<1>4. CASE job[u].kind # "direct"
  BY <1>4 DEF AnswerOf, KeepsOf
<1>. QED  BY <1>3, <1>4

(* A step that neither ends t nor publishes its row leaves nothing to say  *)
(* but that a broken session had an error.                                 *)
LEMMA AnswersAreKept ==
    ASSUME NEW t \in Requests, AnswerOf(t), pc[t] # "done", pc'[t] \notin {"done", "return"},
           UNCHANGED <<job, returned>>, outcome'[t] \in {"none", "conflict"},
           \/ job[t].kind = "direct"
           \/ sess'[t] # "broken"
           \/ dbErrors' > 0
           \/ sess'[t] = sess[t] /\ dbErrors' = dbErrors
    PROVE  AnswerOf(t)'
BY DEF AnswerOf

\* What each action makes of the answer of its own request.
LEMMA TriggerRefreshAnswers ==
    ASSUME IInv, NEW t \in Requests, AnswerOf(t), TriggerRefresh(t)
    PROVE  AnswerOf(t)'
<1>1. /\ pc[t] = "idle" /\ pc'[t] = "insert" /\ job'[t].run = NoRun /\ job'[t].kind # "direct"
      /\ UNCHANGED <<sess, outcome>> /\ sess[t] = "ok"
  BY DEF TriggerRefresh, IInv, TypeOK, Mine, HoldsItsWork
<1>. QED  BY <1>1 DEF AnswerOf

LEMMA CallDirectlyAnswers ==
    ASSUME IInv, NEW t \in Requests, AnswerOf(t), CallDirectly(t)
    PROVE  AnswerOf(t)'
<1>1. /\ pc[t] = "idle" /\ pc'[t] = "start" /\ job'[t].kind = "direct" /\ UNCHANGED outcome
  BY DEF CallDirectly, IInv, TypeOK
<1>. QED  BY <1>1 DEF AnswerOf

LEMMA InsertPendingAnswers ==
    ASSUME IInv, NEW t \in Requests, AnswerOf(t), InsertPending(t)
    PROVE  AnswerOf(t)'
<1>a. /\ pc[t] = "insert" /\ job[t].run = NoRun /\ job[t].kind # "direct" /\ sess[t] = "ok"
  BY DEF InsertPending, IInv, Mine, OwnsItsRow, HoldsItsWork
<1>1. CASE End(t, "conflict") /\ UNCHANGED job
  <2>1. pc'[t] = "done" /\ outcome'[t] = "conflict" /\ sess'[t] = "ok"
    BY <1>1 DEF End, IInv, TypeOK
  <2>. QED  BY <2>1, <1>1, <1>a DEF AnswerOf
<1>2. CASE /\ job' = [job EXCEPT ![t].run = nextId] /\ returned' = [returned EXCEPT ![t] = nextId]
           /\ \/ job[t].kind = "record" /\ End(t, "returned")
              \/ pc' = [pc EXCEPT ![t] = "start"] /\ UNCHANGED <<sess, outcome>>
  <2>1. job'[t].run = nextId /\ returned'[t] = nextId /\ job'[t].kind = job[t].kind
    BY <1>2 DEF IInv, TypeOK
  <2>2. nextId # NoRun
    BY DEF IInv, TypeOK, RunIds, NoRun
  <2>3. /\ sess'[t] = "ok"
        /\ \/ job[t].kind = "record" /\ pc'[t] = "done"
           \/ pc'[t] = "start" /\ outcome'[t] = outcome[t]
    BY <1>2, <1>a DEF End, IInv, TypeOK
  <2>. QED  BY <2>1, <2>2, <2>3, <1>a DEF AnswerOf
<1>. QED  BY <1>1, <1>2 DEF InsertPending

LEMMA BeginExecuteAnswers ==
    ASSUME IInv, NEW t \in Requests, AnswerOf(t), BeginExecute(t)
    PROVE  AnswerOf(t)'
BY AnswersAreKept DEF BeginExecute, Goto, IInv, TypeOK, AnswerOf, faultVars

LEMMA FetchEodRangeAnswers ==
    ASSUME IInv, NEW t \in Requests, AnswerOf(t), FetchEodRange(t)
    PROVE  AnswerOf(t)'
BY AnswersAreKept DEF FetchEodRange, Goto, IInv, TypeOK, AnswerOf, faultVars

LEMMA UpsertSecuritiesAnswers ==
    ASSUME IInv, NEW t \in Requests, AnswerOf(t), UpsertSecurities(t)
    PROVE  AnswerOf(t)'
BY AnswersAreKept DEF UpsertSecurities, Goto, IInv, TypeOK, AnswerOf, faultVars

LEMMA PersistBarsAnswers ==
    ASSUME IInv, NEW t \in Requests, AnswerOf(t), PersistBars(t)
    PROVE  AnswerOf(t)'
BY AnswersAreKept DEF PersistBars, Goto, IInv, TypeOK, AnswerOf, faultVars

LEMMA ResolveScreeningDateAnswers ==
    ASSUME IInv, NEW t \in Requests, AnswerOf(t), ResolveScreeningDate(t)
    PROVE  AnswerOf(t)'
BY AnswersAreKept DEF ResolveScreeningDate, Goto, IInv, TypeOK, AnswerOf, faultVars

LEMMA OpenRunAnswers ==
    ASSUME IInv, NEW t \in Requests, AnswerOf(t), OpenRun(t)
    PROVE  AnswerOf(t)'
BY AnswersAreKept DEF OpenRun, Goto, IInv, TypeOK, AnswerOf, faultVars

LEMMA InsertRunAnswers ==
    ASSUME IInv, NEW t \in Requests, AnswerOf(t), InsertRun(t)
    PROVE  AnswerOf(t)'
<1>1. job[t].kind = "direct"
  BY DEF InsertRun, IInv, Mine, OwnsItsRow, BeforeRun, InPipeline, TypeOK, RunIds, NoRun, Job, Kinds
<1>2. CASE pc' = [pc EXCEPT ![t] = "outer"] /\ outcome' = [outcome EXCEPT ![t] = "conflict"]
           /\ UNCHANGED job
  <2>1. pc'[t] = "outer" /\ outcome'[t] = "conflict"
    BY <1>2 DEF IInv, TypeOK
  <2>. QED  BY <1>1, <1>2, <2>1 DEF AnswerOf
<1>3. CASE pc' = [pc EXCEPT ![t] = "evaluate"] /\ job' = [job EXCEPT ![t].run = nextId]
           /\ UNCHANGED outcome
  <2>1. pc'[t] = "evaluate" /\ job'[t].kind = "direct" /\ pc[t] # "done"
    BY <1>1, <1>3 DEF InsertRun, IInv, TypeOK
  <2>. QED  BY <1>3, <2>1 DEF AnswerOf
<1>. QED  BY <1>2, <1>3 DEF InsertRun, Goto

LEMMA EvaluateUniverseAnswers ==
    ASSUME IInv, NEW t \in Requests, AnswerOf(t), EvaluateUniverse(t)
    PROVE  AnswerOf(t)'
BY AnswersAreKept DEF EvaluateUniverse, Goto, IInv, TypeOK, AnswerOf, faultVars

LEMMA SaveResultsAnswers ==
    ASSUME IInv, NEW t \in Requests, AnswerOf(t), SaveResults(t)
    PROVE  AnswerOf(t)'
BY AnswersAreKept DEF SaveResults, Goto, IInv, TypeOK, AnswerOf, faultVars

LEMMA CommitRunAnswers ==
    ASSUME IInv, NEW t \in Requests, AnswerOf(t), CommitRun(t)
    PROVE  AnswerOf(t)'
<1>a. /\ pc[t] = "commit" /\ job[t].run # NoRun /\ UNCHANGED <<job, returned>>
      /\ runs' = Written(job[t].run, [staged[t] EXCEPT !.status = "COMPLETED"])
      /\ staged[t] \in Row /\ sess[t] = "ok"
  BY DEF CommitRun, Publish, IInv, Mine, OwnsItsRow, HoldsItsWork, WithRun
<1>1. job[t].run \in DOMAIN runs' /\ runs'[job[t].run].status = "COMPLETED"
  BY <1>a DEF Written, Row
<1>2. CASE job[t].kind = "background"
  <2>1. pc'[t] = "done" /\ sess'[t] = "ok"
    BY <1>2 DEF CommitRun, End, IInv, TypeOK
  <2>. QED  BY <2>1, <1>a, <1>1, <1>2 DEF AnswerOf
<1>3. CASE job[t].kind = "direct"
  <2>1. pc'[t] = "return" /\ outcome' = outcome
    BY <1>3 DEF CommitRun, Goto, IInv, TypeOK
  <2>. QED  BY <2>1, <1>a, <1>1, <1>3 DEF AnswerOf, Completed
<1>. QED  BY <1>2, <1>3, <1>a DEF IInv, Mine, OwnsItsRow, WithRun, InPipeline, TypeOK, Job, Kinds

LEMMA ReturnNewestCompletedAnswers ==
    ASSUME IInv, NEW t \in Requests, AnswerOf(t), ReturnNewestCompleted(t)
    PROVE  AnswerOf(t)'
<1>1. PICK r \in DOMAIN runs : IsNewestCompleted(r) /\ returned' = [returned EXCEPT ![t] = r]
  BY DEF ReturnNewestCompleted
<1>2. /\ pc[t] = "return" /\ pc'[t] = "done" /\ UNCHANGED <<runs, job>> /\ returned'[t] = r
  BY <1>1 DEF ReturnNewestCompleted, End, IInv, TypeOK
<1>3. job[t].kind = "direct" /\ job[t].run \in Completed
  BY <1>2 DEF AnswerOf
<1>4. runs[job[t].run].run_date \in Int /\ runs[r].run_date \in Int
  BY <1>3 DEF IInv, TypeOK, Row, Days, Completed
<1>5. r \in Completed /\ runs[r].run_date >= runs[job[t].run].run_date
  BY <1>1, <1>3, <1>4 DEF IsNewestCompleted
<1>. QED  BY <1>2, <1>3, <1>5 DEF AnswerOf, Completed

LEMMA HandleErrorAnswers ==
    ASSUME IInv, NEW t \in Requests, AnswerOf(t), HandleError(t)
    PROVE  AnswerOf(t)'
BY AnswersAreKept DEF HandleError, Goto, IInv, TypeOK, AnswerOf, faultVars

LEMMA MarkRunFailedAnswers ==
    ASSUME IInv, NEW t \in Requests, AnswerOf(t), MarkRunFailed(t)
    PROVE  AnswerOf(t)'
<1>1. /\ pc[t] = "outer" /\ pc'[t] = "done" /\ sess'[t] = "ok" /\ outcome'[t] # "returned"
      /\ UNCHANGED <<job, returned, dbErrors>>
  BY DEF MarkRunFailed, End, IInv, TypeOK, faultVars
<1>2. CASE job[t].kind = "background" /\ sess[t] = "ok"
  <2>1. job[t].run \in DOMAIN runs' /\ runs'[job[t].run].status = "FAILED"
    <3>1. job[t].run \in DOMAIN runs /\ runs[job[t].run] \in Row
      BY <1>1, <1>2 DEF IInv, TypeOK, Mine, OwnsItsRow, InPipeline
    <3>. QED  BY <3>1, <1>2 DEF MarkRunFailed, Written, Row
  <2>. QED  BY <1>1, <2>1 DEF AnswerOf
<1>3. CASE job[t].kind = "background" /\ sess[t] # "ok"
  <2>1. dbErrors > 0
    BY <1>3 DEF AnswerOf, IInv, TypeOK
  <2>. QED  BY <1>1, <2>1 DEF AnswerOf
<1>4. CASE job[t].kind # "background"
  BY <1>1, <1>4 DEF AnswerOf
<1>. QED  BY <1>2, <1>3, <1>4

LEMMA EvaluateLosesStatementAnswers ==
    ASSUME IInv, NEW t \in Requests, AnswerOf(t), EvaluateLosesStatement(t)
    PROVE  AnswerOf(t)'
<1>1. dbErrors' > 0
  BY DEF EvaluateLosesStatement, IInv, TypeOK
<1>. QED  BY <1>1, AnswersAreKept DEF EvaluateLosesStatement, Goto, IInv, TypeOK, AnswerOf

LEMMA CommitLostAnswers ==
    ASSUME IInv, NEW t \in Requests, AnswerOf(t), CommitLost(t)
    PROVE  AnswerOf(t)'
<1>1. dbErrors' > 0
  BY DEF CommitLost, IInv, TypeOK
<1>. QED  BY <1>1, AnswersAreKept DEF CommitLost, Goto, IInv, TypeOK, AnswerOf

LEMMA PythonErrorAnswers ==
    ASSUME IInv, NEW t \in Requests, AnswerOf(t), PythonError(t)
    PROVE  AnswerOf(t)'
BY AnswersAreKept DEF PythonError, Goto, IInv, TypeOK, AnswerOf, faultVars, InOrchestratorTry

LEMMA DbErrorAnswers ==
    ASSUME IInv, NEW t \in Requests, AnswerOf(t), DbError(t)
    PROVE  AnswerOf(t)'
<1>1. dbErrors' > 0 /\ UNCHANGED <<job, returned>> /\ pc[t] # "done"
  BY DEF DbError, IInv, TypeOK
<1>2. CASE pc'[t] = "done" /\ outcome'[t] = "unanswered"
  BY <1>1, <1>2 DEF AnswerOf
<1>3. CASE pc'[t] \in {"handler", "outer"} /\ outcome' = outcome
  BY <1>1, <1>3, AnswersAreKept DEF AnswerOf
<1>. QED  BY <1>2, <1>3 DEF DbError, End, Goto, InOrchestratorTry, IInv, TypeOK

\* AInv holds at first, and beside IInv every step keeps it.
LEMMA InitAInv == Init => AInv
<1> SUFFICES ASSUME Init, NEW t \in Requests PROVE AnswerOf(t)
  BY DEF AInv
<1>1. /\ job[t].kind = "record" /\ job[t].run = NoRun /\ pc[t] = "idle"
      /\ outcome[t] = "none" /\ sess[t] = "ok"
  BY DEF Init, NoJob
<1>. QED  BY <1>1 DEF AnswerOf

LEMMA NextAInv == IInv /\ AInv /\ [Next]_vars => AInv'
<1> SUFFICES ASSUME IInv, AInv, [Next]_vars, NEW u \in Requests PROVE AnswerOf(u)'
  BY DEF AInv
<1>0. AnswerOf(u)
  BY DEF AInv
<1>1. ASSUME NEW t \in Requests, Steps(t) PROVE AnswerOf(u)'
  <2>1. CASE t # u
    <3>1. UNCHANGED dbErrors \/ dbErrors' = dbErrors + 1
      BY <1>1 DEF faultVars, Steps, Proceed, Disturbed, TriggerRefresh,
         CallDirectly, InsertPending, BeginExecute, FetchEodRange, UpsertSecurities, PersistBars,
         ResolveScreeningDate, OpenRun, InsertRun, EvaluateUniverse, SaveResults, CommitRun,
         ReturnNewestCompleted, HandleError, MarkRunFailed, EvaluateLosesStatement, CommitLost,
         PythonError, DbError
    <3>2. dbErrors > 0 => dbErrors' > 0
      BY <3>1 DEF IInv, TypeOK
    <3>. QED  BY <3>2, <1>0, <1>1, <2>1, StepKeeps, AnswersOfOthersStay
  <2>2. CASE TriggerRefresh(u) \/ CallDirectly(u)
    BY <1>0, <2>2, TriggerRefreshAnswers, CallDirectlyAnswers
  <2>3. CASE Proceed(u)
    BY <1>0, <2>3, InsertPendingAnswers, BeginExecuteAnswers, FetchEodRangeAnswers,
       UpsertSecuritiesAnswers, PersistBarsAnswers, ResolveScreeningDateAnswers, OpenRunAnswers,
       InsertRunAnswers, EvaluateUniverseAnswers, SaveResultsAnswers, CommitRunAnswers,
       ReturnNewestCompletedAnswers, HandleErrorAnswers, MarkRunFailedAnswers DEF Proceed
  <2>4. CASE Disturbed(u)
    BY <1>0, <2>4, EvaluateLosesStatementAnswers, CommitLostAnswers, PythonErrorAnswers,
       DbErrorAnswers DEF Disturbed
  <2>. QED  BY <1>1, <2>1, <2>2, <2>3, <2>4 DEF Steps
<1>2. CASE Crash
  <2>1. /\ UNCHANGED <<runs, job, returned, dbErrors>>
        /\ pc' = [t \in Requests |-> IF pc[t] \notin {"idle", "done"} THEN "done" ELSE pc[t]]
        /\ outcome' = [t \in Requests |-> IF pc[t] \notin {"idle", "done"} THEN "crashed"
                                          ELSE outcome[t]]
        /\ sess' = [t \in Requests |-> "ok"]
    BY <1>2 DEF Crash
  <2>2. CASE pc[u] \in {"idle", "done"}
    <3>1. pc'[u] = pc[u] /\ outcome'[u] = outcome[u] /\ sess'[u] = "ok"
      BY <2>1, <2>2
    <3>. QED  BY <1>0, <2>1, <3>1 DEF AnswerOf, Completed
  <2>3. CASE pc[u] \notin {"idle", "done"}
    <3>1. pc'[u] = "done" /\ outcome'[u] = "crashed" /\ sess'[u] = "ok"
      BY <2>1, <2>3
    <3>. QED  BY <1>0, <2>1, <3>1 DEF AnswerOf
  <2>. QED  BY <2>2, <2>3
<1>3. CASE NextDay \/ RefreshBars \/ UNCHANGED vars
  <2>1. UNCHANGED <<runs, pc, job, scan, staged, sess, outcome, returned, dbErrors>>
    BY <1>3 DEF NextDay, RefreshBars, vars, requestVars, faultVars
  <2>. QED  BY <1>0, <2>1, AnswersOfOthersStay DEF KeepsOf
<1>. QED  BY <1>1, <1>2, <1>3 DEF Next, Steps

(* A request ends as it says: a background run that nothing disturbed has  *)
(* settled its row, and a caller is told of a row it finds.                *)
THEOREM RequestsEndTruthful == Spec => []RequestsEndTruthfully
<1>1. IInv /\ AInv => RequestsEndTruthfully
  BY DEF AInv, AnswerOf, RequestsEndTruthfully, AbandonedOnlyByFault, ReturnsARunThatExists
<1>. QED  BY <1>1, InitAInv, NextAInv, Invariance, PTL DEF Spec

===============================================================================
