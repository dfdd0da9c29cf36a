---------------------------- MODULE HistoricalReplay ----------------------------
(* What reads the archive while it may still be growing: the reconstruction   *)
(* of the universe (use_cases/research/historical_universe_reconstruction.py) *)
(* and the replay of past dates (scripts/                                     *)
(* rp013_historical_correction_backfill.py), which screens the eligible       *)
(* securities of a date, tags the run and computes its forward returns, with  *)
(* a commit after each. Scores are left out: a run holds what was scored.     *)
EXTENDS LegacyBackfill, Trades

CONSTANTS
  Window,      \* <<first, last>>: the sessions that are replayed
  Cadence,     \* 7 days
  Active,      \* the securities that are active today
  ScoreBars,   \* bars the 200-day average and its slope need
  MaxErrors

ASSUME WindowAssumption == Window \in Nat \X Nat

VARIABLES
  universe,    \* historical_universe: <<security, day>> -> reason
  recon,       \* securities left to reconstruct
  runs,        \* day -> [status, scored, tagged, forward]
  replay, errors

replayVars == <<universe, recon, runs, replay, errors>>

vars == <<backfillVars, replayVars>>

\* The bars a table holds of one security up to a day, in the order of their
\* dates.
HistoryTo(table, s, day) ==
  LET upTo[d \in 0..day] ==
        IF d = 0 THEN <<>>
        ELSE IF <<s, d>> \in DOMAIN table THEN Append(upTo[d - 1], table[<<s, d>>])
        ELSE upTo[d - 1]
  IN  upTo[day]

History(table, s) == HistoryTo(table, s, Len(archive))

Ids == {s.id : s \in Securities}

-----------------------------------------------------------------------------
(* Reconstruction: one security after another, the window's bars at once;    *)
(* rows that are there stay.                                                 *)

InWindow(day) == day \in Window[1]..Window[2]

Memberships(table, s) ==
  LET dated == MembershipSeries(History(table, s), Window[1], Window[2])
  IN  [p \in {<<s, dated[i][1]>> : i \in DOMAIN dated} |->
         LET i == CHOOSE k \in DOMAIN dated : dated[k][1] = p[2] IN dated[i][2]]

StartReconstruction ==
  /\ recon = {}
  /\ recon' = {s \in Ids : \E p \in DOMAIN bars : p[1] = s /\ InWindow(p[2])}
  /\ UNCHANGED <<backfillVars, universe, runs, replay, errors>>

ReconstructSecurity ==
  /\ recon # {}
  /\ universe' = Over(universe, Memberships(bars, Min(recon)))
  /\ recon' = recon \ {Min(recon)}
  /\ UNCHANGED <<backfillVars, runs, replay, errors>>

CrashReconstruction ==
  /\ recon # {}
  /\ crashes < MaxCrashes
  /\ crashes' = crashes + 1
  /\ recon' = {}
  /\ UNCHANGED <<archive, bars, inferred, gaps, checkpoint, job, skips, universe, runs, replay, errors>>

-----------------------------------------------------------------------------
(* Replay.                                                                   *)

\* One target every Cadence days, moved back to the last session before it.
WeeklyRunDates(sessions) ==
  LET inside == {d \in sessions : InWindow(d)}
      targets == {d \in Window[1]..Window[2] : (d - Window[1]) % Cadence = 0}
  IN  {Max({d \in inside : d <= t}) : t \in {u \in targets : \E d \in inside : d <= u}}

\* Funds and securities of unknown ISIN are kept out.
Contaminated(s) == \E x \in Securities : x.id = s /\ x.isin = None

EligibleOn(table, day) ==
  {s \in Ids : /\ <<s, day>> \in DOMAIN table
               /\ MembershipOn(History(table, s), day) = "eligible"
               /\ ~Contaminated(s)}

\* Of the eligible, those still active and with bars enough.
ScoredOn(table, eligible, day) ==
  {s \in eligible \cap Active : Len(Through(History(table, s), day)) >= ScoreBars}

ForwardRows(table, day, scored) ==
  Backfill(<<>>, [date |-> day, picks |-> scored], [s \in Ids |-> History(table, s)], <<>>)

Resting == [phase |-> "idle"]

StartReplay ==
  /\ replay = Resting
  /\ LET left == WeeklyRunDates({p[2] : p \in DOMAIN bars}) \ DOMAIN runs
     IN  /\ left # {}
         /\ replay' = [phase |-> "reconstruct", day |-> Min(left), left |-> left \ {Min(left)}]
  /\ UNCHANGED <<backfillVars, universe, recon, runs, errors>>

NextDate ==
  IF replay.left = {} THEN Resting
  ELSE [phase |-> "reconstruct", day |-> Min(replay.left), left |-> replay.left \ {Min(replay.left)}]

In(phase) == replay.phase = phase

\* Nothing is kept of a date on which nobody was eligible; where only
\* securities were that are not active any more, the script ends.
ReconstructDate ==
  /\ In("reconstruct")
  /\ LET eligible == EligibleOn(bars, replay.day)
     IN  replay' = IF eligible = {} THEN NextDate
                   ELSE IF eligible \cap Active = {} THEN Resting
                   ELSE [phase |-> "screen", day |-> replay.day, left |-> replay.left, eligible |-> eligible]
  /\ UNCHANGED <<backfillVars, universe, recon, runs, errors>>

\* The runs with a new one of that day.
WithRun(day, status, scored) ==
  Over([d \in {day} |-> [status |-> status, scored |-> scored, tagged |-> FALSE, forward |-> <<>>]], runs)

ScreenDate ==
  /\ In("screen")
  /\ runs' = WithRun(replay.day, "COMPLETED", ScoredOn(bars, replay.eligible, replay.day))
  /\ replay' = [replay EXCEPT !.phase = "tag"]
  /\ UNCHANGED <<backfillVars, universe, recon, errors>>

\* The run is marked FAILED and kept, or, after a database error, rolled back;
\* the script ends.
ScreenFails ==
  /\ In("screen")
  /\ errors < MaxErrors
  /\ errors' = errors + 1
  /\ \/ runs' = WithRun(replay.day, "FAILED", {})
     \/ runs' = runs
  /\ replay' = Resting
  /\ UNCHANGED <<backfillVars, universe, recon>>

TagRun ==
  /\ In("tag")
  /\ runs' = [runs EXCEPT ![replay.day].tagged = TRUE]
  /\ replay' = [replay EXCEPT !.phase = "forward"]
  /\ UNCHANGED <<backfillVars, universe, recon, errors>>

BackfillForward ==
  /\ In("forward")
  /\ runs' = [runs EXCEPT ![replay.day].forward = ForwardRows(bars, replay.day, runs[replay.day].scored)]
  /\ replay' = NextDate
  /\ UNCHANGED <<backfillVars, universe, recon, errors>>

CrashReplay ==
  /\ replay # Resting
  /\ crashes < MaxCrashes
  /\ crashes' = crashes + 1
  /\ replay' = Resting
  /\ UNCHANGED <<archive, bars, inferred, gaps, checkpoint, job, skips, universe, recon, runs, errors>>

-----------------------------------------------------------------------------

Init ==
  /\ BackfillInit
  /\ universe = <<>> /\ recon = {}
  /\ runs = <<>> /\ replay = Resting
  /\ errors = 0

ReplayNext ==
  \/ StartReconstruction \/ ReconstructSecurity \/ CrashReconstruction
  \/ StartReplay \/ ReconstructDate \/ ScreenDate \/ ScreenFails \/ TagRun \/ BackfillForward
  \/ CrashReplay

Next == (BackfillNext /\ UNCHANGED replayVars) \/ ReplayNext

Spec == Init /\ [][Next]_vars

\* The backfill takes its steps, and whoever runs it starts it again.
FairSpec == Spec /\ WF_vars(BackfillStep /\ UNCHANGED replayVars)

-----------------------------------------------------------------------------

\* The bars there will be: those of every day up to the first that fails.
Whole ==
  [a \in Archives |->
     LET Until(failing) == Pass(a, 1, IF failing = {} THEN Len(a) ELSE Min(failing) - 1).bars
     IN  Until({d \in DOMAIN a : Fails(a[d])})]

\* Whatever was read while the archive grew is what would be read of all of
\* it: memberships, what a run scored and its forward returns.
ReadersDoNotRace ==
  LET Rows(run, rows) == \A r \in DOMAIN run.forward : run.forward[r] = rows[r]
      Same(whole) ==
        /\ \A p \in DOMAIN universe : universe[p] = Memberships(whole, p[1])[p]
        /\ \A d \in {x \in DOMAIN runs : runs[x].status = "COMPLETED"} :
             /\ runs[d].scored = ScoredOn(whole, EligibleOn(whole, d), d)
             /\ Rows(runs[d], ForwardRows(whole, d, runs[d].scored))
  IN  skips = 0 => Same(Whole[archive])

\* The replay script: "every run is tagged", and an interrupted replay can be
\* invoked again. A date whose run is not being made is replayed whole.
ReplayedRunsAreWhole ==
  \A d \in DOMAIN runs :
    replay # Resting \/ (runs[d].status = "COMPLETED" /\ runs[d].tagged)
===============================================================================
