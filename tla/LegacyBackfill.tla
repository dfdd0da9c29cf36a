---------------------------- MODULE LegacyBackfill ----------------------------
(* The backfill of legacy_ohlcv_daily from the exchange's old archive         *)
(* (use_cases/research/legacy_overlap_backfill.py), driven in chunks with a   *)
(* checkpoint file by scripts/rp012_phase3_backfill.py. A day is committed at *)
(* once, its bars with the events they show; what was last seen of each       *)
(* security is in memory, one chunk long. The script may die anywhere and is  *)
(* started again by hand.                                                     *)
EXTENDS DataChecks

CONSTANTS
  Archives,     \* what the archive may hold: sequences of days, each a set of prints,
                \* [symbol, isin, date, close, prev, turnover]
  Securities,   \* the master: [id, symbol, isin, from, to]
  Chunks,       \* sequence of <<first, last>> days, ascending: calendar years
  GapSessions,  \* 5
  MaxCrashes, MaxSkips

\* Days are counted from the first one of the range, which the chunks share out.
ASSUME ChunksAssumption ==
  /\ Chunks \in Seq(Nat \X Nat)
  /\ \A i \in DOMAIN Chunks :
       /\ Chunks[i][1] <= Chunks[i][2]
       /\ Chunks[i][1] = IF i = 1 THEN 1 ELSE Chunks[i - 1][2] + 1

\* The archive covers the days of the range.
ASSUME ArchivesAssumption ==
  \A a \in Archives : /\ Len(a) \in Nat /\ DOMAIN a = 1..Len(a)
                       /\ \A i \in DOMAIN Chunks : Chunks[i][2] <= Len(a)

VARIABLES
  archive,
  bars,         \* <<security, day>> -> [date, close, turnover, adj]
  inferred,     \* corporate_action_inference_log: <<security, day>> -> prior close
  gaps,         \* survivorship_gap_events: <<security, last seen, day>> -> sessions
  checkpoint,   \* the file: the last day completed and the totals so far
  job, crashes,
  skips         \* sessions the archive did not serve

backfillVars == <<archive, bars, inferred, gaps, checkpoint, job, crashes, skips>>

Idle == [chunk |-> 0]

NoCounts == [trading |-> 0, empty |-> 0, rows |-> 0, unresolved |-> 0, flagged |-> 0, gaps |-> 0]

Plus(a, b) == [f \in DOMAIN a |-> a[f] + b[f]]

Fresh == [seen |-> <<>>, index |-> 0, counts |-> NoCounts]

-----------------------------------------------------------------------------
(* One day.                                                                  *)

Prints == UNION {UNION {a[d] : d \in DOMAIN a} : a \in Archives}

Resolution == [raw \in Prints |-> ResolveBar(raw, Securities)]

\* The prints whose security is known, each with its security.
Known(rows) == {r @@ ("id" :> Resolution[r]) : r \in {q \in rows : Resolution[q] # None}}

\* The statement that stores the day fails on two bars of one security.
Fails(rows) ==
  LET Clash(known) == \E q, r \in known : q # r /\ q.id = r.id
  IN  Clash(Known(rows))

\* Of what was known when a session began: the reported previous close is off
\* the one seen last by more than a twentieth.
Flagged(seen, r) ==
  /\ r.id \in DOMAIN seen
  /\ r.prev # None
  /\ seen[r.id].close > 0
  /\ \/ 100 * r.prev < 95 * seen[r.id].close
     \/ 100 * r.prev > 105 * seen[r.id].close

Missed(memory, r) ==
  IF r.id \in DOMAIN memory.seen THEN memory.index - memory.seen[r.id].index ELSE 0

\* What a session adds to the tables and to the memory of the chunk.
Session(memory, rows, day) ==
  LET Of(known, flagged, returned) ==
        LET ids == {r.id : r \in known}
            PrintOf(s) == CHOOSE r \in known : r.id = s
        IN  [bars |-> [p \in ids \X {day} |->
                       [date |-> day, close |-> PrintOf(p[1]).close,
                        turnover |-> PrintOf(p[1]).turnover, adj |-> None]],
             inferred |-> [p \in {r.id : r \in flagged} \X {day} |-> memory.seen[p[1]].close],
             gaps |-> [g \in {<<r.id, memory.seen[r.id].date, day>> : r \in returned} |->
                         Missed(memory, PrintOf(g[1]))],
             memory |->
               [index |-> memory.index + 1,
                seen |-> Over([s \in ids |-> [index |-> memory.index + 1, date |-> day, close |-> PrintOf(s).close]],
                              memory.seen),
                counts |-> Plus(memory.counts,
                  [trading |-> 1, empty |-> 0, rows |-> Cardinality(known),
                   unresolved |-> Cardinality(rows) - Cardinality(known), flagged |-> Cardinality(flagged),
                   gaps |-> Cardinality(returned)])]]
      With(known) == Of(known, {r \in known : Flagged(memory.seen, r)},
                        {r \in known : Missed(memory, r) > GapSessions})
  IN  With(Known(rows))

\* A day on which nothing is served is taken for a holiday.
Holiday(memory) == [memory EXCEPT !.counts.empty = @ + 1]

-----------------------------------------------------------------------------
(* The script.                                                               *)

FirstDay(i) == Chunks[i][1]
LastDay(i) == Chunks[i][2]

Completed(last) == {i \in DOMAIN Chunks : LastDay(i) <= last}

\* Slip: the newest chunk first.
OpenChunkNewest(i, last) ==
  LET left == {k \in DOMAIN Chunks : k \notin Completed(last) /\ (i = 0 \/ k < i)}
  IN  IF left = {} THEN Idle
      ELSE [chunk |-> Max(left), day |-> FirstDay(Max(left)), memory |-> Fresh, from |-> last]

\* Slip: the year of the end is left out.
OpenChunkExclusive(i, last) ==
  LET left == {k \in 1..(Len(Chunks) - 1) : k > i /\ k \notin Completed(last)}
  IN  IF left = {} THEN Idle
      ELSE [chunk |-> Min(left), day |-> FirstDay(Min(left)), memory |-> Fresh, from |-> last]

\* The first chunk after i that was not completed when the script started.
OpenChunk(i, last) ==
  LET left == {k \in DOMAIN Chunks : k > i /\ k \notin Completed(last)}
  IN  IF left = {} THEN Idle
      ELSE [chunk |-> Min(left), day |-> FirstDay(Min(left)), memory |-> Fresh, from |-> last]

Start ==
  /\ job = Idle
  /\ Completed(checkpoint.last) # DOMAIN Chunks
  /\ job' = OpenChunk(0, checkpoint.last)
  /\ UNCHANGED <<archive, bars, inferred, gaps, checkpoint, crashes, skips>>

Busy == job # Idle

Working == Busy /\ job.day <= LastDay(job.chunk)

\* ON CONFLICT: bars overwrite, events that are there stay.
PersistDay ==
  /\ Working
  /\ archive[job.day] # {} /\ ~Fails(archive[job.day])
  /\ \E day \in {Session(job.memory, archive[job.day], job.day)} :
       /\ bars' = Over(day.bars, bars)
       /\ inferred' = Over(inferred, day.inferred)
       /\ gaps' = Over(gaps, day.gaps)
       /\ job' = [job EXCEPT !.day = @ + 1, !.memory = day.memory]
  /\ UNCHANGED <<archive, checkpoint, crashes, skips>>

PassHoliday ==
  /\ Working
  /\ archive[job.day] = {}
  /\ job' = [job EXCEPT !.day = @ + 1, !.memory = Holiday(@)]
  /\ UNCHANGED <<archive, bars, inferred, gaps, checkpoint, crashes, skips>>

\* An HTTP status other than 200, or an archive that does not open, is an
\* empty answer like the 404 of a holiday.
SkipSession ==
  /\ Working
  /\ archive[job.day] # {}
  /\ skips < MaxSkips
  /\ skips' = skips + 1
  /\ job' = [job EXCEPT !.day = @ + 1, !.memory = Holiday(@)]
  /\ UNCHANGED <<archive, bars, inferred, gaps, checkpoint, crashes>>

DayFails ==
  /\ Working
  /\ Fails(archive[job.day])
  /\ job' = Idle
  /\ UNCHANGED <<archive, bars, inferred, gaps, checkpoint, crashes, skips>>

\* Slip: the checkpoint is written before the last day is stored.
SaveCheckpointEarly ==
  /\ Busy
  /\ job.day \in {LastDay(job.chunk), LastDay(job.chunk) + 1}
  /\ checkpoint.last < LastDay(job.chunk)
  /\ checkpoint' = [last |-> LastDay(job.chunk), totals |-> Plus(checkpoint.totals, job.memory.counts)]
  /\ job' = IF job.day = LastDay(job.chunk) THEN job ELSE OpenChunk(job.chunk, job.from)
  /\ UNCHANGED <<archive, bars, inferred, gaps, crashes, skips>>

\* The file is replaced at once; the totals are those read at the start, and
\* of the chunks since.
SaveCheckpoint ==
  /\ Busy
  /\ job.day > LastDay(job.chunk)
  /\ checkpoint' = [last |-> LastDay(job.chunk), totals |-> Plus(checkpoint.totals, job.memory.counts)]
  /\ job' = OpenChunk(job.chunk, job.from)
  /\ UNCHANGED <<archive, bars, inferred, gaps, crashes, skips>>

\* Also where the archive cannot be reached: three attempts, then the error
\* ends the script.
Crash ==
  /\ Busy
  /\ crashes < MaxCrashes
  /\ crashes' = crashes + 1
  /\ job' = Idle
  /\ UNCHANGED <<archive, bars, inferred, gaps, checkpoint, skips>>

BackfillInit ==
  /\ archive \in Archives
  /\ bars = <<>> /\ inferred = <<>> /\ gaps = <<>>
  /\ checkpoint = [last |-> 0, totals |-> NoCounts]
  /\ job = Idle
  /\ crashes = 0 /\ skips = 0

BackfillStep == Start \/ PersistDay \/ PassHoliday \/ DayFails \/ SaveCheckpoint

BackfillNext == BackfillStep \/ SkipSession \/ Crash

-----------------------------------------------------------------------------

Nothing == [bars |-> <<>>, inferred |-> <<>>, gaps |-> <<>>, memory |-> Fresh]

\* One day more.
Extend(before, rows, d) ==
  LET After(day) ==
        [bars |-> Over(day.bars, before.bars), inferred |-> Over(day.inferred, before.inferred),
         gaps |-> Over(day.gaps, before.gaps), memory |-> day.memory]
  IN  IF rows = {} THEN [before EXCEPT !.memory = Holiday(@)]
      ELSE After(Session(before.memory, rows, d))

\* What one pass over the days of a range leaves, from nothing.
Pass(days, first, last) ==
  LET upTo[d \in (first - 1)..last] ==
        IF d < first THEN Nothing ELSE Extend(upTo[d - 1], days[d], d)
  IN  upTo[last]

Undisturbed == [a \in Archives |-> [i \in DOMAIN Chunks |-> Pass(a, FirstDay(i), LastDay(i))]]

\* What the first n chunks count together.
Totals(pass, n) ==
  LET upTo[i \in 0..n] == IF i = 0 THEN NoCounts ELSE Plus(upTo[i - 1], pass[i].memory.counts)
  IN  upTo[n]

\* However often the script died, what it has completed is what it would have
\* stored, logged and counted undisturbed, chunk by chunk.
ResumesAsUndisturbed ==
  LET Until(table, day(_)) == {p \in DOMAIN table : day(p) <= checkpoint.last}
      Same(pass, done) ==
        /\ Until(bars, LAMBDA p : p[2]) = UNION {DOMAIN pass[i].bars : i \in done}
        /\ Until(inferred, LAMBDA p : p[2]) = UNION {DOMAIN pass[i].inferred : i \in done}
        /\ Until(gaps, LAMBDA p : p[3]) = UNION {DOMAIN pass[i].gaps : i \in done}
        /\ \A i \in done :
             /\ \A p \in DOMAIN pass[i].bars : bars[p] = pass[i].bars[p]
             /\ \A p \in DOMAIN pass[i].inferred : inferred[p] = pass[i].inferred[p]
             /\ \A p \in DOMAIN pass[i].gaps : gaps[p] = pass[i].gaps[p]
        /\ checkpoint.totals = Totals(pass, Cardinality(done))
  IN  skips = 0 => Same(Undisturbed[archive], Completed(checkpoint.last))

\* _fetch_eod_legacy: a transient outage must end the run loudly "instead of
\* silently dropping a real trading day from the archive".
NoSessionIsDropped ==
  \A d \in 1..checkpoint.last : \A r \in Known(archive[d]) : <<r.id, d>> \in DOMAIN bars

\* The events of a completed range are those of one pass over all of it,
\* whatever its chunks.
EventsIgnoreChunks ==
  LET Kept(whole) == DOMAIN whole.inferred \subseteq DOMAIN inferred /\ DOMAIN whole.gaps \subseteq DOMAIN gaps
  IN  skips = 0 /\ checkpoint.last > 0 => Kept(Pass(archive, 1, checkpoint.last))

\* If no day fails, the script, started again whenever it died, gets to the end.
BackfillFinishes ==
  (\A d \in DOMAIN archive : ~Fails(archive[d])) => <>(checkpoint.last = LastDay(Len(Chunks)))
===============================================================================
