-------------------------- MODULE AccelerationProofs --------------------------
(***************************************************************************)
(* Proofs about Acceleration for every set of torrents, every limit on the *)
(* jobs of a tick, any number of link groups, requests, failed calls and   *)
(* crashes: the safety properties that MCAcceleration checks on one        *)
(* torrent and AccelerationBatch on two.                                   *)
(***************************************************************************)
EXTENDS Acceleration, FiniteSetTheorems, TLAPS

Torrent == [managed : BOOLEAN, metadata : BOOLEAN, done : BOOLEAN,
            stopped : BOOLEAN, tagged : BOOLEAN, seeds : SUBSET Nat]
Ticks == [pc : TickPcs, t : Torrents \cup {NoTorrent}, rows : [Torrents -> Job],
          done : SUBSET Torrents, resting : SUBSET Torrents, todo : SUBSET Torrents,
          metadata : BOOLEAN, new : Nat, part : 1..Parts]
Cleanups == [t : Torrents \cup {NoTorrent}, serial : Nat, pending : BOOLEAN]

\* A torrent without a row has left nothing of an earlier one.
RowsWellFormed == \A t \in Torrents : ~HasRow(t) => jobs[t] = NoJob

\* A row the tick has loaded is the table's in all columns that only the tick
\* writes, unless a cleanup has deleted it: no other row comes during a tick.
RowIsCurrent(t) ==
  tick.rows[t].serial # 0 =>
    /\ jobs[t].serial \in {0, tick.rows[t].serial}
    /\ HasRow(t) => /\ tick.rows[t].provider = jobs[t].provider
                    /\ tick.rows[t].url = jobs[t].url
                    /\ tick.rows[t].myjd = jobs[t].myjd
SessionCurrent == \A t \in Torrents : RowIsCurrent(t)

\* Where the tick stands says what its row lacks or has.
AtWork == tick.pc \notin {"idle", "next"}
TickWellFormed ==
  /\ At("idle") => tick = NoTick
  /\ AtWork => tick.t \in Torrents /\ Row.serial # 0
  /\ tick.t \notin tick.todo
  /\ tick.pc \in {"submit", "magnet", "save_provider"} => Row.provider = 0
  /\ At("save_provider") => tick.new # 0
  /\ tick.pc \in {"unrestrict", "links", "save_fallback"} => ~Row.myjd
  /\ tick.pc \in {"lookup_seeds", "add_seeds"} => Row.url
  /\ AtWork /\ tick.pc \notin {"links", "save_fallback", "stop", "tag"} => tick.part = 1

\* What a tick has before it is not finished.
OpenJobs == \A t \in Torrents : (t \in tick.todo \/ Working(t)) => jobs[t].state \notin Terminal

\* A cleanup holds the row it will delete, and once it has taken the web seeds
\* off there are none.
CleanupHasRow ==
  cleanup # NoCleanup =>
    /\ cleanup.t \in Torrents
    /\ Current(cleanup.t, cleanup.serial)
    /\ ~cleanup.pending /\ cleanup.t \notin raced => qb[cleanup.t].seeds = {}

\* A row that names no torrent of Real-Debrid leaves room for one, a row that
\* was not handed over leaves room for a package of every group, but for what
\* was accepted and is not recorded yet.
Submissions(t) == {p \in 1..MaxSubmissions : rd[p].t = t}
LacksProvider(row) == row.serial # 0 /\ row.provider = 0
SubmissionDue(t) ==
  /\ LacksProvider(jobs[t]) \/ LacksProvider(tick.rows[t])
  /\ ~(tick.t = t /\ At("save_provider"))
SubmissionsCounted ==
  \A t \in Torrents \ unrecorded :
    /\ Cardinality(Submissions(t)) <= born[t]
    /\ SubmissionDue(t) => Cardinality(Submissions(t)) < born[t]

LacksPackages(row) == row.serial # 0 /\ ~row.myjd
PackageDue(t, i) ==
  /\ LacksPackages(jobs[t]) \/ LacksPackages(tick.rows[t])
  /\ ~(tick.t = t /\ (At("save_fallback") \/ (At("links") /\ i < tick.part)))
PackagesCounted ==
  \A t \in Torrents \ unrecorded : \A i \in 1..Parts :
    /\ packages[t][i] <= born[t]
    /\ PackageDue(t, i) => packages[t][i] < born[t]

\* A job in the hands of JDownloader says so, and without faults its placeholder
\* is stopped and tagged unless the tick is about to do so.
FallbackIsRecorded ==
  \A t \in Torrents : jobs[t].state = "fallback_progress" => jobs[t].myjd
HandedOver ==
  faults = 0 =>
    \A t \in Torrents : jobs[t].myjd =>
      /\ qb[t].stopped \/ (tick.t = t /\ At("stop"))
      /\ qb[t].tagged \/ (tick.t = t /\ tick.pc \in {"stop", "tag"})

\* The inductive invariant: the table and the sessions, ...
SessionInv == RowsWellFormed /\ SessionCurrent /\ TickWellFormed /\ OpenJobs

\* ... and what they have left in the remote services.
RemoteInv == /\ WebseedsOwned /\ CleanupHasRow /\ SubmissionsCounted /\ PackagesCounted
             /\ FallbackIsRecorded /\ HandedOver
IInv == TypeOK /\ SessionInv /\ RemoteInv

-----------------------------------------------------------------------------
\* Some id is the least free one.
LEMMA LeastExists ==
  ASSUME NEW S \in SUBSET Nat, S # {}
  PROVE  \E p \in S : \A q \in S : p <= q
<1> DEFINE UpTo(p) == {q \in S : q <= p}
           T == {UpTo(p) : p \in S}
<1>1. ASSUME NEW p \in S PROVE IsFiniteSet(UpTo(p))
  <2>1. UpTo(p) \in SUBSET Nat /\ p \in Nat /\ \A q \in UpTo(p) : q <= p
    OBVIOUS
  <2>2. QED
    BY <2>1, FS_BoundedSetOfNaturals
<1>2. T \subseteq FiniteSubsetsOf(S) /\ T # {}
  BY <1>1 DEF FiniteSubsetsOf
<1>3. PICK X \in T : \A Y \in T : ~(<<Y, X>> \in StrictSubsetOrdering(S))
  <2> HIDE DEF T
  <2>1. QED
    BY <1>2, FS_StrictSubsetOrderingWellFounded, WFMin
<1>4. PICK p \in S : X = UpTo(p)
  BY <1>3
<1>5. ASSUME NEW q \in S, ~(p <= q) PROVE FALSE
  <2>1. p \in Nat /\ q \in Nat /\ q < p
    BY <1>5
  <2>2. UpTo(q) \subseteq UpTo(p)
    <3>1. ASSUME NEW r \in S, r <= q PROVE r <= p
      <4>1. r \in Nat
        OBVIOUS
      <4>2. QED
        BY <2>1, <3>1, <4>1
    <3>2. QED
      BY <3>1
  <2>3. p \notin UpTo(q) /\ p \in UpTo(p)
    BY <2>1
  <2>4. UpTo(q) \in T /\ UpTo(q) \in SUBSET S /\ UpTo(p) \in SUBSET S
    OBVIOUS
  <2> HIDE DEF UpTo, T
  <2>5. <<UpTo(q), UpTo(p)>> \in StrictSubsetOrdering(S)
    BY <2>2, <2>3, <2>4 DEF StrictSubsetOrdering
  <2>6. QED
    BY <1>3, <1>4, <2>4, <2>5
<1>6. QED
  BY <1>5

\* What a row becomes by a change of some columns.
LEMMA JobWrites ==
  ASSUME NEW row \in Job
  PROVE  /\ [row EXCEPT !.wait = FALSE] \in Job
         /\ \A s \in JobStates : [row EXCEPT !.state = s] \in Job
         /\ \A s \in JobStates, w \in BOOLEAN : [row EXCEPT !.state = s, !.wait = w] \in Job
         /\ \A s \in JobStates, p \in Nat : [row EXCEPT !.provider = p, !.state = s] \in Job
         /\ \A s \in JobStates : [row EXCEPT !.selected = TRUE, !.state = s] \in Job
         /\ [row EXCEPT !.selected = TRUE, !.url = TRUE] \in Job
         /\ \A s \in JobStates : [row EXCEPT !.myjd = TRUE, !.state = s] \in Job
BY DEF Job

LEMMA RestingTypes ==
  /\ NoJob \in Job
  /\ NoTick \in Ticks
  /\ NoCleanup \in Cleanups
<1>1. NoJob \in Job
  BY DEF NoJob, Job, JobStates
<1>2. 1 \in 1..Parts
  BY AccelerationAssumption DEF AccelerationAssumption
<1>3. NoTick \in Ticks
  BY <1>1, <1>2 DEF NoTick, Ticks, TickPcs
<1>4. NoCleanup \in Cleanups
  BY DEF NoCleanup, Cleanups
<1>5. QED
  BY <1>1, <1>3, <1>4

\* A commit writes the columns that the session changed.
LEMMA MergedColumns ==
  ASSUME NEW stored \in Job, NEW loaded \in Job, NEW new \in Job
  PROVE  LET m == Merged(stored, loaded, new)
         IN /\ m \in Job
            /\ m.serial = Written(stored.serial, loaded.serial, new.serial)
            /\ m.state = Written(stored.state, loaded.state, new.state)
            /\ m.provider = Written(stored.provider, loaded.provider, new.provider)
            /\ m.url = Written(stored.url, loaded.url, new.url)
            /\ m.myjd = Written(stored.myjd, loaded.myjd, new.myjd)
<1> DEFINE m == Merged(stored, loaded, new)
<1>1. DOMAIN stored = {"serial", "state", "provider", "selected", "url", "myjd", "wait"}
  BY DEF Job
<1>2. m = [serial |-> Written(stored.serial, loaded.serial, new.serial),
           state |-> Written(stored.state, loaded.state, new.state),
           provider |-> Written(stored.provider, loaded.provider, new.provider),
           selected |-> Written(stored.selected, loaded.selected, new.selected),
           url |-> Written(stored.url, loaded.url, new.url),
           myjd |-> Written(stored.myjd, loaded.myjd, new.myjd),
           wait |-> Written(stored.wait, loaded.wait, new.wait)]
  BY <1>1 DEF Merged
<1> HIDE DEF m
<1>3. m \in Job
  BY <1>2 DEF Written, Job
<1>4. QED
  BY <1>2, <1>3 DEF m

LEMMA TypeOKParts ==
  TypeOK <=> /\ jobs \in [Torrents -> Job] /\ born \in [Torrents -> Nat]
             /\ overdue \in SUBSET Torrents /\ qb \in [Torrents -> Torrent]
             /\ rd \in [1..MaxSubmissions -> [t : Torrents \cup {NoTorrent}, status : ProviderStates]]
             /\ packages \in [Torrents -> [1..Parts -> Nat]]
             /\ tick \in Ticks /\ cleanup \in Cleanups
             /\ unrecorded \in SUBSET Torrents /\ raced \in SUBSET Torrents
             /\ actions \in Nat /\ faults \in Nat
BY DEF TypeOK, Torrent, Ticks, Cleanups

\* The types after a step, from those of its parts.
LEMMA TypesAfter ==
  ASSUME jobs' \in [Torrents -> Job], born' \in [Torrents -> Nat],
         overdue' \in SUBSET Torrents, qb' \in [Torrents -> Torrent],
         rd' \in [1..MaxSubmissions -> [t : Torrents \cup {NoTorrent}, status : ProviderStates]],
         packages' \in [Torrents -> [1..Parts -> Nat]],
         tick' \in Ticks, cleanup' \in Cleanups,
         unrecorded' \in SUBSET Torrents, raced' \in SUBSET Torrents,
         actions' \in Nat, faults' \in Nat
  PROVE  TypeOK'
BY DEF TypeOK, Torrent, Ticks, Cleanups

-----------------------------------------------------------------------------
(* What the tick does to the table and to its session.                       *)

\* A step keeps the session in order, keeps the marks of the rows, and makes
\* nothing due that was not due.
Advances ==
  /\ jobs' \in [Torrents -> Job] /\ tick' \in Ticks
  /\ SessionInv' /\ FallbackIsRecorded'
  /\ \A u \in Torrents : jobs'[u].serial = jobs[u].serial /\ (jobs[u].url => jobs'[u].url)
  /\ \A u \in Torrents : SubmissionDue(u)' => SubmissionDue(u)
  /\ \A u \in Torrents \ unrecorded' : \A i \in 1..Parts :
       PackageDue(u, i)' => PackageDue(u, i)

MyjdKept == \A u \in Torrents : jobs'[u].myjd = jobs[u].myjd

LEMMA WorkFacts ==
  ASSUME TypeOK, SessionInv, AtWork
  PROVE  /\ jobs \in [Torrents -> Job] /\ tick \in Ticks
         /\ tick.t \in Torrents /\ tick.t \notin tick.todo
         /\ Row \in Job /\ Row.serial # 0 /\ jobs[tick.t] \in Job
         /\ jobs[tick.t].state \notin Terminal
         /\ jobs[tick.t].serial \in {0, Row.serial}
         /\ HasRow(tick.t) => /\ Row.provider = jobs[tick.t].provider
                              /\ Row.url = jobs[tick.t].url
                              /\ Row.myjd = jobs[tick.t].myjd
<1>1. jobs \in [Torrents -> Job] /\ tick \in Ticks
  BY TypeOKParts
<1>2. tick.t \in Torrents /\ tick.t \notin tick.todo /\ Row.serial # 0
  BY DEF SessionInv, TickWellFormed
<1>3. Row \in Job /\ jobs[tick.t] \in Job
  BY <1>1, <1>2 DEF Row, Ticks
<1>4. Working(tick.t)
  BY DEF Working, AtWork
<1>5. jobs[tick.t].state \notin Terminal
  BY <1>2, <1>4 DEF SessionInv, OpenJobs
<1>6. RowIsCurrent(tick.t)
  BY <1>2 DEF SessionInv, SessionCurrent
<1>7. QED
  BY <1>1, <1>2, <1>3, <1>5, <1>6 DEF RowIsCurrent, Row

\* On to the next step, ...
LEMMA GotoAdvances ==
  ASSUME TypeOK, SessionInv, FallbackIsRecorded, AtWork,
         tick.pc \notin {"save_provider", "save_fallback"},
         tick' \in Ticks, UNCHANGED jobs,
         tick'.t = tick.t, tick'.rows = tick.rows, tick'.todo = tick.todo,
         tick'.pc # "idle",
         tick'.pc \in {"submit", "magnet", "save_provider"} => Row.provider = 0,
         tick'.pc = "save_provider" => tick'.new # 0,
         tick'.pc \in {"unrestrict", "links", "save_fallback"} => ~Row.myjd,
         tick'.pc \in {"lookup_seeds", "add_seeds"} => Row.url,
         tick'.pc \in {"next", "links", "save_fallback", "stop", "tag"} \/ tick'.part = 1,
         At("links") => \/ tick'.pc = "save_fallback"
                        \/ tick'.pc = "links" /\ tick'.part = tick.part + 1,
         tick'.pc = "links" /\ ~At("links") => tick'.part = 1
  PROVE  Advances /\ MyjdKept
<1>1. /\ jobs \in [Torrents -> Job] /\ tick.t \in Torrents /\ tick.t \notin tick.todo
      /\ Row.serial # 0 /\ tick.part \in Nat /\ tick'.part \in Nat
  BY WorkFacts DEF Ticks
<1>2. RowsWellFormed' /\ SessionCurrent' /\ FallbackIsRecorded'
  BY DEF SessionInv, RowsWellFormed, SessionCurrent, RowIsCurrent, HasRow, FallbackIsRecorded
<1>3. TickWellFormed'
  BY <1>1 DEF TickWellFormed, At, AtWork, Row
<1>4. OpenJobs'
  BY DEF SessionInv, OpenJobs, Working, AtWork
<1>5. \A u \in Torrents : SubmissionDue(u)' => SubmissionDue(u)
  BY DEF SubmissionDue, LacksProvider, At
<1>6. ASSUME NEW u \in Torrents, NEW i \in 1..Parts, PackageDue(u, i)' PROVE PackageDue(u, i)
  <2>1. LacksPackages(jobs[u]) \/ LacksPackages(tick.rows[u])
    BY <1>6 DEF PackageDue, LacksPackages
  <2>2. ~(tick.t = u /\ At("links") /\ i < tick.part)
    <3>1. SUFFICES ASSUME tick.t = u, At("links") PROVE ~(i < tick.part)
      OBVIOUS
    <3>2. tick'.pc = "links" /\ tick'.part = tick.part + 1
      BY <1>6, <3>1 DEF PackageDue, At
    <3>3. ~(i < tick'.part)
      BY <1>6, <3>1, <3>2 DEF PackageDue, At
    <3>4. QED
      BY <1>1, <3>2, <3>3
  <2>3. QED
    BY <2>1, <2>2 DEF PackageDue, At
<1>7. QED
  BY <1>1, <1>2, <1>3, <1>4, <1>5, <1>6 DEF Advances, MyjdKept, SessionInv

\* ... or the session and the row gone: the tick ends, ...
LEMMA TickDropped ==
  ASSUME TypeOK, SessionInv, FallbackIsRecorded, tick' = NoTick, UNCHANGED jobs
  PROVE  /\ jobs' \in [Torrents -> Job] /\ tick' \in Ticks
         /\ SessionInv' /\ FallbackIsRecorded'
         /\ \A u \in Torrents : SubmissionDue(u)' => LacksProvider(jobs[u])
         /\ \A u \in Torrents : \A i \in 1..Parts : PackageDue(u, i)' => LacksPackages(jobs[u])
<1>1. /\ NoTick.pc = "idle" /\ NoTick.todo = {} /\ NoTick.t = NoTorrent
      /\ \A u \in Torrents : NoTick.rows[u] = NoJob
  BY DEF NoTick
<1>2. NoJob.serial = 0
  BY DEF NoJob
<1>3. jobs' \in [Torrents -> Job] /\ tick' \in Ticks
  BY TypeOKParts, RestingTypes
<1>4. RowsWellFormed' /\ FallbackIsRecorded'
  BY DEF SessionInv, RowsWellFormed, HasRow, FallbackIsRecorded
<1>5. SessionCurrent'
  BY <1>1, <1>2 DEF SessionCurrent, RowIsCurrent
<1>6. TickWellFormed'
  BY <1>1 DEF TickWellFormed, At, AtWork
<1>7. OpenJobs'
  BY <1>1 DEF OpenJobs, Working
<1>8. \A u \in Torrents : SubmissionDue(u)' => LacksProvider(jobs[u])
  BY <1>1, <1>2 DEF SubmissionDue, LacksProvider
<1>9. \A u \in Torrents : \A i \in 1..Parts : PackageDue(u, i)' => LacksPackages(jobs[u])
  BY <1>1, <1>2 DEF PackageDue, LacksPackages
<1>10. QED
  BY <1>3, <1>4, <1>5, <1>6, <1>7, <1>8, <1>9 DEF SessionInv

LEMMA AbortAdvances ==
  ASSUME TypeOK, SessionInv, FallbackIsRecorded, AtWork, ~HasRow(tick.t),
         tick' = NoTick, UNCHANGED jobs
  PROVE  Advances /\ MyjdKept
<1>1. jobs[tick.t].serial = 0
  BY DEF HasRow
<1>2. \A u \in Torrents : SubmissionDue(u)' => SubmissionDue(u)
  BY <1>1, TickDropped DEF SubmissionDue, LacksProvider
<1>3. \A u \in Torrents : \A i \in 1..Parts : PackageDue(u, i)' => PackageDue(u, i)
  BY <1>1, TickDropped DEF PackageDue, LacksPackages
<1>4. QED
  BY <1>2, <1>3, TickDropped DEF Advances, MyjdKept

\* ... an exception, which counts a retry and drops the session's rows, ...
LEMMA RaisedAdvances ==
  ASSUME TypeOK, SessionInv, FallbackIsRecorded, AtWork,
         tick.pc \notin {"save_provider", "save_fallback"},
         At("links") /\ tick.part # 1 => tick.t \in unrecorded',
         Raised
  PROVE  Advances /\ MyjdKept
<1>1. CASE ~Current(tick.t, Row.serial)
  <2>1. ~HasRow(tick.t)
    BY <1>1, WorkFacts DEF Current, HasRow
  <2>2. QED
    BY <1>1, <2>1, AbortAdvances DEF Raised
<1>2. CASE Current(tick.t, Row.serial)
  <2> DEFINE new == [jobs[tick.t] EXCEPT !.state = "retry_wait", !.wait = TRUE]
  <2>1. /\ jobs \in [Torrents -> Job] /\ tick \in Ticks /\ tick.t \in Torrents
        /\ tick.t \notin tick.todo /\ jobs[tick.t] \in Job
    BY WorkFacts
  <2>2. /\ jobs' = [jobs EXCEPT ![tick.t] = new]
        /\ tick' = [tick EXCEPT !.pc = "next", !.rows = NoTick.rows]
    BY <1>2, <2>1 DEF Raised
  <2>3. /\ new \in Job /\ new.state = "retry_wait" /\ new.serial = jobs[tick.t].serial
        /\ new.provider = jobs[tick.t].provider /\ new.url = jobs[tick.t].url
        /\ new.myjd = jobs[tick.t].myjd
    BY <2>1 DEF Job, JobStates
  <2>4. /\ tick'.pc = "next" /\ tick'.t = tick.t /\ tick'.todo = tick.todo
        /\ \A u \in Torrents : tick'.rows[u] = NoJob
    BY <2>1, <2>2 DEF Ticks, NoTick
  <2> HIDE DEF new
  <2>5. jobs' \in [Torrents -> Job]
    BY <2>1, <2>2, <2>3
  <2>6. tick' \in Ticks
    <3>1. NoTick.rows \in [Torrents -> Job]
      BY RestingTypes DEF Ticks
    <3>2. QED
      BY <2>1, <2>2, <3>1 DEF Ticks, TickPcs
  <2>7. \A u \in Torrents : /\ jobs'[u].serial = jobs[u].serial
                            /\ jobs'[u].provider = jobs[u].provider
                            /\ jobs'[u].url = jobs[u].url
                            /\ jobs'[u].myjd = jobs[u].myjd
                            /\ jobs'[u].state \in {jobs[u].state, "retry_wait"}
                            /\ u # tick.t => jobs'[u] = jobs[u]
    BY <2>1, <2>2, <2>3
  <2>8. RowsWellFormed'
    <3>1. jobs[tick.t].serial # 0
      BY <1>2 DEF Current
    <3>2. QED
      BY <2>7, <3>1 DEF SessionInv, RowsWellFormed, HasRow
  <2>9. NoJob.serial = 0
    BY DEF NoJob
  <2>10. SessionCurrent'
    BY <2>4, <2>9 DEF SessionCurrent, RowIsCurrent
  <2>11. TickWellFormed'
    BY <2>1, <2>4 DEF TickWellFormed, At, AtWork
  <2>12. OpenJobs'
    BY <2>4, <2>7 DEF SessionInv, OpenJobs, Working, Terminal
  <2>13. FallbackIsRecorded'
    BY <2>7 DEF FallbackIsRecorded
  <2>14. \A u \in Torrents : SubmissionDue(u)' => SubmissionDue(u)
    BY <2>4, <2>7, <2>9 DEF SubmissionDue, LacksProvider, At
  <2>15. ASSUME NEW u \in Torrents \ unrecorded', NEW i \in 1..Parts, PackageDue(u, i)'
         PROVE  PackageDue(u, i)
    <3>1. LacksPackages(jobs[u])
      BY <2>4, <2>7, <2>9, <2>15 DEF PackageDue, LacksPackages
    <3>2. ~(tick.t = u /\ (At("save_fallback") \/ (At("links") /\ i < tick.part)))
      BY <2>15 DEF At
    <3>3. QED
      BY <3>1, <3>2 DEF PackageDue
  <2>16. QED
    BY <2>5, <2>6, <2>7, <2>8, <2>10, <2>11, <2>12, <2>13, <2>14, <2>15
    DEF Advances, MyjdKept, SessionInv
<1>3. QED
  BY <1>1, <1>2

\* ... or a commit of the row.
LEMMA SavedAdvances ==
  ASSUME TypeOK, SessionInv, FallbackIsRecorded, AtWork, ~At("links"),
         NEW row \in Job, row.serial = Row.serial,
         NEW pc \in {"next", "poll", "lookup_seeds", "stop"}, SaveAnd(row, pc),
         row.provider = 0 => Row.provider = 0 /\ ~At("save_provider"),
         Row.url => row.url,
         Row.myjd => row.myjd, At("save_fallback") => row.myjd,
         row.state \in Terminal => pc = "next" \/ row.state = Row.state,
         row.state = "fallback_progress" => row.myjd \/ row.state = Row.state,
         pc = "lookup_seeds" => row.url,
         pc \in {"poll", "lookup_seeds"} => tick.part = 1
  PROVE  /\ Advances
         /\ row.myjd = Row.myjd => MyjdKept
         /\ \A u \in Torrents : u # tick.t => jobs'[u] = jobs[u]
         /\ \/ tick'.pc = pc /\ tick'.t = tick.t
            \/ tick' = NoTick /\ jobs' = jobs /\ ~HasRow(tick.t)
<1>1. CASE ~Current(tick.t, Row.serial)
  <2>1. ~HasRow(tick.t)
    BY <1>1, WorkFacts DEF Current, HasRow
  <2>2. QED
    BY <1>1, <2>1, AbortAdvances DEF SaveAnd
<1>2. CASE Current(tick.t, Row.serial)
  <2> DEFINE loaded == [row EXCEPT !.wait = FALSE]
             new == Merged(jobs[tick.t], Row, loaded)
  <2>1. /\ jobs \in [Torrents -> Job] /\ tick \in Ticks /\ tick.t \in Torrents
        /\ tick.t \notin tick.todo /\ jobs[tick.t] \in Job /\ Row \in Job
        /\ Row.serial # 0 /\ jobs[tick.t].state \notin Terminal
    BY WorkFacts
  <2>2. /\ jobs[tick.t].serial = Row.serial /\ Row.provider = jobs[tick.t].provider
        /\ Row.url = jobs[tick.t].url /\ Row.myjd = jobs[tick.t].myjd
    BY <1>2, WorkFacts DEF Current, HasRow
  <2>3. /\ loaded \in Job /\ loaded.serial = row.serial /\ loaded.provider = row.provider
        /\ loaded.url = row.url /\ loaded.myjd = row.myjd /\ loaded.state = row.state
    <3>1. loaded \in Job
      BY JobWrites
    <3>2. QED
      BY <3>1 DEF Job
  <2>4. /\ jobs' = [jobs EXCEPT ![tick.t] = new]
        /\ tick' = [tick EXCEPT !.pc = pc, !.rows = [@ EXCEPT ![tick.t] = loaded]]
    BY <1>2, <2>1 DEF SaveAnd
  <2>5. tick'.pc = pc /\ tick'.t = tick.t /\ tick'.todo = tick.todo /\ tick'.part = tick.part
    BY <2>1, <2>4 DEF Ticks
  <2>6. /\ tick'.rows[tick.t] = loaded
        /\ \A u \in Torrents : u # tick.t => tick'.rows[u] = tick.rows[u]
    BY <2>1, <2>4 DEF Ticks
  <2> HIDE DEF loaded
  <2>7. /\ new \in Job /\ new.serial = row.serial /\ new.provider = row.provider
        /\ new.url = row.url /\ new.myjd = row.myjd
        /\ new.state = IF row.state = Row.state THEN jobs[tick.t].state ELSE row.state
    <3>1. /\ new \in Job
          /\ new.serial = Written(jobs[tick.t].serial, Row.serial, loaded.serial)
          /\ new.provider = Written(jobs[tick.t].provider, Row.provider, loaded.provider)
          /\ new.url = Written(jobs[tick.t].url, Row.url, loaded.url)
          /\ new.myjd = Written(jobs[tick.t].myjd, Row.myjd, loaded.myjd)
          /\ new.state = Written(jobs[tick.t].state, Row.state, loaded.state)
      BY <2>1, <2>3, MergedColumns
    <3> HIDE DEF new
    <3>2. QED
      BY <2>2, <2>3, <3>1 DEF Written
  <2> HIDE DEF new
  <2>8. jobs' \in [Torrents -> Job]
    BY <2>1, <2>4, <2>7
  <2>9. tick' \in Ticks
    <3>1. pc \in TickPcs
      BY DEF TickPcs
    <3>2. [tick.rows EXCEPT ![tick.t] = loaded] \in [Torrents -> Job]
      BY <2>1, <2>3 DEF Ticks
    <3>3. QED
      BY <2>1, <2>4, <3>1, <3>2 DEF Ticks
  <2>10. jobs'[tick.t] = new /\ \A u \in Torrents : u # tick.t => jobs'[u] = jobs[u]
    BY <2>1, <2>4
  <2>11. RowsWellFormed'
    <3>1. new.serial # 0
      BY <2>1, <2>7
    <3>2. QED
      BY <2>10, <3>1 DEF SessionInv, RowsWellFormed, HasRow
  <2>12. SessionCurrent'
    BY <2>3, <2>6, <2>7, <2>10 DEF SessionInv, SessionCurrent, RowIsCurrent, HasRow
  <2>13. TickWellFormed'
    <3>1. Row' = loaded
      BY <2>5, <2>6 DEF Row
    <3>2. QED
      BY <2>1, <2>3, <2>5, <3>1 DEF TickWellFormed, At, AtWork
  <2>14. OpenJobs'
    <3>1. pc # "next" => new.state \notin Terminal
      BY <2>1, <2>7
    <3>2. QED
      BY <2>1, <2>5, <2>10, <3>1 DEF SessionInv, OpenJobs, Working
  <2>15. FallbackIsRecorded'
    BY <2>1, <2>2, <2>7, <2>10 DEF FallbackIsRecorded
  <2>16. \A u \in Torrents : SubmissionDue(u)' => SubmissionDue(u)
    <3>1. ASSUME NEW u \in Torrents, SubmissionDue(u)' PROVE SubmissionDue(u)
      <4>1. CASE u # tick.t
        BY <2>6, <2>10, <3>1, <4>1 DEF SubmissionDue, LacksProvider
      <4>2. CASE u = tick.t
        <5>1. row.provider = 0
          BY <2>3, <2>6, <2>7, <2>10, <3>1, <4>2 DEF SubmissionDue, LacksProvider
        <5>2. QED
          BY <2>1, <4>2, <5>1 DEF SubmissionDue, LacksProvider, Row
      <4>3. QED
        BY <4>1, <4>2
    <3>2. QED
      BY <3>1
  <2>17. \A u \in Torrents : \A i \in 1..Parts : PackageDue(u, i)' => PackageDue(u, i)
    <3>1. ASSUME NEW u \in Torrents, NEW i \in 1..Parts, PackageDue(u, i)'
          PROVE  PackageDue(u, i)
      <4>1. CASE u # tick.t
        BY <2>6, <2>10, <3>1, <4>1 DEF PackageDue, LacksPackages
      <4>2. CASE u = tick.t
        <5>1. ~row.myjd
          BY <2>3, <2>6, <2>7, <2>10, <3>1, <4>2 DEF PackageDue, LacksPackages
        <5>2. QED
          BY <2>1, <4>2, <5>1 DEF PackageDue, LacksPackages, Row
      <4>3. QED
        BY <4>1, <4>2
    <3>2. QED
      BY <3>1
  <2>18. \A u \in Torrents : jobs'[u].serial = jobs[u].serial /\ (jobs[u].url => jobs'[u].url)
    BY <2>2, <2>7, <2>10
  <2>19. row.myjd = Row.myjd => MyjdKept
    BY <2>2, <2>7, <2>10 DEF MyjdKept
  <2>20. QED
    BY <2>5, <2>8, <2>9, <2>10, <2>11, <2>12, <2>13, <2>14, <2>15, <2>16, <2>17, <2>18, <2>19
    DEF Advances, SessionInv
<1>3. QED
  BY <1>1, <1>2

-----------------------------------------------------------------------------
(* What the remote services hold.                                            *)

LEMMA WebseedsKept ==
  ASSUME WebseedsOwned, CleanupHasRow,
         \A u \in Torrents : jobs'[u].serial = jobs[u].serial /\ (jobs[u].url => jobs'[u].url),
         \A u \in Torrents : qb'[u].seeds = qb[u].seeds,
         UNCHANGED <<cleanup, raced>>
  PROVE  WebseedsOwned' /\ CleanupHasRow'
<1>1. WebseedsOwned'
  BY DEF WebseedsOwned
<1>2. CleanupHasRow'
  BY DEF CleanupHasRow, Current
<1>3. QED
  BY <1>1, <1>2

LEMMA CountsKept ==
  ASSUME SubmissionsCounted, PackagesCounted,
         \A p \in 1..MaxSubmissions : rd'[p].t = rd[p].t,
         UNCHANGED <<born, packages>>, unrecorded \subseteq unrecorded',
         \A u \in Torrents \ unrecorded' : SubmissionDue(u)' => SubmissionDue(u),
         \A u \in Torrents \ unrecorded' : \A i \in 1..Parts :
           PackageDue(u, i)' => PackageDue(u, i)
  PROVE  SubmissionsCounted' /\ PackagesCounted'
<1>1. \A u \in Torrents : Submissions(u)' = Submissions(u)
  BY DEF Submissions
<1>2. SubmissionsCounted'
  BY <1>1 DEF SubmissionsCounted
<1>3. PackagesCounted'
  BY DEF PackagesCounted
<1>4. QED
  BY <1>2, <1>3

\* A step of the tick that hands nothing over.
LEMMA TickStep ==
  ASSUME IInv, Advances, tick.pc \notin {"stop", "tag"}, MyjdKept,
         rd' \in [1..MaxSubmissions -> [t : Torrents \cup {NoTorrent}, status : ProviderStates]],
         \A p \in 1..MaxSubmissions : rd'[p].t = rd[p].t,
         UNCHANGED <<born, overdue, qb, packages, cleanup, history, actions>>,
         faults' \in Nat, faults' = 0 => faults = 0
  PROVE  IInv'
<1>1. TypeOK'
  BY TypeOKParts, TypesAfter DEF IInv, Advances, history
<1>2. WebseedsOwned' /\ CleanupHasRow'
  BY WebseedsKept DEF IInv, RemoteInv, Advances, history
<1>3. SubmissionsCounted' /\ PackagesCounted'
  BY CountsKept DEF IInv, RemoteInv, Advances, history
<1>4. HandedOver'
  BY DEF IInv, RemoteInv, HandedOver, MyjdKept, At
<1>5. QED
  BY <1>1, <1>2, <1>3, <1>4 DEF IInv, RemoteInv, Advances

LEMMA FaultCounts ==
  ASSUME TypeOK, NEW reply \in Replies \cup {"invalid"}, Fault(reply)
  PROVE  /\ faults' \in Nat
         /\ faults' = 0 => faults = 0 /\ Answered(reply)
         /\ Answered(reply) => faults' = faults
BY TypeOKParts DEF Fault, Answered

-----------------------------------------------------------------------------
(* The steps of the tick, one lemma each.                                    *)

LEMMA ReadFilesStep ==
  ASSUME IInv, NEW reply \in Replies, ReadFiles(reply)
  PROVE  IInv'
<1>1. /\ TypeOK /\ SessionInv /\ FallbackIsRecorded
      /\ tick.pc = "files" /\ AtWork
      /\ UNCHANGED <<born, overdue, remotes, cleanup, history, actions>> /\ Fault(reply)
  BY DEF IInv, RemoteInv, ReadFiles, At, AtWork
<1>2. Advances /\ MyjdKept
  <2>1. CASE ~Answered(reply)
    <3>1. Raised
      BY <2>1 DEF ReadFiles
    <3>2. QED
      BY <1>1, <3>1, RaisedAdvances DEF At
  <2>2. CASE Answered(reply)
    <3> DEFINE pc == IF NeedsProvider(Row) THEN "submit" ELSE "poll"
    <3>1. /\ tick' = [tick EXCEPT !.metadata = qb[tick.t].metadata, !.pc = pc]
          /\ UNCHANGED jobs
      BY <2>2 DEF ReadFiles
    <3>2. tick \in Ticks /\ qb[tick.t].metadata \in BOOLEAN
      BY <1>1, WorkFacts, TypeOKParts DEF Torrent
    <3>3. pc \in {"submit", "poll"} /\ (pc = "submit" => Row.provider = 0)
      BY DEF NeedsProvider
    <3> HIDE DEF pc
    <3>4. /\ tick' \in Ticks /\ tick'.pc = pc /\ tick'.t = tick.t /\ tick'.rows = tick.rows
          /\ tick'.todo = tick.todo /\ tick'.part = tick.part
      BY <3>1, <3>2, <3>3 DEF Ticks, TickPcs
    <3>5. tick.part = 1 /\ pc \in TickPcs
      BY <1>1, <3>3 DEF SessionInv, TickWellFormed, At, TickPcs
    <3>6. QED
      BY <1>1, <3>1, <3>3, <3>4, <3>5, GotoAdvances DEF At
  <2>3. QED
    BY <2>1, <2>2
<1>3. QED
  BY <1>1, <1>2, FaultCounts, TypeOKParts, TickStep DEF remotes

\* Going on after a call.
LEMMA CallAdvances ==
  ASSUME TypeOK, SessionInv, FallbackIsRecorded, AtWork,
         tick.pc \notin {"save_provider", "links", "save_fallback"},
         NEW reply \in Replies,
         NEW pc \in {"next", "magnet", "select", "save_selection", "lookup_seeds", "add_seeds",
                     "save_attached", "unrestrict", "links", "tag"},
         pc = "magnet" => Row.provider = 0,
         pc \in {"unrestrict", "links"} => ~Row.myjd,
         pc \in {"lookup_seeds", "add_seeds"} => Row.url,
         pc \notin {"next", "tag"} => tick.part = 1,
         \/ CallAnd(reply, pc)
         \/ Goto(pc) /\ UNCHANGED jobs
  PROVE  Advances /\ MyjdKept
<1>1. CASE Raised
  BY <1>1, RaisedAdvances DEF At
<1>2. CASE Goto(pc) /\ UNCHANGED jobs
  <2>1. tick \in Ticks /\ pc \in TickPcs
    BY WorkFacts DEF TickPcs
  <2>2. /\ tick' \in Ticks /\ tick'.pc = pc /\ tick'.t = tick.t /\ tick'.rows = tick.rows
        /\ tick'.todo = tick.todo /\ tick'.part = tick.part
    BY <1>2, <2>1 DEF Ticks, Goto
  <2>3. QED
    BY <1>2, <2>1, <2>2, GotoAdvances DEF At
<1>3. QED
  BY <1>1, <1>2 DEF CallAnd

\* A commit that changes the state only.
LEMMA SaveStateAdvances ==
  ASSUME TypeOK, SessionInv, FallbackIsRecorded, AtWork,
         tick.pc \notin {"save_provider", "links", "save_fallback"},
         NEW state \in JobStates, state = "fallback_progress" => Row.myjd, SaveState(state)
  PROVE  Advances /\ MyjdKept
<1> DEFINE row == [Row EXCEPT !.state = state]
<1>1. Row \in Job
  BY WorkFacts
<1>2. /\ row \in Job /\ row.serial = Row.serial /\ row.provider = Row.provider
      /\ row.url = Row.url /\ row.myjd = Row.myjd /\ row.state = state
  <2>1. row \in Job
    BY <1>1, JobWrites
  <2>2. QED
    BY <1>1, <2>1 DEF Job
<1>3. SaveAnd(row, "next")
  BY DEF SaveState
<1> HIDE DEF row
<1>4. QED
  BY <1>2, <1>3, SavedAdvances DEF At

LEMMA PollStep ==
  ASSUME IInv, NEW reply \in Replies, Poll(reply)
  PROVE  IInv'
<1>1. /\ TypeOK /\ SessionInv /\ FallbackIsRecorded
      /\ tick.pc = "poll" /\ AtWork
      /\ UNCHANGED <<born, overdue, remotes, cleanup, history, actions>> /\ Fault(reply)
  BY DEF IInv, RemoteInv, Poll, At, AtWork
<1>2. tick.part = 1 /\ Row \in Job
  BY <1>1, WorkFacts DEF SessionInv, TickWellFormed, At
<1>3. Advances /\ MyjdKept
  <2>1. CASE Raised
    BY <1>1, <2>1, RaisedAdvances DEF At
  <2>2. CASE Goto("select") /\ UNCHANGED jobs
    BY <1>1, <1>2, <2>2, CallAdvances
  <2>3. CASE AttachRecords
    <3> DEFINE row == [Row EXCEPT !.selected = TRUE, !.url = TRUE]
    <3>1. row \in Job
      BY <1>2, JobWrites
    <3>2. /\ row.serial = Row.serial /\ row.provider = Row.provider
          /\ row.url /\ row.myjd = Row.myjd /\ row.state = Row.state
      BY <1>2, <3>1 DEF Job
    <3>3. SaveAnd(row, "lookup_seeds")
      BY <2>3 DEF AttachRecords
    <3> HIDE DEF row
    <3>4. QED
      BY <1>1, <1>2, <3>1, <3>2, <3>3, SavedAdvances DEF At
  <2>4. ASSUME NEW state \in JobStates, state = "fallback_progress" => Row.myjd,
               SaveState(state)
        PROVE  Advances /\ MyjdKept
    BY <1>1, <2>4, SaveStateAdvances
  <2>5. CASE FallbackStarts
    <3>1. CASE Goto("unrestrict") /\ UNCHANGED jobs /\ ~Row.myjd
      BY <1>1, <1>2, <3>1, CallAdvances
    <3>2. QED
      BY <2>4, <2>5, <3>1 DEF FallbackStarts, JobStates
  <2>6. QED
    BY <2>1, <2>2, <2>3, <2>4, <2>5 DEF Poll, JobStates, Terminal
<1>4. QED
  BY <1>1, <1>3, FaultCounts, TypeOKParts, TickStep DEF remotes

LEMMA SelectFilesStep ==
  ASSUME IInv, NEW reply \in Replies, SelectFiles(reply)
  PROVE  IInv'
<1>1. /\ TypeOK /\ SessionInv /\ FallbackIsRecorded
      /\ tick.pc = "select" /\ AtWork
      /\ UNCHANGED <<born, overdue, qb, packages, cleanup, history, actions>>
      /\ CallAnd(reply, "save_selection")
  BY DEF IInv, RemoteInv, SelectFiles, At, AtWork
<1>2. tick.part = 1
  BY <1>1 DEF SessionInv, TickWellFormed
<1>3. Advances /\ MyjdKept
  BY <1>1, <1>2, CallAdvances
<1>4. /\ rd' \in [1..MaxSubmissions -> [t : Torrents \cup {NoTorrent}, status : ProviderStates]]
      /\ \A p \in 1..MaxSubmissions : rd'[p].t = rd[p].t
  BY <1>1, TypeOKParts DEF SelectFiles, ProviderStates
<1>5. QED
  BY <1>1, <1>3, <1>4, FaultCounts, TickStep DEF CallAnd

LEMMA WebseedCallStep ==
  ASSUME IInv, NEW reply \in Replies, LookUpWebseeds(reply)
  PROVE  IInv'
<1>1. /\ TypeOK /\ SessionInv /\ FallbackIsRecorded
      /\ tick.pc = "lookup_seeds" /\ AtWork
      /\ UNCHANGED <<born, overdue, remotes, cleanup, history, actions>>
  BY DEF IInv, RemoteInv, LookUpWebseeds, At, AtWork
<1>2. tick.part = 1 /\ Row.url
  BY <1>1 DEF SessionInv, TickWellFormed, At
<1>3. PICK pc \in {"save_attached", "add_seeds"} : CallAnd(reply, pc)
  BY DEF LookUpWebseeds
<1>4. Advances /\ MyjdKept
  BY <1>1, <1>2, <1>3, CallAdvances
<1>5. QED
  BY <1>1, <1>3, <1>4, FaultCounts, TypeOKParts, TickStep DEF CallAnd, remotes

LEMMA UnrestrictStep ==
  ASSUME IInv, NEW reply \in Replies, NEW usable \in BOOLEAN, Unrestrict(reply, usable)
  PROVE  IInv'
<1>1. /\ TypeOK /\ SessionInv /\ FallbackIsRecorded
      /\ tick.pc = "unrestrict" /\ AtWork
      /\ UNCHANGED <<born, overdue, remotes, cleanup, history, actions>> /\ Fault(reply)
  BY DEF IInv, RemoteInv, Unrestrict, At, AtWork
<1>2. tick.part = 1 /\ ~Row.myjd
  BY <1>1 DEF SessionInv, TickWellFormed
<1>3. Advances /\ MyjdKept
  <2>1. CASE Raised
    BY <1>1, <2>1, RaisedAdvances DEF At
  <2>2. CASE Goto("links") /\ UNCHANGED jobs
    BY <1>1, <1>2, <2>2, CallAdvances
  <2>3. CASE SaveState("metadata_unavailable")
    BY <1>1, <2>3, SaveStateAdvances DEF JobStates
  <2>4. QED
    BY <2>1, <2>2, <2>3 DEF Unrestrict
<1>4. QED
  BY <1>1, <1>3, FaultCounts, TypeOKParts, TickStep DEF remotes

\* The commits of the tick but for the last one of a fallback.
LEMMA SaveStep ==
  ASSUME IInv, SaveProvider \/ SaveSelection \/ SaveAttached
  PROVE  IInv'
<1>1. /\ TypeOK /\ SessionInv /\ FallbackIsRecorded
      /\ tick.pc \in {"save_provider", "save_selection", "save_attached"} /\ AtWork
      /\ UNCHANGED <<born, overdue, remotes, cleanup, history, actions, faults>>
  BY DEF IInv, RemoteInv, SaveProvider, SaveSelection, SaveAttached, At, AtWork
<1>2. Row \in Job /\ tick.part = 1 /\ tick.new \in Nat
  BY <1>1, WorkFacts DEF SessionInv, TickWellFormed, Ticks
<1>3. Advances /\ MyjdKept
  <2>1. CASE SaveProvider
    <3> DEFINE row == [Row EXCEPT !.provider = tick.new, !.state = "provider_submitted"]
    <3>1. row \in Job
      BY <1>2, JobWrites DEF JobStates
    <3>2. /\ row.serial = Row.serial /\ row.provider = tick.new /\ row.url = Row.url
          /\ row.myjd = Row.myjd /\ row.state = "provider_submitted"
      BY <1>2 DEF Job
    <3>3. SaveAnd(row, "poll") /\ tick.pc = "save_provider"
      BY <2>1 DEF SaveProvider, At
    <3>4. tick.new # 0
      BY <1>1, <3>3 DEF SessionInv, TickWellFormed, At
    <3> HIDE DEF row
    <3>5. QED
      BY <1>1, <1>2, <3>1, <3>2, <3>3, <3>4, SavedAdvances DEF At, Terminal
  <2>2. CASE SaveSelection
    <3> DEFINE row == [Row EXCEPT !.selected = TRUE, !.state = "provider_downloading"]
    <3>1. row \in Job
      BY <1>2, JobWrites DEF JobStates
    <3>2. /\ row.serial = Row.serial /\ row.provider = Row.provider /\ row.url = Row.url
          /\ row.myjd = Row.myjd /\ row.state = "provider_downloading"
      BY <1>2 DEF Job
    <3>3. SaveAnd(row, "next") /\ tick.pc = "save_selection"
      BY <2>2 DEF SaveSelection, At
    <3> HIDE DEF row
    <3>4. QED
      BY <1>1, <3>1, <3>2, <3>3, SavedAdvances DEF At, Terminal
  <2>3. CASE SaveAttached
    BY <1>1, <2>3, SaveStateAdvances DEF SaveAttached, At, JobStates
  <2>4. QED
    BY <2>1, <2>2, <2>3
<1>4. QED
  BY <1>1, <1>3, TypeOKParts, TickStep DEF remotes

\* One more torrent at Real-Debrid is one more of its job, and of no other.
LEMMA SubmissionAdded ==
  ASSUME TypeOK, NEW id \in 1..MaxSubmissions, NEW sub, rd' = [rd EXCEPT ![id] = sub]
  PROVE  \A u \in Torrents :
           /\ Cardinality(Submissions(u)) \in Nat
           /\ Cardinality(Submissions(u)') \in Nat
           /\ Cardinality(Submissions(u)') <= Cardinality(Submissions(u)) + 1
           /\ u # sub.t => Cardinality(Submissions(u)') <= Cardinality(Submissions(u))
<1>1. \A p \in 1..MaxSubmissions : rd'[p] = IF p = id THEN sub ELSE rd[p]
  BY TypeOKParts
<1>2. SUFFICES ASSUME NEW u \in Torrents
      PROVE  /\ Cardinality(Submissions(u)) \in Nat
             /\ Cardinality(Submissions(u)') \in Nat
             /\ Cardinality(Submissions(u)') <= Cardinality(Submissions(u)) + 1
             /\ u # sub.t => Cardinality(Submissions(u)') <= Cardinality(Submissions(u))
  OBVIOUS
<1> DEFINE before == Submissions(u)
           after == {p \in 1..MaxSubmissions : rd'[p].t = u}
<1>3. Submissions(u)' = after
  BY DEF Submissions
<1>4. before \subseteq 1..MaxSubmissions /\ after \subseteq before \cup {id}
      /\ (u # sub.t => after \subseteq before)
  BY <1>1 DEF Submissions
<1>5. IsFiniteSet(1..MaxSubmissions)
  BY FS_Interval, AccelerationAssumption DEF AccelerationAssumption
<1> HIDE DEF before, after
<1>6. IsFiniteSet(before)
  BY <1>4, <1>5, FS_Subset
<1>7. IsFiniteSet(before \cup {id}) /\ Cardinality(before \cup {id}) <= Cardinality(before) + 1
      /\ Cardinality(before) \in Nat
  <2>1. /\ IsFiniteSet(before \cup {id}) /\ Cardinality(before) \in Nat
        /\ Cardinality(before \cup {id}) =
             IF id \in before THEN Cardinality(before) ELSE Cardinality(before) + 1
    BY <1>6, FS_AddElement, FS_CardinalityType
  <2>2. QED
    BY <2>1
<1>8. IsFiniteSet(after) /\ Cardinality(after) <= Cardinality(before \cup {id})
      /\ Cardinality(after) \in Nat /\ Cardinality(before \cup {id}) \in Nat
  BY <1>4, <1>7, FS_Subset, FS_CardinalityType
<1>9. u # sub.t => Cardinality(after) <= Cardinality(before)
  BY <1>4, <1>6, FS_Subset
<1>10. QED
  BY <1>3, <1>7, <1>8, <1>9 DEF before

LEMMA SubmittedStep ==
  ASSUME IInv, tick.pc \in {"submit", "magnet"},
         NEW reply \in Replies, Submitted(reply),
         UNCHANGED <<born, overdue, qb, packages, cleanup, raced, actions>>
  PROVE  IInv'
<1>1. TypeOK /\ SessionInv /\ FallbackIsRecorded /\ AtWork
  BY DEF IInv, RemoteInv, AtWork
<1>2. /\ tick \in Ticks /\ tick.t \in Torrents /\ Row.serial # 0 /\ Row.provider = 0
  BY <1>1, WorkFacts DEF SessionInv, TickWellFormed
<1>3. Fault(reply) /\ faults' \in Nat /\ (faults' = 0 => faults = 0 /\ Answered(reply))
  BY <1>1, FaultCounts DEF Submitted
<1>4. CASE ~TakesEffect(reply)
  <2>1. Raised /\ UNCHANGED rd /\ unrecorded' = unrecorded
    BY <1>4 DEF Submitted, TakesEffect, Answered
  <2>2. Advances /\ MyjdKept
    BY <1>1, <2>1, RaisedAdvances DEF At
  <2>3. QED
    BY <1>1, <1>3, <2>1, <2>2, TypeOKParts, TickStep DEF history
<1>5. CASE TakesEffect(reply)
  <2> DEFINE free == {p \in DOMAIN rd : rd[p].status = "unused"}
             id == CHOOSE p \in free : \A q \in free : p <= q
             sub == [t |-> tick.t, status |-> "converting"]
  <2>1. DOMAIN rd = 1..MaxSubmissions /\ MaxSubmissions \in Nat
    BY <1>1, TypeOKParts, AccelerationAssumption DEF AccelerationAssumption
  <2>2. id \in free
    <3>1. free # {} /\ free \subseteq Nat
      BY <1>5, <2>1 DEF Submitted
    <3> HIDE DEF free
    <3>2. \E p \in free : \A q \in free : p <= q
      BY <3>1, LeastExists
    <3>3. QED
      BY <3>2
  <2>3. id \in 1..MaxSubmissions /\ id \in Nat /\ id # 0
    <3> HIDE DEF id
    <3>1. id \in DOMAIN rd
      BY <2>2
    <3>2. QED
      BY <2>1, <3>1
  <2>4. /\ rd' = [rd EXCEPT ![id] = sub]
        /\ unrecorded' = IF reply = "lost" THEN unrecorded \cup {tick.t} ELSE unrecorded
        /\ IF Answered(reply)
           THEN tick' = [tick EXCEPT !.pc = "save_provider", !.new = id] /\ UNCHANGED jobs
           ELSE Raised
    BY <1>5 DEF Submitted
  <2>5. sub \in [t : Torrents \cup {NoTorrent}, status : ProviderStates] /\ sub.t = tick.t
    BY <1>2 DEF ProviderStates
  <2> HIDE DEF id, sub
  <2>6. Advances /\ MyjdKept
    <3>1. CASE ~Answered(reply)
      BY <1>1, <2>4, <3>1, RaisedAdvances DEF At
    <3>2. CASE Answered(reply)
      <4>1. tick.part = 1
        BY <1>1 DEF SessionInv, TickWellFormed
      <4>2. /\ tick' \in Ticks /\ tick'.pc = "save_provider" /\ tick'.new = id
            /\ tick'.t = tick.t /\ tick'.rows = tick.rows /\ tick'.todo = tick.todo
            /\ tick'.part = tick.part
        <5>1. tick' = [tick EXCEPT !.pc = "save_provider", !.new = id] /\ id \in Nat
          BY <2>3, <2>4, <3>2
        <5>2. "save_provider" \in TickPcs
          BY DEF TickPcs
        <5>3. tick' \in Ticks
          BY <1>2, <5>1, <5>2 DEF Ticks
        <5>4. QED
          BY <1>2, <5>1, <5>3 DEF Ticks
      <4>3. QED
        BY <1>1, <1>2, <2>3, <2>4, <3>2, <4>1, <4>2, GotoAdvances DEF At
    <3>3. QED
      BY <3>1, <3>2
  <2>7. TypeOK'
    <3>1. rd' \in [1..MaxSubmissions -> [t : Torrents \cup {NoTorrent}, status : ProviderStates]]
      BY <1>1, <2>4, <2>5, TypeOKParts
    <3>2. unrecorded' \in SUBSET Torrents /\ unrecorded \subseteq unrecorded'
      BY <1>1, <1>2, <2>4, TypeOKParts
    <3>3. QED
      BY <1>1, <1>3, <2>6, <3>1, <3>2, TypeOKParts, TypesAfter DEF Advances
  <2>8. WebseedsOwned' /\ CleanupHasRow'
    BY <2>6, WebseedsKept DEF IInv, RemoteInv, Advances
  <2>9. SubmissionsCounted'
    <3>1. SUFFICES ASSUME NEW u \in Torrents \ unrecorded'
          PROVE  /\ Cardinality(Submissions(u)') <= born[u]
                 /\ SubmissionDue(u)' => Cardinality(Submissions(u)') < born[u]
      BY DEF SubmissionsCounted
    <3>2. /\ Cardinality(Submissions(u)) \in Nat /\ Cardinality(Submissions(u)') \in Nat
          /\ Cardinality(Submissions(u)') <= Cardinality(Submissions(u)) + 1
          /\ u # tick.t => Cardinality(Submissions(u)') <= Cardinality(Submissions(u))
          /\ born[u] \in Nat
      BY <1>1, <2>3, <2>4, <2>5, SubmissionAdded, TypeOKParts
    <3>3. /\ u \notin unrecorded
          /\ Cardinality(Submissions(u)) <= born[u]
          /\ SubmissionDue(u) => Cardinality(Submissions(u)) < born[u]
      BY <2>4 DEF IInv, RemoteInv, SubmissionsCounted
    <3>4. CASE u # tick.t
      <4>1. SubmissionDue(u)' => SubmissionDue(u)
        BY <2>6 DEF Advances
      <4>2. QED
        BY <3>2, <3>3, <3>4, <4>1
    <3>5. CASE u = tick.t
      <4>1. SubmissionDue(u)
        BY <1>2, <3>5 DEF SubmissionDue, LacksProvider, Row, At
      <4>2. ~SubmissionDue(u)'
        <5>1. Answered(reply)
          BY <1>5, <2>4, <3>5 DEF TakesEffect, Answered
        <5>2. tick'.pc = "save_provider" /\ tick'.t = tick.t
          BY <1>2, <2>4, <5>1 DEF Ticks
        <5>3. QED
          BY <3>5, <5>2 DEF SubmissionDue, At
      <4>3. QED
        BY <3>2, <3>3, <4>1, <4>2
    <3>6. QED
      BY <3>4, <3>5
  <2>10. PackagesCounted'
    BY <2>4, <2>6 DEF IInv, RemoteInv, PackagesCounted, Advances
  <2>11. HandedOver'
    BY <1>3, <2>6 DEF IInv, RemoteInv, HandedOver, MyjdKept, At
  <2>12. QED
    BY <2>6, <2>7, <2>8, <2>9, <2>10, <2>11 DEF IInv, RemoteInv, Advances
<1>6. QED
  BY <1>4, <1>5

LEMMA AddTorrentStep ==
  ASSUME IInv, NEW reply \in Replies \cup {"invalid"},
         AddTorrent(reply) \/ (reply # "invalid" /\ AddMagnet(reply))
  PROVE  IInv'
<1>1. CASE reply # "invalid"
  BY <1>1, SubmittedStep DEF AddTorrent, AddMagnet, At
<1>2. CASE reply = "invalid"
  <2>1. /\ TypeOK /\ SessionInv /\ FallbackIsRecorded /\ tick.pc = "submit" /\ AtWork
        /\ Goto("magnet") /\ UNCHANGED <<jobs, rd, unrecorded, faults>>
        /\ UNCHANGED <<born, overdue, qb, packages, cleanup, raced, actions>>
    BY <1>2 DEF IInv, RemoteInv, AddTorrent, At, AtWork
  <2>2. Row.provider = 0 /\ tick.part = 1
    BY <2>1 DEF SessionInv, TickWellFormed
  <2>3. Advances /\ MyjdKept
    <3>1. "answered" \in Replies
      BY DEF Replies
    <3>2. QED
      BY <2>1, <2>2, <3>1, CallAdvances
  <2>4. QED
    BY <2>1, <2>3, TypeOKParts, TickStep DEF history
<1>3. QED
  BY <1>1, <1>2

LEMMA AddWebseedsStep ==
  ASSUME IInv, NEW reply \in Replies, AddWebseeds(reply)
  PROVE  IInv'
<1>1. /\ TypeOK /\ SessionInv /\ FallbackIsRecorded /\ tick.pc = "add_seeds" /\ AtWork
      /\ CallAnd(reply, "save_attached")
      /\ UNCHANGED <<born, overdue, rd, packages, cleanup, unrecorded, actions>>
  BY DEF IInv, RemoteInv, AddWebseeds, At, AtWork
<1>2. /\ Row.url /\ tick.part = 1 /\ tick.t \in Torrents /\ Row.serial \in Nat
      /\ HasRow(tick.t) => Row.url = jobs[tick.t].url
  BY <1>1, WorkFacts DEF SessionInv, TickWellFormed, At, Job
<1>3. Advances /\ MyjdKept
  BY <1>1, <1>2, CallAdvances
<1>4. /\ faults' \in Nat /\ (faults' = 0 => faults = 0)
  BY <1>1, FaultCounts DEF CallAnd
<1>5. /\ qb' \in [Torrents -> Torrent]
      /\ \A u \in Torrents : /\ qb'[u].stopped = qb[u].stopped /\ qb'[u].tagged = qb[u].tagged
                             /\ u # tick.t => qb'[u] = qb[u]
      /\ qb'[tick.t].seeds \subseteq qb[tick.t].seeds \cup {Row.serial}
      /\ \/ UNCHANGED <<qb, raced>>
         \/ raced' = raced \cup {t \in {tick.t} : cleanup.t = t \/ ~Current(t, Row.serial)}
  <2>1. CASE ~TakesEffect(reply)
    BY <1>1, <2>1, TypeOKParts DEF AddWebseeds
  <2>2. CASE TakesEffect(reply)
    <3> DEFINE new == [qb[tick.t] EXCEPT !.seeds = @ \cup {Row.serial}]
    <3>1. qb \in [Torrents -> Torrent] /\ qb[tick.t] \in Torrent
      BY <1>1, <1>2, TypeOKParts
    <3>2. /\ new \in Torrent /\ new.stopped = qb[tick.t].stopped
          /\ new.tagged = qb[tick.t].tagged
          /\ new.seeds = qb[tick.t].seeds \cup {Row.serial}
      BY <1>2, <3>1 DEF Torrent
    <3>3. qb' = [qb EXCEPT ![tick.t] = new]
      BY <2>2, <3>1 DEF AddWebseeds
    <3> HIDE DEF new
    <3>4. QED
      BY <1>2, <2>2, <3>1, <3>2, <3>3 DEF AddWebseeds
  <2>3. QED
    BY <2>1, <2>2
<1>6. raced \subseteq raced' /\ raced' \in SUBSET Torrents
  BY <1>1, <1>2, <1>5, TypeOKParts
<1>7. TypeOK'
  BY <1>1, <1>3, <1>4, <1>5, <1>6, TypeOKParts, TypesAfter DEF Advances
<1>8. \A u \in Torrents : jobs'[u].serial = jobs[u].serial /\ (jobs[u].url => jobs'[u].url)
  BY <1>3 DEF Advances
<1>9. ASSUME NEW u \in Torrents \ raced'
      PROVE  qb'[u].seeds \subseteq (IF jobs'[u].url THEN {jobs'[u].serial} ELSE {})
  <2>1. qb[u].seeds \subseteq (IF jobs[u].url THEN {jobs[u].serial} ELSE {})
    BY <1>6 DEF IInv, RemoteInv, WebseedsOwned
  <2>2. CASE qb'[u].seeds = qb[u].seeds
    BY <1>8, <2>1, <2>2
  <2>3. CASE u = tick.t /\ ~UNCHANGED <<qb, raced>>
    <3>1. Current(u, Row.serial)
      BY <1>5, <1>9, <2>3
    <3>2. jobs[u].serial = Row.serial /\ jobs[u].url
      BY <1>2, <2>3, <3>1 DEF Current, HasRow
    <3>3. QED
      BY <1>5, <1>8, <2>1, <2>3, <3>2
  <2>4. QED
    BY <1>5, <2>2, <2>3
<1>10. CleanupHasRow'
  <2>1. SUFFICES ASSUME cleanup # NoCleanup
        PROVE  /\ cleanup.t \in Torrents /\ jobs'[cleanup.t].serial = jobs[cleanup.t].serial
               /\ ~cleanup.pending /\ cleanup.t \notin raced' => qb'[cleanup.t].seeds = {}
    BY <1>1 DEF IInv, RemoteInv, CleanupHasRow, Current
  <2>2. /\ cleanup.t \in Torrents
        /\ ~cleanup.pending /\ cleanup.t \notin raced => qb[cleanup.t].seeds = {}
    BY <2>1 DEF IInv, RemoteInv, CleanupHasRow
  <2>3. cleanup.t \notin raced' => qb'[cleanup.t].seeds = qb[cleanup.t].seeds
    BY <1>5, <2>2
  <2>4. QED
    BY <1>6, <1>8, <2>2, <2>3
<1>11. SubmissionsCounted' /\ PackagesCounted'
  BY <1>1, <1>3, CountsKept DEF IInv, RemoteInv, Advances
<1>12. HandedOver'
  BY <1>1, <1>3, <1>4, <1>5 DEF IInv, RemoteInv, HandedOver, MyjdKept, At
<1>13. QED
  BY <1>3, <1>7, <1>9, <1>10, <1>11, <1>12 DEF IInv, RemoteInv, Advances, WebseedsOwned

LEMMA AddLinksStep ==
  ASSUME IInv, NEW reply \in Replies, AddLinks(reply)
  PROVE  IInv'
<1>1. /\ TypeOK /\ SessionInv /\ FallbackIsRecorded /\ tick.pc = "links" /\ AtWork
      /\ Fault(reply) /\ UNCHANGED <<born, overdue, qb, rd, cleanup, raced, actions>>
  BY DEF IInv, RemoteInv, AddLinks, At, AtWork
<1>2. /\ tick \in Ticks /\ tick.t \in Torrents /\ tick.part \in 1..Parts
      /\ ~Row.myjd /\ Row.serial # 0 /\ Parts \in Nat
  BY <1>1, WorkFacts, AccelerationAssumption
  DEF SessionInv, TickWellFormed, Ticks, AccelerationAssumption
<1>3. /\ faults' \in Nat /\ (faults' = 0 => faults = 0)
  BY <1>1, FaultCounts
<1>4. /\ unrecorded' \in SUBSET Torrents /\ unrecorded \subseteq unrecorded'
      /\ ~Answered(reply) /\ (tick.part # 1 \/ reply = "lost") => tick.t \in unrecorded'
  <2>1. tick.part # 1 => tick.part > 1
    BY <1>2
  <2>2. QED
    BY <1>1, <1>2, <2>1, TypeOKParts DEF AddLinks
<1>5. Advances /\ MyjdKept
  <2>1. CASE ~Answered(reply)
    BY <1>1, <1>4, <2>1, RaisedAdvances DEF AddLinks
  <2>2. CASE Answered(reply)
    <3>1. /\ tick' = IF HasNextGroup(tick.part) THEN [tick EXCEPT !.part = @ + 1]
                     ELSE [tick EXCEPT !.pc = "save_fallback"]
          /\ UNCHANGED jobs
      BY <2>2 DEF AddLinks
    <3>2. /\ tick' \in Ticks /\ tick'.t = tick.t /\ tick'.rows = tick.rows
          /\ tick'.todo = tick.todo
          /\ \/ tick'.pc = "save_fallback"
             \/ tick'.pc = "links" /\ tick'.part = tick.part + 1
      <4>1. CASE HasNextGroup(tick.part)
        <5>1. tick.part + 1 \in 1..Parts
          BY <1>2, <4>1 DEF HasNextGroup
        <5>2. QED
          BY <1>1, <1>2, <3>1, <4>1, <5>1 DEF Ticks
      <4>2. CASE ~HasNextGroup(tick.part)
        BY <1>2, <3>1, <4>2 DEF Ticks, TickPcs
      <4>3. QED
        BY <4>1, <4>2
    <3>3. QED
      BY <1>1, <1>2, <3>1, <3>2, GotoAdvances DEF At
  <2>3. QED
    BY <2>1, <2>2
<1>6. /\ packages' \in [Torrents -> [1..Parts -> Nat]]
      /\ \A u \in Torrents : \A i \in 1..Parts :
           \/ packages'[u][i] = packages[u][i]
           \/ /\ u = tick.t /\ i = tick.part /\ packages'[u][i] = packages[u][i] + 1
              /\ TakesEffect(reply)
  BY <1>1, <1>2, TypeOKParts DEF AddLinks
<1>7. TypeOK'
  BY <1>1, <1>3, <1>4, <1>5, <1>6, TypeOKParts, TypesAfter DEF Advances
<1>8. WebseedsOwned' /\ CleanupHasRow'
  BY <1>1, <1>5, WebseedsKept DEF IInv, RemoteInv, Advances
<1>9. SubmissionsCounted'
  <2>1. \A u \in Torrents : Submissions(u)' = Submissions(u)
    BY <1>1 DEF Submissions
  <2>2. QED
    BY <1>1, <1>4, <1>5, <2>1 DEF IInv, RemoteInv, SubmissionsCounted, Advances
<1>10. PackagesCounted'
  <2>1. SUFFICES ASSUME NEW u \in Torrents \ unrecorded', NEW i \in 1..Parts
        PROVE  packages'[u][i] <= born[u] /\ (PackageDue(u, i)' => packages'[u][i] < born[u])
    BY <1>1 DEF PackagesCounted
  <2>2. /\ packages[u][i] \in Nat /\ born[u] \in Nat
        /\ packages[u][i] <= born[u]
        /\ PackageDue(u, i) => packages[u][i] < born[u]
    BY <1>1, <1>4, TypeOKParts DEF IInv, RemoteInv, PackagesCounted
  <2>3. CASE packages'[u][i] = packages[u][i]
    BY <1>5, <2>2, <2>3 DEF Advances
  <2>4. CASE u = tick.t /\ i = tick.part /\ packages'[u][i] = packages[u][i] + 1 /\ TakesEffect(reply)
    <3>1. PackageDue(u, i)
      BY <1>1, <1>2, <2>4 DEF PackageDue, LacksPackages, Row, At
    <3>2. Answered(reply)
      BY <1>4, <2>4 DEF TakesEffect, Answered
    <3>3. tick' = IF HasNextGroup(tick.part) THEN [tick EXCEPT !.part = @ + 1]
                  ELSE [tick EXCEPT !.pc = "save_fallback"]
      BY <3>2 DEF AddLinks
    <3>4. /\ tick'.t = tick.t
          /\ tick'.pc = "save_fallback" \/ (tick'.pc = "links" /\ tick'.part = tick.part + 1)
      BY <1>1, <1>2, <3>3 DEF Ticks
    <3>5. ~PackageDue(u, i)'
      BY <1>2, <2>4, <3>4 DEF PackageDue, At
    <3>6. QED
      BY <2>2, <2>4, <3>1, <3>5
  <2>5. QED
    BY <1>6, <2>3, <2>4
<1>11. HandedOver'
  BY <1>1, <1>3, <1>5 DEF IInv, RemoteInv, HandedOver, MyjdKept, At
<1>12. QED
  BY <1>5, <1>7, <1>8, <1>9, <1>10, <1>11 DEF IInv, RemoteInv, Advances

LEMMA SaveFallbackStep ==
  ASSUME IInv, SaveFallback
  PROVE  IInv'
<1>1. /\ TypeOK /\ SessionInv /\ FallbackIsRecorded /\ tick.pc = "save_fallback" /\ AtWork
      /\ UNCHANGED <<born, overdue, remotes, cleanup, history, actions, faults>>
  BY DEF IInv, RemoteInv, SaveFallback, At, AtWork
<1> DEFINE row == [Row EXCEPT !.myjd = TRUE, !.state = "fallback_progress"]
<1>2. Row \in Job /\ tick.t \in Torrents
  BY <1>1, WorkFacts
<1>3. row \in Job
  BY <1>2, JobWrites DEF JobStates
<1>4. /\ row.serial = Row.serial /\ row.provider = Row.provider /\ row.url = Row.url
      /\ row.myjd /\ row.state = "fallback_progress"
  BY <1>2 DEF Job
<1>5. SaveAnd(row, "stop")
  BY DEF SaveFallback
<1> HIDE DEF row
<1>6. /\ Advances
      /\ \A u \in Torrents : u # tick.t => jobs'[u] = jobs[u]
      /\ \/ tick'.pc = "stop" /\ tick'.t = tick.t
         \/ jobs' = jobs
  BY <1>1, <1>3, <1>4, <1>5, SavedAdvances DEF At, Terminal
<1>7. TypeOK'
  BY <1>1, <1>6, TypeOKParts, TypesAfter DEF Advances, remotes, history
<1>8. WebseedsOwned' /\ CleanupHasRow'
  BY <1>1, <1>6, WebseedsKept DEF IInv, RemoteInv, Advances, remotes, history
<1>9. SubmissionsCounted' /\ PackagesCounted'
  BY <1>1, <1>6, CountsKept DEF IInv, RemoteInv, Advances, remotes, history
<1>10. HandedOver'
  BY <1>1, <1>6 DEF IInv, RemoteInv, HandedOver, At, remotes
<1>11. QED
  BY <1>6, <1>7, <1>8, <1>9, <1>10 DEF IInv, RemoteInv, Advances

\* The two calls after a handover.
LEMMA PlaceholderStep ==
  ASSUME IInv, NEW reply \in Replies, StopTorrents(reply) \/ AddFallbackTag(reply)
  PROVE  IInv'
<1>1. /\ TypeOK /\ SessionInv /\ FallbackIsRecorded /\ tick.pc \in {"stop", "tag"} /\ AtWork
      /\ UNCHANGED <<born, overdue, rd, packages, cleanup, history, actions>>
  BY DEF IInv, RemoteInv, StopTorrents, AddFallbackTag, At, AtWork
<1>2. CallAnd(reply, IF tick.pc = "stop" THEN "tag" ELSE "next")
  BY DEF StopTorrents, AddFallbackTag, At
<1>3. Advances /\ MyjdKept
  BY <1>1, <1>2, CallAdvances
<1>4. /\ faults' \in Nat /\ (faults' = 0 => faults = 0 /\ Answered(reply))
  BY <1>1, <1>2, FaultCounts DEF CallAnd
<1>5. tick \in Ticks /\ tick.t \in Torrents /\ qb \in [Torrents -> Torrent]
  BY <1>1, WorkFacts, TypeOKParts
<1>6. /\ qb' \in [Torrents -> Torrent]
      /\ \A u \in Torrents : /\ qb'[u].seeds = qb[u].seeds
                             /\ qb[u].stopped => qb'[u].stopped
                             /\ qb[u].tagged => qb'[u].tagged
      /\ Answered(reply) => IF tick.pc = "stop" THEN qb'[tick.t].stopped ELSE qb'[tick.t].tagged
  <2>1. TakesEffect(reply) <=> reply # "failed"
    BY DEF TakesEffect, Replies
  <2>2. CASE StopTorrents(reply)
    <3> DEFINE new == [qb[tick.t] EXCEPT !.stopped = TRUE]
    <3>1. /\ new \in Torrent /\ new.stopped /\ new.tagged = qb[tick.t].tagged
          /\ new.seeds = qb[tick.t].seeds
      BY <1>5 DEF Torrent
    <3>2. qb' = (IF TakesEffect(reply) THEN [qb EXCEPT ![tick.t] = new] ELSE qb) /\ tick.pc = "stop"
      BY <1>5, <2>2 DEF StopTorrents, At
    <3> HIDE DEF new
    <3>3. QED
      BY <1>5, <2>1, <3>1, <3>2 DEF Answered
  <2>3. CASE AddFallbackTag(reply)
    <3> DEFINE new == [qb[tick.t] EXCEPT !.tagged = TRUE]
    <3>1. /\ new \in Torrent /\ new.tagged /\ new.stopped = qb[tick.t].stopped
          /\ new.seeds = qb[tick.t].seeds
      BY <1>5 DEF Torrent
    <3>2. qb' = (IF TakesEffect(reply) THEN [qb EXCEPT ![tick.t] = new] ELSE qb) /\ tick.pc = "tag"
      BY <1>5, <2>3 DEF AddFallbackTag, At
    <3> HIDE DEF new
    <3>3. QED
      BY <1>5, <2>1, <3>1, <3>2 DEF Answered
  <2>4. QED
    BY <2>2, <2>3
<1>7. TypeOK'
  BY <1>1, <1>3, <1>4, <1>6, TypeOKParts, TypesAfter DEF Advances, history
<1>8. WebseedsOwned' /\ CleanupHasRow'
  BY <1>1, <1>3, <1>6, WebseedsKept DEF IInv, RemoteInv, Advances, history
<1>9. SubmissionsCounted' /\ PackagesCounted'
  BY <1>1, <1>3, CountsKept DEF IInv, RemoteInv, Advances, history
<1>10. HandedOver'
  <2>1. SUFFICES ASSUME faults' = 0, NEW u \in Torrents, jobs'[u].myjd
        PROVE  /\ qb'[u].stopped \/ (tick'.t = u /\ tick'.pc = "stop")
               /\ qb'[u].tagged \/ (tick'.t = u /\ tick'.pc \in {"stop", "tag"})
    BY DEF HandedOver, At
  <2>2. /\ qb[u].stopped \/ (tick.t = u /\ tick.pc = "stop")
        /\ qb[u].tagged \/ (tick.t = u /\ tick.pc \in {"stop", "tag"})
    BY <1>3, <1>4, <2>1 DEF IInv, RemoteInv, HandedOver, MyjdKept, At
  <2>3. tick'.t = tick.t /\ tick'.pc = IF tick.pc = "stop" THEN "tag" ELSE "next"
    BY <1>2, <1>4, <1>5, <2>1 DEF CallAnd, Goto, Ticks
  <2>4. QED
    BY <1>1, <1>4, <1>6, <2>1, <2>2, <2>3
<1>11. QED
  BY <1>3, <1>7, <1>8, <1>9, <1>10 DEF IInv, RemoteInv, Advances

LEMMA EndAdvances ==
  ASSUME TypeOK, SessionInv, FallbackIsRecorded, tick.pc = "next",
         tick' = NoTick, UNCHANGED jobs
  PROVE  Advances /\ MyjdKept
<1>1. \A u \in Torrents : SubmissionDue(u)' => SubmissionDue(u)
  BY TickDropped DEF SubmissionDue, At
<1>2. \A u \in Torrents : \A i \in 1..Parts : PackageDue(u, i)' => PackageDue(u, i)
  BY TickDropped DEF PackageDue, At
<1>3. QED
  BY <1>1, <1>2, TickDropped DEF Advances, MyjdKept

LEMMA AdvanceStartsStep ==
  ASSUME IInv, NEW t \in Torrents, AdvanceStarts(t)
  PROVE  IInv'
<1> DEFINE row == IF tick.rows[t].serial = 0 THEN jobs[t] ELSE tick.rows[t]
           here == [tick EXCEPT !.t = t, !.todo = @ \ {t}, !.rows = [@ EXCEPT ![t] = row]]
           new == Merged(jobs[t], row, [row EXCEPT !.state = "completed", !.wait = FALSE])
<1>1. /\ TypeOK /\ SessionInv /\ FallbackIsRecorded /\ tick.pc = "next" /\ t \in tick.todo
      /\ jobs \in [Torrents -> Job] /\ tick \in Ticks /\ jobs[t] \in Job /\ row \in Job
      /\ UNCHANGED <<born, overdue, remotes, cleanup, history, actions, faults>>
  BY TypeOKParts DEF IInv, RemoteInv, AdvanceStarts, At, Ticks
<1>2. /\ jobs[t].state \notin Terminal
      /\ row.serial # 0 => /\ jobs[t].serial \in {0, row.serial}
                           /\ HasRow(t) => /\ row.provider = jobs[t].provider
                                           /\ row.url = jobs[t].url
                                           /\ row.myjd = jobs[t].myjd
  <2>1. RowIsCurrent(t) /\ jobs[t].state \notin Terminal
    BY <1>1 DEF SessionInv, SessionCurrent, OpenJobs
  <2>2. QED
    BY <2>1 DEF RowIsCurrent
<1>3. /\ IF row.serial = 0
         THEN tick' = NoTick /\ UNCHANGED jobs
         ELSE IF t \in tick.done
         THEN IF Current(t, row.serial)
              THEN jobs' = [jobs EXCEPT ![t] = new] /\ tick' = here
              ELSE tick' = NoTick /\ UNCHANGED jobs
         ELSE tick' = [here EXCEPT !.pc = "files", !.part = 1] /\ UNCHANGED jobs
  BY DEF AdvanceStarts
<1>4. /\ here \in Ticks /\ here.pc = "next" /\ here.t = t /\ here.todo = tick.todo \ {t}
      /\ here.rows[t] = row /\ \A u \in Torrents : u # t => here.rows[u] = tick.rows[u]
      /\ [here EXCEPT !.pc = "files", !.part = 1] \in Ticks
  <2>1. 1 \in 1..Parts /\ "files" \in TickPcs
    BY AccelerationAssumption DEF AccelerationAssumption, TickPcs
  <2> HIDE DEF row
  <2>2. [tick.rows EXCEPT ![t] = row] \in [Torrents -> Job]
    BY <1>1 DEF Ticks
  <2>3. here \in Ticks
    BY <1>1, <2>2 DEF Ticks
  <2>4. /\ here.pc = "next" /\ here.t = t /\ here.todo = tick.todo \ {t}
        /\ here.rows = [tick.rows EXCEPT ![t] = row]
    BY <1>1 DEF Ticks
  <2>5. here.rows[t] = row /\ \A u \in Torrents : u # t => here.rows[u] = tick.rows[u]
    BY <1>1, <2>4 DEF Ticks
  <2> HIDE DEF here
  <2>6. [here EXCEPT !.pc = "files", !.part = 1] \in Ticks
    BY <2>1, <2>3 DEF Ticks
  <2>7. QED
    BY <2>3, <2>4, <2>5, <2>6
<1> HIDE DEF here
<1>5. Advances /\ MyjdKept
  <2>1. CASE tick' = NoTick /\ UNCHANGED jobs
    BY <1>1, <2>1, EndAdvances
  <2>2. ASSUME row.serial # 0, tick' \in Ticks, tick'.t = t, tick'.todo = tick.todo \ {t},
               tick'.rows = here.rows,
               tick'.pc = "next" \/ (tick'.pc = "files" /\ tick'.part = 1),
               jobs' \in [Torrents -> Job], FallbackIsRecorded',
               \A u \in Torrents : /\ jobs'[u].serial = jobs[u].serial
                                   /\ jobs'[u].provider = jobs[u].provider
                                   /\ jobs'[u].url = jobs[u].url
                                   /\ jobs'[u].myjd = jobs[u].myjd
                                   /\ (u = t /\ tick'.pc = "next") \/ jobs'[u] = jobs[u],
               jobs'[t] = jobs[t] \/ HasRow(t)
        PROVE  Advances /\ MyjdKept
    <3> HIDE DEF row
    <3>1. RowsWellFormed'
      BY <1>1, <2>2 DEF SessionInv, RowsWellFormed, HasRow
    <3>2. SessionCurrent'
      BY <1>1, <1>2, <1>4, <2>2 DEF SessionInv, SessionCurrent, RowIsCurrent, HasRow
    <3>3. TickWellFormed'
      <4>1. Row'.serial # 0
        BY <1>4, <2>2 DEF Row
      <4>2. QED
        BY <2>2, <4>1 DEF TickWellFormed, At, AtWork
    <3>4. OpenJobs'
      BY <1>1, <2>2 DEF SessionInv, OpenJobs, Working
    <3>5. ASSUME NEW u \in Torrents PROVE SubmissionDue(u)' => SubmissionDue(u)
      <4>1. LacksProvider(tick.rows[u])' => LacksProvider(tick.rows[u]) \/ LacksProvider(jobs[u])
        BY <1>4, <2>2 DEF LacksProvider, row
      <4>2. LacksProvider(jobs[u])' => LacksProvider(jobs[u])
        BY <2>2 DEF LacksProvider
      <4>3. QED
        BY <1>1, <4>1, <4>2 DEF SubmissionDue, At
    <3>6. ASSUME NEW u \in Torrents, NEW i \in 1..Parts PROVE PackageDue(u, i)' => PackageDue(u, i)
      <4>1. LacksPackages(tick.rows[u])' => LacksPackages(tick.rows[u]) \/ LacksPackages(jobs[u])
        BY <1>4, <2>2 DEF LacksPackages, row
      <4>2. LacksPackages(jobs[u])' => LacksPackages(jobs[u])
        BY <2>2 DEF LacksPackages
      <4>3. QED
        BY <1>1, <4>1, <4>2 DEF PackageDue, At
    <3>7. QED
      BY <2>2, <3>1, <3>2, <3>3, <3>4, <3>5, <3>6 DEF Advances, MyjdKept, SessionInv
  <2>3. CASE row.serial # 0 /\ tick' = [here EXCEPT !.pc = "files", !.part = 1] /\ UNCHANGED jobs
    <3> HIDE DEF row
    <3>1. /\ tick' \in Ticks /\ tick'.t = t /\ tick'.todo = tick.todo \ {t}
          /\ tick'.rows = here.rows /\ tick'.pc = "files" /\ tick'.part = 1
      BY <1>4, <2>3 DEF Ticks
    <3>2. FallbackIsRecorded'
      BY <1>1, <2>3 DEF FallbackIsRecorded
    <3>3. QED
      BY <1>1, <2>2, <2>3, <3>1, <3>2
  <2>4. CASE row.serial # 0 /\ Current(t, row.serial) /\ jobs' = [jobs EXCEPT ![t] = new] /\ tick' = here
    <3> DEFINE loaded == [row EXCEPT !.state = "completed", !.wait = FALSE]
    <3> HIDE DEF row
    <3>1. /\ loaded \in Job /\ loaded.serial = row.serial /\ loaded.provider = row.provider
          /\ loaded.url = row.url /\ loaded.myjd = row.myjd /\ loaded.state = "completed"
      <4>1. loaded \in Job
        BY <1>1, JobWrites DEF JobStates, Terminal
      <4>2. QED
        BY <1>1, <4>1 DEF Job
    <3>2. /\ jobs[t].serial = row.serial /\ row.provider = jobs[t].provider
          /\ row.url = jobs[t].url /\ row.myjd = jobs[t].myjd /\ HasRow(t)
      BY <1>2, <2>4 DEF Current, HasRow
    <3> HIDE DEF loaded
    <3>3. /\ Merged(jobs[t], row, loaded) \in Job
          /\ Merged(jobs[t], row, loaded).serial = Written(jobs[t].serial, row.serial, loaded.serial)
          /\ Merged(jobs[t], row, loaded).provider
               = Written(jobs[t].provider, row.provider, loaded.provider)
          /\ Merged(jobs[t], row, loaded).url = Written(jobs[t].url, row.url, loaded.url)
          /\ Merged(jobs[t], row, loaded).myjd = Written(jobs[t].myjd, row.myjd, loaded.myjd)
          /\ Merged(jobs[t], row, loaded).state = Written(jobs[t].state, row.state, loaded.state)
      BY <1>1, <3>1, MergedColumns
    <3>4. new = Merged(jobs[t], row, loaded)
      BY DEF loaded
    <3> HIDE DEF new
    <3>5. /\ new \in Job /\ new.serial = jobs[t].serial /\ new.provider = jobs[t].provider
          /\ new.url = jobs[t].url /\ new.myjd = jobs[t].myjd
          /\ new.state \in {"completed", jobs[t].state}
      BY <3>1, <3>2, <3>3, <3>4 DEF Written
    <3>6. jobs' \in [Torrents -> Job] /\ \A u \in Torrents : jobs'[u] = IF u = t THEN new ELSE jobs[u]
      BY <1>1, <2>4, <3>5
    <3>7. FallbackIsRecorded'
      BY <1>1, <3>5, <3>6 DEF FallbackIsRecorded
    <3>8. tick' \in Ticks /\ tick'.t = t /\ tick'.todo = tick.todo \ {t} /\ tick'.rows = here.rows
          /\ tick'.pc = "next"
      BY <1>4, <2>4
    <3>9. QED
      BY <2>2, <2>4, <3>2, <3>5, <3>6, <3>7, <3>8
  <2>5. QED
    BY <1>3, <2>1, <2>3, <2>4
<1>6. QED
  BY <1>1, <1>5, TypeOKParts, TickStep DEF remotes

LEMMA TickEndsStep ==
  ASSUME IInv, TickEnds
  PROVE  IInv'
<1>1. /\ TypeOK /\ SessionInv /\ FallbackIsRecorded /\ tick.pc = "next" /\ tick' = NoTick
      /\ UNCHANGED <<jobs, born, overdue, remotes, cleanup, history, actions, faults>>
  BY DEF IInv, RemoteInv, TickEnds, At
<1>2. Advances /\ MyjdKept
  BY <1>1, EndAdvances
<1>3. QED
  BY <1>1, <1>2, TypeOKParts, TickStep DEF remotes

\* A new row makes room for a submission and for a package of every group.
LEMMA TickStartsStep ==
  ASSUME IInv, TickStarts
  PROVE  IInv'
<1> DEFINE managed == {t \in Torrents : qb[t].managed}
           found == {t \in managed : ~HasRow(t)}
           known == [t \in Torrents |->
                       IF t \in found THEN [NoJob EXCEPT !.serial = born[t] + 1] ELSE jobs[t]]
           resting == {t \in managed : qb[t].stopped \/ qb[t].done}
           ready == {t \in managed : IsReady(known[t])}
<1>1. /\ TypeOK /\ tick = NoTick
      /\ jobs \in [Torrents -> Job] /\ born \in [Torrents -> Nat]
      /\ overdue \in SUBSET Torrents
      /\ UNCHANGED <<remotes, cleanup, history, actions, faults>>
      /\ jobs' = known
      /\ born' = [t \in Torrents |-> IF t \in found THEN born[t] + 1 ELSE born[t]]
      /\ overdue' = overdue \ found
      /\ tick' = [NoTick EXCEPT !.pc = "next", !.rows = known,
                                !.done = {t \in managed : qb[t].done},
                                !.resting = resting, !.todo = Leading(resting, ready)]
  BY TypeOKParts DEF IInv, SessionInv, TickWellFormed, TickStarts
<1>2. ASSUME NEW t \in Torrents, t \in found
      PROVE  /\ jobs[t] = NoJob /\ known[t] \in Job /\ born'[t] = born[t] + 1
             /\ known[t].serial # 0 /\ known[t].state = "discovered"
             /\ ~known[t].url /\ ~known[t].myjd
  <2>1. jobs[t] = NoJob
    BY <1>2 DEF IInv, SessionInv, RowsWellFormed
  <2>2. born[t] + 1 \in Nat /\ born[t] + 1 # 0
    BY <1>1
  <2>3. known[t] = [NoJob EXCEPT !.serial = born[t] + 1]
    BY <1>2
  <2> HIDE DEF known, found
  <2>4. known[t] \in Job
    BY <2>2, <2>3, RestingTypes DEF Job
  <2>5. QED
    BY <1>1, <1>2, <2>1, <2>2, <2>3, <2>4 DEF NoJob
<1>3. ASSUME NEW t \in Torrents, t \notin found
      PROVE  known[t] = jobs[t] /\ born'[t] = born[t]
  BY <1>1, <1>3
<1>4. Leading(resting, ready) \subseteq ready /\ ready \subseteq Torrents
  BY DEF Leading
<1>5. \A t \in ready : known[t].state \notin Terminal
  BY DEF IsReady
<1>6. known \in [Torrents -> Job]
  <2>1. \A t \in Torrents : known[t] \in Job
    BY <1>1, <1>2, <1>3
  <2>2. QED
    BY <2>1
<1>7. resting \in SUBSET Torrents /\ {t \in managed : qb[t].done} \in SUBSET Torrents
  OBVIOUS
<1>8. \A t \in found : t \in Torrents /\ ~HasRow(t)
  OBVIOUS
<1> HIDE DEF known, found, managed, resting, ready
<1>9. /\ tick' \in Ticks /\ tick'.pc = "next" /\ tick'.t = NoTorrent
      /\ tick'.rows = known /\ tick'.todo = Leading(resting, ready)
  BY <1>1, <1>4, <1>6, <1>7, RestingTypes DEF Ticks, TickPcs, NoTick
<1>10. TypeOK'
  <2>1. born' \in [Torrents -> Nat] /\ overdue' \in SUBSET Torrents
    BY <1>1
  <2>2. QED
    BY <1>1, <1>6, <1>9, <2>1, TypeOKParts, TypesAfter DEF remotes, history
<1>11. RowsWellFormed'
  BY <1>1, <1>2, <1>3 DEF IInv, SessionInv, RowsWellFormed, HasRow
<1>12. SessionCurrent'
  BY <1>1, <1>9 DEF SessionCurrent, RowIsCurrent
<1>13. TickWellFormed'
  <2>1. NoTorrent \notin Torrents
    BY AccelerationAssumption DEF AccelerationAssumption
  <2>2. QED
    BY <1>4, <1>9, <2>1 DEF TickWellFormed, At, AtWork
<1>14. OpenJobs'
  BY <1>1, <1>4, <1>5, <1>9 DEF OpenJobs, Working
<1>15. FallbackIsRecorded'
  BY <1>1, <1>2, <1>3 DEF IInv, RemoteInv, FallbackIsRecorded
<1>16. WebseedsOwned'
  <2>1. ASSUME NEW t \in Torrents \ raced
        PROVE  qb[t].seeds \subseteq (IF known[t].url THEN {known[t].serial} ELSE {})
    <3>1. qb[t].seeds \subseteq (IF jobs[t].url THEN {jobs[t].serial} ELSE {})
      BY DEF IInv, RemoteInv, WebseedsOwned
    <3>2. QED
      BY <1>2, <1>3, <3>1 DEF NoJob
  <2>2. QED
    BY <1>1, <2>1 DEF WebseedsOwned, remotes, history
<1>17. CleanupHasRow'
  <2>1. ASSUME cleanup # NoCleanup
        PROVE  cleanup.t \in Torrents /\ cleanup.t \notin found
    BY <1>8, <2>1 DEF IInv, RemoteInv, CleanupHasRow, Current, HasRow
  <2>2. QED
    BY <1>1, <1>3, <2>1 DEF IInv, RemoteInv, CleanupHasRow, Current, remotes, history
<1>18. SubmissionsCounted'
  <2>1. \A t \in Torrents : Submissions(t)' = Submissions(t)
    BY <1>1 DEF Submissions, remotes
  <2>2. ASSUME NEW t \in Torrents \ unrecorded
        PROVE  /\ Cardinality(Submissions(t)) <= born'[t]
               /\ SubmissionDue(t)' => Cardinality(Submissions(t)) < born'[t]
    <3> DEFINE n == Cardinality(Submissions(t))
    <3>1. /\ n <= born[t] /\ (SubmissionDue(t) => n < born[t]) /\ born[t] \in Nat
      BY <1>1 DEF IInv, RemoteInv, SubmissionsCounted
    <3>2. n \in Nat
      <4>1. Submissions(t) \subseteq 1..MaxSubmissions
        BY DEF Submissions
      <4>2. IsFiniteSet(1..MaxSubmissions)
        BY FS_Interval, AccelerationAssumption DEF AccelerationAssumption
      <4>3. QED
        BY <4>1, <4>2, FS_Subset, FS_CardinalityType
    <3> HIDE DEF n
    <3>3. CASE t \in found
      BY <1>2, <3>1, <3>2, <3>3 DEF n
    <3>4. CASE t \notin found
      <4>1. SubmissionDue(t)' => SubmissionDue(t)
        <5>1. tick.pc = "idle"
          BY <1>1 DEF NoTick
        <5>2. SubmissionDue(t)' => LacksProvider(jobs[t])
          BY <1>1, <1>3, <1>9, <3>4 DEF SubmissionDue, LacksProvider
        <5>3. QED
          BY <5>1, <5>2 DEF SubmissionDue, At
      <4>2. QED
        BY <1>3, <3>1, <3>4, <4>1 DEF n
    <3>5. QED
      BY <3>3, <3>4
  <2>3. QED
    BY <1>1, <2>1, <2>2 DEF SubmissionsCounted, history
<1>19. PackagesCounted'
  <2>1. ASSUME NEW t \in Torrents \ unrecorded, NEW i \in 1..Parts
        PROVE  /\ packages[t][i] <= born'[t]
               /\ PackageDue(t, i)' => packages[t][i] < born'[t]
    <3> DEFINE n == packages[t][i]
    <3>1. /\ n <= born[t] /\ (PackageDue(t, i) => n < born[t]) /\ born[t] \in Nat /\ n \in Nat
      BY <1>1, TypeOKParts DEF IInv, RemoteInv, PackagesCounted
    <3> HIDE DEF n
    <3>2. CASE t \in found
      BY <1>2, <3>1, <3>2 DEF n
    <3>3. CASE t \notin found
      <4>1. tick.pc = "idle"
        BY <1>1 DEF NoTick
      <4>2. PackageDue(t, i)' => LacksPackages(jobs[t])
        BY <1>1, <1>3, <1>9, <3>3 DEF PackageDue, LacksPackages
      <4>3. PackageDue(t, i)' => PackageDue(t, i)
        BY <4>1, <4>2 DEF PackageDue, At
      <4>4. QED
        BY <1>3, <3>1, <3>3, <4>3 DEF n
    <3>4. QED
      BY <3>2, <3>3
  <2>2. QED
    BY <1>1, <2>1 DEF PackagesCounted, remotes, history
<1>20. HandedOver'
  <2>1. tick.pc = "idle" /\ ~NoJob.myjd
    BY <1>1 DEF NoTick, NoJob
  <2>2. QED
    BY <1>1, <1>2, <1>3, <2>1 DEF IInv, RemoteInv, HandedOver, At, remotes
<1>21. QED
  BY <1>10, <1>11, <1>12, <1>13, <1>14, <1>15, <1>16, <1>17, <1>18, <1>19, <1>20
  DEF IInv, SessionInv, RemoteInv

-----------------------------------------------------------------------------
(* The routes, the world and crashes.                                        *)

\* A step that leaves the table and the tick alone, ...
LEMMA WorldStep ==
  ASSUME IInv,
         UNCHANGED <<jobs, born, packages, tick, cleanup, history, faults>>,
         overdue' \in SUBSET Torrents, actions' \in Nat,
         qb' \in [Torrents -> Torrent],
         \A u \in Torrents : /\ qb'[u].seeds = qb[u].seeds
                             /\ qb'[u].stopped = qb[u].stopped
                             /\ qb'[u].tagged = qb[u].tagged,
         rd' \in [1..MaxSubmissions -> [t : Torrents \cup {NoTorrent}, status : ProviderStates]],
         \A p \in 1..MaxSubmissions : rd'[p].t = rd[p].t
  PROVE  IInv'
<1>1. TypeOK'
  BY TypeOKParts, TypesAfter DEF IInv, history
<1>2. SessionInv'
  BY DEF IInv, SessionInv, RowsWellFormed, SessionCurrent, RowIsCurrent, TickWellFormed,
         OpenJobs, HasRow, At, AtWork, Row, Working
<1>3. FallbackIsRecorded' /\ HandedOver'
  BY DEF IInv, RemoteInv, FallbackIsRecorded, HandedOver, At
<1>4. WebseedsOwned' /\ CleanupHasRow'
  BY WebseedsKept DEF IInv, RemoteInv, history
<1>5. \A u \in Torrents : /\ SubmissionDue(u)' => SubmissionDue(u)
                          /\ \A i \in 1..Parts : PackageDue(u, i)' => PackageDue(u, i)
  BY DEF SubmissionDue, LacksProvider, PackageDue, LacksPackages, At
<1>6. SubmissionsCounted' /\ PackagesCounted'
  BY <1>5, CountsKept DEF IInv, RemoteInv, history
<1>7. QED
  BY <1>1, <1>2, <1>3, <1>4, <1>6 DEF IInv, RemoteInv

LEMMA AdoptOrQbittorrentStep ==
  ASSUME IInv, NEW t \in Torrents, Adopt(t) \/ MetadataArrives(t) \/ DownloadCompletes(t)
  PROVE  IInv'
<1>1. qb \in [Torrents -> Torrent] /\ TypeOK /\ actions \in Nat /\ qb[t] \in Torrent
  BY TypeOKParts DEF IInv
<1>2. PICK new \in Torrent :
        /\ qb' = [qb EXCEPT ![t] = new]
        /\ new.seeds = qb[t].seeds /\ new.stopped = qb[t].stopped /\ new.tagged = qb[t].tagged
  <2> DEFINE managed == [qb[t] EXCEPT !.managed = TRUE]
             metadata == [qb[t] EXCEPT !.metadata = TRUE]
             done == [qb[t] EXCEPT !.done = TRUE]
  <2>1. qb' \in {[qb EXCEPT ![t] = managed], [qb EXCEPT ![t] = metadata], [qb EXCEPT ![t] = done]}
    BY <1>1 DEF Adopt, MetadataArrives, DownloadCompletes
  <2>2. ASSUME NEW new \in {managed, metadata, done}
        PROVE  /\ new \in Torrent /\ new.seeds = qb[t].seeds
               /\ new.stopped = qb[t].stopped /\ new.tagged = qb[t].tagged
    BY <1>1 DEF Torrent
  <2> HIDE DEF managed, metadata, done
  <2>3. QED
    BY <2>1, <2>2
<1>3. /\ UNCHANGED <<jobs, born, overdue, rd, packages, tick, cleanup, history, faults>>
      /\ actions' \in Nat
  BY <1>1 DEF Adopt, MetadataArrives, DownloadCompletes, UserActs
<1>4. QED
  BY <1>1, <1>2, <1>3, TypeOKParts, WorldStep

LEMMA ProviderStep ==
  ASSUME IInv, NEW p \in 1..MaxSubmissions,
         ProviderWorks(p) \/ SelectedElsewhere(p) \/ ProviderFails(p)
  PROVE  IInv'
<1>1. /\ TypeOK /\ qb \in [Torrents -> Torrent] /\ overdue \in SUBSET Torrents
      /\ actions \in Nat
      /\ rd \in [1..MaxSubmissions -> [t : Torrents \cup {NoTorrent}, status : ProviderStates]]
  BY TypeOKParts DEF IInv
<1>2. PICK s \in ProviderStates : rd' = [rd EXCEPT ![p].status = s]
  <2>1. CASE ProviderWorks(p)
    <3>1. PICK s \in {"waiting", "uploading", "downloaded"} : rd' = [rd EXCEPT ![p].status = s]
      BY <1>1, <2>1 DEF ProviderWorks
    <3>2. QED
      BY <3>1 DEF ProviderStates
  <2>2. CASE SelectedElsewhere(p)
    BY <2>2 DEF SelectedElsewhere, ProviderStates
  <2>3. CASE ProviderFails(p)
    BY <2>3 DEF ProviderFails, ProviderStates
  <2>4. QED
    BY <2>1, <2>2, <2>3
<1>3. /\ rd' \in [1..MaxSubmissions -> [t : Torrents \cup {NoTorrent}, status : ProviderStates]]
      /\ \A q \in 1..MaxSubmissions : rd'[q].t = rd[q].t
  BY <1>1, <1>2
<1>4. UNCHANGED <<jobs, born, overdue, qb, packages, tick, cleanup, history, actions, faults>>
  BY DEF ProviderWorks, SelectedElsewhere, ProviderFails
<1>5. QED
  BY <1>1, <1>3, <1>4, WorldStep

LEMMA DeadlinePassesStep ==
  ASSUME IInv, NEW t \in Torrents, DeadlinePasses(t)
  PROVE  IInv'
<1>1. /\ UNCHANGED <<jobs, born, remotes, tick, cleanup, history, actions, faults>>
      /\ overdue' = overdue \cup {t}
  BY DEF DeadlinePasses
<1>2. /\ qb \in [Torrents -> Torrent] /\ overdue \in SUBSET Torrents /\ actions \in Nat
      /\ rd \in [1..MaxSubmissions -> [t : Torrents \cup {NoTorrent}, status : ProviderStates]]
  BY TypeOKParts DEF IInv
<1>3. QED
  BY <1>1, <1>2, WorldStep DEF remotes

\* ... one that changes the state of a row or the time of its next attempt, ...
LEMMA RowTouched ==
  ASSUME IInv, NEW t \in Torrents, HasRow(t), NEW new \in Job,
         new.serial = jobs[t].serial, new.provider = jobs[t].provider,
         new.url = jobs[t].url, new.myjd = jobs[t].myjd,
         new.state \in {jobs[t].state, "discovered", "provider_submitted"},
         jobs' = [jobs EXCEPT ![t] = new], actions' \in Nat,
         UNCHANGED <<born, overdue, remotes, tick, cleanup, history, faults>>
  PROVE  IInv'
<1>1. TypeOK /\ jobs \in [Torrents -> Job]
  BY TypeOKParts DEF IInv
<1>2. \A u \in Torrents : /\ jobs'[u].serial = jobs[u].serial
                          /\ jobs'[u].provider = jobs[u].provider
                          /\ jobs'[u].url = jobs[u].url
                          /\ jobs'[u].myjd = jobs[u].myjd
                          /\ jobs'[u].state \in {jobs[u].state, "discovered", "provider_submitted"}
                          /\ jobs'[u] = jobs[u] \/ HasRow(u)
  BY <1>1
<1>3. TypeOK'
  BY <1>1, TypeOKParts, TypesAfter DEF remotes, history
<1>4. RowsWellFormed'
  BY <1>2 DEF IInv, SessionInv, RowsWellFormed, HasRow
<1>5. SessionCurrent' /\ TickWellFormed'
  BY <1>2 DEF IInv, SessionInv, SessionCurrent, RowIsCurrent, TickWellFormed, HasRow, At, AtWork, Row
<1>6. OpenJobs'
  BY <1>2 DEF IInv, SessionInv, OpenJobs, Working, Terminal
<1>7. FallbackIsRecorded' /\ HandedOver'
  BY <1>2 DEF IInv, RemoteInv, FallbackIsRecorded, HandedOver, At, remotes
<1>8. WebseedsOwned' /\ CleanupHasRow'
  BY <1>2, WebseedsKept DEF IInv, RemoteInv, remotes, history
<1>9. \A u \in Torrents : /\ SubmissionDue(u)' => SubmissionDue(u)
                          /\ \A i \in 1..Parts : PackageDue(u, i)' => PackageDue(u, i)
  BY <1>2 DEF SubmissionDue, LacksProvider, PackageDue, LacksPackages, At
<1>10. SubmissionsCounted' /\ PackagesCounted'
  BY <1>9, CountsKept DEF IInv, RemoteInv, remotes, history
<1>11. QED
  BY <1>3, <1>4, <1>5, <1>6, <1>7, <1>8, <1>10 DEF IInv, SessionInv, RemoteInv

LEMMA RetryStep ==
  ASSUME IInv, NEW t \in Torrents, Retry(t)
  PROVE  IInv'
<1> DEFINE new == [jobs[t] EXCEPT !.state = RetryState(jobs[t]), !.wait = FALSE]
<1>1. jobs \in [Torrents -> Job] /\ jobs[t] \in Job /\ actions \in Nat
  BY TypeOKParts DEF IInv
<1>2. RetryState(jobs[t]) \in {"discovered", "provider_submitted"}
  BY DEF RetryState
<1>3. /\ new \in Job /\ new.serial = jobs[t].serial /\ new.provider = jobs[t].provider
      /\ new.url = jobs[t].url /\ new.myjd = jobs[t].myjd
      /\ new.state \in {"discovered", "provider_submitted"}
  BY <1>1, <1>2 DEF Job, JobStates
<1>4. jobs' = [jobs EXCEPT ![t] = new]
  <2> DEFINE state == RetryState(jobs[t])
  <2>1. jobs' = [jobs EXCEPT ![t].state = state, ![t].wait = FALSE]
    BY DEF Retry
  <2> HIDE DEF state
  <2>2. QED
    BY <1>1, <2>1 DEF state
<1>5. /\ HasRow(t) /\ actions' \in Nat
      /\ UNCHANGED <<born, overdue, remotes, tick, cleanup, history, faults>>
  BY <1>1 DEF Retry, UserActs
<1> HIDE DEF new
<1>6. QED
  BY <1>3, <1>4, <1>5, RowTouched

LEMMA BackoffElapsesStep ==
  ASSUME IInv, NEW t \in Torrents, BackoffElapses(t)
  PROVE  IInv'
<1> DEFINE new == [jobs[t] EXCEPT !.wait = FALSE]
<1>1. jobs \in [Torrents -> Job] /\ jobs[t] \in Job /\ actions \in Nat
  BY TypeOKParts DEF IInv
<1>2. /\ new \in Job /\ new.serial = jobs[t].serial /\ new.provider = jobs[t].provider
      /\ new.url = jobs[t].url /\ new.myjd = jobs[t].myjd /\ new.state = jobs[t].state
  BY <1>1 DEF Job
<1>3. HasRow(t)
  BY DEF IInv, SessionInv, RowsWellFormed, BackoffElapses, NoJob
<1>4. /\ jobs' = [jobs EXCEPT ![t] = new]
      /\ UNCHANGED <<born, overdue, remotes, tick, cleanup, history, actions, faults>>
  BY <1>1 DEF BackoffElapses
<1> HIDE DEF new
<1>5. QED
  BY <1>1, <1>2, <1>3, <1>4, RowTouched

\* ... the requests of a cleanup: what it takes off is in its row, and nobody
\* attaches a web seed meanwhile unless the torrent is marked, ...
LEMMA OpenCleanupStep ==
  ASSUME IInv, NEW t \in Torrents, OpenCleanup(t)
  PROVE  IInv'
<1>1. /\ TypeOK /\ jobs \in [Torrents -> Job] /\ jobs[t] \in Job /\ actions' \in Nat /\ HasRow(t)
      /\ cleanup' = [t |-> t, serial |-> jobs[t].serial, pending |-> jobs[t].url]
      /\ UNCHANGED <<jobs, born, overdue, remotes, tick, history, faults>>
  BY TypeOKParts DEF IInv, OpenCleanup, UserActs
<1>2. TypeOK'
  <2>1. cleanup' \in Cleanups
    BY <1>1 DEF Cleanups, Job
  <2>2. QED
    BY <1>1, <2>1, TypeOKParts, TypesAfter DEF remotes, history
<1>3. SessionInv'
  BY <1>1 DEF IInv, SessionInv, RowsWellFormed, SessionCurrent, RowIsCurrent, TickWellFormed,
              OpenJobs, HasRow, At, AtWork, Row, Working
<1>4. FallbackIsRecorded' /\ HandedOver' /\ WebseedsOwned'
  BY <1>1 DEF IInv, RemoteInv, FallbackIsRecorded, HandedOver, WebseedsOwned, At, remotes, history
<1>5. CleanupHasRow'
  <2>1. ~jobs[t].url /\ t \notin raced => qb[t].seeds = {}
    BY DEF IInv, RemoteInv, WebseedsOwned
  <2>2. QED
    BY <1>1, <2>1 DEF CleanupHasRow, Current, HasRow, remotes, history
<1>6. \A u \in Torrents : /\ SubmissionDue(u)' => SubmissionDue(u)
                          /\ \A i \in 1..Parts : PackageDue(u, i)' => PackageDue(u, i)
  BY <1>1 DEF SubmissionDue, LacksProvider, PackageDue, LacksPackages, At
<1>7. SubmissionsCounted' /\ PackagesCounted'
  BY <1>1, <1>6, CountsKept DEF IInv, RemoteInv, remotes, history
<1>8. QED
  BY <1>2, <1>3, <1>4, <1>5, <1>7 DEF IInv, RemoteInv

LEMMA RemoveWebseedsStep ==
  ASSUME IInv, NEW reply \in Replies, RemoveWebseeds(reply)
  PROVE  IInv'
<1> DEFINE t == cleanup.t
           new == [qb[t] EXCEPT !.seeds = @ \ {cleanup.serial}]
<1>1. /\ TypeOK /\ qb \in [Torrents -> Torrent] /\ cleanup \in Cleanups
      /\ cleanup.pending /\ Fault(reply)
      /\ qb' = IF TakesEffect(reply) THEN [qb EXCEPT ![t].seeds = @ \ {cleanup.serial}] ELSE qb
      /\ cleanup' = IF Answered(reply) THEN [cleanup EXCEPT !.pending = FALSE] ELSE NoCleanup
      /\ UNCHANGED <<jobs, born, overdue, rd, packages, tick, history, actions>>
  BY TypeOKParts DEF IInv, RemoveWebseeds
<1>2. t \in Torrents /\ Current(t, cleanup.serial)
  <2>1. cleanup # NoCleanup
    BY <1>1 DEF NoCleanup
  <2>2. QED
    BY <2>1 DEF IInv, RemoteInv, CleanupHasRow
<1>3. /\ new \in Torrent /\ new.seeds = qb[t].seeds \ {cleanup.serial}
      /\ new.stopped = qb[t].stopped /\ new.tagged = qb[t].tagged
  BY <1>1, <1>2 DEF Torrent
<1>4. qb' = IF TakesEffect(reply) THEN [qb EXCEPT ![t] = new] ELSE qb
  BY <1>1, <1>2
<1>5. /\ faults' \in Nat /\ (faults' = 0 => faults = 0)
  BY <1>1, FaultCounts
<1> HIDE DEF new
<1>6. /\ qb' \in [Torrents -> Torrent]
      /\ \A u \in Torrents : /\ qb'[u].seeds \subseteq qb[u].seeds
                             /\ qb'[u].stopped = qb[u].stopped
                             /\ qb'[u].tagged = qb[u].tagged
  BY <1>1, <1>2, <1>3, <1>4
<1>7. TypeOK'
  <2>1. cleanup' \in Cleanups
    BY <1>1, RestingTypes DEF Cleanups
  <2>2. QED
    BY <1>1, <1>5, <1>6, <2>1, TypeOKParts, TypesAfter DEF history
<1>8. SessionInv'
  BY <1>1 DEF IInv, SessionInv, RowsWellFormed, SessionCurrent, RowIsCurrent, TickWellFormed,
              OpenJobs, HasRow, At, AtWork, Row, Working
<1>9. FallbackIsRecorded' /\ HandedOver'
  BY <1>1, <1>5, <1>6 DEF IInv, RemoteInv, FallbackIsRecorded, HandedOver, At
<1>10. WebseedsOwned'
  <2>1. ASSUME NEW u \in Torrents \ raced
        PROVE  qb'[u].seeds \subseteq (IF jobs[u].url THEN {jobs[u].serial} ELSE {})
    BY <1>6 DEF IInv, RemoteInv, WebseedsOwned
  <2>2. QED
    BY <1>1, <2>1 DEF WebseedsOwned, history
<1>11. CleanupHasRow'
  <2>1. CASE ~Answered(reply)
    BY <1>1, <2>1 DEF CleanupHasRow
  <2>2. CASE Answered(reply)
    <3>1. cleanup' = [cleanup EXCEPT !.pending = FALSE] /\ TakesEffect(reply)
      BY <1>1, <2>2 DEF Answered, TakesEffect
    <3>2. cleanup'.t = t /\ cleanup'.serial = cleanup.serial
      BY <1>1, <3>1 DEF Cleanups
    <3>3. t \notin raced => qb[t].seeds \subseteq {cleanup.serial}
      BY <1>2 DEF IInv, RemoteInv, WebseedsOwned, Current
    <3>4. t \notin raced => qb'[t].seeds = {}
      BY <1>1, <1>2, <1>3, <1>4, <3>1, <3>3
    <3>5. QED
      BY <1>1, <1>2, <3>2, <3>4 DEF CleanupHasRow, Current, history
  <2>3. QED
    BY <2>1, <2>2
<1>12. \A u \in Torrents : /\ SubmissionDue(u)' => SubmissionDue(u)
                           /\ \A i \in 1..Parts : PackageDue(u, i)' => PackageDue(u, i)
  BY <1>1 DEF SubmissionDue, LacksProvider, PackageDue, LacksPackages, At
<1>13. SubmissionsCounted' /\ PackagesCounted'
  BY <1>1, <1>12, CountsKept DEF IInv, RemoteInv, history
<1>14. QED
  BY <1>7, <1>8, <1>9, <1>10, <1>11, <1>13 DEF IInv, RemoteInv

LEMMA DeleteJobStep ==
  ASSUME IInv, DeleteJob
  PROVE  IInv'
<1> DEFINE t == cleanup.t
<1>1. /\ TypeOK /\ jobs \in [Torrents -> Job] /\ cleanup # NoCleanup /\ ~cleanup.pending
      /\ cleanup' = NoCleanup
      /\ UNCHANGED <<born, overdue, remotes, tick, history, actions, faults>>
  BY TypeOKParts DEF IInv, DeleteJob
<1>2. /\ t \in Torrents /\ Current(t, cleanup.serial)
      /\ t \notin raced => qb[t].seeds = {}
  BY <1>1 DEF IInv, RemoteInv, CleanupHasRow
<1>3. jobs' = [jobs EXCEPT ![t] = NoJob]
  BY <1>1, <1>2 DEF DeleteJob
<1>4. /\ jobs'[t] = NoJob /\ \A u \in Torrents : u # t => jobs'[u] = jobs[u]
  BY <1>1, <1>2, <1>3
<1>5. /\ NoJob.serial = 0 /\ NoJob.state = "discovered" /\ ~NoJob.url /\ ~NoJob.myjd
  BY DEF NoJob
<1>6. TypeOK'
  BY <1>1, <1>3, RestingTypes, TypeOKParts, TypesAfter DEF remotes, history
<1>7. RowsWellFormed'
  BY <1>4 DEF IInv, SessionInv, RowsWellFormed, HasRow
<1>8. SessionCurrent' /\ TickWellFormed'
  BY <1>1, <1>4, <1>5 DEF IInv, SessionInv, SessionCurrent, RowIsCurrent, TickWellFormed,
                          HasRow, At, AtWork, Row
<1>9. OpenJobs'
  BY <1>1, <1>4, <1>5 DEF IInv, SessionInv, OpenJobs, Working, Terminal
<1>10. FallbackIsRecorded' /\ HandedOver'
  BY <1>1, <1>4, <1>5 DEF IInv, RemoteInv, FallbackIsRecorded, HandedOver, At, remotes
<1>11. WebseedsOwned'
  <2>1. ASSUME NEW u \in Torrents \ raced
        PROVE  qb[u].seeds \subseteq (IF jobs'[u].url THEN {jobs'[u].serial} ELSE {})
    BY <1>2, <1>4 DEF IInv, RemoteInv, WebseedsOwned
  <2>2. QED
    BY <1>1, <2>1 DEF WebseedsOwned, remotes, history
<1>12. CleanupHasRow'
  BY <1>1 DEF CleanupHasRow
<1>13. \A u \in Torrents : /\ SubmissionDue(u)' => SubmissionDue(u)
                           /\ \A i \in 1..Parts : PackageDue(u, i)' => PackageDue(u, i)
  BY <1>1, <1>4, <1>5 DEF SubmissionDue, LacksProvider, PackageDue, LacksPackages, At
<1>14. SubmissionsCounted' /\ PackagesCounted'
  BY <1>1, <1>13, CountsKept DEF IInv, RemoteInv, remotes, history
<1>15. QED
  BY <1>6, <1>7, <1>8, <1>9, <1>10, <1>11, <1>12, <1>14 DEF IInv, SessionInv, RemoteInv

\* ... and a crash, which loses what the tick knew and had not recorded.
LEMMA CrashStep ==
  ASSUME IInv, Crash
  PROVE  IInv'
<1>1. /\ TypeOK /\ SessionInv /\ FallbackIsRecorded
      /\ tick' = NoTick /\ cleanup' = NoCleanup /\ faults' \in Nat /\ faults' # 0
      /\ unrecorded' = IF \/ tick.pc \in {"save_provider", "save_fallback"}
                          \/ At("links") /\ tick.part > 1
                       THEN unrecorded \cup {tick.t} ELSE unrecorded
      /\ UNCHANGED <<jobs, born, overdue, remotes, raced, actions>>
  BY TypeOKParts DEF IInv, RemoteInv, Crash
<1>2. /\ jobs' \in [Torrents -> Job] /\ tick' \in Ticks /\ SessionInv' /\ FallbackIsRecorded'
      /\ \A u \in Torrents : SubmissionDue(u)' => LacksProvider(jobs[u])
      /\ \A u \in Torrents : \A i \in 1..Parts : PackageDue(u, i)' => LacksPackages(jobs[u])
  BY <1>1, TickDropped
<1>3. tick \in Ticks /\ (AtWork => tick.t \in Torrents)
  BY <1>1, TypeOKParts DEF SessionInv, TickWellFormed
<1>4. unrecorded' \in SUBSET Torrents /\ unrecorded \subseteq unrecorded'
  BY <1>1, <1>3, TypeOKParts DEF AtWork, At
<1>5. TypeOK'
  BY <1>1, <1>2, <1>4, RestingTypes, TypeOKParts, TypesAfter DEF remotes
<1>6. WebseedsOwned' /\ CleanupHasRow' /\ HandedOver'
  BY <1>1 DEF IInv, RemoteInv, WebseedsOwned, CleanupHasRow, HandedOver, remotes
<1>7. ASSUME NEW u \in Torrents \ unrecorded', SubmissionDue(u)' PROVE SubmissionDue(u)
  <2>1. ~(tick.t = u /\ At("save_provider"))
    BY <1>1, <1>7 DEF At
  <2>2. QED
    BY <1>2, <1>7, <2>1 DEF SubmissionDue
<1>8. ASSUME NEW u \in Torrents \ unrecorded', NEW i \in 1..Parts, PackageDue(u, i)'
      PROVE  PackageDue(u, i)
  <2>1. tick.part \in 1..Parts
    BY <1>3 DEF Ticks
  <2>2. ~(tick.t = u /\ (At("save_fallback") \/ (At("links") /\ i < tick.part)))
    BY <1>1, <1>8, <2>1 DEF At
  <2>3. QED
    BY <1>2, <1>8, <2>2 DEF PackageDue
<1>9. SubmissionsCounted' /\ PackagesCounted'
  BY <1>1, <1>4, <1>7, <1>8, CountsKept DEF IInv, RemoteInv, remotes
<1>10. QED
  BY <1>2, <1>5, <1>6, <1>9 DEF IInv, RemoteInv

-----------------------------------------------------------------------------
LEMMA InitIInv == Init => IInv
<1> SUFFICES ASSUME Init PROVE IInv
  OBVIOUS
<1>1. /\ NoTorrent \notin Torrents /\ MaxSubmissions \in Nat
  BY AccelerationAssumption DEF AccelerationAssumption
<1>2. /\ tick = NoTick /\ tick.pc = "idle" /\ tick.t = NoTorrent /\ tick.todo = {}
      /\ \A u \in Torrents : tick.rows[u] = NoJob
      /\ \A u \in Torrents : jobs[u] = NoJob /\ born[u] = 0
      /\ NoJob.serial = 0 /\ NoJob.state = "discovered" /\ ~NoJob.myjd
  BY DEF Init, NoTick, NoJob
<1>3. TypeOK
  <2>1. qb \in [Torrents -> Torrent]
    BY DEF Init, Torrent
  <2>2. jobs \in [Torrents -> Job] /\ born \in [Torrents -> Nat]
    BY RestingTypes DEF Init
  <2>3. rd \in [1..MaxSubmissions -> [t : Torrents \cup {NoTorrent}, status : ProviderStates]]
    BY DEF Init, ProviderStates
  <2>4. packages \in [Torrents -> [1..Parts -> Nat]]
    BY DEF Init
  <2>5. tick \in Ticks /\ cleanup \in Cleanups
    BY RestingTypes DEF Init
  <2>6. QED
    BY <2>1, <2>2, <2>3, <2>4, <2>5, TypeOKParts DEF Init
<1>4. SessionInv
  BY <1>1, <1>2 DEF SessionInv, RowsWellFormed, SessionCurrent, RowIsCurrent, TickWellFormed,
                    OpenJobs, Working, HasRow, At, AtWork
<1>5. WebseedsOwned /\ CleanupHasRow
  BY DEF Init, WebseedsOwned, CleanupHasRow
<1>6. ASSUME NEW u \in Torrents
      PROVE  /\ Cardinality(Submissions(u)) = 0 /\ ~SubmissionDue(u)
             /\ \A i \in 1..Parts : packages[u][i] = 0 /\ ~PackageDue(u, i)
  <2>1. Submissions(u) = {}
    BY <1>1 DEF Submissions, Init
  <2>2. Cardinality(Submissions(u)) = 0
    BY <2>1, FS_EmptySet
  <2>3. QED
    BY <1>2, <2>2 DEF SubmissionDue, LacksProvider, PackageDue, LacksPackages, Init
<1>7. SubmissionsCounted /\ PackagesCounted
  BY <1>2, <1>6 DEF SubmissionsCounted, PackagesCounted
<1>8. FallbackIsRecorded /\ HandedOver
  BY <1>2 DEF FallbackIsRecorded, HandedOver
<1>9. QED
  BY <1>3, <1>4, <1>5, <1>7, <1>8 DEF IInv, RemoteInv

LEMMA TickCallStep ==
  ASSUME IInv, NEW reply \in Replies, TickCall(reply)
  PROVE  IInv'
<1>1. reply \in Replies \cup {"invalid"} /\ reply # "invalid"
  BY DEF Replies
<1>2. CASE AddTorrent(reply) \/ AddMagnet(reply)
  BY <1>1, <1>2, AddTorrentStep
<1>3. QED
  BY <1>2, ReadFilesStep, PollStep, SelectFilesStep, WebseedCallStep, AddWebseedsStep,
     UnrestrictStep, AddLinksStep, PlaceholderStep DEF TickCall

LEMMA NextIInv == IInv /\ [Next]_vars => IInv'
<1> SUFFICES ASSUME IInv, [Next]_vars PROVE IInv'
  OBVIOUS
<1>1. CASE TickNext
  BY <1>1, TickStartsStep, TickEndsStep, AdvanceStartsStep, TickCallStep, AddTorrentStep,
     SaveStep, SaveFallbackStep DEF TickNext
<1>2. CASE UserNext
  BY <1>2, RetryStep, AdoptOrQbittorrentStep, OpenCleanupStep, RemoveWebseedsStep, DeleteJobStep
  DEF UserNext, CleanupNext
<1>3. CASE WorldNext
  BY <1>3, BackoffElapsesStep, DeadlinePassesStep, AdoptOrQbittorrentStep, ProviderStep
  DEF WorldNext
<1>4. CASE Crash
  BY <1>4, CrashStep
<1>5. CASE UNCHANGED vars
  <2>1. /\ UNCHANGED <<jobs, born, overdue, qb, rd, packages, tick, cleanup, history, actions, faults>>
    BY <1>5 DEF vars, history
  <2>2. QED
    BY <2>1, TypeOKParts, WorldStep DEF IInv
<1>6. QED
  BY <1>1, <1>2, <1>3, <1>4, <1>5 DEF Next

\* The tick's session, the table and what was left with qBittorrent, Real-Debrid
\* and MyJDownloader agree at every moment, whatever calls fail, whatever rows
\* the routes change or delete meanwhile and wherever the process dies.
THEOREM AccelerationInvariance == Spec => []IInv
BY InitIInv, NextIInv, PTL DEF Spec

\* Every variable of the acceleration keeps its type.
THEOREM AccelerationTypes == Spec => []TypeOK
<1>1. IInv => TypeOK
  BY DEF IInv
<1>2. QED
  BY <1>1, AccelerationInvariance, PTL

\* run_once submits a job once: a torrent has no more Real-Debrid torrents, and no
\* more MyJDownloader packages of a group, than it ever had job rows, unless a
\* submission was accepted and never recorded.
THEOREM SubmittedOnce == Spec => []NoDuplicateSubmission
<1>1. IInv => NoDuplicateSubmission
  BY DEF IInv, RemoteInv, SubmissionsCounted, PackagesCounted, Submissions, NoDuplicateSubmission
<1>2. QED
  BY <1>1, AccelerationInvariance, PTL

\* _attach_webseed commits the URL before it attaches it, so that every web seed on
\* a torrent is in its row; only a cleanup that overlaps with it leaves one behind.
THEOREM SeedsAreOwned == Spec => []WebseedsOwned
<1>1. IInv => WebseedsOwned
  BY DEF IInv, RemoteInv
<1>2. QED
  BY <1>1, AccelerationInvariance, PTL

\* A job handed over by _fallback_to_myjd has its placeholder stopped and tagged if
\* no call failed and the process never died: the tick does both before it goes on,
\* and no step of the routes or of the world undoes either.
THEOREM HandedOverIsStopped == Spec => []PlaceholderStoppedUnlessInterrupted
<1>1. IInv => PlaceholderStoppedUnlessInterrupted
  BY DEF IInv, RemoteInv, FallbackIsRecorded, HandedOver, PlaceholderStoppedUnlessInterrupted,
         Working, At
<1>2. QED
  BY <1>1, AccelerationInvariance, PTL

-----------------------------------------------------------------------------
\* At work the tick changes no row but the one it advances.
LEMMA WorksOnOneRow ==
  ASSUME IInv,
         \/ \E reply \in Replies : TickCall(reply)
         \/ AddTorrent("invalid") \/ SaveProvider \/ SaveSelection \/ SaveAttached \/ SaveFallback
  PROVE  AtWork /\ \A u \in Torrents : u # tick.t => jobs'[u] = jobs[u]
<1>1. AtWork
  BY DEF TickCall, ReadFiles, AddTorrent, AddMagnet, Poll, SelectFiles, LookUpWebseeds,
         AddWebseeds, Unrestrict, AddLinks, StopTorrents, AddFallbackTag, SaveProvider,
         SaveSelection, SaveAttached, SaveFallback, At, AtWork
<1>2. jobs \in [Torrents -> Job] /\ tick.t \in Torrents
  BY <1>1, WorkFacts DEF IInv
<1> DEFINE OneRow == \A u \in Torrents : u # tick.t => jobs'[u] = jobs[u]
<1>3. UNCHANGED jobs => OneRow
  OBVIOUS
<1>4. Raised => OneRow
  BY <1>2 DEF Raised
<1>5. \A row, pc : SaveAnd(row, pc) => OneRow
  BY <1>2 DEF SaveAnd
<1>6. \A reply, pc : CallAnd(reply, pc) => OneRow
  BY <1>3, <1>4 DEF CallAnd
<1>7. \A reply : Submitted(reply) => OneRow
  BY <1>3, <1>4 DEF Submitted
<1> HIDE DEF OneRow
<1>8. \A reply : Poll(reply) => OneRow
  BY <1>3, <1>4, <1>5 DEF Poll, AttachRecords, SaveState, FallbackStarts
<1>9. \A reply : ReadFiles(reply) \/ AddTorrent(reply) \/ AddMagnet(reply) => OneRow
  BY <1>3, <1>4, <1>7 DEF ReadFiles, AddTorrent, AddMagnet
<1>10. \A reply, usable : Unrestrict(reply, usable) => OneRow
  BY <1>3, <1>4, <1>5 DEF Unrestrict, SaveState
<1>11. \A reply : AddLinks(reply) => OneRow
  BY <1>3, <1>4 DEF AddLinks
<1>12. \A reply : SelectFiles(reply) \/ LookUpWebseeds(reply) \/ AddWebseeds(reply)
                    \/ StopTorrents(reply) \/ AddFallbackTag(reply) => OneRow
  BY <1>6 DEF SelectFiles, LookUpWebseeds, AddWebseeds, StopTorrents, AddFallbackTag
<1>13. SaveProvider \/ SaveSelection \/ SaveAttached \/ SaveFallback => OneRow
  BY <1>5 DEF SaveProvider, SaveSelection, SaveAttached, SaveState, SaveFallback
<1>14. OneRow
  BY <1>8, <1>9, <1>10, <1>11, <1>12, <1>13 DEF TickCall
<1>15. QED
  BY <1>1, <1>14 DEF OneRow

LEMMA TickKeepsTerminal ==
  ASSUME IInv, TickNext, NEW t \in Torrents, HasRow(t), jobs[t].state \in Terminal
  PROVE  jobs'[t].state = jobs[t].state
<1>1. jobs \in [Torrents -> Job] /\ OpenJobs
  BY TypeOKParts DEF IInv, SessionInv
<1>2. CASE TickStarts \/ TickEnds
  BY <1>1, <1>2 DEF TickStarts, TickEnds
<1>3. ASSUME NEW u \in Torrents, AdvanceStarts(u) PROVE jobs'[t].state = jobs[t].state
  <2>1. t # u
    BY <1>1, <1>3 DEF OpenJobs, AdvanceStarts
  <2>2. QED
    BY <1>1, <1>3, <2>1 DEF AdvanceStarts
<1>4. CASE \/ \E reply \in Replies : TickCall(reply)
           \/ AddTorrent("invalid") \/ SaveProvider \/ SaveSelection \/ SaveAttached \/ SaveFallback
  <2>1. t # tick.t
    BY <1>4, WorksOnOneRow, WorkFacts DEF IInv
  <2>2. QED
    BY <1>4, <2>1, WorksOnOneRow
<1>5. QED
  BY <1>2, <1>3, <1>4 DEF TickNext

\* Only a retry or a cleanup takes a job out of a terminal state: the tick skips
\* finished jobs when it starts and, as it alone finishes jobs, none of those it
\* still has before it is finished, however old the row it goes on with.
THEOREM TerminalStaysFinal == Spec => TerminalIsFinal
<1> DEFINE Kept == \A t \in Torrents :
             (HasRow(t) /\ jobs[t].state \in Terminal /\ jobs'[t].state # jobs[t].state) =>
                \/ jobs'[t].serial = 0
                \/ jobs'[t].state = RetryState(jobs[t]) /\ actions' = actions + 1
<1>1. IInv /\ [Next]_vars => [Kept]_vars
  <2>1. SUFFICES ASSUME IInv, Next, NEW t \in Torrents, HasRow(t), jobs[t].state \in Terminal,
                        jobs'[t].state # jobs[t].state
                 PROVE  \/ jobs'[t].serial = 0
                        \/ jobs'[t].state = RetryState(jobs[t]) /\ actions' = actions + 1
    OBVIOUS
  <2>2. jobs \in [Torrents -> Job]
    BY <2>1, TypeOKParts DEF IInv
  <2>3. ~TickNext /\ ~Crash
    BY <2>1, TickKeepsTerminal DEF Crash
  <2>4. CASE WorldNext
    <3>1. jobs'[t].state = jobs[t].state
      BY <2>2, <2>4 DEF WorldNext, BackoffElapses, DeadlinePasses, MetadataArrives,
         DownloadCompletes, ProviderWorks, SelectedElsewhere, ProviderFails, Job
    <3>2. QED
      BY <2>1, <3>1
  <2>5. ASSUME NEW u \in Torrents, Retry(u)
        PROVE  jobs'[t].state = RetryState(jobs[t]) /\ actions' = actions + 1
    <3>1. t = u
      BY <2>1, <2>2, <2>5 DEF Retry
    <3>2. QED
      BY <2>2, <2>5, <3>1 DEF Retry, UserActs, Job
  <2>6. CASE DeleteJob
    BY <2>1, <2>2, <2>6 DEF DeleteJob, NoJob
  <2>7. QED
    BY <2>1, <2>3, <2>4, <2>5, <2>6 DEF Next, UserNext, CleanupNext, Adopt, OpenCleanup, RemoveWebseeds
<1>2. QED
  BY <1>1, AccelerationInvariance, PTL DEF Spec, TerminalIsFinal

=============================================================================
