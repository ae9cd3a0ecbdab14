---------------------------- MODULE Acceleration ----------------------------
(***************************************************************************)
(* Real-Debrid acceleration of managed torrents                            *)
(* (app/services/download_acceleration.py, run by the one thread of        *)
(* download_acceleration_scheduler.py): every tick lists the managed       *)
(* torrents, makes sure each has a job row, and advances the most urgent   *)
(* jobs one after the other by calls to qBittorrent, Real-Debrid and       *)
(* MyJDownloader, committing the row in between.  The retry, cleanup and   *)
(* adopt routes (app/routes/api.py) run beside it in sessions of their     *)
(* own.  The remote services and the clock are part of the model.          *)
(*                                                                         *)
(* A tick works on the rows it loaded when it began; a rollback drops them *)
(* from its session.  A commit writes the columns the session changed, and *)
(* fails if the row is gone.                                               *)
(***************************************************************************)
EXTENDS Naturals, FiniteSets

CONSTANTS Torrents,        \* infohashes
          NoTorrent,
          AddedOn,         \* when qBittorrent got each torrent
          Adoptable,       \* torrents that may lack the managed tag at first
          Sensitive,       \* torrents whose metainfo may not be uploaded
          MyJdConfigured,  \* MyJDownloader is enabled and configured
          MaxJobsPerTick,  \* MAX_JOBS_PER_TICK
          Parts,           \* number of link groups of a fallback
          MaxSubmissions,  \* bound on Real-Debrid torrents
          MaxActions,      \* bound on user requests
          MaxFaults        \* bound on failed calls and crashes, together

ASSUME AccelerationAssumption ==
  /\ NoTorrent \notin Torrents
  /\ IsFiniteSet(Torrents)
  /\ AddedOn \in [Torrents -> Nat]
  /\ Adoptable \subseteq Torrents /\ Sensitive \subseteq Torrents
  /\ MyJdConfigured \in BOOLEAN
  /\ MaxJobsPerTick \in Nat \ {0} /\ Parts \in Nat \ {0}
  /\ MaxSubmissions \in Nat /\ MaxActions \in Nat /\ MaxFaults \in Nat

VARIABLES
  jobs,        \* the download_acceleration_jobs table, by infohash
  born,        \* job rows created so far, by infohash
  overdue,     \* jobs whose metadata_deadline_at has passed
  qb,          \* what qBittorrent knows of each torrent
  rd,          \* the torrents of the Real-Debrid account
  packages,    \* packages[t][i]: times MyJDownloader accepted group i of t
  tick,        \* the running tick
  cleanup,     \* an open cleanup request
  unrecorded,  \* history: a submission was accepted and never recorded
  raced,       \* history: a web seed was attached under a cleanup
  actions, faults

remotes == <<qb, rd, packages>>
history == <<unrecorded, raced>>
vars == <<jobs, born, overdue, qb, rd, packages, tick, cleanup, unrecorded, raced,
          actions, faults>>

-----------------------------------------------------------------------------
Terminal == {"completed", "terminal_error"}   \* nothing sets "skipped"

JobStates == Terminal \cup
  {"discovered", "metadata_wait", "provider_submitted", "provider_downloading",
   "webseed_attached", "fallback_progress", "metadata_unavailable", "retry_wait"}

\* A job row.  serial 0 stands for "no row"; provider 0 for no provider id; url
\* for app_webseed_urls, which holds one URL with the row's own token; wait for
\* a next_retry_at in the future.
Job == [serial : Nat, state : JobStates, provider : Nat, selected : BOOLEAN,
        url : BOOLEAN, myjd : BOOLEAN, wait : BOOLEAN]

NoJob == [serial |-> 0, state |-> "discovered", provider |-> 0, selected |-> FALSE,
          url |-> FALSE, myjd |-> FALSE, wait |-> FALSE]

\* A torrent of the Real-Debrid account.  Files must be selected before it
\* downloads; it has links from "uploading" on.
ProviderStates == {"unused", "converting", "waiting", "downloading", "uploading",
                   "downloaded", "dead"}

HasLinks(status) == status \in {"uploading", "downloaded"}

TickPcs == {"idle", "next", "files", "submit", "magnet", "save_provider", "poll",
            "select", "save_selection", "lookup_seeds", "add_seeds", "save_attached",
            "unrestrict", "links", "save_fallback", "stop", "tag"}

NoTick == [pc |-> "idle", t |-> NoTorrent, rows |-> [u \in Torrents |-> NoJob],
           done |-> {}, resting |-> {}, todo |-> {}, metadata |-> FALSE, new |-> 0, part |-> 1]

NoCleanup == [t |-> NoTorrent, serial |-> 0, pending |-> FALSE]

TypeOK ==
  /\ jobs \in [Torrents -> Job]
  /\ born \in [Torrents -> Nat]
  /\ overdue \in SUBSET Torrents
  /\ qb \in [Torrents -> [managed : BOOLEAN, metadata : BOOLEAN, done : BOOLEAN,
                          stopped : BOOLEAN, tagged : BOOLEAN, seeds : SUBSET Nat]]
  /\ rd \in [1..MaxSubmissions -> [t : Torrents \cup {NoTorrent}, status : ProviderStates]]
  /\ packages \in [Torrents -> [1..Parts -> Nat]]
  /\ tick \in [pc : TickPcs, t : Torrents \cup {NoTorrent}, rows : [Torrents -> Job],
               done : SUBSET Torrents, resting : SUBSET Torrents,
               todo : SUBSET Torrents, metadata : BOOLEAN, new : Nat, part : 1..Parts]
  /\ cleanup \in [t : Torrents \cup {NoTorrent}, serial : Nat, pending : BOOLEAN]
  /\ unrecorded \in SUBSET Torrents
  /\ raced \in SUBSET Torrents
  /\ actions \in Nat /\ faults \in Nat

Init ==
  /\ jobs = [t \in Torrents |-> NoJob]
  /\ born = [t \in Torrents |-> 0]
  /\ overdue = {}
  /\ qb \in [Torrents -> [managed : BOOLEAN, metadata : BOOLEAN, done : {FALSE},
                          stopped : {FALSE}, tagged : {FALSE}, seeds : {{}}]]
  /\ \A t \in Torrents \ Adoptable : qb[t].managed
  /\ rd = [p \in 1..MaxSubmissions |-> [t |-> NoTorrent, status |-> "unused"]]
  /\ packages = [t \in Torrents |-> [i \in 1..Parts |-> 0]]
  /\ tick = NoTick
  /\ cleanup = NoCleanup
  /\ unrecorded = {}
  /\ raced = {}
  /\ actions = 0
  /\ faults = 0

-----------------------------------------------------------------------------
HasRow(t) == jobs[t].serial # 0

\* The row a session loaded is still in the table.
Current(t, serial) == serial # 0 /\ jobs[t].serial = serial

Written(stored, loaded, new) == IF new = loaded THEN stored ELSE new

\* The columns a commit writes over the stored row.
Merged(stored, loaded, new) ==
  [c \in DOMAIN stored |-> Written(stored[c], loaded[c], new[c])]

Replies == {"answered", "lost", "failed"}

Answered(reply) == reply = "answered"

TakesEffect(reply) == reply \in {"answered", "lost"}

Fault(reply) ==
  IF Answered(reply) THEN UNCHANGED faults
                     ELSE faults < MaxFaults /\ faults' = faults + 1

Row == tick.rows[tick.t]

At(pc) == tick.pc = pc

Goto(pc) == tick' = [tick EXCEPT !.pc = pc]

\* _save: next_retry_at is cleared and the row committed; a row that is gone
\* raises, and the handler in run_once raises again when it reads job.id.
SaveAnd(row, pc) ==
  IF Current(tick.t, Row.serial)
  THEN /\ jobs' = [jobs EXCEPT ![tick.t] = Merged(@, Row, [row EXCEPT !.wait = FALSE])]
       /\ tick' = [tick EXCEPT !.pc = pc,
                               !.rows = [@ EXCEPT ![tick.t] = [row EXCEPT !.wait = FALSE]]]
  ELSE tick' = NoTick /\ UNCHANGED jobs

SaveState(state) == SaveAnd([Row EXCEPT !.state = state], "next")

\* run_once, lines 194-207: roll back, count the retry and go on with the next
\* job; the session forgets every row (serial 0) and reads it anew at first use.
Raised ==
  IF Current(tick.t, Row.serial)
  THEN /\ jobs' = [jobs EXCEPT ![tick.t].state = "retry_wait", ![tick.t].wait = TRUE]
       /\ tick' = [tick EXCEPT !.pc = "next", !.rows = NoTick.rows]
  ELSE tick' = NoTick /\ UNCHANGED jobs

\* A call of the tick: on with the job, or an exception.
CallAnd(reply, pc) ==
  /\ Fault(reply)
  /\ IF Answered(reply) THEN Goto(pc) /\ UNCHANGED jobs ELSE Raised

-----------------------------------------------------------------------------
\* Mutant: the oldest torrent comes first.
BeforeByAge(resting, a, b) ==
  \/ a \notin resting /\ b \in resting
  \/ (a \in resting <=> b \in resting) /\ AddedOn[a] < AddedOn[b]

\* _job_priority: running downloads first (resting ones are stopped or done),
\* then the newest.
Before(resting, a, b) ==
  \/ a \notin resting /\ b \in resting
  \/ (a \in resting <=> b \in resting) /\ AddedOn[a] > AddedOn[b]

\* The first MAX_JOBS_PER_TICK of the sorted list.
Leading(resting, S) ==
  {t \in S : Cardinality({u \in S : Before(resting, u, t)}) < MaxJobsPerTick}

\* Mutants: finished jobs are advanced again; failed jobs never are.
IsDue(row) == ~row.wait

IsReadyUnlessFailed(row) == row.state \notin Terminal \cup {"retry_wait"} /\ ~row.wait

\* run_once, lines 178-186.
IsReady(row) == row.state \notin Terminal /\ ~row.wait

\* discover_managed_torrents and run_once up to its loop.
TickStarts ==
  LET managed == {t \in Torrents : qb[t].managed}
      found == {t \in managed : ~HasRow(t)}
      known == [t \in Torrents |->
                  IF t \in found THEN [NoJob EXCEPT !.serial = born[t] + 1] ELSE jobs[t]]
      resting == {t \in managed : qb[t].stopped \/ qb[t].done}
      ready == {t \in managed : IsReady(known[t])}
  IN /\ At("idle")
     /\ managed # {}
     /\ jobs' = known
     /\ born' = [t \in Torrents |-> IF t \in found THEN born[t] + 1 ELSE born[t]]
     /\ overdue' = overdue \ found
     /\ tick' = [NoTick EXCEPT !.pc = "next", !.rows = known,
                               !.done = {t \in managed : qb[t].done},
                               !.resting = resting,
                               !.todo = Leading(resting, ready)]
     /\ UNCHANGED <<remotes, cleanup, history, actions, faults>>

TickEnds ==
  /\ At("next")
  /\ tick.todo = {}
  /\ tick' = NoTick
  /\ UNCHANGED <<jobs, born, overdue, remotes, cleanup, history, actions, faults>>

\* _advance, lines 256-261.  A row read anew that is gone ends the tick.
AdvanceStarts(t) ==
  LET row == IF tick.rows[t].serial = 0 THEN jobs[t] ELSE tick.rows[t]
      here == [tick EXCEPT !.t = t, !.todo = @ \ {t}, !.rows = [@ EXCEPT ![t] = row]]
  IN /\ At("next")
     /\ t \in tick.todo
     /\ \A u \in tick.todo \ {t} : ~Before(tick.resting, u, t)
     /\ IF row.serial = 0
        THEN tick' = NoTick /\ UNCHANGED jobs
        ELSE IF t \in tick.done
        THEN IF Current(t, row.serial)
             THEN /\ jobs' = [jobs EXCEPT ![t] =
                        Merged(@, row, [row EXCEPT !.state = "completed", !.wait = FALSE])]
                  /\ tick' = here
             ELSE tick' = NoTick /\ UNCHANGED jobs
        ELSE tick' = [here EXCEPT !.pc = "files", !.part = 1] /\ UNCHANGED jobs
     /\ UNCHANGED <<born, overdue, remotes, cleanup, history, actions, faults>>

\* Mutant: every failed job is submitted again.
NeedsProviderUnlessKnown(row) == row.provider = 0 \/ row.state = "retry_wait"

\* Line 264.
NeedsProvider(row) == row.provider = 0

\* Lines 262-263: get_torrent_files; torrents with metadata have files.
ReadFiles(reply) ==
  /\ At("files")
  /\ reply # "lost"
  /\ Fault(reply)
  /\ IF Answered(reply)
     THEN /\ tick' = [tick EXCEPT !.metadata = qb[tick.t].metadata,
                                  !.pc = IF NeedsProvider(Row) THEN "submit" ELSE "poll"]
          /\ UNCHANGED jobs
     ELSE Raised
  /\ UNCHANGED <<born, overdue, remotes, cleanup, history, actions>>

\* A new torrent in the Real-Debrid account; only an answer tells its id.
Submitted(reply) ==
  LET free == {p \in DOMAIN rd : rd[p].status = "unused"}
      id == CHOOSE p \in free : \A q \in free : p <= q
  IN /\ Fault(reply)
     /\ TakesEffect(reply) => free # {}
     /\ rd' = IF TakesEffect(reply)
              THEN [rd EXCEPT ![id] = [t |-> tick.t, status |-> "converting"]]
              ELSE rd
     /\ unrecorded' = IF reply = "lost" THEN unrecorded \cup {tick.t} ELSE unrecorded
     /\ IF Answered(reply)
        THEN tick' = [tick EXCEPT !.pc = "save_provider", !.new = id] /\ UNCHANGED jobs
        ELSE Raised

\* _submit_to_real_debrid with metadata: export the metainfo (a read), then
\* upload it; "invalid" is torrent_file_invalid, answered with a magnet.
AddTorrent(reply) ==
  /\ At("submit")
  /\ tick.metadata /\ tick.t \notin Sensitive
  /\ IF reply = "invalid"
     THEN Goto("magnet") /\ UNCHANGED <<jobs, rd, unrecorded, faults>>
     ELSE Submitted(reply)
  /\ UNCHANGED <<born, overdue, qb, packages, cleanup, raced, actions>>

\* add_magnet: no metadata, sensitive metainfo, or a refused file.
AddMagnet(reply) ==
  /\ At("magnet") \/ (At("submit") /\ (tick.metadata => tick.t \in Sensitive))
  /\ Submitted(reply)
  /\ UNCHANGED <<born, overdue, qb, packages, cleanup, raced, actions>>

\* Lines 267-271.
SaveProvider ==
  /\ At("save_provider")
  /\ SaveAnd([Row EXCEPT !.provider = tick.new, !.state = "provider_submitted"], "poll")
  /\ UNCHANGED <<born, overdue, remotes, cleanup, history, actions, faults>>

-----------------------------------------------------------------------------
\* Mutant: the URL is attached before it is recorded.
AttachFirst == Goto("lookup_seeds") /\ UNCHANGED jobs

\* _attach_webseed up to the commit of the URL.
AttachRecords == SaveAnd([Row EXCEPT !.selected = TRUE, !.url = TRUE], "lookup_seeds")

\* _fallback_to_myjd up to its first call.
FallbackStarts ==
  IF Row.myjd THEN SaveState("fallback_progress")
  ELSE IF ~MyJdConfigured THEN SaveState("metadata_unavailable")
  ELSE Goto("unrestrict") /\ UNCHANGED jobs

\* _advance, lines 272-311: get_torrent, and what its answer leads to.  The
\* files match, or the exception of line 278 or 355 is raised (a fault).
Poll(reply) ==
  LET status == rd[Row.provider].status
  IN /\ At("poll")
     /\ reply # "lost"
     /\ Fault(reply)
     /\ IF ~Answered(reply) THEN Raised
        ELSE IF status = "waiting" /\ tick.metadata
        THEN Goto("select") /\ UNCHANGED jobs
        ELSE IF status = "downloaded" /\ tick.metadata THEN AttachRecords
        ELSE IF status = "dead" THEN SaveState("terminal_error")
        ELSE IF HasLinks(status) /\ ~tick.metadata /\ tick.t \in overdue THEN FallbackStarts
        ELSE SaveState(IF tick.metadata THEN "provider_downloading" ELSE "metadata_wait")
     /\ UNCHANGED <<born, overdue, remotes, cleanup, history, actions>>

\* Lines 280-283: select_files.
SelectFiles(reply) ==
  /\ At("select")
  /\ rd' = IF TakesEffect(reply) /\ rd[Row.provider].status = "waiting"
           THEN [rd EXCEPT ![Row.provider].status = "downloading"]
           ELSE rd
  /\ CallAnd(reply, "save_selection")
  /\ UNCHANGED <<born, overdue, qb, packages, cleanup, history, actions>>

\* Lines 284-287.
SaveSelection ==
  /\ At("save_selection")
  /\ SaveAnd([Row EXCEPT !.selected = TRUE, !.state = "provider_downloading"], "next")
  /\ UNCHANGED <<born, overdue, remotes, cleanup, history, actions, faults>>

\* Line 368: get_webseeds.
LookUpWebseeds(reply) ==
  /\ At("lookup_seeds")
  /\ reply # "lost"
  /\ CallAnd(reply, IF Row.serial \in qb[tick.t].seeds THEN "save_attached" ELSE "add_seeds")
  /\ UNCHANGED <<born, overdue, remotes, cleanup, history, actions>>

\* Line 369: add_webseeds, possibly under the hands of a cleanup.
AddWebseeds(reply) ==
  /\ At("add_seeds")
  /\ IF TakesEffect(reply)
     THEN /\ qb' = [qb EXCEPT ![tick.t].seeds = @ \cup {Row.serial}]
          /\ raced' = raced \cup {t \in {tick.t} :
                                    cleanup.t = t \/ ~Current(t, Row.serial)}
     ELSE UNCHANGED <<qb, raced>>
  /\ CallAnd(reply, "save_attached")
  /\ UNCHANGED <<born, overdue, rd, packages, cleanup, unrecorded, actions>>

\* Lines 370-371.
SaveAttached ==
  /\ At("save_attached")
  /\ SaveState("webseed_attached")
  /\ UNCHANGED <<born, overdue, remotes, cleanup, history, actions, faults>>

-----------------------------------------------------------------------------
\* _fallback_to_myjd, lines 389-399: unrestrict_link for every link; usable says
\* whether any link came of it.
Unrestrict(reply, usable) ==
  /\ At("unrestrict")
  /\ reply # "lost"
  /\ Fault(reply)
  /\ IF ~Answered(reply) THEN Raised
     ELSE IF usable THEN Goto("links") /\ UNCHANGED jobs
     ELSE SaveState("metadata_unavailable")
  /\ UNCHANGED <<born, overdue, remotes, cleanup, history, actions>>

\* Mutant: one group too many.
IsNotTheLast(part) == part <= Parts

\* Line 404, the loop over the groups.
HasNextGroup(part) == part < Parts

\* Lines 400-417: add_links, once for each group.
AddLinks(reply) ==
  /\ At("links")
  /\ packages' = IF TakesEffect(reply)
                 THEN [packages EXCEPT ![tick.t][tick.part] = @ + 1]
                 ELSE packages
  /\ unrecorded' = IF ~Answered(reply) /\ (tick.part > 1 \/ reply = "lost")
                   THEN unrecorded \cup {tick.t}
                   ELSE unrecorded
  /\ Fault(reply)
  /\ IF ~Answered(reply) THEN Raised
     ELSE /\ tick' = IF HasNextGroup(tick.part) THEN [tick EXCEPT !.part = @ + 1]
                     ELSE [tick EXCEPT !.pc = "save_fallback"]
          /\ UNCHANGED jobs
  /\ UNCHANGED <<born, overdue, qb, rd, cleanup, raced, actions>>

\* Mutant: the job ends with its commit.
SaveFallbackOnly ==
  /\ At("save_fallback")
  /\ SaveAnd([Row EXCEPT !.myjd = TRUE, !.state = "fallback_progress"], "next")
  /\ UNCHANGED <<born, overdue, remotes, cleanup, history, actions, faults>>

\* Lines 418-421.
SaveFallback ==
  /\ At("save_fallback")
  /\ SaveAnd([Row EXCEPT !.myjd = TRUE, !.state = "fallback_progress"], "stop")
  /\ UNCHANGED <<born, overdue, remotes, cleanup, history, actions, faults>>

\* Line 422.
StopTorrents(reply) ==
  /\ At("stop")
  /\ qb' = IF TakesEffect(reply) THEN [qb EXCEPT ![tick.t].stopped = TRUE] ELSE qb
  /\ CallAnd(reply, "tag")
  /\ UNCHANGED <<born, overdue, rd, packages, cleanup, history, actions>>

\* Line 423.
AddFallbackTag(reply) ==
  /\ At("tag")
  /\ qb' = IF TakesEffect(reply) THEN [qb EXCEPT ![tick.t].tagged = TRUE] ELSE qb
  /\ CallAnd(reply, "next")
  /\ UNCHANGED <<born, overdue, rd, packages, cleanup, history, actions>>

-----------------------------------------------------------------------------
UserActs ==
  /\ actions < MaxActions
  /\ actions' = actions + 1

\* retry_acceleration_job
RetryState(row) == IF row.provider = 0 THEN "discovered" ELSE "provider_submitted"

Retry(t) ==
  /\ UserActs
  /\ HasRow(t)
  /\ jobs' = [jobs EXCEPT ![t].state = RetryState(jobs[t]), ![t].wait = FALSE]
  /\ UNCHANGED <<born, overdue, remotes, tick, cleanup, history, faults>>

\* adopt_existing_rule_torrents
Adopt(t) ==
  /\ UserActs
  /\ ~qb[t].managed /\ ~qb[t].done
  /\ qb' = [qb EXCEPT ![t].managed = TRUE]
  /\ UNCHANGED <<jobs, born, overdue, rd, packages, tick, cleanup, history, faults>>

\* cleanup_acceleration_job: load the row, ...
OpenCleanup(t) ==
  /\ UserActs
  /\ cleanup = NoCleanup
  /\ HasRow(t)
  /\ cleanup' = [t |-> t, serial |-> jobs[t].serial, pending |-> jobs[t].url]
  /\ UNCHANGED <<jobs, born, overdue, remotes, tick, history, faults>>

\* ... take the recorded URLs off the torrent (a failure ends the request), ...
RemoveWebseeds(reply) ==
  /\ cleanup.pending
  /\ Fault(reply)
  /\ qb' = IF TakesEffect(reply)
           THEN [qb EXCEPT ![cleanup.t].seeds = @ \ {cleanup.serial}]
           ELSE qb
  /\ cleanup' = IF Answered(reply) THEN [cleanup EXCEPT !.pending = FALSE] ELSE NoCleanup
  /\ UNCHANGED <<jobs, born, overdue, rd, packages, tick, history, actions>>

\* ... and delete the row; qBittorrent keeps the managed tag.
DeleteJob ==
  /\ cleanup # NoCleanup
  /\ ~cleanup.pending
  /\ jobs' = IF Current(cleanup.t, cleanup.serial)
             THEN [jobs EXCEPT ![cleanup.t] = NoJob]
             ELSE jobs
  /\ cleanup' = NoCleanup
  /\ UNCHANGED <<born, overdue, remotes, tick, history, actions, faults>>

\* The process dies and starts again.
Crash ==
  /\ faults < MaxFaults
  /\ faults' = faults + 1
  /\ tick' = NoTick
  /\ cleanup' = NoCleanup
  /\ unrecorded' = IF \/ tick.pc \in {"save_provider", "save_fallback"}
                      \/ At("links") /\ tick.part > 1
                   THEN unrecorded \cup {tick.t}
                   ELSE unrecorded
  /\ UNCHANGED <<jobs, born, overdue, remotes, raced, actions>>

-----------------------------------------------------------------------------
\* The clock.
BackoffElapses(t) ==
  /\ jobs[t].wait
  /\ jobs' = [jobs EXCEPT ![t].wait = FALSE]
  /\ UNCHANGED <<born, overdue, remotes, tick, cleanup, history, actions, faults>>

DeadlinePasses(t) ==
  /\ HasRow(t)
  /\ t \notin overdue
  /\ overdue' = overdue \cup {t}
  /\ UNCHANGED <<jobs, born, remotes, tick, cleanup, history, actions, faults>>

\* qBittorrent finds metadata among peers, and completes downloads.
MetadataArrives(t) ==
  /\ ~qb[t].metadata /\ ~qb[t].stopped
  /\ qb' = [qb EXCEPT ![t].metadata = TRUE]
  /\ UNCHANGED <<jobs, born, overdue, rd, packages, tick, cleanup, history, actions, faults>>

DownloadCompletes(t) ==
  /\ qb[t].metadata /\ ~qb[t].done /\ ~qb[t].stopped
  /\ qb' = [qb EXCEPT ![t].done = TRUE]
  /\ UNCHANGED <<jobs, born, overdue, rd, packages, tick, cleanup, history, actions, faults>>

\* Real-Debrid works; "waiting" ends by select_files, by the account's owner on
\* Real-Debrid's own site, or by an error.
ProviderWorks(p) ==
  /\ rd[p].status \in {"converting", "downloading", "uploading"}
  /\ rd' = [rd EXCEPT ![p].status = CASE @ = "converting" -> "waiting"
                                      [] @ = "downloading" -> "uploading"
                                      [] @ = "uploading" -> "downloaded"]
  /\ UNCHANGED <<jobs, born, overdue, qb, packages, tick, cleanup, history, actions, faults>>

SelectedElsewhere(p) ==
  /\ rd[p].status = "waiting"
  /\ rd' = [rd EXCEPT ![p].status = "downloading"]
  /\ UNCHANGED <<jobs, born, overdue, qb, packages, tick, cleanup, history, actions, faults>>

ProviderFails(p) ==
  /\ rd[p].status \in {"converting", "waiting", "downloading", "uploading"}
  /\ rd' = [rd EXCEPT ![p].status = "dead"]
  /\ UNCHANGED <<jobs, born, overdue, qb, packages, tick, cleanup, history, actions, faults>>

-----------------------------------------------------------------------------
TickCall(reply) ==
  \/ ReadFiles(reply)
  \/ AddTorrent(reply)
  \/ AddMagnet(reply)
  \/ Poll(reply)
  \/ SelectFiles(reply)
  \/ LookUpWebseeds(reply)
  \/ AddWebseeds(reply)
  \/ \E usable \in BOOLEAN : Unrestrict(reply, usable)
  \/ AddLinks(reply)
  \/ StopTorrents(reply)
  \/ AddFallbackTag(reply)

TickNext ==
  \/ TickStarts
  \/ TickEnds
  \/ \E t \in Torrents : AdvanceStarts(t)
  \/ \E reply \in Replies : TickCall(reply)
  \/ AddTorrent("invalid")
  \/ SaveProvider
  \/ SaveSelection
  \/ SaveAttached
  \/ SaveFallback

CleanupNext == (\E reply \in Replies : RemoveWebseeds(reply)) \/ DeleteJob

UserNext ==
  \/ \E t \in Torrents : Retry(t) \/ Adopt(t) \/ OpenCleanup(t)
  \/ CleanupNext

WorldNext ==
  \/ \E t \in Torrents :
       \/ BackoffElapses(t)
       \/ DeadlinePasses(t)
       \/ MetadataArrives(t)
       \/ DownloadCompletes(t)
  \/ \E p \in 1..MaxSubmissions :
       ProviderWorks(p) \/ SelectedElsewhere(p) \/ ProviderFails(p)

Next == TickNext \/ UserNext \/ WorldNext \/ Crash

Spec == Init /\ [][Next]_vars

\* The scheduler's thread ticks for ever and its HTTP clients carry timeouts;
\* requests are served; time passes; Real-Debrid works on what it accepted.
\* Nothing is assumed of peers: metadata may never arrive.
Fairness ==
  /\ WF_vars(TickNext)
  /\ WF_vars(CleanupNext)
  /\ \A t \in Torrents : WF_vars(BackoffElapses(t)) /\ WF_vars(DeadlinePasses(t))
  /\ \A p \in 1..MaxSubmissions : WF_vars(ProviderWorks(p))

FairSpec == Spec /\ Fairness

-----------------------------------------------------------------------------
\* A job is submitted once: as long as no accepted submission went unrecorded
\* (its answer lost, or the process killed before the commit), Real-Debrid holds
\* one torrent, and MyJDownloader one package per group, for every job row the
\* torrent ever had - whatever calls fail and wherever else the process dies.
NoDuplicateSubmission ==
  \A t \in Torrents \ unrecorded :
    /\ Cardinality({p \in 1..MaxSubmissions : rd[p].t = t}) <= born[t]
    /\ \A i \in 1..Parts : packages[t][i] <= born[t]

\* Every web seed of ours on a torrent is in its job row, so that a cleanup can
\* find it; only a cleanup that overlaps the attachment leaves one behind.
WebseedsOwned ==
  \A t \in Torrents \ raced :
    qb[t].seeds \subseteq (IF jobs[t].url THEN {jobs[t].serial} ELSE {})

Working(t) == tick.t = t /\ tick.pc \notin {"idle", "next"}

\* A job handed over to JDownloader has its placeholder stopped and tagged, if
\* no call failed and the process was never killed.
PlaceholderStoppedUnlessInterrupted ==
  faults = 0 =>
    \A t \in Torrents : jobs[t].state = "fallback_progress" /\ ~Working(t) =>
                          qb[t].stopped /\ qb[t].tagged

\* What docs/plans/phase-36 says: once accepted, stop and tag the placeholder.
PlaceholderStopped ==
  \A t \in Torrents : jobs[t].state = "fallback_progress" /\ ~Working(t) =>
                        qb[t].stopped /\ qb[t].tagged

\* The tick leaves a finished job alone although it commits rows it loaded
\* earlier: only a retry or a cleanup takes a job out of a terminal state.
TerminalIsFinal ==
  [][\A t \in Torrents :
       (HasRow(t) /\ jobs[t].state \in Terminal /\ jobs'[t].state # jobs[t].state) =>
          \/ jobs'[t].serial = 0
          \/ jobs'[t].state = RetryState(jobs[t]) /\ actions' = actions + 1]_vars

Settled(t) ==
  jobs[t].state \in Terminal \cup {"webseed_attached", "fallback_progress"}

\* A job of a torrent with metadata gets somewhere: failures are retried until
\* it is attached, finished or in the hands of JDownloader (or cleaned up).
JobsSettle ==
  \A t \in Torrents :
    (HasRow(t) /\ qb[t].managed /\ qb[t].metadata) ~> (Settled(t) \/ ~HasRow(t))

\* The newest running download is served however many older jobs are polled at
\* every tick: its job gets somewhere, with as little as one job a tick.
NewestActiveSettles ==
  \A t \in Torrents :
    (\A u \in Torrents \ {t} : AddedOn[t] > AddedOn[u]) =>
      ((HasRow(t) /\ qb[t].managed /\ qb[t].metadata) ~>
         (Settled(t) \/ ~HasRow(t) \/ qb[t].done \/ qb[t].stopped))

\* What docs/plans/phase-36 says: magnets without metadata fall back after the
\* timeout.
MetadataLessFallsBack ==
  \A t \in Torrents :
    (HasRow(t) /\ t \in overdue) ~>
      (Settled(t) \/ ~HasRow(t) \/ qb[t].metadata \/ jobs[t].state = "metadata_unavailable")
=============================================================================
