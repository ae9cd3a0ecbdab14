----------------------------- MODULE RuleFetch -----------------------------
(***************************************************************************)
(* Fetching release snapshots: app/services/rule_fetch_queue.py (the       *)
(* in-memory queue of new rules and its worker thread),                    *)
(* rule_fetch_scheduler.py (the thread that finds what is due in the       *)
(* database) and rule_fetch_ops.py (the selector, the batch both of them   *)
(* and the user's requests run, and the bookkeeping of failures).          *)
(*                                                                         *)
(* One batch runs at a time: whoever finds _RULE_FETCH_RUN_LOCK taken is   *)
(* answered "busy".  A batch tries every rule once, in sessions of their   *)
(* own when it runs in parallel and in the caller's session otherwise,     *)
(* tries the failed ones once more in the caller's session, and only then  *)
(* writes what came of each rule.                                          *)
(***************************************************************************)
EXTENDS Integers, Sequences, FiniteSets, SequencesExt

CONSTANTS Rules,         \* primary keys of the rules table
          NoRule,        \* the rule of an idle worker
          BatchLimit,    \* MAX_AUTOMATIC_RULE_FETCHES_PER_TICK
          Parallelism,   \* rules_fetch_parallelism
          MaxActions,    \* bound on what users, time and shutdowns do
          MaxFaults      \* bound on failed searches, errors and crashes

ASSUME RuleFetchAssumption ==
  /\ NoRule \notin Rules
  /\ IsFiniteSet(Rules)
  /\ BatchLimit \in Nat \ {0}
  /\ Parallelism \in Nat \ {0}
  /\ MaxActions \in Nat
  /\ MaxFaults \in Nat

VARIABLES
  rule,      \* the rows of the rules table
  settings,  \* the schedule, and whether Jackett is configured
  app,       \* the process: up, stopping (_STOP_EVENT is set), down
  owed,      \* rules committed by a handler that has yet to enqueue them
  queue,     \* _RULE_IDS
  reserved,  \* _RULE_ID_SET
  worker,    \* _worker_loop; "none": _WORKER is None; "dead": it raised
  sched,     \* the rule-fetch-scheduler thread
  batch,     \* run_rules_fetch_batch of the caller that holds the run lock
  stranded,  \* history: ids in the hands of a worker when it died
  budget     \* what is left of MaxActions and MaxFaults

vars == <<rule, settings, app, owed, queue, reserved, worker, sched, batch,
          stranded, budget>>

queueVars == <<owed, queue, reserved, stranded>>

-----------------------------------------------------------------------------
Modes == {"enabled", "disabled", "blocked"}  \* blocked: completion-disabled
Row == [life : {"absent", "live", "gone"},
        mode : Modes,
        snap : {"none", "fresh", "stale"},        \* its RuleSearchSnapshot
        retry : {"clean", "waiting", "elapsed"}]  \* error, next_attempt_at

\* What a batch knows of a rule: "out" of the batch; "todo", "running", first
\* attempt "failed", "rerunning", and the outcomes that are recorded.
Outcomes == {"ok", "skipped", "failedTwice"}
Jobs == {"out", "todo", "running", "failed", "rerunning"} \cup Outcomes
Callers == {"worker", "sched", "user"}

\* seen: the completion state of the Rule object in the caller's session;
\* rollback expires it, the next access reloads it.  noted: the rules whose
\* object was loaded with a failure in its retry columns; a commit does not
\* expire it.  hit: history, the rules of which the worker recorded a failure
\* while the batch ran.
NoBatch == [caller |-> "nobody", allow |-> FALSE, phase |-> "first",
            job |-> [r \in Rules |-> "out"],
            seen |-> [r \in Rules |-> "expired"], noted |-> {}, hit |-> {},
            doomed |-> FALSE]
NoWorker == [pc |-> "none", id |-> NoRule, retry |-> FALSE]
IdleSched == [pc |-> "idle", due |-> {}, all |-> FALSE]

Live(r) == rule[r].life = "live"
Blocked(mode) == mode = "blocked"                 \* _rule_completion_fetch_blocked
InScope(mode, disabledToo, blockedToo) ==         \* _rule_in_fetch_scope
  /\ Blocked(mode) => blockedToo
  /\ disabledToo \/ mode = "enabled"

ScheduledAll == settings.on /\ settings.all
Missing(r) == rule[r].snap = "none"
Stale(r) == settings.on /\ rule[r].snap = "stale"
\* Mutant: missing snapshots, too, are left to the periodic schedule.
DueWhenScheduled(r) ==
  /\ Live(r) /\ settings.on
  /\ InScope(rule[r].mode, ScheduledAll, FALSE)
  /\ rule[r].snap # "fresh"
  /\ rule[r].retry # "waiting"
\* select_due_rule_fetches, for one rule.
Due(r) ==
  /\ Live(r)
  /\ InScope(rule[r].mode, ScheduledAll, FALSE)
  /\ Missing(r) \/ Stale(r)
  /\ rule[r].retry # "waiting"
\* What its LIMIT may leave: missing snapshots come before stale ones.
DueSelections ==
  LET due == {r \in Rules : Due(r)}
  IN {S \in SUBSET due :
        /\ Cardinality(S) = IF Cardinality(due) < BatchLimit
                            THEN Cardinality(due) ELSE BatchLimit
        /\ (\E r \in S : ~Missing(r)) => \A r \in due : Missing(r) => r \in S}

Members == {r \in Rules : batch.job[r] # "out"}
Busy == batch.caller # "nobody"
Noted(S) == {r \in S : rule[r].retry # "clean"}
InParallel == Parallelism > 1 /\ Cardinality(Members) > 1
Running == {r \in Rules : batch.job[r] \in {"running", "rerunning"}}

\* The process starts over a database that may hold rules without snapshots.
Init ==
  /\ rule \in [Rules -> [life : {"absent", "live"}, mode : {"enabled"},
                         snap : {"none"}, retry : {"clean"}]]
  /\ settings = [on |-> FALSE, all |-> TRUE, ready |-> TRUE]
  /\ app = "up"
  /\ owed = {}
  /\ queue = <<>>
  /\ reserved = {}
  /\ worker = NoWorker
  /\ sched = IdleSched
  /\ batch = NoBatch
  /\ stranded = {}
  /\ budget = [actions |-> MaxActions, faults |-> MaxFaults]

Act == /\ budget.actions > 0
       /\ budget' = [budget EXCEPT !.actions = @ - 1]
Fault == /\ budget.faults > 0
         /\ budget' = [budget EXCEPT !.faults = @ - 1]

-----------------------------------------------------------------------------
(* The batch.                                                              *)

\* run_rules_fetch_batch from taking the lock to the first attempt.  With no
\* rule in scope it answers at once; with Jackett unconfigured every rule is
\* a failure already.  `next' is what a batch that started looks like.
StartBatch(caller, ids, disabledToo, allow) ==
  LET chosen == {r \in ids : Live(r) /\ InScope(rule[r].mode, disabledToo, allow)}
  IN batch' =
       IF chosen = {} THEN NoBatch
       ELSE [caller |-> caller,
             allow  |-> allow,
             phase  |-> IF settings.ready THEN "first" ELSE "second",
             job    |-> [r \in Rules |-> IF r \notin chosen THEN "out"
                                         ELSE IF settings.ready THEN "todo"
                                         ELSE "failedTwice"],
             seen   |-> [r \in Rules |-> IF r \in chosen THEN rule[r].mode
                                         ELSE "expired"],
             noted  |-> Noted(chosen),
             hit    |-> {},
             doomed |-> FALSE]

\* Mutant: the lock is not released on an exception.
EndBatchWithoutFinally(raised) ==
  /\ batch' = IF raised THEN batch ELSE NoBatch
  /\ worker' = IF batch.caller = "worker"
               THEN [worker EXCEPT !.pc = IF raised THEN "except" ELSE "finish"]
               ELSE worker
  /\ sched' = IF batch.caller = "sched" THEN IdleSched ELSE sched

\* The finally that releases the lock, and the caller that goes on.
EndBatch(raised) ==
  /\ batch' = NoBatch
  /\ worker' = IF batch.caller = "worker"
               THEN [worker EXCEPT !.pc = IF raised THEN "except" ELSE "finish"]
               ELSE worker
  /\ sched' = IF batch.caller = "sched" THEN IdleSched ELSE sched

\* _execute_rule_fetch_for_rule_id up to the search: a session of its own.
BeginInOwnSession(r) ==
  /\ InParallel /\ batch.phase = "first" /\ batch.job[r] = "todo"
  /\ Cardinality(Running) < Parallelism
  /\ batch' = [batch EXCEPT !.job[r] =
                 IF ~Live(r) THEN "failed"
                 ELSE IF Blocked(rule[r].mode) /\ ~batch.allow THEN "skipped"
                 ELSE "running"]
  /\ UNCHANGED <<rule, settings, app, queueVars, worker, sched, budget>>

\* execute_rule_fetch in the caller's session, for the first or second time.
\* An expired object is reloaded, which raises when the row is gone.
BeginInCallerSession(r) ==
  /\ \/ ~InParallel /\ batch.phase = "first" /\ batch.job[r] = "todo"
     \/ batch.phase = "second" /\ batch.job[r] = "failed"
  /\ Running = {}
  /\ IF batch.seen[r] = "expired" /\ ~Live(r)
     THEN EndBatch(TRUE)
     ELSE LET mode == IF batch.seen[r] = "expired" THEN rule[r].mode
                      ELSE batch.seen[r]
          IN /\ batch' = [batch EXCEPT
                            !.seen[r] = mode,
                            !.noted = IF batch.seen[r] = "expired"
                                      THEN @ \cup Noted({r}) ELSE @,
                            !.job[r] = IF Blocked(mode) /\ ~batch.allow THEN "skipped"
                                       ELSE IF batch.phase = "first" THEN "running"
                                       ELSE "rerunning"]
             /\ UNCHANGED <<worker, sched>>
  /\ UNCHANGED <<rule, settings, app, queueVars, budget>>

InCallerSession(r) == ~InParallel \/ batch.job[r] = "rerunning"

\* A fetch that cannot go on because the row it is about was deleted raises:
\* at once in the caller's session, and in the executor when it is joined.
RaiseFetch(r) ==
  IF InCallerSession(r)
  THEN EndBatch(TRUE)
  ELSE /\ batch' = [batch EXCEPT !.job[r] = "failed", !.doomed = TRUE]
       /\ UNCHANGED <<worker, sched>>

\* The search answered: the snapshot and the rule's summary are committed.
FetchSucceeds(r) ==
  /\ r \in Running
  /\ IF Live(r)
     THEN /\ rule' = [rule EXCEPT ![r].snap = "fresh"]
          /\ batch' = [batch EXCEPT !.job[r] = "ok"]
          /\ UNCHANGED <<worker, sched>>
     ELSE /\ RaiseFetch(r)
          /\ UNCHANGED rule
  /\ UNCHANGED <<settings, app, queueVars, budget>>

\* The search failed, before anything was written or with a rollback.
FetchFails(r) ==
  /\ r \in Running
  /\ Fault
  /\ \E rolledBack \in BOOLEAN :
       IF rolledBack /\ ~Live(r) THEN RaiseFetch(r)
       ELSE /\ batch' =
                 [batch EXCEPT
                    !.job[r] = IF @ = "running" THEN "failed" ELSE "failedTwice",
                    !.seen = IF rolledBack /\ InCallerSession(r)
                             THEN [q \in Rules |-> IF q = r THEN rule[r].mode
                                                   ELSE "expired"]
                             ELSE @,
                    !.noted = IF rolledBack /\ InCallerSession(r) THEN Noted({r})
                              ELSE @]
            /\ UNCHANGED <<worker, sched>>
  /\ UNCHANGED <<rule, settings, app, queueVars>>

\* rule_by_id and failed_results, once every rule was tried.
StartSecondPhase ==
  /\ Busy /\ batch.phase = "first"
  /\ \A r \in Members : batch.job[r] \notin {"todo", "running"}
  /\ IF batch.doomed \/ \E r \in Members : batch.seen[r] = "expired" /\ ~Live(r)
     THEN EndBatch(TRUE)
     ELSE /\ batch' = [batch EXCEPT
                         !.phase = "second",
                         !.seen = [r \in Rules |-> IF r \in Members /\ @[r] = "expired"
                                                   THEN rule[r].mode ELSE @[r]],
                         !.noted = @ \cup Noted({r \in Members :
                                                   batch.seen[r] = "expired"})]
          /\ UNCHANGED <<worker, sched>>
  /\ UNCHANGED <<rule, settings, app, queueVars, budget>>

Settled == Busy /\ batch.phase = "second" /\ \A r \in Members : batch.job[r] \in Outcomes

\* Mutant: a success does not reset what an earlier failure wrote.
RecordFailures ==
  /\ Settled
  /\ rule' = [r \in Rules |-> IF batch.job[r] = "failedTwice" /\ Live(r)
                              THEN [rule[r] EXCEPT !.retry = "waiting"] ELSE rule[r]]
  /\ EndBatch(FALSE)
  /\ UNCHANGED <<settings, app, queueVars, budget>>

\* _record_rule_fetch_results and the end of the batch: one transaction, lost
\* as a whole when it updates a row that somebody deleted.  A success sets the
\* retry columns to NULL, which is written only over a failure the session has
\* loaded: one recorded since then stays.
Verdict(r) ==
  IF batch.job[r] = "failedTwice" THEN "waiting"
  ELSE IF batch.seen[r] = "expired" \/ r \in batch.noted THEN "clean"
  ELSE rule[r].retry
RecordOutcomes ==
  /\ Settled
  /\ LET updatesNothing == \E r \in Members : ~Live(r) /\ batch.seen[r] # "expired"
     IN /\ rule' = [r \in Rules |->
                      IF updatesNothing \/ r \notin Members \/ ~Live(r) THEN rule[r]
                      ELSE [rule[r] EXCEPT !.retry = Verdict(r)]]
        /\ EndBatch(updatesNothing)
  /\ UNCHANGED <<settings, app, queueVars, budget>>

\* The same, when the database refuses the transaction.
RecordFails ==
  /\ Settled
  /\ Fault
  /\ EndBatch(TRUE)
  /\ UNCHANGED <<rule, settings, app, queueVars>>

-----------------------------------------------------------------------------
(* The queue of new rules.                                                 *)

\* enqueue_rule_fetch: refused after a stop and for a reserved rule.
EnqueueRuleFetch(r) ==
  /\ r \in owed
  /\ owed' = owed \ {r}
  /\ IF app # "up" \/ r \in reserved
     THEN UNCHANGED <<queue, reserved, worker>>
     ELSE /\ queue' = Append(queue, r)
          /\ reserved' = reserved \cup {r}
          /\ worker' = IF worker.pc \in {"none", "dead"}
                       THEN [NoWorker EXCEPT !.pc = "loop"] ELSE worker
  /\ UNCHANGED <<rule, settings, app, sched, batch, stranded, budget>>

\* The loop's critical section: leave, or take the next id.
WorkerPops ==
  /\ worker.pc = "loop"
  /\ IF app # "up" \/ queue = <<>>
     THEN /\ worker' = NoWorker
          /\ IF app # "up" THEN queue' = <<>> /\ reserved' = {}
             ELSE UNCHANGED <<queue, reserved>>
     ELSE /\ worker' = [pc |-> "select", id |-> Head(queue), retry |-> FALSE]
          /\ queue' = Tail(queue)
          /\ UNCHANGED reserved
  /\ UNCHANGED <<rule, settings, app, owed, sched, batch, stranded, budget>>

\* select_due_rule_fetches for one id, before the run lock is asked for.
WorkerSelects ==
  /\ worker.pc = "select"
  /\ worker' = [worker EXCEPT !.pc = IF Due(worker.id) THEN "run" ELSE "finish"]
  /\ UNCHANGED <<rule, settings, app, queueVars, sched, batch, budget>>

WorkerRuns ==
  /\ worker.pc = "run"
  /\ IF Busy
     THEN /\ worker' = [worker EXCEPT !.pc = "finish", !.retry = TRUE]
          /\ UNCHANGED batch
     ELSE /\ StartBatch("worker", {worker.id}, FALSE, FALSE)
          /\ worker' = [worker EXCEPT !.pc = IF batch'.caller = "worker"
                                             THEN "batch" ELSE "finish"]
  /\ UNCHANGED <<rule, settings, app, queueVars, sched, budget>>

\* The selection or the start of the batch raises.
WorkerErrs ==
  /\ worker.pc \in {"select", "run"}
  /\ Fault
  /\ worker' = [worker EXCEPT !.pc = "except"]
  /\ UNCHANGED <<rule, settings, app, queueVars, sched, batch>>

\* The except clause: record_rule_fetch_failure after a rollback.
WorkerRecordsFailure ==
  /\ worker.pc = "except"
  /\ rule' = IF Live(worker.id) THEN [rule EXCEPT ![worker.id].retry = "waiting"]
             ELSE rule
  /\ worker' = [worker EXCEPT !.pc = "finish"]
  /\ batch' = IF Busy THEN [batch EXCEPT !.hit = @ \cup {worker.id}] ELSE batch
  /\ UNCHANGED <<settings, app, queueVars, sched, budget>>

\* An exception nobody catches: opening the session, or in the except clause.
WorkerDies ==
  /\ worker.pc \in {"select", "except"}
  /\ Fault
  /\ worker' = [NoWorker EXCEPT !.pc = "dead"]
  /\ stranded' = IF worker.id \in reserved THEN stranded \cup {worker.id} ELSE stranded
  /\ UNCHANGED <<rule, settings, app, owed, queue, reserved, sched, batch>>

\* Mutant: an id is put back although the queue was stopped.
WorkerFinishesAnyway ==
  /\ worker.pc = "finish"
  /\ queue' = IF worker.retry THEN Append(queue, worker.id) ELSE queue
  /\ reserved' = IF worker.retry THEN reserved ELSE reserved \ {worker.id}
  /\ worker' = [NoWorker EXCEPT !.pc = IF worker.retry THEN "waiting" ELSE "loop"]
  /\ UNCHANGED <<rule, settings, app, owed, sched, batch, stranded, budget>>

\* Mutant: the id is forgotten before it is put back.
WorkerFinishesForgetful ==
  /\ worker.pc = "finish"
  /\ worker' = [NoWorker EXCEPT !.pc = "loop"]
  /\ queue' = IF worker.retry THEN Append(queue, worker'.id) ELSE queue
  /\ reserved' = reserved \ {worker.id}
  /\ UNCHANGED <<rule, settings, app, owed, sched, batch, stranded, budget>>

WorkerFinishes ==
  /\ worker.pc = "finish"
  /\ IF worker.retry /\ app = "up"
     THEN /\ queue' = Append(queue, worker.id)
          /\ worker' = [NoWorker EXCEPT !.pc = "waiting"]
          /\ UNCHANGED reserved
     ELSE /\ reserved' = reserved \ {worker.id}
          /\ worker' = [NoWorker EXCEPT !.pc = "loop"]
          /\ UNCHANGED queue
  /\ UNCHANGED <<rule, settings, app, owed, sched, batch, stranded, budget>>

\* Mutant: the wait has no timeout, and only a shutdown notifies.
WorkerWakesNotified ==
  /\ worker.pc = "waiting" /\ app # "up"
  /\ worker' = [worker EXCEPT !.pc = "loop"]
  /\ UNCHANGED <<rule, settings, app, queueVars, sched, batch, budget>>

\* Mutant: the worker waits for work, and a shutdown is none.
WorkerWakesForWork ==
  /\ worker.pc = "waiting" /\ queue # <<>>
  /\ worker' = [worker EXCEPT !.pc = "loop"]
  /\ UNCHANGED <<rule, settings, app, queueVars, sched, batch, budget>>

WorkerWakes ==
  /\ worker.pc = "waiting"
  /\ worker' = [worker EXCEPT !.pc = "loop"]
  /\ UNCHANGED <<rule, settings, app, queueVars, sched, batch, budget>>

-----------------------------------------------------------------------------
(* The scheduler: run_due_scheduled_fetch.                                 *)

\* The selection of a tick; with nothing due the tick does nothing.
SchedulerSelects ==
  /\ app # "down" /\ sched.pc = "idle"
  /\ \E due \in DueSelections \ {{}} :
       sched' = [pc |-> "run", due |-> due, all |-> ScheduledAll]
  /\ UNCHANGED <<rule, settings, app, queueVars, worker, batch, budget>>

SchedulerRuns ==
  /\ sched.pc = "run"
  /\ IF Busy
     THEN /\ sched' = IdleSched
          /\ UNCHANGED batch
     ELSE /\ StartBatch("sched", sched.due, sched.all, sched.all)
          /\ sched' = IF batch'.caller = "sched" THEN [sched EXCEPT !.pc = "batch"]
                      ELSE IdleSched
  /\ UNCHANGED <<rule, settings, app, queueVars, worker, budget>>

\* _tick swallows whatever is raised.
SchedulerErrs ==
  /\ sched.pc = "run"
  /\ Fault
  /\ sched' = IdleSched
  /\ UNCHANGED <<rule, settings, app, queueVars, worker, batch>>

-----------------------------------------------------------------------------
(* Users, other services, time.                                            *)

\* A form or a Stremio sync commits a rule, and enqueues it afterwards.
CreateRule(r) ==
  /\ app = "up" /\ Act
  /\ rule[r].life = "absent"
  /\ \E mode \in {"enabled", "disabled"} :
       rule' = [rule EXCEPT ![r].life = "live", ![r].mode = mode]
  /\ owed' = owed \cup {r}
  /\ UNCHANGED <<settings, app, queue, reserved, stranded, worker, sched, batch>>

\* SyncService.delete_rule deletes the snapshot with the rule.
DeleteRule(r) ==
  /\ app = "up" /\ Act
  /\ Live(r)
  /\ rule' = [rule EXCEPT ![r] = [@ EXCEPT !.life = "gone", !.snap = "none",
                                           !.retry = "clean"]]
  /\ UNCHANGED <<settings, app, queueVars, worker, sched, batch>>

\* A rule is edited, or a watch-state sync finds it completed.
ChangeMode(r) ==
  /\ app = "up" /\ Act
  /\ Live(r)
  /\ \E mode \in Modes \ {rule[r].mode} : rule' = [rule EXCEPT ![r].mode = mode]
  /\ UNCHANGED <<settings, app, queueVars, worker, sched, batch>>

\* update_schedule_settings, or the Jackett settings.
ChangeSettings ==
  /\ app = "up" /\ Act
  /\ \E field \in {"on", "all", "ready"} :
       settings' = [settings EXCEPT ![field] = ~@]
  /\ UNCHANGED <<rule, app, queueVars, worker, sched, batch>>

\* The refresh interval of a snapshot passes.
SnapshotAges(r) ==
  /\ Act
  /\ rule[r].snap = "fresh"
  /\ rule' = [rule EXCEPT ![r].snap = "stale"]
  /\ UNCHANGED <<settings, app, queueVars, worker, sched, batch>>

\* snapshot_fetch_next_attempt_at passes.
BackoffElapses(r) ==
  /\ rule[r].retry = "waiting"
  /\ rule' = [rule EXCEPT ![r].retry = "elapsed"]
  /\ UNCHANGED <<settings, app, queueVars, worker, sched, batch, budget>>

\* The pages that search one rule save its snapshot without the run lock and
\* without touching its retry columns.
SearchFromPage(r) ==
  /\ app = "up" /\ Act
  /\ Live(r) /\ rule[r].snap # "fresh"
  /\ rule' = [rule EXCEPT ![r].snap = "fresh"]
  /\ UNCHANGED <<settings, app, queueVars, worker, sched, batch>>

\* POST /rules/fetch for chosen rules or for all, and run-now of the schedule;
\* when the lock is taken the answer is 409 and nothing happens.
UserFetches ==
  /\ app = "up" /\ Act
  /\ ~Busy
  /\ \/ \E ids \in SUBSET Rules \ {{}}, disabledToo \in BOOLEAN :
          StartBatch("user", ids, disabledToo, disabledToo)
     \/ \E disabledToo \in BOOLEAN : StartBatch("user", Rules, disabledToo, FALSE)
     \/ settings.on /\ StartBatch("user", Rules, settings.all, FALSE)
  /\ UNCHANGED <<rule, settings, app, queueVars, worker, sched>>

-----------------------------------------------------------------------------
(* The process.                                                            *)

\* stop_rule_fetch_queue up to the join.
StopQueue ==
  /\ app = "up" /\ Act
  /\ app' = "stopping"
  /\ queue' = <<>>
  /\ reserved' = {}
  /\ UNCHANGED <<rule, settings, owed, stranded, worker, sched, batch>>

\* What is in memory goes with the process; the scheduler is a daemon thread.
Forget ==
  /\ app' = "down"
  /\ owed' = {} /\ queue' = <<>> /\ reserved' = {} /\ stranded' = {}
  /\ worker' = NoWorker /\ sched' = IdleSched /\ batch' = NoBatch
  /\ UNCHANGED <<rule, settings>>

Exit ==
  /\ app = "stopping"
  /\ worker.pc \in {"none", "dead"}
  /\ Forget
  /\ UNCHANGED budget

Crash == app # "down" /\ Fault /\ Forget

\* start_rule_fetch_queue, start_rule_fetch_scheduler.
Start ==
  /\ app = "down"
  /\ app' = "up"
  /\ UNCHANGED <<rule, settings, queueVars, worker, sched, batch, budget>>

-----------------------------------------------------------------------------
BatchStep ==
  \/ \E r \in Rules : \/ BeginInOwnSession(r)
                      \/ BeginInCallerSession(r)
                      \/ FetchSucceeds(r)
                      \/ FetchFails(r)
  \/ StartSecondPhase
  \/ RecordOutcomes
  \/ RecordFails

WorkerStep ==
  \/ WorkerPops \/ WorkerSelects \/ WorkerRuns \/ WorkerErrs
  \/ WorkerRecordsFailure \/ WorkerDies \/ WorkerFinishes \/ WorkerWakes

SchedulerStep == SchedulerSelects \/ SchedulerRuns \/ SchedulerErrs

Environment ==
  \/ \E r \in Rules : \/ CreateRule(r)
                      \/ DeleteRule(r)
                      \/ ChangeMode(r)
                      \/ SnapshotAges(r)
                      \/ SearchFromPage(r)
  \/ ChangeSettings
  \/ UserFetches
  \/ StopQueue
  \/ Crash

Next ==
  \/ BatchStep
  \/ WorkerStep
  \/ SchedulerStep
  \/ Environment
  \/ \E r \in Rules : EnqueueRuleFetch(r) \/ BackoffElapses(r)
  \/ Exit
  \/ Start

Spec == Init /\ [][Next]_vars

\* Threads run, handlers finish, searches answer, clocks advance and somebody
\* starts the process again.  Nothing makes a user act or a step fail.
Fairness ==
  /\ WF_vars(BatchStep)
  /\ WF_vars(WorkerStep)
  /\ WF_vars(SchedulerStep)
  /\ \A r \in Rules : WF_vars(EnqueueRuleFetch(r)) /\ WF_vars(BackoffElapses(r))
  /\ WF_vars(Exit)
  /\ WF_vars(Start)

FairSpec == Spec /\ Fairness

-----------------------------------------------------------------------------
(* Properties.                                                             *)

\* The types of the variables.
TypeOK ==
  /\ rule \in [Rules -> Row]
  /\ settings \in [on : BOOLEAN, all : BOOLEAN, ready : BOOLEAN]
  /\ app \in {"up", "stopping", "down"}
  /\ owed \subseteq Rules
  /\ queue \in Seq(Rules)
  /\ reserved \subseteq Rules
  /\ worker \in [pc : {"none", "dead", "loop", "select", "run", "batch", "except",
                       "finish", "waiting"},
                 id : Rules \cup {NoRule}, retry : BOOLEAN]
  /\ sched \in [pc : {"idle", "run", "batch"}, due : SUBSET Rules, all : BOOLEAN]
  /\ batch \in [caller : Callers \cup {"nobody"}, allow : BOOLEAN,
                phase : {"first", "second"}, job : [Rules -> Jobs],
                seen : [Rules -> Modes \cup {"expired"}],
                noted : SUBSET Rules, hit : SUBSET Rules, doomed : BOOLEAN]
  /\ stranded \subseteq Rules
  /\ budget \in [actions : 0..MaxActions, faults : 0..MaxFaults]

InHand == IF worker.id = NoRule THEN {} ELSE {worker.id}

\* While the queue accepts work, _RULE_ID_SET, which makes enqueue_rule_fetch
\* refuse a rule, holds exactly the rules that wait in the deque, each once,
\* the one the worker has in its hands and those a worker took with it when it
\* died; and a rule that waits has a worker unless the worker died.  Once
\* stop_rule_fetch_queue ran, nothing is put back.
ReservedAccounted ==
  /\ app = "up" =>
       /\ reserved = ToSet(queue) \cup InHand \cup stranded
       /\ IsInjective(queue)
       /\ InHand \cap ToSet(queue) = {}
       /\ queue # <<>> => worker.pc # "none"
  /\ app # "up" => queue = <<>> /\ reserved = {}

\* The lock is held by a caller that waits for its batch, and a caller that
\* waits holds the lock: no raise, early return, shutdown or restart leaves
\* _RULE_FETCH_RUN_LOCK taken or a thread behind.
LockHasOwner ==
  /\ batch.caller = "worker" <=> worker.pc = "batch"
  /\ batch.caller = "sched" <=> sched.pc = "batch"
  /\ worker.pc = "batch" => Members = {worker.id}

\* The outcomes of a batch are written for all its rules or for none, and none
\* only when a rule was deleted under it, something failed or the process
\* ended: busy callers, rules that leave the scope, failed searches and second
\* attempts never cost a rule the record of its failure or of its success.  Only
\* a failure the worker recorded of the rule while the batch ran may stand beside
\* a success.
OutcomesRecorded ==
  [][Busy /\ ~Busy' /\ app' # "down" =>
       \/ \A r \in Members :
            /\ batch.job[r] \in Outcomes
            /\ IF batch.job[r] = "failedTwice" THEN rule'[r].retry = "waiting"
               ELSE rule'[r].retry = "clean" \/ r \in batch.hit
       \/ \E r \in Members : ~Live(r)
       \/ budget'.faults < budget.faults]_vars

Wanted(r) == Live(r) /\ rule[r].mode = "enabled" /\ Missing(r) /\ settings.ready

\* "Treat a committed eligible rule with no persisted snapshot as durable
\* initial fetch intent": whatever is lost in memory, by a crash, a shutdown, a
\* refused enqueue, a worker that dies, a batch that is given up or a lock that
\* is busy, an enabled rule without a snapshot gets one.
MissingEventuallyFetched == \A r \in Rules : Wanted(r) ~> ~Wanted(r)

\* A rule that waits in the queue does not wait for ever behind busy batches,
\* as long as its worker lives and searches are configured.
QueueDrains ==
  \A r \in Rules :
    (r \in reserved) ~> (r \notin reserved \/ worker.pc = "dead"
                           \/ r \in stranded \/ ~settings.ready)

\* stop_rule_fetch_queue joins the worker, which ends.
StopCompletes == (app = "stopping") ~> (app = "down")

\* "Keep failed or interrupted work durable with bounded exponential retry
\* delay": the worker or the scheduler does not begin a batch over a rule whose
\* snapshot_fetch_next_attempt_at lies in the future.
AutomaticRespectsBackoff ==
  [][\A r \in Rules :
       batch'.caller \in {"worker", "sched"} /\ ~Busy /\ batch'.job[r] # "out"
         => rule[r].retry # "waiting"]_vars
=============================================================================
