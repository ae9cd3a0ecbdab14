----------------------------- MODULE SyncQueue -----------------------------
(***************************************************************************)
(* The qBittorrent rule-sync queue, app/services/sync_queue.py: request    *)
(* handlers enqueue rule ids; one dispatcher thread prepares the feeds of  *)
(* the batch and hands ids to an executor, never more at a time than an    *)
(* adaptive limit; executor threads sync one rule each and account for the *)
(* outcome; shutdown drops what waits and joins what runs.                 *)
(*                                                                         *)
(* Every action is one critical section of _QUEUE_CONDITION, or one step   *)
(* a thread takes between two of them.                                     *)
(***************************************************************************)
EXTENDS Integers, Sequences, FiniteSets

CONSTANTS RuleIds,           \* primary keys of the rules table
          Workers,           \* threads of the executor
          NoRule,            \* the rule of an idle thread
          MaxWorkerLimit,    \* _MAX_SYNC_WORKER_LIMIT, the executor's size
          InitialLimit,      \* _INITIAL_SYNC_WORKER_LIMIT
          StreakToIncrease,  \* _SYNC_SUCCESS_STREAK_TO_INCREASE
          MaxRequests        \* bound on enqueue calls (model checking only)

ASSUME SyncQueueAssumption ==
  /\ NoRule \notin RuleIds
  /\ IsFiniteSet(Workers)
  /\ MaxWorkerLimit \in Nat \ {0}
  /\ Cardinality(Workers) = MaxWorkerLimit
  /\ InitialLimit \in 1..MaxWorkerLimit
  /\ StreakToIncrease \in Nat \ {0}
  /\ MaxRequests \in Nat

VARIABLES
  queue,       \* _QUEUED_RULE_IDS, the deque
  queuedIds,   \* _QUEUED_RULE_ID_SET
  totals,      \* _TOTAL_ENQUEUED, _TOTAL_COMPLETED, _TOTAL_FAILED
  active,      \* _ACTIVE_TASKS
  limit,       \* _ADAPTIVE_WORKER_LIMIT
  streak,      \* _SYNC_SUCCESS_STREAK
  feeds,       \* _QUEUE_FEEDS_PREPARED, _PREPARING, _QUEUE_RECONCILE_PER_RULE
  operation,   \* the record behind _QUEUE_OPERATION_ID; held = id is not None
  executor,    \* _EXECUTOR is not None
  dispatcher,  \* where _sync_worker_loop stands; "absent": _WORKER_THREAD None
  task,        \* what each executor thread does
  stopEvent,   \* _STOP_EVENT
  stopper,     \* where stop_rule_sync_queue stands
  requests,    \* number of enqueue calls so far
  unserved     \* history: requested since the last dispatch of the rule

queueVars == <<queue, queuedIds>>
limitVars == <<limit, streak>>
stopVars  == <<stopEvent, stopper>>
vars == <<queue, queuedIds, totals, active, limit, streak, feeds, operation,
          executor, dispatcher, task, stopEvent, stopper, requests, unserved>>

-----------------------------------------------------------------------------
\* What can come of _process_rule_sync.  "unreachable" and "rejected" are
\* failures of qBittorrent that SyncService.sync_rule turns into a result it
\* returns; the "raised" ones are exceptions that leave sync_rule, with or
\* without one of _BACKOFF_ERROR_MARKERS in the text; "crashed" is an exception
\* outside the try block of _process_rule_sync.
Results == {"missing", "synced", "unreachable", "rejected",
            "raised_transient", "raised_other", "crashed"}

\* RuleSyncOutcome.success: whatever sync_rule returns is a success.
Succeeded(result) ==
  result \in {"missing", "synced", "unreachable", "rejected"}

\* RuleSyncOutcome.should_backoff (the default outcome of line 239 backs off).
ShouldBackoff(result) == result \in {"raised_transient", "crashed"}

Idle == [pc |-> "idle", rule |-> NoRule, reconcile |-> FALSE, result |-> "none"]

Tasks == [pc : {"idle", "submitted", "running", "finishing"},
          rule : RuleIds \cup {NoRule},
          reconcile : BOOLEAN,
          result : Results \cup {"none"}]

Totals == [enqueued : Nat, completed : Nat, failed : Nat]

Operations == [held : BOOLEAN,
               status : {"none", "queued", "running", "success", "error"},
               current : Nat, total : Nat]

Dispatching == {"absent", "starting", "ready", "waiting", "draining", "preparing"}

TypeOK ==
  /\ queue \in Seq(RuleIds)
  /\ queuedIds \in SUBSET RuleIds
  /\ totals \in Totals
  /\ active \in Nat
  /\ limit \in 1..MaxWorkerLimit
  /\ streak \in Nat
  /\ feeds \in [prepared : BOOLEAN, preparing : BOOLEAN, perRule : BOOLEAN]
  /\ operation \in Operations
  /\ executor \in BOOLEAN
  /\ dispatcher \in Dispatching
  /\ task \in [Workers -> Tasks]
  /\ stopEvent \in BOOLEAN
  /\ stopper \in {"none", "joining", "closing", "stopped"}
  /\ requests \in Nat
  /\ unserved \in SUBSET RuleIds

Init ==
  /\ queue = <<>>
  /\ queuedIds = {}
  /\ totals = [enqueued |-> 0, completed |-> 0, failed |-> 0]
  /\ active = 0
  /\ limit = InitialLimit
  /\ streak = 0
  /\ feeds = [prepared |-> FALSE, preparing |-> FALSE, perRule |-> FALSE]
  /\ operation = [held |-> FALSE, status |-> "none", current |-> 0, total |-> 0]
  /\ executor = FALSE
  /\ dispatcher = "absent"
  /\ task = [w \in Workers |-> Idle]
  /\ stopEvent = FALSE
  /\ stopper = "none"
  /\ requests = 0
  /\ unserved = {}

-----------------------------------------------------------------------------
\* _update_queue_operation_locked: progress of the held operation, from the
\* totals t and the number a of active tasks the caller has just stored.
Refreshed(op, t, a) ==
  IF op.held
  THEN [op EXCEPT !.current = t.completed + t.failed,
                  !.total = t.enqueued,
                  !.status = IF a > 0 THEN "running" ELSE "queued"]
  ELSE op

\* complete_operation and _QUEUE_OPERATION_ID = None.
Completed(op, failed) ==
  [op EXCEPT !.held = FALSE,
             !.current = IF @ < op.total THEN op.total ELSE @,
             !.status = IF failed > 0 THEN "error" ELSE "success"]

\* Mutant: the notification is forgotten.
NeverNotified(d) == d

\* notify_all on the condition the dispatcher may be waiting on.
Notified(d) == IF d \in {"waiting", "draining"} THEN "ready" ELSE d

\* Mutant: tasks that still run are forgotten.
BatchIsOverWhenDrained == queue = <<>>

\* Lines 94-107: a request that finds the queue idle opens a new batch.
BatchIsOver == queue = <<>> /\ active = 0

NewBatch ==
  [totals |-> [enqueued |-> 0, completed |-> 0, failed |-> 0],
   feeds |-> [prepared |-> FALSE, preparing |-> FALSE, perRule |-> FALSE],
   operation |-> [held |-> TRUE, status |-> "queued", current |-> 0, total |-> 0]]

ThisBatch == [totals |-> totals, feeds |-> feeds, operation |-> operation]

\* Mutant: requests are accepted during shutdown.
AcceptsWorkAlways == TRUE

\* Line 92: nothing is accepted once the queue has been stopped.
AcceptsWork == ~stopEvent

\* Mutant: a rule that is being synced counts as queued.
IsDuplicateOrRunning(id) ==
  id \in queuedIds \/ \E w \in Workers : task[w].rule = id

\* Line 109: only a rule that still waits is a duplicate.
IsDuplicate(id) == id \in queuedIds

\* enqueue_rule_sync
EnqueueRuleSync(id) ==
  LET batch == IF BatchIsOver THEN NewBatch ELSE ThisBatch
      counted == IF IsDuplicate(id)
                 THEN batch.totals
                 ELSE [batch.totals EXCEPT !.enqueued = @ + 1]
  IN /\ requests < MaxRequests
     /\ AcceptsWork
     /\ queue' = IF IsDuplicate(id) THEN queue ELSE Append(queue, id)
     /\ queuedIds' = queuedIds \cup {id}
     /\ totals' = counted
     /\ feeds' = batch.feeds
     /\ operation' = Refreshed(batch.operation, counted, active)
     /\ dispatcher' = IF dispatcher = "absent" THEN "starting" ELSE Notified(dispatcher)
     /\ requests' = requests + 1
     /\ unserved' = unserved \cup {id}
     /\ UNCHANGED <<active, limit, streak, executor, task, stopEvent, stopper>>

-----------------------------------------------------------------------------
\* _sync_worker_loop, lines 178-183: the new thread makes sure of an executor.
DispatcherStarts ==
  /\ dispatcher = "starting"
  /\ executor' = TRUE
  /\ dispatcher' = "ready"
  /\ UNCHANGED <<queue, queuedIds, totals, active, limit, streak, feeds,
                 operation, task, stopEvent, stopper, requests, unserved>>

\* Lines 188-196: nothing runs, and the queue is stopped or empty.
DispatcherExits ==
  /\ dispatcher = "ready"
  /\ active = 0
  /\ stopEvent \/ queue = <<>>
  /\ dispatcher' = "absent"
  /\ UNCHANGED <<queue, queuedIds, totals, active, limit, streak, feeds,
                 operation, executor, task, stopEvent, stopper, requests, unserved>>

\* Line 192: stopped with tasks running; this wait has no timeout.
DispatcherDrains ==
  /\ dispatcher = "ready"
  /\ stopEvent
  /\ active > 0
  /\ dispatcher' = "draining"
  /\ UNCHANGED <<queue, queuedIds, totals, active, limit, streak, feeds,
                 operation, executor, task, stopEvent, stopper, requests, unserved>>

\* Lines 197-200: the first pass of a batch prepares its feeds.
PrepareBegins ==
  /\ dispatcher = "ready"
  /\ ~stopEvent
  /\ ~BatchIsOver
  /\ ~feeds.prepared
  /\ ~feeds.preparing
  /\ feeds' = [feeds EXCEPT !.preparing = TRUE]
  /\ operation' = Refreshed(operation, totals, active)
  /\ dispatcher' = "preparing"
  /\ UNCHANGED <<queue, queuedIds, totals, active, limit, streak, executor, task,
                 stopEvent, stopper, requests, unserved>>

\* Mutant: a failed preparation is tried again, for ever.
PrepareEndsRetrying(failed) ==
  /\ dispatcher = "preparing"
  /\ feeds' = [prepared |-> ~failed, preparing |-> FALSE, perRule |-> failed]
  /\ operation' = Refreshed(operation, totals, active)
  /\ dispatcher' = "ready"
  /\ UNCHANGED <<queue, queuedIds, totals, active, limit, streak, executor, task,
                 stopEvent, stopper, requests, unserved>>

\* Lines 210-222, outside the lock until the end: failed says whether
\* _prepare_queued_rule_syncs raised.
PrepareEnds(failed) ==
  /\ dispatcher = "preparing"
  /\ feeds' = [prepared |-> TRUE, preparing |-> FALSE, perRule |-> failed]
  /\ operation' = Refreshed(operation, totals, active)
  /\ dispatcher' = "ready"
  /\ UNCHANGED <<queue, queuedIds, totals, active, limit, streak, executor, task,
                 stopEvent, stopper, requests, unserved>>

\* Lines 201-206: nothing to dispatch, or no room for it.
DispatcherWaits ==
  /\ dispatcher = "ready"
  /\ ~stopEvent
  /\ ~BatchIsOver
  /\ feeds.prepared \/ feeds.preparing
  /\ ~feeds.preparing => (queue = <<>> \/ active >= limit)
  /\ dispatcher' = "waiting"
  /\ UNCHANGED <<queue, queuedIds, totals, active, limit, streak, feeds,
                 operation, executor, task, stopEvent, stopper, requests, unserved>>

\* The one-second timeout of lines 202 and 205.
DispatcherTimesOut ==
  /\ dispatcher = "waiting"
  /\ dispatcher' = "ready"
  /\ UNCHANGED <<queue, queuedIds, totals, active, limit, streak, feeds,
                 operation, executor, task, stopEvent, stopper, requests, unserved>>

\* _dispatch_next_rule_sync_locked
Dispatch(w) ==
  /\ dispatcher = "ready"
  /\ ~stopEvent
  /\ feeds.prepared
  /\ ~feeds.preparing
  /\ executor
  /\ queue # <<>>
  /\ active < limit
  /\ task[w] = Idle
  /\ queue' = Tail(queue)
  /\ queuedIds' = queuedIds \ {Head(queue)}
  /\ active' = active + 1
  /\ operation' = Refreshed(operation, totals, active + 1)
  /\ task' = [task EXCEPT ![w] = [Idle EXCEPT !.pc = "submitted", !.rule = Head(queue)]]
  /\ unserved' = unserved \ {Head(queue)}
  /\ UNCHANGED <<totals, limit, streak, feeds, executor, dispatcher,
                 stopEvent, stopper, requests>>

-----------------------------------------------------------------------------
\* _process_and_finalize, lines 241-242.
TaskStarts(w) ==
  /\ task[w].pc = "submitted"
  /\ task' = [task EXCEPT ![w].pc = "running", ![w].reconcile = feeds.perRule]
  /\ UNCHANGED <<queue, queuedIds, totals, active, limit, streak, feeds,
                 operation, executor, dispatcher, stopEvent, stopper, requests, unserved>>

\* Line 243: _process_rule_sync, the call of SyncService.sync_rule included.
TaskSyncs(w, result) ==
  /\ task[w].pc = "running"
  /\ task' = [task EXCEPT ![w].pc = "finishing", ![w].result = result]
  /\ UNCHANGED <<queue, queuedIds, totals, active, limit, streak, feeds,
                 operation, executor, dispatcher, stopEvent, stopper, requests, unserved>>

\* Mutant: the limit may fall to zero.
HalvedToZero(n) == n \div 2

\* Lines 341-342.
Halved(n) == IF n > 1 THEN n \div 2 ELSE n

\* _record_sync_outcome_locked
RecordSyncOutcome(result) ==
  IF Succeeded(result)
  THEN IF streak + 1 >= StreakToIncrease /\ limit < MaxWorkerLimit
       THEN limit' = limit + 1 /\ streak' = 0
       ELSE limit' = limit /\ streak' = streak + 1
  ELSE /\ streak' = 0
       /\ limit' = IF ShouldBackoff(result) THEN Halved(limit) ELSE limit

\* Mutant: failed tasks are not counted.
CountedIfSuccessful(t, result) ==
  IF Succeeded(result) THEN [t EXCEPT !.completed = @ + 1] ELSE t

\* Lines 250-253: a task counts as completed or as failed.
Counted(t, result) ==
  IF Succeeded(result) THEN [t EXCEPT !.completed = @ + 1]
                       ELSE [t EXCEPT !.failed = @ + 1]

\* Mutant: the last running task closes the operation, whatever still waits.
IsLastRunning == active = 1 /\ operation.held

\* Line 254, once _ACTIVE_TASKS has been decremented.
IsLastTask == queue = <<>> /\ active = 1 /\ operation.held

\* Lines 247-272, the finally block.
TaskFinishes(w) ==
  LET counted == Counted(totals, task[w].result)
  IN /\ task[w].pc = "finishing"
     /\ active' = active - 1
     /\ RecordSyncOutcome(task[w].result)
     /\ totals' = counted
     /\ operation' = IF IsLastTask
                     THEN Completed(operation, counted.failed)
                     ELSE Refreshed(operation, counted, active - 1)
     /\ dispatcher' = Notified(dispatcher)
     /\ task' = [task EXCEPT ![w] = Idle]
     /\ UNCHANGED <<queue, queuedIds, feeds, executor, stopEvent, stopper,
                    requests, unserved>>

-----------------------------------------------------------------------------
\* stop_rule_sync_queue, lines 66-71.
StopRequested ==
  /\ stopper = "none"
  /\ stopEvent' = TRUE
  /\ queue' = <<>>
  /\ queuedIds' = {}
  /\ unserved' = {}
  /\ dispatcher' = Notified(dispatcher)
  /\ stopper' = "joining"
  /\ UNCHANGED <<totals, active, limit, streak, feeds, operation, executor, task, requests>>

\* Lines 72-73: worker.join().
StopJoins ==
  /\ stopper = "joining"
  /\ dispatcher = "absent"
  /\ stopper' = "closing"
  /\ UNCHANGED <<queue, queuedIds, totals, active, limit, streak, feeds,
                 operation, executor, dispatcher, task, stopEvent, requests, unserved>>

\* Lines 74-80: executor.shutdown(wait=True), then the handles are cleared.
StopCloses ==
  /\ stopper = "closing"
  /\ \A w \in Workers : task[w] = Idle
  /\ executor' = FALSE
  /\ operation' = [operation EXCEPT !.held = FALSE]
  /\ stopper' = "stopped"
  /\ UNCHANGED <<queue, queuedIds, totals, active, limit, streak, feeds,
                 dispatcher, task, stopEvent, requests, unserved>>

\* start_rule_sync_queue, on the next application startup.
StartRuleSyncQueue ==
  /\ stopper = "stopped"
  /\ stopEvent' = FALSE
  /\ stopper' = "none"
  /\ UNCHANGED <<queue, queuedIds, totals, active, limit, streak, feeds,
                 operation, executor, dispatcher, task, requests, unserved>>

DispatcherNext ==
  \/ DispatcherStarts
  \/ DispatcherExits
  \/ DispatcherDrains
  \/ PrepareBegins
  \/ \E failed \in BOOLEAN : PrepareEnds(failed)
  \/ DispatcherWaits
  \/ DispatcherTimesOut
  \/ \E w \in Workers : Dispatch(w)

WorkerNext(w) ==
  \/ TaskStarts(w)
  \/ \E result \in Results : TaskSyncs(w, result)
  \/ TaskFinishes(w)

StopperNext == StopJoins \/ StopCloses

Next ==
  \/ \E id \in RuleIds : EnqueueRuleSync(id)
  \/ DispatcherNext
  \/ \E w \in Workers : WorkerNext(w)
  \/ StopRequested
  \/ StopperNext
  \/ StartRuleSyncQueue

Spec == Init /\ [][Next]_vars
-----------------------------------------------------------------------------
\* Threads run: the dispatcher, every executor thread and the thread that
\* shuts the queue down all take their next step eventually.  Every wait of
\* theirs inside an action is bounded (the HTTP clients carry timeouts, the
\* condition waits end by notification or after a second).
Fairness ==
  /\ WF_vars(DispatcherNext)
  /\ \A w \in Workers : WF_vars(WorkerNext(w))
  /\ WF_vars(StopperNext)

FairSpec == Spec /\ Fairness

-----------------------------------------------------------------------------
Busy == {w \in Workers : task[w] # Idle}

Waiting == {queue[i] : i \in 1..Len(queue)}

\* A request is never lost: a rule asked for since its last dispatch waits in
\* the deque, exactly once, even if a task for it was running when it was asked
\* for.  (enqueue_rule_sync drops duplicates, _dispatch_next_rule_sync_locked
\* forgets the id before the task runs.)
NoLostRequest ==
  /\ Waiting = unserved
  /\ queuedIds = unserved
  /\ \A i, j \in 1..Len(queue) : queue[i] = queue[j] => i = j

\* The counters the status endpoint reports add up at every moment: every
\* request of the open batch is waiting, running, completed or failed, and
\* _ACTIVE_TASKS is the number of threads at work.
EveryRequestAccounted ==
  /\ active = Cardinality(Busy)
  /\ ~stopEvent /\ operation.held =>
       totals.enqueued = totals.completed + totals.failed + active + Len(queue)

\* While work is outstanding its operation is open, and an open operation has
\* work behind it: _process_and_finalize closes it with the last task, never
\* before, and enqueue_rule_sync opens one with the first request.
OperationTracksWork ==
  ~stopEvent => (operation.held <=> ~BatchIsOver)

\* Tasks of one batch see one preparation: none runs before the feeds are
\* prepared, and the reconcile flag each of them read is still the batch's, so
\* no later request reset the batch under a running task.
OnePreparationPerBatch ==
  \A w \in Busy :
    /\ feeds.prepared /\ ~feeds.preparing
    /\ task[w].pc # "submitted" => task[w].reconcile = feeds.perRule

\* Once stop_rule_sync_queue has returned no thread of the queue is left and
\* nothing waits; and the dispatcher never works without an executor.
StoppedMeansQuiet ==
  /\ stopper = "stopped" =>
       /\ queue = <<>> /\ active = 0 /\ Busy = {}
       /\ dispatcher = "absent" /\ ~executor
  /\ dispatcher \in {"ready", "waiting", "draining", "preparing"} => executor

\* Shutdown terminates: stop_rule_sync_queue joins the dispatcher and the
\* executor threads whatever they were doing when it was called.
StopTerminates == (stopper = "joining") ~> (stopper = "stopped")

\* The promise of WorkQueue, read off this state.
Work == INSTANCE WorkQueue
          WITH requested <- unserved,
               serving <- [w \in Workers |-> task[w].rule],
               closed <- stopEvent

\* The queue implements its promise: a task serves the requests made before its
\* dispatch and none made after it.
ImplementsWorkQueue == Work!WorkSpec

\* Every request is eventually handed to a task, unless the queue is stopped.
RequestsServed == Work!RequestsServed

\* What docs/plans/phase-31 says of the adaptive limit: it halves on timeout and
\* transport failures.  A task whose sync failed to reach qBittorrent lowers a
\* limit above one.
TransportFailureBacksOff ==
  [][\A w \in Workers :
       (/\ task[w].pc = "finishing" /\ task'[w].pc = "idle"
        /\ task[w].result = "unreachable" /\ limit > 1) => limit' < limit]_vars
=============================================================================
