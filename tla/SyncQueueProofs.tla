-------------------------- MODULE SyncQueueProofs --------------------------
(***************************************************************************)
(* Proofs about SyncQueue for every set of rules, number of executor       *)
(* threads, initial limit and success streak, and any number of requests:  *)
(* the invariants that MCSyncQueue checks on a small instance, and the     *)
(* refinement of WorkQueue.                                                *)
(***************************************************************************)
EXTENDS SyncQueue, FiniteSetTheorems, TLAPS

\* An executor thread is idle or works on a rule.
TasksWellFormed ==
  \A w \in Workers :
    /\ task[w].pc = "idle" => task[w] = Idle
    /\ task[w].pc # "idle" => task[w].rule \in RuleIds

\* What the dispatcher's place says of the batch, ...
DispatcherPhases ==
  /\ dispatcher \in {"absent", "starting"} => active = 0
  /\ feeds.preparing <=> dispatcher = "preparing"
  /\ feeds.preparing => ~feeds.prepared /\ (~stopEvent => queue # <<>>)

\* ... and the shutdown's place of the queue.
StopPhases ==
  /\ stopEvent <=> stopper # "none"
  /\ stopEvent => queue = <<>>
  /\ stopper \in {"closing", "stopped"} => dispatcher = "absent"
  /\ stopper = "stopped" => ~operation.held

\* The inductive invariant.
IInv ==
  /\ TypeOK
  /\ NoLostRequest
  /\ EveryRequestAccounted
  /\ OperationTracksWork
  /\ OnePreparationPerBatch
  /\ StoppedMeansQuiet
  /\ TasksWellFormed
  /\ DispatcherPhases
  /\ StopPhases

-----------------------------------------------------------------------------
\* Append adds its element to what waits in a deque, ...
LEMMA AppendElements ==
  ASSUME NEW S, NEW q \in Seq(S), NEW e \in S
  PROVE  LET r == Append(q, e)
         IN /\ {r[i] : i \in 1..Len(r)} = {q[i] : i \in 1..Len(q)} \cup {e}
            /\ (\A i, j \in 1..Len(q) : q[i] = q[j] => i = j)
                 /\ e \notin {q[i] : i \in 1..Len(q)}
               => \A i, j \in 1..Len(r) : r[i] = r[j] => i = j
<1> DEFINE r == Append(q, e)
<1>1. /\ Len(q) \in Nat /\ Len(r) = Len(q) + 1
      /\ \A i \in 1..Len(q) : r[i] = q[i]
      /\ r[Len(q) + 1] = e
  OBVIOUS
<1>2. 1..Len(r) = (1..Len(q)) \cup {Len(q) + 1}
  BY <1>1
<1> HIDE DEF r
<1>3. {r[i] : i \in 1..Len(r)} = {q[i] : i \in 1..Len(q)} \cup {e}
  BY <1>1, <1>2
<1>4. ASSUME \A i, j \in 1..Len(q) : q[i] = q[j] => i = j,
             e \notin {q[i] : i \in 1..Len(q)},
             NEW i \in 1..Len(r), NEW j \in 1..Len(r), r[i] = r[j]
      PROVE  i = j
  BY <1>1, <1>2, <1>4
<1>5. QED
  BY <1>3, <1>4 DEF r

\* ... and Tail takes the head away, if no element waits twice.
LEMMA TailElements ==
  ASSUME NEW S, NEW q \in Seq(S), q # <<>>,
         \A i, j \in 1..Len(q) : q[i] = q[j] => i = j
  PROVE  LET r == Tail(q)
         IN /\ {r[i] : i \in 1..Len(r)} = {q[i] : i \in 1..Len(q)} \ {Head(q)}
            /\ \A i, j \in 1..Len(r) : r[i] = r[j] => i = j
<1> DEFINE r == Tail(q)
<1>1. /\ Len(q) \in Nat \ {0} /\ Len(r) = Len(q) - 1
      /\ \A i \in 1..Len(r) : r[i] = q[i + 1]
      /\ Head(q) = q[1]
  OBVIOUS
<1> HIDE DEF r
<1>2. \A i \in 1..Len(q) : i # 1 => i - 1 \in 1..Len(r) /\ r[i - 1] = q[i]
  BY <1>1
<1>3. \A i \in 1..Len(r) : i + 1 \in 1..Len(q) /\ i + 1 # 1
  BY <1>1
<1>4. {r[i] : i \in 1..Len(r)} = {q[i] : i \in 1..Len(q)} \ {Head(q)}
  <2>1. ASSUME NEW i \in 1..Len(r)
        PROVE  r[i] \in {q[k] : k \in 1..Len(q)} \ {Head(q)}
    <3>1. i + 1 \in 1..Len(q) /\ 1 \in 1..Len(q) /\ r[i] = q[i + 1]
      BY <1>1
    <3>2. q[i + 1] # q[1]
      BY <3>1, <1>3
    <3>3. QED
      BY <3>1, <3>2, <1>1
  <2>2. ASSUME NEW i \in 1..Len(q), q[i] # Head(q)
        PROVE  q[i] \in {r[k] : k \in 1..Len(r)}
    BY <2>2, <1>1, <1>2
  <2>3. QED
    BY <2>1, <2>2
<1>5. \A i, j \in 1..Len(r) : r[i] = r[j] => i = j
  BY <1>1, <1>3
<1>6. QED
  BY <1>4, <1>5 DEF r

-----------------------------------------------------------------------------
\* The busy threads are finitely many; a dispatch adds one, ...
LEMMA BusyGrows ==
  ASSUME NEW w \in Workers, task \in [Workers -> Tasks], task[w] = Idle,
         NEW t, t # Idle, task' = [task EXCEPT ![w] = t]
  PROVE  /\ Busy' = Busy \cup {w}
         /\ Cardinality(Busy') = Cardinality(Busy) + 1
<1>1. Busy' = Busy \cup {w} /\ w \notin Busy
  BY DEF Busy
<1>2. IsFiniteSet(Busy)
  BY SyncQueueAssumption, FS_Subset DEF SyncQueueAssumption, Busy
<1>3. QED
  BY <1>1, <1>2, FS_AddElement

\* ... a finished task removes one, ...
LEMMA BusyShrinks ==
  ASSUME NEW w \in Workers, task \in [Workers -> Tasks], task[w] # Idle,
         task' = [task EXCEPT ![w] = Idle]
  PROVE  /\ Busy' = Busy \ {w}
         /\ Cardinality(Busy') = Cardinality(Busy) - 1
         /\ Cardinality(Busy) \in Nat \ {0}
<1>1. Busy' = Busy \ {w} /\ w \in Busy
  BY DEF Busy
<1>2. IsFiniteSet(Busy)
  BY SyncQueueAssumption, FS_Subset DEF SyncQueueAssumption, Busy
<1>3. Cardinality(Busy) \in Nat /\ Cardinality(Busy) # 0
  BY <1>1, <1>2, FS_CardinalityType, FS_EmptySet
<1>4. QED
  BY <1>1, <1>2, <1>3, FS_RemoveElement

\* ... and no count of tasks means that no thread is busy.
LEMMA NobodyBusy ==
  ASSUME TypeOK, EveryRequestAccounted, active = 0
  PROVE  Busy = {}
<1>1. IsFiniteSet(Busy)
  BY SyncQueueAssumption, FS_Subset DEF SyncQueueAssumption, Busy
<1>2. QED
  BY <1>1, FS_EmptySet DEF EveryRequestAccounted

-----------------------------------------------------------------------------
LEMMA InitIInv == Init => IInv
<1> SUFFICES ASSUME Init PROVE IInv
  OBVIOUS
<1> USE DEF Init
<1>1. Busy = {} /\ Cardinality(Busy) = 0
  BY FS_EmptySet DEF Busy
<1>2. TypeOK
  <2>1. Idle \in Tasks
    BY DEF Idle, Tasks
  <2>2. queue \in Seq(RuleIds) /\ limit \in 1..MaxWorkerLimit
    BY SyncQueueAssumption DEF SyncQueueAssumption
  <2>3. QED
    BY <2>1, <2>2 DEF TypeOK, Totals, Operations, Dispatching
<1>3. NoLostRequest
  BY DEF NoLostRequest, Waiting
<1>4. EveryRequestAccounted
  BY <1>1 DEF EveryRequestAccounted
<1>5. OperationTracksWork
  BY DEF OperationTracksWork, BatchIsOver
<1>6. OnePreparationPerBatch
  BY <1>1 DEF OnePreparationPerBatch
<1>7. StoppedMeansQuiet
  BY DEF StoppedMeansQuiet
<1>8. TasksWellFormed /\ DispatcherPhases /\ StopPhases
  BY DEF TasksWellFormed, DispatcherPhases, StopPhases, Idle
<1>9. QED
  BY <1>2, <1>3, <1>4, <1>5, <1>6, <1>7, <1>8 DEF IInv

\* Steps that leave the deque, the tasks and the counters alone.
LEMMA QuietStep ==
  ASSUME IInv,
         UNCHANGED <<queue, queuedIds, totals, active, task, stopEvent, unserved>>
  PROVE  /\ NoLostRequest'
         /\ TasksWellFormed'
         /\ Busy' = Busy
         /\ operation'.held = operation.held =>
              EveryRequestAccounted' /\ OperationTracksWork'
<1>1. Busy' = Busy
  BY DEF Busy
<1>2. QED
  BY <1>1 DEF IInv, NoLostRequest, Waiting, TasksWellFormed, EveryRequestAccounted,
              OperationTracksWork, BatchIsOver

-----------------------------------------------------------------------------
\* Progress reporting keeps the operation open or closed as it was.
LEMMA RefreshedType ==
  ASSUME NEW op \in Operations, NEW t \in Totals, NEW a \in Int
  PROVE  Refreshed(op, t, a) \in Operations /\ Refreshed(op, t, a).held = op.held
<1>1. t.completed + t.failed \in Nat /\ t.enqueued \in Nat
  BY DEF Totals
<1>2. QED
  BY <1>1 DEF Refreshed, Operations

LEMMA CompletedType ==
  ASSUME NEW op \in Operations, NEW failed \in Nat
  PROVE  Completed(op, failed) \in Operations /\ ~Completed(op, failed).held
BY DEF Completed, Operations

LEMMA CountedType ==
  ASSUME NEW t \in Totals, NEW result
  PROVE  LET c == Counted(t, result)
         IN /\ c \in Totals
            /\ c.enqueued = t.enqueued
            /\ c.completed + c.failed = t.completed + t.failed + 1
BY DEF Counted, Totals

-----------------------------------------------------------------------------
\* Requests.
LEMMA EnqueueStep ==
  ASSUME IInv, NEW id \in RuleIds, EnqueueRuleSync(id)
  PROVE  IInv'
<1> DEFINE batch == IF BatchIsOver THEN NewBatch ELSE ThisBatch
           counted == IF IsDuplicate(id)
                      THEN batch.totals
                      ELSE [batch.totals EXCEPT !.enqueued = @ + 1]
<1>1. /\ ~stopEvent /\ stopper = "none"
      /\ totals' = counted /\ feeds' = batch.feeds
      /\ operation' = Refreshed(batch.operation, counted, active)
      /\ queue' = IF IsDuplicate(id) THEN queue ELSE Append(queue, id)
      /\ queuedIds' = queuedIds \cup {id} /\ unserved' = unserved \cup {id}
      /\ dispatcher' = IF dispatcher = "absent" THEN "starting" ELSE Notified(dispatcher)
      /\ UNCHANGED <<active, limit, streak, executor, task, stopEvent, stopper>>
      /\ requests' = requests + 1
  BY DEF EnqueueRuleSync, AcceptsWork, IInv, StopPhases
<1> HIDE DEF batch, counted
<1>2. Busy' = Busy
  BY <1>1 DEF Busy
<1>3. /\ IsDuplicate(id) <=> id \in Waiting
      /\ queue \in Seq(RuleIds) /\ Len(queue) \in Nat /\ active \in Nat
      /\ queue = <<>> => Len(queue) = 0
  BY DEF IInv, NoLostRequest, IsDuplicate, TypeOK
<1>4. queue' \in Seq(RuleIds) /\ queue' # <<>> /\ NoLostRequest'
  <2>1. CASE IsDuplicate(id)
    BY <2>1, <1>1, <1>3 DEF IInv, NoLostRequest, Waiting
  <2>2. CASE ~IsDuplicate(id)
    BY <2>2, <1>1, <1>3, AppendElements DEF IInv, NoLostRequest, Waiting
  <2>3. QED
    BY <2>1, <2>2
<1>5. /\ totals \in Totals /\ operation \in Operations
      /\ feeds \in [prepared : BOOLEAN, preparing : BOOLEAN, perRule : BOOLEAN]
  BY DEF IInv, TypeOK
<1>6. CASE BatchIsOver
  <2>1. /\ queue = <<>> /\ active = 0 /\ ~IsDuplicate(id) /\ Len(queue') = 1
        /\ dispatcher # "preparing" /\ Busy = {}
    BY <1>6, <1>1, <1>3, NobodyBusy
       DEF BatchIsOver, IInv, DispatcherPhases, Waiting
  <2>2. /\ totals' = [enqueued |-> 1, completed |-> 0, failed |-> 0]
        /\ feeds' = [prepared |-> FALSE, preparing |-> FALSE, perRule |-> FALSE]
        /\ operation' \in Operations /\ operation'.held
    <3>1. batch = NewBatch
      BY <1>6 DEF batch
    <3>2. /\ batch.totals = [enqueued |-> 0, completed |-> 0, failed |-> 0]
          /\ batch.feeds = [prepared |-> FALSE, preparing |-> FALSE, perRule |-> FALSE]
          /\ batch.operation = [held |-> TRUE, status |-> "queued", current |-> 0, total |-> 0]
      BY <3>1 DEF NewBatch
    <3>3. counted = [enqueued |-> 1, completed |-> 0, failed |-> 0]
      BY <3>2, <2>1 DEF counted
    <3>4. batch.operation \in Operations /\ batch.operation.held /\ counted \in Totals
      BY <3>2, <3>3 DEF Operations, Totals
    <3>5. QED
      BY <3>2, <3>3, <3>4, <1>1, <1>3, RefreshedType
  <2>3. TypeOK'
    <3>1. dispatcher' \in Dispatching
      BY <1>1 DEF IInv, TypeOK, Dispatching, Notified
    <3>2. unserved' \in SUBSET RuleIds /\ queuedIds' \in SUBSET RuleIds
      BY <1>1 DEF IInv, TypeOK
    <3>3. QED
      BY <3>1, <3>2, <2>1, <2>2, <1>1, <1>4 DEF IInv, TypeOK, Totals
  <2>4. EveryRequestAccounted'
    <3>1. active' = Cardinality(Busy')
      BY <1>1, <1>2 DEF IInv, EveryRequestAccounted
    <3>2. totals'.enqueued = totals'.completed + totals'.failed + active' + Len(queue')
      BY <2>1, <2>2, <1>1
    <3>3. QED
      BY <3>1, <3>2 DEF EveryRequestAccounted
  <2>5. OperationTracksWork' /\ OnePreparationPerBatch'
    BY <2>1, <2>2, <1>1, <1>2, <1>4
       DEF OperationTracksWork, OnePreparationPerBatch, BatchIsOver
  <2>6. StoppedMeansQuiet' /\ TasksWellFormed' /\ DispatcherPhases' /\ StopPhases'
    BY <2>1, <2>2, <1>1, <1>2, <1>4
       DEF IInv, StoppedMeansQuiet, TasksWellFormed, DispatcherPhases, StopPhases, Notified
  <2>7. QED
    BY <2>3, <2>4, <2>5, <2>6, <1>4 DEF IInv
<1>7. CASE ~BatchIsOver
  <2>1. /\ totals' = IF IsDuplicate(id) THEN totals
                     ELSE [totals EXCEPT !.enqueued = @ + 1]
        /\ feeds' = feeds
        /\ totals' \in Totals
        /\ operation' \in Operations /\ operation'.held
    <3>1. batch = ThisBatch
      BY <1>7 DEF batch
    <3>2. batch.totals = totals /\ batch.feeds = feeds /\ batch.operation = operation
      BY <3>1 DEF ThisBatch
    <3>3. counted = IF IsDuplicate(id) THEN totals ELSE [totals EXCEPT !.enqueued = @ + 1]
      BY <3>2 DEF counted
    <3>4. counted \in Totals /\ operation.held
      BY <3>3, <1>1, <1>5, <1>7 DEF IInv, OperationTracksWork, Totals
    <3>5. QED
      BY <3>2, <3>3, <3>4, <1>1, <1>3, <1>5, RefreshedType
  <2>2. operation'.held
    BY <2>1
  <2>3. TypeOK'
    <3>1. dispatcher' \in Dispatching
      BY <1>1 DEF IInv, TypeOK, Dispatching, Notified
    <3>2. unserved' \in SUBSET RuleIds /\ queuedIds' \in SUBSET RuleIds
      BY <1>1 DEF IInv, TypeOK
    <3>3. QED
      BY <3>1, <3>2, <2>1, <2>2, <1>1, <1>4, <1>5 DEF IInv, TypeOK
  <2>4. EveryRequestAccounted'
    <3>1. /\ totals'.completed = totals.completed /\ totals'.failed = totals.failed
          /\ totals'.enqueued = totals.enqueued + (IF IsDuplicate(id) THEN 0 ELSE 1)
      BY <2>1, <1>5 DEF Totals
    <3>2. Len(queue') = Len(queue) + (IF IsDuplicate(id) THEN 0 ELSE 1)
      BY <1>1, <1>3
    <3>3. totals.enqueued = totals.completed + totals.failed + active + Len(queue)
      BY <2>1, <1>1, <3>1, <1>7 DEF IInv, EveryRequestAccounted, OperationTracksWork
    <3>4. totals'.enqueued = totals'.completed + totals'.failed + active' + Len(queue')
      BY <3>1, <3>2, <3>3, <1>1, <1>3, <1>5 DEF Totals
    <3>5. active' = Cardinality(Busy')
      BY <1>1, <1>2 DEF IInv, EveryRequestAccounted
    <3>6. QED
      BY <3>4, <3>5 DEF EveryRequestAccounted
  <2>5. OperationTracksWork' /\ OnePreparationPerBatch'
    BY <2>1, <2>2, <1>1, <1>2, <1>4
       DEF IInv, OperationTracksWork, OnePreparationPerBatch, BatchIsOver
  <2>6. StoppedMeansQuiet' /\ TasksWellFormed' /\ DispatcherPhases' /\ StopPhases'
    BY <2>1, <2>2, <1>1, <1>2, <1>4
       DEF IInv, StoppedMeansQuiet, TasksWellFormed, DispatcherPhases, StopPhases, Notified
  <2>7. QED
    BY <2>3, <2>4, <2>5, <2>6, <1>4 DEF IInv
<1>8. QED
  BY <1>6, <1>7

-----------------------------------------------------------------------------
\* The dispatcher, except for the dispatch of a task.
LEMMA DispatcherStep ==
  ASSUME IInv,
         \/ DispatcherStarts \/ DispatcherExits \/ DispatcherDrains
         \/ DispatcherWaits \/ DispatcherTimesOut
  PROVE  IInv'
<1>1. /\ UNCHANGED <<queue, queuedIds, totals, active, limit, streak, feeds, operation,
                     task, stopEvent, stopper, requests, unserved>>
      /\ dispatcher \notin {"absent", "preparing"}
      /\ dispatcher' \in Dispatching \ {"starting", "preparing"}
      /\ dispatcher' = "absent" => active = 0
      /\ executor' \in BOOLEAN
      /\ dispatcher' \notin {"absent"} => executor'
      /\ executor => executor'
  BY DEF DispatcherStarts, DispatcherExits, DispatcherDrains, DispatcherWaits,
         DispatcherTimesOut, IInv, TypeOK, StoppedMeansQuiet, Dispatching
<1>2. stopper \notin {"closing", "stopped"}
  BY <1>1 DEF IInv, StopPhases
<1>3. /\ NoLostRequest' /\ TasksWellFormed' /\ Busy' = Busy
      /\ EveryRequestAccounted' /\ OperationTracksWork'
  BY <1>1, QuietStep
<1>4. TypeOK'
  BY <1>1 DEF IInv, TypeOK
<1>5. OnePreparationPerBatch' /\ StoppedMeansQuiet'
  BY <1>1, <1>2, <1>3 DEF IInv, OnePreparationPerBatch, StoppedMeansQuiet
<1>6. DispatcherPhases' /\ StopPhases'
  BY <1>1, <1>2 DEF IInv, DispatcherPhases, StopPhases, Dispatching
<1>7. QED
  BY <1>3, <1>4, <1>5, <1>6 DEF IInv

\* The preparation of a batch.
LEMMA PrepareStep ==
  ASSUME IInv, PrepareBegins \/ \E failed \in BOOLEAN : PrepareEnds(failed)
  PROVE  IInv'
<1>1. /\ UNCHANGED <<queue, queuedIds, totals, active, limit, streak, executor, task,
                     stopEvent, stopper, requests, unserved>>
      /\ operation' = Refreshed(operation, totals, active)
      /\ dispatcher \in {"ready", "preparing"} /\ executor
  BY DEF PrepareBegins, PrepareEnds, IInv, StoppedMeansQuiet
<1>2. /\ totals \in Totals /\ operation \in Operations /\ active \in Nat
      /\ feeds \in [prepared : BOOLEAN, preparing : BOOLEAN, perRule : BOOLEAN]
  BY DEF IInv, TypeOK
<1>3. operation' \in Operations /\ operation'.held = operation.held
  BY <1>1, <1>2, RefreshedType
<1>4. /\ NoLostRequest' /\ TasksWellFormed' /\ Busy' = Busy
      /\ EveryRequestAccounted' /\ OperationTracksWork'
  BY <1>1, <1>3, QuietStep
<1>5. stopper \notin {"closing", "stopped"}
  BY <1>1 DEF IInv, StopPhases
<1>6. Busy = {}
  BY DEF PrepareBegins, PrepareEnds, IInv, OnePreparationPerBatch, DispatcherPhases
<1>7. /\ feeds' \in [prepared : BOOLEAN, preparing : BOOLEAN, perRule : BOOLEAN]
      /\ dispatcher' \in {"ready", "preparing"}
      /\ feeds'.preparing <=> dispatcher' = "preparing"
      /\ feeds'.preparing => ~feeds'.prepared /\ (~stopEvent => queue # <<>>)
  <2>1. CASE PrepareBegins
    <3>1. active = 0
      BY <1>6, FS_EmptySet DEF IInv, EveryRequestAccounted
    <3>2. QED
      BY <2>1, <3>1, <1>2 DEF PrepareBegins, BatchIsOver
  <2>2. CASE \E failed \in BOOLEAN : PrepareEnds(failed)
    BY <2>2, <1>2 DEF PrepareEnds
  <2>3. QED
    BY <2>1, <2>2
<1>8. TypeOK'
  BY <1>1, <1>3, <1>7 DEF IInv, TypeOK, Dispatching
<1>9. OnePreparationPerBatch' /\ StoppedMeansQuiet'
  BY <1>1, <1>4, <1>5, <1>6, <1>7 DEF OnePreparationPerBatch, StoppedMeansQuiet, IInv
<1>10. DispatcherPhases' /\ StopPhases'
  BY <1>1, <1>3, <1>5, <1>7 DEF IInv, DispatcherPhases, StopPhases
<1>11. QED
  BY <1>4, <1>8, <1>9, <1>10 DEF IInv

\* The dispatch of a task: the head of the deque moves to a thread.
LEMMA DispatchStep ==
  ASSUME IInv, NEW w \in Workers, Dispatch(w)
  PROVE  IInv'
<1> DEFINE begun == [Idle EXCEPT !.pc = "submitted", !.rule = Head(queue)]
<1>1. /\ dispatcher = "ready" /\ ~stopEvent /\ stopper = "none"
      /\ feeds.prepared /\ ~feeds.preparing /\ executor
      /\ queue # <<>> /\ active < limit /\ task[w] = Idle
      /\ queue' = Tail(queue) /\ queuedIds' = queuedIds \ {Head(queue)}
      /\ active' = active + 1 /\ operation' = Refreshed(operation, totals, active + 1)
      /\ task' = [task EXCEPT ![w] = begun] /\ unserved' = unserved \ {Head(queue)}
      /\ UNCHANGED <<totals, limit, streak, feeds, executor, dispatcher, stopEvent,
                     stopper, requests>>
  BY DEF Dispatch, IInv, StopPhases
<1>2. /\ queue \in Seq(RuleIds) /\ active \in Nat /\ totals \in Totals
      /\ operation \in Operations /\ task \in [Workers -> Tasks]
      /\ Len(queue) \in Nat \ {0} /\ Head(queue) \in RuleIds
      /\ Tail(queue) \in Seq(RuleIds) /\ Len(Tail(queue)) = Len(queue) - 1
  <2>1. queue \in Seq(RuleIds) /\ queue # <<>>
    BY <1>1 DEF IInv, TypeOK
  <2>2. QED
    BY <2>1 DEF IInv, TypeOK
<1>3. begun \in Tasks /\ begun.pc = "submitted" /\ begun.rule = Head(queue)
  BY <1>2 DEF Idle, Tasks
<1>4. begun # Idle
  BY <1>3 DEF Idle
<1> HIDE DEF begun
<1>5. Busy' = Busy \cup {w} /\ Cardinality(Busy') = Cardinality(Busy) + 1
  BY <1>1, <1>2, <1>4, BusyGrows
<1>6. operation.held /\ operation' \in Operations /\ operation'.held
  BY <1>1, <1>2, RefreshedType DEF IInv, OperationTracksWork, BatchIsOver
<1>7. NoLostRequest'
  BY <1>1, <1>2, TailElements DEF IInv, NoLostRequest, Waiting
<1>8. TypeOK'
  BY <1>1, <1>2, <1>3, <1>6 DEF IInv, TypeOK
<1>9. EveryRequestAccounted'
  <2>1. /\ active = Cardinality(Busy)
        /\ totals.enqueued = totals.completed + totals.failed + active + Len(queue)
    BY <1>1, <1>6 DEF IInv, EveryRequestAccounted
  <2>2. totals.enqueued = totals.completed + totals.failed + active' + Len(queue')
    BY <2>1, <1>1, <1>2 DEF Totals
  <2>3. QED
    BY <2>1, <2>2, <1>1, <1>5 DEF EveryRequestAccounted
<1>10. OperationTracksWork'
  BY <1>1, <1>2, <1>6 DEF OperationTracksWork, BatchIsOver
<1>11. OnePreparationPerBatch'
  BY <1>1, <1>2, <1>3, <1>5 DEF IInv, OnePreparationPerBatch
<1>12. StoppedMeansQuiet' /\ TasksWellFormed'
  BY <1>1, <1>2, <1>3 DEF IInv, StoppedMeansQuiet, TasksWellFormed
<1>13. DispatcherPhases' /\ StopPhases'
  BY <1>1, <1>6 DEF IInv, DispatcherPhases, StopPhases
<1>14. QED
  BY <1>7, <1>8, <1>9, <1>10, <1>11, <1>12, <1>13 DEF IInv

\* A task on its way: the thread stays busy with the same rule.
LEMMA TaskStep ==
  ASSUME IInv, NEW w \in Workers,
         TaskStarts(w) \/ \E result \in Results : TaskSyncs(w, result)
  PROVE  IInv'
<1>1. /\ UNCHANGED <<queue, queuedIds, totals, active, limit, streak, feeds, operation,
                     executor, dispatcher, stopEvent, stopper, requests, unserved>>
      /\ task[w].pc \in {"submitted", "running"}
  BY DEF TaskStarts, TaskSyncs
<1>2. task \in [Workers -> Tasks] /\ feeds.perRule \in BOOLEAN
  BY DEF IInv, TypeOK
<1>3. /\ task' \in [Workers -> Tasks]
      /\ \A v \in Workers \ {w} : task'[v] = task[v]
      /\ task'[w].pc \in {"running", "finishing"}
      /\ task'[w].rule = task[w].rule
      /\ task'[w].reconcile = IF task[w].pc = "submitted" THEN feeds.perRule
                              ELSE task[w].reconcile
  <2>1. CASE TaskStarts(w)
    BY <2>1, <1>2 DEF TaskStarts, Tasks
  <2>2. ASSUME NEW result \in Results, TaskSyncs(w, result)
        PROVE  /\ task' \in [Workers -> Tasks]
               /\ \A v \in Workers \ {w} : task'[v] = task[v]
               /\ task'[w].pc = "finishing" /\ task[w].pc = "running"
               /\ task'[w].rule = task[w].rule
               /\ task'[w].reconcile = task[w].reconcile
    <3> DEFINE t == [task[w] EXCEPT !.pc = "finishing", !.result = result]
    <3>1. task[w] \in Tasks
      BY <1>2
    <3>2. /\ t \in Tasks /\ t.pc = "finishing"
          /\ t.rule = task[w].rule /\ t.reconcile = task[w].reconcile
      BY <3>1 DEF Tasks
    <3>3. task[w].pc = "running" /\ task' = [task EXCEPT ![w] = t]
      BY <2>2 DEF TaskSyncs
    <3> HIDE DEF t
    <3>4. QED
      BY <3>2, <3>3, <1>2
  <2>3. QED
    BY <2>1, <2>2
<1>4. task[w] # Idle /\ task'[w] # Idle
  BY <1>1, <1>3 DEF Idle
<1>5. Busy' = Busy /\ w \in Busy
  BY <1>3, <1>4 DEF Busy
<1>6. TypeOK' /\ NoLostRequest'
  BY <1>1, <1>3 DEF IInv, TypeOK, NoLostRequest, Waiting
<1>7. EveryRequestAccounted' /\ OperationTracksWork'
  <2>1. EveryRequestAccounted'
    BY <1>1, <1>5 DEF IInv, EveryRequestAccounted
  <2>2. QED
    BY <2>1, <1>1 DEF IInv, OperationTracksWork, BatchIsOver
<1>8. OnePreparationPerBatch'
  <2>1. feeds.prepared /\ ~feeds.preparing
    BY <1>5 DEF IInv, OnePreparationPerBatch
  <2>2. \A v \in Busy : task[v].pc # "submitted" => task[v].reconcile = feeds.perRule
    BY DEF IInv, OnePreparationPerBatch
  <2>3. task'[w].reconcile = feeds.perRule
    BY <2>2, <1>3, <1>5
  <2>4. QED
    BY <2>1, <2>2, <2>3, <1>1, <1>3, <1>5 DEF OnePreparationPerBatch, Busy
<1>9. StoppedMeansQuiet' /\ TasksWellFormed'
  BY <1>1, <1>3, <1>5 DEF IInv, StoppedMeansQuiet, TasksWellFormed
<1>10. DispatcherPhases' /\ StopPhases'
  BY <1>1 DEF IInv, DispatcherPhases, StopPhases
<1>11. QED
  BY <1>6, <1>7, <1>8, <1>9, <1>10 DEF IInv

\* The adaptive limit never leaves 1..MaxWorkerLimit.
LEMMA OutcomeType ==
  ASSUME limit \in 1..MaxWorkerLimit, streak \in Nat, NEW result,
         RecordSyncOutcome(result)
  PROVE  limit' \in 1..MaxWorkerLimit /\ streak' \in Nat
<1>1. MaxWorkerLimit \in Nat
  BY SyncQueueAssumption DEF SyncQueueAssumption
<1>2. Halved(limit) \in 1..MaxWorkerLimit
  BY <1>1 DEF Halved
<1>3. QED
  BY <1>1, <1>2 DEF RecordSyncOutcome

\* The end of a task.
LEMMA FinishStep ==
  ASSUME IInv, NEW w \in Workers, TaskFinishes(w)
  PROVE  IInv'
<1> DEFINE counted == Counted(totals, task[w].result)
<1>1. /\ task[w].pc = "finishing" /\ active' = active - 1
      /\ RecordSyncOutcome(task[w].result) /\ totals' = counted
      /\ operation' = IF IsLastTask THEN Completed(operation, counted.failed)
                      ELSE Refreshed(operation, counted, active - 1)
      /\ dispatcher' = Notified(dispatcher) /\ task' = [task EXCEPT ![w] = Idle]
      /\ UNCHANGED <<queue, queuedIds, feeds, executor, stopEvent, stopper, requests,
                     unserved>>
  BY DEF TaskFinishes
<1>2. /\ queue \in Seq(RuleIds) /\ Len(queue) \in Nat /\ active \in Nat
      /\ totals \in Totals /\ operation \in Operations /\ task \in [Workers -> Tasks]
      /\ limit \in 1..MaxWorkerLimit /\ streak \in Nat /\ dispatcher \in Dispatching
  BY DEF IInv, TypeOK
<1>3. task[w] # Idle /\ Idle \in Tasks
  BY <1>1 DEF Idle, Tasks
<1>4. /\ Busy' = Busy \ {w} /\ Cardinality(Busy') = Cardinality(Busy) - 1
      /\ Cardinality(Busy) \in Nat \ {0}
  BY <1>1, <1>2, <1>3, BusyShrinks
<1>5. active = Cardinality(Busy) /\ active > 0 /\ active' \in Nat
  BY <1>1, <1>2, <1>4 DEF IInv, EveryRequestAccounted
<1>6. /\ counted \in Totals /\ counted.enqueued = totals.enqueued
      /\ counted.completed + counted.failed = totals.completed + totals.failed + 1
  BY <1>2, CountedType
<1> HIDE DEF counted
<1>7. /\ operation' \in Operations
      /\ operation'.held <=> (operation.held /\ ~(queue = <<>> /\ active = 1))
  <2>1. counted.failed \in Nat
    BY <1>6 DEF Totals
  <2>2. CASE IsLastTask
    BY <2>1, <2>2, <1>1, <1>2, CompletedType DEF IsLastTask
  <2>3. CASE ~IsLastTask
    <3>1. operation' = Refreshed(operation, counted, active - 1) /\ active - 1 \in Int
      BY <2>3, <1>1, <1>2
    <3>2. operation' \in Operations /\ operation'.held = operation.held
      BY <3>1, <1>2, <1>6, RefreshedType
    <3>3. QED
      BY <2>3, <3>2 DEF IsLastTask
  <2>4. QED
    BY <2>2, <2>3
<1>8. /\ dispatcher' \in Dispatching
      /\ dispatcher \notin {"absent", "starting", "preparing"}
      /\ dispatcher' = "ready"
  <2>1. dispatcher \notin {"absent", "starting"}
    BY <1>5 DEF IInv, DispatcherPhases
  <2>2. dispatcher # "preparing"
    BY <1>3 DEF IInv, DispatcherPhases, OnePreparationPerBatch, Busy
  <2>3. QED
    BY <2>1, <2>2, <1>1, <1>2 DEF Notified, Dispatching
<1>9. TypeOK'
  <2>1. limit' \in 1..MaxWorkerLimit /\ streak' \in Nat
    BY <1>1, <1>2, OutcomeType
  <2>2. QED
    BY <2>1, <1>1, <1>2, <1>3, <1>5, <1>6, <1>7, <1>8 DEF IInv, TypeOK
<1>10. NoLostRequest'
  BY <1>1 DEF IInv, NoLostRequest, Waiting
<1>11. EveryRequestAccounted'
  <2>1. ASSUME ~stopEvent', operation'.held
        PROVE  totals'.enqueued = totals'.completed + totals'.failed + active' + Len(queue')
    <3>1. totals.enqueued = totals.completed + totals.failed + active + Len(queue)
      BY <2>1, <1>1, <1>7 DEF IInv, EveryRequestAccounted
    <3>2. QED
      BY <3>1, <1>1, <1>2, <1>6 DEF Totals
  <2>2. active' = Cardinality(Busy')
    BY <1>1, <1>2, <1>4, <1>5
  <2>3. QED
    BY <2>1, <2>2 DEF EveryRequestAccounted
<1>12. OperationTracksWork'
  BY <1>1, <1>2, <1>5, <1>7 DEF IInv, OperationTracksWork, BatchIsOver
<1>13. OnePreparationPerBatch'
  BY <1>1, <1>2, <1>4 DEF IInv, OnePreparationPerBatch
<1>14. StoppedMeansQuiet' /\ StopPhases'
  <2>1. stopper # "stopped" /\ stopper # "closing" /\ executor
    BY <1>2, <1>5, <1>8 DEF IInv, StoppedMeansQuiet, StopPhases, Dispatching
  <2>2. QED
    BY <2>1, <1>1 DEF IInv, StoppedMeansQuiet, StopPhases
<1>15. TasksWellFormed'
  BY <1>1, <1>2 DEF IInv, TasksWellFormed, Idle
<1>16. DispatcherPhases'
  BY <1>1, <1>8 DEF IInv, DispatcherPhases
<1>17. QED
  BY <1>9, <1>10, <1>11, <1>12, <1>13, <1>14, <1>15, <1>16 DEF IInv

\* Shutdown and restart.
LEMMA StopRequestedStep ==
  ASSUME IInv, StopRequested
  PROVE  IInv'
<1>1. /\ ~stopEvent /\ stopEvent' = TRUE /\ stopper' = "joining" /\ stopper = "none"
      /\ queue' = <<>> /\ queuedIds' = {} /\ unserved' = {}
      /\ dispatcher' = Notified(dispatcher)
      /\ UNCHANGED <<totals, active, limit, streak, feeds, operation, executor, task, requests>>
  BY DEF StopRequested, IInv, StopPhases
<1>2. Busy' = Busy
  BY <1>1 DEF Busy
<1>3. dispatcher' \in Dispatching
  BY <1>1 DEF IInv, TypeOK, Dispatching, Notified
<1>4. TypeOK'
  BY <1>1, <1>3 DEF IInv, TypeOK
<1>5. NoLostRequest'
  BY <1>1 DEF NoLostRequest, Waiting
<1>6. EveryRequestAccounted' /\ OperationTracksWork'
  BY <1>1, <1>2 DEF IInv, EveryRequestAccounted, OperationTracksWork
<1>7. OnePreparationPerBatch' /\ StoppedMeansQuiet' /\ TasksWellFormed'
  BY <1>1, <1>2 DEF IInv, OnePreparationPerBatch, StoppedMeansQuiet, TasksWellFormed, Notified
<1>8. DispatcherPhases' /\ StopPhases'
  BY <1>1 DEF IInv, DispatcherPhases, StopPhases, Notified
<1>9. QED
  BY <1>4, <1>5, <1>6, <1>7, <1>8 DEF IInv

LEMMA StopperStep ==
  ASSUME IInv, StopJoins \/ StopCloses \/ StartRuleSyncQueue
  PROVE  IInv'
<1>1. /\ UNCHANGED <<queue, queuedIds, totals, active, limit, streak, feeds, dispatcher,
                     task, requests, unserved>>
      /\ stopEvent /\ queue = <<>> /\ stopper \in {"joining", "closing", "stopped"}
      /\ dispatcher = "absent" /\ active = 0 /\ Busy = {}
  <2>1. stopEvent /\ queue = <<>> /\ dispatcher = "absent"
    BY DEF StopJoins, StopCloses, StartRuleSyncQueue, IInv, StopPhases
  <2>2. active = 0
    BY <2>1 DEF IInv, DispatcherPhases
  <2>3. QED
    BY <2>1, <2>2, NobodyBusy DEF StopJoins, StopCloses, StartRuleSyncQueue, IInv
<1>2. Busy' = Busy
  BY <1>1 DEF Busy
<1>3. /\ operation' \in Operations
      /\ operation'.held => operation.held
      /\ stopper' = "stopped" => ~operation'.held /\ ~executor'
      /\ stopper' \in {"closing", "stopped", "none"}
      /\ stopEvent' \in BOOLEAN /\ executor' \in BOOLEAN
      /\ stopEvent' <=> stopper' # "none"
      /\ ~stopEvent' => ~operation'.held
  BY DEF StopJoins, StopCloses, StartRuleSyncQueue, IInv, TypeOK, StopPhases, Operations
<1>4. TypeOK'
  BY <1>1, <1>3 DEF IInv, TypeOK
<1>5. NoLostRequest' /\ TasksWellFormed'
  BY <1>1 DEF IInv, NoLostRequest, Waiting, TasksWellFormed
<1>6. EveryRequestAccounted' /\ OperationTracksWork'
  BY <1>1, <1>2, <1>3 DEF IInv, EveryRequestAccounted, OperationTracksWork, BatchIsOver
<1>7. OnePreparationPerBatch' /\ StoppedMeansQuiet'
  BY <1>1, <1>2, <1>3 DEF OnePreparationPerBatch, StoppedMeansQuiet
<1>8. DispatcherPhases' /\ StopPhases'
  BY <1>1, <1>3 DEF IInv, DispatcherPhases, StopPhases
<1>9. QED
  BY <1>4, <1>5, <1>6, <1>7, <1>8 DEF IInv

-----------------------------------------------------------------------------
\* No step of any thread breaks the invariant.
LEMMA NextIInv == IInv /\ [Next]_vars => IInv'
<1> SUFFICES ASSUME IInv, [Next]_vars PROVE IInv'
  OBVIOUS
<1>1. CASE \E id \in RuleIds : EnqueueRuleSync(id)
  BY <1>1, EnqueueStep
<1>2. CASE DispatcherNext
  BY <1>2, DispatcherStep, PrepareStep, DispatchStep DEF DispatcherNext
<1>3. CASE \E w \in Workers : WorkerNext(w)
  BY <1>3, TaskStep, FinishStep DEF WorkerNext
<1>4. CASE StopRequested
  BY <1>4, StopRequestedStep
<1>5. CASE StopperNext \/ StartRuleSyncQueue
  BY <1>5, StopperStep DEF StopperNext
<1>6. CASE UNCHANGED vars
  <2>1. NoLostRequest' /\ TasksWellFormed' /\ Busy' = Busy
        /\ EveryRequestAccounted' /\ OperationTracksWork'
    BY <1>6, QuietStep DEF vars
  <2>2. TypeOK'
    BY <1>6 DEF vars, IInv, TypeOK
  <2>3. QED
    BY <1>6, <2>1, <2>2
       DEF vars, IInv, OnePreparationPerBatch, StoppedMeansQuiet, DispatcherPhases, StopPhases
<1>7. QED
  BY <1>1, <1>2, <1>3, <1>4, <1>5, <1>6 DEF Next

LEMMA Invariance == Spec => []IInv
BY InitIInv, NextIInv, PTL DEF Spec

\* Every variable keeps its type, the limit stays between one and the size of
\* the executor, whatever outcomes _record_sync_outcome_locked is given.
THEOREM TypeCorrect == Spec => []TypeOK
BY Invariance, PTL DEF IInv

\* A rule asked for since its last dispatch waits in the deque, exactly once: the
\* duplicate test of enqueue_rule_sync never drops a request it should keep.
THEOREM RequestsAreKept == Spec => []NoLostRequest
BY Invariance, PTL DEF IInv

\* The counters of the queue's status add up at every moment.
THEOREM CountersAddUp == Spec => []EveryRequestAccounted
BY Invariance, PTL DEF IInv

\* The progress record is open exactly while work is outstanding.
THEOREM OperationIsOpenWhileBusy == Spec => []OperationTracksWork
BY Invariance, PTL DEF IInv

\* No request resets the feed preparation under a running task.
THEOREM BatchIsPreparedOnce == Spec => []OnePreparationPerBatch
BY Invariance, PTL DEF IInv

\* When stop_rule_sync_queue has returned, nothing waits and nothing runs.
THEOREM StopLeavesNothing == Spec => []StoppedMeansQuiet
BY Invariance, PTL DEF IInv

-----------------------------------------------------------------------------
\* The rule each thread serves, as WorkQueue sees it.
Serving == [w \in Workers |-> task[w].rule]

\* The initial state of the queue is one of WorkQueue.
LEMMA InitRefines == Init => Work!WorkInit
BY DEF Init, Work!WorkInit, Idle

\* Every step of the queue is a step of WorkQueue or invisible to it.
LEMMA NextRefines == IInv /\ [Next]_vars => [Work!WorkNext]_(Work!workVars)
<1> SUFFICES ASSUME IInv, [Next]_vars
             PROVE  Work!WorkNext \/ UNCHANGED <<unserved, Serving, stopEvent>>
  BY DEF Work!workVars, Serving
<1> USE DEF Serving
<1>1. task \in [Workers -> Tasks]
  BY DEF IInv, TypeOK
<1>2. ASSUME NEW id \in RuleIds, EnqueueRuleSync(id)
      PROVE  Work!Request(id)
  BY <1>2 DEF EnqueueRuleSync, AcceptsWork, Work!Request
<1>3. ASSUME NEW w \in Workers, Dispatch(w)
      PROVE  Work!Begin(w, Head(queue)) /\ Head(queue) \in RuleIds
  <2>1. /\ task[w] = Idle /\ queue # <<>> /\ queue \in Seq(RuleIds)
        /\ unserved' = unserved \ {Head(queue)} /\ UNCHANGED stopEvent
        /\ task' = [task EXCEPT ![w] = [Idle EXCEPT !.pc = "submitted", !.rule = Head(queue)]]
    BY <1>3 DEF Dispatch, IInv, TypeOK
  <2>2. Head(queue) = queue[1] /\ 1 \in 1..Len(queue) /\ Head(queue) \in RuleIds
    BY <2>1
  <2>3. Head(queue) \in unserved
    BY <2>2 DEF IInv, NoLostRequest, Waiting
  <2>4. Serving[w] = NoRule /\ Serving' = [Serving EXCEPT ![w] = Head(queue)]
    <3> DEFINE begun == [Idle EXCEPT !.pc = "submitted", !.rule = Head(queue)]
    <3>1. begun.rule = Head(queue) /\ Idle.rule = NoRule
      BY DEF Idle
    <3>2. task' = [task EXCEPT ![w] = begun]
      BY <2>1
    <3> HIDE DEF begun
    <3>3. QED
      BY <3>1, <3>2, <2>1, <1>1
  <2>5. QED
    BY <2>1, <2>2, <2>3, <2>4 DEF Work!Begin
<1>4. ASSUME NEW w \in Workers,
             TaskStarts(w) \/ \E result \in Results : TaskSyncs(w, result)
      PROVE  UNCHANGED <<unserved, Serving, stopEvent>>
  BY <1>1, <1>4 DEF TaskStarts, TaskSyncs, Tasks
<1>5. ASSUME NEW w \in Workers, TaskFinishes(w)
      PROVE  Work!End(w)
  <2>1. /\ task[w].pc = "finishing" /\ task' = [task EXCEPT ![w] = Idle]
        /\ UNCHANGED <<unserved, stopEvent>>
    BY <1>5 DEF TaskFinishes
  <2>2. Serving[w] # NoRule
    BY <2>1, SyncQueueAssumption DEF IInv, TasksWellFormed, SyncQueueAssumption
  <2>3. Serving' = [Serving EXCEPT ![w] = NoRule]
    BY <2>1, <1>1 DEF Idle
  <2>4. QED
    BY <2>1, <2>2, <2>3 DEF Work!End
<1>6. ASSUME StopRequested
      PROVE  Work!Close
  BY <1>6 DEF StopRequested, IInv, StopPhases, Work!Close
<1>7. ASSUME StartRuleSyncQueue
      PROVE  Work!Reopen
  <2>1. Busy = {} /\ stopEvent
    BY <1>7 DEF StartRuleSyncQueue, IInv, StoppedMeansQuiet, StopPhases
  <2>2. \A w \in Workers : Serving[w] = NoRule
    BY <2>1 DEF Busy, Idle
  <2>3. QED
    BY <1>7, <2>1, <2>2 DEF StartRuleSyncQueue, Work!Reopen
<1>8. ASSUME \/ DispatcherStarts \/ DispatcherExits \/ DispatcherDrains \/ PrepareBegins
             \/ \E failed \in BOOLEAN : PrepareEnds(failed)
             \/ DispatcherWaits \/ DispatcherTimesOut
             \/ StopperNext
             \/ UNCHANGED vars
      PROVE  UNCHANGED <<unserved, Serving, stopEvent>>
  BY <1>8 DEF DispatcherStarts, DispatcherExits, DispatcherDrains, PrepareBegins, PrepareEnds,
              DispatcherWaits, DispatcherTimesOut, StopperNext, StopJoins, StopCloses, vars
<1>9. CASE \E id \in RuleIds : EnqueueRuleSync(id)
  BY <1>9, <1>2 DEF Work!WorkNext
<1>10. CASE DispatcherNext
  <2>1. CASE \E w \in Workers : Dispatch(w)
    <3>1. PICK w \in Workers : Dispatch(w)
      BY <2>1
    <3>2. Work!Begin(w, Head(queue)) /\ Head(queue) \in RuleIds
      BY <3>1, <1>3
    <3>3. \E v \in Workers, id \in RuleIds : Work!Begin(v, id)
      BY <3>2 DEF Work!Begin
    <3>4. QED
      BY <3>3 DEF Work!WorkNext
  <2>2. CASE ~\E w \in Workers : Dispatch(w)
    BY <2>2, <1>10, <1>8 DEF DispatcherNext
  <2>3. QED
    BY <2>1, <2>2
<1>11. CASE \E w \in Workers : WorkerNext(w)
  BY <1>11, <1>4, <1>5 DEF WorkerNext, Work!WorkNext
<1>12. CASE StopRequested \/ StopperNext \/ StartRuleSyncQueue \/ UNCHANGED vars
  BY <1>12, <1>6, <1>7, <1>8 DEF Work!WorkNext
<1>13. QED
  BY <1>9, <1>10, <1>11, <1>12 DEF Next

\* The queue implements WorkQueue: requests coalesce only while they wait, and a
\* request made under a running task is served by a later one.
THEOREM QueueImplementsWorkQueue == Spec => ImplementsWorkQueue
<1>1. Init => Work!WorkInit
  BY InitRefines
<1>2. IInv /\ [Next]_vars => [Work!WorkNext]_(Work!workVars)
  BY NextRefines
<1>3. QED
  BY <1>1, <1>2, Invariance, PTL DEF Spec, ImplementsWorkQueue, Work!WorkSpec
=============================================================================
