-------------------------- MODULE RuleFetchProofs --------------------------
(***************************************************************************)
(* Proofs about RuleFetch for every set of rules, every limit on a batch,  *)
(* every number of parallel searches and any number of acts and faults:    *)
(* the safety properties that MCRuleFetch checks on two rules.             *)
(***************************************************************************)
EXTENDS RuleFetch, FiniteSetTheorems, TLAPS

\* A worker has a rule in its hands from the pop to the end of its round, and
\* remembers a busy lock only at that end.
WorkerWellFormed ==
  /\ worker.pc \in {"none", "dead", "loop", "waiting"} <=> worker.id = NoRule
  /\ worker.retry => worker.pc = "finish"

\* What died with a worker is neither queued nor in somebody's hands.
StrandedApart ==
  app = "up" => stranded \cap (InHand \cup ToSet(queue)) = {}

\* A lock that is free leaves no batch, an idle scheduler no selection.
IdleIsClean ==
  /\ ~Busy => batch = NoBatch
  /\ sched.pc = "idle" => sched = IdleSched

\* A batch is about rules that were committed, and a fetch that raised in the
\* executor did so because one of them was deleted.
MembersExist ==
  /\ \A r \in Members : rule[r].life # "absent"
  /\ batch.doomed => \E r \in Members : rule[r].life = "gone"

\* A process that ended keeps nothing in memory.
NothingInMemory ==
  app = "down" =>
    /\ owed = {} /\ stranded = {}
    /\ worker = NoWorker /\ sched = IdleSched /\ batch = NoBatch

\* The inductive invariant: what concerns the queue and its worker, ...
QueueInv == ReservedAccounted /\ WorkerWellFormed /\ StrandedApart

\* ... what concerns the lock and the batch, and what a restart relies on.
BatchInv == LockHasOwner /\ IdleIsClean /\ MembersExist

IInv == TypeOK /\ QueueInv /\ BatchInv /\ NothingInMemory

-----------------------------------------------------------------------------
\* Append adds its element to what waits in a deque, ...
LEMMA AppendToDeque ==
  ASSUME NEW S, NEW q \in Seq(S), NEW e \in S
  PROVE  /\ Append(q, e) \in Seq(S)
         /\ ToSet(Append(q, e)) = ToSet(q) \cup {e}
         /\ IsInjective(q) /\ e \notin ToSet(q) => IsInjective(Append(q, e))
<1> DEFINE r == Append(q, e)
<1>1. /\ r \in Seq(S) /\ Len(q) \in Nat /\ Len(r) = Len(q) + 1
      /\ \A i \in 1..Len(q) : r[i] = q[i]
      /\ r[Len(q) + 1] = e
      /\ DOMAIN q = 1..Len(q) /\ DOMAIN r = 1..Len(r)
  OBVIOUS
<1>2. DOMAIN r = (DOMAIN q) \cup {Len(q) + 1}
  BY <1>1
<1> HIDE DEF r
<1>3. ToSet(r) = ToSet(q) \cup {e}
  BY <1>1, <1>2 DEF ToSet
<1>4. ASSUME IsInjective(q), e \notin ToSet(q),
             NEW i \in DOMAIN r, NEW j \in DOMAIN r, r[i] = r[j]
      PROVE  i = j
  BY <1>1, <1>2, <1>4 DEF ToSet, IsInjective
<1>5. QED
  BY <1>1, <1>3, <1>4 DEF r, IsInjective

\* ... and Tail takes the head away, if no element waits twice.
LEMMA TailOfDeque ==
  ASSUME NEW S, NEW q \in Seq(S), q # <<>>, IsInjective(q)
  PROVE  /\ Tail(q) \in Seq(S) /\ Head(q) \in S
         /\ Head(q) \in ToSet(q)
         /\ ToSet(Tail(q)) = ToSet(q) \ {Head(q)}
         /\ IsInjective(Tail(q))
<1> DEFINE r == Tail(q)
<1>1. /\ r \in Seq(S) /\ Len(q) \in Nat \ {0} /\ Len(r) = Len(q) - 1
      /\ \A i \in 1..Len(r) : r[i] = q[i + 1]
      /\ Head(q) = q[1] /\ Head(q) \in S
      /\ DOMAIN q = 1..Len(q) /\ DOMAIN r = 1..Len(r)
  OBVIOUS
<1> HIDE DEF r
<1>2. \A i \in DOMAIN q : i # 1 => i - 1 \in DOMAIN r /\ r[i - 1] = q[i]
  BY <1>1
<1>3. \A i \in DOMAIN r : i + 1 \in DOMAIN q /\ i + 1 # 1
  BY <1>1
<1>4. 1 \in DOMAIN q
  BY <1>1
<1>5. \A i, j \in DOMAIN q : q[i] = q[j] => i = j
  BY DEF IsInjective
<1>6. ToSet(r) = ToSet(q) \ {Head(q)}
  <2>1. ASSUME NEW i \in DOMAIN r
        PROVE  r[i] \in ToSet(q) \ {Head(q)}
    <3>1. i + 1 \in DOMAIN q /\ r[i] = q[i + 1] /\ q[i + 1] # q[1]
      BY <1>1, <1>3, <1>4, <1>5
    <3>2. QED
      BY <3>1, <1>1 DEF ToSet
  <2>2. ASSUME NEW i \in DOMAIN q, q[i] # Head(q)
        PROVE  q[i] \in ToSet(r)
    BY <2>2, <1>1, <1>2 DEF ToSet
  <2>3. QED
    BY <2>1, <2>2 DEF ToSet
<1>7. IsInjective(r)
  BY <1>1, <1>3, <1>5 DEF IsInjective
<1>8. Head(q) \in ToSet(q)
  BY <1>1, <1>4 DEF ToSet
<1>9. QED
  BY <1>1, <1>6, <1>7, <1>8 DEF r

-----------------------------------------------------------------------------
\* The queue does not notice what a batch does to its worker, ...
LEMMA QueueUntouched ==
  ASSUME QueueInv, UNCHANGED <<app, queue, reserved, stranded>>,
         worker'.id = worker.id, worker.pc # "none" <=> worker'.pc # "none",
         WorkerWellFormed'
  PROVE  QueueInv'
BY DEF QueueInv, ReservedAccounted, StrandedApart, InHand

\* The batch of the same caller about the same rules.
SameBatch ==
  /\ batch'.caller = batch.caller /\ batch'.doomed = batch.doomed
  /\ Members' = Members
  /\ ~Busy => batch' = batch

LEMMA Unmoved == UNCHANGED batch => SameBatch
BY DEF SameBatch, Members

\* ... nor the lock what happens to the queue.
LEMMA BatchUntouched ==
  ASSUME BatchInv, UNCHANGED sched, SameBatch,
         \A r \in Rules : rule'[r].life = rule[r].life,
         worker'.pc = "batch" <=> worker.pc = "batch",
         worker.pc = "batch" => worker'.id = worker.id
  PROVE  BatchInv'
BY DEF BatchInv, LockHasOwner, IdleIsClean, MembersExist, Members, Busy, SameBatch

-----------------------------------------------------------------------------
Batches == [caller : Callers \cup {"nobody"}, allow : BOOLEAN,
            phase : {"first", "second"}, job : [Rules -> Jobs],
            seen : [Rules -> Modes \cup {"expired"}],
            noted : SUBSET Rules, hit : SUBSET Rules, doomed : BOOLEAN]
WorkerStates == [pc : {"none", "dead", "loop", "select", "run", "batch", "except",
                       "finish", "waiting"},
                 id : Rules \cup {NoRule}, retry : BOOLEAN]
Budgets == [actions : 0..MaxActions, faults : 0..MaxFaults]

LEMMA RestingTypes ==
  /\ NoBatch \in Batches
  /\ NoWorker \in [pc : {"none"}, id : {NoRule}, retry : {FALSE}]
  /\ IdleSched \in [pc : {"idle"}, due : SUBSET Rules, all : {FALSE}]
BY DEF NoBatch, NoWorker, IdleSched, Batches, Callers, Jobs, Outcomes, Modes

LEMMA BudgetTypes ==
  ASSUME TypeOK, Act \/ Fault \/ UNCHANGED budget
  PROVE  budget' \in Budgets
<1> USE DEF Budgets
<1>1. budget \in Budgets /\ MaxActions \in Nat /\ MaxFaults \in Nat
  BY RuleFetchAssumption DEF TypeOK, RuleFetchAssumption
<1>2. CASE Act
  BY <1>1, <1>2 DEF Act
<1>3. CASE Fault
  BY <1>1, <1>3 DEF Fault
<1>4. QED
  BY <1>1, <1>2, <1>3

LEMMA InitIInv == Init => IInv
<1> SUFFICES ASSUME Init PROVE IInv
  OBVIOUS
<1>1. TypeOK
  <2>1. rule \in [Rules -> Row]
    BY DEF Init, Row, Modes
  <2>2. budget \in Budgets
    BY RuleFetchAssumption DEF Init, Budgets, RuleFetchAssumption
  <2>3. queue \in Seq(Rules)
    BY DEF Init
  <2>4. QED
    BY <2>1, <2>2, <2>3, RestingTypes DEF Init, TypeOK, Batches, Budgets
<1>2. QueueInv
  <2>1. ToSet(queue) = {} /\ IsInjective(queue)
    BY DEF Init, ToSet, IsInjective
  <2>2. QED
    BY <2>1 DEF Init, QueueInv, ReservedAccounted, WorkerWellFormed, StrandedApart,
                InHand, NoWorker
<1>3. BatchInv
  BY DEF Init, BatchInv, LockHasOwner, IdleIsClean, MembersExist, Members, Busy,
         NoBatch, NoWorker, IdleSched
<1>4. NothingInMemory
  BY DEF Init, NothingInMemory
<1>5. QED
  BY <1>1, <1>2, <1>3, <1>4 DEF IInv

-----------------------------------------------------------------------------
\* A batch that ends returns its caller to its own work, ...
LEMMA BatchEnds ==
  ASSUME IInv, Busy, NEW raised \in BOOLEAN, EndBatch(raised),
         UNCHANGED <<settings, app, queueVars>>,
         rule' \in [Rules -> Row], budget' \in Budgets
  PROVE  IInv'
<1>1. TypeOK /\ QueueInv /\ BatchInv /\ NothingInMemory
  BY DEF IInv
<1>2. app # "down"
  BY <1>1 DEF NothingInMemory, Busy, NoBatch
<1>3. TypeOK'
  <2>1. batch' \in Batches
    BY RestingTypes DEF EndBatch
  <2>2. sched' \in [pc : {"idle", "run", "batch"}, due : SUBSET Rules, all : BOOLEAN]
    BY <1>1, RestingTypes DEF EndBatch, TypeOK
  <2>3. worker' \in WorkerStates
    BY <1>1 DEF EndBatch, TypeOK, WorkerStates
  <2>4. QED
    BY <1>1, <2>1, <2>2, <2>3 DEF TypeOK, Batches, Budgets, WorkerStates, queueVars
<1>4. QueueInv'
  <2>1. worker'.id = worker.id /\ (worker.pc # "none" <=> worker'.pc # "none")
    BY <1>1 DEF EndBatch, TypeOK, BatchInv, LockHasOwner
  <2>2. WorkerWellFormed'
    BY <1>1, RuleFetchAssumption
    DEF EndBatch, TypeOK, BatchInv, QueueInv, LockHasOwner, WorkerWellFormed,
        RuleFetchAssumption
  <2>3. QED
    BY <1>1, <2>1, <2>2, QueueUntouched DEF queueVars
<1>5. BatchInv'
  <2>1. batch'.caller = "nobody" /\ worker'.pc # "batch" /\ sched'.pc # "batch"
    BY <1>1 DEF EndBatch, TypeOK, BatchInv, LockHasOwner, NoBatch, IdleSched, Callers
  <2>2. Members' = {} /\ batch'.doomed = FALSE
    BY DEF EndBatch, Members, NoBatch
  <2>3. sched'.pc = "idle" => sched' = IdleSched
    BY <1>1 DEF EndBatch, BatchInv, IdleIsClean, IdleSched
  <2>4. QED
    BY <2>1, <2>2, <2>3
    DEF BatchInv, LockHasOwner, IdleIsClean, MembersExist, Busy, EndBatch
<1>6. NothingInMemory'
  BY <1>2 DEF NothingInMemory, queueVars
<1>7. QED
  BY <1>3, <1>4, <1>5, <1>6 DEF IInv

\* ... and one that goes on stays the batch of its caller about its rules.
LEMMA BatchGoesOn ==
  ASSUME IInv, Busy, UNCHANGED <<settings, app, queueVars, worker, sched>>,
         rule' \in [Rules -> Row], budget' \in Budgets, batch' \in Batches,
         \A r \in Rules : rule'[r].life = rule[r].life,
         batch'.caller = batch.caller, Members' = Members,
         batch'.doomed => batch.doomed \/ \E r \in Members : rule[r].life = "gone"
  PROVE  IInv'
<1>1. TypeOK /\ QueueInv /\ BatchInv /\ NothingInMemory
  BY DEF IInv
<1>2. app # "down"
  BY <1>1 DEF NothingInMemory, Busy, NoBatch
<1>3. TypeOK'
  BY <1>1 DEF TypeOK, Batches, Budgets, queueVars
<1>4. QueueInv'
  BY <1>1, QueueUntouched DEF QueueInv, WorkerWellFormed, queueVars
<1>5. BatchInv'
  BY <1>1 DEF BatchInv, LockHasOwner, IdleIsClean, MembersExist, Busy, Members
<1>6. NothingInMemory'
  BY <1>2 DEF NothingInMemory, queueVars
<1>7. QED
  BY <1>3, <1>4, <1>5, <1>6 DEF IInv

-----------------------------------------------------------------------------
\* The job of a member may change, and what the caller's session knows.
LEMMA JobChanges ==
  ASSUME TypeOK, NEW r \in Members, NEW j \in Jobs \ {"out"},
         NEW s \in [Rules -> Modes \cup {"expired"}], NEW n \in SUBSET Rules,
         NEW d \in BOOLEAN,
         batch' = [batch EXCEPT !.job[r] = j, !.seen = s, !.noted = n, !.doomed = d]
  PROVE  /\ batch' \in Batches
         /\ batch'.caller = batch.caller /\ batch'.doomed = d
         /\ Members' = Members
<1>1. r \in Rules /\ batch \in Batches /\ batch.job[r] # "out"
  BY DEF Members, TypeOK, Batches
<1>2. batch' \in Batches /\ batch'.caller = batch.caller /\ batch'.doomed = d
  BY <1>1 DEF Batches
<1>3. batch'.job = [batch.job EXCEPT ![r] = j]
  BY <1>1 DEF Batches
<1>4. \A q \in Rules : batch'.job[q] # "out" <=> batch.job[q] # "out"
  BY <1>1, <1>3 DEF Batches
<1>5. QED
  BY <1>2, <1>4 DEF Members

LEMMA BeginInOwnSessionStep ==
  ASSUME IInv, NEW r \in Rules, BeginInOwnSession(r)
  PROVE  IInv'
<1>1. TypeOK /\ BatchInv
  BY DEF IInv
<1>2. r \in Members /\ Busy
  BY <1>1 DEF BeginInOwnSession, Members, BatchInv, IdleIsClean, NoBatch
<1>3. PICK j \in {"failed", "skipped", "running"} : batch' = [batch EXCEPT !.job[r] = j]
  BY DEF BeginInOwnSession
<1>4. batch' = [batch EXCEPT !.job[r] = j, !.seen = batch.seen, !.noted = batch.noted,
                               !.doomed = batch.doomed]
  BY <1>1, <1>3 DEF TypeOK
<1>5. j \in Jobs \ {"out"} /\ batch.seen \in [Rules -> Modes \cup {"expired"}]
      /\ batch.noted \in SUBSET Rules /\ batch.doomed \in BOOLEAN
  BY <1>1 DEF TypeOK, Jobs, Outcomes
<1>6. /\ batch' \in Batches /\ batch'.caller = batch.caller
      /\ batch'.doomed = batch.doomed /\ Members' = Members
  BY <1>1, <1>2, <1>4, <1>5, JobChanges
<1>7. QED
  BY <1>1, <1>2, <1>6, BudgetTypes, BatchGoesOn DEF BeginInOwnSession, TypeOK

LEMMA BeginInCallerSessionStep ==
  ASSUME IInv, NEW r \in Rules, BeginInCallerSession(r)
  PROVE  IInv'
<1>1. TypeOK /\ BatchInv
  BY DEF IInv
<1>2. r \in Members /\ Busy
  BY <1>1 DEF BeginInCallerSession, Members, BatchInv, IdleIsClean, NoBatch
<1>3. budget' \in Budgets /\ rule' \in [Rules -> Row]
  BY <1>1, BudgetTypes DEF BeginInCallerSession, TypeOK
<1>4. CASE EndBatch(TRUE)
  BY <1>2, <1>3, <1>4, BatchEnds DEF BeginInCallerSession
<1>5. CASE ~EndBatch(TRUE)
  <2>1. PICK mode \in Modes \cup {"expired"}, j \in {"skipped", "running", "rerunning"},
             n \in SUBSET Rules :
          /\ batch' = [batch EXCEPT !.seen[r] = mode, !.noted = n, !.job[r] = j]
          /\ UNCHANGED <<worker, sched>>
    <3>1. rule[r].mode \in Modes /\ batch.seen[r] \in Modes \cup {"expired"}
      BY <1>1 DEF TypeOK, Row
    <3>2. batch.noted \in SUBSET Rules /\ batch.noted \cup Noted({r}) \in SUBSET Rules
      BY <1>1 DEF TypeOK, Noted
    <3> DEFINE mode == IF batch.seen[r] = "expired" THEN rule[r].mode ELSE batch.seen[r]
               n == IF batch.seen[r] = "expired"
                    THEN batch.noted \cup Noted({r}) ELSE batch.noted
               j == IF Blocked(mode) /\ ~batch.allow THEN "skipped"
                    ELSE IF batch.phase = "first" THEN "running" ELSE "rerunning"
    <3>3. /\ batch' = [batch EXCEPT !.seen[r] = mode, !.noted = n, !.job[r] = j]
          /\ UNCHANGED <<worker, sched>>
      BY <1>5 DEF BeginInCallerSession
    <3>4. mode \in Modes \cup {"expired"} /\ n \in SUBSET Rules
          /\ j \in {"skipped", "running", "rerunning"}
      BY <3>1, <3>2
    <3> HIDE DEF mode, n, j
    <3>5. QED
      BY <3>3, <3>4
  <2>2. batch' = [batch EXCEPT !.job[r] = j, !.seen = [batch.seen EXCEPT ![r] = mode],
                               !.noted = n, !.doomed = batch.doomed]
    BY <1>1, <2>1 DEF TypeOK
  <2>3. j \in Jobs \ {"out"}
        /\ [batch.seen EXCEPT ![r] = mode] \in [Rules -> Modes \cup {"expired"}]
        /\ batch.doomed \in BOOLEAN
    BY <1>1 DEF TypeOK, Jobs, Outcomes
  <2>4. /\ batch' \in Batches /\ batch'.caller = batch.caller
        /\ batch'.doomed = batch.doomed /\ Members' = Members
    BY <1>1, <1>2, <2>2, <2>3, JobChanges
  <2>5. QED
    BY <1>2, <1>3, <2>1, <2>4, BatchGoesOn DEF BeginInCallerSession
<1>6. QED
  BY <1>4, <1>5

\* A running fetch that finds its row gone, ...
LEMMA RaiseFetchStep ==
  ASSUME IInv, NEW r \in Running, ~Live(r), RaiseFetch(r),
         UNCHANGED <<rule, settings, app, queueVars>>, budget' \in Budgets
  PROVE  IInv'
<1>1. TypeOK /\ BatchInv
  BY DEF IInv
<1>2. r \in Members /\ r \in Rules /\ Busy
  BY <1>1 DEF Running, Members, BatchInv, IdleIsClean, NoBatch
<1>3. CASE EndBatch(TRUE)
  BY <1>1, <1>2, <1>3, BatchEnds DEF TypeOK
<1>4. CASE ~EndBatch(TRUE)
  <2>1. /\ batch' = [batch EXCEPT !.job[r] = "failed", !.doomed = TRUE]
        /\ UNCHANGED <<worker, sched>>
    BY <1>4 DEF RaiseFetch
  <2>2. batch' = [batch EXCEPT !.job[r] = "failed", !.seen = batch.seen,
                               !.noted = batch.noted, !.doomed = TRUE]
    BY <1>1, <2>1 DEF TypeOK
  <2>3. "failed" \in Jobs \ {"out"} /\ batch.seen \in [Rules -> Modes \cup {"expired"}]
        /\ batch.noted \in SUBSET Rules
    BY <1>1 DEF TypeOK, Jobs
  <2>4. /\ batch' \in Batches /\ batch'.caller = batch.caller /\ Members' = Members
    BY <1>1, <1>2, <2>2, <2>3, JobChanges
  <2>5. rule[r].life = "gone"
    BY <1>1, <1>2 DEF TypeOK, Row, BatchInv, MembersExist, Live
  <2>6. QED
    BY <1>1, <1>2, <2>1, <2>4, <2>5, BatchGoesOn DEF TypeOK
<1>5. QED
  BY <1>3, <1>4

LEMMA FetchSucceedsStep ==
  ASSUME IInv, NEW r \in Rules, FetchSucceeds(r)
  PROVE  IInv'
<1>1. TypeOK /\ BatchInv
  BY DEF IInv
<1>2. r \in Running /\ r \in Members /\ Busy
  BY <1>1 DEF FetchSucceeds, Running, Members, BatchInv, IdleIsClean, NoBatch
<1>3. budget' \in Budgets
  BY <1>1, BudgetTypes DEF FetchSucceeds
<1>4. CASE Live(r)
  <2>1. /\ rule' = [rule EXCEPT ![r].snap = "fresh"]
        /\ batch' = [batch EXCEPT !.job[r] = "ok"]
        /\ UNCHANGED <<worker, sched>>
    BY <1>4 DEF FetchSucceeds
  <2>6. batch' = [batch EXCEPT !.job[r] = "ok", !.seen = batch.seen,
                               !.noted = batch.noted, !.doomed = batch.doomed]
    BY <1>1, <2>1 DEF TypeOK
  <2>2. rule' \in [Rules -> Row] /\ \A q \in Rules : rule'[q].life = rule[q].life
    BY <1>1, <2>1 DEF TypeOK, Row
  <2>3. "ok" \in Jobs \ {"out"} /\ batch.seen \in [Rules -> Modes \cup {"expired"}]
        /\ batch.noted \in SUBSET Rules /\ batch.doomed \in BOOLEAN
    BY <1>1 DEF TypeOK, Jobs, Outcomes
  <2>4. /\ batch' \in Batches /\ batch'.caller = batch.caller
        /\ batch'.doomed = batch.doomed /\ Members' = Members
    BY <1>1, <1>2, <2>6, <2>3, JobChanges
  <2>5. QED
    BY <1>2, <1>3, <2>1, <2>2, <2>4, BatchGoesOn DEF FetchSucceeds
<1>5. CASE ~Live(r)
  BY <1>2, <1>3, <1>5, RaiseFetchStep DEF FetchSucceeds
<1>6. QED
  BY <1>4, <1>5

LEMMA FetchFailsStep ==
  ASSUME IInv, NEW r \in Rules, FetchFails(r)
  PROVE  IInv'
<1>1. TypeOK /\ BatchInv
  BY DEF IInv
<1>2. r \in Running /\ r \in Members /\ Busy
  BY <1>1 DEF FetchFails, Running, Members, BatchInv, IdleIsClean, NoBatch
<1>3. budget' \in Budgets
  BY <1>1, BudgetTypes DEF FetchFails
<1>4. CASE ~Live(r) /\ RaiseFetch(r)
  BY <1>2, <1>3, <1>4, RaiseFetchStep DEF FetchFails
<1>5. CASE ~(~Live(r) /\ RaiseFetch(r))
  <2>1. PICK rolledBack \in BOOLEAN :
          /\ batch' =
               [batch EXCEPT
                  !.job[r] = IF @ = "running" THEN "failed" ELSE "failedTwice",
                  !.seen = IF rolledBack /\ InCallerSession(r)
                           THEN [q \in Rules |-> IF q = r THEN rule[r].mode
                                                 ELSE "expired"]
                           ELSE @,
                  !.noted = IF rolledBack /\ InCallerSession(r) THEN Noted({r})
                            ELSE @]
          /\ UNCHANGED <<worker, sched>>
    BY <1>5 DEF FetchFails
  <2> DEFINE j == IF batch.job[r] = "running" THEN "failed" ELSE "failedTwice"
             s == IF rolledBack /\ InCallerSession(r)
                  THEN [q \in Rules |-> IF q = r THEN rule[r].mode ELSE "expired"]
                  ELSE batch.seen
             n == IF rolledBack /\ InCallerSession(r) THEN Noted({r}) ELSE batch.noted
  <2>2. j \in Jobs \ {"out"} /\ s \in [Rules -> Modes \cup {"expired"}]
        /\ n \in SUBSET Rules /\ batch.doomed \in BOOLEAN
    BY <1>1 DEF TypeOK, Jobs, Outcomes, Row, Noted
  <2>3. batch' = [batch EXCEPT !.job[r] = j, !.seen = s, !.noted = n,
                               !.doomed = batch.doomed]
    BY <1>1, <2>1 DEF TypeOK
  <2> HIDE DEF j, s, n
  <2>4. /\ batch' \in Batches /\ batch'.caller = batch.caller
        /\ batch'.doomed = batch.doomed /\ Members' = Members
    BY <1>1, <1>2, <2>2, <2>3, JobChanges
  <2>5. QED
    BY <1>1, <1>2, <1>3, <2>1, <2>4, BatchGoesOn DEF FetchFails, TypeOK
<1>6. QED
  BY <1>4, <1>5

LEMMA StartSecondPhaseStep ==
  ASSUME IInv, StartSecondPhase
  PROVE  IInv'
<1>1. TypeOK /\ Busy
  BY DEF IInv, StartSecondPhase
<1>2. budget' \in Budgets /\ rule' \in [Rules -> Row]
  BY <1>1, BudgetTypes DEF StartSecondPhase, TypeOK
<1>3. CASE EndBatch(TRUE)
  BY <1>1, <1>2, <1>3, BatchEnds DEF StartSecondPhase
<1>4. CASE ~EndBatch(TRUE)
  <2>1. /\ batch' = [batch EXCEPT
                       !.phase = "second",
                       !.seen = [r \in Rules |-> IF r \in Members /\ @[r] = "expired"
                                                 THEN rule[r].mode ELSE @[r]],
                       !.noted = @ \cup Noted({r \in Members :
                                                 batch.seen[r] = "expired"})]
        /\ UNCHANGED <<worker, sched>>
    BY <1>4 DEF StartSecondPhase
  <2>2. [r \in Rules |-> IF r \in Members /\ batch.seen[r] = "expired"
                         THEN rule[r].mode ELSE batch.seen[r]]
           \in [Rules -> Modes \cup {"expired"}]
        /\ batch.noted \cup Noted({r \in Members : batch.seen[r] = "expired"})
             \in SUBSET Rules
    BY <1>1 DEF TypeOK, Row, Noted, Members
  <2>3. /\ batch' \in Batches /\ batch'.caller = batch.caller
        /\ batch'.doomed = batch.doomed /\ batch'.job = batch.job
    BY <1>1, <2>1, <2>2 DEF TypeOK, Batches
  <2>4. QED
    BY <1>1, <1>2, <2>1, <2>3, BatchGoesOn DEF StartSecondPhase, Members
<1>5. QED
  BY <1>3, <1>4

LEMMA RecordStep ==
  ASSUME IInv, RecordOutcomes \/ RecordFails
  PROVE  IInv'
<1>1. TypeOK /\ Busy
  BY DEF IInv, RecordOutcomes, RecordFails, Settled
<1>2. CASE RecordOutcomes
  <2>1. budget' \in Budgets
    BY <1>1, <1>2, BudgetTypes DEF RecordOutcomes
  <2>2. rule' \in [Rules -> Row]
    <3>1. PICK keep \in BOOLEAN :
            rule' = [r \in Rules |->
                       IF keep \/ r \notin Members \/ ~Live(r) THEN rule[r]
                       ELSE [rule[r] EXCEPT !.retry = Verdict(r)]]
      BY <1>2 DEF RecordOutcomes
    <3>2. rule \in [Rules -> Row]
      BY <1>1 DEF TypeOK
    <3>3. ASSUME NEW r \in Rules
          PROVE  [rule[r] EXCEPT !.retry = Verdict(r)] \in Row
      BY <3>2 DEF Row, Verdict
    <3>4. QED
      BY <3>1, <3>2, <3>3
  <2>3. PICK raised \in BOOLEAN : EndBatch(raised)
    BY <1>2 DEF RecordOutcomes
  <2>4. QED
    BY <1>1, <1>2, <2>1, <2>2, <2>3, BatchEnds DEF RecordOutcomes
<1>3. CASE RecordFails
  BY <1>1, <1>3, BudgetTypes, BatchEnds DEF RecordFails, TypeOK
<1>4. QED
  BY <1>2, <1>3

LEMMA BatchStepIInv == IInv /\ BatchStep => IInv'
BY BeginInOwnSessionStep, BeginInCallerSessionStep, FetchSucceedsStep, FetchFailsStep,
   StartSecondPhaseStep, RecordStep DEF BatchStep

-----------------------------------------------------------------------------
\* The worker of a process that is not down: it runs, so it is not "none".
LEMMA WorkerRunsInAProcess ==
  ASSUME IInv, worker.pc # "none"
  PROVE  app # "down"
BY DEF IInv, NothingInMemory, NoWorker

LEMMA WorkerPopsStep ==
  ASSUME IInv, WorkerPops
  PROVE  IInv'
<1>1. TypeOK /\ QueueInv /\ BatchInv /\ app # "down"
  BY WorkerRunsInAProcess DEF IInv, WorkerPops
<1>2. worker.pc = "loop" /\ worker.id = NoRule /\ InHand = {}
  BY <1>1 DEF WorkerPops, QueueInv, WorkerWellFormed, InHand
<1>3. CASE app # "up" \/ queue = <<>>
  <2>1. worker' = NoWorker /\ InHand' = {}
    BY <1>3 DEF WorkerPops, InHand, NoWorker
  <2>2. TypeOK'
    <3>1. queue' \in Seq(Rules) /\ reserved' \subseteq Rules
      <4>1. <<>> \in Seq(Rules)
        OBVIOUS
      <4>2. QED
        BY <1>1, <1>3, <4>1 DEF WorkerPops, TypeOK
    <3>2. QED
      BY <1>1, <2>1, <3>1, RestingTypes DEF WorkerPops, TypeOK
  <2>3. QueueInv'
    <3>1. WorkerWellFormed'
      BY <2>1 DEF WorkerWellFormed, NoWorker
    <3>2. CASE app # "up"
      BY <1>1, <3>1, <3>2 DEF WorkerPops, QueueInv, ReservedAccounted, StrandedApart
    <3>3. CASE app = "up"
      BY <1>1, <1>2, <1>3, <2>1, <3>1, <3>3
      DEF WorkerPops, QueueInv, ReservedAccounted, StrandedApart
    <3>4. QED
      BY <3>2, <3>3
  <2>4. BatchInv'
    BY <1>1, <1>2, <2>1, BatchUntouched, Unmoved DEF WorkerPops, NoWorker
  <2>5. QED
    BY <1>1, <2>2, <2>3, <2>4 DEF IInv, NothingInMemory, WorkerPops
<1>4. CASE app = "up" /\ queue # <<>>
  <2>1. /\ worker' = [pc |-> "select", id |-> Head(queue), retry |-> FALSE]
        /\ queue' = Tail(queue) /\ UNCHANGED <<reserved, stranded, app>>
    BY <1>4 DEF WorkerPops
  <2>2. queue \in Seq(Rules) /\ IsInjective(queue)
    BY <1>1, <1>4 DEF TypeOK, QueueInv, ReservedAccounted
  <2>3. /\ queue' \in Seq(Rules) /\ Head(queue) \in Rules
        /\ Head(queue) \in ToSet(queue)
        /\ ToSet(queue') = ToSet(queue) \ {Head(queue)}
        /\ IsInjective(queue')
    BY <1>4, <2>1, <2>2, TailOfDeque
  <2>4. Head(queue) # NoRule /\ InHand' = {Head(queue)}
    BY <2>1, <2>3, RuleFetchAssumption DEF RuleFetchAssumption, InHand
  <2>5. TypeOK'
    BY <1>1, <2>1, <2>3 DEF TypeOK, WorkerPops
  <2>6. QueueInv'
    <3>1. WorkerWellFormed'
      BY <2>1, <2>4 DEF WorkerWellFormed
    <3>2. ReservedAccounted'
      BY <1>1, <1>2, <1>4, <2>1, <2>3, <2>4 DEF QueueInv, ReservedAccounted
    <3>3. StrandedApart'
      BY <1>1, <1>2, <1>4, <2>1, <2>3, <2>4 DEF QueueInv, StrandedApart
    <3>4. QED
      BY <3>1, <3>2, <3>3 DEF QueueInv
  <2>7. BatchInv'
    BY <1>1, <1>2, <2>1, BatchUntouched, Unmoved DEF WorkerPops
  <2>8. QED
    BY <1>4, <2>1, <2>5, <2>6, <2>7 DEF IInv, NothingInMemory
<1>5. QED
  BY <1>1, <1>3, <1>4 DEF TypeOK

\* A step of the worker that touches neither its rule nor the queue.
LEMMA WorkerMoves ==
  ASSUME IInv, NEW pc \in {"run", "except", "finish"}, NEW retry \in BOOLEAN,
         retry => pc = "finish",
         worker.pc \in {"select", "run", "except"},
         worker' = [worker EXCEPT !.pc = pc, !.retry = retry],
         UNCHANGED <<settings, app, queueVars, sched>>,
         batch' \in Batches, SameBatch,
         rule' \in [Rules -> Row], \A r \in Rules : rule'[r].life = rule[r].life,
         budget' \in Budgets
  PROVE  IInv'
<1>1. TypeOK /\ QueueInv /\ BatchInv /\ app # "down"
  BY WorkerRunsInAProcess DEF IInv
<1>2. worker'.pc = pc /\ worker'.id = worker.id /\ worker'.retry = retry
  BY <1>1 DEF TypeOK
<1>3. TypeOK'
  <2>1. worker' \in WorkerStates
    BY <1>1 DEF TypeOK, WorkerStates
  <2>2. QED
    BY <1>1, <2>1 DEF TypeOK, queueVars, Batches, Budgets, WorkerStates
<1>4. QueueInv'
  <2>1. WorkerWellFormed'
    BY <1>1, <1>2 DEF QueueInv, WorkerWellFormed
  <2>2. QED
    BY <1>1, <1>2, <2>1, QueueUntouched DEF queueVars
<1>5. BatchInv'
  BY <1>1, <1>2, BatchUntouched
<1>6. QED
  BY <1>1, <1>3, <1>4, <1>5 DEF IInv, NothingInMemory

LEMMA WorkerSelectsStep ==
  ASSUME IInv, WorkerSelects \/ WorkerErrs \/ WorkerRecordsFailure
  PROVE  IInv'
<1>1. TypeOK /\ QueueInv
  BY DEF IInv
<1>2. worker.pc \in {"select", "run", "except"}
  BY DEF WorkerSelects, WorkerErrs, WorkerRecordsFailure
<1>3. worker.retry = FALSE
  BY <1>1, <1>2 DEF TypeOK, QueueInv, WorkerWellFormed
<1>4. PICK pc \in {"run", "except", "finish"} : worker' = [worker EXCEPT !.pc = pc]
  BY DEF WorkerSelects, WorkerErrs, WorkerRecordsFailure
<1>5. worker' = [worker EXCEPT !.pc = pc, !.retry = FALSE]
  BY <1>1, <1>3, <1>4 DEF TypeOK
<1>6. budget' \in Budgets
  BY <1>1, BudgetTypes DEF WorkerSelects, WorkerErrs, WorkerRecordsFailure
<1>7. rule' \in [Rules -> Row] /\ \A r \in Rules : rule'[r].life = rule[r].life
  <2>1. CASE WorkerRecordsFailure
    <3>1. rule' = [rule EXCEPT ![worker.id].retry = "waiting"] \/ rule' = rule
      BY <2>1 DEF WorkerRecordsFailure
    <3>2. rule \in [Rules -> Row]
      BY <1>1 DEF TypeOK
    <3>3. QED
      BY <3>1, <3>2 DEF Row
  <2>2. CASE ~WorkerRecordsFailure
    BY <1>1, <2>2 DEF WorkerSelects, WorkerErrs, TypeOK
  <2>3. QED
    BY <2>1, <2>2
<1>8. UNCHANGED <<settings, app, queueVars, sched>>
  BY DEF WorkerSelects, WorkerErrs, WorkerRecordsFailure
<1>9. batch' \in Batches /\ SameBatch
  <2>1. CASE WorkerRecordsFailure /\ Busy
    <3>1. batch' = [batch EXCEPT !.hit = batch.hit \cup {worker.id}]
      BY <2>1 DEF WorkerRecordsFailure
    <3>2. worker.id \in Rules
      BY <1>1, <2>1, RuleFetchAssumption
      DEF TypeOK, QueueInv, WorkerWellFormed, WorkerRecordsFailure, RuleFetchAssumption
    <3>3. batch' \in Batches /\ batch'.job = batch.job
      BY <1>1, <3>1, <3>2 DEF TypeOK, Batches
    <3>4. batch'.caller = batch.caller /\ batch'.doomed = batch.doomed
      BY <1>1, <3>1 DEF TypeOK
    <3>5. QED
      BY <2>1, <3>3, <3>4 DEF SameBatch, Members
  <2>2. CASE ~(WorkerRecordsFailure /\ Busy)
    <3>1. batch' = batch
      BY <2>2 DEF WorkerSelects, WorkerErrs, WorkerRecordsFailure
    <3>2. QED
      BY <1>1, <3>1, Unmoved DEF TypeOK, Batches
  <2>3. QED
    BY <2>1, <2>2
<1>10. QED
  BY <1>2, <1>5, <1>6, <1>7, <1>8, <1>9, WorkerMoves

-----------------------------------------------------------------------------
\* What run_rules_fetch_batch starts, if anything is in scope.
LEMMA StartedBatch ==
  ASSUME TypeOK, NEW caller \in Callers, NEW ids \in SUBSET Rules,
         NEW disabledToo \in BOOLEAN, NEW allow \in BOOLEAN,
         StartBatch(caller, ids, disabledToo, allow)
  PROVE  /\ batch' \in Batches
         /\ \/ batch' = NoBatch
            \/ /\ batch'.caller = caller /\ caller # "nobody"
               /\ ~batch'.doomed
               /\ Members' # {} /\ Members' \subseteq ids
               /\ \A r \in Members' : Live(r)
<1> DEFINE chosen == {r \in ids : Live(r) /\ InScope(rule[r].mode, disabledToo, allow)}
           job == [r \in Rules |-> IF r \notin chosen THEN "out"
                                   ELSE IF settings.ready THEN "todo" ELSE "failedTwice"]
           seen == [r \in Rules |-> IF r \in chosen THEN rule[r].mode ELSE "expired"]
           noted == Noted(chosen)
           phase == IF settings.ready THEN "first" ELSE "second"
<1>1. CASE chosen = {}
  BY <1>1, RestingTypes DEF StartBatch
<1>2. CASE chosen # {}
  <2>1. batch' = [caller |-> caller, allow |-> allow, phase |-> phase,
                  job |-> job, seen |-> seen, noted |-> noted, hit |-> {},
                  doomed |-> FALSE]
    BY <1>2 DEF StartBatch
  <2>2. job \in [Rules -> Jobs] /\ seen \in [Rules -> Modes \cup {"expired"}]
        /\ phase \in {"first", "second"} /\ noted \in SUBSET Rules
    BY DEF TypeOK, Row, Jobs, Outcomes, Noted
  <2>3. chosen \subseteq Rules /\ \A r \in Rules : job[r] # "out" <=> r \in chosen
    OBVIOUS
  <2> HIDE DEF job, seen, noted, phase
  <2>4. Members' = chosen
    BY <2>1, <2>3 DEF Members
  <2>5. batch' \in Batches
    BY <2>1, <2>2 DEF Batches
  <2>6. QED
    BY <1>2, <2>1, <2>4, <2>5 DEF Callers
<1>3. QED
  BY <1>1, <1>2

LEMMA WorkerRunsStep ==
  ASSUME IInv, WorkerRuns
  PROVE  IInv'
<1>1. TypeOK /\ QueueInv /\ BatchInv /\ app # "down" /\ worker.pc = "run"
  BY WorkerRunsInAProcess DEF IInv, WorkerRuns
<1>2. CASE Busy
  <2>1. worker' = [worker EXCEPT !.pc = "finish", !.retry = TRUE]
    BY <1>2 DEF WorkerRuns
  <2>2. QED
    BY <1>1, <1>2, <2>1, BudgetTypes, WorkerMoves, Unmoved DEF WorkerRuns, TypeOK, Batches
<1>3. CASE ~Busy
  <2>1. StartBatch("worker", {worker.id}, FALSE, FALSE)
        /\ worker' = [worker EXCEPT !.pc = IF batch'.caller = "worker"
                                           THEN "batch" ELSE "finish"]
    BY <1>3 DEF WorkerRuns
  <2>2. worker.id \in Rules /\ worker.retry = FALSE
    BY <1>1, RuleFetchAssumption DEF TypeOK, QueueInv, WorkerWellFormed
  <2>3. /\ batch' \in Batches
        /\ \/ batch' = NoBatch
           \/ /\ batch'.caller = "worker" /\ ~batch'.doomed
              /\ Members' = {worker.id} /\ \A r \in Members' : Live(r)
    <3>1. "worker" \in Callers /\ {worker.id} \in SUBSET Rules /\ FALSE \in BOOLEAN
      BY <2>2 DEF Callers
    <3>2. /\ batch' \in Batches
          /\ \/ batch' = NoBatch
             \/ /\ batch'.caller = "worker" /\ ~batch'.doomed
                /\ Members' # {} /\ Members' \subseteq {worker.id}
                /\ \A r \in Members' : Live(r)
      BY <1>1, <2>1, <3>1, StartedBatch
    <3>3. QED
      BY <3>2
  <2>4. worker' \in [pc : {"batch", "finish"}, id : {worker.id}, retry : {FALSE}]
    BY <1>1, <2>1, <2>2 DEF TypeOK
  <2>5. TypeOK'
    BY <1>1, <2>2, <2>3, <2>4 DEF TypeOK, WorkerRuns, queueVars, Batches
  <2>6. QueueInv'
    <3>1. WorkerWellFormed'
      BY <1>1, <2>4 DEF QueueInv, WorkerWellFormed
    <3>2. QED
      BY <1>1, <2>4, <3>1, QueueUntouched DEF WorkerRuns, queueVars
  <2>7. BatchInv'
    <3>1. sched.pc # "batch" /\ sched' = sched
      BY <1>1, <1>3 DEF BatchInv, LockHasOwner, WorkerRuns, Busy
    <3>2. CASE batch' = NoBatch
      <4>1. batch'.caller = "nobody" /\ Members' = {} /\ batch'.doomed = FALSE
        BY <3>2 DEF NoBatch, Members
      <4>2. worker'.pc = "finish"
        BY <1>1, <2>1, <4>1 DEF TypeOK
      <4>3. QED
        BY <1>1, <3>1, <3>2, <4>1, <4>2
        DEF BatchInv, LockHasOwner, IdleIsClean, MembersExist, Busy
    <3>3. CASE batch' # NoBatch
      <4>1. worker'.pc = "batch"
        BY <1>1, <2>1, <2>3, <3>3 DEF TypeOK
      <4>2. \A r \in Members' : rule'[r].life # "absent"
        BY <2>3, <3>3 DEF WorkerRuns, Live
      <4>3. QED
        BY <1>1, <2>3, <2>4, <3>1, <3>3, <4>1, <4>2
        DEF BatchInv, LockHasOwner, IdleIsClean, MembersExist, Busy
    <3>4. QED
      BY <3>2, <3>3
  <2>8. QED
    BY <1>1, <2>5, <2>6, <2>7 DEF IInv, NothingInMemory, WorkerRuns
<1>4. QED
  BY <1>2, <1>3

LEMMA WorkerDiesStep ==
  ASSUME IInv, WorkerDies
  PROVE  IInv'
<1>1. TypeOK /\ QueueInv /\ BatchInv /\ app # "down"
  BY WorkerRunsInAProcess DEF IInv, WorkerDies
<1>2. worker' = [pc |-> "dead", id |-> NoRule, retry |-> FALSE] /\ worker.id \in Rules
  BY <1>1 DEF WorkerDies, NoWorker, TypeOK, QueueInv, WorkerWellFormed
<1>3. InHand = {worker.id} /\ InHand' = {}
  BY <1>2, RuleFetchAssumption DEF InHand, RuleFetchAssumption
<1>4. TypeOK'
  <2>1. budget' \in Budgets
    BY <1>1, BudgetTypes DEF WorkerDies
  <2>2. stranded' \subseteq Rules
    BY <1>1, <1>2 DEF WorkerDies, TypeOK
  <2>3. worker' \in WorkerStates
    BY <1>2 DEF WorkerStates
  <2>4. QED
    BY <1>1, <2>1, <2>2, <2>3 DEF TypeOK, WorkerDies, Budgets, WorkerStates
<1>5. QueueInv'
  <2>1. WorkerWellFormed'
    BY <1>2 DEF WorkerWellFormed
  <2>2. ReservedAccounted' /\ StrandedApart'
    <3>1. CASE app = "up"
      BY <1>1, <1>2, <1>3, <3>1
      DEF WorkerDies, QueueInv, ReservedAccounted, StrandedApart
    <3>2. CASE app # "up"
      BY <1>1, <3>2 DEF WorkerDies, QueueInv, ReservedAccounted, StrandedApart
    <3>3. QED
      BY <3>1, <3>2
  <2>3. QED
    BY <2>1, <2>2 DEF QueueInv
<1>6. BatchInv'
  BY <1>1, <1>2, BatchUntouched, Unmoved DEF WorkerDies
<1>7. QED
  BY <1>1, <1>4, <1>5, <1>6 DEF IInv, NothingInMemory, WorkerDies

LEMMA WorkerFinishesStep ==
  ASSUME IInv, WorkerFinishes
  PROVE  IInv'
<1>1. TypeOK /\ QueueInv /\ BatchInv /\ app # "down"
  BY WorkerRunsInAProcess DEF IInv, WorkerFinishes
<1>2. worker.pc = "finish" /\ worker.id \in Rules /\ InHand = {worker.id}
  BY <1>1, RuleFetchAssumption
  DEF WorkerFinishes, TypeOK, QueueInv, WorkerWellFormed, RuleFetchAssumption, InHand
<1>3. PICK pc \in {"waiting", "loop"} : worker' = [pc |-> pc, id |-> NoRule, retry |-> FALSE]
  BY DEF WorkerFinishes, NoWorker
<1>4. InHand' = {} /\ WorkerWellFormed'
  BY <1>3 DEF InHand, WorkerWellFormed
<1>5. BatchInv'
  BY <1>1, <1>2, <1>3, BatchUntouched, Unmoved DEF WorkerFinishes
<1>6. CASE worker.retry /\ app = "up"
  <2>1. queue' = Append(queue, worker.id) /\ UNCHANGED <<reserved, stranded, app>>
    BY <1>6 DEF WorkerFinishes
  <2>2. queue \in Seq(Rules) /\ IsInjective(queue) /\ worker.id \notin ToSet(queue)
    BY <1>1, <1>2, <1>6 DEF TypeOK, QueueInv, ReservedAccounted
  <2>3. queue' \in Seq(Rules) /\ ToSet(queue') = ToSet(queue) \cup {worker.id}
        /\ IsInjective(queue')
    BY <1>2, <2>1, <2>2, AppendToDeque
  <2>4. TypeOK'
    BY <1>1, <1>3, <2>3 DEF TypeOK, WorkerFinishes
  <2>5. ReservedAccounted' /\ StrandedApart'
    BY <1>1, <1>2, <1>3, <1>4, <1>6, <2>1, <2>3
    DEF QueueInv, ReservedAccounted, StrandedApart
  <2>6. QED
    BY <1>1, <1>4, <1>5, <2>4, <2>5 DEF IInv, QueueInv, NothingInMemory, WorkerFinishes
<1>7. CASE ~(worker.retry /\ app = "up")
  <2>1. /\ reserved' = reserved \ {worker.id} /\ UNCHANGED <<queue, stranded, app>>
    BY <1>7 DEF WorkerFinishes
  <2>2. TypeOK'
    BY <1>1, <1>3, <2>1 DEF TypeOK, WorkerFinishes
  <2>3. ReservedAccounted' /\ StrandedApart'
    <3>1. CASE app = "up"
      BY <1>1, <1>2, <1>3, <1>4, <2>1, <3>1
      DEF QueueInv, ReservedAccounted, StrandedApart
    <3>2. CASE app # "up"
      BY <1>1, <2>1, <3>2 DEF QueueInv, ReservedAccounted, StrandedApart
    <3>3. QED
      BY <3>1, <3>2
  <2>4. QED
    BY <1>1, <1>4, <1>5, <2>2, <2>3 DEF IInv, QueueInv, NothingInMemory, WorkerFinishes
<1>8. QED
  BY <1>6, <1>7

LEMMA WorkerWakesStep ==
  ASSUME IInv, WorkerWakes
  PROVE  IInv'
<1>1. TypeOK /\ QueueInv /\ BatchInv /\ app # "down"
  BY WorkerRunsInAProcess DEF IInv, WorkerWakes
<1>2. worker.pc = "waiting" /\ worker' = [worker EXCEPT !.pc = "loop"]
  BY DEF WorkerWakes
<1>3. worker'.pc = "loop" /\ worker'.id = worker.id /\ worker'.retry = worker.retry
  BY <1>1, <1>2 DEF TypeOK
<1>4. TypeOK'
  <2>1. worker' \in WorkerStates
    BY <1>1, <1>2 DEF TypeOK, WorkerStates
  <2>2. QED
    BY <1>1, <2>1 DEF TypeOK, WorkerWakes, queueVars, WorkerStates
<1>5. QueueInv'
  <2>1. WorkerWellFormed'
    BY <1>1, <1>2, <1>3 DEF QueueInv, WorkerWellFormed
  <2>2. QED
    BY <1>1, <1>2, <1>3, <2>1, QueueUntouched DEF WorkerWakes, queueVars
<1>6. BatchInv'
  BY <1>1, <1>2, <1>3, BatchUntouched, Unmoved DEF WorkerWakes
<1>7. QED
  BY <1>1, <1>4, <1>5, <1>6 DEF IInv, NothingInMemory, WorkerWakes

LEMMA WorkerStepIInv == IInv /\ WorkerStep => IInv'
BY WorkerPopsStep, WorkerSelectsStep, WorkerRunsStep, WorkerDiesStep,
   WorkerFinishesStep, WorkerWakesStep DEF WorkerStep

-----------------------------------------------------------------------------
LEMMA SelectedIsDue == \A S \in DueSelections : S \subseteq Rules
BY DEF DueSelections

LEMMA SchedulerStepIInv ==
  ASSUME IInv, SchedulerStep
  PROVE  IInv'
<1>1. TypeOK /\ QueueInv /\ BatchInv /\ NothingInMemory
  BY DEF IInv
<1>2. app # "down" /\ sched.pc # "batch"
  BY <1>1
  DEF SchedulerStep, SchedulerSelects, SchedulerRuns, SchedulerErrs, NothingInMemory,
      IdleSched
<1>3. UNCHANGED <<rule, settings, app, queueVars, worker>> /\ budget' \in Budgets
  BY <1>1, BudgetTypes
  DEF SchedulerStep, SchedulerSelects, SchedulerRuns, SchedulerErrs
<1>4. QueueInv'
  BY <1>1, <1>3, QueueUntouched DEF QueueInv, WorkerWellFormed, queueVars
<1>5. NothingInMemory'
  BY <1>2, <1>3 DEF NothingInMemory
<1>6. CASE SchedulerRuns /\ ~Busy
  <2>1. /\ StartBatch("sched", sched.due, sched.all, sched.all)
        /\ sched' = IF batch'.caller = "sched" THEN [sched EXCEPT !.pc = "batch"]
                    ELSE IdleSched
    BY <1>6 DEF SchedulerRuns
  <2>2. "sched" \in Callers /\ sched.due \in SUBSET Rules /\ sched.all \in BOOLEAN
    BY <1>1 DEF Callers, TypeOK
  <2>3. /\ batch' \in Batches
        /\ \/ batch' = NoBatch
           \/ /\ batch'.caller = "sched" /\ ~batch'.doomed
              /\ \A r \in Members' : Live(r)
    BY <1>1, <2>1, <2>2, StartedBatch
  <2>4. TypeOK'
    <3>1. sched' \in [pc : {"idle", "run", "batch"}, due : SUBSET Rules, all : BOOLEAN]
      BY <1>1, <2>1, RestingTypes DEF TypeOK
    <3>2. QED
      BY <1>1, <1>3, <2>3, <3>1 DEF TypeOK, queueVars, Batches, Budgets
  <2>5. worker.pc # "batch" /\ worker' = worker
    BY <1>1, <1>3, <1>6 DEF BatchInv, LockHasOwner, Busy
  <2>6. BatchInv'
    <3>1. CASE batch' = NoBatch
      <4>1. batch'.caller = "nobody" /\ Members' = {} /\ batch'.doomed = FALSE
        BY <3>1 DEF NoBatch, Members
      <4>2. sched' = IdleSched /\ sched'.pc = "idle"
        BY <2>1, <4>1 DEF IdleSched
      <4>3. QED
        BY <2>5, <3>1, <4>1, <4>2
        DEF BatchInv, LockHasOwner, IdleIsClean, MembersExist, Busy
    <3>2. CASE batch' # NoBatch
      <4>1. sched'.pc = "batch"
        BY <1>1, <2>1, <2>3, <3>2 DEF TypeOK
      <4>2. \A r \in Members' : rule'[r].life # "absent"
        BY <1>3, <2>3, <3>2 DEF Live
      <4>3. QED
        BY <2>3, <2>5, <3>2, <4>1, <4>2
        DEF BatchInv, LockHasOwner, IdleIsClean, MembersExist, Busy
    <3>3. QED
      BY <3>1, <3>2
  <2>7. QED
    BY <1>4, <1>5, <2>4, <2>6 DEF IInv
<1>7. CASE ~(SchedulerRuns /\ ~Busy)
  <2>1. batch' = batch /\ \/ sched' = IdleSched
                          \/ \E due \in DueSelections :
                               sched' = [pc |-> "run", due |-> due, all |-> ScheduledAll]
    BY <1>7 DEF SchedulerStep, SchedulerSelects, SchedulerRuns, SchedulerErrs
  <2>2. ScheduledAll \in BOOLEAN
    BY <1>1 DEF TypeOK, ScheduledAll
  <2>3. sched' \in [pc : {"idle", "run"}, due : SUBSET Rules, all : BOOLEAN]
    <3>1. IdleSched \in [pc : {"idle", "run"}, due : SUBSET Rules, all : BOOLEAN]
      BY DEF IdleSched
    <3>2. QED
      BY <2>1, <2>2, <3>1, SelectedIsDue
  <2>4. sched'.pc = "idle" => sched' = IdleSched
    BY <2>1
  <2>5. TypeOK'
    BY <1>1, <1>3, <2>1, <2>3 DEF TypeOK, queueVars, Budgets
  <2>6. BatchInv'
    BY <1>1, <1>2, <1>3, <2>1, <2>3, <2>4
    DEF BatchInv, LockHasOwner, IdleIsClean, MembersExist, Busy, Members
  <2>7. QED
    BY <1>4, <1>5, <2>5, <2>6 DEF IInv
<1>8. QED
  BY <1>6, <1>7

-----------------------------------------------------------------------------
\* What users, services and clocks do to the rules under a running process.
LEMMA QuietStep ==
  ASSUME IInv, UNCHANGED <<app, queue, reserved, stranded, worker, sched, batch>>,
         owed' \subseteq Rules, app = "down" => owed' = {},
         rule' \in [Rules -> Row],
         settings' \in [on : BOOLEAN, all : BOOLEAN, ready : BOOLEAN],
         budget' \in Budgets,
         \A r \in Rules : /\ rule[r].life # "absent" => rule'[r].life # "absent"
                          /\ rule[r].life = "gone" => rule'[r].life = "gone"
  PROVE  IInv'
<1>1. TypeOK /\ QueueInv /\ BatchInv /\ NothingInMemory
  BY DEF IInv
<1>2. TypeOK'
  BY <1>1 DEF TypeOK, Budgets
<1>3. QueueInv'
  BY <1>1, QueueUntouched DEF QueueInv, WorkerWellFormed
<1>4. BatchInv'
  BY <1>1 DEF BatchInv, LockHasOwner, IdleIsClean, MembersExist, Busy, Members
<1>5. NothingInMemory'
  BY <1>1 DEF NothingInMemory
<1>6. QED
  BY <1>2, <1>3, <1>4, <1>5 DEF IInv

LEMMA RuleStep ==
  ASSUME IInv, NEW r \in Rules,
         \/ CreateRule(r) \/ DeleteRule(r) \/ ChangeMode(r)
         \/ SnapshotAges(r) \/ SearchFromPage(r) \/ BackoffElapses(r)
  PROVE  IInv'
<1>1. TypeOK /\ NothingInMemory /\ rule \in [Rules -> Row]
  BY DEF IInv, TypeOK
<1>2. PICK q \in Row : /\ rule' = [rule EXCEPT ![r] = q]
                       /\ rule[r].life # "absent" => q.life # "absent"
                       /\ rule[r].life = "gone" => q.life = "gone"
  <2>1. \/ CreateRule(r) \/ DeleteRule(r) \/ ChangeMode(r)
        \/ SnapshotAges(r) \/ SearchFromPage(r) \/ BackoffElapses(r)
    OBVIOUS
  <2>2. CASE CreateRule(r)
    <3>1. PICK mode \in {"enabled", "disabled"} :
            rule' = [rule EXCEPT ![r].life = "live", ![r].mode = mode]
      BY <2>2 DEF CreateRule
    <3>2. [rule[r] EXCEPT !.life = "live", !.mode = mode] \in Row
      BY <1>1 DEF Row, Modes
    <3>3. rule' = [rule EXCEPT ![r] = [rule[r] EXCEPT !.life = "live", !.mode = mode]]
      BY <1>1, <3>1
    <3>4. rule[r].life = "absent"
      BY <2>2 DEF CreateRule
    <3>5. QED
      BY <3>2, <3>3, <3>4
  <2>3. CASE DeleteRule(r)
    <3>1. rule' = [rule EXCEPT ![r] = [rule[r] EXCEPT !.life = "gone", !.snap = "none",
                                                      !.retry = "clean"]]
      BY <2>3 DEF DeleteRule
    <3>2. [rule[r] EXCEPT !.life = "gone", !.snap = "none", !.retry = "clean"] \in Row
      BY <1>1 DEF Row
    <3>3. [rule[r] EXCEPT !.life = "gone", !.snap = "none", !.retry = "clean"].life = "gone"
      BY <1>1 DEF Row
    <3>4. QED
      BY <3>1, <3>2, <3>3
  <2>4. CASE ChangeMode(r)
    <3>1. PICK mode \in Modes : rule' = [rule EXCEPT ![r].mode = mode]
      BY <2>4 DEF ChangeMode
    <3>2. /\ [rule[r] EXCEPT !.mode = mode] \in Row
          /\ [rule[r] EXCEPT !.mode = mode].life = rule[r].life
          /\ rule' = [rule EXCEPT ![r] = [rule[r] EXCEPT !.mode = mode]]
      BY <1>1, <3>1 DEF Row
    <3>3. QED
      BY <3>2
  <2>5. CASE SnapshotAges(r) \/ SearchFromPage(r)
    <3>1. PICK snap \in {"stale", "fresh"} : rule' = [rule EXCEPT ![r].snap = snap]
      BY <2>5 DEF SnapshotAges, SearchFromPage
    <3>2. /\ [rule[r] EXCEPT !.snap = snap] \in Row
          /\ [rule[r] EXCEPT !.snap = snap].life = rule[r].life
          /\ rule' = [rule EXCEPT ![r] = [rule[r] EXCEPT !.snap = snap]]
      BY <1>1, <3>1 DEF Row
    <3>3. QED
      BY <3>2
  <2>6. CASE BackoffElapses(r)
    <3>1. rule' = [rule EXCEPT ![r].retry = "elapsed"]
      BY <2>6 DEF BackoffElapses
    <3>2. /\ [rule[r] EXCEPT !.retry = "elapsed"] \in Row
          /\ [rule[r] EXCEPT !.retry = "elapsed"].life = rule[r].life
          /\ rule' = [rule EXCEPT ![r] = [rule[r] EXCEPT !.retry = "elapsed"]]
      BY <1>1, <3>1 DEF Row
    <3>3. QED
      BY <3>2
  <2>7. QED
    BY <2>1, <2>2, <2>3, <2>4, <2>5, <2>6
<1>3. budget' \in Budgets
  BY <1>1, BudgetTypes
  DEF CreateRule, DeleteRule, ChangeMode, SnapshotAges, SearchFromPage, BackoffElapses
<1>4. /\ UNCHANGED <<settings, app, queue, reserved, stranded, worker, sched, batch>>
      /\ owed' \subseteq owed \cup {r}
      /\ app = "down" => owed' = owed
  BY DEF CreateRule, DeleteRule, ChangeMode, SnapshotAges, SearchFromPage, BackoffElapses,
         queueVars
<1>5. owed' \subseteq Rules /\ (app = "down" => owed' = {})
  BY <1>1, <1>4 DEF TypeOK, NothingInMemory
<1>6. rule' \in [Rules -> Row]
      /\ \A p \in Rules : /\ rule[p].life # "absent" => rule'[p].life # "absent"
                          /\ rule[p].life = "gone" => rule'[p].life = "gone"
  BY <1>1, <1>2
<1>7. settings' \in [on : BOOLEAN, all : BOOLEAN, ready : BOOLEAN]
  BY <1>1, <1>4 DEF TypeOK
<1>8. QED
  BY <1>3, <1>4, <1>5, <1>6, <1>7, QuietStep

LEMMA SettingsStep ==
  ASSUME IInv, ChangeSettings
  PROVE  IInv'
<1>1. TypeOK /\ NothingInMemory
  BY DEF IInv
<1>2. PICK field \in {"on", "all", "ready"} :
        settings' = [settings EXCEPT ![field] = ~settings[field]]
  BY DEF ChangeSettings
<1>3. settings' \in [on : BOOLEAN, all : BOOLEAN, ready : BOOLEAN]
  BY <1>1, <1>2 DEF TypeOK
<1>4. QED
  BY <1>1, <1>3, BudgetTypes, QuietStep
  DEF ChangeSettings, queueVars, TypeOK, NothingInMemory

LEMMA UserFetchesStep ==
  ASSUME IInv, UserFetches
  PROVE  IInv'
<1>1. TypeOK /\ QueueInv /\ BatchInv /\ NothingInMemory
  BY DEF IInv
<1>2. /\ app = "up" /\ ~Busy /\ worker.pc # "batch" /\ sched.pc # "batch"
      /\ UNCHANGED <<rule, settings, app, queueVars, worker, sched>>
  BY <1>1 DEF UserFetches, Busy, BatchInv, LockHasOwner
<1>3. budget' \in Budgets
  BY <1>1, BudgetTypes DEF UserFetches
<1>4. PICK ids \in SUBSET Rules, disabledToo \in BOOLEAN, allow \in BOOLEAN :
        StartBatch("user", ids, disabledToo, allow)
  <2>1. /\ settings.all \in BOOLEAN /\ FALSE \in BOOLEAN /\ Rules \in SUBSET Rules
        /\ SUBSET Rules \ {{}} \subseteq SUBSET Rules
    BY <1>1 DEF TypeOK
  <2>2. \/ \E ids \in SUBSET Rules \ {{}}, disabledToo \in BOOLEAN :
             StartBatch("user", ids, disabledToo, disabledToo)
        \/ \E disabledToo \in BOOLEAN : StartBatch("user", Rules, disabledToo, FALSE)
        \/ StartBatch("user", Rules, settings.all, FALSE)
    BY DEF UserFetches
  <2>3. QED
    BY <2>1, <2>2
<1>5. /\ batch' \in Batches
      /\ \/ batch' = NoBatch
         \/ /\ batch'.caller = "user" /\ ~batch'.doomed
            /\ \A r \in Members' : Live(r)
  <2>1. "user" \in Callers
    BY DEF Callers
  <2>2. QED
    BY <1>1, <1>4, <2>1, StartedBatch
<1>6. TypeOK'
  BY <1>1, <1>2, <1>3, <1>5 DEF TypeOK, queueVars, Batches, Budgets
<1>7. QueueInv'
  BY <1>1, <1>2, QueueUntouched DEF QueueInv, WorkerWellFormed, queueVars
<1>8. BatchInv'
  <2>1. CASE batch' = NoBatch
    <3>1. batch'.caller = "nobody" /\ Members' = {} /\ batch'.doomed = FALSE
      BY <2>1 DEF NoBatch, Members
    <3>2. QED
      BY <1>1, <1>2, <2>1, <3>1
      DEF BatchInv, LockHasOwner, IdleIsClean, MembersExist, Busy
  <2>2. CASE batch' # NoBatch
    <3>1. \A r \in Members' : rule'[r].life # "absent"
      BY <1>2, <1>5, <2>2 DEF Live
    <3>2. QED
      BY <1>1, <1>2, <1>5, <2>2, <3>1
      DEF BatchInv, LockHasOwner, IdleIsClean, MembersExist, Busy
  <2>3. QED
    BY <2>1, <2>2
<1>9. QED
  BY <1>2, <1>6, <1>7, <1>8 DEF IInv, NothingInMemory

\* enqueue_rule_fetch reserves the rule it queues, and starts a worker.
LEMMA EnqueueStep ==
  ASSUME IInv, NEW r \in Rules, EnqueueRuleFetch(r)
  PROVE  IInv'
<1>1. TypeOK /\ QueueInv /\ BatchInv /\ NothingInMemory
  BY DEF IInv
<1>2. /\ app # "down" /\ owed' \subseteq Rules
      /\ UNCHANGED <<rule, settings, app, sched, batch, stranded, budget>>
  BY <1>1 DEF EnqueueRuleFetch, TypeOK, NothingInMemory
<1>3. NothingInMemory'
  BY <1>2 DEF NothingInMemory
<1>4. CASE app # "up" \/ r \in reserved
  <2>1. UNCHANGED <<queue, reserved, worker>>
    BY <1>4 DEF EnqueueRuleFetch
  <2>2. TypeOK'
    BY <1>1, <1>2, <2>1 DEF TypeOK
  <2>3. QueueInv'
    BY <1>1, <1>2, <2>1, QueueUntouched DEF QueueInv, WorkerWellFormed
  <2>4. BatchInv'
    BY <1>1, <1>2, <2>1, BatchUntouched, Unmoved
  <2>5. QED
    BY <1>3, <2>2, <2>3, <2>4 DEF IInv
<1>5. CASE app = "up" /\ r \notin reserved
  <2>1. /\ queue' = Append(queue, r) /\ reserved' = reserved \cup {r}
        /\ worker' = IF worker.pc \in {"none", "dead"}
                     THEN [pc |-> "loop", id |-> NoRule, retry |-> FALSE] ELSE worker
    BY <1>5 DEF EnqueueRuleFetch, NoWorker
  <2>2. queue \in Seq(Rules) /\ IsInjective(queue) /\ r \notin ToSet(queue)
    BY <1>1, <1>5 DEF TypeOK, QueueInv, ReservedAccounted
  <2>3. queue' \in Seq(Rules) /\ ToSet(queue') = ToSet(queue) \cup {r} /\ IsInjective(queue')
    BY <2>1, <2>2, AppendToDeque
  <2>4. worker'.id = worker.id /\ worker'.pc # "none" /\ WorkerWellFormed'
    BY <1>1, <2>1 DEF QueueInv, WorkerWellFormed
  <2>5. TypeOK'
    <3>1. worker' \in WorkerStates
      BY <1>1, <2>1 DEF TypeOK, WorkerStates
    <3>2. QED
      BY <1>1, <1>2, <2>1, <2>3, <3>1 DEF TypeOK, WorkerStates
  <2>6. QueueInv'
    <3>1. InHand' = InHand
      BY <2>4 DEF InHand
    <3>2. ReservedAccounted' /\ StrandedApart'
      BY <1>1, <1>2, <1>5, <2>1, <2>3, <2>4, <3>1
      DEF QueueInv, ReservedAccounted, StrandedApart
    <3>3. QED
      BY <2>4, <3>2 DEF QueueInv
  <2>7. BatchInv'
    BY <1>1, <1>2, <2>1, <2>4, BatchUntouched, Unmoved
  <2>8. QED
    BY <1>3, <2>5, <2>6, <2>7 DEF IInv
<1>6. QED
  BY <1>4, <1>5

LEMMA StopQueueStep ==
  ASSUME IInv, StopQueue
  PROVE  IInv'
<1>1. TypeOK /\ QueueInv /\ BatchInv
  BY DEF IInv
<1>2. TypeOK'
  <2>1. budget' \in Budgets
    BY <1>1, BudgetTypes DEF StopQueue
  <2>2. <<>> \in Seq(Rules)
    OBVIOUS
  <2>3. QED
    BY <1>1, <2>1, <2>2 DEF TypeOK, StopQueue, Budgets
<1>3. QueueInv'
  BY <1>1 DEF StopQueue, QueueInv, ReservedAccounted, WorkerWellFormed, StrandedApart
<1>4. BatchInv'
  BY <1>1, BatchUntouched, Unmoved DEF StopQueue
<1>5. QED
  BY <1>2, <1>3, <1>4 DEF IInv, NothingInMemory, StopQueue

\* An exit and a crash keep the database and nothing else, ...
LEMMA ForgetStep ==
  ASSUME IInv, Exit \/ Crash
  PROVE  IInv'
<1>1. TypeOK /\ Forget /\ budget' \in Budgets
  BY BudgetTypes DEF IInv, Exit, Crash
<1>2. TypeOK'
  <2>1. worker' \in WorkerStates
    BY <1>1 DEF Forget, NoWorker, WorkerStates
  <2>2. <<>> \in Seq(Rules)
    OBVIOUS
  <2>3. QED
    BY <1>1, <2>1, <2>2, RestingTypes
    DEF TypeOK, Forget, Budgets, Batches, WorkerStates
<1>3. QueueInv' /\ NothingInMemory'
  BY <1>1
  DEF Forget, QueueInv, ReservedAccounted, WorkerWellFormed, StrandedApart,
      NothingInMemory, NoWorker
<1>4. batch'.caller = "nobody" /\ batch'.doomed = FALSE /\ Members' = {}
  BY <1>1 DEF Forget, NoBatch, Members
<1>5. BatchInv'
  BY <1>1, <1>4
  DEF Forget, BatchInv, LockHasOwner, IdleIsClean, MembersExist, Busy, NoWorker, IdleSched
<1>6. QED
  BY <1>2, <1>3, <1>5 DEF IInv

\* ... and the next process starts from there.
LEMMA StartStep ==
  ASSUME IInv, Start
  PROVE  IInv'
<1>1. /\ TypeOK /\ QueueInv /\ BatchInv /\ NothingInMemory /\ app = "down" /\ app' = "up"
      /\ UNCHANGED <<rule, settings, queueVars, worker, sched, batch, budget>>
  BY DEF IInv, Start
<1>2. TypeOK'
  BY <1>1 DEF TypeOK, queueVars
<1>3. QueueInv'
  <2>1. queue = <<>> /\ reserved = {} /\ stranded = {} /\ InHand = {}
        /\ ToSet(queue) = {} /\ IsInjective(queue)
    BY <1>1
    DEF QueueInv, ReservedAccounted, NothingInMemory, InHand, NoWorker, ToSet, IsInjective
  <2>2. UNCHANGED <<queue, reserved, stranded, InHand>>
    BY <1>1 DEF queueVars, InHand
  <2>3. QED
    BY <1>1, <2>1, <2>2
    DEF QueueInv, ReservedAccounted, WorkerWellFormed, StrandedApart
<1>4. BatchInv'
  BY <1>1, BatchUntouched, Unmoved
<1>5. QED
  BY <1>1, <1>2, <1>3, <1>4 DEF IInv, NothingInMemory

LEMMA NextIInv == IInv /\ [Next]_vars => IInv'
<1> SUFFICES ASSUME IInv, [Next]_vars PROVE IInv'
  OBVIOUS
<1>1. CASE BatchStep
  BY <1>1, BatchStepIInv
<1>2. CASE WorkerStep
  BY <1>2, WorkerStepIInv
<1>3. CASE SchedulerStep
  BY <1>3, SchedulerStepIInv
<1>4. CASE Environment
  BY <1>4, RuleStep, SettingsStep, UserFetchesStep, StopQueueStep, ForgetStep
  DEF Environment
<1>5. CASE \E r \in Rules : EnqueueRuleFetch(r) \/ BackoffElapses(r)
  BY <1>5, EnqueueStep, RuleStep
<1>6. CASE Exit
  BY <1>6, ForgetStep
<1>7. CASE Start
  BY <1>7, StartStep
<1>8. CASE UNCHANGED vars
  BY <1>8, BudgetTypes, QuietStep DEF vars, IInv, TypeOK, NothingInMemory
<1>9. QED
  BY <1>1, <1>2, <1>3, <1>4, <1>5, <1>6, <1>7, <1>8 DEF Next

\* All reachable states satisfy the inductive invariant.
LEMMA Invariance == Spec => []IInv
BY InitIInv, NextIInv, PTL DEF Spec

-----------------------------------------------------------------------------
\* The variables have their types.
THEOREM FetchTypes == Spec => []TypeOK
<1>1. IInv => TypeOK
  BY DEF IInv
<1>2. QED
  BY <1>1, Invariance, PTL

\* However handlers, worker, shutdowns and crashes interleave, the set that
\* makes enqueue_rule_fetch refuse a rule holds the rules that wait, the one in
\* the worker's hands and those a dead worker took along, and no other.
THEOREM QueueAccounts == Spec => []ReservedAccounted
<1>1. IInv => ReservedAccounted
  BY DEF IInv, QueueInv
<1>2. QED
  BY <1>1, Invariance, PTL

\* Whatever is raised, refused, stopped or deleted, the run lock is taken
\* exactly while its caller waits for the batch.
THEOREM RunLockHasOwner == Spec => []LockHasOwner
<1>1. IInv => LockHasOwner
  BY DEF IInv, BatchInv
<1>2. QED
  BY <1>1, Invariance, PTL

-----------------------------------------------------------------------------
\* Only these steps end a batch: it is recorded, or given up because a rule of
\* it was deleted, or its record failed, or the process ended.
LEMMA BatchEndsFor ==
  ASSUME IInv, Next, Busy, ~Busy', app' # "down"
  PROVE  \/ RecordOutcomes
         \/ \E r \in Members : ~Live(r)
         \/ RecordFails
<1>1. TypeOK /\ BatchInv
  BY DEF IInv
<1>2. ASSUME batch'.caller = batch.caller PROVE FALSE
  BY <1>2 DEF Busy
<1>3. CASE BatchStep
  <2>1. CASE \E r \in Rules : BeginInOwnSession(r)
    BY <1>1, <1>2, <2>1 DEF BeginInOwnSession, TypeOK
  <2>2. CASE \E r \in Rules : BeginInCallerSession(r)
    <3>1. PICK r \in Rules : BeginInCallerSession(r)
      BY <2>2
    <3>2. r \in Members
      BY <3>1 DEF BeginInCallerSession, Members
    <3>3. ~Live(r) \/ batch'.caller = batch.caller
      BY <1>1, <3>1 DEF BeginInCallerSession, TypeOK
    <3>4. QED
      BY <1>2, <3>2, <3>3
  <2>3. CASE \E r \in Rules : FetchSucceeds(r) \/ FetchFails(r)
    <3>1. PICK r \in Rules : FetchSucceeds(r) \/ FetchFails(r)
      BY <2>3
    <3>2. r \in Members
      BY <3>1 DEF FetchSucceeds, FetchFails, Running, Members
    <3>3. ~Live(r) \/ batch'.caller = batch.caller
      BY <1>1, <3>1 DEF FetchSucceeds, FetchFails, TypeOK
    <3>4. QED
      BY <1>2, <3>2, <3>3
  <2>4. CASE StartSecondPhase
    <3>1. \/ batch.doomed
          \/ \E r \in Members : ~Live(r)
          \/ batch'.caller = batch.caller
      BY <1>1, <2>4 DEF StartSecondPhase, TypeOK
    <3>2. batch.doomed => \E r \in Members : ~Live(r)
      BY <1>1 DEF BatchInv, MembersExist, Live
    <3>3. QED
      BY <1>2, <3>1, <3>2
  <2>5. QED
    BY <1>3, <2>1, <2>2, <2>3, <2>4 DEF BatchStep
<1>4. CASE WorkerStep
  <2>1. CASE WorkerRecordsFailure
    BY <1>1, <1>2, <2>1 DEF WorkerRecordsFailure, TypeOK
  <2>2. CASE ~WorkerRecordsFailure
    BY <1>2, <1>4, <2>2
    DEF WorkerStep, WorkerPops, WorkerSelects, WorkerRuns, WorkerErrs, WorkerDies,
        WorkerFinishes, WorkerWakes
  <2>3. QED
    BY <2>1, <2>2
<1>5. CASE SchedulerStep
  BY <1>2, <1>5 DEF SchedulerStep, SchedulerSelects, SchedulerRuns, SchedulerErrs
<1>6. CASE Environment
  BY <1>2, <1>6
  DEF Environment, CreateRule, DeleteRule, ChangeMode, SnapshotAges, SearchFromPage,
      ChangeSettings, UserFetches, StopQueue, Crash, Forget
<1>7. CASE \/ \E r \in Rules : EnqueueRuleFetch(r) \/ BackoffElapses(r)
           \/ Exit \/ Start
  BY <1>2, <1>7 DEF EnqueueRuleFetch, BackoffElapses, Exit, Forget, Start
<1>8. QED
  BY <1>3, <1>4, <1>5, <1>6, <1>7 DEF Next

\* The retry columns the caller's session takes for empty are empty, unless the
\* worker recorded a failure of the rule since the session loaded its row.
NothingMissed ==
  \A r \in Members :
      /\ Live(r) /\ rule[r].retry # "clean"
      /\ batch.seen[r] # "expired" /\ r \notin batch.noted
    => r \in batch.hit

\* What is loaded and what is recorded while the batch goes on keeps that true.
LEMMA StillNothingMissed ==
  ASSUME NothingMissed, Members' \subseteq Members, Members \subseteq Rules,
         batch.hit \subseteq batch'.hit,
         \A r \in Members :
           rule'[r].life = "live" /\ rule'[r].retry # "clean" =>
             \/ /\ rule[r].life = "live" /\ rule[r].retry # "clean"
                /\ \/ batch'.seen[r] = "expired" \/ r \in batch'.noted
                   \/ batch.seen[r] # "expired" /\ r \notin batch.noted
             \/ r \in batch'.hit
  PROVE  NothingMissed'
<1> SUFFICES ASSUME NEW r \in Members', rule'[r].life = "live", rule'[r].retry # "clean",
                    batch'.seen[r] # "expired", r \notin batch'.noted
             PROVE  r \in batch'.hit
  BY DEF NothingMissed, Live
<1>1. r \in Members
  OBVIOUS
<1>2. \/ r \in batch'.hit
      \/ /\ rule[r].life = "live" /\ rule[r].retry # "clean"
         /\ batch.seen[r] # "expired" /\ r \notin batch.noted
  BY <1>1
<1>3. QED
  BY <1>1, <1>2 DEF NothingMissed, Live

\* A batch that starts has loaded the rows of its rules.
LEMMA StartsWithNothingMissed ==
  ASSUME NEW caller, NEW ids \in SUBSET Rules, NEW disabledToo, NEW allow,
         StartBatch(caller, ids, disabledToo, allow), UNCHANGED rule
  PROVE  NothingMissed'
<1> DEFINE chosen == {r \in ids : Live(r) /\ InScope(rule[r].mode, disabledToo, allow)}
<1>1. CASE chosen = {}
  BY <1>1 DEF StartBatch, NoBatch, NothingMissed, Members
<1>2. CASE chosen # {}
  <2>1. /\ batch'.job = [r \in Rules |-> IF r \notin chosen THEN "out"
                                         ELSE IF settings.ready THEN "todo"
                                         ELSE "failedTwice"]
        /\ batch'.noted = Noted(chosen)
    BY <1>2 DEF StartBatch
  <2>2. Members' \subseteq chosen
    BY <2>1 DEF Members
  <2>3. \A r \in chosen : rule'[r].retry # "clean" => r \in batch'.noted
    BY <2>1 DEF Noted
  <2> HIDE DEF chosen
  <2>4. QED
    BY <2>2, <2>3 DEF NothingMissed
<1>3. QED
  BY <1>1, <1>2

LEMMA BatchMissesNothing ==
  ASSUME IInv, NothingMissed, BatchStep
  PROVE  NothingMissed'
<1>1. TypeOK /\ batch \in Batches /\ Members \subseteq Rules
  BY DEF IInv, TypeOK, Batches, Members
<1>2. ASSUME NEW raised, EndBatch(raised) PROVE NothingMissed'
  BY <1>2 DEF EndBatch, NoBatch, NothingMissed, Members
<1>3. ASSUME NEW r \in Running, RaiseFetch(r), UNCHANGED rule PROVE NothingMissed'
  <2>1. CASE batch' = [batch EXCEPT !.job[r] = "failed", !.doomed = TRUE]
    <3>1. r \in Members
      BY DEF Running, Members
    <3>2. batch' = [batch EXCEPT !.job[r] = "failed", !.seen = batch.seen,
                                 !.noted = batch.noted, !.doomed = TRUE]
      BY <1>1, <2>1 DEF Batches
    <3>3. Members' = Members
      BY <1>1, <3>1, <3>2, JobChanges DEF Jobs, Outcomes, Batches
    <3>4. batch'.seen = batch.seen /\ batch'.noted = batch.noted /\ batch'.hit = batch.hit
      BY <1>1, <2>1 DEF Batches
    <3>5. QED
      BY <1>1, <1>3, <3>3, <3>4, StillNothingMissed
  <2>2. QED
    BY <1>2, <1>3, <2>1 DEF RaiseFetch
<1>4. ASSUME NEW r \in Rules, BeginInOwnSession(r) PROVE NothingMissed'
  <2>1. PICK j \in Jobs \ {"out"} : batch' = [batch EXCEPT !.job[r] = j]
    BY <1>4 DEF BeginInOwnSession, Jobs, Outcomes
  <2>2. r \in Members
    BY <1>4 DEF BeginInOwnSession, Members
  <2>3. batch' = [batch EXCEPT !.job[r] = j, !.seen = batch.seen, !.noted = batch.noted,
                               !.doomed = batch.doomed]
    BY <1>1, <2>1 DEF Batches
  <2>4. Members' = Members
    BY <1>1, <2>2, <2>3, JobChanges DEF Batches
  <2>5. batch'.seen = batch.seen /\ batch'.noted = batch.noted /\ batch'.hit = batch.hit
    BY <1>1, <2>1 DEF Batches
  <2>6. QED
    BY <1>1, <1>4, <2>4, <2>5, StillNothingMissed DEF BeginInOwnSession
<1>5. ASSUME NEW r \in Rules, BeginInCallerSession(r) PROVE NothingMissed'
  <2> DEFINE mode == IF batch.seen[r] = "expired" THEN rule[r].mode ELSE batch.seen[r]
             n == IF batch.seen[r] = "expired"
                  THEN batch.noted \cup Noted({r}) ELSE batch.noted
             j == IF Blocked(mode) /\ ~batch.allow THEN "skipped"
                  ELSE IF batch.phase = "first" THEN "running" ELSE "rerunning"
  <2>1. CASE ~EndBatch(TRUE)
    <3>1. batch' = [batch EXCEPT !.seen[r] = mode, !.noted = n, !.job[r] = j]
          /\ rule' = rule
      BY <1>5, <2>1 DEF BeginInCallerSession
    <3>2. r \in Members /\ j \in Jobs \ {"out"}
      BY <1>5 DEF BeginInCallerSession, Members, Jobs, Outcomes
    <3>3. mode \in Modes \cup {"expired"} /\ n \in SUBSET Rules
      BY <1>1 DEF TypeOK, Row, Noted
    <3>4. batch.seen[r] = "expired" /\ rule[r].retry # "clean" => r \in n
      BY DEF Noted
    <3>5. batch.seen[r] # "expired" => n = batch.noted
      OBVIOUS
    <3>6. batch.noted \subseteq n /\ \A q \in n : q = r \/ q \in batch.noted
      BY DEF Noted
    <3> HIDE DEF mode, n, j
    <3>7. batch' = [batch EXCEPT !.job[r] = j, !.seen = [batch.seen EXCEPT ![r] = mode],
                                 !.noted = n, !.doomed = batch.doomed]
      BY <1>1, <3>1 DEF Batches
    <3>8. Members' = Members
      <4>1. [batch.seen EXCEPT ![r] = mode] \in [Rules -> Modes \cup {"expired"}]
        BY <1>1, <3>3 DEF Batches
      <4>2. QED
        BY <1>1, <3>2, <3>3, <3>7, <4>1, JobChanges DEF Batches
    <3>9. batch'.hit = batch.hit /\ batch'.noted = n
          /\ batch'.seen = [batch.seen EXCEPT ![r] = mode]
      BY <1>1, <3>7 DEF Batches
    <3>10. ASSUME NEW q \in Members, rule[q].retry # "clean"
           PROVE  \/ q \in batch'.noted
                  \/ batch.seen[q] # "expired" /\ q \notin batch.noted
                  \/ batch'.seen[q] = "expired"
      <4>1. CASE q = r
        BY <3>4, <3>5, <3>9, <3>10, <4>1
      <4>2. CASE q # r
        BY <1>1, <3>6, <3>9, <4>2 DEF Batches
      <4>3. QED
        BY <4>1, <4>2
    <3>11. QED
      BY <1>1, <3>1, <3>8, <3>9, <3>10, StillNothingMissed
  <2>2. QED
    BY <1>2, <2>1
<1>6. ASSUME NEW r \in Rules, FetchSucceeds(r) PROVE NothingMissed'
  <2>1. CASE Live(r)
    <3>1. /\ r \in Members /\ batch' = [batch EXCEPT !.job[r] = "ok"]
          /\ rule' = [rule EXCEPT ![r].snap = "fresh"]
      BY <1>6, <2>1 DEF FetchSucceeds, Running, Members
    <3>2. batch' = [batch EXCEPT !.job[r] = "ok", !.seen = batch.seen,
                                 !.noted = batch.noted, !.doomed = batch.doomed]
      BY <1>1, <3>1 DEF Batches
    <3>3. Members' = Members
      <4>1. /\ "ok" \in Jobs \ {"out"} /\ batch.noted \in SUBSET Rules
            /\ batch.seen \in [Rules -> Modes \cup {"expired"}] /\ batch.doomed \in BOOLEAN
        BY <1>1 DEF Jobs, Outcomes, Batches
      <4>2. QED
        <5>1. r \in Members
          BY <3>1
        <5>2. QED
          BY <1>1, <3>2, <4>1, <5>1, JobChanges
    <3>4. batch'.seen = batch.seen /\ batch'.noted = batch.noted /\ batch'.hit = batch.hit
      BY <1>1, <3>1 DEF Batches
    <3>5. \A q \in Rules : rule'[q].retry = rule[q].retry /\ rule'[q].life = rule[q].life
      BY <1>1, <3>1 DEF TypeOK, Row
    <3>6. QED
      BY <1>1, <3>3, <3>4, <3>5, StillNothingMissed
  <2>2. CASE ~Live(r)
    BY <1>3, <1>6, <2>2 DEF FetchSucceeds
  <2>3. QED
    BY <2>1, <2>2
<1>7. ASSUME NEW r \in Rules, FetchFails(r) PROVE NothingMissed'
  <2>1. PICK rolledBack \in BOOLEAN :
          IF rolledBack /\ ~Live(r) THEN RaiseFetch(r)
          ELSE batch' =
                 [batch EXCEPT
                    !.job[r] = IF @ = "running" THEN "failed" ELSE "failedTwice",
                    !.seen = IF rolledBack /\ InCallerSession(r)
                             THEN [q \in Rules |-> IF q = r THEN rule[r].mode
                                                   ELSE "expired"]
                             ELSE @,
                    !.noted = IF rolledBack /\ InCallerSession(r) THEN Noted({r})
                              ELSE @]
    BY <1>7 DEF FetchFails
  <2>2. r \in Running /\ r \in Members /\ rule' = rule
    BY <1>7 DEF FetchFails, Running, Members
  <2>3. CASE ~(rolledBack /\ ~Live(r))
    <3> DEFINE j == IF batch.job[r] = "running" THEN "failed" ELSE "failedTwice"
               s == IF rolledBack /\ InCallerSession(r)
                    THEN [q \in Rules |-> IF q = r THEN rule[r].mode ELSE "expired"]
                    ELSE batch.seen
               n == IF rolledBack /\ InCallerSession(r) THEN Noted({r}) ELSE batch.noted
    <3>1. batch' = [batch EXCEPT !.job[r] = j, !.seen = s, !.noted = n,
                                 !.doomed = batch.doomed]
      BY <1>1, <2>1, <2>3 DEF Batches
    <3>2. j \in Jobs \ {"out"} /\ s \in [Rules -> Modes \cup {"expired"}]
          /\ n \in SUBSET Rules /\ batch.doomed \in BOOLEAN
      BY <1>1 DEF TypeOK, Batches, Jobs, Outcomes, Row, Noted
    <3>3. ASSUME NEW q \in Members, rule[q].retry # "clean"
          PROVE  \/ s[q] = "expired" \/ q \in n
                 \/ batch.seen[q] # "expired" /\ q \notin batch.noted
      BY <1>1, <3>3 DEF Noted
    <3> HIDE DEF j, s, n
    <3>4. Members' = Members
      BY <1>1, <2>2, <3>1, <3>2, JobChanges
    <3>5. batch'.seen = s /\ batch'.noted = n /\ batch'.hit = batch.hit
      BY <1>1, <3>1 DEF Batches
    <3>6. QED
      BY <1>1, <2>2, <3>3, <3>4, <3>5, StillNothingMissed
  <2>4. CASE rolledBack /\ ~Live(r)
    BY <1>3, <2>1, <2>2, <2>4
  <2>5. QED
    BY <2>3, <2>4
<1>8. ASSUME StartSecondPhase PROVE NothingMissed'
  <2>1. CASE ~EndBatch(TRUE)
    <3> DEFINE late == {r \in Members : batch.seen[r] = "expired"}
               s == [r \in Rules |-> IF r \in Members /\ batch.seen[r] = "expired"
                                     THEN rule[r].mode ELSE batch.seen[r]]
    <3>1. batch' = [batch EXCEPT !.phase = "second", !.seen = s,
                                 !.noted = batch.noted \cup Noted(late)]
          /\ rule' = rule
      BY <1>8, <2>1 DEF StartSecondPhase
    <3>2. /\ batch'.job = batch.job /\ batch'.hit = batch.hit
          /\ batch'.noted = batch.noted \cup Noted(late)
      BY <1>1, <3>1 DEF Batches
    <3>3. Members' = Members
      BY <3>2 DEF Members
    <3>4. ASSUME NEW q \in Members, rule[q].retry # "clean"
          PROVE  \/ q \in batch'.noted
                 \/ batch.seen[q] # "expired" /\ q \notin batch.noted
      BY <3>2, <3>4 DEF Noted
    <3> HIDE DEF late, s
    <3>5. QED
      BY <1>1, <3>1, <3>2, <3>3, <3>4, StillNothingMissed
  <2>2. QED
    BY <1>2, <2>1
<1>9. ASSUME RecordOutcomes \/ RecordFails PROVE NothingMissed'
  BY <1>2, <1>9 DEF RecordOutcomes, RecordFails
<1>10. QED
  BY <1>4, <1>5, <1>6, <1>7, <1>8, <1>9 DEF BatchStep

LEMMA NextMissesNothing ==
  ASSUME IInv, NothingMissed, [Next]_vars
  PROVE  NothingMissed'
<1>1. /\ TypeOK /\ MembersExist /\ Members \subseteq Rules
      /\ batch \in Batches /\ rule \in [Rules -> Row]
  BY DEF IInv, BatchInv, TypeOK, Batches, Members
<1>2. ASSUME Forget PROVE NothingMissed'
  BY <1>2 DEF Forget, NoBatch, NothingMissed, Members
<1>3. ASSUME UNCHANGED batch,
             \A r \in Members :
               rule'[r].life = "live" /\ rule'[r].retry # "clean" =>
                 rule[r].life = "live" /\ rule[r].retry # "clean"
      PROVE  NothingMissed'
  BY <1>3 DEF NothingMissed, Members, Live
<1>4. CASE BatchStep
  BY <1>4, BatchMissesNothing
<1>5. CASE WorkerStep
  <2>1. CASE WorkerRecordsFailure
    <3>1. CASE Busy
      <4>1. batch' = [batch EXCEPT !.hit = batch.hit \cup {worker.id}]
        BY <2>1, <3>1 DEF WorkerRecordsFailure
      <4>2. /\ Members' = Members /\ batch'.seen = batch.seen
            /\ batch'.noted = batch.noted /\ batch'.hit = batch.hit \cup {worker.id}
        BY <1>1, <4>1 DEF Batches, Members
      <4>3. \A r \in Rules : r # worker.id => rule'[r] = rule[r]
        BY <1>1, <2>1 DEF WorkerRecordsFailure
      <4>4. QED
        BY <1>1, <4>2, <4>3, StillNothingMissed
    <3>2. CASE ~Busy
      <4>1. batch' = NoBatch
        BY <2>1, <3>2 DEF IInv, BatchInv, IdleIsClean, WorkerRecordsFailure
      <4>2. QED
        BY <4>1 DEF NoBatch, NothingMissed, Members
    <3>3. QED
      BY <3>1, <3>2
  <2>2. CASE WorkerRuns /\ ~Busy
    <3>1. StartBatch("worker", {worker.id}, FALSE, FALSE) /\ rule' = rule
      BY <2>2 DEF WorkerRuns
    <3>2. {worker.id} \in SUBSET Rules
      BY <1>1, <2>2, RuleFetchAssumption
      DEF IInv, TypeOK, QueueInv, WorkerWellFormed, WorkerRuns, RuleFetchAssumption
    <3>3. QED
      BY <3>1, <3>2, StartsWithNothingMissed
  <2>3. CASE ~WorkerRecordsFailure /\ ~(WorkerRuns /\ ~Busy)
    <3>1. UNCHANGED <<rule, batch>>
      BY <1>5, <2>3
      DEF WorkerStep, WorkerPops, WorkerSelects, WorkerRuns, WorkerErrs, WorkerDies,
          WorkerFinishes, WorkerWakes
    <3>2. QED
      BY <1>3, <3>1
  <2>4. QED
    BY <2>1, <2>2, <2>3
<1>6. CASE SchedulerStep
  <2>1. CASE SchedulerRuns /\ ~Busy
    <3>1. StartBatch("sched", sched.due, sched.all, sched.all) /\ rule' = rule
      BY <2>1 DEF SchedulerRuns
    <3>2. sched.due \in SUBSET Rules
      BY <1>1 DEF TypeOK
    <3>3. QED
      BY <3>1, <3>2, StartsWithNothingMissed
  <2>2. CASE ~(SchedulerRuns /\ ~Busy)
    <3>1. UNCHANGED <<rule, batch>>
      BY <1>6, <2>2 DEF SchedulerStep, SchedulerSelects, SchedulerRuns, SchedulerErrs
    <3>2. QED
      BY <1>3, <3>1
  <2>3. QED
    BY <2>1, <2>2
<1>7. ASSUME NEW r \in Rules,
             \/ CreateRule(r) \/ DeleteRule(r) \/ ChangeMode(r)
             \/ SnapshotAges(r) \/ SearchFromPage(r) \/ BackoffElapses(r)
      PROVE  NothingMissed'
  <2>1. batch' = batch /\ \A q \in Rules : q # r => rule'[q] = rule[q]
    BY <1>1, <1>7
    DEF CreateRule, DeleteRule, ChangeMode, SnapshotAges, SearchFromPage, BackoffElapses
  <2>2. CASE CreateRule(r)
    BY <1>1, <1>3, <2>1, <2>2 DEF CreateRule, MembersExist
  <2>3. CASE DeleteRule(r)
    <3>1. rule'[r].life = "gone"
      BY <1>1, <2>3 DEF DeleteRule, Row
    <3>2. QED
      BY <1>1, <1>3, <2>1, <3>1
  <2>4. CASE ChangeMode(r) \/ SnapshotAges(r) \/ SearchFromPage(r)
    <3>1. rule'[r].retry = rule[r].retry /\ rule'[r].life = rule[r].life
      BY <1>1, <2>4 DEF ChangeMode, SnapshotAges, SearchFromPage, Row
    <3>2. QED
      BY <1>1, <1>3, <2>1, <3>1
  <2>5. CASE BackoffElapses(r)
    <3>1. rule[r].retry = "waiting" /\ rule'[r].life = rule[r].life
      BY <1>1, <2>5 DEF BackoffElapses, Row
    <3>2. QED
      BY <1>1, <1>3, <2>1, <3>1
  <2>6. QED
    BY <1>7, <2>2, <2>3, <2>4, <2>5
<1>8. CASE UserFetches
  <2>1. PICK ids \in SUBSET Rules :
          \E disabledToo, allow : StartBatch("user", ids, disabledToo, allow)
    <3>1. Rules \in SUBSET Rules /\ SUBSET Rules \ {{}} \subseteq SUBSET Rules
      OBVIOUS
    <3>2. \/ \E ids \in SUBSET Rules \ {{}}, disabledToo \in BOOLEAN :
               StartBatch("user", ids, disabledToo, disabledToo)
          \/ \E disabledToo \in BOOLEAN : StartBatch("user", Rules, disabledToo, FALSE)
          \/ StartBatch("user", Rules, settings.all, FALSE)
      BY <1>8 DEF UserFetches
    <3>3. QED
      BY <3>1, <3>2
  <2>2. QED
    BY <1>8, <2>1, StartsWithNothingMissed DEF UserFetches
<1>9. CASE Environment
  <2>1. CASE ChangeSettings \/ StopQueue
    BY <1>3, <2>1 DEF ChangeSettings, StopQueue
  <2>2. QED
    BY <1>2, <1>7, <1>8, <1>9, <2>1 DEF Environment, Crash
<1>10. CASE \/ \E r \in Rules : EnqueueRuleFetch(r) \/ BackoffElapses(r)
            \/ Exit \/ Start \/ UNCHANGED vars
  <2>1. CASE \/ \E r \in Rules : EnqueueRuleFetch(r)
             \/ Start \/ UNCHANGED vars
    BY <1>3, <2>1 DEF EnqueueRuleFetch, Start, vars
  <2>2. QED
    BY <1>2, <1>7, <1>10, <2>1 DEF Exit
<1>11. QED
  BY <1>4, <1>5, <1>6, <1>9, <1>10 DEF Next

\* A batch writes what came of each of its rules or, when a rule was deleted
\* under it or something failed, of none: no interleaving of threads, users and
\* failures loses the record of one rule only.  A failure stands in the row of
\* a rule that succeeded only if the worker recorded it while the batch ran.
THEOREM BatchIsRecorded == Spec => OutcomesRecorded
<1> DEFINE Recorded ==
      \/ \A r \in Members :
           /\ batch.job[r] \in Outcomes
           /\ IF batch.job[r] = "failedTwice" THEN rule'[r].retry = "waiting"
              ELSE rule'[r].retry = "clean" \/ r \in batch.hit
      \/ \E r \in Members : ~Live(r)
      \/ budget'.faults < budget.faults
<1>1. ASSUME IInv, NothingMissed, [Next]_vars, Busy, ~Busy', app' # "down"
      PROVE  Recorded
  <2>1. TypeOK /\ Next
    BY <1>1 DEF IInv, Busy, vars
  <2>2. CASE RecordFails
    BY <2>1, <2>2 DEF RecordFails, Fault, TypeOK
  <2>3. CASE RecordOutcomes /\ \A r \in Members : Live(r)
    <3>1. \A r \in Members : batch.job[r] \in Outcomes
      BY <2>3 DEF RecordOutcomes, Settled
    <3>2. PICK keep \in BOOLEAN :
            /\ keep = (\E r \in Members : ~Live(r) /\ batch.seen[r] # "expired")
            /\ rule' = [r \in Rules |->
                 IF keep \/ r \notin Members \/ ~Live(r) THEN rule[r]
                 ELSE [rule[r] EXCEPT !.retry = Verdict(r)]]
      BY <2>3 DEF RecordOutcomes
    <3>3. keep = FALSE
      BY <2>3, <3>2
    <3>4. ASSUME NEW r \in Members
          PROVE  IF batch.job[r] = "failedTwice" THEN rule'[r].retry = "waiting"
                 ELSE rule'[r].retry = "clean" \/ r \in batch.hit
      <4>1. r \in Rules /\ rule[r] \in Row /\ Live(r)
        BY <2>1, <2>3 DEF Members, TypeOK
      <4>2. rule'[r].retry = Verdict(r)
        BY <3>2, <3>3, <4>1 DEF Row
      <4>3. QED
        BY <1>1, <2>3, <4>2 DEF Verdict, NothingMissed
    <3>5. QED
      BY <3>1, <3>4
  <2>4. QED
    BY <1>1, <2>1, <2>2, <2>3, BatchEndsFor
<1>2. Init => NothingMissed
  BY DEF Init, NoBatch, NothingMissed, Members
<1>3. QED
  BY <1>1, <1>2, InitIInv, NextIInv, NextMissesNothing, PTL DEF Spec, OutcomesRecorded

=============================================================================
