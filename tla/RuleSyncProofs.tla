--------------------------- MODULE RuleSyncProofs ---------------------------
(***************************************************************************)
(* Proofs about RuleSync for every set of rules, names and queue threads,  *)
(* every choice of names a user may give, and any number of acts, failed   *)
(* calls and crashes: the safety properties that MCRuleSync checks on two  *)
(* rules.                                                                  *)
(***************************************************************************)
EXTENDS RuleSync, TLAPS

Outcomes == {"ok", "error", "transient"}
Jobs == [pc : JobPcs, id : Ids \cup {NoId}, row : Row, target : Names \cup {NoName},
         outcome : Outcomes]
Boots == [pc : {"load", "compare", "running", "done", "aborted"},
          todo : SUBSET Ids, drifted : SUBSET Ids, rows : [Ids -> Row]]
Forms == [open : BOOLEAN, id : Ids \cup {NoId}, row : Row]
Deleters == [pc : {"idle", "remove", "delete", "error", "transient"},
             id : Ids \cup {NoId}, row : Row]
Payloads == [rule : Ids \cup {NoId}, content : Nat]
Saves == [name : Names \cup {NoName}, enabled : BOOLEAN, content : Nat]

\* TypeOK is what the variables range over and the table's constraint.
Types ==
  /\ rows \in [Ids -> Row]
  /\ qb \in [Names -> Payloads]
  /\ owed \in SUBSET Ids
  /\ pending \in SUBSET Ids
  /\ job \in [Runners -> Jobs]
  /\ boot \in Boots
  /\ form \in Forms
  /\ deleter \in Deleters
  /\ recovering \in SUBSET Ids
  /\ saved \in [Ids -> Saves]
  /\ contended \in SUBSET Ids
  /\ displaced \in SUBSET Ids
  /\ actions \in Nat /\ faults \in Nat

NamesUnique ==
  \A a, b \in Ids : a # b /\ Live(a) /\ Live(b) => rows[a].name # rows[b].name

-----------------------------------------------------------------------------
\* Who works on a rule with a session of its own ...
Active(w) == job[w].pc \notin {"idle", "load"}
WorksOn(w, id) == Active(w) /\ job[w].id = id
InBoot(id) == boot.pc \in {"compare", "running"} /\ id \in boot.todo
InDelete(id) == deleter.pc # "idle" /\ deleter.id = id

\* ... and whether a later sync will load the rule anew.
Unsynced(id) ==
  \/ id \in owed \cup pending
  \/ \E w \in Workers : job[w].pc = "load" /\ job[w].id = id

\* A job knows which way its rule goes.  Nothing fails without a fault.
JobWellFormed(w) ==
  /\ job[w].pc = "idle" => job[w] = NoJob
  /\ job[w].pc # "idle" => job[w].id \in Ids
  /\ Active(w) => job[w].row.name \in Names
  /\ Active(w) /\ w \in Workers => job[w].row.status = "syncing"
  /\ job[w].pc \in {"category", "retire", "publish"} => job[w].row.enabled
  /\ job[w].pc \in {"lookup", "withdraw", "prune"} => ~job[w].row.enabled
  /\ job[w].pc = "retire" => IsRenamed(job[w].row)
  /\ job[w].pc # "record" \/ faults = 0 => job[w].outcome = "ok"
JobsWellFormed == \A w \in Runners : JobWellFormed(w)

BootWellFormed ==
  /\ job[Boot].pc # "load"
  /\ boot.pc # "running" => job[Boot] = NoJob
  /\ \A id \in boot.todo : boot.rows[id].name \in Names

RowsWellFormed ==
  \A id \in Ids : /\ Live(id) => rows[id].name \in Names
                  /\ ~Live(id) => rows[id].remote = NoName

DeleterWellFormed ==
  /\ deleter.pc # "idle" => deleter.id \in Ids /\ Live(deleter.id)
  /\ faults = 0 => deleter.pc \notin {"error", "transient"}

\* Only the open form changes what the user saved.
FormIsCurrent ==
  form.open => /\ form.id \in Ids /\ rows[form.id].life # "unborn"
               /\ Live(form.id) => UserColumns(form.row) = UserColumns(rows[form.id])

\* A rule that is "pending" or "syncing" is in the queue's hands or, after a
\* failure, in those of a startup reconciliation that will write its status.
QueueAccounted(id) ==
  id \in owed \cup pending \/ \E w \in Workers : job[w].id = id /\ job[w].pc # "idle"
BootAccounted(id) ==
  \/ boot.pc \in {"load", "aborted"}
  \/ InBoot(id) /\ boot.rows[id].status \notin Outcomes
  \/ WorksOn(Boot, id) /\ job[Boot].row.status \notin Outcomes
Accounted(id) ==
  Live(id) /\ rows[id].status \in {"pending", "syncing"} =>
     QueueAccounted(id) \/ (faults > 0 /\ BootAccounted(id))
UnsettledAccounted == \A id \in Ids : Accounted(id)

\* What "contended" leaves: one session at a time works on a rule, ...
OneSession(id) ==
  /\ \A v, w \in Runners : WorksOn(v, id) /\ WorksOn(w, id) => v = w
  /\ InBoot(id) => ~InDelete(id) /\ \A w \in Runners : ~WorksOn(w, id)
  /\ InDelete(id) => \A w \in Runners : ~WorksOn(w, id)
OneAtATime == \A id \in Ids \ contended : OneSession(id)

\* ... and what it loaded is what the table holds, except for what the user
\* saved since and a later sync will load.
JobIsCurrent(w, id) ==
  /\ Live(id)
  /\ job[w].row.remote = rows[id].remote
  /\ w \in Workers => rows[id].status \in {"pending", "syncing"}
  /\ ~Unsynced(id) => /\ UserColumns(job[w].row) = UserColumns(rows[id])
                      /\ w = Boot => job[w].row.status \in {rows[id].status, "drift"}
BootIsCurrent(id) ==
  /\ Live(id)
  /\ boot.rows[id].remote = rows[id].remote
  /\ ~Unsynced(id) => /\ UserColumns(boot.rows[id]) = UserColumns(rows[id])
                      /\ boot.rows[id].status = rows[id].status
DeleterIsCurrent(id) ==
  /\ deleter.row.remote = rows[id].remote
  /\ ~Unsynced(id) => deleter.row.status = rows[id].status
IsCurrent(id) ==
  /\ \A w \in Runners : WorksOn(w, id) => JobIsCurrent(w, id)
  /\ InBoot(id) => BootIsCurrent(id)
  /\ InDelete(id) => DeleterIsCurrent(id)
SessionsCurrent == \A id \in Ids \ contended : IsCurrent(id)

\* An enabled rule that says "ok" is in qB, unless a deletion is under way or a
\* crash may have cut one short that the startup reconciliation has yet to heal.
Unhealed(id) ==
  faults > 0 /\ \/ boot.pc \in {"load", "aborted"}
                \/ InBoot(id)
                \/ WorksOn(Boot, id)
Recording(id) ==
  \E w \in Runners : WorksOn(w, id) /\ job[w].pc = "record" /\ job[w].outcome = "ok"
PublishedIfOk(id) ==
  Live(id) /\ rows[id].enabled /\ ~Unsynced(id) =>
    /\ Recording(id) => Published(id)
    /\ rows[id].status = "ok" /\ ~InDelete(id) /\ ~Unhealed(id) => Published(id)
PublishedOrPending == \A id \in Ids \ (contended \cup displaced) : PublishedIfOk(id)

\* While nothing has failed, qB holds a rule under its last synced name at most,
\* except between a call to qB and the record of it.
Copies(id) == {n \in Names : qb[n].rule = id}
CopiesDuring(w, id) ==
  /\ job[w].pc \in {"category", "retire", "lookup", "withdraw"}
       => Copies(id) \subseteq {rows[id].remote}
  /\ job[w].pc = "withdraw" /\ rows[id].remote # NoName => job[w].target = rows[id].remote
  /\ job[w].pc = "publish" \/ (job[w].pc = "record" /\ job[w].row.enabled)
       => Copies(id) \subseteq {job[w].row.name}
  /\ job[w].pc = "prune" \/ (job[w].pc = "record" /\ ~job[w].row.enabled)
       => Copies(id) = {}
CopiesTracked(id) ==
  /\ (\A w \in Runners : ~WorksOn(w, id)) => Copies(id) \subseteq {rows[id].remote}
  /\ InDelete(id) /\ deleter.pc = "delete" => Copies(id) = {}
  /\ \A w \in Runners : WorksOn(w, id) => CopiesDuring(w, id)
  /\ Live(id) /\ ~rows[id].enabled /\ rows[id].status = "ok" /\ ~Unsynced(id)
       => rows[id].remote = NoName
WithdrawnOrPending == faults = 0 => \A id \in Ids \ contended : CopiesTracked(id)

\* The inductive invariant.
WellFormed == JobsWellFormed /\ BootWellFormed /\ RowsWellFormed /\ DeleterWellFormed
SyncInv == /\ UnsettledAccounted /\ OneAtATime /\ SessionsCurrent
           /\ PublishedOrPending /\ WithdrawnOrPending
IInv == /\ Types /\ NamesUnique /\ UserEditsSurvive /\ FormIsCurrent
        /\ WellFormed /\ SyncInv

-----------------------------------------------------------------------------
LEMMA TypeOKParts == TypeOK <=> Types /\ NamesUnique
BY DEF TypeOK, Types, NamesUnique, Live, Jobs, Boots, Forms, Deleters, Payloads, Saves,
       Outcomes

LEMMA RestingTypes ==
  /\ NoRow \in Row
  /\ \A life \in {"unborn", "live", "gone"} : [NoRow EXCEPT !.life = life] \in Row
  /\ NoPayload \in Payloads
  /\ NoJob \in Jobs
  /\ NoForm \in Forms
  /\ NoDelete \in Deleters
  /\ \A pc \in {"load", "compare", "running", "done", "aborted"} : NoBoot(pc) \in Boots
  /\ \A row \in Row : UserColumns(row) \in Saves
  /\ \A id \in Ids, row \in Row : Payload(id, row) \in Payloads
<1>1. NoRow \in Row /\ \A life \in {"unborn", "live", "gone"} : [NoRow EXCEPT !.life = life] \in Row
  BY DEF NoRow, Row, Statuses
<1>2. NoPayload \in Payloads
  BY DEF NoPayload, Payloads
<1>3. NoJob \in Jobs
  BY <1>1 DEF NoJob, Jobs, JobPcs, Outcomes
<1>4. NoForm \in Forms
  BY <1>1 DEF NoForm, Forms
<1>5. NoDelete \in Deleters
  BY <1>1 DEF NoDelete, Deleters
<1>6. \A pc \in {"load", "compare", "running", "done", "aborted"} : NoBoot(pc) \in Boots
  BY <1>1 DEF NoBoot, Boots
<1>7. \A row \in Row : UserColumns(row) \in Saves
  BY DEF UserColumns, Saves, Row
<1>8. \A id \in Ids, row \in Row : Payload(id, row) \in Payloads
  BY DEF Payload, Payloads, Row
<1>9. QED
  BY <1>1, <1>2, <1>3, <1>4, <1>5, <1>6, <1>7, <1>8

-----------------------------------------------------------------------------
\* Every step keeps the types: one lemma per part of the system.
LEMMA RowWrites ==
  /\ \A row \in Row, s \in Statuses :
       /\ [row EXCEPT !.status = s] \in Row
       /\ [row EXCEPT !.status = s].life = row.life
       /\ [row EXCEPT !.status = s].status = s
       /\ [row EXCEPT !.status = s].remote = row.remote
       /\ UserColumns([row EXCEPT !.status = s]) = UserColumns(row)
  /\ \A row \in Row, s \in Statuses, n \in Names \cup {NoName} :
       LET new == [row EXCEPT !.remote = n, !.status = s]
       IN /\ new \in Row /\ new.life = row.life /\ new.status = s /\ new.remote = n
          /\ UserColumns(new) = UserColumns(row)
BY DEF Row, UserColumns

LEMMA JobWrites ==
  \A j \in Jobs :
    /\ \A pc \in JobPcs : [j EXCEPT !.pc = pc] \in Jobs
    /\ \A pc \in JobPcs, n \in Names \cup {NoName} :
         [j EXCEPT !.pc = pc, !.target = n] \in Jobs
    /\ \A pc \in JobPcs, row \in Row : [j EXCEPT !.row = row, !.pc = pc] \in Jobs
    /\ \A reply \in Replies : Failed(j, reply) \in Jobs
BY DEF Jobs, JobPcs, Outcomes, Failed

LEMMA UserTypes ==
  ASSUME Types, form.open => form.id \in Ids, UserNext
  PROVE  Types'
<1> USE RuleSyncAssumption DEF RuleSyncAssumption
<1>1. ASSUME NEW id \in Ids, NEW n \in Names, CreateRule(id, n) PROVE Types'
  <2>1. [NoRow EXCEPT !.life = "live", !.name = n, !.enabled = TRUE,
                      !.content = actions + 1] \in Row
    <3>1. actions + 1 \in Nat /\ NoRow \in Row
      BY RestingTypes DEF Types
    <3>2. \A row \in Row, on \in BOOLEAN, version \in Nat :
            [row EXCEPT !.life = "live", !.name = n, !.enabled = on, !.content = version]
              \in Row
      BY DEF Row
    <3>3. QED
      BY <3>1, <3>2
  <2>2. rows' \in [Ids -> Row] /\ rows'[id] \in Row
    BY <1>1, <2>1 DEF CreateRule, Types
  <2>3. saved' \in [Ids -> Saves]
    BY <1>1, <2>2, RestingTypes DEF CreateRule, Types
  <2>4. QED
    BY <1>1, <2>2, <2>3 DEF CreateRule, UserActs, Types
<1>2. ASSUME NEW id \in Ids, OpenForm(id) PROVE Types'
  BY <1>2 DEF OpenForm, UserActs, Types, Forms
<1>3. ASSUME NEW n \in Names, NEW on \in BOOLEAN, SaveForm(n, on) PROVE Types'
  <2>1. form.row \in Row /\ form' \in Forms
    BY <1>3, RestingTypes DEF SaveForm, Types, Forms
  <2>2. CASE ~Live(form.id)
    BY <1>3, <2>1, <2>2 DEF SaveForm, Types
  <2>3. CASE Live(form.id)
    <3>1. \A row \in Row : SavedRow(row, form.row, n, on, actions) \in Row
      <4>1. TAKE row \in Row
      <4>2. /\ Written(row.name, form.row.name, n) \in Names \cup {NoName}
            /\ Written(row.enabled, form.row.enabled, on) \in BOOLEAN
            /\ Written(row.status, form.row.status, "pending") \in Statuses
        BY DEF Written, Row, Statuses
      <4>3. actions \in Nat
        BY DEF Types
      <4>4. QED
        BY <4>2, <4>3 DEF SavedRow, Row
    <3>2. rows' \in [Ids -> Row]
      BY <1>3, <2>3, <3>1 DEF SaveForm, Types
    <3>3. [name |-> n, enabled |-> on, content |-> actions] \in Saves
      BY DEF Saves, Types
    <3>4. saved' \in [Ids -> Saves]
      BY <1>3, <2>3, <3>3 DEF SaveForm, Types
    <3>5. form.id \in Ids
      BY <1>3 DEF SaveForm
    <3>6. QED
      BY <1>3, <2>1, <2>3, <3>2, <3>4, <3>5 DEF SaveForm, Types
  <2>4. QED
    BY <2>2, <2>3
<1>4. CASE RejectForm
  BY <1>4, RestingTypes DEF RejectForm, Types
<1>5. ASSUME NEW ids \in SUBSET Ids, RequestSync(ids) PROVE Types'
  <2>1. rows' \in [Ids -> Row]
    BY <1>5, RowWrites DEF RequestSync, Types, Statuses
  <2>2. QED
    BY <1>5, <2>1 DEF RequestSync, UserActs, Types
<1>6. ASSUME NEW id \in Ids, EnqueueRuleSync(id) PROVE Types'
  BY <1>6 DEF EnqueueRuleSync, Types
<1>7. ASSUME NEW id \in Ids, OpenDelete(id) PROVE Types'
  BY <1>7 DEF OpenDelete, UserActs, Types, Deleters
<1>8. ASSUME NEW reply \in Replies, DeleteRemote(reply) PROVE Types'
  <2>1. qb' \in [Names -> Payloads] /\ displaced' \in SUBSET Ids
    BY <1>8, RestingTypes DEF DeleteRemote, RemoveRemote, WriteRemote, Types
  <2>2. deleter' \in Deleters
    BY <1>8 DEF DeleteRemote, Types, Deleters
  <2>3. QED
    BY <1>8, <2>1, <2>2 DEF DeleteRemote, Fault, Types
<1>9. CASE DeleteLocal
  <2>1. rows' \in [Ids -> Row] /\ saved' \in [Ids -> Saves]
    BY <1>9, RestingTypes DEF DeleteLocal, Types
  <2>2. QED
    BY <1>9, <2>1, RestingTypes DEF DeleteLocal, Types
<1>10. CASE DeleteFails
  <2>1. \A row \in Row : Written(row.status, deleter.row.status, deleter.pc) \in Statuses
    BY <1>10 DEF DeleteFails, Written, Row, Statuses
  <2>2. rows' \in [Ids -> Row]
    BY <1>10, <2>1, RowWrites DEF DeleteFails, Types
  <2>3. QED
    BY <1>10, <2>2, RestingTypes DEF DeleteFails, Types
<1>11. QED
  BY <1>1, <1>2, <1>3, <1>4, <1>5, <1>6, <1>7, <1>8, <1>9, <1>10 DEF UserNext

LEMMA QbTypes ==
  ASSUME Types, NEW w \in Runners, NEW reply \in Replies, QbCall(w, reply)
  PROVE  Types'
<1>1. job[w] \in Jobs /\ job[w].row \in Row
  BY DEF Types, Jobs
<1>2. qb' \in [Names -> Payloads] /\ displaced' \in SUBSET Ids
  <2>1. ASSUME NEW id, NEW name, NEW payload \in Payloads,
               WriteRemote(id, name, payload, reply)
        PROVE  qb' \in [Names -> Payloads] /\ displaced' \in SUBSET Ids
    BY <2>1 DEF WriteRemote, Types
  <2>2. job[w].pc = "publish" => Payload(job[w].id, job[w].row) \in Payloads
    BY <1>1 DEF Payload, Payloads, Row, Jobs
  <2>3. QED
    BY <2>1, <2>2, RestingTypes
    DEF QbCall, EnsureCategory, RetireOldName, SetRule, LookUpRemote, WithdrawRule,
        PruneCategories, RemoveRemote, Types
<1>3. job' \in [Runners -> Jobs]
  <2>1. \A pc \in {"retire", "publish", "record", "prune"} :
          After(w, reply, pc) => job' \in [Runners -> Jobs]
    BY <1>1, JobWrites DEF After, Types, JobPcs
  <2>2. LookUpRemote(w, reply) => job' \in [Runners -> Jobs]
    <3>1. SUFFICES ASSUME LookUpRemote(w, reply) PROVE job' \in [Runners -> Jobs]
      OBVIOUS
    <3>2. PICK target \in Names \cup {NoName} :
            job' = [job EXCEPT ![w] = IF reply = "answered"
                                      THEN [job[w] EXCEPT !.pc = "withdraw", !.target = target]
                                      ELSE Failed(job[w], reply)]
      BY <1>1, <3>1 DEF LookUpRemote, Row
    <3>3. QED
      BY <1>1, <3>2, JobWrites DEF Types, JobPcs
  <2>3. QED
    BY <2>1, <2>2
    DEF QbCall, EnsureCategory, RetireOldName, SetRule, WithdrawRule, PruneCategories
<1>4. faults' \in Nat
  BY DEF QbCall, EnsureCategory, RetireOldName, SetRule, LookUpRemote, WithdrawRule,
         PruneCategories, Fault, Types
<1>5. UNCHANGED <<rows, owed, pending, boot, form, deleter, recovering, saved, contended,
                  actions>>
  BY DEF QbCall, EnsureCategory, RetireOldName, SetRule, LookUpRemote, WithdrawRule,
         PruneCategories
<1>6. QED
  BY <1>2, <1>3, <1>4, <1>5 DEF Types

LEMMA SyncTypes ==
  ASSUME Types, \A w \in Runners : job[w].pc = "load" => job[w].id \in Ids, SyncNext
  PROVE  Types'
<1>1. ASSUME NEW w \in Workers, NEW id \in Ids, Dispatch(w, id) PROVE Types'
  <2>1. [NoJob EXCEPT !.pc = "load", !.id = id] \in Jobs
    BY RestingTypes DEF Jobs, JobPcs
  <2>2. QED
    BY <1>1, <2>1 DEF Dispatch, Types
<1>2. ASSUME NEW w \in Workers, LoadRule(w) PROVE Types'
  <2> DEFINE marked == [rows[job[w].id] EXCEPT !.status = "syncing"]
  <2>1. CASE Live(job[w].id)
    <3>1. w \in Runners /\ job[w] \in Jobs
      BY DEF Types, Runners
    <3>2. job[w].id \in Ids
      BY <1>2, <3>1 DEF LoadRule
    <3>3. marked \in Row /\ FirstStep(marked) \in JobPcs
      BY <3>2, RowWrites DEF Types, Statuses, FirstStep, JobPcs
    <3>4. job' = [job EXCEPT ![w] = [job[w] EXCEPT !.row = marked, !.pc = FirstStep(marked)]]
      BY <1>2, <2>1, <3>1 DEF LoadRule, Types
    <3>5. QED
      BY <1>2, <2>1, <3>1, <3>2, <3>3, <3>4, JobWrites DEF LoadRule, Types
  <2>2. CASE ~Live(job[w].id)
    BY <1>2, <2>2, RestingTypes DEF LoadRule, Types
  <2>3. QED
    BY <2>1, <2>2
<1>3. CASE BootLoads
  <2>1. boot' \in Boots
    BY <1>3 DEF BootLoads, Types, Boots
  <2>2. QED
    BY <1>3, <2>1 DEF BootLoads, Types
<1>4. ASSUME NEW answered \in BOOLEAN, BootCompares(answered) PROVE Types'
  <2>1. boot' \in Boots
    BY <1>4 DEF BootCompares, Types, Boots
  <2>2. QED
    BY <1>4, <2>1 DEF BootCompares, Types
<1>5. ASSUME NEW id \in Ids, BootTakes(id) PROVE Types'
  <2>1. boot' \in Boots
    BY <1>5 DEF BootTakes, Types, Boots
  <2>2. boot.rows[id] \in Row
    BY DEF Types, Boots
  <2>3. PICK row \in Row : job' = [job EXCEPT ![Boot] =
                                     [NoJob EXCEPT !.pc = FirstStep(boot.rows[id]),
                                                   !.id = id, !.row = row]]
    BY <1>5, <2>2, RowWrites DEF BootTakes, Statuses
  <2>4. [NoJob EXCEPT !.pc = FirstStep(boot.rows[id]), !.id = id, !.row = row] \in Jobs
    BY RestingTypes DEF Jobs, JobPcs, FirstStep
  <2>5. QED
    BY <1>5, <2>1, <2>3, <2>4 DEF BootTakes, Types
<1>6. CASE BootEnds
  BY <1>6, RestingTypes DEF BootEnds, Types
<1>7. ASSUME NEW w \in Runners, NEW reply \in Replies, QbCall(w, reply) PROVE Types'
  BY <1>7, QbTypes
<1>8. ASSUME NEW w \in Runners, RecordOutcome(w) PROVE Types'
  <2>1. job[w] \in Jobs /\ job' \in [Runners -> Jobs] /\ boot' \in Boots
    BY <1>8, RestingTypes DEF RecordOutcome, Dropped, Types
  <2>2. \A row \in Row : RecordedRow(row, job[w]) \in Row
    <3>1. TAKE row \in Row
    <3>2. /\ Written(row.remote, job[w].row.remote,
                     IF job[w].row.enabled THEN job[w].row.name ELSE NoName)
               \in Names \cup {NoName}
          /\ Written(row.status, job[w].row.status, "ok") \in Statuses
          /\ Written(row.status, job[w].row.status, job[w].outcome) \in Statuses
      BY <2>1 DEF Written, Jobs, Outcomes, Row, Statuses
    <3>3. QED
      BY <3>2, RowWrites DEF RecordedRow
  <2>3. rows' \in [Ids -> Row]
    BY <1>8, <2>2 DEF RecordOutcome, Types
  <2>4. QED
    BY <1>8, <2>1, <2>3 DEF RecordOutcome, Types
<1>9. ASSUME NEW w \in Runners, NEW outcome \in {"error", "transient"}, SyncRaises(w, outcome)
      PROVE  Types'
  <2>1. job' \in [Runners -> Jobs] /\ boot' \in Boots
    BY <1>9, RestingTypes DEF SyncRaises, Dropped, Types
  <2>2. rows' \in [Ids -> Row]
    BY <1>9, RowWrites DEF SyncRaises, Types, Statuses
  <2>3. QED
    BY <1>9, <2>1, <2>2 DEF SyncRaises, Types
<1>10. QED
  BY <1>1, <1>2, <1>3, <1>4, <1>5, <1>6, <1>7, <1>8, <1>9 DEF SyncNext

LEMMA OtherTypes ==
  ASSUME Types, RecoveryNext \/ Crash
  PROVE  Types'
<1>1. CASE RecoveryRequeues
  <2>1. rows' \in [Ids -> Row]
    <3>1. \A row \in Row : [row EXCEPT !.status = "pending"] \in Row
      BY RowWrites DEF Statuses
    <3>2. CASE \A id \in recovering : Live(id)
      BY <1>1, <3>1, <3>2 DEF RecoveryRequeues, Types
    <3>3. CASE ~\A id \in recovering : Live(id)
      BY <1>1, <3>3 DEF RecoveryRequeues, Types
    <3>4. QED
      BY <3>2, <3>3
  <2>2. QED
    BY <1>1, <2>1 DEF RecoveryRequeues, Types
<1>2. CASE RecoveryScans \/ RecoveryGivesUp
  BY <1>2 DEF RecoveryScans, RecoveryGivesUp, Types
<1>3. CASE Crash
  BY <1>3, RestingTypes DEF Crash, Types
<1>4. QED
  BY <1>1, <1>2, <1>3 DEF RecoveryNext

LEMMA TypesStep ==
  ASSUME Types, form.open => form.id \in Ids,
         \A w \in Runners : job[w].pc = "load" => job[w].id \in Ids, [Next]_vars
  PROVE  Types'
<1>1. CASE UNCHANGED vars
  BY <1>1 DEF vars, Types
<1>2. QED
  BY <1>1, UserTypes, SyncTypes, OtherTypes DEF Next

-----------------------------------------------------------------------------
\* Everything but a creation, a save and a deletion leaves the columns of the
\* user and the life of a row alone, ...
Kept(id) ==
  rows'[id].life = rows[id].life /\ UserColumns(rows'[id]) = UserColumns(rows[id])

LEMMA StatusKept ==
  ASSUME Types, NEW id \in Ids, NEW s \in Statuses,
         rows'[id] = [rows[id] EXCEPT !.status = s]
  PROVE  Kept(id) /\ rows'[id].remote = rows[id].remote /\ rows'[id].status = s
<1>1. rows[id] \in Row
  BY DEF Types
<1> DEFINE new == [rows[id] EXCEPT !.status = s]
<1>2. /\ new.life = rows[id].life /\ new.status = s /\ new.remote = rows[id].remote
      /\ UserColumns(new) = UserColumns(rows[id])
  BY <1>1, RowWrites
<1>3. QED
  BY <1>2 DEF Kept

LEMMA RecordKept ==
  ASSUME Types, NEW w \in Runners, RecordOutcome(w), NEW id \in Ids
  PROVE  Kept(id)
<1>1. job[w] \in Jobs /\ rows[id] \in Row /\ job[w].row \in Row
  BY DEF Types, Jobs
<1>2. CASE rows'[id] = rows[id]
  BY <1>2 DEF Kept
<1>3. CASE rows'[id] # rows[id]
  <2>1. rows'[id] = RecordedRow(rows[id], job[w])
    BY <1>3 DEF RecordOutcome, Types
  <2>2. /\ Written(rows[id].remote, job[w].row.remote,
                   IF job[w].row.enabled THEN job[w].row.name ELSE NoName)
             \in Names \cup {NoName}
        /\ Written(rows[id].status, job[w].row.status, "ok") \in Statuses
        /\ Written(rows[id].status, job[w].row.status, job[w].outcome) \in Statuses
    BY <1>1 DEF Written, Jobs, Outcomes, Row, Statuses
  <2>3. PICK s \in Statuses, n \in Names \cup {NoName} :
          \/ rows'[id] = [rows[id] EXCEPT !.remote = n, !.status = s]
          \/ rows'[id] = [rows[id] EXCEPT !.status = s]
    BY <2>1, <2>2 DEF RecordedRow
  <2> DEFINE one == [rows[id] EXCEPT !.remote = n, !.status = s]
             two == [rows[id] EXCEPT !.status = s]
  <2>4. /\ one.life = rows[id].life /\ UserColumns(one) = UserColumns(rows[id])
        /\ two.life = rows[id].life /\ UserColumns(two) = UserColumns(rows[id])
    BY <1>1, <2>3 DEF Row, UserColumns
  <2>5. QED
    BY <2>3, <2>4 DEF Kept
<1>4. QED
  BY <1>2, <1>3

LEMMA QbCallKeeps ==
  ASSUME NEW w \in Runners, NEW reply \in Replies, QbCall(w, reply)
  PROVE  UNCHANGED <<rows, owed, pending, boot, form, deleter, recovering, saved,
                     contended, actions>>
BY DEF QbCall, EnsureCategory, RetireOldName, SetRule, LookUpRemote, WithdrawRule,
       PruneCategories

LEMMA ColumnsKept ==
  ASSUME Types, [Next]_vars,
         \A id \in Ids, n \in Names : ~CreateRule(id, n),
         \A n \in Names, on \in BOOLEAN : ~SaveForm(n, on), ~DeleteLocal
  PROVE  /\ \A id \in Ids : Kept(id)
         /\ saved' = saved
         /\ form' = form \/ ~form'.open \/ \E id \in Ids : OpenForm(id)
<1> USE RestingTypes DEF Statuses
<1>1. CASE rows' = rows /\ saved' = saved /\ (form' = form \/ form' = NoForm)
  BY <1>1 DEF Kept, NoForm
<1>2. ASSUME NEW id \in Ids, OpenForm(id)
      PROVE  rows' = rows /\ saved' = saved
  BY <1>2 DEF OpenForm
<1>3. ASSUME NEW ids \in SUBSET Ids, RequestSync(ids)
      PROVE  (\A id \in Ids : Kept(id)) /\ UNCHANGED <<saved, form>>
  <2>1. \A id \in Ids : rows'[id] = rows[id] \/ rows'[id] = [rows[id] EXCEPT !.status = "pending"]
    BY <1>3 DEF RequestSync
  <2>2. QED
    BY <1>3, <2>1, StatusKept DEF RequestSync, Kept
<1>4. CASE DeleteFails
  <2>1. \A row \in Row : Written(row.status, deleter.row.status, deleter.pc) \in Statuses
    BY <1>4 DEF DeleteFails, Written, Row
  <2>2. \A id \in Ids : \/ rows'[id] = rows[id]
                        \/ \E s \in Statuses : rows'[id] = [rows[id] EXCEPT !.status = s]
    BY <1>4, <2>1 DEF DeleteFails, Types
  <2>3. QED
    BY <1>4, <2>2, StatusKept DEF DeleteFails, Kept
<1>5. ASSUME NEW w \in Workers, LoadRule(w)
      PROVE  (\A id \in Ids : Kept(id)) /\ UNCHANGED <<saved, form>>
  <2>1. \A id \in Ids : rows'[id] = rows[id] \/ rows'[id] = [rows[id] EXCEPT !.status = "syncing"]
    BY <1>5 DEF LoadRule, Types
  <2>2. QED
    BY <1>5, <2>1, StatusKept DEF LoadRule, Kept
<1>6. ASSUME NEW w \in Runners, RecordOutcome(w)
      PROVE  (\A id \in Ids : Kept(id)) /\ UNCHANGED <<saved, form>>
  BY <1>6, RecordKept DEF RecordOutcome
<1>7. ASSUME NEW w \in Runners, NEW outcome \in {"error", "transient"}, SyncRaises(w, outcome)
      PROVE  (\A id \in Ids : Kept(id)) /\ UNCHANGED <<saved, form>>
  <2>1. \A id \in Ids : rows'[id] = rows[id] \/ rows'[id] = [rows[id] EXCEPT !.status = outcome]
    BY <1>7 DEF SyncRaises, Types
  <2>2. QED
    BY <1>7, <2>1, StatusKept DEF SyncRaises, Kept
<1>8. CASE RecoveryRequeues
  <2>1. \A id \in Ids : rows'[id] = rows[id] \/ rows'[id] = [rows[id] EXCEPT !.status = "pending"]
    BY <1>8 DEF RecoveryRequeues
  <2>2. QED
    BY <1>8, <2>1, StatusKept DEF RecoveryRequeues, Kept
<1>9. CASE UserNext
  BY <1>1, <1>2, <1>3, <1>4, <1>9
  DEF UserNext, RejectForm, EnqueueRuleSync, OpenDelete, DeleteRemote, Kept
<1>10. CASE SyncNext
  BY <1>1, <1>5, <1>6, <1>7, <1>10, QbCallKeeps
  DEF SyncNext, Dispatch, BootLoads, BootCompares, BootTakes, BootEnds
<1>11. CASE RecoveryNext \/ Crash
  BY <1>1, <1>8, <1>11 DEF RecoveryNext, RecoveryScans, RecoveryGivesUp, Crash
<1>12. CASE UNCHANGED vars
  BY <1>1, <1>12 DEF vars
<1>13. QED
  BY <1>9, <1>10, <1>11, <1>12 DEF Next

\* ... so no session but the open form can undo what the user saved.
LEMMA DatabaseStep ==
  ASSUME Types, NamesUnique, UserEditsSurvive, FormIsCurrent, DeleterWellFormed, [Next]_vars
  PROVE  NamesUnique' /\ UserEditsSurvive' /\ FormIsCurrent'
<1>1. CASE /\ \A id \in Ids, n \in Names : ~CreateRule(id, n)
           /\ \A n \in Names, on \in BOOLEAN : ~SaveForm(n, on)
           /\ ~DeleteLocal
  <2>1. /\ \A id \in Ids : Kept(id)
        /\ saved' = saved
        /\ form' = form \/ ~form'.open \/ \E id \in Ids : OpenForm(id)
    BY <1>1, ColumnsKept
  <2>2. NamesUnique'
    <3>1. \A id \in Ids : rows'[id].life = rows[id].life /\ rows'[id].name = rows[id].name
      BY <2>1 DEF Kept, UserColumns
    <3>2. QED
      BY <3>1 DEF NamesUnique, Live
  <2>3. UserEditsSurvive'
    BY <2>1 DEF UserEditsSurvive, Kept
  <2>4. FormIsCurrent'
    <3>1. CASE form' = form \/ ~form'.open
      BY <2>1, <3>1 DEF FormIsCurrent, Live, Kept
    <3>2. ASSUME NEW id \in Ids, OpenForm(id)
          PROVE  FormIsCurrent'
      BY <3>2 DEF OpenForm, FormIsCurrent, Live
    <3>3. QED
      BY <2>1, <3>1, <3>2
  <2>5. QED
    BY <2>2, <2>3, <2>4
<1>2. ASSUME NEW id \in Ids, NEW n \in Names, CreateRule(id, n)
      PROVE  NamesUnique' /\ UserEditsSurvive' /\ FormIsCurrent'
  <2>1. /\ rows'[id].life = "live" /\ rows'[id].name = n /\ rows[id].life = "unborn"
        /\ \A other \in Ids \ {id} : rows'[other] = rows[other] /\ saved'[other] = saved[other]
        /\ saved'[id] = UserColumns(rows'[id]) /\ form' = form
        /\ \A other \in Ids \ {id} : ~(Live(other) /\ rows[other].name = n)
    BY <1>2 DEF CreateRule, Types, NoRow, NameIsFree
  <2>2. QED
    BY <2>1 DEF NamesUnique, UserEditsSurvive, FormIsCurrent, Live
<1>3. ASSUME NEW n \in Names, NEW on \in BOOLEAN, SaveForm(n, on)
      PROVE  NamesUnique' /\ UserEditsSurvive' /\ FormIsCurrent'
  <2> DEFINE id == form.id
  <2>1. id \in Ids /\ ~form'.open
    BY <1>3 DEF SaveForm, FormIsCurrent, NoForm
  <2>2. CASE ~Live(id)
    BY <1>3, <2>1, <2>2 DEF SaveForm, NamesUnique, UserEditsSurvive, FormIsCurrent, Live
  <2>3. CASE Live(id)
    <3>1. rows[id].name = form.row.name /\ rows[id].enabled = form.row.enabled
      BY <1>3, <2>3 DEF SaveForm, FormIsCurrent, UserColumns
    <3>2. rows'[id] = SavedRow(rows[id], form.row, n, on, actions)
          /\ saved'[id] = [name |-> n, enabled |-> on, content |-> actions]
          /\ \A other \in Ids \ {id} : rows'[other] = rows[other] /\ saved'[other] = saved[other]
      BY <1>3, <2>1, <2>3 DEF SaveForm, Types
    <3>3. rows'[id].life = "live" /\ rows'[id].name = n /\ rows'[id].enabled = on
          /\ rows'[id].content = actions
      BY <2>1, <2>3, <3>1, <3>2 DEF SavedRow, Written, Types, Row, Live
    <3>4. UserColumns(rows'[id]) = saved'[id]
      BY <3>2, <3>3 DEF UserColumns
    <3>5. \A other \in Ids \ {id} : ~(Live(other) /\ rows[other].name = n)
      BY <1>3 DEF SaveForm, NameIsFree
    <3>6. QED
      BY <2>1, <3>2, <3>3, <3>4, <3>5 DEF NamesUnique, UserEditsSurvive, FormIsCurrent, Live
  <2>4. QED
    BY <2>2, <2>3
<1>4. CASE DeleteLocal
  <2> DEFINE id == deleter.id
  <2>1. /\ rows'[id] = [NoRow EXCEPT !.life = "gone"] /\ saved'[id] = UserColumns(NoRow)
        /\ \A other \in Ids \ {id} : rows'[other] = rows[other] /\ saved'[other] = saved[other]
        /\ form' = form /\ id \in Ids
    BY <1>4 DEF DeleteLocal, DeleterWellFormed, Types
  <2>2. UserColumns(rows'[id]) = UserColumns(NoRow) /\ rows'[id].life = "gone"
    BY <2>1 DEF UserColumns, NoRow
  <2>5. NamesUnique'
    <3>1. rows'[id].life # "live"
      BY <2>2
    <3>2. ASSUME NEW a \in Ids, NEW b \in Ids, a # b,
                 rows'[a].life = "live", rows'[b].life = "live"
          PROVE  rows'[a].name # rows'[b].name
      <4>1. a # id /\ b # id
        BY <3>1, <3>2
      <4>2. rows'[a] = rows[a] /\ rows'[b] = rows[b]
        BY <2>1, <4>1
      <4>3. QED
        BY <3>2, <4>2 DEF NamesUnique, Live
    <3>3. QED
      BY <3>2 DEF NamesUnique, Live
  <2>3. UserEditsSurvive'
    <3>1. saved'[id] = UserColumns(rows'[id])
      BY <2>1, <2>2
    <3>2. QED
      BY <2>1, <3>1 DEF UserEditsSurvive
  <2>4. FormIsCurrent'
    BY <2>1, <2>2 DEF FormIsCurrent, Live
  <2>6. QED
    BY <2>3, <2>4, <2>5
<1>5. QED
  BY <1>1, <1>2, <1>3, <1>4

-----------------------------------------------------------------------------
\* What the user and the queue do between two syncs: a row that changes is one
\* that a later sync will load.
Resaved(id) ==
  /\ Unsynced(id)' /\ QueueAccounted(id)'
  /\ rows[id].life # "gone" /\ rows'[id].life = "live"
  /\ rows'[id].name \in Names
  /\ rows'[id].remote = rows[id].remote
  /\ rows'[id].status \in {rows[id].status, "pending"}
Quiet ==
  /\ UNCHANGED <<qb, boot, deleter, contended, displaced, faults>>
  /\ \A w \in Runners :
       \/ job'[w] = job[w]
       \/ /\ w \in Workers /\ job[w] = NoJob
          /\ \E id \in Ids : job'[w] = [NoJob EXCEPT !.pc = "load", !.id = id]
  /\ \A id \in Ids : /\ Unsynced(id) => Unsynced(id)'
                     /\ QueueAccounted(id) => QueueAccounted(id)'
                     /\ rows'[id] = rows[id] \/ Resaved(id)

LEMMA QuietStep ==
  ASSUME Types, WellFormed, SyncInv, Quiet
  PROVE  WellFormed' /\ SyncInv'
<1> USE RuleSyncAssumption DEF RuleSyncAssumption
<1>1. \A w \in Runners : /\ Active(w) => job'[w] = job[w]
                         /\ Active(w)' <=> Active(w)
  <2>1. SUFFICES ASSUME NEW w \in Runners
                 PROVE  (Active(w) => job'[w] = job[w]) /\ (Active(w)' <=> Active(w))
    OBVIOUS
  <2>2. CASE job'[w] = job[w]
    BY <2>2 DEF Active
  <2>3. CASE job'[w] # job[w]
    <3>1. job[w] = NoJob /\ \E id \in Ids : job'[w] = [NoJob EXCEPT !.pc = "load", !.id = id]
      BY <2>3 DEF Quiet
    <3>2. job[w].pc = "idle" /\ job'[w].pc = "load"
      BY <3>1 DEF NoJob
    <3>3. QED
      BY <3>2 DEF Active
  <2>4. QED
    BY <2>2, <2>3
<1>2. \A w \in Runners, id \in Ids : WorksOn(w, id)' <=> WorksOn(w, id)
  BY <1>1 DEF WorksOn
<1>3. \A id \in Ids : /\ InBoot(id)' <=> InBoot(id)
                      /\ InDelete(id)' <=> InDelete(id)
                      /\ rows'[id] # rows[id] => Resaved(id)
                      /\ ~Unsynced(id)' => ~Unsynced(id) /\ rows'[id] = rows[id]
  BY DEF Quiet, InBoot, InDelete, Resaved
<1>4. job'[Boot] = job[Boot] /\ Boot \in Runners
  BY DEF Quiet, Runners
<1>5. \A w \in Runners : JobWellFormed(w)'
  <2>1. SUFFICES ASSUME NEW w \in Runners PROVE JobWellFormed(w)'
    OBVIOUS
  <2>2. CASE job'[w] = job[w]
    BY <1>1, <2>2 DEF WellFormed, JobsWellFormed, JobWellFormed, Quiet
  <2>3. CASE job'[w] # job[w]
    <3>1. PICK id \in Ids : job'[w] = [NoJob EXCEPT !.pc = "load", !.id = id]
      BY <2>3 DEF Quiet
    <3>2. job'[w].pc = "load" /\ job'[w].id = id /\ job'[w].outcome = "ok"
      BY <3>1 DEF NoJob
    <3>3. QED
      BY <3>2 DEF Active, JobWellFormed
  <2>4. QED
    BY <2>2, <2>3
<1>6. BootWellFormed' /\ RowsWellFormed'
  <2>1. BootWellFormed'
    BY <1>4 DEF WellFormed, BootWellFormed, Quiet
  <2>2. ASSUME NEW id \in Ids
        PROVE  (Live(id)' => rows'[id].name \in Names)
                 /\ (~Live(id)' => rows'[id].remote = NoName)
    BY <1>3 DEF WellFormed, RowsWellFormed, Resaved, Live
  <2>3. QED
    BY <2>1, <2>2 DEF RowsWellFormed
<1>7. DeleterWellFormed'
  <2>1. \A id \in Ids : Live(id) => Live(id)'
    BY <1>3 DEF Live, Resaved
  <2>2. QED
    BY <2>1 DEF WellFormed, DeleterWellFormed, Quiet, Live
<1>8. ASSUME NEW id \in Ids PROVE Accounted(id)'
  <2>1. BootAccounted(id) => BootAccounted(id)'
    BY <1>2, <1>3, <1>4 DEF BootAccounted, Quiet
  <2>2. CASE rows'[id] = rows[id]
    BY <2>1, <2>2 DEF SyncInv, UnsettledAccounted, Accounted, Quiet, Live
  <2>3. CASE rows'[id] # rows[id]
    BY <1>3, <2>3 DEF Resaved, Accounted
  <2>4. QED
    BY <2>2, <2>3
<1>9. ASSUME NEW id \in Ids \ contended PROVE OneSession(id)'
  BY <1>2, <1>3 DEF SyncInv, OneAtATime, OneSession
<1>10. ASSUME NEW id \in Ids \ contended PROVE IsCurrent(id)'
  <2>1. ASSUME NEW w \in Runners, WorksOn(w, id)' PROVE JobIsCurrent(w, id)'
    <3>1. job'[w] = job[w] /\ JobIsCurrent(w, id)
      BY <1>1, <1>2, <2>1 DEF SyncInv, SessionsCurrent, IsCurrent, WorksOn
    <3>2. QED
      BY <1>3, <3>1 DEF JobIsCurrent, Live, Resaved
  <2>2. ASSUME InBoot(id)' PROVE BootIsCurrent(id)'
    <3>1. boot' = boot /\ BootIsCurrent(id)
      BY <1>3, <2>2 DEF SyncInv, SessionsCurrent, IsCurrent, Quiet
    <3>2. QED
      BY <1>3, <3>1 DEF BootIsCurrent, Live, Resaved
  <2>3. ASSUME InDelete(id)' PROVE DeleterIsCurrent(id)'
    <3>1. deleter' = deleter /\ DeleterIsCurrent(id)
      BY <1>3, <2>3 DEF SyncInv, SessionsCurrent, IsCurrent, Quiet
    <3>2. QED
      BY <1>3, <3>1 DEF DeleterIsCurrent, Resaved
  <2>4. QED
    BY <2>1, <2>2, <2>3 DEF IsCurrent
<1>11. ASSUME NEW id \in Ids \ (contended \cup displaced) PROVE PublishedIfOk(id)'
  <2>1. CASE Unsynced(id)'
    BY <2>1 DEF PublishedIfOk
  <2>2. CASE ~Unsynced(id)'
    <3>1. rows'[id] = rows[id] /\ ~Unsynced(id) /\ qb' = qb
      BY <1>3, <2>2 DEF Quiet
    <3>2. (Recording(id)' => Recording(id)) /\ (Unhealed(id)' <=> Unhealed(id))
      BY <1>1, <1>2, <1>3, <1>4 DEF Recording, Unhealed, WorksOn, Quiet
    <3>3. QED
      BY <1>3, <2>2, <3>1, <3>2
      DEF SyncInv, PublishedOrPending, PublishedIfOk, Live, Published, Payload
  <2>3. QED
    BY <2>1, <2>2
<1>12. ASSUME faults' = 0, NEW id \in Ids \ contended PROVE CopiesTracked(id)'
  <2>1. /\ faults = 0 /\ Copies(id)' = Copies(id) /\ CopiesTracked(id)
        /\ deleter' = deleter /\ rows'[id].remote = rows[id].remote
    BY <1>3, <1>12 DEF Quiet, Copies, Resaved, SyncInv, WithdrawnOrPending
  <2>2. ASSUME NEW w \in Runners, WorksOn(w, id)' PROVE CopiesDuring(w, id)'
    <3>1. job'[w] = job[w] /\ CopiesDuring(w, id)
      BY <1>1, <1>2, <2>1, <2>2 DEF CopiesTracked, WorksOn
    <3>2. QED
      BY <2>1, <3>1 DEF CopiesDuring
  <2>3. QED
    BY <1>2, <1>3, <2>1, <2>2 DEF CopiesTracked, Live
<1>13. QED
  BY <1>5, <1>6, <1>7, <1>8, <1>9, <1>10, <1>11, <1>12
  DEF WellFormed, JobsWellFormed, SyncInv, UnsettledAccounted, OneAtATime, SessionsCurrent,
      PublishedOrPending, WithdrawnOrPending, Quiet

\* The steps that are quiet: the requests of the user, ...
LEMMA RequestsAreQuiet ==
  ASSUME Types, WellFormed, FormIsCurrent,
         \/ \E id \in Ids, n \in Names : CreateRule(id, n)
         \/ \E n \in Names, on \in BOOLEAN : SaveForm(n, on)
         \/ \E ids \in SUBSET Ids : RequestSync(ids)
         \/ RecoveryRequeues
  PROVE  Quiet
<1>1. /\ UNCHANGED <<qb, pending, job, boot, deleter, contended, displaced, faults>>
      /\ owed \subseteq owed'
  BY DEF CreateRule, SaveForm, RequestSync, RecoveryRequeues
<1>2. ASSUME NEW id \in Ids, rows'[id] # rows[id]
      PROVE  /\ id \in owed' /\ rows[id].life # "gone" /\ rows'[id].life = "live"
             /\ rows'[id].name \in Names /\ rows'[id].remote = rows[id].remote
             /\ rows'[id].status \in {rows[id].status, "pending"}
  <2>1. rows[id] \in Row /\ rows \in [Ids -> Row]
    BY DEF Types
  <2>2. ASSUME NEW i \in Ids, NEW n \in Names, CreateRule(i, n)
        PROVE  /\ id \in owed' /\ rows[id].life # "gone" /\ rows'[id].life = "live"
               /\ rows'[id].name \in Names /\ rows'[id].remote = rows[id].remote
               /\ rows'[id].status \in {rows[id].status, "pending"}
    <3>1. i = id /\ rows[id].life = "unborn"
      BY <1>2, <2>1, <2>2 DEF CreateRule
    <3>2. rows[id].remote = NoName
      BY <3>1 DEF WellFormed, RowsWellFormed, Live
    <3>3. rows'[id] = [NoRow EXCEPT !.life = "live", !.name = n, !.enabled = TRUE,
                                    !.content = actions + 1]
      BY <2>1, <2>2, <3>1 DEF CreateRule
    <3>4. /\ rows'[id].life = "live" /\ rows'[id].name = n /\ rows'[id].remote = NoName
          /\ rows'[id].status = "pending"
      BY <3>3 DEF NoRow
    <3>5. QED
      BY <2>2, <3>1, <3>2, <3>4 DEF CreateRule
  <2>3. ASSUME NEW n \in Names, NEW on \in BOOLEAN, SaveForm(n, on)
        PROVE  /\ id \in owed' /\ rows[id].life # "gone" /\ rows'[id].life = "live"
               /\ rows'[id].name \in Names /\ rows'[id].remote = rows[id].remote
               /\ rows'[id].status \in {rows[id].status, "pending"}
    <3>1. Live(form.id) /\ form.id = id
      BY <1>2, <2>1, <2>3 DEF SaveForm
    <3>2. rows'[id] = SavedRow(rows[id], form.row, n, on, actions) /\ id \in owed'
      BY <2>1, <2>3, <3>1 DEF SaveForm
    <3>3. rows[id].name \in Names
      BY <3>1 DEF WellFormed, RowsWellFormed
    <3>4. QED
      BY <2>1, <3>1, <3>2, <3>3 DEF SavedRow, Written, Row, Live
  <2>4. ASSUME NEW ids \in SUBSET Ids, \A i \in ids : Live(i), id \in owed',
               rows'[id] = [rows[id] EXCEPT !.status = "pending"], id \in ids
        PROVE  /\ id \in owed' /\ rows[id].life # "gone" /\ rows'[id].life = "live"
               /\ rows'[id].name \in Names /\ rows'[id].remote = rows[id].remote
               /\ rows'[id].status \in {rows[id].status, "pending"}
    BY <2>1, <2>4 DEF Row, Live, WellFormed, RowsWellFormed
  <2>5. ASSUME NEW ids \in SUBSET Ids, RequestSync(ids)
        PROVE  (\A i \in ids : Live(i)) /\ id \in owed' /\ id \in ids
               /\ rows'[id] = [rows[id] EXCEPT !.status = "pending"]
    BY <1>2, <2>5 DEF RequestSync
  <2>6. CASE RecoveryRequeues
    <3>1. (\A i \in recovering : Live(i)) /\ id \in owed' /\ id \in recovering
          /\ rows'[id] = [rows[id] EXCEPT !.status = "pending"]
      BY <1>2, <2>6 DEF RecoveryRequeues
    <3>2. recovering \in SUBSET Ids
      BY DEF Types
    <3>3. QED
      BY <2>4, <3>1, <3>2
  <2>7. QED
    BY <2>2, <2>3, <2>4, <2>5, <2>6
<1>3. \A id \in Ids : /\ Unsynced(id) => Unsynced(id)'
                      /\ QueueAccounted(id) => QueueAccounted(id)'
                      /\ id \in owed' => Unsynced(id)' /\ QueueAccounted(id)'
  BY <1>1 DEF Unsynced, QueueAccounted
<1>4. \A id \in Ids : rows'[id] # rows[id] => Resaved(id)
  BY <1>2, <1>3 DEF Resaved
<1>5. QED
  BY <1>1, <1>3, <1>4 DEF Quiet

\* ... and what moves only forms, queue entries and candidates.
LEMMA MovesAreQuiet ==
  ASSUME Types,
         \/ \E id \in Ids : OpenForm(id)
         \/ RejectForm
         \/ \E id \in Ids : EnqueueRuleSync(id)
         \/ \E w \in Workers, id \in Ids : Dispatch(w, id)
         \/ RecoveryScans \/ RecoveryGivesUp
         \/ UNCHANGED vars
  PROVE  Quiet
<1>1. ASSUME UNCHANGED <<rows, qb, boot, deleter, contended, displaced, faults, job>>,
             owed' \cup pending' = owed \cup pending
      PROVE  Quiet
  <2>1. \A id \in Ids : /\ Unsynced(id) <=> Unsynced(id)'
                        /\ QueueAccounted(id) <=> QueueAccounted(id)'
    BY <1>1 DEF Unsynced, QueueAccounted
  <2>2. QED
    BY <1>1, <2>1 DEF Quiet
<1>2. ASSUME NEW w \in Workers, NEW i \in Ids, Dispatch(w, i)
      PROVE  Quiet
  <2>1. /\ UNCHANGED <<rows, qb, boot, deleter, contended, displaced, faults, owed>>
        /\ job[w] = NoJob /\ pending' = pending \ {i}
        /\ job'[w] = [NoJob EXCEPT !.pc = "load", !.id = i]
        /\ \A v \in Runners \ {w} : job'[v] = job[v]
    BY <1>2 DEF Dispatch, Types, Runners
  <2>2. job[w].pc = "idle" /\ job'[w].pc = "load" /\ job'[w].id = i
    BY <2>1 DEF NoJob
  <2>3. \A v \in Workers \ {w} : job'[v] = job[v]
    BY <2>1 DEF Runners
  <2>4. ASSUME NEW id \in Ids
        PROVE  /\ Unsynced(id) => Unsynced(id)'
               /\ QueueAccounted(id) => QueueAccounted(id)'
    BY <2>1, <2>2, <2>3 DEF Unsynced, QueueAccounted
  <2>5. QED
    BY <2>1, <2>4 DEF Quiet
<1>3. QED
  BY <1>1, <1>2
  DEF OpenForm, RejectForm, EnqueueRuleSync, RecoveryScans, RecoveryGivesUp, vars

-----------------------------------------------------------------------------
\* A step of one session leaves the rules it is not about alone: what it writes
\* to qB under the name of another rule makes that rule "displaced".
Unaffected(i) ==
  /\ rows'[i] = rows[i]
  /\ Unsynced(i)' <=> Unsynced(i)
  /\ QueueAccounted(i) => QueueAccounted(i)'
  /\ \A v \in Runners : /\ WorksOn(v, i)' <=> WorksOn(v, i)
                        /\ WorksOn(v, i) => job'[v] = job[v]
  /\ InBoot(i)' => InBoot(i) /\ boot'.rows[i] = boot.rows[i]
  /\ InBoot(i) => (InBoot(i)' /\ boot'.rows[i] = boot.rows[i]) \/ boot'.pc = "aborted"
  /\ InDelete(i)' <=> InDelete(i)
  /\ InDelete(i) => deleter' = deleter
  /\ boot.pc \in {"load", "aborted"} => boot'.pc \in {"load", "aborted"}
  /\ faults' \in {faults, faults + 1}
  /\ Live(i) /\ i \notin displaced' => qb'[rows[i].name] = qb[rows[i].name]
  /\ Copies(i)' \subseteq Copies(i)

\* What the invariant says of one rule.
RuleInv(id) ==
  /\ Accounted(id)
  /\ id \notin contended => OneSession(id) /\ IsCurrent(id)
  /\ id \notin contended \cup displaced => PublishedIfOk(id)
  /\ id \notin contended /\ faults = 0 => CopiesTracked(id)

LEMMA RuleByRule ==
  /\ SyncInv <=> \A id \in Ids : RuleInv(id)
  /\ SyncInv' <=> \A id \in Ids : RuleInv(id)'
BY DEF SyncInv, UnsettledAccounted, OneAtATime, SessionsCurrent, PublishedOrPending,
       WithdrawnOrPending, RuleInv

LEMMA OthersUnaffected ==
  ASSUME Types, NEW i \in Ids, RuleInv(i), Unaffected(i),
         contended \subseteq contended', displaced \subseteq displaced'
  PROVE  RuleInv(i)'
<1> USE DEF RuleInv
<1>1. Boot \in Runners /\ faults \in Nat
  BY DEF Runners, Types
<1>2. Live(i)' <=> Live(i)
  BY DEF Unaffected, Live
<1>3. Accounted(i)'
  <2>1. BootAccounted(i) => BootAccounted(i)'
    BY <1>1 DEF Unaffected, BootAccounted
  <2>2. QED
    BY <1>1, <1>2, <2>1 DEF Unaffected, Accounted
<1>4. ASSUME i \notin contended' PROVE OneSession(i)'
  BY <1>4 DEF Unaffected, OneSession
<1>5. ASSUME i \notin contended' PROVE IsCurrent(i)'
  <2>1. IsCurrent(i)
    BY <1>5
  <2>2. ASSUME NEW w \in Runners, WorksOn(w, i)' PROVE JobIsCurrent(w, i)'
    BY <1>2, <2>1, <2>2 DEF IsCurrent, JobIsCurrent, Unaffected
  <2>3. ASSUME InBoot(i)' PROVE BootIsCurrent(i)'
    BY <1>2, <2>1, <2>3 DEF IsCurrent, BootIsCurrent, Unaffected
  <2>4. ASSUME InDelete(i)' PROVE DeleterIsCurrent(i)'
    BY <2>1, <2>4 DEF IsCurrent, DeleterIsCurrent, Unaffected
  <2>5. QED
    BY <2>2, <2>3, <2>4 DEF IsCurrent
<1>6. ASSUME i \notin contended' \cup displaced' PROVE PublishedIfOk(i)'
  <2>1. PublishedIfOk(i)
    BY <1>6
  <2>2. Live(i) => (Published(i)' <=> Published(i))
    BY <1>6 DEF Unaffected, Published, Payload
  <2>3. Recording(i)' => Recording(i)
    BY DEF Unaffected, Recording, WorksOn
  <2>4. Unhealed(i) => Unhealed(i)'
    BY <1>1 DEF Unaffected, Unhealed
  <2>5. QED
    BY <1>2, <2>1, <2>2, <2>3, <2>4 DEF PublishedIfOk, Unaffected
<1>7. ASSUME i \notin contended', faults' = 0 PROVE CopiesTracked(i)'
  <2>1. faults = 0 /\ CopiesTracked(i)
    BY <1>1, <1>7 DEF Unaffected
  <2>2. ASSUME NEW w \in Runners, WorksOn(w, i)' PROVE CopiesDuring(w, i)'
    <3>1. CopiesDuring(w, i) /\ job'[w] = job[w]
      BY <2>1, <2>2 DEF CopiesTracked, Unaffected
    <3>2. QED
      BY <3>1 DEF CopiesDuring, Unaffected
  <2>3. QED
    BY <1>2, <2>1, <2>2 DEF CopiesTracked, Unaffected
<1>8. QED
  BY <1>3, <1>4, <1>5, <1>6, <1>7

\* So a step is checked on the one rule it is about.
LEMMA OneRule ==
  ASSUME Types, SyncInv, NEW id \in Ids, \A i \in Ids \ {id} : Unaffected(i),
         contended \subseteq contended', displaced \subseteq displaced', RuleInv(id)'
  PROVE  SyncInv'
<1>1. \A i \in Ids \ {id} : RuleInv(i)'
  BY OthersUnaffected, RuleByRule
<1>2. QED
  BY <1>1, RuleByRule

LEMMA NoRule ==
  ASSUME Types, SyncInv, \A i \in Ids : Unaffected(i),
         contended \subseteq contended', displaced \subseteq displaced'
  PROVE  SyncInv'
BY OthersUnaffected, RuleByRule

\* What keeps the shape of rows, deletions and the jobs of the other runners.
LEMMA ShapesKept ==
  ASSUME Types, WellFormed, faults' \in {faults, faults + 1},
         \A id \in Ids : /\ rows'[id].life = rows[id].life
                         /\ rows'[id].name = rows[id].name
                         /\ ~Live(id) => rows'[id].remote = rows[id].remote
  PROVE  /\ RowsWellFormed'
         /\ deleter' = deleter => DeleterWellFormed'
         /\ \A v \in Runners : job'[v] = job[v] => JobWellFormed(v)'
<1>1. faults' = 0 => faults = 0
  BY DEF Types
<1>2. RowsWellFormed'
  BY DEF WellFormed, RowsWellFormed, Live
<1>3. deleter' = deleter => DeleterWellFormed'
  BY <1>1 DEF WellFormed, DeleterWellFormed, Live
<1>4. ASSUME NEW v \in Runners, job'[v] = job[v] PROVE JobWellFormed(v)'
  BY <1>1, <1>4 DEF WellFormed, JobsWellFormed, JobWellFormed, Active
<1>5. QED
  BY <1>2, <1>3, <1>4

\* _process_rule_sync loads the row and marks it.
LEMMA LoadRuleStep ==
  ASSUME Types, WellFormed, SyncInv, NEW w \in Workers, LoadRule(w)
  PROVE  WellFormed' /\ SyncInv'
<1> USE RuleSyncAssumption DEF RuleSyncAssumption
<1>1. PICK id \in Ids :
        /\ id = job[w].id /\ w \in Runners /\ w # Boot /\ job[w].pc = "load"
        /\ JobWellFormed(w) /\ job[w].outcome = "ok" /\ job[w] \in Jobs
        /\ rows[id] \in Row
  BY DEF LoadRule, WellFormed, JobsWellFormed, JobWellFormed, Runners, Types
<1> DEFINE marked == [rows[id] EXCEPT !.status = "syncing"]
<1>2. UNCHANGED <<qb, owed, pending, boot, deleter, displaced, faults>>
      /\ contended \subseteq contended'
      /\ \A v \in Runners \ {w} : job'[v] = job[v]
  BY DEF LoadRule, Types
<1>3. ~Active(w)
  BY <1>1 DEF Active
<1>4. CASE Live(id)
  <2>1. /\ rows'[id] = marked /\ \A i \in Ids \ {id} : rows'[i] = rows[i]
        /\ job'[w] = [job[w] EXCEPT !.row = marked, !.pc = FirstStep(marked)]
        /\ contended' = contended \cup {i \in {id} : HeldByOthers(w, i)}
    BY <1>1, <1>4 DEF LoadRule, Types
  <2>2. /\ marked \in Row /\ marked.life = rows[id].life /\ marked.status = "syncing"
        /\ marked.remote = rows[id].remote /\ marked.name = rows[id].name
        /\ marked.name \in Names
    BY <1>1, <1>4 DEF Row, Statuses, WellFormed, RowsWellFormed
  <2>3. /\ job'[w].row = marked /\ job'[w].id = id /\ job'[w].outcome = "ok"
        /\ job'[w].pc = IF marked.enabled THEN "category" ELSE "lookup"
    BY <1>1, <2>1 DEF Jobs, FirstStep
  <2> HIDE DEF marked
  <2>4. WorksOn(w, id)' /\ \A i \in Ids \ {id} : ~WorksOn(w, i)' /\ ~WorksOn(w, i)
    BY <1>3, <2>3 DEF WorksOn, Active
  <2>5. \A v \in Runners \ {w}, i \in Ids : WorksOn(v, i)' <=> WorksOn(v, i)
    BY <1>2 DEF WorksOn, Active
  <2>6. \A i \in Ids \ {id} : Unsynced(i)' <=> Unsynced(i)
    BY <1>1, <1>2, <2>3 DEF Unsynced, Runners
  <2>7. \A i \in Ids \ {id} : QueueAccounted(i) => QueueAccounted(i)'
    BY <1>1, <1>2, <2>3 DEF QueueAccounted, Runners
  <2>8. \A i \in Ids \ {id} : Unaffected(i)
    BY <1>2, <2>1, <2>4, <2>5, <2>6, <2>7
    DEF Unaffected, InBoot, InDelete, Copies
  <2>10. RuleInv(id)'
    <3>1. Accounted(id)'
      BY <2>3 DEF Accounted, QueueAccounted
    <3>2. SUFFICES ASSUME id \notin contended'
                   PROVE  /\ OneSession(id)' /\ IsCurrent(id)' /\ PublishedIfOk(id)'
                          /\ faults = 0 => CopiesTracked(id)'
      BY <1>2, <3>1 DEF RuleInv
    <3>3. ~HeldByOthers(w, id) /\ id \notin contended
      BY <2>1, <3>2
    <3>4. (\A v \in Runners : ~WorksOn(v, id)) /\ ~InBoot(id) /\ ~InDelete(id)
      BY <1>1, <1>3, <3>3 DEF HeldByOthers, WorksOn, Active, InBoot, InDelete
    <3>5. ~InBoot(id)' /\ ~InDelete(id)'
      BY <1>2, <3>4 DEF InBoot, InDelete
    <3>6. \A v \in Runners : WorksOn(v, id)' => v = w
      BY <2>5, <3>4
    <3>7. OneSession(id)'
      BY <3>5, <3>6 DEF OneSession
    <3>8. JobIsCurrent(w, id)'
      BY <1>1, <1>4, <2>1, <2>2, <2>3 DEF JobIsCurrent, Live
    <3>9. IsCurrent(id)'
      BY <3>5, <3>6, <3>8 DEF IsCurrent
    <3>10. PublishedIfOk(id)'
      BY <2>1, <2>2, <2>3, <3>6 DEF PublishedIfOk, Recording
    <3>11. ASSUME faults = 0 PROVE CopiesTracked(id)'
      <4>1. Copies(id)' \subseteq {rows'[id].remote}
        BY <1>2, <2>1, <2>2, <3>3, <3>4, <3>11, RuleByRule DEF RuleInv, CopiesTracked, Copies
      <4>2. CopiesDuring(w, id)'
        BY <2>3, <4>1 DEF CopiesDuring
      <4>3. QED
        BY <2>1, <2>2, <3>5, <3>6, <4>1, <4>2 DEF CopiesTracked
    <3>12. QED
      BY <3>7, <3>9, <3>10, <3>11
  <2>11. JobWellFormed(w)'
    BY <2>2, <2>3 DEF JobWellFormed, Active
  <2>12. WellFormed'
    <3>1. /\ RowsWellFormed' /\ DeleterWellFormed'
          /\ \A v \in Runners \ {w} : JobWellFormed(v)'
      BY <1>2, <2>1, <2>2, ShapesKept
    <3>2. BootWellFormed'
      BY <1>1, <1>2, RuleSyncAssumption DEF WellFormed, BootWellFormed, Runners
    <3>3. QED
      BY <2>11, <3>1, <3>2 DEF WellFormed, JobsWellFormed
  <2>13. QED
    BY <1>2, <2>8, <2>10, <2>12, OneRule
<1>5. CASE ~Live(id)
  <2>1. job'[w] = NoJob /\ UNCHANGED <<rows, contended>>
    BY <1>1, <1>5 DEF LoadRule, Types
  <2>2. job'[w].pc = "idle" /\ ~Active(w)'
    BY <2>1 DEF NoJob, Active
  <2>3. \A v \in Runners, i \in Ids : /\ WorksOn(v, i)' <=> WorksOn(v, i)
                                      /\ WorksOn(v, i) => job'[v] = job[v]
    BY <1>2, <1>3, <2>2 DEF WorksOn, Active
  <2>4. \A i \in Ids \ {id} : /\ Unsynced(i)' <=> Unsynced(i)
                              /\ QueueAccounted(i) => QueueAccounted(i)'
    BY <1>1, <1>2, <2>2 DEF Unsynced, QueueAccounted, Runners
  <2>5. \A i \in Ids \ {id} : Unaffected(i)
    BY <1>2, <2>1, <2>3, <2>4 DEF Unaffected, InBoot, InDelete, Copies
  <2>7. RuleInv(id)'
    <3>1. RuleInv(id) /\ ~Live(id)' /\ ~InDelete(id)
      BY <1>1, <1>5, <2>1, RuleByRule DEF Live, InDelete, WellFormed, DeleterWellFormed
    <3>2. (InBoot(id)' <=> InBoot(id)) /\ ~InDelete(id)' /\ Copies(id)' = Copies(id)
      BY <1>2, <3>1 DEF InBoot, InDelete, Copies
    <3>3. Accounted(id)' /\ PublishedIfOk(id)'
      BY <3>1 DEF Accounted, PublishedIfOk
    <3>4. ASSUME id \notin contended' PROVE OneSession(id)' /\ IsCurrent(id)'
      <4>1. OneSession(id) /\ IsCurrent(id)
        BY <2>1, <3>1, <3>4 DEF RuleInv
      <4>2. ~InBoot(id) /\ \A v \in Runners : ~WorksOn(v, id)
        BY <1>5, <4>1 DEF IsCurrent, JobIsCurrent, BootIsCurrent
      <4>3. QED
        BY <2>3, <3>2, <4>2 DEF OneSession, IsCurrent
    <3>5. ASSUME id \notin contended', faults' = 0 PROVE CopiesTracked(id)'
      <4>1. CopiesTracked(id) /\ IsCurrent(id)
        BY <1>2, <2>1, <3>1, <3>5 DEF RuleInv
      <4>2. \A v \in Runners : ~WorksOn(v, id)
        BY <1>5, <4>1 DEF IsCurrent, JobIsCurrent
      <4>3. QED
        BY <2>1, <2>3, <3>1, <3>2, <4>1, <4>2 DEF CopiesTracked
    <3>6. QED
      BY <3>3, <3>4, <3>5 DEF RuleInv
  <2>8. JobWellFormed(w)'
    BY <2>1 DEF NoJob, JobWellFormed, Active
  <2>9. WellFormed'
    <3>1. /\ RowsWellFormed' /\ DeleterWellFormed'
          /\ \A v \in Runners \ {w} : JobWellFormed(v)'
      BY <1>2, <2>1, ShapesKept
    <3>2. BootWellFormed'
      BY <1>1, <1>2 DEF WellFormed, BootWellFormed, Runners
    <3>3. QED
      BY <2>8, <3>1, <3>2 DEF WellFormed, JobsWellFormed
  <2>10. QED
    BY <1>2, <2>1, <2>5, <2>7, <2>9, OneRule
<1>6. QED
  BY <1>4, <1>5

-----------------------------------------------------------------------------
\* A runner that goes on with its rule, or puts it down, touches no other rule.
LEMMA JobStep ==
  ASSUME Types, NEW w \in Runners, NEW id \in Ids, WorksOn(w, id),
         \A v \in Runners \ {w} : job'[v] = job[v],
         WorksOn(w, id)' \/ job'[w].pc = "idle",
         \A i \in Ids \ {id} : rows'[i] = rows[i],
         UNCHANGED <<owed, pending, deleter>>,
         boot' = boot \/ boot'.pc = "aborted",
         faults' \in {faults, faults + 1},
         \A i \in Ids \ {id} : /\ Live(i) /\ i \notin displaced'
                                    => qb'[rows[i].name] = qb[rows[i].name]
                               /\ Copies(i)' \subseteq Copies(i)
  PROVE  /\ \A i \in Ids \ {id} : Unaffected(i)
         /\ \A i \in Ids : Unsynced(i)' <=> Unsynced(i)
         /\ \A v \in Runners \ {w}, i \in Ids : WorksOn(v, i)' <=> WorksOn(v, i)
<1> USE RuleSyncAssumption DEF RuleSyncAssumption
<1>1. job[w].id = id /\ job[w].pc \notin {"idle", "load"} /\ job'[w].pc # "load"
  BY DEF WorksOn, Active
<1>2. \A v \in Workers : v \in Runners /\ (v # w => job'[v] = job[v])
  BY DEF Runners
<1>3. \A i \in Ids : Unsynced(i)' <=> Unsynced(i)
  BY <1>1, <1>2 DEF Unsynced
<1>4. \A v \in Runners \ {w}, i \in Ids : WorksOn(v, i)' <=> WorksOn(v, i)
  BY DEF WorksOn, Active
<1>5. ASSUME NEW i \in Ids \ {id} PROVE Unaffected(i)
  <2>1. ~WorksOn(w, i) /\ ~WorksOn(w, i)'
    BY <1>1, <1>5 DEF WorksOn, Active
  <2>2. \A v \in Runners : /\ WorksOn(v, i)' <=> WorksOn(v, i)
                           /\ WorksOn(v, i) => job'[v] = job[v]
    BY <1>4, <2>1
  <2>3. QueueAccounted(i) => QueueAccounted(i)'
    BY <1>1, <1>2, <1>5 DEF QueueAccounted
  <2>4. /\ InBoot(i)' => InBoot(i) /\ boot'.rows[i] = boot.rows[i]
        /\ InBoot(i) => (InBoot(i)' /\ boot'.rows[i] = boot.rows[i]) \/ boot'.pc = "aborted"
        /\ boot.pc \in {"load", "aborted"} => boot'.pc \in {"load", "aborted"}
    BY DEF InBoot
  <2>5. InDelete(i)' <=> InDelete(i)
    BY DEF InDelete
  <2>6. QED
    BY <1>3, <1>5, <2>2, <2>3, <2>4, <2>5 DEF Unaffected
<1>6. QED
  BY <1>3, <1>4, <1>5

\* What a write to qB does: to the name it names, to the copies of other rules,
\* and to the copies of the rule it is made for.
LEMMA RemoteWrites ==
  ASSUME Types, RowsWellFormed, NEW id \in Ids, NEW name \in Names \cup {NoName},
         NEW payload \in Payloads, payload.rule \in {id, NoId}, NEW reply,
         WriteRemote(id, name, payload, reply)
  PROVE  /\ displaced \subseteq displaced'
         /\ \A i \in Ids \ {id} : /\ Live(i) /\ i \notin displaced'
                                       => qb'[rows[i].name] = qb[rows[i].name]
                                  /\ Copies(i)' \subseteq Copies(i)
         /\ \A n \in Names : n # name => qb'[n] = qb[n]
         /\ name # NoName /\ reply = "answered" => qb'[name] = payload
         /\ name = NoName => qb' = qb
<1> USE RuleSyncAssumption DEF RuleSyncAssumption
<1>1. CASE name # NoName /\ TakesEffect(reply)
  <2>1. /\ \A n \in Names : qb'[n] = IF n = name THEN payload ELSE qb[n]
        /\ displaced' = displaced \cup
                          {other \in Ids \ {id} : Live(other) /\ rows[other].name = name}
    BY <1>1 DEF WriteRemote, Types
  <2>2. \A i \in Ids \ {id} : Copies(i)' \subseteq Copies(i)
    BY <2>1 DEF Copies
  <2>3. \A i \in Ids : Live(i) => rows[i].name \in Names
    BY DEF RowsWellFormed
  <2>4. QED
    BY <1>1, <2>1, <2>2, <2>3
<1>2. CASE ~(name # NoName /\ TakesEffect(reply))
  BY <1>2 DEF WriteRemote, TakesEffect, Copies
<1>3. QED
  BY <1>1, <1>2

LEMMA FaultCounts ==
  ASSUME Types, NEW reply, Fault(reply)
  PROVE  /\ faults' \in {faults, faults + 1}
         /\ faults' = 0 => faults = 0 /\ reply = "answered"
         /\ faults > 0 => faults' > 0
BY DEF Fault, Types

\* A call to qB moves one job on.  What the call must do to its own rule is in
\* the last four hypotheses.
LEMMA CallStep ==
  ASSUME Types, WellFormed, SyncInv, NEW w \in Runners, NEW id \in Ids, WorksOn(w, id),
         NEW reply \in Replies, Fault(reply),
         UNCHANGED <<rows, owed, pending, boot, deleter, contended>>,
         \A v \in Runners \ {w} : job'[v] = job[v],
         WorksOn(w, id)', job'[w].row = job[w].row,
         displaced \subseteq displaced',
         \A i \in Ids \ {id} : /\ Live(i) /\ i \notin displaced'
                                    => qb'[rows[i].name] = qb[rows[i].name]
                               /\ Copies(i)' \subseteq Copies(i),
         JobWellFormed(w)',
         LET row == job[w].row
         IN /\ job'[w].pc = "record" /\ job'[w].outcome = "ok" /\ row.enabled
                 => qb'[row.name] = Payload(id, row)
            /\ row.enabled => qb'[row.name] \in {qb[row.name], Payload(id, row)},
         faults' = 0 /\ CopiesDuring(w, id) /\ JobIsCurrent(w, id) => CopiesDuring(w, id)'
  PROVE  WellFormed' /\ SyncInv'
<1> USE RuleSyncAssumption DEF RuleSyncAssumption
<1>1. /\ faults' \in {faults, faults + 1} /\ faults \in Nat
      /\ faults' = 0 => faults = 0
      /\ faults > 0 => faults' > 0
  BY FaultCounts DEF Types
<1>2. /\ \A i \in Ids \ {id} : Unaffected(i)
      /\ \A i \in Ids : Unsynced(i)' <=> Unsynced(i)
      /\ \A v \in Runners \ {w}, i \in Ids : WorksOn(v, i)' <=> WorksOn(v, i)
  <2>1. /\ \A i \in Ids \ {id} : rows'[i] = rows[i]
        /\ boot' = boot /\ UNCHANGED <<owed, pending, deleter>>
    OBVIOUS
  <2>2. QED
    BY <1>1, <2>1, JobStep
<1>3. \A v \in Runners : WorksOn(v, id)' <=> WorksOn(v, id)
  BY <1>2
<1>4. (InBoot(id)' <=> InBoot(id)) /\ (InDelete(id)' <=> InDelete(id))
  BY DEF InBoot, InDelete
<1>5. RuleInv(id)'
  <2>1. RuleInv(id)
    BY RuleByRule
  <2>2. Accounted(id)'
    <3>1. QueueAccounted(id) => QueueAccounted(id)'
      BY DEF QueueAccounted, WorksOn, Active, Runners
    <3>2. BootAccounted(id) => BootAccounted(id)'
      BY <1>3, <1>4 DEF BootAccounted, WorksOn, Runners
    <3>3. QED
      BY <1>1, <2>1, <3>1, <3>2 DEF RuleInv, Accounted, Live
  <2>3. SUFFICES ASSUME id \notin contended
                 PROVE  /\ OneSession(id)' /\ IsCurrent(id)'
                        /\ id \notin displaced' => PublishedIfOk(id)'
                        /\ faults' = 0 => CopiesTracked(id)'
    BY <2>2 DEF RuleInv
  <2>4. OneSession(id) /\ IsCurrent(id) /\ JobIsCurrent(w, id)
    BY <2>1, <2>3 DEF RuleInv, IsCurrent
  <2>5. OneSession(id)'
    BY <1>3, <1>4, <2>4 DEF OneSession
  <2>6. ~InDelete(id) /\ ~InBoot(id) /\ \A v \in Runners : WorksOn(v, id) => v = w
    BY <2>4 DEF OneSession
  <2>7. IsCurrent(id)'
    <3>1. JobIsCurrent(w, id)'
      BY <1>2, <2>4 DEF JobIsCurrent, Live
    <3>2. QED
      BY <1>3, <1>4, <2>6, <3>1 DEF IsCurrent
  <2>8. ASSUME id \notin displaced' PROVE PublishedIfOk(id)'
    <3>1. SUFFICES ASSUME Live(id), rows[id].enabled, ~Unsynced(id)
                   PROVE  /\ Recording(id)' => Published(id)'
                          /\ rows[id].status = "ok" /\ ~Unhealed(id)' => Published(id)'
      BY <1>2, <1>4 DEF PublishedIfOk, Live
    <3>2. UserColumns(job[w].row) = UserColumns(rows[id])
      BY <2>4, <3>1 DEF JobIsCurrent
    <3>3. /\ job[w].row.enabled /\ job[w].row.name = rows[id].name
          /\ Payload(id, job[w].row) = Payload(id, rows[id])
      BY <3>1, <3>2 DEF UserColumns, Payload
    <3>4. Recording(id)' => Published(id)'
      <4>1. Recording(id)' => job'[w].pc = "record" /\ job'[w].outcome = "ok"
        BY <1>3, <2>6 DEF Recording
      <4>2. QED
        BY <3>3, <4>1 DEF Published
    <3>5. ASSUME rows[id].status = "ok", ~Unhealed(id)' PROVE Published(id)'
      <4>1. w \notin Workers /\ w = Boot
        BY <2>4, <3>5 DEF JobIsCurrent, Runners
      <4>2. ~Unhealed(id)
        BY <1>1, <1>3, <1>4, <3>5 DEF Unhealed, Runners
      <4>3. Published(id)
        BY <2>1, <2>3, <2>6, <3>1, <3>5, <4>2, <2>8 DEF RuleInv, PublishedIfOk
      <4>4. QED
        BY <3>3, <4>3 DEF Published
    <3>6. QED
      BY <3>4, <3>5
  <2>9. ASSUME faults' = 0 PROVE CopiesTracked(id)'
    <3>1. CopiesTracked(id)
      BY <1>1, <2>1, <2>3, <2>9 DEF RuleInv
    <3>2. CopiesDuring(w, id)'
      BY <2>4, <2>9, <3>1 DEF CopiesTracked
    <3>3. Live(id) /\ ~rows[id].enabled /\ rows[id].status = "ok" /\ ~Unsynced(id)'
            => rows[id].remote = NoName
      BY <1>2, <3>1 DEF CopiesTracked
    <3>4. QED
      BY <1>3, <1>4, <2>6, <3>2, <3>3 DEF CopiesTracked, Live
  <2>10. QED
    BY <2>5, <2>7, <2>8, <2>9
<1>6. SyncInv'
  BY <1>2, <1>5, OneRule
<1>7. WellFormed'
  <2>1. RowsWellFormed' /\ DeleterWellFormed' /\ \A v \in Runners \ {w} : JobWellFormed(v)'
    BY <1>1, ShapesKept
  <2>2. BootWellFormed'
    <3>1. Boot \in Runners /\ job'[w].pc # "load" /\ job[w] # NoJob
      BY DEF Runners, WorksOn, Active, NoJob
    <3>2. QED
      BY <3>1 DEF WellFormed, BootWellFormed
  <2>3. QED
    BY <2>1, <2>2 DEF WellFormed, JobsWellFormed
<1>8. QED
  BY <1>6, <1>7

\* The six calls of sync_rule.
LEMMA JobFacts ==
  ASSUME Types, WellFormed, NEW w \in Runners, Active(w)
  PROVE  /\ job[w] \in Jobs /\ job[w].row \in Row /\ job[w].row.name \in Names
         /\ job[w].id \in Ids /\ WorksOn(w, job[w].id) /\ JobWellFormed(w)
<1>1. job[w] \in Jobs /\ JobWellFormed(w)
  BY DEF Types, WellFormed, JobsWellFormed
<1>2. job[w].id \in Ids /\ job[w].row.name \in Names
  BY <1>1 DEF JobWellFormed, Active
<1>3. QED
  BY <1>1, <1>2 DEF WorksOn, Jobs

LEMMA AfterMoves ==
  ASSUME Types, NEW w \in Runners, Active(w), NEW reply \in Replies, NEW pc \in JobPcs,
         After(w, reply, pc), pc \notin {"idle", "load"}
  PROVE  /\ \A v \in Runners \ {w} : job'[v] = job[v]
         /\ job'[w].id = job[w].id /\ job'[w].row = job[w].row
         /\ job'[w].target = job[w].target
         /\ reply = "answered" => job'[w].pc = pc /\ job'[w].outcome = job[w].outcome
         /\ reply # "answered" => job'[w].pc = "record" /\ job'[w].outcome # "ok"
         /\ WorksOn(w, job[w].id)'
<1>1. job[w] \in Jobs
  BY DEF Types
<1>2. /\ \A v \in Runners \ {w} : job'[v] = job[v]
      /\ job'[w] = IF reply = "answered" THEN [job[w] EXCEPT !.pc = pc]
                                         ELSE Failed(job[w], reply)
  BY DEF After, Types
<1>3. CASE reply = "answered"
  BY <1>1, <1>2, <1>3 DEF Jobs, WorksOn, Active
<1>4. CASE reply # "answered"
  BY <1>1, <1>2, <1>4 DEF Jobs, Failed, WorksOn, Active
<1>5. QED
  BY <1>2, <1>3, <1>4

LEMMA EnsureCategoryStep ==
  ASSUME Types, WellFormed, SyncInv, NEW w \in Runners, NEW reply \in Replies,
         EnsureCategory(w, reply)
  PROVE  WellFormed' /\ SyncInv'
<1> USE RuleSyncAssumption DEF RuleSyncAssumption
<1>1. Active(w) /\ job[w].pc = "category" /\ Fault(reply)
      /\ UNCHANGED <<rows, qb, owed, pending, boot, deleter, contended, displaced>>
  BY DEF EnsureCategory, Active
<1>2. PICK id \in Ids :
        /\ id = job[w].id /\ WorksOn(w, id) /\ job[w].row.name \in Names
        /\ job[w].row.enabled /\ job[w].outcome = "ok" /\ job[w] \in Jobs
        /\ w \in Workers => job[w].row.status = "syncing"
  BY <1>1, JobFacts DEF JobWellFormed
<1>3. PICK pc \in {"retire", "publish"} :
        After(w, reply, pc) /\ (pc = "retire" <=> IsRenamed(job[w].row))
  BY DEF EnsureCategory
<1>4. /\ \A v \in Runners \ {w} : job'[v] = job[v]
      /\ job'[w].id = id /\ job'[w].row = job[w].row
      /\ reply = "answered" => job'[w].pc = pc /\ job'[w].outcome = "ok"
      /\ reply # "answered" => job'[w].pc = "record" /\ job'[w].outcome # "ok"
      /\ WorksOn(w, id)'
  BY <1>1, <1>2, <1>3, AfterMoves DEF JobPcs
<1>5. faults' = 0 => faults = 0 /\ reply = "answered"
  BY <1>1, FaultCounts
<1>6. JobWellFormed(w)'
  BY <1>2, <1>3, <1>4, <1>5 DEF JobWellFormed, Active
<1>7. ASSUME faults' = 0, CopiesDuring(w, id), JobIsCurrent(w, id)
      PROVE  CopiesDuring(w, id)'
  <2>1. job'[w].pc = pc /\ Copies(id) \subseteq {rows[id].remote} /\ Copies(id)' = Copies(id)
    BY <1>1, <1>4, <1>5, <1>7 DEF CopiesDuring, Copies
  <2>2. CASE pc = "retire"
    BY <1>1, <2>1, <2>2 DEF CopiesDuring
  <2>3. CASE pc = "publish"
    <3>1. rows[id].remote \in {NoName, job[w].row.name}
      BY <1>3, <1>7, <2>3 DEF JobIsCurrent, IsRenamed
    <3>2. Copies(id) \subseteq {job[w].row.name}
      BY <2>1, <3>1 DEF Copies
    <3>3. QED
      BY <1>4, <2>1, <2>3, <3>2 DEF CopiesDuring
  <2>4. QED
    BY <2>2, <2>3
<1>8. \A i \in Ids : Copies(i)' = Copies(i)
  BY <1>1 DEF Copies
<1>9. ~(job'[w].pc = "record" /\ job'[w].outcome = "ok")
  BY <1>3, <1>4
<1>10. QED
  BY <1>1, <1>2, <1>4, <1>6, <1>7, <1>8, <1>9, CallStep

LEMMA RetireOldNameStep ==
  ASSUME Types, WellFormed, SyncInv, NEW w \in Runners, NEW reply \in Replies,
         RetireOldName(w, reply)
  PROVE  WellFormed' /\ SyncInv'
<1> USE RuleSyncAssumption DEF RuleSyncAssumption
<1>1. Active(w) /\ job[w].pc = "retire" /\ Fault(reply)
      /\ UNCHANGED <<rows, owed, pending, boot, deleter, contended>>
  BY DEF RetireOldName, Active
<1>2. PICK id \in Ids :
        /\ id = job[w].id /\ WorksOn(w, id) /\ job[w].row.name \in Names
        /\ job[w].row.enabled /\ job[w].outcome = "ok" /\ job[w] \in Jobs
        /\ w \in Workers => job[w].row.status = "syncing"
        /\ IsRenamed(job[w].row) /\ job[w].row \in Row
  BY <1>1, JobFacts DEF JobWellFormed
<1>3. PICK name \in Names :
        name = job[w].row.remote /\ name # job[w].row.name /\ name # NoName
  BY <1>2 DEF IsRenamed, Row
<1>4. /\ \A v \in Runners \ {w} : job'[v] = job[v]
      /\ job'[w].id = id /\ job'[w].row = job[w].row
      /\ reply = "answered" => job'[w].pc = "publish" /\ job'[w].outcome = "ok"
      /\ reply # "answered" => job'[w].pc = "record" /\ job'[w].outcome # "ok"
      /\ WorksOn(w, id)'
  <2>1. After(w, reply, "publish")
    BY DEF RetireOldName
  <2>2. QED
    BY <1>1, <1>2, <2>1, AfterMoves DEF JobPcs
<1>5. faults' = 0 => faults = 0 /\ reply = "answered"
  BY <1>1, FaultCounts
<1>6. /\ displaced \subseteq displaced'
      /\ \A i \in Ids \ {id} : /\ Live(i) /\ i \notin displaced'
                                    => qb'[rows[i].name] = qb[rows[i].name]
                               /\ Copies(i)' \subseteq Copies(i)
      /\ \A n \in Names : n # name => qb'[n] = qb[n]
      /\ reply = "answered" => qb'[name] = NoPayload
  <2>1. WriteRemote(id, name, NoPayload, reply)
    BY <1>2, <1>3 DEF RetireOldName, RemoveRemote
  <2>2. NoPayload \in Payloads /\ NoPayload.rule \in {id, NoId}
    BY RestingTypes DEF NoPayload
  <2>3. QED
    BY <1>3, <2>1, <2>2, RemoteWrites DEF WellFormed
<1>7. JobWellFormed(w)'
  BY <1>2, <1>4, <1>5 DEF JobWellFormed, Active
<1>8. ASSUME faults' = 0, CopiesDuring(w, id), JobIsCurrent(w, id)
      PROVE  CopiesDuring(w, id)'
  <2>1. job'[w].pc = "publish" /\ qb'[name] = NoPayload /\ Copies(id) \subseteq {name}
    BY <1>1, <1>3, <1>4, <1>5, <1>6, <1>8 DEF CopiesDuring, JobIsCurrent
  <2>2. NoPayload.rule # id
    BY DEF NoPayload
  <2>3. Copies(id)' = {}
    BY <1>6, <2>1, <2>2 DEF Copies
  <2>4. QED
    BY <2>1, <2>3 DEF CopiesDuring
<1>9. ~(job'[w].pc = "record" /\ job'[w].outcome = "ok")
      /\ qb'[job[w].row.name] = qb[job[w].row.name]
  BY <1>2, <1>3, <1>4, <1>6
<1>10. QED
  BY <1>1, <1>2, <1>4, <1>6, <1>7, <1>8, <1>9, CallStep

LEMMA SetRuleStep ==
  ASSUME Types, WellFormed, SyncInv, NEW w \in Runners, NEW reply \in Replies,
         SetRule(w, reply)
  PROVE  WellFormed' /\ SyncInv'
<1> USE RuleSyncAssumption DEF RuleSyncAssumption
<1>1. Active(w) /\ job[w].pc = "publish" /\ Fault(reply)
      /\ UNCHANGED <<rows, owed, pending, boot, deleter, contended>>
  BY DEF SetRule, Active
<1>2. PICK id \in Ids :
        /\ id = job[w].id /\ WorksOn(w, id) /\ job[w].row.name \in Names
        /\ job[w].row.enabled /\ job[w].outcome = "ok" /\ job[w] \in Jobs
        /\ w \in Workers => job[w].row.status = "syncing"
        /\ job[w].row \in Row
  BY <1>1, JobFacts DEF JobWellFormed
<1>3. PICK name \in Names : name = job[w].row.name
  BY <1>2
<1>4. /\ \A v \in Runners \ {w} : job'[v] = job[v]
      /\ job'[w].id = id /\ job'[w].row = job[w].row
      /\ job'[w].pc = "record"
      /\ reply = "answered" => job'[w].outcome = "ok"
      /\ reply # "answered" => job'[w].outcome # "ok"
      /\ WorksOn(w, id)'
  <2>1. After(w, reply, "record")
    BY DEF SetRule
  <2>2. QED
    BY <1>1, <1>2, <2>1, AfterMoves DEF JobPcs
<1>5. faults' = 0 => faults = 0 /\ reply = "answered"
  BY <1>1, FaultCounts
<1>6. PICK payload \in Payloads : payload = Payload(id, job[w].row) /\ payload.rule = id
  BY <1>2, RestingTypes DEF Payload
<1>7. /\ displaced \subseteq displaced'
      /\ \A i \in Ids \ {id} : /\ Live(i) /\ i \notin displaced'
                                    => qb'[rows[i].name] = qb[rows[i].name]
                               /\ Copies(i)' \subseteq Copies(i)
      /\ \A n \in Names : n # name => qb'[n] = qb[n]
      /\ reply = "answered" => qb'[name] = payload
  <2>1. WriteRemote(id, name, payload, reply)
    BY <1>2, <1>3, <1>6 DEF SetRule
  <2>2. QED
    BY <1>3, <1>6, <2>1, RemoteWrites DEF WellFormed
<1>8. qb'[name] \in {qb[name], payload}
  BY <1>2, <1>3, <1>6 DEF SetRule, WriteRemote, Types
<1>9. JobWellFormed(w)'
  BY <1>2, <1>4, <1>5 DEF JobWellFormed, Active
<1>10. ASSUME faults' = 0, CopiesDuring(w, id), JobIsCurrent(w, id)
       PROVE  CopiesDuring(w, id)'
  <2>1. Copies(id) \subseteq {name}
    BY <1>1, <1>3, <1>10 DEF CopiesDuring
  <2>2. Copies(id)' \subseteq {name}
    BY <1>7, <2>1 DEF Copies
  <2>3. QED
    BY <1>2, <1>3, <1>4, <2>2 DEF CopiesDuring
<1>11. QED
  BY <1>1, <1>2, <1>3, <1>4, <1>6, <1>7, <1>8, <1>9, <1>10, CallStep

LEMMA LookUpRemoteStep ==
  ASSUME Types, WellFormed, SyncInv, NEW w \in Runners, NEW reply \in Replies,
         LookUpRemote(w, reply)
  PROVE  WellFormed' /\ SyncInv'
<1> USE RuleSyncAssumption DEF RuleSyncAssumption
<1>1. Active(w) /\ job[w].pc = "lookup" /\ Fault(reply)
      /\ UNCHANGED <<rows, qb, owed, pending, boot, deleter, contended, displaced>>
  BY DEF LookUpRemote, Active
<1>2. PICK id \in Ids :
        /\ id = job[w].id /\ WorksOn(w, id) /\ job[w].row.name \in Names
        /\ ~job[w].row.enabled /\ job[w].outcome = "ok" /\ job[w] \in Jobs
        /\ w \in Workers => job[w].row.status = "syncing"
        /\ job[w].row \in Row
  BY <1>1, JobFacts DEF JobWellFormed
<1>3. PICK target \in Names \cup {NoName} :
        /\ job[w].row.remote # NoName => target = job[w].row.remote
        /\ job' = [job EXCEPT ![w] = IF reply = "answered"
                                     THEN [job[w] EXCEPT !.pc = "withdraw", !.target = target]
                                     ELSE Failed(job[w], reply)]
  BY <1>2 DEF LookUpRemote, Row
<1>4. /\ \A v \in Runners \ {w} : job'[v] = job[v]
      /\ job'[w].id = id /\ job'[w].row = job[w].row
      /\ reply = "answered" => job'[w].pc = "withdraw" /\ job'[w].outcome = "ok"
                               /\ job'[w].target = target
      /\ reply # "answered" => job'[w].pc = "record" /\ job'[w].outcome # "ok"
  <2>1. job'[w] = IF reply = "answered"
                  THEN [job[w] EXCEPT !.pc = "withdraw", !.target = target]
                  ELSE Failed(job[w], reply)
    BY <1>3 DEF Types
  <2>2. QED
    BY <1>2, <1>3, <2>1 DEF Types, Jobs, Failed
<1>5. WorksOn(w, id)'
  BY <1>4 DEF WorksOn, Active
<1>6. faults' = 0 => faults = 0 /\ reply = "answered"
  BY <1>1, FaultCounts
<1>7. JobWellFormed(w)'
  BY <1>2, <1>4, <1>6 DEF JobWellFormed, Active
<1>8. ASSUME faults' = 0, CopiesDuring(w, id), JobIsCurrent(w, id)
      PROVE  CopiesDuring(w, id)'
  <2>1. Copies(id) \subseteq {rows[id].remote} /\ Copies(id)' = Copies(id)
    BY <1>1, <1>8 DEF CopiesDuring, Copies
  <2>2. /\ job'[w].pc = "withdraw" /\ rows' = rows
        /\ rows[id].remote # NoName => job'[w].target = rows[id].remote
    BY <1>1, <1>3, <1>4, <1>6, <1>8 DEF JobIsCurrent
  <2>3. QED
    BY <2>1, <2>2 DEF CopiesDuring
<1>9. \A i \in Ids : Copies(i)' = Copies(i)
  BY <1>1 DEF Copies
<1>10. QED
  BY <1>1, <1>2, <1>4, <1>5, <1>7, <1>8, <1>9, CallStep

LEMMA WithdrawRuleStep ==
  ASSUME Types, WellFormed, SyncInv, NEW w \in Runners, NEW reply \in Replies,
         WithdrawRule(w, reply)
  PROVE  WellFormed' /\ SyncInv'
<1> USE RuleSyncAssumption DEF RuleSyncAssumption
<1>1. Active(w) /\ job[w].pc = "withdraw" /\ Fault(reply)
      /\ UNCHANGED <<rows, owed, pending, boot, deleter, contended>>
  BY DEF WithdrawRule, Active
<1>2. PICK id \in Ids :
        /\ id = job[w].id /\ WorksOn(w, id) /\ job[w].row.name \in Names
        /\ ~job[w].row.enabled /\ job[w].outcome = "ok" /\ job[w] \in Jobs
        /\ w \in Workers => job[w].row.status = "syncing"
        /\ job[w].row \in Row
  BY <1>1, JobFacts DEF JobWellFormed
<1>3. PICK target \in Names \cup {NoName} : target = job[w].target
  BY <1>2 DEF Jobs
<1>4. /\ \A v \in Runners \ {w} : job'[v] = job[v]
      /\ job'[w].id = id /\ job'[w].row = job[w].row
      /\ reply = "answered" => job'[w].pc = "prune" /\ job'[w].outcome = "ok"
      /\ reply # "answered" => job'[w].pc = "record" /\ job'[w].outcome # "ok"
      /\ WorksOn(w, id)'
  <2>1. After(w, reply, "prune")
    BY DEF WithdrawRule
  <2>2. QED
    BY <1>1, <1>2, <2>1, AfterMoves DEF JobPcs
<1>5. faults' = 0 => faults = 0 /\ reply = "answered"
  BY <1>1, FaultCounts
<1>6. /\ displaced \subseteq displaced'
      /\ \A i \in Ids \ {id} : /\ Live(i) /\ i \notin displaced'
                                    => qb'[rows[i].name] = qb[rows[i].name]
                               /\ Copies(i)' \subseteq Copies(i)
      /\ \A n \in Names : n # target => qb'[n] = qb[n]
      /\ target # NoName /\ reply = "answered" => qb'[target] = NoPayload
      /\ target = NoName => qb' = qb
  <2>1. WriteRemote(id, target, NoPayload, reply)
    BY <1>2, <1>3 DEF WithdrawRule, RemoveRemote
  <2>2. NoPayload \in Payloads /\ NoPayload.rule \in {id, NoId}
    BY RestingTypes DEF NoPayload
  <2>3. QED
    BY <2>1, <2>2, RemoteWrites DEF WellFormed
<1>7. JobWellFormed(w)'
  BY <1>2, <1>4, <1>5 DEF JobWellFormed, Active
<1>8. ASSUME faults' = 0, CopiesDuring(w, id), JobIsCurrent(w, id)
      PROVE  CopiesDuring(w, id)'
  <2>1. /\ job'[w].pc = "prune" /\ Copies(id) \subseteq {rows[id].remote}
        /\ rows[id].remote # NoName => target = rows[id].remote
        /\ target # NoName => qb'[target] = NoPayload
    BY <1>1, <1>3, <1>4, <1>5, <1>6, <1>8 DEF CopiesDuring
  <2>2. NoPayload.rule # id
    BY DEF NoPayload
  <2>3. Copies(id)' = {}
    <3>1. SUFFICES ASSUME NEW n \in Names, qb'[n].rule = id PROVE FALSE
      BY DEF Copies
    <3>2. n # target
      BY <2>1, <2>2, <3>1
    <3>3. n \in Copies(id)
      BY <1>6, <3>1, <3>2 DEF Copies
    <3>4. QED
      BY <2>1, <3>2, <3>3
  <2>4. QED
    BY <2>1, <2>3 DEF CopiesDuring
<1>9. ~(job'[w].pc = "record" /\ job'[w].outcome = "ok")
  BY <1>4
<1>10. QED
  BY <1>1, <1>2, <1>4, <1>6, <1>7, <1>8, <1>9, CallStep

LEMMA PruneCategoriesStep ==
  ASSUME Types, WellFormed, SyncInv, NEW w \in Runners, NEW reply \in Replies,
         PruneCategories(w, reply)
  PROVE  WellFormed' /\ SyncInv'
<1> USE RuleSyncAssumption DEF RuleSyncAssumption
<1>1. Active(w) /\ job[w].pc = "prune" /\ Fault(reply)
      /\ UNCHANGED <<rows, qb, owed, pending, boot, deleter, contended, displaced>>
  BY DEF PruneCategories, Active
<1>2. PICK id \in Ids :
        /\ id = job[w].id /\ WorksOn(w, id) /\ job[w].row.name \in Names
        /\ ~job[w].row.enabled /\ job[w].outcome = "ok" /\ job[w] \in Jobs
        /\ w \in Workers => job[w].row.status = "syncing"
  BY <1>1, JobFacts DEF JobWellFormed
<1>3. /\ \A v \in Runners \ {w} : job'[v] = job[v]
      /\ job'[w].id = id /\ job'[w].row = job[w].row /\ job'[w].pc = "record"
      /\ reply = "answered" => job'[w].outcome = "ok"
      /\ WorksOn(w, id)'
  <2>1. After(w, reply, "record")
    BY DEF PruneCategories
  <2>2. QED
    BY <1>1, <1>2, <2>1, AfterMoves DEF JobPcs
<1>4. faults' = 0 => faults = 0 /\ reply = "answered"
  BY <1>1, FaultCounts
<1>5. JobWellFormed(w)'
  BY <1>2, <1>3, <1>4 DEF JobWellFormed, Active
<1>6. \A i \in Ids : Copies(i)' = Copies(i)
  BY <1>1 DEF Copies
<1>7. ASSUME faults' = 0, CopiesDuring(w, id) PROVE CopiesDuring(w, id)'
  BY <1>1, <1>2, <1>3, <1>6, <1>7 DEF CopiesDuring
<1>8. QED
  BY <1>1, <1>2, <1>3, <1>5, <1>6, <1>7, CallStep

LEMMA QbCallStep ==
  ASSUME Types, WellFormed, SyncInv, NEW w \in Runners, NEW reply \in Replies,
         QbCall(w, reply)
  PROVE  WellFormed' /\ SyncInv'
BY EnsureCategoryStep, RetireOldNameStep, SetRuleStep, LookUpRemoteStep, WithdrawRuleStep,
   PruneCategoriesStep DEF QbCall

-----------------------------------------------------------------------------
\* A job that is put down leaves the shapes as they are.
LEMMA PutDown ==
  ASSUME Types, WellFormed, NEW w \in Runners, Active(w), job'[w] = NoJob,
         \A v \in Runners \ {w} : job'[v] = job[v],
         boot' = boot \/ (boot' = NoBoot("aborted") /\ w = Boot),
         deleter' = deleter, faults' \in {faults, faults + 1},
         \A id \in Ids : /\ rows'[id].life = rows[id].life
                         /\ rows'[id].name = rows[id].name
                         /\ ~Live(id) => rows'[id].remote = rows[id].remote
  PROVE  WellFormed'
<1> USE RuleSyncAssumption DEF RuleSyncAssumption
<1>1. RowsWellFormed' /\ DeleterWellFormed' /\ \A v \in Runners \ {w} : JobWellFormed(v)'
  BY ShapesKept
<1>2. JobWellFormed(w)'
  BY DEF NoJob, JobWellFormed, Active
<1>3. BootWellFormed'
  <2>1. Boot \in Runners /\ job'[Boot].pc # "load" /\ (w = Boot => job'[Boot] = NoJob)
    BY DEF Runners, NoJob, WellFormed, BootWellFormed
  <2>2. CASE boot' = boot
    BY <2>1, <2>2 DEF WellFormed, BootWellFormed
  <2>3. CASE boot' = NoBoot("aborted") /\ w = Boot
    BY <2>1, <2>3 DEF NoBoot, BootWellFormed
  <2>4. QED
    BY <2>2, <2>3
<1>4. QED
  BY <1>1, <1>2, <1>3 DEF WellFormed, JobsWellFormed

\* The outcome is committed: unless the startup loop loaded that very status, it
\* is what the row says afterwards.
LEMMA RecordOutcomeStep ==
  ASSUME Types, WellFormed, SyncInv, NEW w \in Runners, RecordOutcome(w)
  PROVE  WellFormed' /\ SyncInv'
<1> USE RuleSyncAssumption DEF RuleSyncAssumption
<1>1. /\ Active(w) /\ job[w].pc = "record" /\ Boot \in Runners /\ Boot \notin Workers
      /\ UNCHANGED <<qb, owed, pending, deleter, contended, displaced, faults>>
  BY DEF RecordOutcome, Active, Runners
<1>2. PICK id \in Ids :
        /\ id = job[w].id /\ WorksOn(w, id) /\ job[w] \in Jobs /\ job[w].row \in Row
        /\ w \in Workers => job[w].row.status = "syncing"
        /\ faults = 0 => job[w].outcome = "ok"
        /\ rows[id] \in Row
  BY <1>1, JobFacts DEF JobWellFormed, Types
<1>3. /\ job'[w] = NoJob /\ \A v \in Runners \ {w} : job'[v] = job[v]
      /\ boot' = boot \/ (boot' = NoBoot("aborted") /\ w = Boot)
      /\ Live(id) => boot' = boot
      /\ \A i \in Ids \ {id} : rows'[i] = rows[i]
      /\ rows'[id] = IF Live(id) THEN RecordedRow(rows[id], job[w]) ELSE rows[id]
  <2>1. CASE Live(id)
    <3>1. rows' = [rows EXCEPT ![id] = RecordedRow(rows[id], job[w])]
          /\ job' = [job EXCEPT ![w] = NoJob] /\ boot' = boot
      BY <1>2, <2>1 DEF RecordOutcome, Types
    <3>2. QED
      BY <1>2, <2>1, <3>1 DEF Types
  <2>2. CASE ~Live(id)
    <3>1. /\ rows' = rows /\ job' = [job EXCEPT ![w] = NoJob]
          /\ boot' = boot \/ (boot' = NoBoot("aborted") /\ w = Boot)
      BY <1>2, <2>2 DEF RecordOutcome, Dropped
    <3>2. QED
      BY <2>2, <3>1 DEF Types
  <2>3. QED
    BY <2>1, <2>2
<1>4. job'[w].pc = "idle" /\ ~WorksOn(w, id)'
  BY <1>3 DEF NoJob, WorksOn, Active
<1>5. boot' = boot \/ boot'.pc = "aborted"
  BY <1>3 DEF NoBoot
<1>6. \A i \in Ids : Copies(i)' = Copies(i)
  BY <1>1 DEF Copies
<1>7. /\ \A i \in Ids \ {id} : Unaffected(i)
      /\ \A i \in Ids : Unsynced(i)' <=> Unsynced(i)
      /\ \A v \in Runners \ {w}, i \in Ids : WorksOn(v, i)' <=> WorksOn(v, i)
  BY <1>1, <1>2, <1>3, <1>4, <1>5, <1>6, JobStep
<1>8. /\ \A i \in Ids : Kept(i)
      /\ \A i \in Ids : rows'[i].life = rows[i].life /\ rows'[i].name = rows[i].name
  BY RecordKept DEF Kept, UserColumns
<1>9. WellFormed'
  BY <1>1, <1>2, <1>3, <1>8, PutDown
<1>10. RuleInv(id)
  BY RuleByRule
<1>11. id \notin contended =>
         /\ JobIsCurrent(w, id) /\ ~InBoot(id) /\ ~InDelete(id)
         /\ \A v \in Runners : ~WorksOn(v, id)'
  BY <1>2, <1>4, <1>7, <1>10 DEF RuleInv, OneSession, IsCurrent
<1>12. ~InDelete(id)' <=> ~InDelete(id)
  BY <1>1 DEF InDelete
<1>13. CASE ~Live(id)
  <2>1. id \in contended /\ ~Live(id)'
    BY <1>8, <1>11, <1>13 DEF JobIsCurrent, Live
  <2>2. RuleInv(id)'
    BY <1>1, <2>1 DEF RuleInv, Accounted
  <2>3. QED
    BY <1>1, <1>7, <1>9, <2>2, OneRule
<1>14. CASE Live(id)
  <2> DEFINE remote == IF job[w].row.enabled THEN job[w].row.name ELSE NoName
  <2>1. /\ rows'[id].status = IF job[w].row.status = job[w].outcome THEN rows[id].status
                                                                    ELSE job[w].outcome
        /\ job[w].outcome = "ok" /\ rows[id].remote = job[w].row.remote
             => rows'[id].remote = remote
        /\ boot' = boot /\ Live(id)'
    <3>1. rows'[id] = RecordedRow(rows[id], job[w]) /\ boot' = boot /\ Live(id)'
      BY <1>3, <1>8, <1>14 DEF Live
    <3>2. CASE job[w].outcome = "ok"
      BY <1>2, <3>1, <3>2 DEF RecordedRow, Written, Row
    <3>3. CASE job[w].outcome # "ok"
      BY <1>2, <3>1, <3>3 DEF RecordedRow, Written, Row
    <3>4. QED
      BY <3>1, <3>2, <3>3
  <2>2. job[w].outcome \in Outcomes
    BY <1>2 DEF Jobs
  <2>3. w \in Workers => rows'[id].status = job[w].outcome
    BY <1>2, <2>1, <2>2 DEF Outcomes
  <2>4. Accounted(id)'
    <3>1. CASE rows'[id].status = job[w].outcome
      BY <2>2, <3>1 DEF Accounted, Outcomes
    <3>2. CASE rows'[id].status # job[w].outcome
      <4>1. /\ w = Boot /\ job[w].row.status \in Outcomes
            /\ rows'[id].status = rows[id].status
        BY <2>1, <2>2, <2>3, <3>2 DEF Runners
      <4>2. QueueAccounted(id) => QueueAccounted(id)'
        BY <1>1, <1>3, <4>1 DEF QueueAccounted, Runners
      <4>3. BootAccounted(id) => BootAccounted(id)'
        BY <2>1, <4>1 DEF BootAccounted, InBoot
      <4>4. QED
        BY <1>1, <1>10, <1>14, <4>1, <4>2, <4>3 DEF RuleInv, Accounted
    <3>3. QED
      BY <3>1, <3>2
  <2>5. SUFFICES ASSUME id \notin contended
                 PROVE  /\ OneSession(id)' /\ IsCurrent(id)'
                        /\ id \notin displaced => PublishedIfOk(id)'
                        /\ faults = 0 => CopiesTracked(id)'
    <3>1. RuleInv(id)'
      BY <1>1, <2>4, <2>5 DEF RuleInv
    <3>2. QED
      BY <1>1, <1>7, <1>9, <3>1, OneRule
  <2>6. ~InBoot(id)' /\ ~InDelete(id)' /\ \A v \in Runners : ~WorksOn(v, id)'
    BY <1>11, <1>12, <2>1, <2>5 DEF InBoot
  <2>7. OneSession(id)' /\ IsCurrent(id)'
    BY <2>6 DEF OneSession, IsCurrent
  <2>8. ASSUME id \notin displaced PROVE PublishedIfOk(id)'
    <3>1. SUFFICES ASSUME rows[id].enabled, ~Unsynced(id), rows'[id].status = "ok",
                          ~Unhealed(id)'
                   PROVE  Published(id)
      <4>1. Published(id)' <=> Published(id)
        BY <1>1, <1>8 DEF Kept, Published, UserColumns, Payload
      <4>2. rows'[id].enabled = rows[id].enabled
        BY <1>8 DEF Kept, UserColumns
      <4>3. QED
        BY <1>7, <2>6, <3>1, <4>1, <4>2 DEF PublishedIfOk, Recording
    <3>2. job[w].outcome = "ok"
      <4>1. CASE w \in Workers
        BY <2>3, <3>1, <4>1
      <4>2. CASE w = Boot
        BY <1>11, <2>1, <2>2, <2>5, <3>1, <4>2 DEF JobIsCurrent, Outcomes
      <4>3. QED
        BY <4>1, <4>2 DEF Runners
    <3>3. Recording(id)
      BY <1>1, <1>2, <3>2 DEF Recording
    <3>4. QED
      BY <1>10, <1>14, <2>5, <2>8, <3>1, <3>3 DEF RuleInv, PublishedIfOk
  <2>9. ASSUME faults = 0 PROVE CopiesTracked(id)'
    <3>1. JobIsCurrent(w, id) /\ CopiesDuring(w, id)
      BY <1>2, <1>10, <1>11, <2>5, <2>9 DEF RuleInv, CopiesTracked
    <3>2. rows'[id].remote = remote
      BY <1>2, <2>1, <2>9, <3>1 DEF JobIsCurrent
    <3>3. Copies(id)' \subseteq {remote}
      BY <1>1, <1>6, <3>1 DEF CopiesDuring
    <3>4. ASSUME ~Unsynced(id)', ~rows'[id].enabled PROVE rows'[id].remote = NoName
      BY <1>7, <1>8, <3>1, <3>2, <3>4 DEF JobIsCurrent, Kept, UserColumns
    <3>5. QED
      BY <2>6, <3>2, <3>3, <3>4 DEF CopiesTracked
  <2>10. QED
    BY <2>7, <2>8, <2>9
<1>15. QED
  BY <1>13, <1>14

\* An exception before the first call: the queue's thread records it, the
\* startup reconciliation ends with it.
LEMMA SyncRaisesStep ==
  ASSUME Types, WellFormed, SyncInv, NEW w \in Runners,
         NEW outcome \in {"error", "transient"}, SyncRaises(w, outcome)
  PROVE  WellFormed' /\ SyncInv'
<1> USE RuleSyncAssumption DEF RuleSyncAssumption
<1>1. /\ Active(w) /\ Boot \in Runners /\ Boot \notin Workers
      /\ faults' = faults + 1 /\ faults' > 0
      /\ UNCHANGED <<qb, owed, pending, deleter, contended, displaced>>
  BY DEF SyncRaises, Active, Runners, Types
<1>2. PICK id \in Ids : id = job[w].id /\ WorksOn(w, id) /\ rows[id] \in Row
  BY <1>1, JobFacts DEF Types
<1>3. /\ job'[w] = NoJob /\ \A v \in Runners \ {w} : job'[v] = job[v]
      /\ boot' = IF w = Boot THEN NoBoot("aborted") ELSE boot
      /\ \A i \in Ids \ {id} : rows'[i] = rows[i]
      /\ rows'[id] = IF w # Boot /\ Live(id) THEN [rows[id] EXCEPT !.status = outcome]
                                              ELSE rows[id]
  BY <1>2 DEF SyncRaises, Dropped, Types
<1>4. job'[w].pc = "idle" /\ ~WorksOn(w, id)'
  <2>1. job'[w].pc = "idle"
    BY <1>3 DEF NoJob
  <2>2. QED
    BY <2>1 DEF WorksOn, Active
<1>5. boot' = boot \/ (boot'.pc = "aborted" /\ w = Boot)
  BY <1>3 DEF NoBoot
<1>6. \A i \in Ids : Copies(i)' = Copies(i)
  BY <1>1 DEF Copies
<1>7. /\ \A i \in Ids \ {id} : Unaffected(i)
      /\ \A i \in Ids : Unsynced(i)' <=> Unsynced(i)
      /\ \A v \in Runners \ {w}, i \in Ids : WorksOn(v, i)' <=> WorksOn(v, i)
  BY <1>1, <1>2, <1>3, <1>4, <1>5, <1>6, JobStep
<1>8. \A i \in Ids : /\ rows'[i].life = rows[i].life /\ rows'[i].name = rows[i].name
                     /\ rows'[i].remote = rows[i].remote
  BY <1>2, <1>3 DEF Row
<1>9. WellFormed'
  <2>1. /\ job'[w] = NoJob /\ deleter' = deleter /\ faults' \in {faults, faults + 1}
        /\ boot' = boot \/ (boot' = NoBoot("aborted") /\ w = Boot)
    BY <1>1, <1>3
  <2>2. QED
    BY <1>1, <1>3, <1>8, <2>1, PutDown
<1>10. RuleInv(id)
  BY RuleByRule
<1>11. ASSUME id \notin contended
       PROVE  /\ Live(id) /\ ~InBoot(id)' /\ ~InDelete(id)'
              /\ \A v \in Runners : ~WorksOn(v, id)'
  <2>1. ~InBoot(id) /\ ~InDelete(id) /\ Live(id) /\ \A v \in Runners : ~WorksOn(v, id)'
    BY <1>2, <1>4, <1>7, <1>10, <1>11 DEF RuleInv, OneSession, IsCurrent, JobIsCurrent
  <2>2. QED
    BY <1>1, <1>5, <2>1 DEF InBoot, InDelete
<1>12. Accounted(id)'
  <2>1. CASE w = Boot
    BY <1>1, <1>3, <2>1 DEF Accounted, BootAccounted, NoBoot
  <2>2. CASE w # Boot
    BY <1>2, <1>3, <2>2 DEF Accounted, Live, Row
  <2>3. QED
    BY <2>1, <2>2
<1>13. ASSUME id \notin contended PROVE OneSession(id)' /\ IsCurrent(id)'
  BY <1>11, <1>13 DEF OneSession, IsCurrent
<1>14. ASSUME id \notin contended PROVE PublishedIfOk(id)'
  <2>1. ~Recording(id)'
    BY <1>11, <1>14 DEF Recording
  <2>2. CASE w = Boot
    BY <1>1, <1>3, <2>1, <2>2 DEF PublishedIfOk, Unhealed, NoBoot
  <2>3. CASE w # Boot
    BY <1>2, <1>3, <1>11, <1>14, <2>1, <2>3 DEF PublishedIfOk, Row
  <2>4. QED
    BY <2>2, <2>3
<1>15. RuleInv(id)'
  BY <1>1, <1>12, <1>13, <1>14 DEF RuleInv
<1>16. QED
  BY <1>1, <1>7, <1>9, <1>15, OneRule

-----------------------------------------------------------------------------
\* The startup reconciliation loads every row: what is unsettled after a failure
\* is in its hands from now on.
LEMMA BootLoadsStep ==
  ASSUME Types, WellFormed, SyncInv, BootLoads
  PROVE  WellFormed' /\ SyncInv'
<1> USE RuleSyncAssumption DEF RuleSyncAssumption
<1>1. /\ UNCHANGED <<rows, qb, owed, pending, job, deleter, displaced, faults>>
      /\ boot.pc = "load" /\ job[Boot] = NoJob /\ job[Boot].pc = "idle" /\ Boot \in Runners
  BY DEF BootLoads, WellFormed, BootWellFormed, NoJob, Runners
<1>2. /\ boot'.pc = "compare" /\ boot'.todo = {id \in Ids : Live(id)} /\ boot'.rows = rows
      /\ \A id \in Ids \ contended' : id \notin contended /\ (Live(id) => ~HeldByOthers(Boot, id))
  BY DEF BootLoads
<1>3. /\ \A w \in Runners, id \in Ids : WorksOn(w, id)' <=> WorksOn(w, id)
      /\ \A id \in Ids : Unsynced(id)' <=> Unsynced(id)
      /\ \A id \in Ids : QueueAccounted(id)' <=> QueueAccounted(id)
      /\ \A id \in Ids : InDelete(id)' <=> InDelete(id)
      /\ \A id \in Ids : Live(id)' <=> Live(id)
      /\ \A id \in Ids : Copies(id)' = Copies(id)
  BY <1>1 DEF WorksOn, Active, Unsynced, QueueAccounted, InDelete, Live, Copies
<1>4. \A id \in Ids : ~InBoot(id) /\ (InBoot(id)' <=> Live(id))
  BY <1>1, <1>2 DEF InBoot
<1>5. ASSUME NEW id \in Ids PROVE RuleInv(id)'
  <2>1. RuleInv(id)
    BY RuleByRule
  <2>2. Accounted(id)'
    <3>1. SUFFICES ASSUME Live(id), rows[id].status \in {"pending", "syncing"},
                          ~QueueAccounted(id)
                   PROVE  faults > 0 /\ BootAccounted(id)'
      BY <1>1, <1>3 DEF Accounted
    <3>2. faults > 0
      BY <2>1, <3>1 DEF RuleInv, Accounted
    <3>3. InBoot(id)' /\ boot'.rows[id].status \notin Outcomes
      BY <1>2, <1>4, <3>1 DEF Outcomes
    <3>4. QED
      BY <3>2, <3>3 DEF BootAccounted
  <2>3. SUFFICES ASSUME id \notin contended'
                 PROVE  /\ OneSession(id)' /\ IsCurrent(id)'
                        /\ id \notin displaced => PublishedIfOk(id)'
                        /\ faults = 0 => CopiesTracked(id)'
    BY <1>1, <2>2 DEF RuleInv
  <2>4. OneSession(id) /\ IsCurrent(id) /\ id \notin contended
    BY <1>2, <2>1, <2>3 DEF RuleInv
  <2>5. Live(id) => ~InDelete(id) /\ \A w \in Runners : ~WorksOn(w, id)
    BY <1>1, <1>2, <2>3 DEF HeldByOthers, InDelete, WorksOn, Active
  <2>6. OneSession(id)'
    BY <1>3, <1>4, <2>4, <2>5 DEF OneSession
  <2>7. IsCurrent(id)'
    <3>1. CASE Live(id)
      <4>1. BootIsCurrent(id)'
        BY <1>1, <1>2, <1>3, <3>1 DEF BootIsCurrent
      <4>2. QED
        BY <1>3, <2>5, <3>1, <4>1 DEF IsCurrent
    <3>2. CASE ~Live(id)
      <4>1. \A w \in Runners : ~WorksOn(w, id)
        BY <2>4, <3>2 DEF IsCurrent, JobIsCurrent
      <4>2. ASSUME InDelete(id) PROVE DeleterIsCurrent(id)'
        BY <1>1, <1>3, <2>4, <4>2 DEF IsCurrent, DeleterIsCurrent
      <4>3. QED
        BY <1>3, <1>4, <3>2, <4>1, <4>2 DEF IsCurrent
    <3>3. QED
      BY <3>1, <3>2
  <2>8. ASSUME id \notin displaced PROVE PublishedIfOk(id)'
    <3>1. SUFFICES ASSUME Live(id), rows[id].enabled, ~Unsynced(id)
                   PROVE  /\ ~Recording(id)'
                          /\ rows[id].status = "ok" /\ ~Unhealed(id)' => Published(id)
      BY <1>1, <1>3 DEF PublishedIfOk, Published
    <3>2. ~Recording(id)'
      BY <1>3, <2>5, <3>1 DEF Recording
    <3>3. Unhealed(id) => Unhealed(id)'
      BY <1>1, <1>4, <3>1 DEF Unhealed
    <3>4. QED
      BY <2>1, <2>4, <2>5, <2>8, <3>1, <3>2, <3>3 DEF RuleInv, PublishedIfOk
  <2>9. ASSUME faults = 0 PROVE CopiesTracked(id)'
    <3>1. CopiesTracked(id)
      BY <2>1, <2>4, <2>9 DEF RuleInv
    <3>2. \A w \in Runners : WorksOn(w, id) => CopiesDuring(w, id)'
      BY <1>1, <1>3, <3>1 DEF CopiesTracked, CopiesDuring
    <3>3. QED
      BY <1>1, <1>3, <3>1, <3>2 DEF CopiesTracked
  <2>10. QED
    BY <2>6, <2>7, <2>8, <2>9
<1>6. WellFormed'
  <2>1. RowsWellFormed' /\ DeleterWellFormed' /\ \A v \in Runners : JobWellFormed(v)'
    BY <1>1, ShapesKept
  <2>2. BootWellFormed'
    BY <1>1, <1>2 DEF WellFormed, BootWellFormed, RowsWellFormed
  <2>3. QED
    BY <2>1, <2>2 DEF WellFormed, JobsWellFormed
<1>7. QED
  BY <1>5, <1>6, RuleByRule

\* The comparison with qB, and the end of the loop, are about no rule.
LEMMA BootMovesStep ==
  ASSUME Types, WellFormed, SyncInv, BootEnds \/ \E answered \in BOOLEAN : BootCompares(answered)
  PROVE  WellFormed' /\ SyncInv'
<1> USE RuleSyncAssumption DEF RuleSyncAssumption
<1>1. UNCHANGED <<rows, qb, owed, pending, job, deleter, contended, displaced, faults>>
  BY DEF BootEnds, BootCompares
<1>2. /\ boot.pc \in {"compare", "running"} /\ boot'.pc \in {"running", "done"}
      /\ \A id \in Ids : /\ InBoot(id)' <=> InBoot(id)
                         /\ InBoot(id) => boot'.rows[id] = boot.rows[id]
  <2>1. CASE BootEnds
    BY <2>1 DEF BootEnds, NoBoot, InBoot
  <2>2. ASSUME NEW answered \in BOOLEAN, BootCompares(answered)
        PROVE  /\ boot.pc = "compare" /\ boot'.pc = "running"
               /\ boot'.todo = boot.todo /\ boot'.rows = boot.rows
    BY <2>2 DEF BootCompares, Types, Boots
  <2>3. QED
    BY <2>1, <2>2 DEF InBoot
<1>3. ASSUME NEW i \in Ids PROVE Unaffected(i)
  <2>1. \A v \in Runners : (WorksOn(v, i)' <=> WorksOn(v, i)) /\ job'[v] = job[v]
    BY <1>1 DEF WorksOn, Active
  <2>2. (Unsynced(i)' <=> Unsynced(i)) /\ (QueueAccounted(i)' <=> QueueAccounted(i))
    BY <1>1 DEF Unsynced, QueueAccounted
  <2>3. (InDelete(i)' <=> InDelete(i)) /\ Copies(i)' = Copies(i)
    BY <1>1 DEF InDelete, Copies
  <2>4. QED
    BY <1>1, <1>2, <2>1, <2>2, <2>3 DEF Unaffected
<1>4. SyncInv'
  BY <1>1, <1>3, NoRule
<1>5. WellFormed'
  <2>1. RowsWellFormed' /\ DeleterWellFormed' /\ \A v \in Runners : JobWellFormed(v)'
    BY <1>1, ShapesKept
  <2>2. BootWellFormed'
    <3>1. CASE BootEnds
      BY <3>1, <1>1 DEF BootEnds, NoBoot, WellFormed, BootWellFormed
    <3>2. ASSUME NEW answered \in BOOLEAN, BootCompares(answered)
          PROVE  boot'.pc = "running" /\ boot'.todo = boot.todo /\ boot'.rows = boot.rows
      BY <3>2 DEF BootCompares, Types, Boots
    <3>3. QED
      BY <1>1, <3>1, <3>2 DEF WellFormed, BootWellFormed
  <2>3. QED
    BY <2>1, <2>2 DEF WellFormed, JobsWellFormed
<1>6. QED
  BY <1>4, <1>5

\* The loop takes a rule, as it was when the loop began.
LEMMA BootTakesStep ==
  ASSUME Types, WellFormed, SyncInv, NEW id \in Ids, BootTakes(id)
  PROVE  WellFormed' /\ SyncInv'
<1> USE RuleSyncAssumption DEF RuleSyncAssumption
<1>1. /\ UNCHANGED <<rows, qb, owed, pending, deleter, contended, displaced, faults>>
      /\ boot.pc = "running" /\ id \in boot.todo /\ InBoot(id)
      /\ Boot \in Runners /\ Boot \notin Workers /\ boot.rows[id] \in Row
      /\ job[Boot].pc = "idle" /\ boot.rows[id].name \in Names
      /\ \A v \in Runners \ {Boot} : job'[v] = job[v]
      /\ \A v \in Workers : job'[v] = job[v]
  BY DEF BootTakes, NoJob, Runners, Types, Boots, InBoot, WellFormed, BootWellFormed
<1>2. boot'.pc = "running" /\ boot'.todo = boot.todo \ {id} /\ boot'.rows = boot.rows
  BY DEF BootTakes, Types, Boots
<1>3. PICK row \in Row :
        /\ job' = [job EXCEPT ![Boot] = [NoJob EXCEPT !.pc = FirstStep(boot.rows[id]),
                                                      !.id = id, !.row = row]]
        /\ UserColumns(row) = UserColumns(boot.rows[id]) /\ row.remote = boot.rows[id].remote
        /\ row.status \in {boot.rows[id].status, "drift"}
  <2>1. boot.rows[id] \in Row
    BY <1>1
  <2> DEFINE drifted == [boot.rows[id] EXCEPT !.status = "drift"]
  <2>2. /\ drifted \in Row /\ drifted.remote = boot.rows[id].remote
        /\ drifted.status = "drift" /\ UserColumns(drifted) = UserColumns(boot.rows[id])
    <3>1. drifted \in Row
      BY <2>1 DEF Row, Statuses
    <3>2. QED
      BY <2>1, <3>1 DEF Row, UserColumns
  <2>3. QED
    BY <2>1, <2>2 DEF BootTakes
<1>4. /\ job'[Boot].id = id /\ job'[Boot].row = row /\ job'[Boot].outcome = "ok"
      /\ job'[Boot].pc = IF row.enabled THEN "category" ELSE "lookup"
  <2>1. job'[Boot] = [NoJob EXCEPT !.pc = FirstStep(boot.rows[id]), !.id = id, !.row = row]
    BY <1>1, <1>3 DEF Types
  <2>2. row.enabled = boot.rows[id].enabled
    BY <1>3 DEF UserColumns
  <2>3. QED
    BY <2>1, <2>2 DEF NoJob, FirstStep
<1>5. /\ WorksOn(Boot, id)' /\ \A i \in Ids : ~WorksOn(Boot, i)
      /\ \A i \in Ids \ {id} : ~WorksOn(Boot, i)'
      /\ \A v \in Runners \ {Boot}, i \in Ids : WorksOn(v, i)' <=> WorksOn(v, i)
  BY <1>1, <1>4 DEF WorksOn, Active
<1>6. /\ \A i \in Ids : Unsynced(i)' <=> Unsynced(i)
      /\ \A i \in Ids : QueueAccounted(i)' <=> QueueAccounted(i)
      /\ \A i \in Ids : InDelete(i)' <=> InDelete(i)
      /\ \A i \in Ids : Copies(i)' = Copies(i)
      /\ \A i \in Ids \ {id} : InBoot(i)' <=> InBoot(i)
      /\ ~InBoot(id)'
  BY <1>1, <1>2 DEF Unsynced, QueueAccounted, InDelete, Copies, InBoot
<1>7. \A i \in Ids \ {id} : Unaffected(i)
  BY <1>1, <1>2, <1>5, <1>6 DEF Unaffected
<1>8. RuleInv(id)'
  <2>1. RuleInv(id)
    BY RuleByRule
  <2>2. Accounted(id)'
    <3>1. BootAccounted(id) => BootAccounted(id)'
      BY <1>1, <1>2, <1>3, <1>4, <1>5 DEF BootAccounted, Outcomes
    <3>2. QED
      BY <1>1, <1>6, <2>1, <3>1 DEF RuleInv, Accounted, Live
  <2>3. SUFFICES ASSUME id \notin contended
                 PROVE  /\ OneSession(id)' /\ IsCurrent(id)'
                        /\ id \notin displaced => PublishedIfOk(id)'
                        /\ faults = 0 => CopiesTracked(id)'
    BY <1>1, <2>2 DEF RuleInv
  <2>4. BootIsCurrent(id) /\ ~InDelete(id) /\ \A w \in Runners : ~WorksOn(w, id)
    BY <1>1, <2>1, <2>3 DEF RuleInv, OneSession, IsCurrent
  <2>5. \A w \in Runners : WorksOn(w, id)' => w = Boot
    BY <1>5, <2>4
  <2>6. OneSession(id)'
    BY <1>6, <2>4, <2>5 DEF OneSession
  <2>7. JobIsCurrent(Boot, id)'
    BY <1>1, <1>3, <1>4, <1>6, <2>4 DEF BootIsCurrent, JobIsCurrent, Live
  <2>8. IsCurrent(id)'
    BY <1>6, <2>4, <2>5, <2>7 DEF IsCurrent
  <2>9. ASSUME id \notin displaced PROVE PublishedIfOk(id)'
    <3>1. ~Recording(id)' /\ ~Recording(id)
      BY <1>4, <2>4, <2>5 DEF Recording
    <3>2. Unhealed(id) => Unhealed(id)'
      BY <1>1, <1>2, <1>5 DEF Unhealed
    <3>3. QED
      BY <1>1, <1>6, <2>1, <2>3, <2>9, <3>1, <3>2 DEF RuleInv, PublishedIfOk, Live, Published
  <2>10. ASSUME faults = 0 PROVE CopiesTracked(id)'
    <3>1. CopiesTracked(id)
      BY <2>1, <2>3, <2>10 DEF RuleInv
    <3>2. Copies(id)' \subseteq {rows'[id].remote}
      BY <1>1, <1>6, <2>4, <3>1 DEF CopiesTracked
    <3>3. CopiesDuring(Boot, id)'
      BY <1>4, <3>2 DEF CopiesDuring
    <3>4. QED
      BY <1>1, <1>6, <2>4, <2>5, <3>1, <3>2, <3>3 DEF CopiesTracked, Live
  <2>11. QED
    BY <2>6, <2>8, <2>9, <2>10
<1>9. WellFormed'
  <2>1. RowsWellFormed' /\ DeleterWellFormed' /\ \A v \in Runners \ {Boot} : JobWellFormed(v)'
    BY <1>1, ShapesKept
  <2>2. JobWellFormed(Boot)'
    <3>1. row.name \in Names
      BY <1>1, <1>3 DEF UserColumns
    <3>2. QED
      BY <1>1, <1>4, <3>1 DEF JobWellFormed, Active
  <2>3. BootWellFormed'
    BY <1>1, <1>2, <1>4 DEF WellFormed, BootWellFormed
  <2>4. QED
    BY <2>1, <2>2, <2>3 DEF WellFormed, JobsWellFormed
<1>10. QED
  BY <1>1, <1>7, <1>8, <1>9, OneRule

-----------------------------------------------------------------------------
\* A deletion: from here on nothing is promised of the rule's copy in qB, until
\* the row is gone or the failure is recorded.
LEMMA DeleterStep ==
  ASSUME Types, SyncInv, NEW id \in Ids, \A i \in Ids \ {id} : ~InDelete(i) /\ ~InDelete(i)',
         UNCHANGED <<owed, pending, job, boot>>,
         \A i \in Ids \ {id} : rows'[i] = rows[i],
         contended \subseteq contended', displaced \subseteq displaced',
         faults' \in {faults, faults + 1},
         \A i \in Ids \ {id} : /\ Live(i) /\ i \notin displaced'
                                    => qb'[rows[i].name] = qb[rows[i].name]
                               /\ Copies(i)' \subseteq Copies(i),
         RuleInv(id)'
  PROVE  SyncInv'
<1>1. ASSUME NEW i \in Ids \ {id} PROVE Unaffected(i)
  <2>1. \A v \in Runners : (WorksOn(v, i)' <=> WorksOn(v, i)) /\ job'[v] = job[v]
    BY DEF WorksOn, Active
  <2>2. (Unsynced(i)' <=> Unsynced(i)) /\ (QueueAccounted(i)' <=> QueueAccounted(i))
    BY DEF Unsynced, QueueAccounted
  <2>3. (InBoot(i)' <=> InBoot(i)) /\ boot' = boot
    BY DEF InBoot
  <2>4. QED
    BY <1>1, <2>1, <2>2, <2>3 DEF Unaffected
<1>2. QED
  BY <1>1, OneRule

LEMMA DeleterShapes ==
  ASSUME Types, WellFormed, UNCHANGED <<job, boot>>, faults' \in {faults, faults + 1}
  PROVE  JobsWellFormed' /\ BootWellFormed'
<1>1. faults' = 0 => faults = 0
  BY DEF Types
<1>2. ASSUME NEW w \in Runners PROVE JobWellFormed(w)'
  BY <1>1, <1>2 DEF WellFormed, JobsWellFormed, JobWellFormed, Active
<1>3. QED
  BY <1>2 DEF WellFormed, JobsWellFormed, BootWellFormed

LEMMA SessionsKept ==
  ASSUME UNCHANGED <<owed, pending, job, boot>>, NEW id \in Ids
  PROVE  /\ \A w \in Runners : WorksOn(w, id)' <=> WorksOn(w, id)
         /\ Unsynced(id)' <=> Unsynced(id)
         /\ QueueAccounted(id)' <=> QueueAccounted(id)
         /\ BootAccounted(id)' <=> BootAccounted(id)
         /\ InBoot(id)' <=> InBoot(id)
         /\ Recording(id)' <=> Recording(id)
BY DEF WorksOn, Active, Unsynced, QueueAccounted, BootAccounted, InBoot, Recording

LEMMA OpenDeleteStep ==
  ASSUME Types, WellFormed, SyncInv, NEW id \in Ids, OpenDelete(id)
  PROVE  WellFormed' /\ SyncInv'
<1> USE RuleSyncAssumption DEF RuleSyncAssumption
<1>1. /\ UNCHANGED <<rows, qb, owed, pending, job, boot, displaced, faults>>
      /\ deleter.pc = "idle" /\ Live(id)
      /\ deleter' = [pc |-> "remove", id |-> id, row |-> rows[id]]
      /\ contended \subseteq contended'
      /\ id \notin contended' => ~HeldByOthers(NoId, id)
  BY DEF OpenDelete
<1>2. /\ \A i \in Ids : ~InDelete(i)
      /\ InDelete(id)' /\ \A i \in Ids \ {id} : ~InDelete(i)'
      /\ \A i \in Ids : Copies(i)' = Copies(i)
  BY <1>1 DEF InDelete, Copies
<1>3. RuleInv(id)'
  <2>1. RuleInv(id)
    BY RuleByRule
  <2>2. Accounted(id)'
    BY <1>1, <2>1, SessionsKept DEF RuleInv, Accounted, Live
  <2>3. SUFFICES ASSUME id \notin contended'
                 PROVE  /\ OneSession(id)' /\ IsCurrent(id)' /\ PublishedIfOk(id)'
                        /\ faults = 0 => CopiesTracked(id)'
    BY <1>1, <2>2 DEF RuleInv
  <2>4. ~InBoot(id) /\ \A w \in Runners : ~WorksOn(w, id)
    BY <1>1, <2>3 DEF HeldByOthers, InBoot, WorksOn, Active, Runners
  <2>5. ~InBoot(id)' /\ \A w \in Runners : ~WorksOn(w, id)'
    BY <1>1, <2>4, SessionsKept
  <2>6. OneSession(id)' /\ IsCurrent(id)'
    BY <1>1, <2>5 DEF OneSession, IsCurrent, DeleterIsCurrent
  <2>7. PublishedIfOk(id)'
    BY <1>2, <2>5 DEF PublishedIfOk, Recording
  <2>8. ASSUME faults = 0 PROVE CopiesTracked(id)'
    <3>1. CopiesTracked(id)
      BY <1>1, <2>1, <2>3, <2>8 DEF RuleInv
    <3>2. QED
      BY <1>1, <1>2, <2>4, <2>5, <3>1, SessionsKept DEF CopiesTracked, Live
  <2>9. QED
    BY <2>6, <2>7, <2>8
<1>4. SyncInv'
  BY <1>1, <1>2, <1>3, DeleterStep
<1>5. WellFormed'
  <2>1. JobsWellFormed' /\ BootWellFormed'
    BY <1>1, DeleterShapes
  <2>2. RowsWellFormed' /\ DeleterWellFormed'
    BY <1>1 DEF WellFormed, RowsWellFormed, DeleterWellFormed, Live
  <2>3. QED
    BY <2>1, <2>2 DEF WellFormed
<1>6. QED
  BY <1>4, <1>5

LEMMA DeleteRemoteStep ==
  ASSUME Types, WellFormed, SyncInv, NEW reply \in Replies, DeleteRemote(reply)
  PROVE  WellFormed' /\ SyncInv'
<1> USE RuleSyncAssumption DEF RuleSyncAssumption
<1>1. /\ UNCHANGED <<rows, owed, pending, job, boot, contended>>
      /\ deleter.pc = "remove" /\ Fault(reply)
  BY DEF DeleteRemote
<1>2. PICK id \in Ids : id = deleter.id /\ Live(id) /\ rows[id].name \in Names
  BY <1>1 DEF WellFormed, DeleterWellFormed, RowsWellFormed
<1>3. PICK name \in Names \cup {NoName} :
        /\ name = IF deleter.row.remote # NoName THEN deleter.row.remote
                                                  ELSE deleter.row.name
        /\ WriteRemote(id, name, NoPayload, reply)
  BY <1>2 DEF DeleteRemote, RemoveRemote, Types, Deleters, Row
<1>4. /\ deleter'.id = id /\ deleter'.row = deleter.row
      /\ deleter'.pc = IF reply = "answered" THEN "delete"
                       ELSE IF reply = "refused" THEN "error" ELSE "transient"
  BY <1>2 DEF DeleteRemote, Types, Deleters
<1>5. /\ faults' \in {faults, faults + 1}
      /\ faults' = 0 => faults = 0 /\ reply = "answered"
  BY <1>1, FaultCounts
<1>6. /\ displaced \subseteq displaced'
      /\ \A i \in Ids \ {id} : /\ Live(i) /\ i \notin displaced'
                                    => qb'[rows[i].name] = qb[rows[i].name]
                               /\ Copies(i)' \subseteq Copies(i)
      /\ \A n \in Names : n # name => qb'[n] = qb[n]
      /\ name # NoName /\ reply = "answered" => qb'[name] = NoPayload
      /\ name = NoName => qb' = qb
  <2>1. NoPayload \in Payloads /\ NoPayload.rule \in {id, NoId}
    BY RestingTypes DEF NoPayload
  <2>2. QED
    BY <1>3, <2>1, RemoteWrites DEF WellFormed
<1>7. /\ InDelete(id) /\ InDelete(id)'
      /\ \A i \in Ids \ {id} : ~InDelete(i) /\ ~InDelete(i)'
  BY <1>1, <1>2, <1>4 DEF InDelete
<1>8. RuleInv(id)'
  <2>1. RuleInv(id)
    BY RuleByRule
  <2>2. Accounted(id)'
    BY <1>1, <1>5, <2>1, SessionsKept DEF RuleInv, Accounted, Live, Types
  <2>3. SUFFICES ASSUME id \notin contended
                 PROVE  /\ OneSession(id)' /\ IsCurrent(id)' /\ PublishedIfOk(id)'
                        /\ faults' = 0 => CopiesTracked(id)'
    BY <1>1, <2>2 DEF RuleInv
  <2>4. DeleterIsCurrent(id) /\ ~InBoot(id) /\ \A w \in Runners : ~WorksOn(w, id)
    BY <1>7, <2>1, <2>3 DEF RuleInv, OneSession, IsCurrent
  <2>5. ~InBoot(id)' /\ \A w \in Runners : ~WorksOn(w, id)'
    BY <1>1, <2>4, SessionsKept
  <2>6. OneSession(id)' /\ IsCurrent(id)'
    <3>1. DeleterIsCurrent(id)'
      BY <1>1, <1>4, <2>4, SessionsKept DEF DeleterIsCurrent
    <3>2. QED
      BY <2>5, <3>1 DEF OneSession, IsCurrent
  <2>7. PublishedIfOk(id)'
    BY <1>7, <2>5 DEF PublishedIfOk, Recording
  <2>8. ASSUME faults' = 0 PROVE CopiesTracked(id)'
    <3>1. CopiesTracked(id) /\ reply = "answered"
      BY <1>5, <2>1, <2>3, <2>8 DEF RuleInv
    <3>2. Copies(id) \subseteq {rows[id].remote}
      BY <2>4, <3>1 DEF CopiesTracked
    <3>3. rows[id].remote # NoName => name = rows[id].remote
      BY <1>3, <2>4 DEF DeleterIsCurrent
    <3>4. Copies(id)' = {}
      <4>1. SUFFICES ASSUME NEW n \in Names, qb'[n].rule = id PROVE FALSE
        BY DEF Copies
      <4>2. n # name
        BY <1>6, <3>1, <4>1 DEF NoPayload
      <4>3. n \in Copies(id)
        BY <1>6, <4>1, <4>2 DEF Copies
      <4>4. QED
        BY <3>2, <3>3, <4>2, <4>3
    <3>5. QED
      BY <1>1, <2>5, <3>1, <3>4, SessionsKept DEF CopiesTracked, Live
  <2>9. QED
    BY <2>6, <2>7, <2>8
<1>9. SyncInv'
  BY <1>1, <1>5, <1>6, <1>7, <1>8, DeleterStep
<1>10. WellFormed'
  <2>1. JobsWellFormed' /\ BootWellFormed'
    BY <1>1, <1>5, DeleterShapes
  <2>2. RowsWellFormed' /\ DeleterWellFormed'
    BY <1>1, <1>2, <1>4, <1>5 DEF WellFormed, RowsWellFormed, DeleterWellFormed, Live
  <2>3. QED
    BY <2>1, <2>2 DEF WellFormed
<1>11. QED
  BY <1>9, <1>10

LEMMA DeleteLocalStep ==
  ASSUME Types, WellFormed, SyncInv, DeleteLocal
  PROVE  WellFormed' /\ SyncInv'
<1> USE RuleSyncAssumption DEF RuleSyncAssumption
<1>1. /\ UNCHANGED <<qb, owed, pending, job, boot, contended, displaced, faults>>
      /\ deleter.pc = "delete" /\ deleter' = NoDelete
  BY DEF DeleteLocal
<1>2. PICK id \in Ids : id = deleter.id /\ Live(id) /\ InDelete(id)
  BY <1>1 DEF WellFormed, DeleterWellFormed, InDelete
<1>3. /\ rows'[id].life = "gone" /\ rows'[id].remote = NoName
      /\ \A i \in Ids \ {id} : rows'[i] = rows[i]
  BY <1>2 DEF DeleteLocal, Types, NoRow
<1>4. /\ ~InDelete(id)'
      /\ \A i \in Ids \ {id} : ~InDelete(i) /\ ~InDelete(i)'
      /\ \A i \in Ids : Copies(i)' = Copies(i)
  BY <1>1, <1>2 DEF InDelete, NoDelete, Copies
<1>5. ~Live(id)'
  BY <1>3 DEF Live
<1>6. RuleInv(id)'
  <2>1. RuleInv(id)
    BY RuleByRule
  <2>2. SUFFICES ASSUME id \notin contended
                 PROVE  /\ OneSession(id)' /\ IsCurrent(id)'
                        /\ faults = 0 => CopiesTracked(id)'
    BY <1>1, <1>5 DEF RuleInv, Accounted, PublishedIfOk
  <2>3. ~InBoot(id) /\ \A w \in Runners : ~WorksOn(w, id)
    BY <1>2, <2>1, <2>2 DEF RuleInv, OneSession
  <2>4. ~InBoot(id)' /\ \A w \in Runners : ~WorksOn(w, id)'
    BY <1>1, <2>3, SessionsKept
  <2>5. ASSUME faults = 0 PROVE CopiesTracked(id)'
    <3>1. Copies(id) = {}
      BY <1>1, <1>2, <2>1, <2>2, <2>5 DEF RuleInv, CopiesTracked
    <3>2. QED
      BY <1>4, <1>5, <2>4, <3>1 DEF CopiesTracked
  <2>6. QED
    BY <1>4, <2>4, <2>5 DEF OneSession, IsCurrent
<1>7. SyncInv'
  <2>1. faults' \in {faults, faults + 1} /\ contended' = contended /\ displaced' = displaced
    BY <1>1
  <2>2. QED
    BY <1>1, <1>3, <1>4, <1>6, <2>1, DeleterStep
<1>8. WellFormed'
  <2>1. JobsWellFormed' /\ BootWellFormed'
    BY <1>1, DeleterShapes
  <2>2. RowsWellFormed'
    BY <1>3, <1>5 DEF WellFormed, RowsWellFormed, Live
  <2>3. DeleterWellFormed'
    BY <1>1 DEF NoDelete, DeleterWellFormed
  <2>4. QED
    BY <2>1, <2>2, <2>3 DEF WellFormed
<1>9. QED
  BY <1>7, <1>8

LEMMA DeleteFailsStep ==
  ASSUME Types, WellFormed, SyncInv, DeleteFails
  PROVE  WellFormed' /\ SyncInv'
<1> USE RuleSyncAssumption DEF RuleSyncAssumption
<1>1. /\ UNCHANGED <<qb, owed, pending, job, boot, contended, displaced, faults>>
      /\ deleter.pc \in {"error", "transient"} /\ deleter' = NoDelete /\ faults # 0
  BY DEF DeleteFails, WellFormed, DeleterWellFormed
<1>2. PICK id \in Ids : id = deleter.id /\ Live(id) /\ InDelete(id) /\ rows[id] \in Row
  BY <1>1 DEF WellFormed, DeleterWellFormed, InDelete, Types
<1>3. PICK s \in Statuses :
        /\ s = IF deleter.row.status = deleter.pc THEN rows[id].status ELSE deleter.pc
        /\ rows'[id] = [rows[id] EXCEPT !.status = s]
        /\ \A i \in Ids \ {id} : rows'[i] = rows[i]
  <2>1. rows' = [rows EXCEPT ![id] = [rows[id] EXCEPT
                   !.status = Written(rows[id].status, deleter.row.status, deleter.pc)]]
    BY <1>2 DEF DeleteFails, Types
  <2>2. Written(rows[id].status, deleter.row.status, deleter.pc) \in Statuses
    BY <1>1, <1>2 DEF Written, Row, Statuses
  <2>3. QED
    BY <1>1, <1>2, <2>1, <2>2 DEF Written, Types
<1>4. /\ Kept(id) /\ rows'[id].remote = rows[id].remote /\ rows'[id].status = s
      /\ rows'[id].life = rows[id].life
      /\ rows'[id].name = rows[id].name /\ rows'[id].enabled = rows[id].enabled
      /\ rows'[id].content = rows[id].content
  BY <1>3, StatusKept DEF Kept, UserColumns
<1>5. /\ ~InDelete(id)'
      /\ \A i \in Ids \ {id} : ~InDelete(i) /\ ~InDelete(i)'
      /\ \A i \in Ids : Copies(i)' = Copies(i)
  BY <1>1, <1>2 DEF InDelete, NoDelete, Copies
<1>6. RuleInv(id)'
  <2>1. RuleInv(id)
    BY RuleByRule
  <2>2. Accounted(id)'
    <3>1. s \in {"pending", "syncing"} => s = rows[id].status
      BY <1>1, <1>3
    <3>2. QED
      BY <1>1, <1>2, <1>4, <2>1, <3>1, SessionsKept DEF RuleInv, Accounted
  <2>3. SUFFICES ASSUME id \notin contended
                 PROVE  /\ OneSession(id)' /\ IsCurrent(id)'
                        /\ id \notin displaced => PublishedIfOk(id)'
    BY <1>1, <2>2 DEF RuleInv
  <2>4. ~InBoot(id) /\ DeleterIsCurrent(id) /\ \A w \in Runners : ~WorksOn(w, id)
    BY <1>2, <2>1, <2>3 DEF RuleInv, OneSession, IsCurrent
  <2>5. ~InBoot(id)' /\ \A w \in Runners : ~WorksOn(w, id)'
    BY <1>1, <2>4, SessionsKept
  <2>6. PublishedIfOk(id)'
    <3>1. ~Recording(id)' /\ (Unsynced(id)' <=> Unsynced(id))
      BY <1>1, <2>5, SessionsKept DEF Recording
    <3>2. ~Unsynced(id) => s # "ok"
      BY <1>1, <1>3, <2>4 DEF DeleterIsCurrent
    <3>3. QED
      BY <1>4, <3>1, <3>2 DEF PublishedIfOk
  <2>7. QED
    BY <1>5, <2>5, <2>6 DEF OneSession, IsCurrent
<1>7. SyncInv'
  <2>1. faults' \in {faults, faults + 1} /\ contended' = contended /\ displaced' = displaced
    BY <1>1
  <2>2. QED
    BY <1>1, <1>3, <1>5, <1>6, <2>1, DeleterStep
<1>8. WellFormed'
  <2>1. JobsWellFormed' /\ BootWellFormed'
    BY <1>1, DeleterShapes
  <2>2. RowsWellFormed'
    BY <1>3, <1>4 DEF WellFormed, RowsWellFormed, Live
  <2>3. DeleterWellFormed'
    BY <1>1 DEF NoDelete, DeleterWellFormed
  <2>4. QED
    BY <2>1, <2>2, <2>3 DEF WellFormed
<1>9. QED
  BY <1>7, <1>8

-----------------------------------------------------------------------------
\* A crash forgets every session; what it leaves behind is what the startup
\* reconciliation accounts for.
LEMMA CrashStep ==
  ASSUME Types, WellFormed, SyncInv, Crash
  PROVE  WellFormed' /\ SyncInv'
<1> USE RuleSyncAssumption DEF RuleSyncAssumption
<1>1. /\ UNCHANGED <<rows, qb, contended, displaced>> /\ faults' > 0
      /\ boot'.pc = "load" /\ boot'.todo = {} /\ deleter'.pc = "idle"
      /\ \A w \in Runners : job'[w] = NoJob /\ job'[w].pc = "idle"
      /\ Boot \in Runners
  BY DEF Crash, Types, NoBoot, NoDelete, NoJob, Runners
<1>2. ASSUME NEW id \in Ids PROVE RuleInv(id)'
  <2>1. ~InBoot(id)' /\ ~InDelete(id)' /\ \A w \in Runners : ~WorksOn(w, id)'
    BY <1>1 DEF InBoot, InDelete, WorksOn, Active
  <2>2. Accounted(id)'
    BY <1>1 DEF Accounted, BootAccounted
  <2>3. PublishedIfOk(id)'
    BY <1>1, <2>1 DEF PublishedIfOk, Recording, Unhealed
  <2>4. QED
    BY <1>1, <2>1, <2>2, <2>3 DEF RuleInv, OneSession, IsCurrent
<1>3. SyncInv'
  BY <1>2, RuleByRule
<1>4. WellFormed'
  <2>1. JobsWellFormed'
    BY <1>1 DEF JobsWellFormed, JobWellFormed, Active, NoJob
  <2>2. BootWellFormed' /\ RowsWellFormed' /\ DeleterWellFormed'
    BY <1>1 DEF WellFormed, BootWellFormed, RowsWellFormed, DeleterWellFormed, Live
  <2>3. QED
    BY <2>1, <2>2 DEF WellFormed
<1>5. QED
  BY <1>3, <1>4

LEMMA InitIInv == Init => IInv
<1> USE RuleSyncAssumption DEF RuleSyncAssumption
<1>1. SUFFICES ASSUME Init PROVE IInv
  OBVIOUS
<1>2. PICK first \in [Existing -> Names] :
        /\ \A id \in Existing : first[id] \in NamesOf[id]
        /\ \A a, b \in Existing : a # b => first[a] # first[b]
        /\ rows = [id \in Ids |->
                     IF id \in Existing
                     THEN [NoRow EXCEPT !.life = "live", !.name = first[id],
                                        !.enabled = TRUE, !.remote = first[id],
                                        !.status = "ok"]
                     ELSE NoRow]
        /\ qb = [n \in Names |->
                   IF \E id \in Existing : first[id] = n
                   THEN [rule |-> CHOOSE id \in Existing : first[id] = n, content |-> 0]
                   ELSE NoPayload]
  BY <1>1 DEF Init
<1>3. /\ owed = {} /\ pending = {} /\ boot.pc = "load" /\ boot.todo = {}
      /\ ~form.open /\ deleter.pc = "idle" /\ contended = {} /\ displaced = {}
      /\ \A w \in Runners : job[w] = NoJob /\ job[w].pc = "idle"
      /\ Boot \in Runners /\ faults = 0
      /\ saved = [id \in Ids |-> UserColumns(rows[id])]
  BY <1>1 DEF Init, NoBoot, NoForm, NoDelete, NoJob, Runners
<1>4. \A id \in Existing :
        /\ rows[id].life = "live" /\ rows[id].name = first[id] /\ rows[id].enabled
        /\ rows[id].remote = first[id] /\ rows[id].status = "ok" /\ rows[id].content = 0
        /\ rows[id] \in Row
  BY <1>2 DEF NoRow, Row, Statuses
<1>5. \A id \in Ids \ Existing : rows[id] = NoRow /\ ~Live(id)
  BY <1>2 DEF NoRow, Live
<1>6. \A id \in Existing : qb[first[id]] = [rule |-> id, content |-> 0]
  <2>1. SUFFICES ASSUME NEW id \in Existing PROVE qb[first[id]] = [rule |-> id, content |-> 0]
    OBVIOUS
  <2>2. (CHOOSE i \in Existing : first[i] = first[id]) = id
    BY <1>2
  <2>3. QED
    BY <1>2, <2>2
<1>7. \A n \in Names : /\ qb[n].rule \in Ids => qb[n].rule \in Existing /\ first[qb[n].rule] = n
                       /\ qb[n] \in Payloads
  <2>1. SUFFICES ASSUME NEW n \in Names
                 PROVE  /\ qb[n].rule \in Ids => qb[n].rule \in Existing /\ first[qb[n].rule] = n
                        /\ qb[n] \in Payloads
    OBVIOUS
  <2>2. ASSUME NEW id \in Existing, first[id] = n
        PROVE  qb[n].rule = id /\ qb[n] \in Payloads
    <3>1. qb[n] = [rule |-> id, content |-> 0]
      BY <1>6, <2>2
    <3>2. QED
      BY <3>1 DEF Payloads
  <2>3. CASE ~\E id \in Existing : first[id] = n
    BY <1>2, <2>3, RestingTypes DEF NoPayload
  <2>4. QED
    BY <2>2, <2>3
<1>8. Types
  <2>1. rows \in [Ids -> Row]
    BY <1>2, <1>4, <1>5, RestingTypes
  <2>2. qb \in [Names -> Payloads]
    BY <1>2, <1>7
  <2>3. saved \in [Ids -> Saves]
    BY <1>3, <2>1, RestingTypes
  <2>4. job \in [Runners -> Jobs]
    BY <1>1, RestingTypes DEF Init
  <2>5. boot \in Boots /\ form \in Forms /\ deleter \in Deleters
    BY <1>1, RestingTypes DEF Init
  <2>6. /\ owed = {} /\ pending = {} /\ recovering = {} /\ contended = {} /\ displaced = {}
        /\ actions = 0 /\ faults = 0
    BY <1>1 DEF Init
  <2>7. QED
    BY <2>1, <2>2, <2>3, <2>4, <2>5, <2>6 DEF Types
<1>9. NamesUnique /\ UserEditsSurvive /\ FormIsCurrent
  <2>1. NamesUnique
    <3>1. SUFFICES ASSUME NEW a \in Ids, NEW b \in Ids, a # b, Live(a), Live(b)
                   PROVE  rows[a].name # rows[b].name
      BY DEF NamesUnique
    <3>2. a \in Existing /\ b \in Existing
      BY <1>5, <3>1
    <3>3. first[a] # first[b]
      BY <1>2, <3>1, <3>2
    <3>4. rows[a].name = first[a] /\ rows[b].name = first[b]
      BY <1>4, <3>2
    <3>5. QED
      BY <3>3, <3>4
  <2>2. UserEditsSurvive
    BY <1>3 DEF UserEditsSurvive
  <2>3. FormIsCurrent
    BY <1>3 DEF FormIsCurrent
  <2>4. QED
    BY <2>1, <2>2, <2>3
<1>10. WellFormed
  <2>1. JobsWellFormed
    BY <1>3 DEF JobsWellFormed, JobWellFormed, Active, NoJob
  <2>2. BootWellFormed /\ DeleterWellFormed
    BY <1>3 DEF BootWellFormed, DeleterWellFormed
  <2>3. RowsWellFormed
    BY <1>4, <1>5 DEF RowsWellFormed, Live, NoRow
  <2>4. QED
    BY <2>1, <2>2, <2>3 DEF WellFormed
<1>11. ASSUME NEW id \in Ids PROVE RuleInv(id)
  <2>1. ~InBoot(id) /\ ~InDelete(id) /\ \A w \in Runners : ~WorksOn(w, id)
    BY <1>3 DEF InBoot, InDelete, WorksOn, Active
  <2>2. CASE id \in Existing
    <3>1. Published(id)
      BY <1>4, <1>6, <2>2 DEF Published, Payload
    <3>2. Copies(id) \subseteq {rows[id].remote}
      BY <1>4, <1>7, <2>2 DEF Copies
    <3>3. QED
      BY <1>4, <2>1, <2>2, <3>1, <3>2
      DEF RuleInv, Accounted, OneSession, IsCurrent, PublishedIfOk, CopiesTracked
  <2>3. CASE id \notin Existing
    <3>1. ~Live(id)
      BY <1>5, <2>3
    <3>2. Copies(id) = {}
      BY <1>7, <2>3 DEF Copies
    <3>3. QED
      BY <2>1, <3>1, <3>2
      DEF RuleInv, Accounted, OneSession, IsCurrent, PublishedIfOk, CopiesTracked
  <2>4. QED
    BY <2>2, <2>3
<1>12. SyncInv
  BY <1>11, RuleByRule
<1>13. QED
  BY <1>8, <1>9, <1>10, <1>12 DEF IInv

LEMMA NextIInv == IInv /\ [Next]_vars => IInv'
<1> SUFFICES ASSUME IInv, [Next]_vars PROVE IInv'
  OBVIOUS
<1> USE DEF IInv
<1>1. Types'
  BY TypesStep DEF FormIsCurrent, WellFormed, JobsWellFormed, JobWellFormed
<1>2. NamesUnique' /\ UserEditsSurvive' /\ FormIsCurrent'
  BY DatabaseStep DEF WellFormed
<1>3. WellFormed' /\ SyncInv'
  <2>1. CASE UserNext
    BY <2>1, RequestsAreQuiet, MovesAreQuiet, QuietStep, OpenDeleteStep, DeleteRemoteStep,
       DeleteLocalStep, DeleteFailsStep DEF UserNext
  <2>2. CASE SyncNext
    BY <2>2, MovesAreQuiet, QuietStep, LoadRuleStep, BootLoadsStep, BootMovesStep,
       BootTakesStep, QbCallStep, RecordOutcomeStep, SyncRaisesStep DEF SyncNext
  <2>3. CASE RecoveryNext
    BY <2>3, RequestsAreQuiet, MovesAreQuiet, QuietStep DEF RecoveryNext
  <2>4. CASE Crash
    BY <2>4, CrashStep
  <2>5. CASE UNCHANGED vars
    BY <2>5, MovesAreQuiet, QuietStep
  <2>6. QED
    BY <2>1, <2>2, <2>3, <2>4, <2>5 DEF Next
<1>4. QED
  BY <1>1, <1>2, <1>3

\* The inductive invariant holds in every reachable state.
THEOREM SyncInvariance == Spec => []IInv
BY InitIInv, NextIInv, PTL DEF Spec

\* Every variable stays in its range, and no two live rules share a name.
THEOREM SyncTypesHold == Spec => []TypeOK
<1>1. IInv => TypeOK
  BY TypeOKParts DEF IInv
<1>2. QED
  BY <1>1, SyncInvariance, PTL

\* The database is the editing source of truth: what the user saved last is what
\* the rows hold, although every session commits a row it loaded earlier.
THEOREM EditsSurvive == Spec => []UserEditsSurvive
<1>1. IInv => UserEditsSurvive
  BY DEF IInv
<1>2. QED
  BY <1>1, SyncInvariance, PTL

\* Nothing works on a rule when nothing is left to do.
LEMMA QuietWhenQuiescent ==
  ASSUME Quiescent, NEW id \in Ids
  PROVE  /\ ~Unsynced(id) /\ ~QueueAccounted(id) /\ ~InBoot(id) /\ ~InDelete(id)
         /\ \A w \in Runners : ~WorksOn(w, id)
         /\ faults > 0 => ~BootAccounted(id) /\ ~Unhealed(id)
<1>1. \A w \in Runners : job[w].pc = "idle"
  BY DEF Quiescent, NoJob
<1>2. boot.pc \in {"done", "aborted"} /\ (boot.pc = "aborted" => faults = 0)
  BY DEF Quiescent
<1>3. ~Unsynced(id) /\ ~QueueAccounted(id) /\ \A w \in Runners : ~WorksOn(w, id)
  BY <1>1 DEF Quiescent, Unsynced, QueueAccounted, WorksOn, Active, Runners
<1>4. ~InBoot(id) /\ ~InDelete(id)
  BY <1>2 DEF Quiescent, InBoot, InDelete
<1>5. faults > 0 => ~BootAccounted(id) /\ ~Unhealed(id)
  BY <1>2, <1>3, <1>4 DEF BootAccounted, Unhealed, Runners
<1>6. QED
  BY <1>3, <1>4, <1>5

\* Whatever failed or crashed on the way, no rule is left "pending" or "syncing"
\* once everything has been worked off.
THEOREM Settles == Spec => []SettledWhenQuiescent
<1>1. IInv => SettledWhenQuiescent
  BY QuietWhenQuiescent, RuleByRule DEF IInv, SettledWhenQuiescent, RuleInv, Accounted
<1>2. QED
  BY <1>1, SyncInvariance, PTL

\* "ok" can be trusted: unless two actors synced the rule at the same time or
\* another rule's sync wrote under its name, qB holds what the user saved last.
THEOREM OkIsPublished == Spec => []PublishedUnlessContended
<1>1. IInv => PublishedUnlessContended
  <2>1. SUFFICES ASSUME IInv, Quiescent, NEW id \in Ids \ (contended \cup displaced),
                        Live(id), rows[id].enabled, rows[id].status = "ok"
                 PROVE  Published(id)
    BY DEF PublishedUnlessContended
  <2>2. PublishedIfOk(id) /\ id \in Ids
    BY <2>1, RuleByRule DEF IInv, RuleInv
  <2>3. ~Unsynced(id) /\ ~InDelete(id) /\ ~Unhealed(id)
    BY <2>1, <2>2, QuietWhenQuiescent DEF Unhealed
  <2>4. QED
    BY <2>1, <2>2, <2>3 DEF PublishedIfOk
<1>2. QED
  BY <1>1, SyncInvariance, PTL

\* While nothing has failed, a deleted rule and a disabled one that says "ok"
\* leave no copy in qB, under any name.
THEOREM WithdrawnForGood == Spec => []WithdrawnUnlessContended
<1>1. IInv => WithdrawnUnlessContended
  <2>1. SUFFICES ASSUME IInv, Quiescent, faults = 0, NEW id \in Ids \ contended,
                        \/ rows[id].life = "gone"
                        \/ Live(id) /\ ~rows[id].enabled /\ rows[id].status = "ok"
                 PROVE  Copies(id) = {}
    BY DEF WithdrawnUnlessContended, Copies
  <2>2. CopiesTracked(id) /\ id \in Ids
    BY <2>1, RuleByRule DEF IInv, RuleInv
  <2>3. ~Unsynced(id) /\ \A w \in Runners : ~WorksOn(w, id)
    BY <2>1, <2>2, QuietWhenQuiescent
  <2>4. rows[id].remote = NoName
    BY <2>1, <2>2, <2>3 DEF CopiesTracked, IInv, WellFormed, RowsWellFormed, Live
  <2>5. QED
    BY <2>2, <2>3, <2>4, RuleSyncAssumption DEF CopiesTracked, Copies, RuleSyncAssumption
<1>2. QED
  BY <1>1, SyncInvariance, PTL

=============================================================================
