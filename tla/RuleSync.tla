------------------------------ MODULE RuleSync ------------------------------
(***************************************************************************)
(* Rules in SQLite and their copies in qBittorrent: SyncService            *)
(* (app/services/sync.py) run by the sync queue's threads, by the startup  *)
(* reconciliation and by the delete route, beside the routes that save     *)
(* rules (app/routes/api.py) and the recovery scheduler                    *)
(* (app/services/qb_recovery_scheduler.py).                                *)
(*                                                                         *)
(* Sessions are opened with autoflush=False and expire_on_commit=False     *)
(* (app/db.py:54), so every actor works on the row it loaded first and     *)
(* its commit writes the columns whose value differs from what it loaded.  *)
(* The queue is its promise, WorkQueue: a set of waiting ids that coalesce.*)
(***************************************************************************)
EXTENDS Naturals, FiniteSets

CONSTANTS Ids,        \* primary keys of the rules table
          Names,      \* rule names
          NoName, NoId,
          Workers,    \* threads of the sync queue
          Boot,       \* the startup reconciliation thread
          NamesOf,    \* NamesOf[id]: the names the user may give the rule
          Existing,   \* rules that are in the database when the application starts
          MaxActions, \* bound on user actions (model checking only)
          MaxFaults   \* bound on failed qB calls, exceptions and crashes, together

ASSUME RuleSyncAssumption ==
  /\ NoName \notin Names
  /\ NoId \notin Ids
  /\ Boot \notin Workers
  /\ NoId \notin Workers \cup {Boot}
  /\ NamesOf \in [Ids -> SUBSET Names]
  /\ Existing \subseteq Ids
  /\ MaxActions \in Nat /\ MaxFaults \in Nat

VARIABLES
  rows,        \* the rules table
  qb,          \* qBittorrent's RSS rules by name
  owed,        \* committed, enqueue_rule_sync not called yet
  pending,     \* ids waiting in the sync queue
  job,         \* what each runner does, and the row its session holds
  boot,        \* the startup reconciliation and the rows its session holds
  form,        \* an open update_rule request and the row its session holds
  deleter,     \* an open delete_rule request and the row its session holds
  recovering,  \* candidates of the running recovery tick
  saved,       \* history: the columns the user saved last
  contended,   \* history: rules two actors synced at the same time
  displaced,   \* history: rules whose name in qB another rule's sync wrote to
  actions, faults

syncVars == <<rows, qb, owed, pending, job, boot, form, deleter,
              recovering>>
vars == <<rows, qb, owed, pending, job, boot, form, deleter,
          recovering, saved, contended, displaced, actions, faults>>

Runners == Workers \cup {Boot}

-----------------------------------------------------------------------------
\* SyncStatus; an ERROR whose text carries one of _TRANSIENT_ERROR_MARKERS is
\* "transient".  NEVER is not set by the code modelled here; DRIFT is flushed by
\* sync_all but replaced before its commit.
Statuses == {"pending", "syncing", "ok", "error", "transient", "drift"}

\* A row: the columns of class Rule that sync reads and writes.  content stands
\* for the columns of the form that the qB payload depends on.  feed_urls and
\* search_indexers are left out: a sync derives them anew from the language and
\* from what Jackett lists (_refresh_language_feeds_for_rules).
Row == [life : {"unborn", "live", "gone"},
        name : Names \cup {NoName},
        enabled : BOOLEAN,
        content : Nat,
        remote : Names \cup {NoName},   \* remote_rule_name_last_synced
        status : Statuses]

NoRow == [life |-> "unborn", name |-> NoName, enabled |-> FALSE, content |-> 0,
          remote |-> NoName, status |-> "pending"]

UserColumns(row) == [name |-> row.name, enabled |-> row.enabled, content |-> row.content]

\* RuleBuilder.build_qb_rule: the payload is a function of the rule's columns.
Payload(id, row) == [rule |-> id, content |-> row.content]

NoPayload == [rule |-> NoId, content |-> 0]

JobPcs == {"idle", "load", "category", "retire", "publish", "lookup", "withdraw",
           "prune", "record"}

NoJob == [pc |-> "idle", id |-> NoId, row |-> NoRow, target |-> NoName, outcome |-> "ok"]

NoForm == [open |-> FALSE, id |-> NoId, row |-> NoRow]

NoDelete == [pc |-> "idle", id |-> NoId, row |-> NoRow]

NoBoot(pc) == [pc |-> pc, todo |-> {}, drifted |-> {}, rows |-> [id \in Ids |-> NoRow]]

\* The unique constraint on rules.rule_name is part of the table's type.
TypeOK ==
  /\ rows \in [Ids -> Row]
  /\ \A a, b \in Ids :
       a # b /\ rows[a].life = "live" /\ rows[b].life = "live" => rows[a].name # rows[b].name
  /\ qb \in [Names -> [rule : Ids \cup {NoId}, content : Nat]]
  /\ owed \in SUBSET Ids
  /\ pending \in SUBSET Ids
  /\ job \in [Runners -> [pc : JobPcs, id : Ids \cup {NoId}, row : Row,
                          target : Names \cup {NoName},
                          outcome : {"ok", "error", "transient"}]]
  /\ boot \in [pc : {"load", "compare", "running", "done", "aborted"},
               todo : SUBSET Ids, drifted : SUBSET Ids, rows : [Ids -> Row]]
  /\ form \in [open : BOOLEAN, id : Ids \cup {NoId}, row : Row]
  /\ deleter \in [pc : {"idle", "remove", "delete", "error", "transient"},
                  id : Ids \cup {NoId}, row : Row]
  /\ recovering \in SUBSET Ids
  /\ saved \in [Ids -> [name : Names \cup {NoName}, enabled : BOOLEAN, content : Nat]]
  /\ contended \in SUBSET Ids
  /\ displaced \in SUBSET Ids
  /\ actions \in Nat /\ faults \in Nat

\* The application starts on a database in which the rules of Existing are
\* synced; the startup reconciliation has not run yet.
Init ==
  /\ \E first \in [Existing -> Names] :
       /\ \A id \in Existing : first[id] \in NamesOf[id]
       /\ \A a, b \in Existing : a # b => first[a] # first[b]
       /\ rows = [id \in Ids |->
                    IF id \in Existing
                    THEN [NoRow EXCEPT !.life = "live", !.name = first[id],
                                       !.enabled = TRUE, !.remote = first[id],
                                       !.status = "ok"]
                    ELSE NoRow]
       /\ qb = [n \in Names |->
                  IF \E id \in Existing : first[id] = n
                  THEN [rule |-> CHOOSE id \in Existing : first[id] = n, content |-> 0]
                  ELSE NoPayload]
  /\ owed = {}
  /\ pending = {}
  /\ job = [w \in Runners |-> NoJob]
  /\ boot = NoBoot("load")
  /\ form = NoForm
  /\ deleter = NoDelete
  /\ recovering = {}
  /\ saved = [id \in Ids |-> UserColumns(rows[id])]
  /\ contended = {}
  /\ displaced = {}
  /\ actions = 0
  /\ faults = 0

-----------------------------------------------------------------------------
Live(id) == rows[id].life = "live"

\* Mutant: only enabled rules keep their names to themselves.
NameIsFreeAmongEnabled(id, n) ==
  \A other \in Ids \ {id} :
    ~(Live(other) /\ rows[other].enabled /\ rows[other].name = n)

\* The unique constraint on rules.rule_name.
NameIsFree(id, n) == \A other \in Ids \ {id} : ~(Live(other) /\ rows[other].name = n)

\* Who is working on a rule right now, in a session of its own.
HeldByOthers(w, id) ==
  \/ \E v \in Runners \ {w} : job[v].id = id /\ job[v].pc \notin {"idle", "load"}
  \/ boot.pc \in {"compare", "running"} /\ id \in boot.todo /\ w # Boot
  \/ deleter.pc # "idle" /\ deleter.id = id

\* A commit writes a column only if the session changed it.
Written(stored, loaded, new) == IF new = loaded THEN stored ELSE new

UserActs ==
  /\ actions < MaxActions
  /\ actions' = actions + 1

-----------------------------------------------------------------------------
\* create_rule, up to its commit.
CreateRule(id, n) ==
  /\ UserActs
  /\ rows[id].life = "unborn"
  /\ n \in NamesOf[id]
  /\ NameIsFree(id, n)
  /\ rows' = [rows EXCEPT ![id] =
                [NoRow EXCEPT !.life = "live", !.name = n, !.enabled = TRUE,
                              !.content = actions + 1]]
  /\ saved' = [saved EXCEPT ![id] = UserColumns(rows'[id])]
  /\ owed' = owed \cup {id}
  /\ UNCHANGED <<qb, pending, job, boot, form, deleter, recovering,
                 contended, displaced, faults>>

\* update_rule, lines 1913-1917: the row is loaded before the form is awaited.
OpenForm(id) ==
  /\ UserActs
  /\ ~form.open
  /\ Live(id)
  /\ form' = [open |-> TRUE, id |-> id, row |-> rows[id]]
  /\ UNCHANGED <<rows, qb, owed, pending, job, boot, deleter, recovering,
                 saved, contended, displaced, faults>>

\* update_rule, lines 1955-1968: only changed columns are written, the status
\* among them.
SavedRow(stored, loaded, n, on, version) ==
  [stored EXCEPT !.name = Written(@, loaded.name, n),
                 !.enabled = Written(@, loaded.enabled, on),
                 !.content = version,
                 !.status = Written(@, loaded.status, "pending")]

SaveForm(n, on) ==
  /\ form.open
  /\ n \in NamesOf[form.id]
  /\ NameIsFree(form.id, n)
  /\ form' = NoForm
  /\ IF Live(form.id)
     THEN /\ rows' = [rows EXCEPT ![form.id] =
                        SavedRow(@, form.row, n, on, actions)]
          /\ saved' = [saved EXCEPT ![form.id] =
                         [name |-> n, enabled |-> on, content |-> actions]]
          /\ owed' = owed \cup {form.id}
     ELSE UNCHANGED <<rows, saved, owed>>
  /\ UNCHANGED <<qb, pending, job, boot, deleter, recovering,
                 contended, displaced, actions, faults>>

\* update_rule, lines 1921-1929 and 1969-1981: the form is rejected (it does not
\* validate, or another rule has the name) and nothing is written.
RejectForm ==
  /\ form.open
  /\ form' = NoForm
  /\ UNCHANGED <<rows, qb, owed, pending, job, boot, deleter, recovering,
                 saved, contended, displaced, actions, faults>>

\* The sync_rule and sync_all routes: the rows are marked and committed.
RequestSync(ids) ==
  /\ UserActs
  /\ ids # {}
  /\ \A id \in ids : Live(id)
  /\ rows' = [id \in Ids |-> IF id \in ids THEN [rows[id] EXCEPT !.status = "pending"]
                                           ELSE rows[id]]
  /\ owed' = owed \cup ids
  /\ UNCHANGED <<qb, pending, job, boot, form, deleter, recovering,
                 saved, contended, displaced, faults>>

\* The enqueue_rule_sync call that follows each of those commits.
EnqueueRuleSync(id) ==
  /\ id \in owed
  /\ owed' = owed \ {id}
  /\ pending' = pending \cup {id}
  /\ UNCHANGED <<rows, qb, job, boot, form, deleter, recovering,
                 saved, contended, displaced, actions, faults>>

-----------------------------------------------------------------------------
\* _dispatch_next_rule_sync_locked, as WorkQueue promises it.
Dispatch(w, id) ==
  /\ id \in pending
  /\ job[w] = NoJob
  /\ pending' = pending \ {id}
  /\ job' = [job EXCEPT ![w] = [NoJob EXCEPT !.pc = "load", !.id = id]]
  /\ UNCHANGED <<rows, qb, owed, boot, form, deleter, recovering,
                 saved, contended, displaced, actions, faults>>

FirstStep(row) == IF row.enabled THEN "category" ELSE "lookup"

\* _process_rule_sync, lines 288-296: load the row and commit SYNCING.
LoadRule(w) ==
  LET id == job[w].id
      marked == [rows[id] EXCEPT !.status = "syncing"]
  IN /\ job[w].pc = "load"
     /\ IF Live(id)
        THEN /\ rows' = [rows EXCEPT ![id] = marked]
             /\ job' = [job EXCEPT ![w].row = marked, ![w].pc = FirstStep(marked)]
             /\ contended' = contended \cup {i \in {id} : HeldByOthers(w, i)}
        ELSE job' = [job EXCEPT ![w] = NoJob] /\ UNCHANGED <<rows, contended>>
     /\ UNCHANGED <<qb, owed, pending, boot, form, deleter, recovering,
                    saved, displaced, actions, faults>>

\* sync_all, line 115: one query loads every row, the loop works on them.
BootLoads ==
  LET live == {id \in Ids : Live(id)}
  IN /\ boot.pc = "load"
     /\ boot' = [pc |-> "compare", todo |-> live, drifted |-> {}, rows |-> rows]
     /\ contended' = contended \cup {id \in live : HeldByOthers(Boot, id)}
     /\ UNCHANGED <<rows, qb, owed, pending, job, form, deleter,
                    recovering, saved, displaced, actions, faults>>

\* sync_all, lines 118-125, and _safe_remote_rules: what qB holds is compared
\* with the loaded rows; a failed call is ignored (answered is FALSE).
BootCompares(answered) ==
  /\ boot.pc = "compare"
  /\ boot' = [boot EXCEPT !.pc = "running",
                         !.drifted = {id \in boot.todo :
                            LET row == boot.rows[id]
                            IN /\ answered
                               /\ row.enabled
                               /\ qb[row.name] \notin {NoPayload, Payload(id, row)}}]
  /\ UNCHANGED <<rows, qb, owed, pending, job, form, deleter, recovering,
                 saved, contended, displaced, actions, faults>>

\* sync_all, lines 121-138: the next rule, as loaded when the loop began.  A
\* DRIFT mark is only flushed, so it stays in the session.
BootTakes(id) ==
  /\ boot.pc = "running"
  /\ job[Boot] = NoJob
  /\ id \in boot.todo
  /\ boot' = [boot EXCEPT !.todo = @ \ {id}]
  /\ job' = [job EXCEPT ![Boot] =
               [NoJob EXCEPT !.pc = FirstStep(boot.rows[id]), !.id = id,
                             !.row = IF id \in boot.drifted
                                     THEN [boot.rows[id] EXCEPT !.status = "drift"]
                                     ELSE boot.rows[id]]]
  /\ UNCHANGED <<rows, qb, owed, pending, form, deleter, recovering,
                 saved, contended, displaced, actions, faults>>

BootEnds ==
  /\ boot.pc = "running"
  /\ boot.todo = {}
  /\ job[Boot] = NoJob
  /\ boot' = NoBoot("done")
  /\ UNCHANGED <<rows, qb, owed, pending, job, form, deleter, recovering,
                 saved, contended, displaced, actions, faults>>

-----------------------------------------------------------------------------
\* A call to the WebUI API: it is answered, or its effect happens and the
\* answer is lost, or nothing happens because qB is unreachable or refuses.
Replies == {"answered", "lost", "unreachable", "refused"}

TakesEffect(reply) == reply \in {"answered", "lost"}

Fault(reply) ==
  IF reply = "answered" THEN UNCHANGED faults
                        ELSE faults < MaxFaults /\ faults' = faults + 1

\* set_rule and remove_rule (payload is NoPayload): qB knows rules by name only,
\* so whatever it holds under the name goes, another rule's copy included.
WriteRemote(id, name, payload, reply) ==
  IF name # NoName /\ TakesEffect(reply)
  THEN /\ qb' = [qb EXCEPT ![name] = payload]
       /\ displaced' = displaced \cup
                         {other \in Ids \ {id} : Live(other) /\ rows[other].name = name}
  ELSE UNCHANGED <<qb, displaced>>

RemoveRemote(id, name, reply) == WriteRemote(id, name, NoPayload, reply)

\* Mutant: a timeout is taken for success.
FailedUnlessTimeout(j, reply) ==
  [j EXCEPT !.pc = "record", !.outcome = IF reply = "refused" THEN "error" ELSE "ok"]

\* QbittorrentClientError caught in sync_rule: the failure is recorded next.
Failed(j, reply) ==
  [j EXCEPT !.pc = "record",
            !.outcome = IF reply = "refused" THEN "error" ELSE "transient"]

After(w, reply, pc) ==
  job' = [job EXCEPT ![w] = IF reply = "answered" THEN [@ EXCEPT !.pc = pc]
                                                  ELSE Failed(@, reply)]

\* Mutant: a renamed rule is treated like any other update.
IsNeverRenamed(row) == FALSE

IsRenamed(row) == row.remote # NoName /\ row.remote # row.name

\* sync_rule, lines 71-73: create_category.  The categories themselves are left
\* out (no property reads them); the call may fail like any other.
EnsureCategory(w, reply) ==
  /\ job[w].pc = "category"
  /\ Fault(reply)
  /\ After(w, reply, IF IsRenamed(job[w].row) THEN "retire" ELSE "publish")
  /\ UNCHANGED <<rows, qb, owed, pending, boot, form, deleter, recovering,
                 saved, contended, displaced, actions>>

\* sync_rule, lines 74-78: the rule under its previous name is removed.
RetireOldName(w, reply) ==
  /\ job[w].pc = "retire"
  /\ Fault(reply)
  /\ RemoveRemote(job[w].id, job[w].row.remote, reply)
  /\ After(w, reply, "publish")
  /\ UNCHANGED <<rows, owed, pending, boot, form, deleter, recovering,
                 saved, contended, actions>>

\* sync_rule, line 79: set_rule.
SetRule(w, reply) ==
  /\ job[w].pc = "publish"
  /\ Fault(reply)
  /\ WriteRemote(job[w].id, job[w].row.name, Payload(job[w].id, job[w].row), reply)
  /\ After(w, reply, "record")
  /\ UNCHANGED <<rows, owed, pending, boot, form, deleter, recovering,
                 saved, contended, actions>>

\* _cleanup_disabled_rule, lines 147-157: which remote name goes.
LookUpRemote(w, reply) ==
  LET row == job[w].row
      target == IF row.remote # NoName THEN row.remote
                ELSE IF qb[row.name] # NoPayload THEN row.name ELSE NoName
  IN /\ job[w].pc = "lookup"
     /\ reply # "lost"
     /\ row.remote # NoName => reply = "answered"   \* no call is made
     /\ Fault(reply)
     /\ job' = [job EXCEPT ![w] = IF reply = "answered"
                                  THEN [@ EXCEPT !.pc = "withdraw", !.target = target]
                                  ELSE Failed(@, reply)]
     /\ UNCHANGED <<rows, qb, owed, pending, boot, form, deleter,
                    recovering, saved, contended, displaced, actions>>

\* Lines 158-159: remove_rule, if there is a name to remove.
WithdrawRule(w, reply) ==
  /\ job[w].pc = "withdraw"
  /\ job[w].target = NoName => reply = "answered"
  /\ Fault(reply)
  /\ RemoveRemote(job[w].id, job[w].target, reply)
  /\ After(w, reply, "prune")
  /\ UNCHANGED <<rows, owed, pending, boot, form, deleter, recovering,
                 saved, contended, actions>>

\* Line 160: remove_unused_categories.
PruneCategories(w, reply) ==
  /\ job[w].pc = "prune"
  /\ Fault(reply)
  /\ After(w, reply, "record")
  /\ UNCHANGED <<rows, qb, owed, pending, boot, form, deleter, recovering,
                 saved, contended, displaced, actions>>

-----------------------------------------------------------------------------
\* The startup loop does not survive an exception; the queue's threads do.
Dropped(w) ==
  /\ job' = [job EXCEPT ![w] = NoJob]
  /\ boot' = IF w = Boot THEN NoBoot("aborted") ELSE boot

\* Mutant: the commit writes every column the session holds.
RecordedWholeRow(stored, j) ==
  [j.row EXCEPT !.remote = IF j.row.enabled THEN j.row.name ELSE NoName,
                !.status = j.outcome]

\* sync_rule, lines 81-101, and _cleanup_disabled_rule, lines 162-183: the
\* outcome is committed over whatever the row has become.
RecordedRow(stored, j) ==
  IF j.outcome = "ok"
  THEN [stored EXCEPT
          !.remote = Written(@, j.row.remote, IF j.row.enabled THEN j.row.name ELSE NoName),
          !.status = Written(@, j.row.status, "ok")]
  ELSE [stored EXCEPT !.status = Written(@, j.row.status, j.outcome)]

RecordOutcome(w) ==
  LET id == job[w].id
  IN /\ job[w].pc = "record"
     /\ IF Live(id)
        THEN /\ rows' = [rows EXCEPT ![id] = RecordedRow(@, job[w])]
             /\ job' = [job EXCEPT ![w] = NoJob]
             /\ UNCHANGED boot
        ELSE Dropped(w) /\ UNCHANGED rows     \* StaleDataError: no row to update
     /\ UNCHANGED <<qb, owed, pending, form, deleter, recovering,
                    saved, contended, displaced, actions, faults>>

\* Mutant: the queue's thread logs the exception and leaves the row alone.
SyncRaisesUnrecorded(w, outcome) ==
  /\ job[w].pc = "category"
  /\ faults < MaxFaults
  /\ faults' = faults + 1
  /\ Dropped(w)
  /\ UNCHANGED <<rows, qb, owed, pending, form, deleter, recovering,
                 saved, contended, displaced, actions>>

\* An exception before the first qB call (Jackett fails in
\* _refresh_rule_language_feeds).  _process_rule_sync, lines 303-323, rolls back
\* and marks the row it reads afresh; sync_all lets the exception go.
SyncRaises(w, outcome) ==
  LET id == job[w].id
  IN /\ job[w].pc = "category"
     /\ faults < MaxFaults
     /\ faults' = faults + 1
     /\ rows' = IF w # Boot /\ Live(id)
                THEN [rows EXCEPT ![id].status = outcome]
                ELSE rows
     /\ Dropped(w)
     /\ UNCHANGED <<qb, owed, pending, form, deleter, recovering,
                    saved, contended, displaced, actions>>

-----------------------------------------------------------------------------
\* delete_rule, lines 198-202: load the row, pick the remote name.
OpenDelete(id) ==
  /\ UserActs
  /\ deleter.pc = "idle"
  /\ Live(id)
  /\ deleter' = [pc |-> "remove", id |-> id, row |-> rows[id]]
  /\ contended' = contended \cup {i \in {id} : HeldByOthers(NoId, i)}
  /\ UNCHANGED <<rows, qb, owed, pending, job, boot, form, recovering,
                 saved, displaced, faults>>

\* Lines 203-206: remove_rule.
DeleteRemote(reply) ==
  LET name == IF deleter.row.remote # NoName THEN deleter.row.remote ELSE deleter.row.name
  IN /\ deleter.pc = "remove"
     /\ Fault(reply)
     /\ RemoveRemote(deleter.id, name, reply)
     /\ deleter' = [deleter EXCEPT !.pc = IF reply = "answered" THEN "delete"
                                          ELSE IF reply = "refused" THEN "error"
                                          ELSE "transient"]
     /\ UNCHANGED <<rows, owed, pending, job, boot, form, recovering,
                    saved, contended, actions>>

\* Lines 219-226: the row goes, whatever it has become since.
DeleteLocal ==
  /\ deleter.pc = "delete"
  /\ rows' = [rows EXCEPT ![deleter.id] = [NoRow EXCEPT !.life = "gone"]]
  /\ saved' = [saved EXCEPT ![deleter.id] = UserColumns(NoRow)]
  /\ deleter' = NoDelete
  /\ UNCHANGED <<qb, owed, pending, job, boot, form, recovering,
                 contended, displaced, actions, faults>>

\* Lines 207-210: the rule is kept and the failure recorded.
DeleteFails ==
  /\ deleter.pc \in {"error", "transient"}
  /\ rows' = [rows EXCEPT ![deleter.id].status =
                Written(@, deleter.row.status, deleter.pc)]
  /\ deleter' = NoDelete
  /\ UNCHANGED <<qb, owed, pending, job, boot, form, recovering,
                 saved, contended, displaced, actions, faults>>

-----------------------------------------------------------------------------
\* QbRecoveryScheduler.run_once, lines 66-74.
RecoveryScans ==
  LET candidates == {id \in Ids : Live(id) /\ rows[id].status = "transient"}
  IN /\ recovering = {}
     /\ candidates # {}
     /\ recovering' = candidates
     /\ UNCHANGED <<rows, qb, owed, pending, job, boot, form, deleter,
                    saved, contended, displaced, actions, faults>>

\* Lines 76-94: qB answered; one commit for all, so one deleted row undoes it.
RecoveryRequeues ==
  /\ recovering # {}
  /\ recovering' = {}
  /\ IF \A id \in recovering : Live(id)
     THEN /\ rows' = [id \in Ids |-> IF id \in recovering
                                     THEN [rows[id] EXCEPT !.status = "pending"]
                                     ELSE rows[id]]
          /\ owed' = owed \cup recovering
     ELSE UNCHANGED <<rows, owed>>
  /\ UNCHANGED <<qb, pending, job, boot, form, deleter, saved,
                 contended, displaced, actions, faults>>

\* Lines 97-99: qB is still down.
RecoveryGivesUp ==
  /\ recovering # {}
  /\ recovering' = {}
  /\ UNCHANGED <<rows, qb, owed, pending, job, boot, form, deleter,
                 saved, contended, displaced, actions, faults>>

\* The process dies and starts again: the database and qBittorrent stay, queue
\* and sessions go, and the startup reconciliation runs (SYNC_RULES_ON_STARTUP).
Crash ==
  /\ faults < MaxFaults
  /\ faults' = faults + 1
  /\ owed' = {}
  /\ pending' = {}
  /\ job' = [w \in Runners |-> NoJob]
  /\ boot' = NoBoot("load")
  /\ form' = NoForm
  /\ deleter' = NoDelete
  /\ recovering' = {}
  /\ UNCHANGED <<rows, qb, saved, contended, displaced, actions>>

-----------------------------------------------------------------------------
UserNext ==
  \/ \E id \in Ids, n \in Names : CreateRule(id, n)
  \/ \E id \in Ids : OpenForm(id)
  \/ \E n \in Names, on \in BOOLEAN : SaveForm(n, on)
  \/ RejectForm
  \/ \E ids \in SUBSET Ids : RequestSync(ids)
  \/ \E id \in Ids : EnqueueRuleSync(id)
  \/ \E id \in Ids : OpenDelete(id)
  \/ \E reply \in Replies : DeleteRemote(reply)
  \/ DeleteLocal
  \/ DeleteFails

QbCall(w, reply) ==
  \/ EnsureCategory(w, reply)
  \/ RetireOldName(w, reply)
  \/ SetRule(w, reply)
  \/ LookUpRemote(w, reply)
  \/ WithdrawRule(w, reply)
  \/ PruneCategories(w, reply)

SyncNext ==
  \/ \E w \in Workers, id \in Ids : Dispatch(w, id)
  \/ \E w \in Workers : LoadRule(w)
  \/ BootLoads
  \/ \E answered \in BOOLEAN : BootCompares(answered)
  \/ \E id \in Ids : BootTakes(id)
  \/ BootEnds
  \/ \E w \in Runners, reply \in Replies : QbCall(w, reply)
  \/ \E w \in Runners : RecordOutcome(w)
  \/ \E w \in Runners, outcome \in {"error", "transient"} : SyncRaises(w, outcome)

RecoveryNext == RecoveryScans \/ RecoveryRequeues \/ RecoveryGivesUp

Next == UserNext \/ SyncNext \/ RecoveryNext \/ Crash

Spec == Init /\ [][Next]_vars

-----------------------------------------------------------------------------
\* Nothing is left to do.  A reconciliation that was cut short counts only if
\* nothing has failed: what a crash leaves behind is healed by a complete one.
Quiescent ==
  /\ owed = {} /\ pending = {} /\ recovering = {}
  /\ \A w \in Runners : job[w] = NoJob
  /\ boot.pc = "done" \/ (boot.pc = "aborted" /\ faults = 0)
  /\ ~form.open
  /\ deleter.pc = "idle"

\* The database is the editing source of truth: no sync, recovery, deletion
\* attempt or restart ever changes what the user saved, although all of them
\* commit rows they loaded before the last save.
UserEditsSurvive == \A id \in Ids : UserColumns(rows[id]) = saved[id]

\* Once everything has been worked off, no rule is left "pending" or "syncing":
\* each has a verdict, whatever failed or crashed on the way.
SettledWhenQuiescent ==
  Quiescent => \A id \in Ids : Live(id) => rows[id].status \notin {"pending", "syncing"}

Published(id) == qb[rows[id].name] = Payload(id, rows[id])

\* "ok" can be trusted, unless two actors synced the rule at the same time or
\* another rule's sync wrote under this rule's name: qB holds the payload of the
\* columns as last saved, under the current name, even after lost answers,
\* exceptions and restarts.
PublishedUnlessContended ==
  Quiescent =>
    \A id \in Ids \ (contended \cup displaced) :
      Live(id) /\ rows[id].enabled /\ rows[id].status = "ok" => Published(id)

\* A deleted rule, and a disabled one that reports "ok", leave nothing behind
\* in qB, if nothing failed and no two actors synced the rule at the same time.
WithdrawnUnlessContended ==
  (Quiescent /\ faults = 0) =>
    \A id \in Ids \ contended :
      (\/ rows[id].life = "gone"
       \/ Live(id) /\ ~rows[id].enabled /\ rows[id].status = "ok") =>
        \A n \in Names : qb[n].rule # id

\* What docs/architecture.md says of a save: the rule is upserted, then marked
\* "ok" or "error".  So a rule marked "ok", with nothing left to do, is in qB.
OkMeansPublished ==
  Quiescent =>
    \A id \in Ids : Live(id) /\ rows[id].enabled /\ rows[id].status = "ok" => Published(id)
=============================================================================
