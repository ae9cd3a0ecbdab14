----------------------------- MODULE WorkQueue -----------------------------
(***************************************************************************)
(* What app/services/sync_queue.py promises to the code that calls         *)
(* enqueue_rule_sync: requests for one rule coalesce while they wait, and  *)
(* a request made while a task for the same rule is already running is     *)
(* NOT absorbed by that task; a task that begins after the request serves  *)
(* it.  Only a shutdown of the queue drops requests.  The module says      *)
(* nothing of threads, limits, feed preparation or progress reporting;     *)
(* SyncQueue implements it.                                                *)
(***************************************************************************)
CONSTANTS RuleIds,    \* primary keys of the rules table
          Workers,    \* the threads of the sync executor
          NoRule      \* the rule of an idle worker

VARIABLES requested,  \* rules with a request that no task has picked up
          serving,    \* serving[w]: the rule worker w is syncing
          closed      \* the queue refuses requests (shutdown)

workVars == <<requested, serving, closed>>

WorkTypeOK ==
  /\ requested \in SUBSET RuleIds
  /\ serving \in [Workers -> RuleIds \cup {NoRule}]
  /\ closed \in BOOLEAN

WorkInit ==
  /\ requested = {}
  /\ serving = [w \in Workers |-> NoRule]
  /\ closed = FALSE

\* A request is remembered even if a worker is already serving the rule.
Request(id) ==
  /\ ~closed
  /\ requested' = requested \cup {id}
  /\ UNCHANGED <<serving, closed>>

\* A worker takes over a requested rule: every request so far is served by it.
Begin(w, id) ==
  /\ serving[w] = NoRule
  /\ id \in requested
  /\ requested' = requested \ {id}
  /\ serving' = [serving EXCEPT ![w] = id]
  /\ UNCHANGED closed

End(w) ==
  /\ serving[w] # NoRule
  /\ serving' = [serving EXCEPT ![w] = NoRule]
  /\ UNCHANGED <<requested, closed>>

\* Shutdown forgets what waits; what runs goes on.
Close ==
  /\ ~closed
  /\ closed' = TRUE
  /\ requested' = {}
  /\ UNCHANGED serving

\* The queue opens again only once nothing runs.
Reopen ==
  /\ closed
  /\ \A w \in Workers : serving[w] = NoRule
  /\ closed' = FALSE
  /\ UNCHANGED <<requested, serving>>

WorkNext ==
  \/ \E id \in RuleIds : Request(id)
  \/ \E w \in Workers, id \in RuleIds : Begin(w, id)
  \/ \E w \in Workers : End(w)
  \/ Close
  \/ Reopen

WorkSpec == WorkInit /\ [][WorkNext]_workVars

\* Every request is eventually picked up, unless a shutdown drops it.
RequestsServed ==
  \A id \in RuleIds : (id \in requested) ~> (id \notin requested)
=============================================================================
