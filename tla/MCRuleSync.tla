----------------------------- MODULE MCRuleSync -----------------------------
(***************************************************************************)
(* Small instances of RuleSync.  MCRuleSync.cfg: two rules, a name that    *)
(* both may carry and one that only the first may, one queue thread beside *)
(* the startup reconciliation, the routes and the recovery scheduler.      *)
(* RuleSyncOk.cfg: one rule and two queue threads.                         *)
(***************************************************************************)
EXTENDS RuleSync, TLC

CONSTANTS i1, n1, n2

MCNamesOf == [id \in Ids |-> IF id = i1 THEN {n1, n2} ELSE {n2}]
=============================================================================
