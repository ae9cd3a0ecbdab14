---------------------------- MODULE MCRuleFetch ----------------------------
(***************************************************************************)
(* A small instance of RuleFetch: two rules, so that a batch runs in       *)
(* parallel and what happens to one rule can cost the other its record;    *)
(* two failures, so that a rule can fail both attempts; two acts, so that  *)
(* a user can undo what a thread just looked at.                           *)
(***************************************************************************)
EXTENDS RuleFetch
=============================================================================
