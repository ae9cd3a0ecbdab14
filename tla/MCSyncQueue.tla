---------------------------- MODULE MCSyncQueue ----------------------------
(***************************************************************************)
(* A small instance of SyncQueue: two rules, so that requests both         *)
(* coalesce and queue up; three executor threads under a limit that starts *)
(* at two and may rise to three or fall to one, so that tasks of one rule  *)
(* overlap and room runs out.                                              *)
(***************************************************************************)
EXTENDS SyncQueue
=============================================================================
