----------------------------- MODULE RowSession -----------------------------
(* What a database session writes (db.py: sessions neither flush by themselves*)
(* nor expire their rows on a commit).                                       *)

\* A session holds a copy of a row: old as it was loaded, new as it is now.  A commit
\* writes the columns that differ, over whatever the row is by then.
Flush(now, old, new) ==
    [column \in DOMAIN now |-> IF new[column] = old[column] THEN now[column] ELSE new[column]]
=============================================================================
