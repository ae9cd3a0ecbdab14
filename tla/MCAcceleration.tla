--------------------------- MODULE MCAcceleration ---------------------------
(***************************************************************************)
(* Small instances of Acceleration: torrents added one after the other.    *)
(***************************************************************************)
EXTENDS Acceleration

CONSTANTS t1, t2

MCAddedOn == [t \in Torrents |-> IF t = t1 THEN 1 ELSE 2]
=============================================================================
