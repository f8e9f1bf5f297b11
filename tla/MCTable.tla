------------------------------ MODULE MCTable ------------------------------
(***************************************************************************)
(* Model of Table for TLC: five names, three of which collide, in a table  *)
(* that starts with three entries and grows to five and nine. A name may   *)
(* be stored with a NULL value, as the hide sets of cpp do.                *)
(***************************************************************************)
EXTENDS Table

CONSTANTS k1, k2, k3, k4, k5, v1

MCKey == {k1, k2, k3, k4, k5}
MCHash == [k \in MCKey |-> CASE k \in {k1, k2, k3} -> 2 [] k = k4 -> 4 [] k = k5 -> 8]
MCValue == {v1, NoValue}
=============================================================================
