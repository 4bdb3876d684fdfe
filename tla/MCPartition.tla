---------------------------- MODULE MCPartition ----------------------------
(* Constant values for the model checking of Partition.  Two partitions    *)
(* are one more than is retained: a row of the newer expires the older, a   *)
(* row of the older that comes late is itself expired.                      *)
EXTENDS Partition

\* A column before the key: dropped and added again it is behind it.
Created == <<"a", "k">>
=============================================================================
