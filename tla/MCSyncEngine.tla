---------------------------- MODULE MCSyncEngine ----------------------------
(* SyncEngine for two devices.  Each item is in a bucket of its own.       *)
EXTENDS SyncEngine, TLC

MCBucketOf == [i \in Ids |-> i]

(* Sound for the runs of safety properties: no device is special.          *)
Symmetry == Permutations(Devices)
=============================================================================
