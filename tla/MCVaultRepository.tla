------------------------- MODULE MCVaultRepository -------------------------
(* VaultRepository on a small vault.  Bucket 0 is the one that carries the *)
(* settings; a is hashed into bucket 1 and every other id into bucket 0.   *)
EXTENDS VaultRepository

CONSTANTS a, v

MCBuckets == {0, 1}
MCBucketOf == [i \in Ids |-> IF i = a THEN 1 ELSE 0]
MCValues == {v, Tombstone}

(* A merge or an adoption brings one live item.                            *)
MCPulled == {[i \in Ids |-> IF i = a THEN v ELSE Absent]}
MCNothingPulled == {}
=============================================================================
