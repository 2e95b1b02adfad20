----------------------------- MODULE MCProviders -----------------------------
(* Drive, a move between providers, and devices that merge: the components  *)
(* share no state here, and a behaviour runs one of them.                   *)
EXTENDS Drive, Migration, Replicas

Filed(p, o) == [parent |-> p, text |-> "old", tags |-> {}, opens |-> 0,
                 deletedAt |-> 0, order |-> o]

MCStarts == {Nothing, <<Filed(RootId, <<0, 0>>), Filed(RootId, <<0, 1>>), Absent>>}

Symmetry == Permutations(Devices \cup Machines)

VARIABLE part

providers == <<part, drives, migration, replicas>>

Init ==
    /\ part \in {"drive", "migration", "replicas"}
    /\ DriveInit
    /\ MigrationInit
    /\ ReplicasInit
    /\ part # "drive" => listed = <<>> /\ fileId = [d \in Devices |-> Null]
    /\ part = "replicas" <=> shared # Nothing
    /\ part # "migration" => key[Other] = "ours" /\ providerId = [c \in Computers |-> "chrome"]

Drives == part = "drive" /\ DriveNext /\ UNCHANGED <<part, migration, replicas>>

Migrates == part = "migration" /\ MigrationNext /\ UNCHANGED <<part, drives, replicas>>

Merges == part = "replicas" /\ ReplicasNext /\ UNCHANGED <<part, drives, migration>>

Next == Drives \/ Migrates \/ Merges

Spec == Init /\ [][Next]_providers
==============================================================================
