------------------------------ MODULE VaultCell ------------------------------
(***************************************************************************)
(* What a sync provider promises (src/sync/provider.ts): one place that    *)
(* holds a vault, which a push replaces only if it still holds what the    *)
(* pusher expected.  A push whose answer is lost may fail although it took *)
(* effect; one that succeeds did take effect, once, over what it expected. *)
(***************************************************************************)
CONSTANTS Devices, Vaults, Null

VARIABLES
    remote,     \* the vault in the place, or Null
    push,       \* by device: the push asked for, or Null
    result      \* by device: how its last call ended

vars == <<remote, push, result>>

Pushes == [expect : Vaults \cup {Null}, vault : Vaults, done : BOOLEAN]
Failures == {"offline", "auth", "precondition", "rate", "gone"}

Init ==
    /\ remote \in Vaults \cup {Null}
    /\ push = [d \in Devices |-> Null]
    /\ result = [d \in Devices |-> "none"]

(* A call is made: a push, or one that only reads or removes.              *)
Ask(d) ==
    /\ push[d] = Null
    /\ \/ \E p \in Pushes : ~p.done /\ push' = [push EXCEPT ![d] = p]
       \/ UNCHANGED push
    /\ result' = [result EXCEPT ![d] = "none"]
    /\ UNCHANGED remote

(* The push of d takes effect: once, and over what it expected.            *)
Replaces(d) ==
    /\ push[d] # Null
    /\ ~push[d].done
    /\ remote = push[d].expect
    /\ remote' = push[d].vault

Replace(d) ==
    /\ Replaces(d)
    /\ push' = [push EXCEPT ![d].done = TRUE]
    /\ UNCHANGED result

Return(d) ==
    /\ push' = [push EXCEPT ![d] = Null]
    /\ \/ UNCHANGED remote
       \/ Replaces(d)
    /\ \E r \in Failures \cup {"ok"} :
        /\ r = "ok" => push[d] = Null \/ push[d].done \/ remote' # remote
        /\ result' = [result EXCEPT ![d] = r]

(* A device takes the vault out of the place, not through a push.          *)
Remove(d) ==
    /\ push[d] = Null
    /\ remote' = Null
    /\ \E r \in Failures \cup {"ok", result[d]} :
        result' = [result EXCEPT ![d] = r]
    /\ UNCHANGED push

Next == \E d \in Devices : Ask(d) \/ Replace(d) \/ Return(d) \/ Remove(d)

Spec == Init /\ [][Next]_vars
==============================================================================
