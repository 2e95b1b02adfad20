------------------------------ MODULE MCSession ------------------------------
(***************************************************************************)
(* Small instances of Session: handlers and edits are interchangeable.     *)
(***************************************************************************)
EXTENDS Session, TLC

Symmetry == Permutations(Handlers) \cup Permutations(Edits)
=============================================================================
