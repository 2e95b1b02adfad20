----------------------------- MODULE MCMigration -----------------------------
(* Migration for TLC: bookmarks are interchangeable.                       *)
EXTENDS Migration, TLC

Symmetry == Permutations(Items)
==============================================================================
