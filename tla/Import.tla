------------------------------- MODULE Import -------------------------------
(***************************************************************************)
(* Importing a backup and taking it back (src/io/import-encrypted.ts,      *)
(* src/io/rollback.ts, src/background/io.ts).  A replacing import saves    *)
(* the vault before it replaces it; the snapshot stays until the undo has  *)
(* committed, or expires.  Every storage call and every sealing is a step, *)
(* and the vault is edited, and the worker stopped, between them.          *)
(*                                                                         *)
(* Abstraction.  A vault is the set of its bookmarks.  The replacement and *)
(* its flush are one step (VaultRepository has what happens inside).       *)
(***************************************************************************)
EXTENDS Naturals, FiniteSets

CONSTANTS
    Importers,      \* messages that may be handled at the same time
    Bookmarks,
    Files,          \* the sets of bookmarks the backups hold
    Disputed,       \* bookmarks of a file the vault holds otherwise
    Nothing,
    RollbackTtl,    \* ROLLBACK_TTL_MS, in units of time
    MaxImportTime,  \* bound: time
    MaxImports      \* bound: messages

(* saveRollback()'s record: the vault, and when it expires.                *)
Snapshots == [items : SUBSET Bookmarks, expiresAt : Nat]

ASSUME ImportAssumption ==
    /\ Files \subseteq SUBSET Bookmarks
    /\ RollbackTtl \in Nat
    /\ Nothing \notin Snapshots

VARIABLES
    vault,      \* the bookmarks of the open repository
    slot,       \* vm.rollback and vm.rollbackMeta, or Nothing
    disputes,   \* the conflict records left to the user
    importing,  \* by importer: its locals, or Nothing
    clock,
    imports,    \* messages so far
    replaced,   \* history: what the last replacement replaced, while it may be undone
    meanwhile   \* history: whether anything came between the steps in progress

import == <<vault, slot, disputes, importing, clock, imports, replaced, meanwhile>>

ImportInit ==
    /\ vault \in SUBSET Bookmarks
    /\ slot = Nothing
    /\ disputes = {}
    /\ importing = [h \in Importers |-> Nothing]
    /\ clock = 0
    /\ imports = 0
    /\ replaced = Nothing
    /\ meanwhile = FALSE

Busy == {h \in Importers : importing[h] # Nothing}

Start(h, locals) ==
    /\ importing[h] = Nothing
    /\ imports < MaxImports
    /\ imports' = imports + 1
    /\ importing' = [importing EXCEPT ![h] = locals]
    /\ meanwhile' = (Busy # {})
    /\ UNCHANGED <<vault, clock>>

Proceeds(h, step, locals) ==
    /\ importing[h] # Nothing
    /\ importing[h].at = step
    /\ importing' = [importing EXCEPT ![h] = locals]
    /\ UNCHANGED <<clock, imports, meanwhile>>

Ends(h, step) == Proceeds(h, step, Nothing)

-----------------------------------------------------------------------------
(* runImport(), applyImport(): the file has been opened, the vault is read.*)
ReadsToReplace(h) ==
    /\ \E file \in Files : Start(h, [at |-> "snapshot", local |-> vault, file |-> file])
    /\ UNCHANGED <<slot, disputes, replaced>>

(* saveRollback(): what was read is sealed and stored.                     *)
SavesRollback(h) ==
    /\ Proceeds(h, "snapshot", [importing[h] EXCEPT !.at = "replace"])
    /\ slot' = [items |-> importing[h].local, expiresAt |-> clock + RollbackTtl]
    /\ replaced' = Nothing
    /\ UNCHANGED <<vault, disputes>>

Replaces(h) ==
    /\ Ends(h, "replace")
    /\ vault' = importing[h].file
    /\ replaced' = IF meanwhile THEN Nothing ELSE vault
    /\ UNCHANGED <<slot, disputes>>

ReadsToMerge(h) ==
    /\ \E file \in Files :
        Start(h, [at |-> "conflicts", merged |-> vault \cup file,
                  fresh |-> vault \cap file \cap Disputed])
    /\ UNCHANGED <<slot, disputes, replaced>>

LoadsConflicts(h) ==
    /\ Proceeds(h, "conflicts",
                [at |-> "merge", merged |-> importing[h].merged,
                 conflicts |-> disputes \cup importing[h].fresh])
    /\ UNCHANGED <<vault, slot, disputes, replaced>>

Merges(h) ==
    /\ Proceeds(h, "merge", [importing[h] EXCEPT !.at = "save"])
    /\ vault' = importing[h].merged
    /\ UNCHANGED <<slot, disputes, replaced>>

SavesConflicts(h) ==
    /\ Ends(h, "save")
    /\ disputes' = importing[h].conflicts
    /\ UNCHANGED <<vault, slot, replaced>>

-----------------------------------------------------------------------------
Expired == slot # Nothing /\ slot.expiresAt <= clock

(* rollbackOffer(): an expired snapshot is deleted, not hidden.            *)
Offers(h) ==
    /\ Start(h, Nothing)
    /\ slot' = IF Expired THEN Nothing ELSE slot
    /\ replaced' = IF Expired THEN Nothing ELSE replaced
    /\ UNCHANGED disputes

ReadsToUndoAndClears(h) ==                    (* Bug: consumed when it is read *)
    /\ slot # Nothing
    /\ ~Expired
    /\ Start(h, [at |-> "restore", items |-> slot.items])
    /\ slot' = Nothing
    /\ UNCHANGED <<disputes, replaced>>

(* restoreRollback(): the snapshot is opened.                              *)
ReadsToUndo(h) ==
    /\ slot # Nothing
    /\ ~Expired
    /\ Start(h, [at |-> "restore", items |-> slot.items])
    /\ UNCHANGED <<slot, disputes, replaced>>

PutsBack(h) ==
    /\ Proceeds(h, "restore", [at |-> "clear"])
    /\ vault' = importing[h].items
    /\ replaced' = Nothing
    /\ UNCHANGED <<slot, disputes>>

ClearsRollback(h) ==
    /\ Ends(h, "clear")
    /\ slot' = Nothing
    /\ UNCHANGED <<vault, disputes, replaced>>

(* The storage, or the sealing, fails: the message is answered ERROR.      *)
ImportFails(h) ==
    /\ importing[h] # Nothing
    /\ importing' = [importing EXCEPT ![h] = Nothing]
    /\ UNCHANGED <<vault, slot, disputes, clock, imports, replaced, meanwhile>>

-----------------------------------------------------------------------------
(* Another message edits the vault.                                        *)
Edits ==
    /\ imports < MaxImports
    /\ \E b \in Bookmarks :
        vault' \in {vault \cup {b}, vault \ {b}} \ {vault}
    /\ imports' = imports + 1
    /\ meanwhile' = (Busy # {})
    /\ UNCHANGED <<slot, disputes, importing, clock, replaced>>

WorkerStops ==
    /\ Busy # {}
    /\ importing' = [h \in Importers |-> Nothing]
    /\ UNCHANGED <<vault, slot, disputes, clock, imports, replaced, meanwhile>>

ClockTicks ==
    /\ clock < MaxImportTime
    /\ clock' = clock + 1
    /\ UNCHANGED <<vault, slot, disputes, importing, imports, replaced, meanwhile>>

ImportNext ==
    \/ \E h \in Importers :
        \/ ReadsToReplace(h) \/ SavesRollback(h) \/ Replaces(h)
        \/ ReadsToMerge(h) \/ LoadsConflicts(h) \/ Merges(h) \/ SavesConflicts(h)
        \/ Offers(h) \/ ReadsToUndo(h) \/ PutsBack(h) \/ ClearsRollback(h)
        \/ ImportFails(h)
    \/ Edits
    \/ WorkerStops
    \/ ClockTicks

ImportSpec == ImportInit /\ [][ImportNext]_import

-----------------------------------------------------------------------------
(* What an import replaced stays in storage until an undo has put it back, *)
(* a newer snapshot is taken or it expires, whatever fails or stops on the *)
(* way (saveRollback before replaceAll, clearRollback after it).  An       *)
(* import with another message or an edit between its own steps is out:    *)
(* its snapshot is of the vault as it was read.                            *)
ReplacedVaultIsKept ==
    replaced # Nothing => slot # Nothing /\ slot.items = replaced
=============================================================================
