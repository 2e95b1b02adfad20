---------------------------- MODULE NativeImport ----------------------------
(***************************************************************************)
(* Importing Chrome's own bookmarks (src/import/native-bookmarks.ts, the   *)
(* picker of src/manager/io.ts and the handlers of src/background/io.ts):  *)
(* a tree painted once and ticked, an import that reads Chrome's tree      *)
(* again, and a deletion that names the ids the page chose.                *)
(*                                                                         *)
(* A vault folder is known by its path of titles, a bookmark by its URL    *)
(* and its folder. A title is <<name, padded>>: padding is what trim()     *)
(* takes off.                                                              *)
(***************************************************************************)
EXTENDS Naturals, Sequences, SequencesExt

CONSTANTS Natives,       \* the nodes of Chrome's tree, in the order siblings are listed
          NativeTitle,   \* [Natives -> titles]
          NativeUrl,     \* [Natives -> URLs], AFolder for a folder
          NativeHome,    \* [Natives -> Natives \cup {Top, Unborn}], the first tree
          Permanent,     \* the folders Chrome refuses to remove
          AFolder, Unsafe, Top, Unborn, Removed, Idle,
          MaxOutside     \* bound: changes made outside the picker

ASSUME NativeAssumption ==
    /\ Natives \subseteq Nat
    /\ Permanent \subseteq {n \in Natives : NativeUrl[n] = AFolder /\ NativeHome[n] = Top}

VARIABLES chrome, granted, picker, asked, job, filed, ahead, again, outside

native == <<chrome, granted, picker, asked, job, filed, ahead, again, outside>>

(***************************** Chrome's tree *******************************)

IsFolder(n) == NativeUrl[n] = AFolder
InTree(t) == {n \in Natives : t[n] \notin {Unborn, Removed}}
Children(t, n) == {m \in Natives : t[m] = n}

RECURSIVE Chain(_, _)
Chain(t, n) == IF t[n] = Top THEN <<n>> ELSE Append(Chain(t, t[n]), n)

Within(t, n) == {m \in InTree(t) : Contains(Chain(t, m), n)}
Above(t, n) == {m \in InTree(t) : n \in Within(t, m)} \ {n}

(* Depth-first, parents before children, siblings in their order. *)
Earlier(t, m, n) ==
    LET a == Chain(t, m)
        b == Chain(t, n)
    IN \/ IsStrictPrefix(a, b)
       \/ \E i \in 1 .. Len(a) :
              /\ i <= Len(b)
              /\ SubSeq(a, 1, i - 1) = SubSeq(b, 1, i - 1)
              /\ a[i] < b[i]

WithoutTree(t, n) == [m \in Natives |-> IF m \in Within(t, n) THEN Removed ELSE t[m]]

(***************************** the selection *******************************)

ExpandSelection(t, ids) ==
    UNION {Within(t, n) \cup Above(t, n) : n \in ids \cap InTree(t)}

(* A bug: the folders that come with a bookmark are deleted with it. *)
TopmostWithFolders(t, ids) == ExpandSelection(t, ids) \ Permanent

TopmostSelection(t, ids) ==
    {n \in ids \cap InTree(t) : Above(t, n) \cap ids = {}}

(***************************** the batch ***********************************)

Trimmed(title) == <<title[1], FALSE>>


FolderKey(title) == Trimmed(title)

(* The folder of the vault that stands for a folder of Chrome's, and the *)
(* key under which the vault is searched for it.                         *)
Place(t, n) == [i \in 1 .. Len(Chain(t, n)) |-> Trimmed(NativeTitle[Chain(t, n)[i]])]
PlaceKey(t, n) == Append(Front(Place(t, n)), FolderKey(NativeTitle[n]))

Urls(vault) == {b.url : b \in vault.bookmarks}

(* What importNative() would send to addMany, of the tree and the vault it read. *)
Batch(vault, t, ids) ==
    LET wanted == ExpandSelection(t, ids)
        created == {n \in wanted : IsFolder(n) /\ PlaceKey(t, n) \notin vault.folders}
        storable == {n \in wanted : ~IsFolder(n) /\ NativeUrl[n] # Unsafe /\ NativeUrl[n] \notin Urls(vault)}
        first == {n \in storable : \A m \in storable :
                                       NativeUrl[m] = NativeUrl[n] /\ m # n => Earlier(t, n, m)}
    IN [folders |-> {Place(t, n) : n \in created},
        bookmarks |-> {[url |-> NativeUrl[n], in |-> Front(Place(t, n))] : n \in first}]

NothingNew == [folders |-> {}, bookmarks |-> {}]
Parents(batch) == {Front(f) : f \in batch.folders} \cup {b.in : b \in batch.bookmarks}
Usable(vault, batch) == Parents(batch) \subseteq vault.folders \cup batch.folders \cup {<<>>}

AddMany(vault, batch) ==
    [folders |-> vault.folders \cup batch.folders, bookmarks |-> vault.bookmarks \cup batch.bookmarks]

(***************************** the boxes ***********************************)

NotPainted == [shown |-> [n \in Natives |-> Unborn], checked |-> {}, box |-> [n \in Natives |-> "off"]]
Painted(t) == [NotPainted EXCEPT !.shown = t]

Cascade(p, n, on) ==
    LET below == Within(p.shown, n)
    IN [p EXCEPT !.checked = IF on THEN @ \cup below ELSE @ \ below,
                 !.box = [m \in Natives |-> IF m \in below THEN (IF on THEN "on" ELSE "off") ELSE @[m]]]

Reconciled(p, n) ==
    LET boxes == {p.box[m] : m \in Children(p.shown, n)}
        all == boxes = {"on"}
    IN [p EXCEPT !.checked = IF all THEN @ \cup {n} ELSE @ \ {n},
                 !.box[n] = IF all THEN "on" ELSE IF boxes = {"off"} THEN "off" ELSE "some"]

RECURSIVE ReconcileUp(_, _)
ReconcileUp(p, n) ==
    IF n = Top THEN p ELSE ReconcileUp(Reconciled(p, n), p.shown[n])

(***************************** actions *************************************)

NativeInit ==
    /\ chrome = NativeHome
    /\ granted = FALSE
    /\ picker = NotPainted
    /\ asked = Idle
    /\ job = Idle
    /\ filed = [folders |-> {}, bookmarks |-> {}]
    /\ ahead = Idle
    /\ again = Idle
    /\ outside = 0

Outside == outside < MaxOutside /\ outside' = outside + 1

(* Chrome gains a bookmark, or one of its nodes moves, or goes. *)
ChromeGains ==
    \E n \in {m \in Natives : chrome[m] = Unborn}, f \in {m \in InTree(chrome) : IsFolder(m)} :
        /\ Outside
        /\ chrome' = [chrome EXCEPT ![n] = f]
        /\ UNCHANGED <<granted, picker, asked, job, filed, ahead, again>>

ChromeMoves ==
    \E n \in InTree(chrome) \ Permanent, f \in {m \in InTree(chrome) : IsFolder(m)} :
        /\ Outside
        /\ f \notin Within(chrome, n) /\ f # chrome[n]
        /\ chrome' = [chrome EXCEPT ![n] = f]
        /\ UNCHANGED <<granted, picker, asked, job, filed, ahead, again>>

Queued == job # Idle /\ job.at = "queued"

(* Another edit of the vault enters the queue of writes (repo.apply()). *)
QueuesEdit ==
    \E e \in [kind : {"add"}, url : Range(NativeUrl) \ {AFolder, Unsafe}]
             \cup [kind : {"drop"}, place : filed.folders] :
        /\ Outside
        /\ ahead = Idle
        /\ ~Queued
        /\ ahead' = e
        /\ UNCHANGED <<chrome, granted, picker, asked, job, filed, again>>

Edited(vault, e) ==
    IF e.kind = "add"
    THEN [vault EXCEPT !.bookmarks = @ \cup {[url |-> e.url, in |-> <<>>]}]
    ELSE [folders |-> {f \in vault.folders : ~IsPrefix(e.place, f)},
          bookmarks |-> {b \in vault.bookmarks : ~IsPrefix(e.place, b.in)}]

EditApplies ==
    /\ ahead # Idle
    /\ filed' = Edited(filed, ahead)
    /\ ahead' = Idle
    /\ again' = Idle
    /\ UNCHANGED <<chrome, granted, picker, asked, job, outside>>

(* requestBookmarksPermission(), a click in the page. *)
GrantsBookmarks ==
    /\ ~granted /\ granted' = TRUE
    /\ picker' = Painted(chrome)
    /\ UNCHANGED <<chrome, asked, job, filed, ahead, again, outside>>

(* Permission taken back on Chrome's own page. *)
RevokesBookmarks ==
    /\ Outside
    /\ granted /\ granted' = FALSE
    /\ UNCHANGED <<chrome, picker, asked, job, filed, ahead, again>>

(* A box changes: the page is not blocked while a job runs, a dialog blocks it. *)
TicksBox ==
    \E n \in InTree(picker.shown) :
        /\ asked = Idle
        /\ LET ticked == Cascade(picker, n, picker.box[n] # "on")
           IN picker' = ReconcileUp(ticked, picker.shown[n])
        /\ UNCHANGED <<chrome, granted, asked, job, filed, ahead, again, outside>>

PressesImport ==
    /\ picker.checked # {} /\ asked = Idle /\ job = Idle
    /\ job' = [kind |-> "import", at |-> "sent", ids |-> picker.checked]
    /\ UNCHANGED <<chrome, granted, picker, asked, filed, ahead, again, outside>>

(* importFromNative(): Chrome's tree is read again, and the batch made of *)
(* the vault as it is now; it waits for the writes queued before it.      *)
ReadsChrome ==
    /\ job # Idle /\ job.kind = "import" /\ job.at = "sent"
    /\ granted
    /\ job' = [kind |-> "import", at |-> "queued", ids |-> job.ids, tree |-> chrome, vault |-> filed,
               batch |-> Batch(filed, chrome, job.ids)]
    /\ UNCHANGED <<chrome, granted, picker, asked, filed, ahead, again, outside>>

AppliesBatch ==
    /\ Queued
    /\ ahead = Idle \/ job.batch = NothingNew
    /\ Usable(filed, job.batch)
    /\ filed' = AddMany(filed, job.batch)
    /\ again' = IF filed = job.vault THEN [tree |-> job.tree, ids |-> job.ids] ELSE again
    /\ job' = [kind |-> "import", at |-> "answered"]
    /\ UNCHANGED <<chrome, granted, picker, asked, ahead, outside>>

(* deleteSelection's question: the ids are chosen before it is put. *)
PressesDelete ==
    /\ picker.checked # {} /\ asked = Idle /\ job = Idle
    /\ asked' = [ids |-> TopmostSelection(picker.shown, picker.checked),
                 shown |-> picker.shown, ticked |-> picker.checked]
    /\ UNCHANGED <<chrome, granted, picker, job, filed, ahead, again, outside>>

ConfirmsNativeDelete ==
    /\ asked # Idle
    /\ job' = [kind |-> "delete", at |-> "sent", left |-> asked.ids, failed |-> 0,
               shown |-> asked.shown, ticked |-> asked.ticked]
    /\ asked' = Idle
    /\ UNCHANGED <<chrome, granted, picker, filed, ahead, again, outside>>

CancelsNativeDelete ==
    /\ asked # Idle /\ asked' = Idle
    /\ UNCHANGED <<chrome, granted, picker, job, filed, ahead, again, outside>>

Deleting == job # Idle /\ job.kind = "delete"

StartsDeleting ==
    /\ Deleting /\ job.at = "sent" /\ granted
    /\ job' = [job EXCEPT !.at = "removing"]
    /\ UNCHANGED <<chrome, granted, picker, asked, filed, ahead, again, outside>>

(* removeTree() of the next id: Chrome refuses what is gone and what is permanent. *)
RemoveTree ==
    /\ Deleting /\ job.at = "removing" /\ job.left # {}
    /\ \E n \in job.left :
          /\ \A m \in job.left \ {n} : Earlier(job.shown, n, m)
          /\ IF granted /\ n \in InTree(chrome) \ Permanent
             THEN chrome' = WithoutTree(chrome, n) /\ job' = [job EXCEPT !.left = @ \ {n}]
             ELSE chrome' = chrome /\ job' = [job EXCEPT !.left = @ \ {n}, !.failed = @ + 1]
    /\ UNCHANGED <<granted, picker, asked, filed, ahead, again, outside>>

(* The answer: the picker is painted again, with no box ticked. *)
AnswersPicker ==
    /\ job # Idle
    /\ job.at = "answered" \/ (Deleting /\ job.at = "removing" /\ job.left = {})
    /\ job' = Idle
    /\ picker' = IF granted THEN Painted(chrome) ELSE NotPainted
    /\ UNCHANGED <<chrome, granted, asked, filed, ahead, again, outside>>

(* No permission, a parent that is gone (the whole batch is rejected), or a worker *)
(* that dies: the page says so and keeps its picker.                               *)
FailsNative ==
    /\ job # Idle
    /\ \/ job.at = "sent" /\ ~granted
       \/ job.at = "queued" /\ ahead = Idle /\ ~Usable(filed, job.batch)
    /\ job' = Idle
    /\ UNCHANGED <<chrome, granted, picker, asked, filed, ahead, again, outside>>

NativeWorkerDies ==
    /\ Outside
    /\ job # Idle
    /\ job' = Idle /\ ahead' = Idle
    /\ UNCHANGED <<chrome, granted, picker, asked, filed, again>>

NativeNext ==
    \/ ChromeGains \/ ChromeMoves \/ QueuesEdit \/ EditApplies
    \/ GrantsBookmarks \/ RevokesBookmarks \/ TicksBox \/ PressesImport \/ ReadsChrome \/ AppliesBatch
    \/ PressesDelete \/ ConfirmsNativeDelete \/ CancelsNativeDelete \/ StartsDeleting \/ RemoveTree
    \/ AnswersPicker \/ FailsNative \/ NativeWorkerDies

(***************************** properties **********************************)

(* "The boxes now show what the import will do" (io.ts:594): of the tree on *)
(* screen, an import takes the bookmarks whose boxes are ticked and no      *)
(* other, and nothing at all under an empty box.                            *)
BoxesTellTheImport ==
    LET taken == ExpandSelection(picker.shown, picker.checked)
    IN \A n \in InTree(picker.shown) :
           /\ picker.box[n] = "off" <=> n \notin taken
           /\ ~IsFolder(n) => (picker.box[n] = "on" <=> n \in taken)

(* "Importing the same selection twice adds nothing the second time"        *)
(* (native-bookmarks.ts:221), while the vault stays as the import left it.  *)
SecondImportAddsNothing ==
    again # Idle => Batch(filed, again.tree, again.ids) = NothingNew

(* "A summary of exactly what goes" (io.ts:735): what a deletion takes out  *)
(* of Chrome was ticked, if it is where the picker showed it.               *)
OnlyTickedGoes ==
    [][\A n \in InTree(chrome) :
          /\ chrome'[n] = Removed
          /\ Chain(chrome, n) = (IF n \in InTree(job.shown) THEN Chain(job.shown, n) ELSE <<>>)
          => n \in job.ticked]_native

(* The picker and what it imports: BoxesTellTheImport, SecondImportAddsNothing. *)
PickerTellsTheTruth == BoxesTellTheImport /\ SecondImportAddsNothing

(* What the picker promises of an import and of what it takes out of Chrome. *)
PickerHolds == []PickerTellsTheTruth /\ OnlyTickedGoes
=============================================================================
