------------------------------ MODULE Previews ------------------------------
(***************************************************************************)
(* The preview picture of a bookmark (background/thumbs.ts,                *)
(* thumbs/store.ts): the record in the vault, the bytes in the cache of    *)
(* this device and the bytes on Drive, under captures, edits, looks,       *)
(* deletes, undos and the sweep.                                           *)
(*                                                                         *)
(* A job is an asynchronous procedure of the worker; what runs between two *)
(* awaits is one step, and a request to the storage takes effect when it   *)
(* is made.                                                                *)
(*                                                                         *)
(* Abstraction.  One bookmark on the Drive tier; a picture is the page it  *)
(* shows; which picture the cache lets go (the least recently viewed) is   *)
(* any.                                                                    *)
(***************************************************************************)
EXTENDS Integers, FiniteSets

CONSTANTS
    Pages,
    Jobs,           \* 1 .. n: procedures that may run at a time
    MaxActs         \* bound: what the user does and what fails

VARIABLES
    bookmark,   \* url, life, thumb (its page or NoPicture)
    cached,     \* vm.thumbs.<id>
    onDrive,    \* the file on Drive
    tab,        \* the page in the active tab
    jobs,
    snapshot,   \* the bookmark as an import's rollback holds it, if it does
    spoiled,    \* history: see PreviewFitsTheBookmark
    acts

previews == <<bookmark, cached, onDrive, tab, jobs, snapshot, spoiled, acts>>

NoPicture == "no picture"
Idle == [at |-> "idle"]

FreeJob(j) == jobs[j] = Idle /\ \A i \in Jobs : i < j => jobs[i] # Idle

(* capture() from the first await on; `replace' for a refresh.             *)
Capture(replace) == [at |-> "inject", replace |-> replace, for |-> bookmark.url, page |-> NoPicture]

PreviewsInit ==
    /\ tab \in Pages
    /\ bookmark = [url |-> tab, life |-> "live", thumb |-> NoPicture]
    /\ cached = NoPicture
    /\ onDrive = NoPicture
    /\ jobs = [j \in Jobs |-> IF j = 1 THEN Capture(FALSE) ELSE Idle]
    /\ snapshot = {}
    /\ spoiled = FALSE
    /\ acts = 0

Acting == acts < MaxActs /\ acts' = acts + 1

Becomes(j, job) == jobs' = [jobs EXCEPT ![j] = job]
GoesTo(j, at) == jobs' = [jobs EXCEPT ![j].at = at]

Capturing == {j \in Jobs : jobs[j].at \in {"inject", "record", "push", "note", "clear"}}
Dropping == {j \in Jobs : jobs[j].at \in {"drop", "drop on Drive"}}
Looking == {j \in Jobs : jobs[j].at \in {"fetch", "keep"}}

-----------------------------------------------------------------------------
(* What the user does *)

(* refresh(): the page in front must be the bookmark's.                    *)
Refreshes(j) ==
    /\ Acting
    /\ FreeJob(j)
    /\ bookmark.life = "live"
    /\ tab = bookmark.url
    /\ Becomes(j, Capture(TRUE))
    /\ spoiled' = (spoiled \/ Capturing # {} \/ Dropping # {})
    /\ UNCHANGED <<bookmark, cached, onDrive, tab, snapshot>>

Navigates ==
    /\ Acting
    /\ tab' \in Pages \ {tab}
    /\ UNCHANGED <<bookmark, cached, onDrive, jobs, snapshot, spoiled>>

(* editItem(): another address drops the record in the same batch, and     *)
(* the bytes afterwards.                                                   *)
EditUrl(j, url) ==
    /\ bookmark' = [bookmark EXCEPT !.url = url, !.thumb = NoPicture]
    /\ IF bookmark.thumb # NoPicture THEN Becomes(j, [at |-> "drop"]) ELSE UNCHANGED jobs

EditsUrl(j) ==
    /\ Acting
    /\ FreeJob(j)
    /\ bookmark.life = "live"
    /\ \E url \in Pages \ {bookmark.url} : EditUrl(j, url)
    /\ spoiled' = (spoiled \/ Capturing # {} \/ Looking # {})
    /\ UNCHANGED <<cached, onDrive, tab, snapshot>>

DeletesOrRestores ==
    /\ Acting
    /\ bookmark.life \in {"live", "deleted"}
    /\ bookmark' = [bookmark EXCEPT !.life = IF @ = "live" THEN "deleted" ELSE "live"]
    /\ UNCHANGED <<cached, onDrive, tab, jobs, snapshot, spoiled>>

(* An import replaces the vault; the rollback puts it back.                *)
Replaced ==
    /\ Acting
    /\ bookmark.life # "purged" /\ snapshot = {}
    /\ snapshot' = {bookmark}
    /\ bookmark' = [bookmark EXCEPT !.life = "purged"]
    /\ UNCHANGED <<cached, onDrive, tab, jobs, spoiled>>

RolledBack ==
    /\ bookmark' \in snapshot
    /\ snapshot' = {}
    /\ UNCHANGED <<cached, onDrive, tab, jobs, spoiled, acts>>

(* get(): only for a bookmark with a record.                               *)
Looks(j) ==
    /\ Acting
    /\ FreeJob(j)
    /\ bookmark.life # "purged" /\ bookmark.thumb # NoPicture
    /\ IF cached # NoPicture THEN UNCHANGED jobs ELSE Becomes(j, [at |-> "fetch"])
    /\ UNCHANGED <<bookmark, cached, onDrive, tab, snapshot, spoiled>>

(* housekeep(): purges old tombstones, then lists the pictures.            *)
Housekeeps(j) ==
    /\ Acting
    /\ FreeJob(j)
    /\ \/ UNCHANGED bookmark
       \/ bookmark.life = "deleted" /\ bookmark' = [bookmark EXCEPT !.life = "purged"]
    /\ IF cached = NoPicture THEN UNCHANGED jobs ELSE Becomes(j, [at |-> "compare"])
    /\ UNCHANGED <<cached, onDrive, tab, snapshot, spoiled>>

-----------------------------------------------------------------------------
(* How a job goes on *)

(* inject(): the page that is there now; null where nothing was read.      *)
Injects(j) ==
    /\ jobs[j].at = "inject"
    /\ \/ Becomes(j, Idle) /\ UNCHANGED spoiled
       \/ /\ \E page \in {tab, NoPicture} :
                Becomes(j, [jobs[j] EXCEPT !.at = "record", !.page = page])
          /\ spoiled' = (spoiled \/ tab # jobs[j].for)
    /\ UNCHANGED <<bookmark, cached, onDrive, tab, snapshot, acts>>

(* recordOgMeta() throws at a tombstone when there is something to record; *)
(* then seal and writeThumb(), or, without a picture, clearThumb().        *)
Records(j) ==
    /\ jobs[j].at = "record"
    /\ \/ /\ bookmark.life = "deleted"
          /\ Becomes(j, Idle) /\ UNCHANGED cached
       \/ /\ jobs[j].page # NoPicture
          /\ cached' = jobs[j].page
          /\ GoesTo(j, "push")
       \/ \* no picture, or a refused one
          /\ IF jobs[j].replace THEN GoesTo(j, "clear") ELSE Becomes(j, Idle)
          /\ UNCHANGED cached
    /\ UNCHANGED <<bookmark, onDrive, tab, snapshot, spoiled, acts>>

(* saveThumb(): a push that fails is not fatal.                            *)
Pushes(j) ==
    /\ jobs[j].at = "push"
    /\ GoesTo(j, "note")
    /\ \/ onDrive' = jobs[j].page /\ UNCHANGED <<spoiled, acts>>
       \/ Acting /\ spoiled' = TRUE /\ UNCHANGED onDrive
    /\ UNCHANGED <<bookmark, cached, tab, snapshot>>

(* The record; apply() throws unless the bookmark is there.                *)
Notes(j) ==
    /\ jobs[j].at = "note"
    /\ bookmark' = IF bookmark.life = "live" THEN [bookmark EXCEPT !.thumb = jobs[j].page]
                   ELSE bookmark
    /\ Becomes(j, Idle)
    /\ UNCHANGED <<cached, onDrive, tab, snapshot, spoiled, acts>>

(* clearThumb(): the record, then the bytes.                               *)
Clears(j) ==
    /\ jobs[j].at = "clear"
    /\ IF bookmark.life = "live" /\ bookmark.thumb # NoPicture
         THEN /\ bookmark' = [bookmark EXCEPT !.thumb = NoPicture]
              /\ Becomes(j, [at |-> "drop"])
         ELSE UNCHANGED bookmark /\ Becomes(j, Idle)
    /\ UNCHANGED <<cached, onDrive, tab, snapshot, spoiled, acts>>

(* sweepOrphans(): a tombstone still is in the vault.                      *)
OrphanWithTombstones == bookmark.life # "live"      (* Bug *)

Orphan == bookmark.life = "purged"

Compares(j) ==
    /\ jobs[j].at = "compare"
    /\ Becomes(j, IF Orphan THEN [at |-> "drop"] ELSE Idle)
    /\ spoiled' = (spoiled \/ (Orphan /\ snapshot # {}))
    /\ UNCHANGED <<bookmark, cached, onDrive, tab, snapshot, acts>>

(* dropThumbs(): here, then on Drive, whose failure is swallowed.          *)
Drops(j) ==
    /\ \/ /\ jobs[j].at = "drop"
          /\ cached' = NoPicture
          /\ GoesTo(j, "drop on Drive")
          /\ UNCHANGED <<onDrive, acts>>
       \/ /\ jobs[j].at = "drop on Drive"
          /\ Becomes(j, Idle)
          /\ \/ onDrive' = NoPicture /\ UNCHANGED acts
             \/ Acting /\ UNCHANGED onDrive
          /\ UNCHANGED cached
    /\ UNCHANGED <<bookmark, tab, snapshot, spoiled>>

(* loadThumb() after a miss.                                               *)
Fetches(j) ==
    /\ jobs[j].at = "fetch"
    /\ \/ Becomes(j, IF onDrive = NoPicture THEN Idle ELSE [at |-> "keep", page |-> onDrive])
          /\ UNCHANGED acts
       \/ Acting /\ Becomes(j, Idle)
    /\ UNCHANGED <<bookmark, cached, onDrive, tab, snapshot, spoiled>>

Keeps(j) ==
    /\ jobs[j].at = "keep"
    /\ cached' = jobs[j].page
    /\ Becomes(j, Idle)
    /\ UNCHANGED <<bookmark, onDrive, tab, snapshot, spoiled, acts>>

(* evictThumbs(), for whatever picture it was called.                      *)
Evicts ==
    /\ cached # NoPicture
    /\ cached' = NoPicture
    /\ UNCHANGED <<bookmark, onDrive, tab, jobs, snapshot, spoiled, acts>>

PicturesWorkerDies ==
    /\ Acting
    /\ \E j \in Jobs : jobs[j] # Idle
    /\ jobs' = [j \in Jobs |-> Idle]
    /\ UNCHANGED <<bookmark, cached, onDrive, tab, snapshot, spoiled>>

PreviewsNext ==
    \/ Navigates \/ DeletesOrRestores \/ Replaced \/ RolledBack
    \/ Evicts \/ PicturesWorkerDies
    \/ \E j \in Jobs :
        \/ Refreshes(j) \/ EditsUrl(j) \/ Looks(j) \/ Housekeeps(j)
        \/ Injects(j) \/ Records(j) \/ Pushes(j) \/ Notes(j) \/ Clears(j)
        \/ Compares(j) \/ Drops(j) \/ Fetches(j) \/ Keeps(j)

PreviewsSpec == PreviewsInit /\ [][PreviewsNext]_previews

-----------------------------------------------------------------------------
(* A bookmark with a preview, a deleted one that can be undone included,   *)
(* shows the page it opens: Drive holds that picture and the cache holds   *)
(* it or nothing, after any refreshes, evictions, looks and sweeps.        *)
(* Excused is what capture() and forgetThumb() do not look at: an address  *)
(* edited or a tab navigated while a picture is on its way, a refresh      *)
(* while another capture is under way or an old picture is being dropped,  *)
(* a failed upload, and a sweep between an import and its undo.            *)
PreviewFitsTheBookmark ==
    ~spoiled /\ bookmark.life # "purged" /\ bookmark.thumb # NoPicture =>
        /\ bookmark.thumb = bookmark.url
        /\ onDrive = bookmark.url
        /\ cached \in {NoPicture, bookmark.url}
=============================================================================
