-------------------------------- MODULE Icons -------------------------------
(***************************************************************************)
(* The favicon of one host on the Drive tier (background/favicons.ts,      *)
(* thumbs/favicons.ts, background/icon-cache.ts, and the icon half of      *)
(* background/thumbs.ts): a copy in the cache of this device, a copy on    *)
(* Drive, each taken from Chrome's favicon database or from the page.      *)
(*                                                                         *)
(* A job is an asynchronous procedure of the worker; what runs between two *)
(* awaits is one step, and a request to the storage takes effect when it   *)
(* is made.  An icon is where it came from.                                *)
(***************************************************************************)
EXTENDS Integers

CONSTANTS
    IconJobs,       \* 1 .. n: procedures that may run at a time
    MaxIconActs     \* bound: what the user, Chrome and Drive do

VARIABLES
    inVault,    \* some bookmark of the vault, deleted or not, is on the host
    here,       \* vm.icons.<name>
    there,      \* the file on Drive
    missing,    \* the worker's negative cache holds the host
    chromeHas,  \* _favicon/ answers with a real icon
    iconJobs,
    given,      \* history: an icon of the page's own reached Drive and no
                \* other job was saving or dropping one
    excused,    \* history: see PageIconsAreKept
    iconActs

icons == <<inVault, here, there, missing, chromeHas, iconJobs, given, excused, iconActs>>

NoIcon == "no icon"
Unasked == [at |-> "idle", for |-> "nobody", source |-> NoIcon]

IconsInit ==
    /\ inVault = TRUE
    /\ here = NoIcon /\ there = NoIcon
    /\ missing = FALSE
    /\ chromeHas \in BOOLEAN
    /\ iconJobs = [j \in IconJobs |-> Unasked]
    /\ given = FALSE
    /\ excused = FALSE
    /\ iconActs = 0

Event == iconActs < MaxIconActs /\ iconActs' = iconActs + 1

At(j, at) == iconJobs[j].at = at
Now(j, at) == iconJobs' = [iconJobs EXCEPT ![j].at = at]
Saves(j, source) == iconJobs' = [iconJobs EXCEPT ![j].at = "save", ![j].source = source]
IconDone(j) == iconJobs' = [iconJobs EXCEPT ![j] = Unasked]

Starts(j, at, for) ==
    /\ iconJobs[j] = Unasked
    /\ \A i \in IconJobs : i < j => iconJobs[i] # Unasked
    /\ iconJobs' = [iconJobs EXCEPT ![j] = [at |-> at, for |-> for, source |-> NoIcon]]

Contested(j) ==
    \E i \in IconJobs \ {j} : iconJobs[i].at \in {"save", "push", "drop", "drop on Drive"}

-----------------------------------------------------------------------------
(* What starts a job *)

(* captureOnAdd() asks no further where the cache has an icon.             *)
AddsBookmark(j) ==
    /\ Event
    /\ inVault' = TRUE
    /\ IF here = NoIcon THEN Starts(j, "chrome", "add") ELSE UNCHANGED iconJobs
    /\ UNCHANGED <<here, there, missing, chromeHas, given, excused>>

(* iconFor(), refreshIcon(), and thumbs.refresh() from the popup.          *)
ShowsRow(j) ==
    /\ Event
    /\ Starts(j, "chrome", "row")
    /\ UNCHANGED <<inVault, here, there, missing, chromeHas, given, excused>>

RefreshesIcon(j) ==
    /\ Event
    /\ \/ Starts(j, "chrome", "refresh")    \* the tab is not on the page
       \/ Starts(j, "page", "refresh")
       \/ Starts(j, "page", "popup")
    /\ UNCHANGED <<inVault, here, there, missing, chromeHas, given, excused>>

(* purge() forgets the last tombstone on the host.                         *)
LeavesVault ==
    /\ Event
    /\ inVault' = FALSE
    /\ given' = FALSE
    /\ UNCHANGED <<here, there, missing, chromeHas, iconJobs, excused>>

(* sweepOrphans(): the hosts of the vault and the names of the cache are   *)
(* read at one moment, tombstones counting as in the vault.                *)
SweepsIcons(j) ==
    /\ Event
    /\ ~inVault /\ here # NoIcon
    /\ Starts(j, "drop", "sweep")
    /\ UNCHANGED <<inVault, here, there, missing, chromeHas, given, excused>>

(* Chrome visits the site, or its history is cleared; evictIcons().        *)
ChromeChanges ==
    /\ Event
    /\ chromeHas' = ~chromeHas
    /\ UNCHANGED <<inVault, here, there, missing, iconJobs, given, excused>>

EvictsIcon ==
    /\ here # NoIcon
    /\ here' = NoIcon
    /\ UNCHANGED <<inVault, there, missing, chromeHas, iconJobs, given, excused, iconActs>>

IconsWorkerDies ==
    /\ Event
    /\ iconJobs' = [j \in IconJobs |-> Unasked]
    /\ missing' = FALSE
    /\ UNCHANGED <<inVault, here, there, chromeHas, given, excused>>

-----------------------------------------------------------------------------
(* How a job goes on *)

(* capturePageIcon(), keepPageIcon(): an add never overwrites what the     *)
(* cache has.                                                              *)
AsksPage(j) ==
    /\ At(j, "page")
    /\ \/ \* the page offers one
          IF iconJobs[j].for = "add" /\ here # NoIcon THEN IconDone(j) ELSE Saves(j, "page")
       \/ \* or nothing that can be kept
          IF iconJobs[j].for = "refresh" THEN Now(j, "chrome") ELSE IconDone(j)
    /\ UNCHANGED <<inVault, here, there, missing, chromeHas, given, excused, iconActs>>

(* readFavicon(), classifyIcon(): the globe is nothing.                    *)
AsksChrome(j) ==
    /\ At(j, "chrome")
    /\ LET for == iconJobs[j].for
       IN  IF chromeHas
             THEN IF for = "row" /\ here # NoIcon THEN IconDone(j) ELSE Saves(j, "chrome")
             ELSE CASE for = "add" -> Now(j, "page") \/ IconDone(j)
                    [] for = "row" -> IF missing THEN IconDone(j) ELSE Now(j, "load")
                    [] for = "refresh" -> Now(j, "load")
    /\ UNCHANGED <<inVault, here, there, missing, chromeHas, given, excused, iconActs>>

(* What loadIcon() came to: a row shows it or learns that there is none, a *)
(* refresh clears what Chrome put there.                                   *)
LoadedDropping(j, icon) ==         (* Bug: a Chrome miss clears every icon *)
    IF iconJobs[j].for = "refresh"
      THEN Now(j, "drop") /\ UNCHANGED missing
      ELSE IconDone(j) /\ missing' = (missing \/ icon = NoIcon)

LoadedIcon(j, icon) ==
    IF iconJobs[j].for = "refresh"
      THEN /\ IF icon = "page" THEN IconDone(j) ELSE Now(j, "drop")
           /\ UNCHANGED missing
      ELSE IconDone(j) /\ missing' = (missing \/ icon = NoIcon)

LoadsHere(j) ==
    /\ At(j, "load")
    /\ IF here # NoIcon THEN LoadedIcon(j, here) ELSE Now(j, "fetch") /\ UNCHANGED missing
    /\ UNCHANGED <<inVault, here, there, chromeHas, given, excused, iconActs>>

(* A read that fails is taken for an absence.                              *)
FetchesIcon(j) ==
    /\ At(j, "fetch")
    /\ \/ /\ LoadedIcon(j, there)
          /\ here' = IF there # NoIcon THEN there ELSE here
          /\ UNCHANGED <<excused, iconActs>>
       \/ /\ Event
          /\ LoadedIcon(j, NoIcon)
          /\ excused' = (excused \/ iconJobs[j].for = "refresh")
          /\ UNCHANGED here
    /\ UNCHANGED <<inVault, there, chromeHas, given>>

(* saveIcon() and forgetIconMiss(): the copy here, then the one on Drive.  *)
SavesIcon(j) ==
    /\ At(j, "save")
    /\ here' = iconJobs[j].source
    /\ Now(j, "push")
    /\ given' = (given /\ iconJobs[j].source = "page")
    /\ UNCHANGED <<inVault, there, missing, chromeHas, excused, iconActs>>

PushesIcon(j) ==
    /\ At(j, "push")
    /\ LET source == iconJobs[j].source
       IN  \/ /\ there' = source
              /\ given' = (source = "page" /\ here # "chrome" /\ inVault /\ ~Contested(j))
              /\ UNCHANGED iconActs
           \/ Event /\ UNCHANGED <<there, given>>
    /\ missing' = FALSE
    /\ IconDone(j)
    /\ UNCHANGED <<inVault, here, chromeHas, excused>>

(* dropIcons(): here, then on Drive, whose failure is swallowed.           *)
DropsIcon(j) ==
    /\ \/ /\ At(j, "drop")
          /\ here' = NoIcon
          /\ Now(j, "drop on Drive")
          /\ UNCHANGED <<there, missing, iconActs>>
       \/ /\ At(j, "drop on Drive")
          /\ \/ there' = NoIcon /\ UNCHANGED iconActs
             \/ Event /\ UNCHANGED there
          /\ missing' = (missing \/ iconJobs[j].for = "refresh")
          /\ IconDone(j)
          /\ UNCHANGED here
    /\ UNCHANGED <<inVault, chromeHas, given, excused>>

IconsNext ==
    \/ LeavesVault \/ ChromeChanges \/ EvictsIcon \/ IconsWorkerDies
    \/ \E j \in IconJobs :
        \/ AddsBookmark(j) \/ ShowsRow(j) \/ RefreshesIcon(j) \/ SweepsIcons(j)
        \/ AsksPage(j) \/ AsksChrome(j) \/ LoadsHere(j) \/ FetchesIcon(j)
        \/ SavesIcon(j) \/ PushesIcon(j) \/ DropsIcon(j)

IconsSpec == IconsInit /\ [][IconsNext]_icons

-----------------------------------------------------------------------------
(* The icon a page gave for itself stays on Drive while the host is in the *)
(* vault, unless one of Chrome's was saved over it: evictions, refreshes   *)
(* that find nothing, sweeps and adds of other bookmarks do not take it    *)
(* (refreshIcon(): "kept, because nothing here contradicts it").  Excused  *)
(* is a refresh that could not read Drive, which it takes for an absence;  *)
(* and nothing is claimed where two jobs save or drop at once.             *)
PageIconsAreKept ==
    given /\ ~excused => there = "page"
=============================================================================
