----------------------------- MODULE ManagerProofs -----------------------------
(* What the manager page shows of the bookmarks: the icon of a host        *)
(* (Icons) and the preview of a bookmark (Previews), each with a copy on   *)
(* this device and one on Drive, for any number of jobs at a time; and the *)
(* list itself (Manager), for any number of rows, folders and procedures   *)
(* of the page that wait for the worker.                                   *)
EXTENDS Previews, Icons, Manager, TLAPS, SequenceTheorems, FiniteSetTheorems

-----------------------------------------------------------------------------
(* Favicons                                                                *)

Sources == {NoIcon, "chrome", "page"}

IconStages == {"idle", "chrome", "page", "load", "fetch", "save", "push", "drop", "drop on Drive"}

IconJobRecords ==
    [at : IconStages,
     for : {"nobody", "add", "row", "refresh", "popup", "sweep"},
     source : Sources]

IconTypes ==
    /\ here \in Sources /\ there \in Sources
    /\ iconJobs \in [IconJobs -> IconJobRecords]

(* What a job saves came from somewhere, and who asks Chrome is known.     *)
JobKnown(job) ==
    /\ job.at \in {"save", "push"} => job.source \in {"chrome", "page"}
    /\ job.at = "chrome" => job.for \in {"add", "row", "refresh"}

JobsKnown == \A j \in IconJobs : JobKnown(iconJobs[j])

(* While the page's icon is given, the cache has it or nothing, the host   *)
(* is in the vault, and no job is about to take it from Drive: none drops, *)
(* and none pushes an icon of Chrome's that it has saved.                  *)
Undisturbed ==
    /\ here # "chrome"
    /\ inVault
    /\ \A j \in IconJobs :
        /\ iconJobs[j].at \notin {"drop", "drop on Drive"}
        /\ iconJobs[j].at = "push" => iconJobs[j].source = "page"

IconsInv ==
    /\ IconTypes
    /\ JobsKnown
    /\ given /\ ~excused => Undisturbed
    /\ PageIconsAreKept

LEMMA InitIcons == IconsInit => IconsInv
<1> SUFFICES ASSUME IconsInit PROVE IconsInv
    OBVIOUS
<1>1. Unasked \in IconJobRecords /\ Unasked.at = "idle"
    BY DEF Unasked, IconJobRecords, IconStages, Sources
<1>2. iconJobs \in [IconJobs -> IconJobRecords] /\ \A j \in IconJobs : iconJobs[j].at = "idle"
    BY <1>1 DEF IconsInit
<1>3. QED
    BY <1>2 DEF IconsInit, IconsInv, IconTypes, JobsKnown, JobKnown, PageIconsAreKept, Sources

(* A job that changes where it is, and its source perhaps: the others stay. *)
LEMMA IconJobTurns ==
    ASSUME IconTypes, NEW j \in IconJobs, NEW job \in IconJobRecords,
           iconJobs' = [iconJobs EXCEPT ![j] = job]
    PROVE  /\ iconJobs' \in [IconJobs -> IconJobRecords]
           /\ iconJobs'[j] = job
           /\ \A i \in IconJobs \ {j} : iconJobs'[i] = iconJobs[i]
BY DEF IconTypes

(* The forms in which the actions write that.                              *)
LEMMA IconJobMoves ==
    ASSUME IconTypes, NEW j \in IconJobs, NEW at \in IconStages, Now(j, at)
    PROVE  \E job \in IconJobRecords :
               /\ iconJobs' = [iconJobs EXCEPT ![j] = job]
               /\ job.at = at /\ job.for = iconJobs[j].for /\ job.source = iconJobs[j].source
<1> DEFINE job == [iconJobs[j] EXCEPT !.at = at]
<1>1. iconJobs[j] \in IconJobRecords
    BY DEF IconTypes
<1>2. /\ job \in IconJobRecords
      /\ job.at = at /\ job.for = iconJobs[j].for /\ job.source = iconJobs[j].source
    BY <1>1 DEF IconJobRecords, IconStages
<1>3. iconJobs' = [iconJobs EXCEPT ![j] = job]
    BY DEF Now
<1> HIDE DEF job
<1>4. QED
    BY <1>2, <1>3

LEMMA IconJobSaves ==
    ASSUME IconTypes, NEW j \in IconJobs, NEW source \in Sources, Saves(j, source)
    PROVE  \E job \in IconJobRecords :
               /\ iconJobs' = [iconJobs EXCEPT ![j] = job]
               /\ job.at = "save" /\ job.source = source
<1> DEFINE job == [iconJobs[j] EXCEPT !.at = "save", !.source = source]
<1>1. iconJobs[j] \in IconJobRecords
    BY DEF IconTypes
<1>2. job \in IconJobRecords /\ job.at = "save" /\ job.source = source
    BY <1>1 DEF IconJobRecords, IconStages
<1>3. iconJobs' = [iconJobs EXCEPT ![j] = job]
    BY DEF Saves, IconTypes
<1> HIDE DEF job
<1>4. QED
    BY <1>2, <1>3

LEMMA IconJobEnds ==
    ASSUME IconTypes, NEW j \in IconJobs, IconDone(j)
    PROVE  \E job \in IconJobRecords : iconJobs' = [iconJobs EXCEPT ![j] = job] /\ job.at = "idle"
<1>1. Unasked \in IconJobRecords /\ Unasked.at = "idle"
    BY DEF Unasked, IconJobRecords, IconStages, Sources
<1>2. QED
    BY <1>1 DEF IconDone

LEMMA IconJobStarts ==
    ASSUME IconTypes, NEW j \in IconJobs, NEW at \in {"chrome", "page", "drop"},
           NEW for \in {"add", "row", "refresh", "popup", "sweep"}, Starts(j, at, for)
    PROVE  \E job \in IconJobRecords : iconJobs' = [iconJobs EXCEPT ![j] = job] /\ job.at = at /\ job.for = for
<1> DEFINE job == [at |-> at, for |-> for, source |-> NoIcon]
<1>1. job \in IconJobRecords /\ job.at = at /\ job.for = for
    BY DEF IconJobRecords, IconStages, Sources
<1>2. iconJobs' = [iconJobs EXCEPT ![j] = job]
    BY DEF Starts
<1> HIDE DEF job
<1>3. QED
    BY <1>1, <1>2

(* What the invariant asks of a step after which one job is elsewhere and  *)
(* the icons, the vault and the histories are as they were.                *)
LEMMA OnlyAJobTurns ==
    ASSUME IconsInv, NEW j \in IconJobs, NEW job \in IconJobRecords,
           iconJobs' = [iconJobs EXCEPT ![j] = job],
           here' = here \/ (here' = there /\ there # NoIcon), there' = there, inVault' = inVault, given' = given,
           excused => excused',
           JobKnown(job),
           given /\ ~excused' => /\ job.at \notin {"drop", "drop on Drive"}
                                 /\ job.at = "push" => job.source = "page"
    PROVE  IconsInv'
<1>1. /\ iconJobs' \in [IconJobs -> IconJobRecords]
      /\ iconJobs'[j] = job
      /\ \A i \in IconJobs \ {j} : iconJobs'[i] = iconJobs[i]
    BY IconJobTurns DEF IconsInv
<1>2. IconTypes'
    BY <1>1 DEF IconsInv, IconTypes
<1>3. JobsKnown'
    BY <1>1 DEF IconsInv, JobsKnown, JobKnown
<1>4. (given /\ ~excused => Undisturbed)' /\ PageIconsAreKept'
    BY <1>1 DEF IconsInv, Undisturbed, PageIconsAreKept
<1>5. QED
    BY <1>2, <1>3, <1>4 DEF IconsInv

(* The same for jobs that rest, and for a step that starts none.           *)
LEMMA NoJobTurns ==
    ASSUME IconsInv, iconJobs' = iconJobs, there' = there,
           here' = here \/ here' = NoIcon,
           given' => given, excused => excused',
           given' /\ inVault => inVault'
    PROVE  IconsInv'
BY DEF IconsInv, IconTypes, JobsKnown, JobKnown, Undisturbed, PageIconsAreKept, Sources, NoIcon

LEMMA IconEventsKeep ==
    ASSUME IconsInv, LeavesVault \/ ChromeChanges \/ EvictsIcon \/ IconsWorkerDies
    PROVE  IconsInv'
<1>1. CASE LeavesVault
    BY <1>1, NoJobTurns DEF LeavesVault
<1>2. CASE ChromeChanges
    BY <1>2, NoJobTurns DEF ChromeChanges
<1>3. CASE EvictsIcon
    BY <1>3, NoJobTurns DEF EvictsIcon
<1>4. CASE IconsWorkerDies
  <2>1. Unasked \in IconJobRecords /\ Unasked.at = "idle"
      BY DEF Unasked, IconJobRecords, IconStages, Sources
  <2>2. iconJobs' \in [IconJobs -> IconJobRecords] /\ \A j \in IconJobs : iconJobs'[j].at = "idle"
      BY <1>4, <2>1 DEF IconsWorkerDies
  <2>3. /\ inVault' = inVault /\ here' = here /\ there' = there /\ given' = given /\ excused' = excused
      BY <1>4 DEF IconsWorkerDies
  <2>4. QED
      BY <2>2, <2>3 DEF IconsInv, IconTypes, JobsKnown, JobKnown, Undisturbed, PageIconsAreKept
<1>5. QED
    BY <1>1, <1>2, <1>3, <1>4

LEMMA IconStartsKeep ==
    ASSUME IconsInv, NEW j \in IconJobs,
           AddsBookmark(j) \/ ShowsRow(j) \/ RefreshesIcon(j) \/ SweepsIcons(j)
    PROVE  IconsInv'
<1>1. IconTypes
    BY DEF IconsInv
<1>2. CASE AddsBookmark(j)
  <2>1. CASE here = NoIcon
    <3>1. PICK job \in IconJobRecords : iconJobs' = [iconJobs EXCEPT ![j] = job] /\ job.at = "chrome" /\ job.for = "add"
        BY <1>1, <1>2, <2>1, IconJobStarts DEF AddsBookmark
    <3>2. /\ here' = here /\ there' = there /\ given' = given /\ excused' = excused /\ inVault' = TRUE
        BY <1>2 DEF AddsBookmark
    <3>3. /\ iconJobs' \in [IconJobs -> IconJobRecords]
          /\ iconJobs'[j] = job
          /\ \A i \in IconJobs \ {j} : iconJobs'[i] = iconJobs[i]
        BY <1>1, <3>1, IconJobTurns
    <3>4. QED
        BY <3>1, <3>2, <3>3 DEF IconsInv, IconTypes, JobsKnown, JobKnown, Undisturbed, PageIconsAreKept
  <2>2. CASE here # NoIcon
    <3>1. /\ here' = here /\ there' = there /\ given' = given /\ excused' = excused /\ inVault' = TRUE
          /\ iconJobs' = iconJobs
        BY <1>2, <2>2 DEF AddsBookmark
    <3>2. QED
        BY <3>1 DEF IconsInv, IconTypes, JobsKnown, JobKnown, Undisturbed, PageIconsAreKept
  <2>3. QED
      BY <2>1, <2>2
<1>3. CASE ShowsRow(j)
  <2>1. PICK job \in IconJobRecords :
            iconJobs' = [iconJobs EXCEPT ![j] = job] /\ job.at = "chrome" /\ job.for = "row"
      BY <1>1, <1>3, IconJobStarts DEF ShowsRow
  <2>2. QED
      BY <1>3, <2>1, OnlyAJobTurns DEF JobKnown, ShowsRow
<1>4. CASE RefreshesIcon(j)
  <2>1. PICK job \in IconJobRecords :
            iconJobs' = [iconJobs EXCEPT ![j] = job] /\ job.at \in {"chrome", "page"}
            /\ job.for \in {"refresh", "popup"} /\ (job.at = "chrome" => job.for = "refresh")
    <3>1. CASE Starts(j, "chrome", "refresh")
        BY <1>1, <3>1, IconJobStarts
    <3>2. CASE Starts(j, "page", "refresh")
        BY <1>1, <3>2, IconJobStarts
    <3>3. CASE Starts(j, "page", "popup")
        BY <1>1, <3>3, IconJobStarts
    <3>4. QED
        BY <1>4, <3>1, <3>2, <3>3 DEF RefreshesIcon
  <2>2. QED
      BY <1>4, <2>1, OnlyAJobTurns DEF JobKnown, RefreshesIcon
<1>5. CASE SweepsIcons(j)
  <2>1. PICK job \in IconJobRecords : iconJobs' = [iconJobs EXCEPT ![j] = job] /\ job.at = "drop"
      BY <1>1, <1>5, IconJobStarts DEF SweepsIcons
  <2>2. ~(given /\ ~excused)
      BY <1>5 DEF SweepsIcons, IconsInv, Undisturbed
  <2>3. QED
      BY <1>5, <2>1, <2>2, OnlyAJobTurns DEF JobKnown, SweepsIcons
<1>6. QED
    BY <1>2, <1>3, <1>4, <1>5

(* loadIcon() came to an icon: only a refresh that found none of the       *)
(* page's goes on to drop.                                                 *)
LEMMA LoadedTurns ==
    ASSUME IconTypes, NEW j \in IconJobs, NEW icon, LoadedIcon(j, icon)
    PROVE  \E job \in IconJobRecords :
               /\ iconJobs' = [iconJobs EXCEPT ![j] = job]
               /\ job.at = "idle" \/ (job.at = "drop" /\ icon # "page" /\ iconJobs[j].for = "refresh")
<1>1. CASE IconDone(j)
    BY <1>1, IconJobEnds
<1>2. CASE iconJobs[j].for = "refresh" /\ icon # "page" /\ Now(j, "drop")
    BY <1>2, IconJobMoves, ZenonT(60) DEF IconStages
<1>3. QED
    BY <1>1, <1>2 DEF LoadedIcon

LEMMA IconAnswersKeep ==
    ASSUME IconsInv, NEW j \in IconJobs,
           AsksPage(j) \/ AsksChrome(j) \/ LoadsHere(j) \/ FetchesIcon(j)
    PROVE  IconsInv'
<1>1. IconTypes
    BY DEF IconsInv
<1>2. CASE AsksPage(j)
  <2>1. IconDone(j) \/ Saves(j, "page") \/ (iconJobs[j].for = "refresh" /\ Now(j, "chrome"))
      BY <1>2 DEF AsksPage
  <2>2. PICK job \in IconJobRecords :
            /\ iconJobs' = [iconJobs EXCEPT ![j] = job]
            /\ \/ job.at = "idle"
               \/ job.at = "save" /\ job.source = "page"
               \/ job.at = "chrome" /\ job.for = "refresh"
    <3>1. CASE IconDone(j)
        BY <1>1, <3>1, IconJobEnds
    <3>2. CASE Saves(j, "page")
        BY <1>1, <3>2, IconJobSaves DEF Sources
    <3>3. CASE iconJobs[j].for = "refresh" /\ Now(j, "chrome")
      <4>1. \E job \in IconJobRecords :
               /\ iconJobs' = [iconJobs EXCEPT ![j] = job]
               /\ job.at = "chrome" /\ job.for = iconJobs[j].for /\ job.source = iconJobs[j].source
          BY <1>1, <3>3, IconJobMoves DEF IconStages
      <4>2. QED
          BY <3>3, <4>1
    <3>4. QED
        BY <2>1, <3>1, <3>2, <3>3
  <2>3. QED
      BY <1>2, <2>2, OnlyAJobTurns DEF JobKnown, AsksPage
<1>3. CASE AsksChrome(j)
  <2>1. IconDone(j) \/ Saves(j, "chrome") \/ Now(j, "page") \/ Now(j, "load")
    <3>1. iconJobs[j].for \in {"add", "row", "refresh"}
        BY <1>3 DEF IconsInv, JobsKnown, JobKnown, AsksChrome, At
    <3>2. CASE chromeHas
        BY <1>3, <3>2 DEF AsksChrome
    <3>3. CASE ~chromeHas /\ iconJobs[j].for = "add"
        BY <1>3, <3>3 DEF AsksChrome
    <3>4. CASE ~chromeHas /\ iconJobs[j].for = "row"
        BY <1>3, <3>4 DEF AsksChrome
    <3>5. CASE ~chromeHas /\ iconJobs[j].for = "refresh"
        BY <1>3, <3>5 DEF AsksChrome
    <3>6. QED
        BY <3>1, <3>2, <3>3, <3>4, <3>5
  <2>2. PICK job \in IconJobRecords :
            /\ iconJobs' = [iconJobs EXCEPT ![j] = job]
            /\ job.at \in {"idle", "page", "load"} \/ (job.at = "save" /\ job.source = "chrome")
    <3>1. CASE IconDone(j)
        BY <1>1, <3>1, IconJobEnds
    <3>2. CASE Saves(j, "chrome")
        BY <1>1, <3>2, IconJobSaves DEF Sources
    <3>3. CASE Now(j, "page")
      <4>1. \E job \in IconJobRecords :
               /\ iconJobs' = [iconJobs EXCEPT ![j] = job]
               /\ job.at = "page" /\ job.for = iconJobs[j].for /\ job.source = iconJobs[j].source
          BY <1>1, <3>3, IconJobMoves DEF IconStages
      <4>2. QED
          BY <4>1
    <3>4. CASE Now(j, "load")
        BY <1>1, <3>4, IconJobMoves, ZenonT(60) DEF IconStages
    <3>5. QED
        BY <2>1, <3>1, <3>2, <3>3, <3>4
  <2>3. QED
      BY <1>3, <2>2, OnlyAJobTurns DEF JobKnown, AsksChrome
<1>4. CASE LoadsHere(j)
  <2>1. CASE here # NoIcon
    <3>1. LoadedIcon(j, here)
        BY <1>4, <2>1 DEF LoadsHere
    <3>2. PICK job \in IconJobRecords :
              /\ iconJobs' = [iconJobs EXCEPT ![j] = job]
              /\ job.at = "idle" \/ (job.at = "drop" /\ here # "page")
        BY <1>1, <3>1, LoadedTurns
    <3>3. given /\ ~excused => here = "page"
        BY <1>1, <2>1 DEF IconsInv, IconTypes, Undisturbed, Sources
    <3>4. QED
        BY <1>4, <3>2, <3>3, OnlyAJobTurns DEF JobKnown, LoadsHere
  <2>2. CASE here = NoIcon
    <3>1. PICK job \in IconJobRecords : iconJobs' = [iconJobs EXCEPT ![j] = job] /\ job.at = "fetch"
        BY <1>1, <1>4, <2>2, IconJobMoves, ZenonT(60) DEF LoadsHere, IconStages
    <3>2. QED
        BY <1>4, <3>1, OnlyAJobTurns DEF JobKnown, LoadsHere
  <2>3. QED
      BY <2>1, <2>2
<1>5. CASE FetchesIcon(j)
  <2>1. CASE LoadedIcon(j, there) /\ here' = (IF there # NoIcon THEN there ELSE here) /\ excused' = excused
    <3>1. PICK job \in IconJobRecords :
              /\ iconJobs' = [iconJobs EXCEPT ![j] = job]
              /\ job.at = "idle" \/ (job.at = "drop" /\ there # "page")
        BY <1>1, <2>1, LoadedTurns
    <3>2. given /\ ~excused => there = "page"
        BY DEF IconsInv, PageIconsAreKept
    <3>3. QED
        BY <1>5, <2>1, <3>1, <3>2, OnlyAJobTurns DEF JobKnown, FetchesIcon
  <2>2. CASE LoadedIcon(j, NoIcon) /\ excused' = (excused \/ iconJobs[j].for = "refresh") /\ here' = here
    <3>1. PICK job \in IconJobRecords :
              /\ iconJobs' = [iconJobs EXCEPT ![j] = job]
              /\ job.at = "idle" \/ (job.at = "drop" /\ iconJobs[j].for = "refresh")
        BY <1>1, <2>2, LoadedTurns
    <3>2. QED
        BY <1>5, <2>2, <3>1, OnlyAJobTurns DEF JobKnown, FetchesIcon
  <2>3. QED
      BY <1>5, <2>1, <2>2 DEF FetchesIcon
<1>6. QED
    BY <1>2, <1>3, <1>4, <1>5

LEMMA IconWritesKeep ==
    ASSUME IconsInv, NEW j \in IconJobs, SavesIcon(j) \/ PushesIcon(j) \/ DropsIcon(j)
    PROVE  IconsInv'
<1>1. IconTypes /\ iconJobs[j] \in IconJobRecords
    BY DEF IconsInv, IconTypes
<1>2. CASE SavesIcon(j)
  <2>1. iconJobs[j].source \in {"chrome", "page"}
      BY <1>2 DEF IconsInv, JobsKnown, JobKnown, SavesIcon, At
  <2>2. PICK job \in IconJobRecords :
            /\ iconJobs' = [iconJobs EXCEPT ![j] = job]
            /\ job.at = "push" /\ job.source = iconJobs[j].source
      BY <1>1, <1>2, IconJobMoves, ZenonT(60) DEF SavesIcon, IconStages
  <2>3. /\ iconJobs' \in [IconJobs -> IconJobRecords]
        /\ iconJobs'[j] = job
        /\ \A i \in IconJobs \ {j} : iconJobs'[i] = iconJobs[i]
      BY <1>1, <2>2, IconJobTurns
  <2>4. /\ here' = iconJobs[j].source /\ there' = there /\ inVault' = inVault /\ excused' = excused
        /\ given' <=> (given /\ iconJobs[j].source = "page")
      BY <1>2 DEF SavesIcon
  <2>5. IconTypes' /\ JobsKnown'
      BY <2>1, <2>2, <2>3, <2>4 DEF IconsInv, IconTypes, JobsKnown, JobKnown, Sources
  <2>6. (given /\ ~excused => Undisturbed)' /\ PageIconsAreKept'
      BY <2>1, <2>2, <2>3, <2>4 DEF IconsInv, Undisturbed, PageIconsAreKept
  <2>7. QED
      BY <2>5, <2>6 DEF IconsInv
<1>3. CASE PushesIcon(j)
  <2>1. iconJobs[j].source \in {"chrome", "page"} /\ iconJobs[j].at = "push"
      BY <1>3 DEF IconsInv, JobsKnown, JobKnown, PushesIcon, At
  <2>2. PICK job \in IconJobRecords : iconJobs' = [iconJobs EXCEPT ![j] = job] /\ job.at = "idle"
      BY <1>1, <1>3, IconJobEnds DEF PushesIcon
  <2>3. CASE there' = there /\ given' = given
      BY <1>3, <2>2, <2>3, OnlyAJobTurns DEF JobKnown, PushesIcon
  <2>4. CASE /\ there' = iconJobs[j].source
             /\ given' = (iconJobs[j].source = "page" /\ here # "chrome" /\ inVault /\ ~Contested(j))
    <3>1. /\ iconJobs' \in [IconJobs -> IconJobRecords]
          /\ iconJobs'[j] = job
          /\ \A i \in IconJobs \ {j} : iconJobs'[i] = iconJobs[i]
        BY <1>1, <2>2, IconJobTurns
    <3>2. here' = here /\ inVault' = inVault
        BY <1>3 DEF PushesIcon
    <3>3. given' => /\ iconJobs[j].source = "page" /\ here # "chrome" /\ inVault
                    /\ \A i \in IconJobs \ {j} : iconJobs[i].at \notin {"save", "push", "drop", "drop on Drive"}
        BY <2>4 DEF Contested
    <3>4. IconTypes' /\ JobsKnown'
        BY <2>1, <2>2, <2>4, <3>1, <3>2 DEF IconsInv, IconTypes, JobsKnown, JobKnown, Sources
    <3>5. (given => Undisturbed)'
        BY <2>2, <3>1, <3>2, <3>3 DEF Undisturbed
    <3>6. PageIconsAreKept'
        BY <2>4, <3>3 DEF PageIconsAreKept
    <3>7. QED
        BY <3>4, <3>5, <3>6 DEF IconsInv
  <2>5. QED
      BY <1>3, <2>3, <2>4 DEF PushesIcon
<1>4. CASE DropsIcon(j)
  <2>1. iconJobs[j].at \in {"drop", "drop on Drive"} /\ given' = given /\ excused' = excused
      BY <1>4 DEF DropsIcon, At
  <2>2. ~(given /\ ~excused)
      BY <2>1 DEF IconsInv, Undisturbed
  <2>3. PICK job \in IconJobRecords :
            iconJobs' = [iconJobs EXCEPT ![j] = job] /\ job.at \in {"idle", "drop on Drive"}
    <3>1. CASE IconDone(j)
        BY <1>1, <3>1, IconJobEnds
    <3>2. CASE Now(j, "drop on Drive")
        BY <1>1, <3>2, IconJobMoves, ZenonT(60) DEF IconStages
    <3>3. QED
        BY <1>4, <3>1, <3>2 DEF DropsIcon
  <2>4. /\ iconJobs' \in [IconJobs -> IconJobRecords]
        /\ iconJobs'[j] = job
        /\ \A i \in IconJobs \ {j} : iconJobs'[i] = iconJobs[i]
      BY <1>1, <2>3, IconJobTurns
  <2>5. here' \in {here, NoIcon} /\ there' \in {there, NoIcon}
      BY <1>4 DEF DropsIcon
  <2>6. IconTypes' /\ JobsKnown'
      BY <2>3, <2>4, <2>5 DEF IconsInv, IconTypes, JobsKnown, JobKnown, Sources
  <2>7. QED
      BY <2>1, <2>2, <2>6 DEF IconsInv, PageIconsAreKept
<1>5. QED
    BY <1>2, <1>3, <1>4

LEMMA IconsKeep == IconsInv /\ [IconsNext]_icons => IconsInv'
<1> SUFFICES ASSUME IconsInv, [IconsNext]_icons PROVE IconsInv'
    OBVIOUS
<1>1. CASE UNCHANGED icons
    BY <1>1 DEF icons, IconsInv, IconTypes, JobsKnown, JobKnown, Undisturbed, PageIconsAreKept
<1>2. CASE IconsNext
    BY <1>2, IconEventsKeep, IconStartsKeep, IconAnswersKeep, IconWritesKeep DEF IconsNext
<1>3. QED
    BY <1>1, <1>2

(* An icon that a page gave for itself stays on Drive while its host is in *)
(* the vault, whatever any number of adds, rows, refreshes, evictions and  *)
(* sweeps do at once (background/favicons.ts, background/icon-cache.ts).   *)
THEOREM PageIconsAreAlwaysKept == IconsSpec => []PageIconsAreKept
<1>1. IconsInv => PageIconsAreKept
    BY DEF IconsInv
<1>2. QED
    BY InitIcons, IconsKeep, <1>1, PTL DEF IconsSpec

-----------------------------------------------------------------------------
(* Previews                                                                *)

Pictures == Pages \cup {NoPicture}
CaptureStages == {"inject", "record", "push", "note", "clear"}
DropStages == {"drop", "drop on Drive"}

PictureJobs ==
    [at : CaptureStages, replace : BOOLEAN, for : Pages, page : Pictures]
    \cup [at : {"idle", "drop", "drop on Drive", "compare", "fetch"}]
    \cup [at : {"keep"}, page : Pictures]

PreviewBookmarks == [url : Pages, life : {"live", "deleted", "purged"}, thumb : Pictures]

PreviewTypes ==
    /\ bookmark \in PreviewBookmarks
    /\ cached \in Pictures
    /\ onDrive \in Pictures
    /\ tab \in Pages
    /\ jobs \in [Jobs -> PictureJobs]
    /\ snapshot \in SUBSET PreviewBookmarks
    /\ snapshot # {} => bookmark.life = "purged"
    /\ \A b \in snapshot : b.life # "purged"

(* What an undo can still show: the bookmark, or the one the snapshot of   *)
(* an import holds.  One that was purged for good is nobody's concern.     *)
Concerned ==
    IF snapshot # {} THEN snapshot ELSE IF bookmark.life = "purged" THEN {} ELSE {bookmark}

(* What a job carries is a picture of the page u.                          *)
JobFits(job, u) ==
    /\ job.at \in CaptureStages => job.for = u
    /\ job.at = "record" => job.page \in {u, NoPicture}
    /\ job.at \in {"push", "note"} => job.page = u /\ cached \in {NoPicture, u}
    /\ job.at = "note" => onDrive = u
    /\ job.at = "fetch" => onDrive \in {NoPicture, u}
    /\ job.at = "keep" => job.page = u

(* A bookmark of the page u whose record shows t: the copies fit, one      *)
(* capture is under way at most, and a picture is dropped only where there *)
(* is neither a record nor a capture.                                      *)
Fits(u, t) ==
    /\ t # NoPicture => t = u /\ onDrive = u /\ cached \in {NoPicture, u}
    /\ \A j \in Jobs : JobFits(jobs[j], u)
    /\ \A i, j \in Jobs : jobs[i].at \in CaptureStages /\ jobs[j].at \in CaptureStages => i = j
    /\ \A i \in Jobs : jobs[i].at \in DropStages =>
          t = NoPicture /\ \A j \in Jobs : jobs[j].at \notin CaptureStages

PreviewsInv ==
    /\ PreviewTypes
    /\ ~spoiled => \A b \in Concerned : Fits(b.url, b.thumb)

LEMMA PreviewsInvFits == PreviewsInv => PreviewFitsTheBookmark
<1> SUFFICES ASSUME PreviewsInv, ~spoiled, bookmark.life # "purged", bookmark.thumb # NoPicture
             PROVE  /\ bookmark.thumb = bookmark.url
                    /\ onDrive = bookmark.url
                    /\ cached \in {NoPicture, bookmark.url}
    BY DEF PreviewFitsTheBookmark
<1>1. bookmark \in Concerned
    BY DEF PreviewsInv, PreviewTypes, Concerned
<1>2. Fits(bookmark.url, bookmark.thumb)
    BY <1>1 DEF PreviewsInv
<1>3. QED
    BY <1>2 DEF Fits

LEMMA IdleFits == Idle \in PictureJobs /\ Idle.at = "idle" /\ \A u : JobFits(Idle, u)
BY DEF Idle, PictureJobs, JobFits, CaptureStages

LEMMA PictureJobTurns ==
    ASSUME PreviewTypes, NEW j \in Jobs, NEW job \in PictureJobs, jobs' = [jobs EXCEPT ![j] = job]
    PROVE  /\ jobs' \in [Jobs -> PictureJobs]
           /\ jobs'[j] = job
           /\ \A i \in Jobs \ {j} : jobs'[i] = jobs[i]
BY DEF PreviewTypes

LEMMA Captures ==
    ASSUME NEW job \in PictureJobs, job.at \in CaptureStages
    PROVE  job \in [at : CaptureStages, replace : BOOLEAN, for : Pages, page : Pictures]
BY DEF PictureJobs, CaptureStages

LEMMA CapturesGoOn ==
    ASSUME PreviewTypes, NEW j \in Jobs, jobs[j].at \in CaptureStages, NEW at \in CaptureStages, GoesTo(j, at)
    PROVE  \E job \in PictureJobs :
               /\ jobs' = [jobs EXCEPT ![j] = job]
               /\ job.at = at /\ job.for = jobs[j].for /\ job.page = jobs[j].page
<1> DEFINE job == [jobs[j] EXCEPT !.at = at]
<1>1. jobs[j] \in [at : CaptureStages, replace : BOOLEAN, for : Pages, page : Pictures]
    BY Captures DEF PreviewTypes
<1>2. /\ job \in [at : CaptureStages, replace : BOOLEAN, for : Pages, page : Pictures]
      /\ job.at = at /\ job.for = jobs[j].for /\ job.page = jobs[j].page
    BY <1>1
<1>3. jobs' = [jobs EXCEPT ![j] = job]
    BY DEF GoesTo
<1> HIDE DEF job
<1>4. job \in PictureJobs
    BY <1>2 DEF PictureJobs
<1>5. QED
    BY <1>2, <1>3, <1>4

(* A job goes on, and with it the copies perhaps.                          *)
LEMMA FitsGoesOn ==
    ASSUME PreviewTypes, NEW u, NEW t, Fits(u, t), NEW j \in Jobs, NEW job \in PictureJobs,
           jobs' = [jobs EXCEPT ![j] = job],
           JobFits(job, u)',
           job.at \in CaptureStages => jobs[j].at \in CaptureStages,
           job.at \in DropStages => jobs[j].at \in DropStages,
           cached' \in {cached, NoPicture, u},
           onDrive' \in {onDrive, u} \/ (onDrive' = NoPicture /\ jobs[j].at \in DropStages)
    PROVE  Fits(u, t)'
<1>1. /\ jobs'[j] = job
      /\ \A i \in Jobs \ {j} : jobs'[i] = jobs[i]
    BY PictureJobTurns
<1>2. t # NoPicture => onDrive' = u /\ cached' \in {NoPicture, u}
    BY DEF Fits
<1>3. \A i \in Jobs : JobFits(jobs[i], u)'
  <2> SUFFICES ASSUME NEW i \in Jobs PROVE JobFits(jobs[i], u)'
      OBVIOUS
  <2>1. CASE i = j
      BY <1>1, <2>1
  <2>2. CASE i # j
    <3>1. JobFits(jobs[i], u) /\ jobs'[i] = jobs[i]
        BY <1>1, <2>2 DEF Fits
    <3>2. jobs[i].at \in CaptureStages => onDrive' \in {onDrive, u}
        BY DEF Fits
    <3>3. QED
        BY <3>1, <3>2 DEF JobFits, CaptureStages
  <2>3. QED
      BY <2>1, <2>2
<1>4. \A i \in Jobs : /\ jobs'[i].at \in CaptureStages => jobs[i].at \in CaptureStages
                      /\ jobs'[i].at \in DropStages => jobs[i].at \in DropStages
    BY <1>1
<1>5. QED
    BY <1>2, <1>3, <1>4 DEF Fits

(* What is left to show of a step that leaves bookmark and snapshot alone. *)
LEMMA SameBookmark ==
    ASSUME PreviewsInv, jobs' \in [Jobs -> PictureJobs],
           bookmark' = bookmark, snapshot' = snapshot,
           cached' \in Pictures, onDrive' \in Pictures, tab' \in Pages,
           spoiled => spoiled',
           \A b \in Concerned : (~spoiled' /\ Fits(b.url, b.thumb)) => Fits(b.url, b.thumb)'
    PROVE  PreviewsInv'
<1>1. PreviewTypes'
    BY DEF PreviewsInv, PreviewTypes
<1>2. Concerned' = Concerned
    BY DEF Concerned
<1>3. ASSUME ~spoiled', NEW b \in Concerned PROVE Fits(b.url, b.thumb)'
  <2>1. Fits(b.url, b.thumb)
      BY <1>3 DEF PreviewsInv
  <2>2. QED
      BY <1>3, <2>1
<1>4. QED
    BY <1>1, <1>2, <1>3 DEF PreviewsInv

LEMMA InitPreviews == PreviewsInit => PreviewsInv
<1> SUFFICES ASSUME PreviewsInit PROVE PreviewsInv
    OBVIOUS
<1> DEFINE first == Capture(FALSE)
<1>1. tab \in Pages /\ bookmark = [url |-> tab, life |-> "live", thumb |-> NoPicture] /\ snapshot = {}
      /\ cached = NoPicture /\ onDrive = NoPicture
    BY DEF PreviewsInit
<1>2. bookmark.url = tab /\ bookmark.life = "live" /\ bookmark.thumb = NoPicture
      /\ bookmark \in PreviewBookmarks
    BY <1>1 DEF PreviewBookmarks, Pictures
<1>3. /\ first \in PictureJobs
      /\ first.at = "inject" /\ first.for = tab
  <2>1. FALSE \in BOOLEAN /\ \A x \in BOOLEAN, u \in Pages :
            [at |-> "inject", replace |-> x, for |-> u, page |-> NoPicture] \in
            [at : CaptureStages, replace : BOOLEAN, for : Pages, page : Pictures]
      BY Zenon DEF CaptureStages, Pictures
  <2>2. QED
      BY <1>1, <1>2, <2>1 DEF Capture, PictureJobs
<1>4. jobs = [j \in Jobs |-> IF j = 1 THEN first ELSE Idle]
    BY DEF PreviewsInit
<1> HIDE DEF first
<1>5. PreviewTypes
    BY <1>1, <1>2, <1>3, <1>4, IdleFits DEF PreviewTypes, Pictures
<1>6. Fits(tab, NoPicture)
  <2>1. \A j \in Jobs : JobFits(jobs[j], tab)
      BY <1>1, <1>3, <1>4, IdleFits DEF JobFits, CaptureStages
  <2>2. \A j \in Jobs : jobs[j].at \notin DropStages /\ (jobs[j].at \in CaptureStages => j = 1)
      BY <1>3, <1>4, IdleFits DEF DropStages, CaptureStages
  <2>3. QED
      BY <2>1, <2>2 DEF Fits
<1>7. QED
    BY <1>1, <1>2, <1>5, <1>6 DEF PreviewsInv, Concerned

LEMMA PreviewEventsKeep ==
    ASSUME PreviewsInv,
           Navigates \/ DeletesOrRestores \/ Replaced \/ RolledBack \/ Evicts \/ PicturesWorkerDies
    PROVE  PreviewsInv'
<1>1. PreviewTypes
    BY DEF PreviewsInv
<1>2. CASE Navigates
  <2>1. /\ bookmark' = bookmark /\ snapshot' = snapshot /\ jobs' = jobs /\ cached' = cached
        /\ onDrive' = onDrive /\ spoiled' = spoiled /\ tab' \in Pages
      BY <1>2 DEF Navigates
  <2>2. \A b \in Concerned : Fits(b.url, b.thumb) => Fits(b.url, b.thumb)'
      BY <2>1 DEF Fits, JobFits
  <2>3. QED
      BY <1>1, <2>1, <2>2, SameBookmark DEF PreviewTypes
<1>3. CASE Evicts
  <2>1. /\ bookmark' = bookmark /\ snapshot' = snapshot /\ jobs' = jobs /\ cached' = NoPicture
        /\ onDrive' = onDrive /\ spoiled' = spoiled /\ tab' = tab
      BY <1>3 DEF Evicts
  <2>2. \A b \in Concerned : Fits(b.url, b.thumb) => Fits(b.url, b.thumb)'
      BY <2>1 DEF Fits, JobFits
  <2>3. QED
      BY <1>1, <2>1, <2>2, SameBookmark DEF PreviewTypes, Pictures
<1>4. CASE PicturesWorkerDies
  <2>1. /\ bookmark' = bookmark /\ snapshot' = snapshot /\ jobs' = [j \in Jobs |-> Idle]
        /\ cached' = cached /\ onDrive' = onDrive /\ spoiled' = spoiled /\ tab' = tab
      BY <1>4 DEF PicturesWorkerDies
  <2>2. \A b \in Concerned : Fits(b.url, b.thumb) => Fits(b.url, b.thumb)'
    <3> SUFFICES ASSUME NEW b \in Concerned, Fits(b.url, b.thumb) PROVE Fits(b.url, b.thumb)'
        OBVIOUS
    <3>1. \A j \in Jobs : jobs'[j] = Idle /\ jobs'[j].at = "idle"
        BY <2>1, IdleFits
    <3>2. QED
        BY <2>1, <3>1 DEF Fits, JobFits, CaptureStages, DropStages
  <2>3. jobs' \in [Jobs -> PictureJobs]
      BY <2>1, IdleFits
  <2>4. QED
      BY <1>1, <2>1, <2>2, <2>3, SameBookmark DEF PreviewTypes
<1>5. CASE DeletesOrRestores
  <2>0. PICK new : new = [bookmark EXCEPT !.life = IF @ = "live" THEN "deleted" ELSE "live"]
      OBVIOUS
  <2>1. /\ bookmark.life \in {"live", "deleted"} /\ bookmark' = new
        /\ snapshot' = snapshot /\ jobs' = jobs /\ cached' = cached
        /\ onDrive' = onDrive /\ spoiled' = spoiled /\ tab' = tab
      BY <1>5, <2>0 DEF DeletesOrRestores
  <2>2. /\ new \in PreviewBookmarks /\ new.url = bookmark.url /\ new.thumb = bookmark.thumb
        /\ new.life # "purged"
      BY <1>1, <2>0, <2>1 DEF PreviewTypes, PreviewBookmarks
  <2>3. snapshot = {}
      BY <1>1, <2>1 DEF PreviewTypes
  <2>4. PreviewTypes'
      BY <1>1, <2>1, <2>2, <2>3 DEF PreviewTypes
  <2>5. bookmark \in Concerned /\ Concerned' = {new}
      BY <2>1, <2>2, <2>3 DEF Concerned
  <2>6. ASSUME ~spoiled PROVE Fits(new.url, new.thumb)'
    <3>1. Fits(new.url, new.thumb)
        BY <2>2, <2>5, <2>6 DEF PreviewsInv
    <3>2. QED
        BY <2>1, <3>1 DEF Fits, JobFits
  <2>7. QED
      BY <2>1, <2>4, <2>5, <2>6 DEF PreviewsInv
<1>6. CASE Replaced
  <2> DEFINE new == [bookmark EXCEPT !.life = "purged"]
  <2>1. /\ bookmark.life # "purged" /\ snapshot = {} /\ bookmark' = new
        /\ snapshot' = {bookmark} /\ jobs' = jobs /\ cached' = cached
        /\ onDrive' = onDrive /\ spoiled' = spoiled /\ tab' = tab
      BY <1>6 DEF Replaced
  <2>2. new \in PreviewBookmarks /\ new.life = "purged"
      BY <1>1, <2>1 DEF PreviewTypes, PreviewBookmarks
  <2> HIDE DEF new
  <2>3. PreviewTypes'
      BY <1>1, <2>1, <2>2 DEF PreviewTypes
  <2>4. Concerned' = Concerned
      BY <2>1 DEF Concerned
  <2>5. \A b \in Concerned : Fits(b.url, b.thumb) => Fits(b.url, b.thumb)'
      BY <2>1 DEF Fits, JobFits
  <2>6. QED
      BY <2>1, <2>3, <2>4, <2>5 DEF PreviewsInv
<1>7. CASE RolledBack
  <2>1. /\ bookmark' \in snapshot /\ snapshot' = {} /\ jobs' = jobs /\ cached' = cached
        /\ onDrive' = onDrive /\ spoiled' = spoiled /\ tab' = tab
      BY <1>7 DEF RolledBack
  <2>2. PreviewTypes'
      BY <1>1, <2>1 DEF PreviewTypes
  <2>3. Concerned' \subseteq Concerned
      BY <1>1, <2>1 DEF Concerned, PreviewTypes
  <2>4. \A b \in Concerned : Fits(b.url, b.thumb) => Fits(b.url, b.thumb)'
      BY <2>1 DEF Fits, JobFits
  <2>5. QED
      BY <2>1, <2>2, <2>3, <2>4 DEF PreviewsInv
<1>8. QED
    BY <1>2, <1>3, <1>4, <1>5, <1>6, <1>7

(* A bookmark that is there is the only one anybody is concerned with.     *)
LEMMA LiveIsConcerned ==
    ASSUME PreviewTypes, bookmark.life = "live"
    PROVE  snapshot = {} /\ Concerned = {bookmark}
BY DEF PreviewTypes, Concerned

(* What the user starts.                                                   *)
LEMMA RefreshesKeeps ==
    ASSUME PreviewsInv, NEW j \in Jobs, Refreshes(j)
    PROVE  PreviewsInv'
<1>1. PreviewTypes
    BY DEF PreviewsInv
<1>2. PICK job : job = Capture(TRUE)
    OBVIOUS
<1>3. job \in PictureJobs /\ job.at = "inject" /\ job.for = bookmark.url
  <2>1. TRUE \in BOOLEAN /\ \A x \in BOOLEAN, u \in Pages :
            [at |-> "inject", replace |-> x, for |-> u, page |-> NoPicture] \in
            [at : CaptureStages, replace : BOOLEAN, for : Pages, page : Pictures]
      BY Zenon DEF CaptureStages, Pictures
  <2>2. bookmark.url \in Pages
      BY <1>1 DEF PreviewTypes, PreviewBookmarks
  <2>3. QED
      BY <1>2, <2>1, <2>2 DEF Capture, PictureJobs
<1>4. /\ jobs' = [jobs EXCEPT ![j] = job] /\ bookmark.life = "live"
      /\ bookmark' = bookmark /\ snapshot' = snapshot /\ cached' = cached
      /\ onDrive' = onDrive /\ tab' = tab
      /\ spoiled' <=> (spoiled \/ Capturing # {} \/ Dropping # {})
    BY <1>2 DEF Refreshes, Becomes
<1>5. /\ jobs' \in [Jobs -> PictureJobs] /\ jobs'[j] = job
      /\ \A i \in Jobs \ {j} : jobs'[i] = jobs[i]
    BY <1>1, <1>3, <1>4, PictureJobTurns
<1>6. ASSUME ~spoiled', NEW b \in Concerned, Fits(b.url, b.thumb) PROVE Fits(b.url, b.thumb)'
  <2>1. b = bookmark
      BY <1>1, <1>4, <1>6, LiveIsConcerned
  <2>2. \A i \in Jobs : jobs[i].at \notin CaptureStages /\ jobs[i].at \notin DropStages
      BY <1>4, <1>6 DEF Capturing, Dropping, CaptureStages, DropStages
  <2>3. PICK u, t : u = b.url /\ t = b.thumb
      OBVIOUS
  <2>4. JobFits(job, u)'
      BY <1>3, <2>1, <2>3 DEF JobFits, CaptureStages
  <2>5. \A i \in Jobs : JobFits(jobs[i], u)'
    <3>1. \A i \in Jobs : JobFits(jobs[i], u)
        BY <1>6, <2>3 DEF Fits
    <3>2. \A i \in Jobs \ {j} : JobFits(jobs[i], u)'
        BY <1>4, <1>5, <3>1 DEF JobFits
    <3>3. QED
        BY <1>5, <2>4, <3>2
  <2>6. \A i \in Jobs : jobs'[i].at \notin DropStages /\ (jobs'[i].at \in CaptureStages => i = j)
      BY <1>3, <1>5, <2>2 DEF DropStages
  <2>7. Fits(u, t)'
      BY <1>4, <1>6, <2>3, <2>5, <2>6 DEF Fits
  <2>8. QED
      BY <2>3, <2>7
<1>7. QED
    BY <1>1, <1>4, <1>5, <1>6, SameBookmark DEF PreviewTypes

LEMMA DropJobs ==
    \A at \in {"idle", "drop", "drop on Drive", "compare", "fetch"} :
        [at |-> at] \in PictureJobs /\ [at |-> at].at = at
BY DEF PictureJobs

LEMMA EditsUrlKeeps ==
    ASSUME PreviewsInv, NEW j \in Jobs, EditsUrl(j)
    PROVE  PreviewsInv'
<1>1. PreviewTypes
    BY DEF PreviewsInv
<1>2. PICK url \in Pages : EditUrl(j, url)
    BY DEF EditsUrl
<1>3. PICK new : new = [bookmark EXCEPT !.url = url, !.thumb = NoPicture]
    OBVIOUS
<1>4. new \in PreviewBookmarks /\ new.url = url /\ new.thumb = NoPicture /\ new.life = bookmark.life
    BY <1>1, <1>3 DEF PreviewTypes, PreviewBookmarks, Pictures
<1>5. /\ bookmark' = new /\ bookmark.life = "live" /\ snapshot' = snapshot /\ cached' = cached
      /\ onDrive' = onDrive /\ tab' = tab
      /\ spoiled' <=> (spoiled \/ Capturing # {} \/ Looking # {})
    BY <1>2, <1>3 DEF EditsUrl, EditUrl
<1>6. snapshot = {} /\ bookmark \in Concerned /\ Concerned' = {new}
    BY <1>1, <1>4, <1>5, LiveIsConcerned DEF Concerned
<1>7. /\ jobs' \in [Jobs -> PictureJobs]
      /\ \A i \in Jobs : jobs'[i] = jobs[i] \/ jobs'[i].at = "drop"
      /\ jobs' = jobs \/ bookmark.thumb # NoPicture
  <2>1. CASE bookmark.thumb # NoPicture
    <3>1. jobs' = [jobs EXCEPT ![j] = [at |-> "drop"]]
        BY <1>2, <2>1 DEF EditUrl, Becomes
    <3>2. /\ [at |-> "drop"] \in PictureJobs /\ [at |-> "drop"].at = "drop"
        BY DropJobs
    <3>3. QED
        BY <1>1, <2>1, <3>1, <3>2 DEF PreviewTypes
  <2>2. CASE bookmark.thumb = NoPicture
    <3>1. jobs' = jobs
        BY <1>2, <2>2 DEF EditUrl
    <3>2. QED
        BY <1>1, <3>1 DEF PreviewTypes
  <2>3. QED
      BY <2>1, <2>2
<1>8. PreviewTypes'
    BY <1>1, <1>4, <1>5, <1>6, <1>7 DEF PreviewTypes
<1>9. ASSUME ~spoiled' PROVE Fits(url, NoPicture)'
  <2>1. \A i \in Jobs : jobs[i].at \notin CaptureStages /\ jobs[i].at \notin {"fetch", "keep"}
      BY <1>5, <1>9 DEF Capturing, Looking, CaptureStages
  <2>2. \A i \in Jobs : jobs'[i].at \notin CaptureStages /\ jobs'[i].at \notin {"fetch", "keep"}
      BY <1>7, <2>1 DEF CaptureStages
  <2>3. \A i \in Jobs : JobFits(jobs[i], url)'
      BY <2>2 DEF JobFits, CaptureStages
  <2>4. QED
      BY <2>2, <2>3 DEF Fits
<1>10. QED
    BY <1>4, <1>6, <1>8, <1>9 DEF PreviewsInv

LEMMA LooksKeeps ==
    ASSUME PreviewsInv, NEW j \in Jobs, Looks(j)
    PROVE  PreviewsInv'
<1>1. PreviewTypes
    BY DEF PreviewsInv
<1>2. /\ bookmark.life # "purged" /\ bookmark.thumb # NoPicture
      /\ bookmark' = bookmark /\ snapshot' = snapshot /\ cached' = cached
      /\ onDrive' = onDrive /\ tab' = tab /\ spoiled' = spoiled
    BY DEF Looks
<1>3. Concerned = {bookmark}
    BY <1>1, <1>2 DEF PreviewTypes, Concerned
<1>4. CASE jobs' = jobs
  <2>1. \A b \in Concerned : Fits(b.url, b.thumb) => Fits(b.url, b.thumb)'
      BY <1>2, <1>4 DEF Fits, JobFits
  <2>2. QED
      BY <1>1, <1>2, <1>4, <2>1, SameBookmark DEF PreviewTypes
<1>5. CASE jobs' = [jobs EXCEPT ![j] = [at |-> "fetch"]]
  <2>1. PICK job \in PictureJobs : job = [at |-> "fetch"] /\ job.at = "fetch"
      BY DropJobs
  <2>2. jobs' \in [Jobs -> PictureJobs]
      BY <1>1, <1>5, <2>1, PictureJobTurns
  <2>3. ASSUME NEW b \in Concerned, Fits(b.url, b.thumb) PROVE Fits(b.url, b.thumb)'
    <3>1. PICK u, t : u = b.url /\ t = b.thumb
        OBVIOUS
    <3>2. onDrive = u /\ Fits(u, t)
        BY <1>2, <1>3, <2>3, <3>1 DEF Fits
    <3>3. JobFits(job, u)'
        BY <1>2, <2>1, <3>2 DEF JobFits, CaptureStages
    <3>4. job.at \notin CaptureStages /\ job.at \notin DropStages
        BY <2>1 DEF CaptureStages, DropStages
    <3>5. Fits(u, t)'
        BY <1>1, <1>2, <1>5, <2>1, <3>2, <3>3, <3>4, FitsGoesOn
    <3>6. QED
        BY <3>1, <3>5
  <2>4. QED
      BY <1>1, <1>2, <2>2, <2>3, SameBookmark DEF PreviewTypes
<1>6. QED
    BY <1>4, <1>5 DEF Looks, Becomes

LEMMA HousekeepsKeeps ==
    ASSUME PreviewsInv, NEW j \in Jobs, Housekeeps(j)
    PROVE  PreviewsInv'
<1>1. PreviewTypes
    BY DEF PreviewsInv
<1>2. /\ snapshot' = snapshot /\ cached' = cached
      /\ onDrive' = onDrive /\ tab' = tab /\ spoiled' = spoiled
    BY DEF Housekeeps
<1>3. /\ jobs' \in [Jobs -> PictureJobs]
      /\ \A i \in Jobs : jobs'[i] = jobs[i] \/ jobs'[i].at = "compare"
  <2>1. CASE jobs' = jobs
      BY <1>1, <2>1 DEF PreviewTypes
  <2>2. CASE jobs' = [jobs EXCEPT ![j] = [at |-> "compare"]]
    <3>1. [at |-> "compare"] \in PictureJobs /\ [at |-> "compare"].at = "compare"
        BY DropJobs
    <3>2. QED
        BY <1>1, <2>2, <3>1 DEF PreviewTypes
  <2>3. QED
      BY <2>1, <2>2 DEF Housekeeps, Becomes
<1>4. CASE bookmark' = bookmark
  <2>1. ASSUME NEW b \in Concerned, Fits(b.url, b.thumb) PROVE Fits(b.url, b.thumb)'
    <3>1. PICK u, t : u = b.url /\ t = b.thumb
        OBVIOUS
    <3>2. \A i \in Jobs : JobFits(jobs[i], u)'
      <4>1. \A i \in Jobs : JobFits(jobs[i], u)
          BY <2>1, <3>1 DEF Fits
      <4>2. QED
          BY <1>2, <1>3, <4>1 DEF JobFits, CaptureStages
    <3>3. \A i \in Jobs : /\ jobs'[i].at \in CaptureStages => jobs[i].at \in CaptureStages
                          /\ jobs'[i].at \in DropStages => jobs[i].at \in DropStages
        BY <1>3 DEF CaptureStages, DropStages
    <3>4. Fits(u, t)'
        BY <1>2, <2>1, <3>1, <3>2, <3>3 DEF Fits
    <3>5. QED
        BY <3>1, <3>4
  <2>2. QED
      BY <1>1, <1>2, <1>3, <1>4, <2>1, SameBookmark DEF PreviewTypes
<1>5. CASE bookmark.life = "deleted" /\ bookmark' = [bookmark EXCEPT !.life = "purged"]
  <2>1. snapshot = {}
      BY <1>1, <1>5 DEF PreviewTypes
  <2>2. bookmark' \in PreviewBookmarks /\ bookmark'.life = "purged"
      BY <1>1, <1>5 DEF PreviewTypes, PreviewBookmarks
  <2>3. Concerned' = {}
      BY <1>2, <2>1, <2>2 DEF Concerned
  <2>4. PreviewTypes'
      BY <1>1, <1>2, <1>3, <2>1, <2>2 DEF PreviewTypes
  <2>5. QED
      BY <2>3, <2>4 DEF PreviewsInv
<1>6. QED
    BY <1>4, <1>5 DEF Housekeeps

(* How a job goes on: where the bookmark is not touched, what its next     *)
(* step holds must fit every bookmark that its last one did.               *)
LEMMA JobGoesOnKeeps ==
    ASSUME PreviewsInv, NEW j \in Jobs, NEW job \in PictureJobs, jobs' = [jobs EXCEPT ![j] = job],
           bookmark' = bookmark, snapshot' = snapshot, tab' = tab,
           cached' \in Pictures, onDrive' \in Pictures,
           spoiled => spoiled',
           job.at \in CaptureStages => jobs[j].at \in CaptureStages,
           job.at \in DropStages => jobs[j].at \in DropStages,
           \A u : ~spoiled' /\ JobFits(jobs[j], u) =>
               /\ JobFits(job, u)'
               /\ cached' \in {cached, NoPicture, u}
               /\ onDrive' \in {onDrive, u} \/ (onDrive' = NoPicture /\ jobs[j].at \in DropStages)
    PROVE  PreviewsInv'
<1>1. PreviewTypes
    BY DEF PreviewsInv
<1>2. jobs' \in [Jobs -> PictureJobs]
    BY <1>1, PictureJobTurns
<1>3. ASSUME ~spoiled', NEW b \in Concerned, Fits(b.url, b.thumb) PROVE Fits(b.url, b.thumb)'
  <2>1. PICK u, t : u = b.url /\ t = b.thumb
      OBVIOUS
  <2>2. Fits(u, t) /\ JobFits(jobs[j], u)
      BY <1>3, <2>1 DEF Fits
  <2>3. /\ JobFits(job, u)'
        /\ cached' \in {cached, NoPicture, u}
        /\ onDrive' \in {onDrive, u} \/ (onDrive' = NoPicture /\ jobs[j].at \in DropStages)
      BY <1>3, <2>2
  <2>4. Fits(u, t)'
      BY <1>1, <2>2, <2>3, FitsGoesOn
  <2>5. QED
      BY <2>1, <2>4
<1>4. QED
    BY <1>1, <1>2, <1>3, SameBookmark DEF PreviewTypes

(* A job that is over or has nothing to say of a page.                     *)
LEMMA QuietFits ==
    ASSUME NEW job \in PictureJobs, job.at \in {"idle", "drop", "drop on Drive", "compare"}
    PROVE  \A u : JobFits(job, u)'
BY DEF JobFits, CaptureStages

LEMMA CaptureStepsKeep ==
    ASSUME PreviewsInv, NEW j \in Jobs, Injects(j) \/ Records(j) \/ Pushes(j)
    PROVE  PreviewsInv'
<1>1. PreviewTypes
    BY DEF PreviewsInv
<1>2. CASE Injects(j)
  <2>1. /\ jobs[j].at = "inject" /\ jobs[j].at \in CaptureStages
        /\ bookmark' = bookmark /\ snapshot' = snapshot /\ cached' = cached
        /\ onDrive' = onDrive /\ tab' = tab
      BY <1>2 DEF Injects, CaptureStages
  <2>5. spoiled => spoiled'
    <3>1. spoiled' = spoiled \/ spoiled' = (spoiled \/ tab # jobs[j].for)
        BY <1>2, Zenon DEF Injects
    <3>2. QED
        BY <3>1
  <2>2. CASE Becomes(j, Idle)
      BY <1>1, <2>1, <2>2, <2>5, IdleFits, QuietFits, JobGoesOnKeeps
          DEF Becomes, PreviewTypes, CaptureStages, DropStages
  <2>3. CASE ~Becomes(j, Idle)
    <3>1. PICK seen \in {tab, NoPicture} : Becomes(j, [jobs[j] EXCEPT !.at = "record", !.page = seen])
        BY <1>2, <2>3 DEF Injects
    <3>2. spoiled' <=> (spoiled \/ tab # jobs[j].for)
        BY <1>2, <2>3 DEF Injects
    <3>3. PICK job : job = [jobs[j] EXCEPT !.at = "record", !.page = seen]
        OBVIOUS
    <3>4. jobs[j] \in [at : CaptureStages, replace : BOOLEAN, for : Pages, page : Pictures]
        BY <1>1, <2>1, Captures DEF PreviewTypes
    <3>5. seen \in Pictures
        BY <1>1 DEF PreviewTypes, Pictures
    <3>6. /\ job \in [at : CaptureStages, replace : BOOLEAN, for : Pages, page : Pictures]
          /\ job.at = "record" /\ job.for = jobs[j].for /\ job.page = seen
        BY <3>3, <3>4, <3>5 DEF CaptureStages
    <3>7. job \in PictureJobs /\ jobs' = [jobs EXCEPT ![j] = job]
        BY <3>1, <3>3, <3>6 DEF PictureJobs, Becomes
    <3>8. ASSUME NEW u, ~spoiled', JobFits(jobs[j], u) PROVE JobFits(job, u)'
        BY <2>1, <3>2, <3>6, <3>8 DEF JobFits, CaptureStages
    <3>9. QED
        BY <1>1, <2>1, <2>5, <3>6, <3>7, <3>8, JobGoesOnKeeps DEF PreviewTypes, CaptureStages, DropStages
  <2>4. QED
      BY <2>2, <2>3
<1>3. CASE Records(j)
  <2>1. /\ jobs[j].at = "record" /\ jobs[j].at \in CaptureStages
        /\ bookmark' = bookmark /\ snapshot' = snapshot
        /\ onDrive' = onDrive /\ tab' = tab /\ spoiled' = spoiled
      BY <1>3 DEF Records, CaptureStages
  <2>2. CASE Becomes(j, Idle) /\ cached' = cached
      BY <1>1, <2>1, <2>2, IdleFits, QuietFits, JobGoesOnKeeps DEF Becomes, PreviewTypes, CaptureStages, DropStages
  <2>3. CASE jobs[j].page # NoPicture /\ cached' = jobs[j].page /\ GoesTo(j, "push")
    <3>1. "push" \in CaptureStages
        BY DEF CaptureStages
    <3>2. PICK job \in PictureJobs :
              /\ jobs' = [jobs EXCEPT ![j] = job]
              /\ job.at = "push" /\ job.for = jobs[j].for /\ job.page = jobs[j].page
        BY <1>1, <2>1, <2>3, <3>1, CapturesGoOn
    <3>3. cached' \in Pictures
        BY <1>1, <2>1, <2>3, Captures DEF PreviewTypes
    <3>4. ASSUME NEW u, JobFits(jobs[j], u)
          PROVE  JobFits(job, u)' /\ cached' \in {cached, NoPicture, u}
        BY <2>1, <2>3, <3>2, <3>4 DEF JobFits, CaptureStages
    <3>5. QED
        BY <1>1, <2>1, <3>2, <3>3, <3>4, JobGoesOnKeeps DEF PreviewTypes, CaptureStages, DropStages
  <2>4. CASE GoesTo(j, "clear") /\ cached' = cached
    <3>1. "clear" \in CaptureStages
        BY DEF CaptureStages
    <3>2. PICK job \in PictureJobs :
              /\ jobs' = [jobs EXCEPT ![j] = job]
              /\ job.at = "clear" /\ job.for = jobs[j].for /\ job.page = jobs[j].page
        BY <1>1, <2>1, <2>4, <3>1, CapturesGoOn
    <3>3. ASSUME NEW u, JobFits(jobs[j], u) PROVE JobFits(job, u)'
        BY <2>1, <3>2, <3>3 DEF JobFits, CaptureStages
    <3>4. QED
        BY <1>1, <2>1, <2>4, <3>2, <3>3, JobGoesOnKeeps DEF PreviewTypes, CaptureStages, DropStages
  <2>5. QED
      BY <1>3, <2>2, <2>3, <2>4 DEF Records
<1>4. CASE Pushes(j)
  <2>1. /\ jobs[j].at = "push" /\ jobs[j].at \in CaptureStages /\ GoesTo(j, "note")
        /\ bookmark' = bookmark /\ snapshot' = snapshot /\ cached' = cached /\ tab' = tab
      BY <1>4 DEF Pushes, CaptureStages
  <2>2. "note" \in CaptureStages
      BY DEF CaptureStages
  <2>3. PICK job \in PictureJobs :
            /\ jobs' = [jobs EXCEPT ![j] = job]
            /\ job.at = "note" /\ job.for = jobs[j].for /\ job.page = jobs[j].page
      BY <1>1, <2>1, <2>2, CapturesGoOn
  <2>4. CASE onDrive' = jobs[j].page /\ spoiled' = spoiled
    <3>1. onDrive' \in Pictures
        BY <1>1, <2>1, <2>4, Captures DEF PreviewTypes
    <3>2. ASSUME NEW u, JobFits(jobs[j], u) PROVE JobFits(job, u)' /\ onDrive' = u
        BY <2>1, <2>3, <2>4, <3>2 DEF JobFits, CaptureStages
    <3>3. QED
        BY <1>1, <2>1, <2>3, <2>4, <3>1, <3>2, JobGoesOnKeeps DEF PreviewTypes, CaptureStages, DropStages
  <2>5. CASE onDrive' = onDrive /\ spoiled'
      BY <1>1, <2>1, <2>3, <2>5, JobGoesOnKeeps DEF PreviewTypes, CaptureStages, DropStages
  <2>6. QED
      BY <1>4, <2>4, <2>5 DEF Pushes
<1>5. QED
    BY <1>2, <1>3, <1>4

LEMMA OtherStepsKeep ==
    ASSUME PreviewsInv, NEW j \in Jobs, Compares(j) \/ Drops(j) \/ Fetches(j) \/ Keeps(j)
    PROVE  PreviewsInv'
<1>1. PreviewTypes
    BY DEF PreviewsInv
<1>2. CASE Compares(j)
  <2>1. /\ bookmark' = bookmark /\ snapshot' = snapshot /\ cached' = cached
        /\ onDrive' = onDrive /\ tab' = tab
        /\ spoiled' <=> (spoiled \/ (Orphan /\ snapshot # {}))
      BY <1>2 DEF Compares
  <2>2. CASE Orphan
    <3>1. PICK job \in PictureJobs : job = [at |-> "drop"] /\ job.at = "drop"
        BY DropJobs
    <3>2. jobs' = [jobs EXCEPT ![j] = job]
        BY <1>2, <2>2, <3>1 DEF Compares, Becomes
    <3>3. jobs' \in [Jobs -> PictureJobs]
        BY <1>1, <3>1, <3>2, PictureJobTurns
    <3>4. spoiled' \/ Concerned = {}
        BY <2>1, <2>2 DEF Orphan, Concerned
    <3>5. QED
        BY <1>1, <2>1, <3>3, <3>4, SameBookmark DEF PreviewTypes
  <2>3. CASE ~Orphan
    <3>1. jobs' = [jobs EXCEPT ![j] = Idle] /\ (spoiled' <=> spoiled)
        BY <1>2, <2>1, <2>3 DEF Compares, Becomes
    <3>2. QED
        BY <1>1, <2>1, <3>1, IdleFits, QuietFits, JobGoesOnKeeps DEF PreviewTypes, CaptureStages, DropStages
  <2>4. QED
      BY <2>2, <2>3
<1>3. CASE Drops(j)
  <2>1. /\ jobs[j].at \in DropStages
        /\ bookmark' = bookmark /\ snapshot' = snapshot /\ tab' = tab /\ spoiled' = spoiled
      BY <1>3 DEF Drops, DropStages
  <2>2. CASE jobs[j].at = "drop" /\ cached' = NoPicture /\ GoesTo(j, "drop on Drive") /\ onDrive' = onDrive
    <3>1. PICK job : job = [jobs[j] EXCEPT !.at = "drop on Drive"]
        OBVIOUS
    <3>2. jobs[j] \in [at : {"idle", "drop", "drop on Drive", "compare", "fetch"}]
        BY <1>1, <2>2 DEF PreviewTypes, PictureJobs, CaptureStages
    <3>3. job \in PictureJobs /\ job.at = "drop on Drive"
        BY <3>1, <3>2 DEF PictureJobs
    <3>4. jobs' = [jobs EXCEPT ![j] = job]
        BY <2>2, <3>1 DEF GoesTo
    <3>5. cached' \in Pictures
        BY <2>2 DEF Pictures
    <3>6. QED
        BY <1>1, <2>1, <2>2, <3>3, <3>4, <3>5, QuietFits, JobGoesOnKeeps DEF PreviewTypes, CaptureStages, DropStages
  <2>3. CASE /\ jobs[j].at = "drop on Drive" /\ cached' = cached /\ Becomes(j, Idle)
             /\ onDrive' \in {onDrive, NoPicture}
    <3>1. jobs' = [jobs EXCEPT ![j] = Idle]
        BY <2>3 DEF Becomes
    <3>2. onDrive' \in Pictures
        BY <1>1, <2>3 DEF PreviewTypes, Pictures
    <3>3. QED
        BY <1>1, <2>1, <2>3, <3>1, <3>2, IdleFits, QuietFits, JobGoesOnKeeps
            DEF PreviewTypes, CaptureStages, DropStages
  <2>4. QED
      BY <1>3, <2>2, <2>3 DEF Drops
<1>4. CASE Fetches(j)
  <2>1. /\ jobs[j].at = "fetch"
        /\ bookmark' = bookmark /\ snapshot' = snapshot /\ cached' = cached
        /\ onDrive' = onDrive /\ tab' = tab /\ spoiled' = spoiled
      BY <1>4 DEF Fetches
  <2>2. CASE Becomes(j, Idle)
      BY <1>1, <2>1, <2>2, IdleFits, QuietFits, JobGoesOnKeeps DEF Becomes, PreviewTypes, CaptureStages, DropStages
  <2>3. CASE onDrive # NoPicture /\ Becomes(j, [at |-> "keep", page |-> onDrive])
    <3>1. PICK job : job = [at |-> "keep", page |-> onDrive]
        OBVIOUS
    <3>2. job \in PictureJobs /\ job.at = "keep" /\ job.page = onDrive
        BY <1>1, <3>1 DEF PictureJobs, PreviewTypes
    <3>3. jobs' = [jobs EXCEPT ![j] = job]
        BY <2>3, <3>1 DEF Becomes
    <3>4. ASSUME NEW u, JobFits(jobs[j], u) PROVE JobFits(job, u)'
        BY <2>1, <2>3, <3>2, <3>4 DEF JobFits, CaptureStages
    <3>5. QED
        BY <1>1, <2>1, <3>2, <3>3, <3>4, JobGoesOnKeeps DEF PreviewTypes, CaptureStages, DropStages
  <2>4. QED
      BY <1>4, <2>2, <2>3 DEF Fetches
<1>5. CASE Keeps(j)
  <2>1. /\ jobs[j].at = "keep" /\ cached' = jobs[j].page /\ jobs' = [jobs EXCEPT ![j] = Idle]
        /\ bookmark' = bookmark /\ snapshot' = snapshot
        /\ onDrive' = onDrive /\ tab' = tab /\ spoiled' = spoiled
      BY <1>5 DEF Keeps, Becomes
  <2>2. cached' \in Pictures
      BY <1>1, <2>1 DEF PreviewTypes, PictureJobs, CaptureStages
  <2>3. ASSUME NEW u, JobFits(jobs[j], u) PROVE cached' = u
      BY <2>1, <2>3 DEF JobFits
  <2>4. QED
      BY <1>1, <2>1, <2>2, <2>3, IdleFits, QuietFits, JobGoesOnKeeps DEF PreviewTypes, CaptureStages, DropStages
<1>6. QED
    BY <1>2, <1>3, <1>4, <1>5

(* The steps that change the record.                                       *)
LEMMA NotesKeeps ==
    ASSUME PreviewsInv, NEW j \in Jobs, Notes(j)
    PROVE  PreviewsInv'
<1>1. PreviewTypes
    BY DEF PreviewsInv
<1>2. /\ jobs[j].at = "note" /\ jobs[j].at \in CaptureStages /\ jobs' = [jobs EXCEPT ![j] = Idle]
      /\ snapshot' = snapshot /\ cached' = cached
      /\ onDrive' = onDrive /\ tab' = tab /\ spoiled' = spoiled
    BY DEF Notes, Becomes, CaptureStages
<1>3. CASE bookmark.life # "live"
  <2>1. bookmark' = bookmark
      BY <1>3 DEF Notes
  <2>2. QED
      BY <1>1, <1>2, <2>1, IdleFits, QuietFits, JobGoesOnKeeps DEF PreviewTypes, CaptureStages, DropStages
<1>4. CASE bookmark.life = "live"
  <2>1. PICK seen, url : seen = jobs[j].page /\ url = bookmark.url
      OBVIOUS
  <2>2. PICK new : new = [bookmark EXCEPT !.thumb = seen]
      OBVIOUS
  <2>3. seen \in Pictures
      BY <1>1, <1>2, <2>1, Captures DEF PreviewTypes
  <2>4. new \in PreviewBookmarks /\ new.url = url /\ new.thumb = seen /\ new.life = "live"
      BY <1>1, <1>4, <2>1, <2>2, <2>3 DEF PreviewTypes, PreviewBookmarks
  <2>5. bookmark' = new
      BY <1>4, <2>1, <2>2 DEF Notes
  <2>6. snapshot = {} /\ bookmark \in Concerned /\ Concerned' = {new}
      BY <1>1, <1>2, <1>4, <2>4, <2>5, LiveIsConcerned DEF Concerned
  <2>7. /\ jobs' \in [Jobs -> PictureJobs] /\ jobs'[j] = Idle
        /\ \A i \in Jobs \ {j} : jobs'[i] = jobs[i]
      BY <1>1, <1>2, IdleFits, PictureJobTurns
  <2>8. PreviewTypes'
      BY <1>1, <1>2, <2>4, <2>5, <2>6, <2>7 DEF PreviewTypes
  <2>9. ASSUME ~spoiled PROVE Fits(url, seen)'
    <3>1. Fits(url, bookmark.thumb)
        BY <2>1, <2>6, <2>9 DEF PreviewsInv
    <3>2. seen = url /\ cached \in {NoPicture, url} /\ onDrive = url
        BY <1>2, <2>1, <3>1 DEF Fits, JobFits
    <3>3. \A i \in Jobs : JobFits(jobs[i], url)'
      <4>1. \A i \in Jobs : JobFits(jobs[i], url)
          BY <3>1 DEF Fits
      <4>2. QED
          BY <1>2, <2>7, <4>1, IdleFits DEF JobFits, CaptureStages
    <3>4. \A i \in Jobs : jobs'[i].at \notin CaptureStages /\ jobs'[i].at \notin DropStages
      <4>1. \A i \in Jobs \ {j} : jobs[i].at \notin CaptureStages /\ jobs[i].at \notin DropStages
          BY <1>2, <3>1 DEF Fits
      <4>2. QED
          BY <2>7, <4>1, IdleFits DEF CaptureStages, DropStages
    <3>5. QED
        BY <1>2, <3>2, <3>3, <3>4 DEF Fits
  <2>10. QED
      BY <1>2, <2>4, <2>6, <2>8, <2>9 DEF PreviewsInv
<1>5. QED
    BY <1>3, <1>4

LEMMA ClearsKeeps ==
    ASSUME PreviewsInv, NEW j \in Jobs, Clears(j)
    PROVE  PreviewsInv'
<1>1. PreviewTypes
    BY DEF PreviewsInv
<1>2. /\ jobs[j].at = "clear" /\ jobs[j].at \in CaptureStages
      /\ snapshot' = snapshot /\ cached' = cached
      /\ onDrive' = onDrive /\ tab' = tab /\ spoiled' = spoiled
    BY DEF Clears, CaptureStages
<1>3. CASE ~(bookmark.life = "live" /\ bookmark.thumb # NoPicture)
  <2>1. bookmark' = bookmark /\ jobs' = [jobs EXCEPT ![j] = Idle]
      BY <1>3 DEF Clears, Becomes
  <2>2. QED
      BY <1>1, <1>2, <2>1, IdleFits, QuietFits, JobGoesOnKeeps DEF PreviewTypes, CaptureStages, DropStages
<1>4. CASE bookmark.life = "live" /\ bookmark.thumb # NoPicture
  <2>1. PICK url : url = bookmark.url
      OBVIOUS
  <2>2. PICK new : new = [bookmark EXCEPT !.thumb = NoPicture]
      OBVIOUS
  <2>3. new \in PreviewBookmarks /\ new.url = url /\ new.thumb = NoPicture /\ new.life = "live"
      BY <1>1, <1>4, <2>1, <2>2 DEF PreviewTypes, PreviewBookmarks, Pictures
  <2>4. PICK job \in PictureJobs : job = [at |-> "drop"] /\ job.at = "drop"
      BY DropJobs
  <2>5. bookmark' = new /\ jobs' = [jobs EXCEPT ![j] = job]
      BY <1>4, <2>2, <2>4 DEF Clears, Becomes
  <2>6. snapshot = {} /\ bookmark \in Concerned /\ Concerned' = {new}
      BY <1>1, <1>2, <1>4, <2>3, <2>5, LiveIsConcerned DEF Concerned
  <2>7. /\ jobs' \in [Jobs -> PictureJobs] /\ jobs'[j] = job
        /\ \A i \in Jobs \ {j} : jobs'[i] = jobs[i]
      BY <1>1, <2>5, PictureJobTurns
  <2>8. PreviewTypes'
      BY <1>1, <1>2, <2>3, <2>5, <2>6, <2>7 DEF PreviewTypes
  <2>9. ASSUME ~spoiled PROVE Fits(url, NoPicture)'
    <3>1. Fits(url, bookmark.thumb)
        BY <2>1, <2>6, <2>9 DEF PreviewsInv
    <3>2. \A i \in Jobs : JobFits(jobs[i], url)'
      <4>1. \A i \in Jobs : JobFits(jobs[i], url)
          BY <3>1 DEF Fits
      <4>2. QED
          BY <1>2, <2>4, <2>7, <4>1 DEF JobFits, CaptureStages
    <3>3. \A i \in Jobs : jobs'[i].at \notin CaptureStages
      <4>1. \A i \in Jobs \ {j} : jobs[i].at \notin CaptureStages
          BY <1>2, <3>1 DEF Fits
      <4>2. QED
          BY <2>4, <2>7, <4>1 DEF CaptureStages
    <3>4. QED
        BY <3>2, <3>3 DEF Fits
  <2>10. QED
      BY <1>2, <2>3, <2>6, <2>8, <2>9 DEF PreviewsInv
<1>5. QED
    BY <1>3, <1>4

LEMMA PreviewsKeep == PreviewsInv /\ [PreviewsNext]_previews => PreviewsInv'
<1> SUFFICES ASSUME PreviewsInv, [PreviewsNext]_previews PROVE PreviewsInv'
    OBVIOUS
<1>1. CASE UNCHANGED previews
  <2>1. /\ bookmark' = bookmark /\ snapshot' = snapshot /\ jobs' = jobs /\ cached' = cached
        /\ onDrive' = onDrive /\ spoiled' = spoiled /\ tab' = tab
      BY <1>1 DEF previews
  <2>2. \A b \in Concerned : Fits(b.url, b.thumb) => Fits(b.url, b.thumb)'
      BY <2>1 DEF Fits, JobFits
  <2>3. QED
      BY <2>1, <2>2, SameBookmark DEF PreviewsInv, PreviewTypes
<1>2. CASE PreviewsNext
  <2>1. CASE Navigates \/ DeletesOrRestores \/ Replaced \/ RolledBack \/ Evicts \/ PicturesWorkerDies
      BY <2>1, PreviewEventsKeep
  <2>2. CASE \E j \in Jobs :
                \/ Refreshes(j) \/ EditsUrl(j) \/ Looks(j) \/ Housekeeps(j)
                \/ Injects(j) \/ Records(j) \/ Pushes(j) \/ Notes(j) \/ Clears(j)
                \/ Compares(j) \/ Drops(j) \/ Fetches(j) \/ Keeps(j)
    <3>1. PICK j \in Jobs :
                \/ Refreshes(j) \/ EditsUrl(j) \/ Looks(j) \/ Housekeeps(j)
                \/ Injects(j) \/ Records(j) \/ Pushes(j) \/ Notes(j) \/ Clears(j)
                \/ Compares(j) \/ Drops(j) \/ Fetches(j) \/ Keeps(j)
        BY <2>2
    <3>2. CASE Refreshes(j) \/ EditsUrl(j) \/ Looks(j) \/ Housekeeps(j)
        BY <3>2, RefreshesKeeps, EditsUrlKeeps, LooksKeeps, HousekeepsKeeps
    <3>3. CASE Injects(j) \/ Records(j) \/ Pushes(j)
        BY <3>3, CaptureStepsKeep
    <3>4. CASE Notes(j) \/ Clears(j)
        BY <3>4, NotesKeeps, ClearsKeeps
    <3>5. CASE Compares(j) \/ Drops(j) \/ Fetches(j) \/ Keeps(j)
        BY <3>5, OtherStepsKeep
    <3>6. QED
        BY <3>1, <3>2, <3>3, <3>4, <3>5
  <2>3. QED
      BY <1>2, <2>1, <2>2 DEF PreviewsNext
<1>3. QED
    BY <1>1, <1>2

(* A bookmark with a preview shows the page it opens: however many         *)
(* captures, looks, edits, undos and sweeps there are at once, the copies  *)
(* of this device and of Drive are of that page (background/thumbs.ts,     *)
(* thumbs/store.ts), but for the cases the property names.                 *)
THEOREM PreviewAlwaysFitsTheBookmark == PreviewsSpec => []PreviewFitsTheBookmark
<1>1. PreviewsInv => PreviewFitsTheBookmark
    BY PreviewsInvFits
<1>2. QED
    BY InitPreviews, PreviewsKeep, <1>1, PTL DEF PreviewsSpec

-----------------------------------------------------------------------------
(* The bookmark list of the manager                                        *)

PageRecords ==
    [place : Places, query : Words \cup {None}, box : Words \cup {None}, settling : BOOLEAN,
     selection : SUBSET Rows, rows : Seq(Rows), shown : Seq(Rows),
     tree : [Places -> Nat] \cup {None}, detail : Items \cup {None}, dragging : SUBSET Rows,
     dialog : [for : {"delete", "move"}, ids : Seq(Rows)] \cup {None},
     undo : Seq(Rows) \cup {None}, lost : BOOLEAN, locked : BOOLEAN]

(* What is asked for, and what is asked about, at each stage of a chore.   *)
ChoreFits(k) ==
    /\ k.unserved \subseteq k.awaited /\ k.awaited # {}
    /\ k.at = "loading" =>
         k.awaited \subseteq {"tree", "view"} /\ k.place \in Places /\ k.goal # "detail"
    /\ k.at = "item" => k.awaited = {"item"} /\ ~k.latest /\ Asked(k) \in Rows
    /\ k.at = "change" =>
         k.awaited = {"change"} /\ ~k.latest /\ k.goal # "detail" /\ k.change \in Changes

News == [to : {None}, what : {"news"}, body : {"VAULT_CHANGED", "SESSION_LOCKED"}]

Letters ==
    News
    \cup [to : Chores, what : {"view"}, body : Seq(Rows) \cup {None}]
    \cup [to : Chores, what : {"tree"}, body : [Places -> Nat] \cup {None}]
    \cup [to : Chores, what : {"item"}, body : Items \cup {None}]
    \cup [to : Chores, what : {"change"}, body : {"OK", None}]

VaultTypes ==
    /\ filed \in [Places -> Seq(Rows)]
    /\ gone \in SUBSET Rows
    /\ says \in [Rows -> Words]

(* What follows is said of a page, its procedures and the letters to them: *)
(* those of a state, or those between two halves of a step.                *)
Typed(pg, ks, ml) ==
    /\ pg \in PageRecords
    /\ ks \in [Chores -> ChoreRecords \cup {None}]
    /\ \A c \in Chores : ks[c] # None => ChoreFits(ks[c])
    /\ ml \in Seq(Letters)

Loading(k) == k # None /\ k.at = "loading"
AtItem(k) == k # None /\ k.at = "item"
IsLatest(k) == k # None /\ k.latest
Unserved(k, what) == k # None /\ what \in k.unserved

(* The last view that was asked for is that of the page.                   *)
LatestIsOfThePage(pg, ks) ==
    /\ \A c \in Chores : IsLatest(ks[c]) => ks[c].place = pg.place /\ ks[c].query = pg.query
    /\ \A c \in Chores, d \in Chores : IsLatest(ks[c]) /\ IsLatest(ks[d]) => c = d

(* A letter is for a procedure that awaits it, once.                       *)
LettersAwaited(ks, ml) ==
    /\ \A i \in DOMAIN ml : ml[i].to # None =>
         /\ ks[ml[i].to] # None
         /\ ml[i].what \in ks[ml[i].to].awaited
         /\ ml[i].what \notin ks[ml[i].to].unserved
    /\ \A i \in DOMAIN ml, j \in DOMAIN ml :
         ml[i].to # None /\ ml[i].to = ml[j].to /\ ml[i].what = ml[j].what => i = j

Told(ml) == \E i \in DOMAIN ml : ml[i].to = None

TreeFollows(pg, ks, ml) ==
    \/ pg.lost \/ Told(ml)
    \/ \E c \in Chores : Unserved(ks[c], "tree")
    \/ \E i \in DOMAIN ml :
         /\ ml[i].what = "tree" /\ ml[i].body = Tree
         /\ \A j \in DOMAIN ml : j > i => ml[j].what # "tree"
    \/ pg.tree = Tree /\ \A i \in DOMAIN ml : ml[i].what # "tree"

ViewFollows(pg, ks, ml) ==
    \/ pg.lost \/ Told(ml)
    \/ \E c \in Chores : IsLatest(ks[c]) /\ "view" \in ks[c].unserved
    \/ \E c \in Chores : IsLatest(ks[c]) /\
         \E i \in DOMAIN ml : /\ ml[i].to = c /\ ml[i].what = "view"
                               /\ ml[i].body = ListView(pg.place, pg.query)
    \/ /\ pg.rows = ListView(pg.place, pg.query)
       /\ \A c \in Chores : IsLatest(ks[c]) => "view" \notin ks[c].awaited

(* A letter about a bookmark that is out of date is followed by a reload.  *)
Superseded(ks, ml, i) ==
    \/ \E j \in DOMAIN ml : j > i /\ (ml[j].to = None \/ Loading(ks[ml[j].to]))
    \/ \E c \in Chores : Loading(ks[c]) /\ ks[c].unserved # {}

ItemsAreFresh(pg, ks, ml) ==
    \/ pg.lost
    \/ \A i \in DOMAIN ml :
         ml[i].what = "item" /\ ml[i].body # None =>
            ml[i].body = GetItem(Asked(ks[ml[i].to])) \/ Superseded(ks, ml, i)

PaintFollows(pg, ks) ==
    \/ pg.shown = pg.rows
    \/ \E c \in Chores : (Loading(ks[c]) \/ AtItem(ks[c])) /\ ks[c].goal # "detail"

Brings(ks, ml, c, answer) ==
    \/ "item" \in ks[c].unserved
    \/ \E i \in DOMAIN ml : ml[i].to = c /\ ml[i].body = answer /\ answer # None

DetailFollows(pg, ks, ml) ==
    \/ pg.lost \/ Told(ml)
    \/ \E c \in Chores : Loading(ks[c]) \/ (AtItem(ks[c]) /\ ks[c].goal = "reselect")
    \/ \E c \in Chores : AtItem(ks[c]) /\ Asked(ks[c]) = Sole(pg) /\ Brings(ks, ml, c, GetItem(Sole(pg)))
    \/ pg.detail = IF Sole(pg) = None THEN None ELSE GetItem(Sole(pg))

(* With one procedure at hand: what it will paint and select is not said.  *)
Midway(pg, ks, ml) ==
    /\ ~pg.locked
    /\ Typed(pg, ks, ml)
    /\ LatestIsOfThePage(pg, ks)
    /\ LettersAwaited(ks, ml)
    /\ TreeFollows(pg, ks, ml)
    /\ ViewFollows(pg, ks, ml)
    /\ ItemsAreFresh(pg, ks, ml)

Sound(pg, ks, ml) ==
    /\ Typed(pg, ks, ml)
    /\ ~pg.locked => Midway(pg, ks, ml) /\ PaintFollows(pg, ks) /\ DetailFollows(pg, ks, ml)

ManagerInv == VaultTypes /\ Sound(page, chores, mail)

(* A finite set in which of two members one is ahead of the other has a    *)
(* member of every rank.                                                   *)
LEMMA EveryRankIsTaken ==
    ASSUME NEW S, IsFiniteSet(S), NEW before \in [S -> SUBSET S],
           \A a \in S : a \notin before[a],
           \A a, b \in S : a \in before[b] => before[a] \subseteq before[b],
           \A a, b \in S : a = b \/ a \in before[b] \/ b \in before[a]
    PROVE  \A n \in 1 .. Cardinality(S) : \E a \in S : Cardinality(before[a]) = n - 1
<1> DEFINE size == Cardinality(S)
           rank == [a \in S |-> Cardinality(before[a])]
<1>1. size \in Nat
    BY FS_CardinalityType
<1>2. \A a \in S : IsFiniteSet(before[a]) /\ Cardinality(before[a]) \in Nat
    BY FS_Subset, FS_CardinalityType
<1>3. ASSUME NEW a \in S
      PROVE  Cardinality(before[a]) < size
  <2>1. Cardinality(before[a]) <= size /\ (size = Cardinality(before[a]) => S = before[a])
      BY FS_Subset
  <2>2. S # before[a]
      OBVIOUS
  <2>3. QED
      BY <1>1, <1>2, <2>1, <2>2
<1>4. ASSUME NEW a \in S, NEW b \in S, a \in before[b]
      PROVE  Cardinality(before[a]) < Cardinality(before[b])
  <2>1. before[a] \in SUBSET before[b] /\ before[b] # before[a]
      BY <1>4
  <2>2. Cardinality(before[a]) <= Cardinality(before[b])
        /\ (Cardinality(before[b]) = Cardinality(before[a]) => before[b] = before[a])
      BY <1>2, <2>1, FS_Subset
  <2>3. QED
      BY <1>2, <2>1, <2>2
<1>5. rank \in [S -> 0 .. (size - 1)]
    BY <1>1, <1>2, <1>3
<1>6. \A a, b \in S : rank[a] = rank[b] => a = b
    BY <1>2, <1>4
<1>7. rank \in Injection(S, 0 .. (size - 1))
    BY <1>5, <1>6 DEF Injection, IsInjective
<1>8. IsFiniteSet(0 .. (size - 1)) /\ Cardinality(0 .. (size - 1)) = size
  <2>1. 0 \in Int /\ size - 1 \in Int
      BY <1>1
  <2>2. /\ IsFiniteSet(0 .. (size - 1))
        /\ Cardinality(0 .. (size - 1)) = IF 0 > size - 1 THEN 0 ELSE (size - 1) - 0 + 1
      BY <2>1, FS_Interval
  <2>3. QED
      BY <1>1, <2>2
<1>9. rank \in Surjection(S, 0 .. (size - 1))
    BY <1>7, <1>8, FS_Injection
<1>10. \A n \in 1 .. size : n - 1 \in 0 .. (size - 1)
    BY <1>1
<1>11. QED
    BY <1>9, <1>10 DEF Surjection

LEMMA IncreasingLists ==
    ASSUME NEW S \in SUBSET Nat, IsFiniteSet(S)
    PROVE  Increasing(S) \in Seq(S)
<1> DEFINE before == [a \in S |-> {s \in S : s < a}]
           nth(n) == CHOOSE r \in S : Cardinality({s \in S : s < r}) = n - 1
<1>1. IsFiniteSet(S) /\ Cardinality(S) \in Nat /\ \A a \in S : a \in Nat
    BY FS_CardinalityType
<1>2. before \in [S -> SUBSET S] /\ \A a \in S : before[a] = {s \in S : s < a}
    OBVIOUS
<1> HIDE DEF before
<1>3. /\ \A a \in S : a \notin before[a]
      /\ \A a, b \in S : a \in before[b] => before[a] \subseteq before[b]
      /\ \A a, b \in S : a = b \/ a \in before[b] \/ b \in before[a]
  <2>1. \A a, b \in S : a \in before[b] <=> a < b
      BY <1>2
  <2>2. \A a \in S : a \notin before[a]
      BY <2>1
  <2>3. ASSUME NEW a \in S, NEW b \in S, a \in before[b]
        PROVE  before[a] \subseteq before[b]
    <3>1. \A c \in before[a] : c \in S /\ c < a
        BY <1>2
    <3>2. ASSUME NEW c \in before[a] PROVE c \in before[b]
      <4>1. c \in Nat /\ a \in Nat /\ b \in Nat /\ c < a /\ a < b /\ c \in S
          BY <2>1, <2>3, <3>1
      <4>2. c < b
          BY <4>1
      <4>3. QED
          BY <2>1, <4>1, <4>2
    <3>3. QED
        BY <3>2
  <2>4. \A a, b \in S : a = b \/ a \in before[b] \/ b \in before[a]
      BY <1>1, <2>1
  <2>5. QED
      BY <2>2, <2>3, <2>4
<1>4. \A n \in 1 .. Cardinality(S) : \E a \in S : Cardinality(before[a]) = n - 1
  <2>1. before \in [S -> SUBSET S]
      BY <1>2
  <2>2. QED
      BY <1>1, <1>3, <2>1, EveryRankIsTaken, ZenonT(30)
<1>5. \A n \in 1 .. Cardinality(S) : nth(n) \in S
    BY <1>2, <1>4
<1>6. Increasing(S) = [n \in 1 .. Cardinality(S) |-> nth(n)]
    BY DEF Increasing
<1> HIDE DEF nth
<1>7. QED
    BY <1>1, <1>5, <1>6

LEMMA WiderLists ==
    ASSUME NEW S, NEW T, S \subseteq T, NEW list \in Seq(S)
    PROVE  list \in Seq(T)
OBVIOUS

(* What is kept of a list is a list of what was to be kept of it.           *)
LEMMA KeptLists ==
    ASSUME NEW T, NEW rows \in Seq(T), NEW some
    PROVE  Kept(rows, some) \in Seq(T \cap some)
<1> DEFINE S == {k \in DOMAIN rows : rows[k] \in some}
           at == Increasing(S)
<1>1. S \in SUBSET Nat /\ IsFiniteSet(S)
  <2>1. DOMAIN rows = 1 .. Len(rows) /\ Len(rows) \in Nat
      OBVIOUS
  <2>2. IsFiniteSet(1 .. Len(rows))
      BY <2>1, FS_Interval
  <2>3. S \subseteq 1 .. Len(rows)
      BY <2>1
  <2>4. IsFiniteSet(S)
      BY <2>2, <2>3, FS_Subset
  <2>5. QED
      BY <2>3, <2>4
<1>2. \A k \in S : rows[k] \in T \cap some
    OBVIOUS
<1>3. Kept(rows, some) = [n \in DOMAIN at |-> rows[at[n]]]
    BY DEF Kept
<1> HIDE DEF S
<1>4. at \in Seq(S)
    BY <1>1, IncreasingLists
<1> HIDE DEF at
<1>5. /\ DOMAIN at = 1 .. Len(at) /\ Len(at) \in Nat
      /\ \A n \in DOMAIN at : at[n] \in S
    BY <1>4
<1>6. \A n \in DOMAIN at : rows[at[n]] \in T \cap some
    BY <1>2, <1>5
<1>7. QED
    BY <1>3, <1>5, <1>6

LEMMA ListViewLists ==
    ASSUME VaultTypes, NEW p \in Places, NEW query
    PROVE  ListView(p, query) \in Seq(AllRows)
<1>1. AllRows \subseteq Rows
    BY DEF AllRows
<1>2. CASE query = None
  <2>1. filed[p] \in Seq(Rows)
      BY DEF VaultTypes
  <2>2. Kept(filed[p], AllRows) \in Seq(Rows \cap AllRows)
      BY <2>1, KeptLists
  <2>3. Rows \cap AllRows = AllRows
      BY <1>1
  <2>4. QED
      BY <1>2, <2>2, <2>3 DEF ListView, Alive
<1>3. CASE query # None
  <2> DEFINE S == {r \in AllRows : says[r] = query}
  <2>1. S \subseteq Rows /\ S \subseteq AllRows
      BY <1>1
  <2>2. S \in SUBSET Nat /\ IsFiniteSet(S)
      BY <2>1, FS_Subset, ManagerAssumption DEF ManagerAssumption
  <2>3. ListView(p, query) = Increasing(S)
      BY <1>3 DEF ListView
  <2> HIDE DEF S
  <2>4. Increasing(S) \in Seq(S)
      BY <2>2, IncreasingLists
  <2>5. Increasing(S) \in Seq(AllRows)
      BY <2>1, <2>4
  <2>6. QED
      BY <2>3, <2>5
<1>4. QED
    BY <1>2, <1>3

LEMMA TreeCounts ==
    ASSUME VaultTypes
    PROVE  Tree \in [Places -> Nat]
<1>1. ASSUME NEW p \in Places
      PROVE  Len(Alive(filed[p])) \in Nat
  <2>1. filed[p] \in Seq(Rows)
      BY DEF VaultTypes
  <2>2. Alive(filed[p]) \in Seq(Rows \cap AllRows)
      BY <2>1, KeptLists DEF Alive
  <2>3. QED
      BY <2>2
<1>2. QED
    BY <1>1 DEF Tree

LEMMA GetItemFinds ==
    ASSUME VaultTypes, NEW r
    PROVE  /\ GetItem(r) \in Items \cup {None}
           /\ r \in AllRows => GetItem(r) \in Items /\ GetItem(r) # None
<1>1. ASSUME r \in AllRows
      PROVE  GetItem(r) \in Items /\ GetItem(r) # None
  <2>1. r \in Rows /\ says[r] \in Words
      BY <1>1 DEF AllRows, VaultTypes
  <2>2. [id |-> r, text |-> says[r]] \in Items
      BY <2>1 DEF Items
  <2>3. GetItem(r) \in Items
      BY <1>1, <2>2 DEF GetItem
  <2>4. QED
      BY <2>3, ManagerAssumption DEF ManagerAssumption
<1>2. CASE r \notin AllRows
  <2>1. GetItem(r) = None
      BY <1>2 DEF GetItem
  <2>2. QED
      BY <1>2, <2>1
<1>3. QED
    BY <1>1, <1>2

LEMMA SoleIsShown ==
    ASSUME NEW pg \in PageRecords
    PROVE  /\ Sole(pg) \in Rows \cup {None}
           /\ Sole(pg) # None => Sole(pg) \in Rows /\ Sole(pg) \in ToSet(pg.rows)
<1>1. pg.selection \in SUBSET Rows
    BY DEF PageRecords
<1>2. CASE Cardinality(pg.selection) = 1 /\ pg.selection \subseteq ToSet(pg.rows)
  <2>1. Sole(pg) = CHOOSE r \in pg.selection : TRUE
      BY <1>2 DEF Sole
  <2>2. pg.selection # {}
      BY <1>2, FS_EmptySet
  <2>3. Sole(pg) \in pg.selection
      BY <2>1, <2>2
  <2>4. QED
      BY <1>1, <1>2, <2>3
<1>3. CASE ~(Cardinality(pg.selection) = 1 /\ pg.selection \subseteq ToSet(pg.rows))
    BY <1>3 DEF Sole
<1>4. QED
    BY <1>2, <1>3

LEMMA SameSole ==
    ASSUME NEW pg, NEW pg2, pg2.selection = pg.selection, pg2.rows = pg.rows
    PROVE  Sole(pg2) = Sole(pg)
BY DEF Sole

LEMMA InOrderLists ==
    ASSUME page \in PageRecords, NEW ids \in SUBSET Rows
    PROVE  InOrder(ids) \in Seq(Rows)
<1>1. page.rows \in Seq(Rows)
    BY DEF PageRecords
<1>2. Kept(page.rows, ids) \in Seq(Rows \cap ids)
    BY <1>1, KeptLists
<1>3. Kept(page.rows, ids) \in Seq(Rows)
    BY <1>2
<1> DEFINE others == ids \ ToSet(page.rows)
<1>4. others \in SUBSET Nat /\ IsFiniteSet(others) /\ others \subseteq Rows
  <2>1. others \subseteq Rows
      OBVIOUS
  <2>2. QED
      BY <2>1, FS_Subset, ManagerAssumption DEF ManagerAssumption
<1>5. InOrder(ids) = Kept(page.rows, ids) \o Increasing(others)
    BY DEF InOrder
<1> HIDE DEF others
<1>6. Increasing(others) \in Seq(others)
    BY <1>4, IncreasingLists
<1>7. Increasing(others) \in Seq(Rows)
    BY <1>4, <1>6, WiderLists
<1>8. QED
    BY <1>3, <1>5, <1>7

-----------------------------------------------------------------------------
(* Procedures and letters                                                  *)

LEMMA LetterFacts ==
    ASSUME NEW m \in Letters
    PROVE  /\ m.to \in Chores \cup {None}
           /\ m.to = None <=> m \in News
           /\ m.to = None <=> m.what = "news"
           /\ m.to # None => m.to \in Chores /\ m.what \in Kinds
           /\ m.what = "view" => m.body \in Seq(Rows) \cup {None}
           /\ m.what = "tree" => m.body \in [Places -> Nat] \cup {None}
           /\ m.what = "item" => m.body \in Items \cup {None}
<1>1. None \notin Chores
    BY ManagerAssumption DEF ManagerAssumption
<1>2. CASE m \in News
    BY <1>1, <1>2 DEF News
<1>3. CASE m \in [to : Chores, what : {"view"}, body : Seq(Rows) \cup {None}]
    BY <1>1, <1>3 DEF News, Kinds
<1>4. CASE m \in [to : Chores, what : {"tree"}, body : [Places -> Nat] \cup {None}]
    BY <1>1, <1>4 DEF News, Kinds
<1>5. CASE m \in [to : Chores, what : {"item"}, body : Items \cup {None}]
    BY <1>1, <1>5 DEF News, Kinds
<1>6. CASE m \in [to : Chores, what : {"change"}, body : {"OK", None}]
    BY <1>1, <1>6 DEF News, Kinds
<1>7. QED
    BY <1>2, <1>3, <1>4, <1>5, <1>6 DEF Letters

LEMMA EveryLetter ==
    ASSUME NEW pg, NEW ks, NEW ml, Typed(pg, ks, ml)
    PROVE  /\ \A i \in DOMAIN ml : ml[i] \in Letters
           /\ \A i \in DOMAIN ml : ml[i].to # None => ml[i].to \in Chores
           /\ \A i \in DOMAIN ml : ml[i].what \in Kinds => ml[i].to # None
<1>1. \A i \in DOMAIN ml : ml[i] \in Letters
    BY DEF Typed
<1>2. QED
    BY <1>1, LetterFacts DEF Kinds

LEMMA ChoresAreThere ==
    ASSUME NEW k \in ChoreRecords
    PROVE  k # None
BY ManagerAssumption DEF ManagerAssumption

ReloadOf(p, q, what, k) ==
    /\ k \in ChoreRecords /\ ChoreFits(k) /\ k # None
    /\ Loading(k) /\ IsLatest(k) /\ k.goal # "detail"
    /\ k.place = p /\ k.query = q /\ k.unserved = what

LEMMA ReloadIsAChore ==
    ASSUME NEW p \in Places, NEW q \in Words \cup {None},
           NEW what \in SUBSET {"tree", "view"}, "view" \in what,
           NEW goal \in {"show", "on success", "reselect", "toast"}, NEW ids \in Seq(Rows)
    PROVE  ReloadOf(p, q, what, Reload(p, q, what, goal, ids))
<1>1. PICK k : k = Reload(p, q, what, goal, ids)
    OBVIOUS
<1>2. k \in ChoreRecords
    BY <1>1 DEF Reload, ChoreRecords, Kinds
<1>3. k # None
    BY <1>2, ChoresAreThere
<1>4. ReloadOf(p, q, what, k)
    BY <1>1, <1>2, <1>3 DEF Reload, ChoreFits, Loading, IsLatest, ReloadOf
<1>5. QED
    BY <1>1, <1>4

LEMMA ChangeIsAChore ==
    ASSUME NEW change \in Changes,
           NEW goal \in {"show", "on success", "reselect", "toast"}, NEW ids \in Seq(Rows),
           NEW k, k = Change(change, goal, ids)
    PROVE  /\ k \in ChoreRecords /\ ChoreFits(k) /\ k # None
           /\ ~Loading(k) /\ ~AtItem(k) /\ ~IsLatest(k) /\ k.unserved = {"change"}
<1>1. k \in ChoreRecords
    BY DEF Change, ChoreRecords, Kinds
<1>2. k # None
    BY <1>1, ChoresAreThere
<1>3. QED
    BY <1>1, <1>2 DEF Change, ChoreFits, Loading, AtItem, IsLatest

LEMMA AskItemIsAChore ==
    ASSUME NEW r \in Rows, NEW k, k = AskItem(r)
    PROVE  /\ k \in ChoreRecords /\ ChoreFits(k) /\ k # None
           /\ ~Loading(k) /\ AtItem(k) /\ ~IsLatest(k)
           /\ Asked(k) = r /\ "item" \in k.unserved /\ k.goal = "detail"
<1>1. <<r>> \in Seq(Rows) /\ <<r>>[1] = r
    OBVIOUS
<1>2. k \in ChoreRecords
    BY <1>1 DEF AskItem, ChoreRecords, Kinds
<1>3. k # None
    BY <1>2, ChoresAreThere
<1>4. Asked(k) = r
    BY <1>1 DEF AskItem, Asked
<1>5. QED
    BY <1>2, <1>3, <1>4 DEF AskItem, ChoreFits, Loading, AtItem, IsLatest

(* A free procedure has no letters.                                        *)
LEMMA NoLettersToTheFree ==
    ASSUME NEW pg, NEW ks, NEW ml, Typed(pg, ks, ml), LettersAwaited(ks, ml),
           NEW c \in Chores, ks[c] = None
    PROVE  \A i \in DOMAIN ml : ml[i].to # c
<1>1. c # None
    BY ManagerAssumption DEF ManagerAssumption
<1>2. QED
    BY <1>1 DEF LettersAwaited

(* A procedure that loads nothing begins: nothing else is the worse.       *)
LEMMA JoinKeeps ==
    ASSUME NEW pg, NEW ks, NEW ml, Midway(pg, ks, ml),
           NEW c \in Chores, ks[c] = None,
           NEW k \in ChoreRecords, ChoreFits(k), ~IsLatest(k), ~Loading(k),
           NEW all, all = [ks EXCEPT ![c] = k]
    PROVE  /\ Midway(pg, all, ml)
           /\ PaintFollows(pg, ks) => PaintFollows(pg, all)
           /\ DetailFollows(pg, ks, ml) => DetailFollows(pg, all, ml)
<1>1. Typed(pg, ks, ml) /\ LettersAwaited(ks, ml) /\ LatestIsOfThePage(pg, ks)
    BY DEF Midway
<1>2. /\ ks \in [Chores -> ChoreRecords \cup {None}]
      /\ all \in [Chores -> ChoreRecords \cup {None}]
      /\ all[c] = k /\ k # None
      /\ \A d \in Chores : d # c => all[d] = ks[d]
    BY <1>1, ChoresAreThere DEF Typed
<1>3. /\ \A i \in DOMAIN ml : ml[i].to # c
      /\ \A i \in DOMAIN ml : ml[i].to # None => ml[i].to \in Chores /\ all[ml[i].to] = ks[ml[i].to]
  <2>1. \A i \in DOMAIN ml : ml[i].to # c
      BY <1>1, NoLettersToTheFree
  <2>2. \A i \in DOMAIN ml : ml[i].to # None => ml[i].to \in Chores
      BY <1>1, EveryLetter
  <2>3. QED
      BY <1>2, <2>1, <2>2
<1>4. Typed(pg, all, ml)
  <2>1. \A d \in Chores : all[d] # None => ChoreFits(all[d])
      BY <1>1, <1>2 DEF Typed
  <2>2. QED
      BY <1>1, <1>2, <2>1 DEF Typed
<1>5. LatestIsOfThePage(pg, all)
  <2>1. \A d \in Chores : IsLatest(all[d]) => d # c /\ all[d] = ks[d]
      BY <1>2
  <2>2. QED
      BY <1>1, <2>1 DEF LatestIsOfThePage
<1>6. LettersAwaited(all, ml)
    BY <1>1, <1>3 DEF LettersAwaited
<1>7. /\ \A d \in Chores : ks[d] # None => all[d] = ks[d]
      /\ \A d \in Chores : IsLatest(all[d]) => all[d] = ks[d]
    BY <1>2
<1>8. TreeFollows(pg, all, ml)
  <2>1. \A d \in Chores : Unserved(ks[d], "tree") => Unserved(all[d], "tree")
      BY <1>7 DEF Unserved
  <2>2. TreeFollows(pg, ks, ml)
      BY DEF Midway
  <2>3. QED
      BY <2>1, <2>2 DEF TreeFollows
<1>9. ViewFollows(pg, all, ml)
  <2>1. \A d \in Chores : IsLatest(ks[d]) => IsLatest(all[d]) /\ all[d] = ks[d]
      BY <1>7 DEF IsLatest
  <2>2. \A d \in Chores : IsLatest(all[d]) => IsLatest(ks[d]) /\ all[d] = ks[d]
      BY <1>7
  <2>3. ViewFollows(pg, ks, ml)
      BY DEF Midway
  <2>4. QED
      BY <2>1, <2>2, <2>3 DEF ViewFollows
<1>10. \A d \in Chores : Loading(ks[d]) => Loading(all[d]) /\ all[d] = ks[d]
    BY <1>7 DEF Loading
<1>11. ItemsAreFresh(pg, all, ml)
  <2>1. ItemsAreFresh(pg, ks, ml)
      BY DEF Midway
  <2>2. \A i \in DOMAIN ml : Superseded(ks, ml, i) => Superseded(all, ml, i)
    <3>1. SUFFICES ASSUME NEW i \in DOMAIN ml, Superseded(ks, ml, i) PROVE Superseded(all, ml, i)
        OBVIOUS
    <3>2. CASE \E j \in DOMAIN ml : j > i /\ (ml[j].to = None \/ Loading(ks[ml[j].to]))
      <4>1. PICK j \in DOMAIN ml : j > i /\ (ml[j].to = None \/ Loading(ks[ml[j].to]))
          BY <3>2
      <4>2. ml[j].to = None \/ Loading(all[ml[j].to])
          BY <1>3, <4>1
      <4>3. QED
          BY <4>1, <4>2 DEF Superseded
    <3>3. CASE \E d \in Chores : Loading(ks[d]) /\ ks[d].unserved # {}
        BY <1>10, <3>3 DEF Superseded
    <3>4. QED
        BY <3>1, <3>2, <3>3 DEF Superseded
  <2>3. \A i \in DOMAIN ml : ml[i].what = "item" => ml[i].to # None
    <3>1. "item" \in Kinds
        BY DEF Kinds
    <3>2. QED
        BY <1>1, <3>1, EveryLetter
  <2>4. \A i \in DOMAIN ml : ml[i].what = "item" => all[ml[i].to] = ks[ml[i].to]
      BY <1>3, <2>3
  <2>5. QED
      BY <2>1, <2>2, <2>4 DEF ItemsAreFresh
<1>12. Midway(pg, all, ml)
    BY <1>4, <1>5, <1>6, <1>8, <1>9, <1>11 DEF Midway
<1>13. \A d \in Chores : AtItem(ks[d]) => AtItem(all[d]) /\ all[d] = ks[d]
    BY <1>7 DEF AtItem
<1>14. ASSUME PaintFollows(pg, ks) PROVE PaintFollows(pg, all)
    BY <1>10, <1>13, <1>14 DEF PaintFollows
<1>15. ASSUME DetailFollows(pg, ks, ml) PROVE DetailFollows(pg, all, ml)
    BY <1>10, <1>13, <1>15 DEF DetailFollows, Brings
<1>16. QED
    BY <1>12, <1>14, <1>15

(* What is said half way depends on some fields of the page only.          *)
LEMMA MidwayPage ==
    ASSUME NEW pg, NEW ks, NEW ml, Midway(pg, ks, ml),
           NEW pg2 \in PageRecords,
           pg2.place = pg.place, pg2.query = pg.query, pg2.rows = pg.rows, pg2.tree = pg.tree,
           pg2.lost = pg.lost, pg2.locked = pg.locked
    PROVE  Midway(pg2, ks, ml)
<1>1. Typed(pg2, ks, ml)
    BY DEF Midway, Typed
<1>2. LatestIsOfThePage(pg2, ks)
    BY DEF Midway, LatestIsOfThePage
<1>3. TreeFollows(pg2, ks, ml)
    BY DEF Midway, TreeFollows
<1>4. ViewFollows(pg2, ks, ml)
    BY DEF Midway, ViewFollows
<1>5. ItemsAreFresh(pg2, ks, ml)
    BY DEF Midway, ItemsAreFresh
<1>6. QED
    BY <1>1, <1>2, <1>3, <1>4, <1>5 DEF Midway

(* What the user does to the page alone.                                   *)
LEMMA PageAloneKeeps ==
    ASSUME NEW pg, NEW ks, NEW ml, Sound(pg, ks, ml),
           NEW pg2 \in PageRecords,
           pg2.place = pg.place, pg2.query = pg.query, pg2.rows = pg.rows, pg2.tree = pg.tree,
           pg2.lost = pg.lost, pg2.locked = pg.locked,
           pg2.shown = pg.shown, pg2.detail = pg.detail, pg2.selection = pg.selection
    PROVE  Sound(pg2, ks, ml)
<1>1. Typed(pg2, ks, ml)
    BY DEF Sound, Typed
<1>2. CASE pg.locked
    BY <1>1, <1>2 DEF Sound
<1>3. CASE ~pg.locked
  <2>1. Midway(pg, ks, ml) /\ PaintFollows(pg, ks) /\ DetailFollows(pg, ks, ml)
      BY <1>3 DEF Sound
  <2>2. Midway(pg2, ks, ml)
      BY <2>1, MidwayPage
  <2>3. PaintFollows(pg2, ks)
      BY <2>1 DEF PaintFollows
  <2>4. Sole(pg2) = Sole(pg)
      BY DEF Sole
  <2>5. DetailFollows(pg2, ks, ml)
      BY <2>1, <2>4 DEF DetailFollows
  <2>6. QED
      BY <1>1, <2>2, <2>3, <2>5 DEF Sound
<1>4. QED
    BY <1>2, <1>3

(* A reload begins: all that it will paint follows.                        *)
LEMMA ReloadStarts ==
    ASSUME NEW pg, NEW ks, NEW ml, Typed(pg, ks, ml), LettersAwaited(ks, ml), ~pg.locked,
           NEW c \in Chores, ks[c] = None,
           NEW k \in ChoreRecords, ChoreFits(k), Loading(k), IsLatest(k), k.goal # "detail",
           k.place = pg.place, k.query = pg.query, "view" \in k.unserved,
           "tree" \in k.unserved \/ TreeFollows(pg, ks, ml),
           NEW all, all = Latest(ks, c, k)
    PROVE  Sound(pg, all, ml)
<1>1. k # None
    BY ChoresAreThere
<1>2. k.latest
    BY DEF IsLatest
<1>3. /\ all[c] = k
      /\ \A d \in Chores : d # c /\ ks[d] = None => all[d] = None
      /\ \A d \in Chores : d # c /\ ks[d] # None => all[d] = [ks[d] EXCEPT !.latest = FALSE]
    BY <1>2 DEF Latest
<1>4. all = [d \in Chores |-> all[d]]
    BY DEF Latest
<1> HIDE DEF Latest
<1>5. ASSUME NEW d \in Chores, d # c, ks[d] # None
      PROVE  /\ all[d] \in ChoreRecords /\ all[d] # None /\ ~all[d].latest
             /\ all[d].at = ks[d].at /\ all[d].place = ks[d].place /\ all[d].query = ks[d].query
             /\ all[d].unserved = ks[d].unserved /\ all[d].awaited = ks[d].awaited
             /\ all[d].goal = ks[d].goal /\ all[d].ids = ks[d].ids /\ all[d].change = ks[d].change
  <2>1. ks[d] \in ChoreRecords
      BY <1>5 DEF Typed
  <2>2. all[d] = [ks[d] EXCEPT !.latest = FALSE]
      BY <1>3, <1>5
  <2>3. /\ all[d] \in ChoreRecords /\ ~all[d].latest
        /\ all[d].at = ks[d].at /\ all[d].place = ks[d].place /\ all[d].query = ks[d].query
        /\ all[d].unserved = ks[d].unserved /\ all[d].awaited = ks[d].awaited
        /\ all[d].goal = ks[d].goal /\ all[d].ids = ks[d].ids /\ all[d].change = ks[d].change
      BY <2>1, <2>2 DEF ChoreRecords
  <2>4. QED
      BY <2>3, ChoresAreThere
<1>6. /\ all \in [Chores -> ChoreRecords \cup {None}]
      /\ \A d \in Chores : all[d] # None => ChoreFits(all[d])
  <2>1. \A d \in Chores : all[d] \in ChoreRecords \cup {None}
      BY <1>1, <1>3, <1>5
  <2>2. ASSUME NEW d \in Chores, d # c, ks[d] # None
        PROVE  ChoreFits(all[d])
    <3>1. ChoreFits(ks[d])
        BY <2>2 DEF Typed
    <3>2. Asked(all[d]) = Asked(ks[d])
        BY <1>5, <2>2 DEF Asked
    <3>3. QED
        BY <1>5, <2>2, <3>1, <3>2 DEF ChoreFits
  <2>3. QED
      BY <1>1, <1>3, <1>4, <2>1, <2>2
<1>7. Typed(pg, all, ml)
    BY <1>6 DEF Typed
<1>8. \A i \in DOMAIN ml : ml[i].to # None => ml[i].to \in Chores /\ ml[i].to # c /\ ks[ml[i].to] # None
  <2>1. \A i \in DOMAIN ml : ml[i].to # c
      BY NoLettersToTheFree
  <2>2. \A i \in DOMAIN ml : ml[i].to # None => ml[i].to \in Chores
      BY EveryLetter
  <2>3. QED
      BY <2>1, <2>2 DEF LettersAwaited
<1>9. LettersAwaited(all, ml)
  <2>1. ASSUME NEW i \in DOMAIN ml, ml[i].to # None
        PROVE  /\ all[ml[i].to] # None
               /\ ml[i].what \in all[ml[i].to].awaited
               /\ ml[i].what \notin all[ml[i].to].unserved
    <3>1. /\ ks[ml[i].to] # None
          /\ ml[i].what \in ks[ml[i].to].awaited
          /\ ml[i].what \notin ks[ml[i].to].unserved
        BY <2>1 DEF LettersAwaited
    <3>2. QED
        BY <1>5, <1>8, <2>1, <3>1
  <2>2. \A i \in DOMAIN ml, j \in DOMAIN ml :
            ml[i].to # None /\ ml[i].to = ml[j].to /\ ml[i].what = ml[j].what => i = j
      BY DEF LettersAwaited
  <2>3. QED
      BY <2>1, <2>2 DEF LettersAwaited
<1>10. \A d \in Chores : IsLatest(all[d]) => d = c
    BY <1>3, <1>5 DEF IsLatest
<1>11. LatestIsOfThePage(pg, all)
    BY <1>3, <1>10 DEF LatestIsOfThePage
<1>12. TreeFollows(pg, all, ml)
  <2>1. CASE "tree" \in k.unserved
    <3>1. Unserved(all[c], "tree")
        BY <1>1, <1>3, <2>1 DEF Unserved
    <3>2. QED
        BY <3>1 DEF TreeFollows
  <2>2. CASE TreeFollows(pg, ks, ml)
    <3>1. \A d \in Chores : Unserved(ks[d], "tree") => Unserved(all[d], "tree")
        BY <1>5 DEF Unserved
    <3>2. QED
        BY <2>2, <3>1 DEF TreeFollows
  <2>3. QED
      BY <2>1, <2>2
<1>13. ViewFollows(pg, all, ml)
  <2>1. IsLatest(all[c]) /\ "view" \in all[c].unserved
      BY <1>3
  <2>2. QED
      BY <2>1 DEF ViewFollows
<1>14. Loading(all[c]) /\ all[c].unserved # {} /\ all[c].goal # "detail"
    BY <1>3
<1>15. ItemsAreFresh(pg, all, ml)
    BY <1>14 DEF ItemsAreFresh, Superseded
<1>16. PaintFollows(pg, all) /\ DetailFollows(pg, all, ml)
    BY <1>14 DEF PaintFollows, DetailFollows
<1>17. QED
    BY <1>7, <1>9, <1>11, <1>12, <1>13, <1>15, <1>16 DEF Sound, Midway

(* The detail pane follows the selection.                                  *)
LEMMA SelectedFollows ==
    ASSUME NEW pg, NEW ks, NEW ml, Midway(pg, ks, ml), PaintFollows(pg, ks),
           NEW c \in Chores, NEW all, ks = [all EXCEPT ![c] = None], DOMAIN all = Chores
    PROVE  Sound(Selected(pg, all, c).page, Selected(pg, all, c).chores, ml)
<1>1. pg \in PageRecords /\ Typed(pg, ks, ml) /\ ks[c] = None
    BY DEF Midway, Typed
<1>2. Sole(pg) \in Rows \cup {None}
    BY <1>1, SoleIsShown
<1>3. CASE Sole(pg) = None
  <2>1. PICK pg2 : pg2 = [pg EXCEPT !.detail = None]
      OBVIOUS
  <2>2. /\ pg2 \in PageRecords /\ pg2.place = pg.place /\ pg2.query = pg.query
        /\ pg2.rows = pg.rows /\ pg2.tree = pg.tree /\ pg2.lost = pg.lost
        /\ pg2.locked = pg.locked /\ pg2.shown = pg.shown /\ pg2.selection = pg.selection
        /\ pg2.detail = None
      BY <1>1, <2>1 DEF PageRecords
  <2>3. Midway(pg2, ks, ml)
      BY <2>2, MidwayPage
  <2>4. Sole(pg2) = None
      BY <1>3, <2>2 DEF Sole
  <2>5. DetailFollows(pg2, ks, ml)
      BY <2>2, <2>4 DEF DetailFollows
  <2>6. PaintFollows(pg2, ks)
      BY <2>2 DEF PaintFollows
  <2>7. Sound(pg2, ks, ml)
      BY <2>3, <2>5, <2>6 DEF Sound, Midway
  <2>8. Selected(pg, all, c).page = pg2 /\ Selected(pg, all, c).chores = ks
      BY <1>3, <2>1 DEF Selected
  <2>9. QED
      BY <2>7, <2>8
<1>4. CASE Sole(pg) # None
  <2>1. Sole(pg) \in Rows
      BY <1>2, <1>4
  <2>2. PICK k : k = AskItem(Sole(pg))
      OBVIOUS
  <2>3. /\ k \in ChoreRecords /\ ChoreFits(k) /\ k # None
        /\ ~Loading(k) /\ AtItem(k) /\ ~IsLatest(k)
        /\ Asked(k) = Sole(pg) /\ "item" \in k.unserved
      BY <2>1, <2>2, AskItemIsAChore
  <2>4. PICK all2 : all2 = [ks EXCEPT ![c] = k]
      OBVIOUS
  <2>5. all2 = [all EXCEPT ![c] = AskItem(Sole(pg))] /\ all2[c] = k
      BY <2>2, <2>4
  <2>6. Midway(pg, all2, ml) /\ PaintFollows(pg, all2)
      BY <1>1, <2>3, <2>4, JoinKeeps
  <2>7. DetailFollows(pg, all2, ml)
      BY <2>3, <2>5 DEF DetailFollows, Brings
  <2>8. Sound(pg, all2, ml)
      BY <2>6, <2>7 DEF Sound, Midway
  <2>9. Selected(pg, all, c).page = pg /\ Selected(pg, all, c).chores = all2
      BY <1>4, <2>5 DEF Selected
  <2>10. QED
      BY <2>8, <2>9
<1>5. QED
    BY <1>3, <1>4

(* A procedure paints, and goes on to what it was called for.              *)
LEMMA PaintedFollows ==
    ASSUME NEW pg, NEW ks, NEW ml, Midway(pg, ks, ml),
           NEW c \in Chores, NEW all, ks = [all EXCEPT ![c] = None], DOMAIN all = Chores,
           all[c] \in ChoreRecords,
           all[c].goal = "detail" => PaintFollows(pg, ks),
           all[c].goal # "reselect" => DetailFollows(pg, ks, ml)
    PROVE  Sound(Painted(pg, all, c).page, Painted(pg, all, c).chores, ml)
<1>1. pg \in PageRecords /\ Typed(pg, ks, ml) /\ ks[c] = None /\ all[c].ids \in Seq(Rows)
    BY DEF Midway, Typed, ChoreRecords
<1>2. PICK shown : shown = IF all[c].goal = "detail" THEN pg ELSE [pg EXCEPT !.shown = pg.rows]
    OBVIOUS
<1>3. /\ shown \in PageRecords /\ shown.place = pg.place /\ shown.query = pg.query
      /\ shown.rows = pg.rows /\ shown.tree = pg.tree /\ shown.lost = pg.lost
      /\ shown.locked = pg.locked /\ shown.selection = pg.selection /\ shown.detail = pg.detail
    BY <1>1, <1>2 DEF PageRecords
<1>4. Midway(shown, ks, ml)
    BY <1>3, MidwayPage
<1>5. PaintFollows(shown, ks)
  <2>1. CASE all[c].goal = "detail"
      BY <1>2, <2>1
  <2>2. CASE all[c].goal # "detail"
    <3>1. shown.shown = shown.rows
        BY <1>1, <1>2, <2>2 DEF PageRecords
    <3>2. QED
        BY <3>1 DEF PaintFollows
  <2>3. QED
      BY <2>1, <2>2
<1>6. CASE all[c].goal = "reselect"
  <2>1. PICK pg2 : pg2 = [shown EXCEPT !.selection = ToSet(all[c].ids)]
      OBVIOUS
  <2>2. ToSet(all[c].ids) \in SUBSET Rows
      BY <1>1 DEF ToSet
  <2>3. /\ pg2 \in PageRecords /\ pg2.place = shown.place /\ pg2.query = shown.query
        /\ pg2.rows = shown.rows /\ pg2.tree = shown.tree /\ pg2.lost = shown.lost
        /\ pg2.locked = shown.locked /\ pg2.shown = shown.shown
      BY <1>3, <2>1, <2>2 DEF PageRecords
  <2>4. Midway(pg2, ks, ml)
      BY <1>4, <2>3, MidwayPage
  <2>5. PaintFollows(pg2, ks)
      BY <1>5, <2>3 DEF PaintFollows
  <2>6. Sound(Selected(pg2, all, c).page, Selected(pg2, all, c).chores, ml)
      BY <2>4, <2>5, SelectedFollows
  <2>7. Painted(pg, all, c) = Selected(pg2, all, c)
      BY <1>2, <1>6, <2>1 DEF Painted
  <2>8. QED
      BY <2>6, <2>7
<1>7. CASE all[c].goal # "reselect"
  <2>1. PICK pg2 : pg2 = IF all[c].goal = "toast" THEN [shown EXCEPT !.undo = all[c].ids] ELSE shown
      OBVIOUS
  <2>2. /\ pg2 \in PageRecords /\ pg2.place = shown.place /\ pg2.query = shown.query
        /\ pg2.rows = shown.rows /\ pg2.tree = shown.tree /\ pg2.lost = shown.lost
        /\ pg2.locked = shown.locked /\ pg2.shown = shown.shown
        /\ pg2.selection = shown.selection /\ pg2.detail = shown.detail
      BY <1>1, <1>3, <2>1 DEF PageRecords
  <2>3. Sole(shown) = Sole(pg)
      BY <1>3 DEF Sole
  <2>4. DetailFollows(pg, ks, ml)
      BY <1>7
  <2>5. DetailFollows(shown, ks, ml)
      BY <1>3, <2>3, <2>4 DEF DetailFollows
  <2>6. Sound(shown, ks, ml)
      BY <1>4, <1>5, <2>5 DEF Sound, Midway
  <2>7. Sound(pg2, ks, ml)
      BY <2>2, <2>6, PageAloneKeeps
  <2>8. Painted(pg, all, c).page = pg2 /\ Painted(pg, all, c).chores = ks
      BY <1>2, <1>7, <2>1 DEF Painted
  <2>9. QED
      BY <2>7, <2>8
<1>8. QED
    BY <1>6, <1>7

(* A reload has its answers: it asks for the selected bookmark, or paints. *)
LEMMA LoadedFollows ==
    ASSUME NEW pg, NEW ks, NEW ml, Midway(pg, ks, ml),
           NEW c \in Chores, NEW all, ks = [all EXCEPT ![c] = None], DOMAIN all = Chores,
           all[c] \in ChoreRecords, all[c].at = "loading", all[c].goal # "detail"
    PROVE  Sound(Loaded(pg, all, c).page, Loaded(pg, all, c).chores, ml)
<1>1. pg \in PageRecords /\ Typed(pg, ks, ml) /\ ks[c] = None
    BY DEF Midway, Typed
<1>2. Sole(pg) \in Rows \cup {None}
    BY <1>1, SoleIsShown
<1>3. CASE Sole(pg) = None
  <2>1. PICK pg2 : pg2 = [pg EXCEPT !.detail = None]
      OBVIOUS
  <2>2. /\ pg2 \in PageRecords /\ pg2.place = pg.place /\ pg2.query = pg.query
        /\ pg2.rows = pg.rows /\ pg2.tree = pg.tree /\ pg2.lost = pg.lost
        /\ pg2.locked = pg.locked /\ pg2.selection = pg.selection /\ pg2.detail = None
      BY <1>1, <2>1 DEF PageRecords
  <2>3. Midway(pg2, ks, ml)
      BY <2>2, MidwayPage
  <2>4. Sole(pg2) = None
      BY <1>3, <2>2 DEF Sole
  <2>5. DetailFollows(pg2, ks, ml)
      BY <2>2, <2>4 DEF DetailFollows
  <2>6. Sound(Painted(pg2, all, c).page, Painted(pg2, all, c).chores, ml)
      BY <2>3, <2>5, PaintedFollows
  <2>7. Loaded(pg, all, c) = Painted(pg2, all, c)
      BY <1>3, <2>1 DEF Loaded
  <2>8. QED
      BY <2>6, <2>7
<1>4. CASE Sole(pg) # None
  <2>1. Sole(pg) \in Rows
      BY <1>2, <1>4
  <2>2. PICK k : k = [all[c] EXCEPT !.at = "item", !.unserved = {"item"}, !.awaited = {"item"},
                                    !.latest = FALSE, !.place = Sole(pg)]
      OBVIOUS
  <2>3. /\ k \in ChoreRecords /\ k.at = "item" /\ k.unserved = {"item"} /\ k.awaited = {"item"}
        /\ ~k.latest /\ k.place = Sole(pg) /\ k.goal # "detail"
      BY <2>1, <2>2 DEF ChoreRecords, Kinds
  <2>4. Asked(k) = Sole(pg)
      BY <2>3 DEF Asked
  <2>5. k # None
      BY <2>3, ChoresAreThere
  <2>6. ChoreFits(k) /\ ~Loading(k) /\ AtItem(k) /\ ~IsLatest(k)
      BY <2>1, <2>3, <2>4, <2>5 DEF ChoreFits, Loading, AtItem, IsLatest
  <2>7. PICK all2 : all2 = [ks EXCEPT ![c] = k]
      OBVIOUS
  <2>8. all2[c] = k
      BY <2>7
  <2>9. Midway(pg, all2, ml)
      BY <1>1, <2>3, <2>6, <2>7, JoinKeeps
  <2>10. PaintFollows(pg, all2)
      BY <2>3, <2>6, <2>8 DEF PaintFollows
  <2>11. DetailFollows(pg, all2, ml)
      BY <2>3, <2>4, <2>6, <2>8 DEF DetailFollows, Brings
  <2>12. Sound(pg, all2, ml)
      BY <2>9, <2>10, <2>11 DEF Sound, Midway
  <2>13. all2 = [all EXCEPT ![c] = k]
      BY <2>7
  <2>14. Loaded(pg, all, c).page = pg
      BY <1>4 DEF Loaded
  <2>15. Loaded(pg, all, c).chores = all2
      BY <1>4, <2>2, <2>13 DEF Loaded
  <2>16. QED
      BY <2>12, <2>14, <2>15
<1>5. QED
    BY <1>3, <1>4

-----------------------------------------------------------------------------
(* A letter arrives                                                        *)

LEMMA RestOfTheMail ==
    ASSUME NEW ml \in Seq(Letters), ml # <<>>, NEW rest, rest = Tail(ml)
    PROVE  /\ rest \in Seq(Letters)
           /\ 1 \in DOMAIN ml /\ ml[1] = Head(ml)
           /\ \A i \in DOMAIN rest : i \in Nat /\ i + 1 \in DOMAIN ml /\ i + 1 # 1 /\ rest[i] = ml[i + 1]
           /\ \A i \in DOMAIN ml : i \in Nat
           /\ \A i \in DOMAIN ml : i # 1 => i - 1 \in DOMAIN rest /\ rest[i - 1] = ml[i] /\ i - 1 \in Nat
<1>1. DOMAIN ml = 1 .. Len(ml) /\ Len(ml) \in Nat /\ Len(ml) # 0
    OBVIOUS
<1>2. rest \in Seq(Letters) /\ Len(rest) = Len(ml) - 1 /\ DOMAIN rest = 1 .. Len(rest)
    OBVIOUS
<1>3. \A i \in 1 .. Len(ml) - 1 : rest[i] = ml[i + 1]
    OBVIOUS
<1>4. ml[1] = Head(ml)
    OBVIOUS
<1>5. 1 \in DOMAIN ml /\ \A i \in DOMAIN ml : i \in Nat
    BY <1>1
<1>6. \A i \in DOMAIN rest : i \in Nat /\ i + 1 \in DOMAIN ml /\ i + 1 # 1 /\ rest[i] = ml[i + 1]
    BY <1>1, <1>2, <1>3
<1>7. \A i \in DOMAIN ml : i # 1 => i - 1 \in DOMAIN rest /\ i - 1 \in Nat /\ (i - 1) + 1 = i
    BY <1>1, <1>2
<1>8. \A i \in DOMAIN ml : i # 1 => rest[i - 1] = ml[i]
    BY <1>6, <1>7
<1>9. QED
    BY <1>2, <1>4, <1>5, <1>6, <1>7, <1>8

(* What the procedure has read, and whether it waits for more.             *)
Reads(pg, m, k, pg2) ==
    /\ pg2 \in PageRecords
    /\ pg2.place = pg.place /\ pg2.query = pg.query /\ pg2.lost = pg.lost /\ pg2.locked = pg.locked
    /\ pg2.tree = IF m.what = "tree" THEN m.body ELSE pg.tree
    /\ pg2.rows = IF m.what = "view" /\ k.latest
                    THEN IF m.body = None THEN <<>> ELSE m.body
                    ELSE pg.rows

WaitsOn(k, what, left) ==
    \/ left = None /\ k.awaited = {what}
    \/ left = [k EXCEPT !.awaited = @ \ {what}] /\ k.awaited # {what}

(* The letter is read by the procedure it is for, which waits on, or goes  *)
(* on and is looked at apart.                                              *)
LEMMA ArrivalKeeps ==
    ASSUME VaultTypes,
           NEW pg, NEW ks, NEW ml, Midway(pg, ks, ml), ml # <<>>, NEW rest, rest = Tail(ml),
           NEW m, m = Head(ml), NEW c \in Chores, m.to = c,
           NEW k, WaitsOn(ks[c], m.what, k), NEW all, all = [ks EXCEPT ![c] = k],
           NEW pg2, Reads(pg, m, ks[c], pg2)
    PROVE  /\ Midway(pg2, all, rest)
           /\ \A i \in DOMAIN ml : ml[i].to = c /\ i # 1 => k # None
           /\ k # None => Loading(k) /\ k.goal # "detail"
<1>1. /\ Typed(pg, ks, ml) /\ LettersAwaited(ks, ml) /\ LatestIsOfThePage(pg, ks)
      /\ ml \in Seq(Letters) /\ c # None /\ pg \in PageRecords
    BY ManagerAssumption DEF Midway, Typed, ManagerAssumption
<1>2. /\ pg2 \in PageRecords
      /\ pg2.place = pg.place /\ pg2.query = pg.query /\ pg2.lost = pg.lost /\ pg2.locked = pg.locked
      /\ pg2.tree = IF m.what = "tree" THEN m.body ELSE pg.tree
      /\ pg2.rows = IF m.what = "view" /\ ks[c].latest
                      THEN IF m.body = None THEN <<>> ELSE m.body
                      ELSE pg.rows
    BY DEF Reads
<1>3. \/ k = None /\ ks[c].awaited = {m.what}
      \/ k = [ks[c] EXCEPT !.awaited = @ \ {m.what}] /\ ks[c].awaited # {m.what}
    BY DEF WaitsOn
<1>4. /\ rest \in Seq(Letters)
      /\ 1 \in DOMAIN ml /\ ml[1] = m
      /\ \A i \in DOMAIN rest : i \in Nat /\ i + 1 \in DOMAIN ml /\ i + 1 # 1 /\ rest[i] = ml[i + 1]
      /\ \A i \in DOMAIN ml : i \in Nat
      /\ \A i \in DOMAIN ml : i # 1 => i - 1 \in DOMAIN rest /\ rest[i - 1] = ml[i] /\ i - 1 \in Nat
    BY <1>1, RestOfTheMail
<1>5. /\ \A i \in DOMAIN ml : ml[i] \in Letters
      /\ \A i \in DOMAIN ml : ml[i].to # None => ml[i].to \in Chores
      /\ \A i \in DOMAIN ml : ml[i].what \in Kinds => ml[i].to # None
    BY <1>1, EveryLetter
<1>6. ks[c] # None /\ m.what \in ks[c].awaited /\ m.what \notin ks[c].unserved
    BY <1>1, <1>4 DEF LettersAwaited
<1>7. ks \in [Chores -> ChoreRecords \cup {None}] /\ ks[c] \in ChoreRecords /\ ChoreFits(ks[c])
    BY <1>1, <1>6 DEF Typed
<1>8. ks[c].awaited # {m.what} => k # None
  <2>1. [ks[c] EXCEPT !.awaited = @ \ {m.what}] \in ChoreRecords
      BY <1>7 DEF ChoreRecords
  <2>2. QED
      BY <1>3, <2>1, ChoresAreThere
<1>9. ASSUME k # None
      PROVE  /\ k \in ChoreRecords /\ k.awaited = ks[c].awaited \ {m.what} /\ k.awaited # {}
             /\ k.at = ks[c].at /\ k.latest = ks[c].latest /\ k.place = ks[c].place
             /\ k.query = ks[c].query /\ k.unserved = ks[c].unserved /\ k.goal = ks[c].goal
             /\ k.ids = ks[c].ids
  <2>1. k = [ks[c] EXCEPT !.awaited = @ \ {m.what}] /\ ks[c].awaited # {m.what}
      BY <1>9, <1>3
  <2>2. ks[c].awaited \ {m.what} # {}
      BY <1>6, <2>1
  <2>3. QED
      BY <1>7, <2>1, <2>2 DEF ChoreRecords
<1>10. ASSUME k # None
       PROVE  ChoreFits(k) /\ Loading(k) /\ k.goal # "detail"
  <2>1. ks[c].awaited # {"item"} /\ ks[c].awaited # {"change"}
      BY <1>6, <1>9, <1>10
  <2>2. ks[c].at = "loading"
      BY <1>7, <2>1 DEF ChoreRecords, ChoreFits
  <2>3. k.unserved \subseteq k.awaited
      BY <1>6, <1>7, <1>9, <1>10 DEF ChoreFits
  <2>4. QED
      BY <1>7, <1>9, <1>10, <2>2, <2>3 DEF ChoreFits, Loading
<1>11. /\ all[c] = k
       /\ \A d \in Chores : d # c => all[d] = ks[d]
       /\ all \in [Chores -> ChoreRecords \cup {None}]
    BY <1>7, <1>9
<1>12. Typed(pg2, all, rest)
  <2>1. \A d \in Chores : all[d] # None => ChoreFits(all[d])
      BY <1>1, <1>10, <1>11 DEF Typed
  <2>2. QED
      BY <1>4, <1>11, <1>2, <2>1 DEF Typed
<1>13. \A d \in Chores : IsLatest(all[d]) => /\ IsLatest(ks[d]) /\ all[d].place = ks[d].place
                                             /\ all[d].query = ks[d].query
                                             /\ all[d].awaited \subseteq ks[d].awaited
    BY <1>6, <1>9, <1>11 DEF IsLatest
<1>14. LatestIsOfThePage(pg2, all)
    BY <1>1, <1>13, <1>2 DEF LatestIsOfThePage
(* Another letter to c is about something else, for which c waits on.      *)
<1>15. ASSUME NEW i \in DOMAIN ml, i # 1, ml[i].to = c
       PROVE  k # None /\ ml[i].what \in k.awaited /\ ml[i].what \notin k.unserved
  <2>1. ml[i].what # m.what
      BY <1>1, <1>4, <1>15 DEF LettersAwaited
  <2>2. ml[i].what \in ks[c].awaited /\ ml[i].what \notin ks[c].unserved
      BY <1>1, <1>15 DEF LettersAwaited
  <2>3. k # None
      BY <1>8, <2>1, <2>2
  <2>4. QED
      BY <1>9, <2>1, <2>2, <2>3
<1>16. LettersAwaited(all, rest)
  <2>1. ASSUME NEW i \in DOMAIN rest, rest[i].to # None
        PROVE  /\ all[rest[i].to] # None
               /\ rest[i].what \in all[rest[i].to].awaited
               /\ rest[i].what \notin all[rest[i].to].unserved
    <3>1. i + 1 \in DOMAIN ml /\ i + 1 # 1 /\ rest[i] = ml[i + 1]
        BY <1>4
    <3>2. PICK n \in DOMAIN ml : n = i + 1
        BY <3>1
    <3>3. n # 1 /\ rest[i] = ml[n] /\ ml[n].to \in Chores
        BY <1>5, <2>1, <3>1, <3>2
    <3>4. CASE ml[n].to = c
        BY <1>11, <1>15, <3>3, <3>4
    <3>5. CASE ml[n].to # c
        BY <1>1, <1>11, <2>1, <3>3, <3>5 DEF LettersAwaited
    <3>6. QED
        BY <3>4, <3>5
  <2>2. ASSUME NEW i \in DOMAIN rest, NEW j \in DOMAIN rest,
               rest[i].to # None, rest[i].to = rest[j].to, rest[i].what = rest[j].what
        PROVE  i = j
    <3>1. /\ i + 1 \in DOMAIN ml /\ rest[i] = ml[i + 1]
          /\ j + 1 \in DOMAIN ml /\ rest[j] = ml[j + 1]
          /\ i \in Nat /\ j \in Nat
        BY <1>4
    <3>2. i + 1 = j + 1
        BY <1>1, <2>2, <3>1 DEF LettersAwaited
    <3>3. QED
        BY <3>1, <3>2
  <2>3. QED
      BY <2>1, <2>2 DEF LettersAwaited
<1>17. ASSUME Told(ml) PROVE Told(rest)
  <2>1. PICK i \in DOMAIN ml : ml[i].to = None
      BY <1>17 DEF Told
  <2>2. i # 1
      BY <1>1, <1>4, <2>1
  <2>3. i - 1 \in DOMAIN rest /\ rest[i - 1] = ml[i]
      BY <1>4, <2>2
  <2>4. QED
      BY <2>1, <2>3 DEF Told
(* What c has not been served it still waits for.                          *)
<1>18. ASSUME NEW what \in ks[c].unserved
       PROVE  k # None /\ what \in k.unserved
  <2>1. what \in ks[c].awaited /\ what # m.what
      BY <1>6, <1>7, <1>18 DEF ChoreFits
  <2>2. k # None
      BY <1>8, <2>1
  <2>3. QED
      BY <1>9, <2>2
<1>19. TreeFollows(pg2, all, rest)
  <2>1. TreeFollows(pg, ks, ml)
      BY DEF Midway
  <2>2. CASE pg.lost \/ Told(ml)
      BY <1>17, <1>2, <2>2 DEF TreeFollows
  <2>3. CASE \E d \in Chores : Unserved(ks[d], "tree")
    <3>1. PICK d \in Chores : Unserved(ks[d], "tree")
        BY <2>3
    <3>2. Unserved(all[d], "tree")
        BY <1>11, <1>18, <3>1 DEF Unserved
    <3>3. QED
        BY <3>2 DEF TreeFollows
  <2>4. CASE \E i \in DOMAIN ml :
               /\ ml[i].what = "tree" /\ ml[i].body = Tree
               /\ \A j \in DOMAIN ml : j > i => ml[j].what # "tree"
    <3>1. PICK i \in DOMAIN ml : /\ ml[i].what = "tree" /\ ml[i].body = Tree
                                 /\ \A j \in DOMAIN ml : j > i => ml[j].what # "tree"
        BY <2>4
    <3>2. CASE i = 1
      <4>1. m.what = "tree" /\ m.body = Tree
          BY <1>4, <3>1, <3>2
      <4>2. pg2.tree = Tree
          BY <1>2, <4>1
      <4>3. \A j \in DOMAIN rest : rest[j].what # "tree"
        <5>1. \A j \in DOMAIN rest : j + 1 > i
            BY <1>4, <3>2
        <5>2. QED
            BY <1>4, <3>1, <5>1
      <4>4. QED
          BY <4>2, <4>3 DEF TreeFollows
    <3>3. CASE i # 1
      <4>1. i - 1 \in DOMAIN rest /\ rest[i - 1] = ml[i] /\ i \in Nat
          BY <1>4, <3>3
      <4>2. PICK n \in DOMAIN rest : n = i - 1
          BY <4>1
      <4>3. rest[n] = ml[i]
          BY <4>1, <4>2
      <4>4. \A j \in DOMAIN rest : j > n => j + 1 > i
          BY <1>4, <4>1, <4>2
      <4>5. \A j \in DOMAIN rest : j > n => rest[j].what # "tree"
          BY <1>4, <3>1, <4>4
      <4>6. rest[n].what = "tree" /\ rest[n].body = Tree
          BY <3>1, <4>3
      <4>7. QED
          BY <4>5, <4>6 DEF TreeFollows
    <3>4. QED
        BY <3>2, <3>3
  <2>5. CASE pg.tree = Tree /\ \A i \in DOMAIN ml : ml[i].what # "tree"
    <3>1. pg2.tree = Tree
        BY <1>4, <1>2, <2>5
    <3>2. \A i \in DOMAIN rest : rest[i].what # "tree"
        BY <1>4, <2>5
    <3>3. QED
        BY <3>1, <3>2 DEF TreeFollows
  <2>6. QED
      BY <2>1, <2>2, <2>3, <2>4, <2>5 DEF TreeFollows
<1>20. ViewFollows(pg2, all, rest)
  <2>1. ViewFollows(pg, ks, ml)
      BY DEF Midway
  <2>2. CASE pg.lost \/ Told(ml)
      BY <1>17, <1>2, <2>2 DEF ViewFollows
  <2>3. CASE \E d \in Chores : IsLatest(ks[d]) /\ "view" \in ks[d].unserved
    <3>1. PICK d \in Chores : IsLatest(ks[d]) /\ "view" \in ks[d].unserved
        BY <2>3
    <3>2. IsLatest(all[d]) /\ "view" \in all[d].unserved
        BY <1>9, <1>11, <1>18, <3>1 DEF IsLatest
    <3>3. QED
        BY <3>2 DEF ViewFollows
  <2>4. CASE \E d \in Chores : IsLatest(ks[d]) /\
              \E i \in DOMAIN ml : /\ ml[i].to = d /\ ml[i].what = "view"
                                   /\ ml[i].body = ListView(pg.place, pg.query)
    <3>1. PICK d \in Chores, i \in DOMAIN ml :
              /\ IsLatest(ks[d]) /\ ml[i].to = d /\ ml[i].what = "view"
              /\ ml[i].body = ListView(pg.place, pg.query)
        BY <2>4
    <3>2. CASE i = 1
      <4>1. d = c /\ m.what = "view" /\ m.body = ListView(pg.place, pg.query) /\ ks[c].latest
          BY <1>4, <3>1, <3>2 DEF IsLatest
      <4>2. m.body # None
        <5>1. pg.place \in Places
            BY <1>1 DEF PageRecords
        <5>2. m.body \in Seq(AllRows)
            BY <4>1, <5>1, ListViewLists
        <5>3. AllRows \subseteq Rows
            BY DEF AllRows
        <5>4. m.body \in Seq(Rows)
            BY <5>2, <5>3, WiderLists
        <5>5. QED
            BY <5>4, ManagerAssumption DEF ManagerAssumption
      <4>3. pg2.rows = ListView(pg.place, pg.query)
          BY <1>2, <4>1, <4>2
      <4>4. \A e \in Chores : IsLatest(all[e]) => e = c
          BY <1>1, <1>13, <3>1, <4>1 DEF LatestIsOfThePage
      <4>5. \A e \in Chores : IsLatest(all[e]) => "view" \notin all[e].awaited
          BY <1>9, <1>11, <4>1, <4>4 DEF IsLatest
      <4>6. QED
          BY <1>2, <4>3, <4>5 DEF ViewFollows
    <3>3. CASE i # 1
      <4>1. i - 1 \in DOMAIN rest /\ rest[i - 1] = ml[i]
          BY <1>4, <3>3
      <4>2. IsLatest(all[d])
          BY <1>9, <1>11, <1>15, <3>1, <3>3 DEF IsLatest
      <4>3. \E n \in DOMAIN rest : /\ rest[n].to = d /\ rest[n].what = "view"
                                   /\ rest[n].body = ListView(pg2.place, pg2.query)
          BY <1>2, <3>1, <4>1
      <4>4. QED
          BY <4>2, <4>3 DEF ViewFollows
    <3>4. QED
        BY <3>2, <3>3
  <2>5. CASE /\ pg.rows = ListView(pg.place, pg.query)
             /\ \A d \in Chores : IsLatest(ks[d]) => "view" \notin ks[d].awaited
    <3>1. ~(m.what = "view" /\ ks[c].latest)
        BY <1>6, <2>5 DEF IsLatest
    <3>2. pg2.rows = ListView(pg2.place, pg2.query)
        BY <1>2, <2>5, <3>1
    <3>3. \A d \in Chores : IsLatest(all[d]) => "view" \notin all[d].awaited
        BY <1>13, <2>5
    <3>4. QED
        BY <3>2, <3>3 DEF ViewFollows
  <2>6. QED
      BY <2>1, <2>2, <2>3, <2>4, <2>5 DEF ViewFollows
<1>21. ASSUME NEW i \in DOMAIN rest, NEW n \in DOMAIN ml, n = i + 1, Superseded(ks, ml, n)
       PROVE  Superseded(all, rest, i)
  <2>1. CASE \E j \in DOMAIN ml : j > n /\ (ml[j].to = None \/ Loading(ks[ml[j].to]))
    <3>1. PICK j \in DOMAIN ml : j > n /\ (ml[j].to = None \/ Loading(ks[ml[j].to]))
        BY <2>1
    <3>2. j # 1 /\ j \in Nat /\ n \in Nat /\ i \in Nat
        BY <1>4, <1>21, <3>1
    <3>3. j - 1 \in DOMAIN rest /\ rest[j - 1] = ml[j]
        BY <1>4, <3>2
    <3>4. PICK o \in DOMAIN rest : o = j - 1
        BY <3>3
    <3>5. o > i /\ rest[o] = ml[j]
        BY <1>21, <3>1, <3>2, <3>3, <3>4
    <3>6. rest[o].to = None \/ Loading(all[rest[o].to])
      <4>1. CASE ml[j].to = None
          BY <3>5, <4>1
      <4>2. CASE ml[j].to = c
        <5>1. k # None
            BY <1>15, <3>2, <4>2
        <5>2. QED
            BY <1>10, <1>11, <3>5, <4>2, <5>1
      <4>3. CASE ml[j].to # None /\ ml[j].to # c
          BY <1>5, <1>11, <3>1, <3>5, <4>3
      <4>4. QED
          BY <4>1, <4>2, <4>3
    <3>7. QED
        BY <3>5, <3>6 DEF Superseded
  <2>2. CASE \E d \in Chores : Loading(ks[d]) /\ ks[d].unserved # {}
    <3>1. PICK d \in Chores : Loading(ks[d]) /\ ks[d].unserved # {}
        BY <2>2
    <3>2. Loading(all[d]) /\ all[d].unserved # {}
      <4>1. CASE d = c
        <5>1. k # None
            BY <1>18, <3>1, <4>1
        <5>2. QED
            BY <1>9, <1>10, <1>11, <3>1, <4>1, <5>1
      <4>2. CASE d # c
          BY <1>11, <3>1, <4>2
      <4>3. QED
          BY <4>1, <4>2
    <3>3. QED
        BY <3>2 DEF Superseded
  <2>3. QED
      BY <1>21, <2>1, <2>2 DEF Superseded
<1>22. ItemsAreFresh(pg2, all, rest)
  <2>1. ItemsAreFresh(pg, ks, ml)
      BY DEF Midway
  <2>2. CASE pg.lost
      BY <1>2, <2>2 DEF ItemsAreFresh
  <2>3. CASE ~pg.lost
    <3>1. ASSUME NEW i \in DOMAIN rest, rest[i].what = "item", rest[i].body # None
          PROVE  rest[i].body = GetItem(Asked(all[rest[i].to])) \/ Superseded(all, rest, i)
      <4>1. i + 1 \in DOMAIN ml /\ i + 1 # 1 /\ rest[i] = ml[i + 1]
          BY <1>4
      <4>2. PICK n \in DOMAIN ml : n = i + 1
          BY <4>1
      <4>3. n # 1 /\ rest[i] = ml[n]
          BY <4>1, <4>2
      <4>4. ml[n].body = GetItem(Asked(ks[ml[n].to])) \/ Superseded(ks, ml, n)
          BY <2>1, <2>3, <3>1, <4>3 DEF ItemsAreFresh
      <4>5. "item" \in Kinds
          BY DEF Kinds
      <4>6. ml[n].to # None /\ ml[n].to \in Chores
          BY <1>5, <3>1, <4>3, <4>5
      <4>7. ml[n].to # c
        <5>1. SUFFICES ASSUME ml[n].to = c PROVE FALSE
            OBVIOUS
        <5>2. k # None /\ "item" \in k.awaited
            BY <1>15, <3>1, <4>3, <5>1
        <5>3. k.awaited \subseteq {"tree", "view"}
            BY <1>10, <5>2 DEF ChoreFits, Loading
        <5>4. QED
            BY <5>2, <5>3
      <4>8. all[ml[n].to] = ks[ml[n].to]
          BY <1>11, <4>6, <4>7
      <4>9. Superseded(ks, ml, n) => Superseded(all, rest, i)
          BY <1>21, <4>2
      <4>10. QED
          BY <4>3, <4>4, <4>8, <4>9
    <3>2. QED
        BY <3>1 DEF ItemsAreFresh
  <2>4. QED
      BY <2>2, <2>3
<1>23. Midway(pg2, all, rest)
    BY <1>12, <1>14, <1>16, <1>19, <1>20, <1>22, <1>2 DEF Midway
<1>24. QED
    BY <1>10, <1>15, <1>23

LEMMA ViewWritten ==
    ASSUME NEW pg \in PageRecords, NEW k, NEW rows \in Seq(Rows) \cup {None},
           NEW pg2, pg2 = WithView(pg, k, rows)
    PROVE  /\ pg2 \in PageRecords /\ pg2.place = pg.place /\ pg2.query = pg.query
           /\ pg2.lost = pg.lost /\ pg2.locked = pg.locked /\ pg2.tree = pg.tree
           /\ pg2.rows = IF k.latest THEN IF rows = None THEN <<>> ELSE rows ELSE pg.rows
<1>1. CASE ~k.latest
    BY <1>1 DEF WithView
<1>2. CASE k.latest /\ rows = None
  <2>1. pg2 = [pg EXCEPT !.rows = <<>>]
      BY <1>2 DEF WithView
  <2>2. <<>> \in Seq(Rows)
      OBVIOUS
  <2>3. QED
      BY <1>2, <2>1, <2>2 DEF PageRecords
<1>3. CASE k.latest /\ rows # None
  <2>1. pg2 = [pg EXCEPT !.rows = rows, !.selection = pg.selection \cap ToSet(rows)]
      BY <1>3 DEF WithView, PageRecords
  <2>2. rows \in Seq(Rows) /\ pg.selection \cap ToSet(rows) \in SUBSET Rows
      BY <1>3 DEF PageRecords
  <2>3. QED
      BY <1>3, <2>1, <2>2 DEF PageRecords
<1>4. QED
    BY <1>1, <1>2, <1>3

(* The view or the tree: the last of what a reload waits for, or not.       *)
LEMMA LoadsOn ==
    ASSUME VaultTypes,
           NEW pg, NEW ks, NEW ml, Midway(pg, ks, ml), ml # <<>>, NEW rest, rest = Tail(ml),
           NEW m, m = Head(ml), NEW c \in Chores, m.to = c,
           NEW k, WaitsOn(ks[c], m.what, k), k # None, NEW all, all = [ks EXCEPT ![c] = k],
           NEW pg2, Reads(pg, m, ks[c], pg2)
    PROVE  Sound(pg2, all, rest)
<1>1. Midway(pg2, all, rest) /\ Loading(k) /\ k.goal # "detail"
    BY ArrivalKeeps
<1>2. all[c] = k
    BY DEF Midway, Typed
<1>3. PaintFollows(pg2, all) /\ DetailFollows(pg2, all, rest)
    BY <1>1, <1>2 DEF PaintFollows, DetailFollows
<1>4. QED
    BY <1>1, <1>3 DEF Sound, Midway

LEMMA LoadsLast ==
    ASSUME VaultTypes,
           NEW pg, NEW ks, NEW ml, Midway(pg, ks, ml), ml # <<>>, NEW rest, rest = Tail(ml),
           NEW m, m = Head(ml), NEW c \in Chores, m.to = c, ks[c].awaited = {m.what},
           NEW k \in ChoreRecords, k.at = "loading", k.goal # "detail",
           NEW all, all = [ks EXCEPT ![c] = k],
           NEW pg2, Reads(pg, m, ks[c], pg2)
    PROVE  Sound(Loaded(pg2, all, c).page, Loaded(pg2, all, c).chores, rest)
<1>1. PICK ks2 : ks2 = [ks EXCEPT ![c] = None]
    OBVIOUS
<1>2. WaitsOn(ks[c], m.what, None)
    BY DEF WaitsOn
<1>3. Midway(pg2, ks2, rest)
    BY <1>1, <1>2, ArrivalKeeps
<1>4. DOMAIN ks = Chores
    BY DEF Midway, Typed
<1>5. ks2 = [all EXCEPT ![c] = None] /\ DOMAIN all = Chores /\ all[c] = k
    BY <1>1, <1>4
<1>6. QED
    BY <1>3, <1>5, LoadedFollows

(* The bookmark of the detail pane.                                        *)
LEMMA ItemArrives ==
    ASSUME VaultTypes,
           NEW pg, NEW ks, NEW ml, Sound(pg, ks, ml), ~pg.locked,
           ml # <<>>, NEW rest, rest = Tail(ml),
           NEW m, m = Head(ml), NEW c \in Chores, m.to = c, m.what = "item",
           NEW left, left = [ks[c] EXCEPT !.awaited = @ \ {m.what}],
           NEW all, all = [ks EXCEPT ![c] = left],
           NEW pg2, pg2 = WithItem(pg, Asked(left), m.body)
    PROVE  Sound(Painted(pg2, all, c).page, Painted(pg2, all, c).chores, rest)
<1>1. /\ Midway(pg, ks, ml) /\ PaintFollows(pg, ks) /\ DetailFollows(pg, ks, ml)
      /\ Typed(pg, ks, ml) /\ LettersAwaited(ks, ml) /\ ItemsAreFresh(pg, ks, ml)
      /\ ml \in Seq(Letters) /\ pg \in PageRecords /\ c # None
    BY ManagerAssumption DEF Sound, Midway, Typed, ManagerAssumption
<1>2. /\ 1 \in DOMAIN ml /\ ml[1] = m
      /\ \A i \in DOMAIN ml : i # 1 => i - 1 \in DOMAIN rest /\ rest[i - 1] = ml[i]
    BY <1>1, RestOfTheMail
<1>3. ks[c] # None /\ m.what \in ks[c].awaited /\ m.what \notin ks[c].unserved
    BY <1>1, <1>2 DEF LettersAwaited
<1>4. ks[c] \in ChoreRecords /\ ChoreFits(ks[c]) /\ DOMAIN ks = Chores
    BY <1>1, <1>3 DEF Typed
<1>5. ks[c].at = "item" /\ ks[c].awaited = {m.what} /\ Asked(ks[c]) \in Rows
    BY <1>3, <1>4 DEF ChoreFits, ChoreRecords
<1>6. left \in ChoreRecords /\ left.goal = ks[c].goal /\ left.ids = ks[c].ids /\ left.place = ks[c].place
    BY <1>4 DEF ChoreRecords
<1>7. Asked(left) = Asked(ks[c])
    BY <1>6 DEF Asked
<1>8. m.body \in Items \cup {None}
  <2>1. m \in Letters
      BY <1>1, <1>2, EveryLetter
  <2>2. QED
      BY <2>1, LetterFacts
<1>9. /\ pg2 \in PageRecords /\ pg2.place = pg.place /\ pg2.query = pg.query /\ pg2.rows = pg.rows
      /\ pg2.lost = pg.lost /\ pg2.locked = pg.locked /\ pg2.tree = pg.tree
      /\ pg2.shown = pg.shown /\ pg2.selection = pg.selection
      /\ pg2.detail = IF m.body = None \/ Sole(pg) # Asked(ks[c]) THEN pg.detail ELSE m.body
  <2>1. CASE m.body = None \/ Sole(pg) # Asked(ks[c])
      BY <1>1, <1>7, <2>1 DEF WithItem
  <2>2. CASE ~(m.body = None \/ Sole(pg) # Asked(ks[c]))
    <3>1. pg2 = [pg EXCEPT !.detail = m.body]
        BY <1>7, <2>2 DEF WithItem
    <3>2. QED
        BY <1>1, <1>8, <2>2, <3>1 DEF PageRecords
  <2>3. QED
      BY <2>1, <2>2
<1>10. Sole(pg2) = Sole(pg)
    BY <1>9, SameSole
<1>11. PICK ks2 : ks2 = [ks EXCEPT ![c] = None]
    OBVIOUS
<1>12. /\ Midway(pg2, ks2, rest)
       /\ \A i \in DOMAIN ml : i # 1 => ml[i].to # c
  <2>1. Reads(pg, m, ks[c], pg2)
      BY <1>9 DEF Reads
  <2>2. PICK k : k = None
      OBVIOUS
  <2>3. ks2 = [ks EXCEPT ![c] = k]
      BY <1>11, <2>2
  <2>4. WaitsOn(ks[c], m.what, k)
      BY <1>5, <2>2 DEF WaitsOn
  <2>5. /\ Midway(pg2, ks2, rest)
        /\ \A i \in DOMAIN ml : ml[i].to = c /\ i # 1 => k # None
      BY <1>1, <2>1, <2>3, <2>4, ArrivalKeeps
  <2>6. QED
      BY <2>2, <2>5
<1>13. ks2 = [all EXCEPT ![c] = None] /\ DOMAIN all = Chores /\ all[c] = left
    BY <1>4, <1>11
<1>14. \A d \in Chores : d # c => ks2[d] = ks[d]
    BY <1>4, <1>11
<1>15. ASSUME left.goal = "detail"
       PROVE  PaintFollows(pg2, ks2)
    BY <1>1, <1>6, <1>9, <1>14, <1>15 DEF PaintFollows
<1>16. ASSUME left.goal # "reselect"
       PROVE  DetailFollows(pg2, ks2, rest)
  <2>1. ASSUME Told(ml) PROVE Told(rest)
    <3>1. PICK i \in DOMAIN ml : ml[i].to = None
        BY <2>1 DEF Told
    <3>2. i # 1
        BY <1>1, <1>2, <3>1
    <3>3. QED
        BY <1>2, <3>1, <3>2 DEF Told
  <2>2. CASE pg.lost \/ Told(ml)
      BY <1>9, <2>1, <2>2 DEF DetailFollows
  <2>3. ASSUME NEW d \in Chores, Loading(ks[d]) \/ (AtItem(ks[d]) /\ ks[d].goal = "reselect")
        PROVE  DetailFollows(pg2, ks2, rest)
    <3>1. d # c
        BY <1>5, <1>6, <1>16, <2>3 DEF Loading
    <3>2. ks2[d] = ks[d]
        BY <1>14, <3>1
    <3>3. QED
        BY <2>3, <3>2 DEF DetailFollows
  <2>4. CASE \E d \in Chores : AtItem(ks[d]) /\ Asked(ks[d]) = Sole(pg) /\ Brings(ks, ml, d, GetItem(Sole(pg)))
    <3>1. PICK d \in Chores : AtItem(ks[d]) /\ Asked(ks[d]) = Sole(pg) /\ Brings(ks, ml, d, GetItem(Sole(pg)))
        BY <2>4
    <3>2. CASE d = c
      <4>1. PICK i \in DOMAIN ml : ml[i].to = c /\ ml[i].body = GetItem(Sole(pg)) /\ GetItem(Sole(pg)) # None
          BY <1>3, <3>1, <3>2 DEF Brings
      <4>2. i = 1
          BY <1>12, <4>1
      <4>3. m.body = GetItem(Sole(pg)) /\ m.body # None
          BY <1>2, <4>1, <4>2
      <4>4. pg2.detail = GetItem(Sole(pg2))
          BY <1>9, <1>10, <3>1, <3>2, <4>3
      <4>5. Sole(pg2) # None
          BY <1>5, <1>10, <3>1, <3>2, ManagerAssumption DEF ManagerAssumption
      <4>6. QED
          BY <4>4, <4>5 DEF DetailFollows
    <3>3. CASE d # c
      <4>1. ks2[d] = ks[d]
          BY <1>14, <3>3
      <4>2. Brings(ks2, rest, d, GetItem(Sole(pg2)))
        <5>1. CASE "item" \in ks[d].unserved
            BY <4>1, <5>1 DEF Brings
        <5>2. CASE \E i \in DOMAIN ml : ml[i].to = d /\ ml[i].body = GetItem(Sole(pg)) /\ GetItem(Sole(pg)) # None
          <6>1. PICK i \in DOMAIN ml : ml[i].to = d /\ ml[i].body = GetItem(Sole(pg)) /\ GetItem(Sole(pg)) # None
              BY <5>2
          <6>2. i # 1
              BY <1>2, <3>3, <6>1
          <6>3. i - 1 \in DOMAIN rest /\ rest[i - 1] = ml[i]
              BY <1>2, <6>2
          <6>4. QED
              BY <1>10, <6>1, <6>3 DEF Brings
        <5>3. QED
            BY <3>1, <5>1, <5>2 DEF Brings
      <4>3. QED
          BY <1>10, <3>1, <4>1, <4>2 DEF DetailFollows
    <3>4. QED
        BY <3>2, <3>3
  <2>5. CASE pg.detail = IF Sole(pg) = None THEN None ELSE GetItem(Sole(pg))
    <3>1. CASE m.body = None \/ Sole(pg) # Asked(ks[c])
      <4>1. pg2.detail = pg.detail
          BY <1>9, <3>1
      <4>2. QED
          BY <1>10, <2>5, <4>1 DEF DetailFollows
    <3>2. CASE m.body # None /\ Sole(pg) = Asked(ks[c])
      <4>1. pg2.detail = m.body
          BY <1>9, <3>2
      <4>2. Sole(pg2) # None
          BY <1>5, <1>10, <3>2, ManagerAssumption DEF ManagerAssumption
      <4>3. pg.lost \/ m.body = GetItem(Asked(ks[c])) \/ Superseded(ks, ml, 1)
          BY <1>1, <1>2, <3>2 DEF ItemsAreFresh
      <4>4. CASE m.body = GetItem(Asked(ks[c]))
          BY <1>10, <3>2, <4>1, <4>2, <4>4 DEF DetailFollows
      <4>5. CASE \E j \in DOMAIN ml : j > 1 /\ (ml[j].to = None \/ Loading(ks[ml[j].to]))
        <5>1. PICK j \in DOMAIN ml : j > 1 /\ (ml[j].to = None \/ Loading(ks[ml[j].to]))
            BY <4>5
        <5>2. CASE ml[j].to = None
          <6>1. Told(ml)
              BY <5>2 DEF Told
          <6>2. QED
              BY <2>2, <6>1
        <5>3. CASE ml[j].to # None
          <6>1. ml[j].to \in Chores
              BY <1>1, <5>3, EveryLetter
          <6>2. QED
              BY <2>3, <5>1, <5>3, <6>1
        <5>4. QED
            BY <5>2, <5>3
      <4>6. CASE \E d \in Chores : Loading(ks[d]) /\ ks[d].unserved # {}
          BY <2>3, <4>6
      <4>7. QED
          BY <2>2, <4>3, <4>4, <4>5, <4>6 DEF Superseded
    <3>3. QED
        BY <3>1, <3>2
  <2>6. CASE \E d \in Chores : Loading(ks[d]) \/ (AtItem(ks[d]) /\ ks[d].goal = "reselect")
      BY <2>3, <2>6
  <2>7. QED
      BY <1>1, <2>2, <2>4, <2>5, <2>6 DEF DetailFollows
<1>17. all[c] \in ChoreRecords /\ all[c].goal = left.goal
    BY <1>6, <1>13
<1>18. QED
    BY <1>12, <1>13, <1>15, <1>16, <1>17, PaintedFollows

(* The answer of a change: the page reloads, or it says what failed.        *)
LEMMA ChangeArrives ==
    ASSUME VaultTypes,
           NEW pg, NEW ks, NEW ml, Sound(pg, ks, ml), ~pg.locked,
           ml # <<>>, NEW rest, rest = Tail(ml),
           NEW m, m = Head(ml), NEW c \in Chores, m.to = c, m.what = "change",
           NEW none, none = [ks EXCEPT ![c] = None]
    PROVE  /\ Sound(pg, none, rest)
           /\ \A pg2 \in PageRecords, k \in ChoreRecords :
                /\ ~pg2.locked /\ ChoreFits(k) /\ Loading(k) /\ IsLatest(k) /\ k.goal # "detail"
                /\ k.place = pg2.place /\ k.query = pg2.query /\ k.unserved = {"tree", "view"}
                => Sound(pg2, Latest(ks, c, k), rest)
<1>1. /\ Midway(pg, ks, ml) /\ PaintFollows(pg, ks) /\ DetailFollows(pg, ks, ml)
      /\ Typed(pg, ks, ml) /\ LettersAwaited(ks, ml)
      /\ ml \in Seq(Letters) /\ pg \in PageRecords /\ c # None
    BY ManagerAssumption DEF Sound, Midway, Typed, ManagerAssumption
<1>2. /\ 1 \in DOMAIN ml /\ ml[1] = m
      /\ \A i \in DOMAIN ml : i # 1 => i - 1 \in DOMAIN rest /\ rest[i - 1] = ml[i]
    BY <1>1, RestOfTheMail
<1>3. ks[c] # None /\ m.what \in ks[c].awaited
    BY <1>1, <1>2 DEF LettersAwaited
<1>4. ks[c] \in ChoreRecords /\ ChoreFits(ks[c]) /\ ks \in [Chores -> ChoreRecords \cup {None}]
    BY <1>1, <1>3 DEF Typed
<1>5. ks[c].at = "change" /\ ks[c].awaited = {m.what}
    BY <1>3, <1>4 DEF ChoreFits, ChoreRecords
<1>6. Midway(pg, none, rest)
  <2>1. Reads(pg, m, ks[c], pg)
    <3>1. m.what # "tree" /\ m.what # "view"
        OBVIOUS
    <3>2. QED
        BY <1>1, <3>1 DEF Reads
  <2>2. WaitsOn(ks[c], m.what, None)
      BY <1>5 DEF WaitsOn
  <2>3. QED
      BY <1>1, <2>1, <2>2, ArrivalKeeps
<1>7. \A i \in DOMAIN ml : i # 1 => ml[i].to # c
  <2>1. ASSUME NEW i \in DOMAIN ml, i # 1, ml[i].to = c
        PROVE  FALSE
    <3>1. ml[i].what = m.what
        BY <1>1, <1>5, <2>1 DEF LettersAwaited
    <3>2. QED
        BY <1>1, <1>2, <2>1, <3>1 DEF LettersAwaited
  <2>2. QED
      BY <2>1
<1>8. none[c] = None /\ \A d \in Chores : d # c => none[d] = ks[d]
    BY <1>4
<1>9. \A d \in Chores : Loading(ks[d]) \/ AtItem(ks[d]) => none[d] = ks[d]
    BY <1>5, <1>8 DEF Loading, AtItem
<1>10. PaintFollows(pg, none)
    BY <1>1, <1>9 DEF PaintFollows
<1>11. DetailFollows(pg, none, rest)
  <2>1. ASSUME Told(ml) PROVE Told(rest)
    <3>1. PICK i \in DOMAIN ml : ml[i].to = None
        BY <2>1 DEF Told
    <3>2. i # 1
        BY <1>1, <1>2, <3>1
    <3>3. QED
        BY <1>2, <3>1, <3>2 DEF Told
  <2>2. CASE pg.lost \/ Told(ml)
      BY <2>1, <2>2 DEF DetailFollows
  <2>3. CASE \E d \in Chores : Loading(ks[d]) \/ (AtItem(ks[d]) /\ ks[d].goal = "reselect")
      BY <1>9, <2>3 DEF DetailFollows
  <2>4. CASE \E d \in Chores : AtItem(ks[d]) /\ Asked(ks[d]) = Sole(pg) /\ Brings(ks, ml, d, GetItem(Sole(pg)))
    <3>1. PICK d \in Chores : AtItem(ks[d]) /\ Asked(ks[d]) = Sole(pg) /\ Brings(ks, ml, d, GetItem(Sole(pg)))
        BY <2>4
    <3>2. none[d] = ks[d] /\ d # c
        BY <1>5, <1>9, <3>1 DEF AtItem
    <3>3. Brings(none, rest, d, GetItem(Sole(pg)))
      <4>1. CASE "item" \in ks[d].unserved
          BY <3>2, <4>1 DEF Brings
      <4>2. CASE \E i \in DOMAIN ml : ml[i].to = d /\ ml[i].body = GetItem(Sole(pg)) /\ GetItem(Sole(pg)) # None
        <5>1. PICK i \in DOMAIN ml : ml[i].to = d /\ ml[i].body = GetItem(Sole(pg)) /\ GetItem(Sole(pg)) # None
            BY <4>2
        <5>2. i # 1
            BY <1>2, <3>2, <5>1
        <5>3. i - 1 \in DOMAIN rest /\ rest[i - 1] = ml[i]
            BY <1>2, <5>2
        <5>4. QED
            BY <5>1, <5>3 DEF Brings
      <4>3. QED
          BY <3>1, <4>1, <4>2 DEF Brings
    <3>4. QED
        BY <3>1, <3>2, <3>3 DEF DetailFollows
  <2>5. CASE pg.detail = IF Sole(pg) = None THEN None ELSE GetItem(Sole(pg))
      BY <2>5 DEF DetailFollows
  <2>6. QED
      BY <1>1, <2>2, <2>3, <2>4, <2>5 DEF DetailFollows
<1>12. Sound(pg, none, rest)
    BY <1>6, <1>10, <1>11 DEF Sound, Midway
<1>13. ASSUME NEW pg2 \in PageRecords, NEW k \in ChoreRecords,
              ~pg2.locked, ChoreFits(k), Loading(k), IsLatest(k), k.goal # "detail",
              k.place = pg2.place, k.query = pg2.query, k.unserved = {"tree", "view"}
       PROVE  Sound(pg2, Latest(ks, c, k), rest)
  <2>1. Typed(pg2, none, rest) /\ LettersAwaited(none, rest)
      BY <1>6 DEF Midway, Typed
  <2>2. Latest(ks, c, k) = Latest(none, c, k)
    <3>1. ASSUME NEW d \in Chores
          PROVE  (IF d = c THEN k
                  ELSE IF ks[d] # None /\ k.latest THEN [ks[d] EXCEPT !.latest = FALSE]
                  ELSE ks[d])
                 = (IF d = c THEN k
                    ELSE IF none[d] # None /\ k.latest THEN [none[d] EXCEPT !.latest = FALSE]
                    ELSE none[d])
        BY <1>8
    <3>2. QED
        BY <3>1 DEF Latest
  <2>3. "view" \in k.unserved /\ "tree" \in k.unserved
      BY <1>13
  <2>4. PICK all : all = Latest(none, c, k)
      OBVIOUS
  <2>5. Sound(pg2, all, rest)
      BY <1>8, <1>13, <2>1, <2>3, <2>4, ReloadStarts, ZenonT(30)
  <2>6. QED
      BY <2>2, <2>4, <2>5
<1>14. QED
    BY <1>12, <1>13

SameButLost(pg, pg2) ==
    /\ pg2 \in PageRecords /\ pg2.place = pg.place /\ pg2.query = pg.query
    /\ pg2.rows = pg.rows /\ pg2.tree = pg.tree /\ pg2.locked = pg.locked
    /\ pg2.shown = pg.shown /\ pg2.selection = pg.selection /\ pg2.detail = pg.detail

LEMMA Mended ==
    ASSUME NEW pg \in PageRecords, NEW k
    PROVE  /\ SameButLost(pg, Mending(pg, k))
           /\ k.unserved # {"tree", "view"} => Mending(pg, k) = pg
<1>1. CASE k.unserved = {"tree", "view"}
  <2>1. Mending(pg, k) = [pg EXCEPT !.lost = FALSE]
      BY <1>1 DEF Mending
  <2>2. QED
      BY <1>1, <2>1 DEF PageRecords, SameButLost
<1>2. CASE k.unserved # {"tree", "view"}
    BY <1>2 DEF Mending, SameButLost
<1>3. QED
    BY <1>1, <1>2

LEMMA LetterArrives ==
    ASSUME VaultTypes, Sound(page, chores, mail), ~page.locked, mail # <<>>,
           NEW m, m = Head(mail), m.to # None, NEW rest, rest = Tail(mail),
           NEW r, r = Arrived(m.to, m.what, m.body)
    PROVE  Sound(r.page, r.chores, rest)
<1>1. /\ Midway(page, chores, mail) /\ Typed(page, chores, mail) /\ LettersAwaited(chores, mail)
      /\ mail \in Seq(Letters) /\ page \in PageRecords
    BY DEF Sound, Midway, Typed
<1>2. 1 \in DOMAIN mail /\ mail[1] = m
    BY <1>1, RestOfTheMail
<1>3. m \in Letters
    BY <1>1, <1>2, EveryLetter
<1>4. m.to \in Chores /\ m.what \in {"view", "tree", "item", "change"}
    BY <1>3, LetterFacts DEF Kinds
<1>5. PICK c \in Chores : m.to = c
    BY <1>4
<1>6. chores[c] # None /\ m.what \in chores[c].awaited
    BY <1>1, <1>2, <1>5 DEF LettersAwaited
<1>7. chores[c] \in ChoreRecords /\ ChoreFits(chores[c]) /\ DOMAIN chores = Chores
    BY <1>1, <1>6 DEF Typed
<1>8. PICK left : left = [chores[c] EXCEPT !.awaited = @ \ {m.what}]
    OBVIOUS
<1>9. /\ left \in ChoreRecords /\ left.at = chores[c].at /\ left.latest = chores[c].latest
      /\ left.goal = chores[c].goal /\ left.ids = chores[c].ids
      /\ left.awaited = chores[c].awaited \ {m.what}
    BY <1>7, <1>8 DEF ChoreRecords
<1>10. PICK all : all = [chores EXCEPT ![c] = left]
    OBVIOUS
<1>11. ASSUME m.what \in {"view", "tree"}, NEW pg2, Reads(page, m, chores[c], pg2),
              r = IF left.awaited = {} THEN Loaded(pg2, all, c) ELSE [page |-> pg2, chores |-> all]
       PROVE  Sound(r.page, r.chores, rest)
  <2>1. left.at = "loading" /\ left.goal # "detail"
      BY <1>6, <1>7, <1>9, <1>11 DEF ChoreFits, ChoreRecords
  <2>2. CASE left.awaited = {}
    <3>1. chores[c].awaited = {m.what}
        BY <1>6, <1>9, <2>2
    <3>2. Sound(Loaded(pg2, all, c).page, Loaded(pg2, all, c).chores, rest)
        BY <1>1, <1>5, <1>9, <1>10, <1>11, <2>1, <3>1, LoadsLast
    <3>3. r = Loaded(pg2, all, c)
        BY <1>11, <2>2
    <3>4. QED
        BY <3>2, <3>3
  <2>3. CASE left.awaited # {}
    <3>1. chores[c].awaited # {m.what} /\ left # None
        BY <1>9, <2>3, ChoresAreThere
    <3>2. WaitsOn(chores[c], m.what, left)
        BY <1>8, <3>1 DEF WaitsOn
    <3>3. Sound(pg2, all, rest)
        BY <1>1, <1>5, <1>10, <1>11, <3>1, <3>2, LoadsOn
    <3>4. r.page = pg2 /\ r.chores = all
        BY <1>11, <2>3
    <3>5. QED
        BY <3>3, <3>4
  <2>4. QED
      BY <2>2, <2>3
<1>12. CASE m.what = "view"
  <2>1. PICK pg2 : pg2 = WithView(page, left, m.body)
      OBVIOUS
  <2>2. m.body \in Seq(Rows) \cup {None}
      BY <1>3, <1>12, LetterFacts
  <2>3. Reads(page, m, chores[c], pg2)
      BY <1>1, <1>9, <1>12, <2>1, <2>2, ViewWritten DEF Reads
  <2>4. r = IF left.awaited = {} THEN Loaded(pg2, all, c) ELSE [page |-> pg2, chores |-> all]
      BY <1>5, <1>8, <1>10, <1>12, <2>1 DEF Arrived
  <2>5. QED
      BY <1>11, <1>12, <2>3, <2>4
<1>13. CASE m.what = "tree"
  <2>1. PICK pg2 : pg2 = WithTree(page, m.body)
      OBVIOUS
  <2>2. m.body \in [Places -> Nat] \cup {None}
      BY <1>3, <1>13, LetterFacts
  <2>3. pg2 = [page EXCEPT !.tree = m.body]
      BY <2>1 DEF WithTree
  <2>4. Reads(page, m, chores[c], pg2)
      BY <1>1, <1>13, <2>2, <2>3 DEF Reads, PageRecords
  <2>5. r = IF left.awaited = {} THEN Loaded(pg2, all, c) ELSE [page |-> pg2, chores |-> all]
      BY <1>5, <1>8, <1>10, <1>13, <2>1 DEF Arrived
  <2>6. QED
      BY <1>11, <1>13, <2>4, <2>5
<1>14. CASE m.what = "item"
  <2>1. PICK pg2 : pg2 = WithItem(page, Asked(left), m.body)
      OBVIOUS
  <2>2. Sound(Painted(pg2, all, c).page, Painted(pg2, all, c).chores, rest)
      BY <1>1, <1>5, <1>8, <1>10, <1>14, <2>1, ItemArrives
  <2>3. r = Painted(pg2, all, c)
      BY <1>5, <1>8, <1>10, <1>14, <2>1 DEF Arrived
  <2>4. QED
      BY <2>2, <2>3
<1>15. CASE m.what = "change"
  <2>1. chores[c].at = "change" /\ chores[c].goal # "detail"
      BY <1>6, <1>7, <1>15 DEF ChoreFits, ChoreRecords
  <2>2. PICK none : none = [chores EXCEPT ![c] = None]
      OBVIOUS
  <2>3. /\ Sound(page, none, rest)
        /\ \A pg2 \in PageRecords, k \in ChoreRecords :
             /\ ~pg2.locked /\ ChoreFits(k) /\ Loading(k) /\ IsLatest(k) /\ k.goal # "detail"
             /\ k.place = pg2.place /\ k.query = pg2.query /\ k.unserved = {"tree", "view"}
             => Sound(pg2, Latest(chores, c, k), rest)
      BY <1>5, <1>15, <2>2, ChangeArrives
  <2>4. CASE m.body = None /\ left.goal # "show"
    <3>1. r.page = page /\ r.chores = none
        BY <1>5, <1>8, <1>15, <2>2, <2>4 DEF Arrived
    <3>2. QED
        BY <2>3, <3>1
  <2>5. CASE ~(m.body = None /\ left.goal # "show")
    <3>1. PICK pg1 : pg1 = IF m.body # None /\ left.goal = "toast" THEN [page EXCEPT !.selection = {}]
                           ELSE page
        OBVIOUS
    <3>2. pg1 \in PageRecords /\ pg1.locked = page.locked
        BY <1>1, <3>1 DEF PageRecords
    <3>3. PICK k : k = Reload(pg1.place, pg1.query, {"tree", "view"}, left.goal, left.ids)
        OBVIOUS
    <3>4. /\ k \in ChoreRecords /\ ChoreFits(k) /\ Loading(k) /\ IsLatest(k) /\ k.goal # "detail"
          /\ k.place = pg1.place /\ k.query = pg1.query /\ k.unserved = {"tree", "view"}
      <4>1. pg1.place \in Places /\ pg1.query \in Words \cup {None}
          BY <3>2 DEF PageRecords
      <4>2. left.goal \in {"show", "on success", "reselect", "toast"} /\ left.ids \in Seq(Rows)
          BY <1>9, <2>1 DEF ChoreRecords
      <4>3. PICK what \in SUBSET {"tree", "view"} : what = {"tree", "view"}
          OBVIOUS
      <4>4. ReloadOf(pg1.place, pg1.query, what, Reload(pg1.place, pg1.query, what, left.goal, left.ids))
          BY <4>1, <4>2, <4>3, ReloadIsAChore
      <4>5. ReloadOf(pg1.place, pg1.query, {"tree", "view"}, k)
          BY <3>3, <4>3, <4>4
      <4>6. QED
          BY <4>5 DEF ReloadOf
    <3>5. PICK pg2 : pg2 = Mending(pg1, k)
        OBVIOUS
    <3>6. pg2 \in PageRecords /\ pg2.place = pg1.place /\ pg2.query = pg1.query /\ ~pg2.locked
      <4>1. SameButLost(pg1, pg2)
          BY <3>2, <3>5, Mended
      <4>2. QED
          BY <3>2, <4>1 DEF SameButLost
    <3>7. Sound(pg2, Latest(chores, c, k), rest)
        BY <2>3, <3>4, <3>6
    <3>8. r.page = pg2 /\ r.chores = Latest(chores, c, k)
        BY <1>5, <1>8, <1>15, <2>5, <3>1, <3>3, <3>5 DEF Arrived
    <3>9. QED
        BY <3>7, <3>8
  <2>6. QED
      BY <2>4, <2>5
<1>16. QED
    BY <1>4, <1>12, <1>13, <1>14, <1>15

-----------------------------------------------------------------------------
(* Steps that leave the vault alone                                        *)

LEMMA SoundCarries ==
    ASSUME VaultTypes, UNCHANGED <<filed, gone, says>>,
           NEW pg, NEW ks, NEW ml, Sound(pg, ks, ml),
           page' = pg, chores' = ks, mail' = ml
    PROVE  ManagerInv'
<1>1. filed' = filed /\ gone' = gone /\ says' = says
    OBVIOUS
<1>2. VaultTypes'
    BY <1>1 DEF VaultTypes
<1>3. Typed(page, chores, mail)' <=> Typed(pg, ks, ml)
    BY DEF Typed
<1>4. LatestIsOfThePage(page, chores)' <=> LatestIsOfThePage(pg, ks)
    BY DEF LatestIsOfThePage
<1>5. LettersAwaited(chores, mail)' <=> LettersAwaited(ks, ml)
    BY DEF LettersAwaited
<1>6. Tree' = Tree
    BY <1>1 DEF Tree, Alive, AllRows
<1>7. TreeFollows(page, chores, mail)' <=> TreeFollows(pg, ks, ml)
    BY <1>6 DEF TreeFollows, Told, Unserved
<1>8. ListView(page.place, page.query)' = ListView(pg.place, pg.query)
    BY <1>1 DEF ListView, Alive, AllRows
<1>9. ViewFollows(page, chores, mail)' <=> ViewFollows(pg, ks, ml)
    BY <1>8 DEF ViewFollows, Told, IsLatest
<1>10. ItemsAreFresh(page, chores, mail)' <=> ItemsAreFresh(pg, ks, ml)
    BY <1>1 DEF ItemsAreFresh, Superseded, GetItem, AllRows
<1>11. PaintFollows(page, chores)' <=> PaintFollows(pg, ks)
    BY DEF PaintFollows
<1>12. DetailFollows(page, chores, mail)' <=> DetailFollows(pg, ks, ml)
    BY <1>1 DEF DetailFollows, Told, Brings, GetItem, AllRows
<1>13. Sound(page, chores, mail)'
    BY <1>3, <1>4, <1>5, <1>7, <1>9, <1>10, <1>11, <1>12 DEF Sound, Midway
<1>14. QED
    BY <1>2, <1>13 DEF ManagerInv

(* A change of the vault is asked for.                                     *)
LEMMA ChangeBegins ==
    ASSUME ManagerInv, ~page.locked, UNCHANGED <<filed, gone, says, mail>>,
           NEW pg, SameButLost(page, pg), pg.lost = page.lost,
           NEW change \in Changes, NEW goal \in {"show", "on success", "reselect", "toast"},
           NEW ids \in Seq(Rows), Begin(pg, Change(change, goal, ids))
    PROVE  ManagerInv'
<1>1. VaultTypes /\ Sound(page, chores, mail)
    BY DEF ManagerInv
<1>2. PICK k : k = Change(change, goal, ids)
    OBVIOUS
<1>3. /\ k \in ChoreRecords /\ ChoreFits(k) /\ k # None
      /\ ~Loading(k) /\ ~AtItem(k) /\ ~IsLatest(k) /\ k.unserved = {"change"}
    BY <1>2, ChangeIsAChore
<1>4. PICK c : c = OneOf(Free)
    OBVIOUS
<1>5. page' = Mending(pg, k) /\ chores' = Latest(chores, c, k) /\ Free # {}
    BY <1>2, <1>4 DEF Begin
<1>6. c \in Chores /\ chores[c] = None
    BY <1>4, <1>5 DEF OneOf, Free
<1>7. page' = pg
    BY <1>3, <1>5 DEF Mending
<1>8. chores \in [Chores -> ChoreRecords \cup {None}]
    BY <1>1 DEF Sound, Typed
<1>9. chores' = [chores EXCEPT ![c] = k]
  <2>1. ~k.latest
      BY <1>3 DEF IsLatest
  <2>2. QED
      BY <1>5, <1>8, <2>1 DEF Latest
<1>10. Sound(pg, chores, mail)
    BY <1>1, PageAloneKeeps DEF SameButLost
<1>11. Midway(pg, chores, mail) /\ PaintFollows(pg, chores) /\ DetailFollows(pg, chores, mail)
  <2>1. ~pg.locked
      BY DEF SameButLost
  <2>2. QED
      BY <1>10, <2>1 DEF Sound
<1>12. PICK all : all = chores'
    OBVIOUS
<1>13. Midway(pg, all, mail) /\ PaintFollows(pg, all) /\ DetailFollows(pg, all, mail)
    BY <1>3, <1>6, <1>9, <1>11, <1>12, JoinKeeps
<1>14. Sound(pg, all, mail)
    BY <1>13 DEF Sound, Midway
<1>15. QED
    BY <1>1, <1>7, <1>12, <1>14, SoundCarries

(* A reload is asked for, in a turn of the user's or on news.               *)
LEMMA ReloadBegins ==
    ASSUME VaultTypes, UNCHANGED <<filed, gone, says>>,
           NEW ml, mail' = ml, NEW pg \in PageRecords, ~pg.locked,
           Typed(pg, chores, ml), LettersAwaited(chores, ml),
           NEW what \in SUBSET {"tree", "view"}, "view" \in what,
           "tree" \in what \/ TreeFollows(pg, chores, ml),
           Begin(pg, Reload(pg.place, pg.query, what, "show", <<>>))
    PROVE  ManagerInv'
<1>1. PICK k : k = Reload(pg.place, pg.query, what, "show", <<>>)
    OBVIOUS
<1>2. ReloadOf(pg.place, pg.query, what, k)
  <2>1. pg.place \in Places /\ pg.query \in Words \cup {None} /\ <<>> \in Seq(Rows)
      BY DEF PageRecords
  <2>2. QED
      BY <1>1, <2>1, ReloadIsAChore
<1>3. PICK c : c = OneOf(Free)
    OBVIOUS
<1>4. page' = Mending(pg, k) /\ chores' = Latest(chores, c, k) /\ Free # {}
    BY <1>1, <1>3 DEF Begin
<1>5. c \in Chores /\ chores[c] = None
    BY <1>3, <1>4 DEF OneOf, Free
<1>6. PICK pg2 : pg2 = Mending(pg, k)
    OBVIOUS
<1>7. SameButLost(pg, pg2) /\ (k.unserved # {"tree", "view"} => pg2 = pg)
    BY <1>6, Mended
<1>8. /\ k \in ChoreRecords /\ ChoreFits(k) /\ Loading(k) /\ IsLatest(k) /\ k.goal # "detail"
      /\ k.place = pg2.place /\ k.query = pg2.query /\ k.unserved = what
    BY <1>2, <1>7 DEF ReloadOf, SameButLost
<1>9. pg2 \in PageRecords /\ ~pg2.locked
    BY <1>7 DEF SameButLost
<1>10. Typed(pg2, chores, ml)
    BY <1>9 DEF Typed
<1>11. "tree" \in k.unserved \/ TreeFollows(pg2, chores, ml)
  <2>1. CASE "tree" \in what
      BY <1>8, <2>1
  <2>2. CASE "tree" \notin what
    <3>1. pg2 = pg
        BY <1>7, <1>8, <2>2
    <3>2. QED
        BY <2>2, <3>1
  <2>3. QED
      BY <2>1, <2>2
<1>12. PICK all : all = Latest(chores, c, k)
    OBVIOUS
<1>13. "view" \in k.unserved
    BY <1>8
<1>14. Sound(pg2, all, ml)
    BY <1>5, <1>8, <1>9, <1>10, <1>11, <1>12, <1>13, ReloadStarts, ZenonT(30)
<1>15. page' = pg2 /\ chores' = all
    BY <1>4, <1>6, <1>12
<1>16. QED
    BY <1>14, <1>15, SoundCarries

-----------------------------------------------------------------------------
(* The page                                                                *)

LEMMA InvOpen ==
    ASSUME ManagerInv
    PROVE  /\ VaultTypes /\ Sound(page, chores, mail) /\ Typed(page, chores, mail)
           /\ page \in PageRecords /\ chores \in [Chores -> ChoreRecords \cup {None}]
           /\ mail \in Seq(Letters)
           /\ ~page.locked => /\ Midway(page, chores, mail) /\ PaintFollows(page, chores)
                              /\ DetailFollows(page, chores, mail)
                              /\ LettersAwaited(chores, mail) /\ TreeFollows(page, chores, mail)
BY DEF ManagerInv, Sound, Midway, Typed

LEMMA PageAlone ==
    ASSUME ManagerInv, UNCHANGED <<filed, gone, says, mail, chores>>,
           NEW pg, SameButLost(page, pg), pg.lost = page.lost, page' = pg
    PROVE  ManagerInv'
<1>1. VaultTypes /\ Sound(page, chores, mail)
    BY InvOpen
<1>2. Sound(pg, chores, mail)
    BY <1>1, PageAloneKeeps DEF SameButLost
<1>3. QED
    BY <1>1, <1>2, SoundCarries

LEMMA PageAloneSteps ==
    ASSUME ManagerInv, Types \/ Drag \/ Asks \/ Cancels
    PROVE  ManagerInv'
<1>1. page \in PageRecords
    BY InvOpen
<1>2. PICK pg : pg = page'
    OBVIOUS
<1>3. CASE Types
  <2>1. PICK w \in Words \cup {None} : pg = [page EXCEPT !.box = w, !.settling = TRUE]
      BY <1>2, <1>3 DEF Types
  <2>2. SameButLost(page, pg) /\ pg.lost = page.lost
      BY <1>1, <2>1 DEF SameButLost, PageRecords
  <2>3. QED
      BY <1>2, <1>3, <2>2, PageAlone DEF Types, Gesture
<1>4. CASE Drag
  <2>1. pg = [page EXCEPT !.dragging = IF page.dragging = {} THEN page.selection ELSE {}]
      BY <1>1, <1>2, <1>4 DEF Drag, PageRecords
  <2>2. SameButLost(page, pg) /\ pg.lost = page.lost
      BY <1>1, <2>1 DEF SameButLost, PageRecords
  <2>3. QED
      BY <1>2, <1>4, <2>2, PageAlone DEF Drag
<1>5. CASE Asks
  <2>1. \/ pg = [page EXCEPT !.dialog = [for |-> "delete", ids |-> InOrder(page.selection)]]
        \/ pg = [page EXCEPT !.dialog = [for |-> "move", ids |-> <<>>]]
      BY <1>2, <1>5 DEF Asks
  <2>2. InOrder(page.selection) \in Seq(Rows) /\ <<>> \in Seq(Rows)
    <3>1. page.selection \in SUBSET Rows
        BY <1>1 DEF PageRecords
    <3>2. QED
        BY <1>1, <3>1, InOrderLists
  <2>3. PICK dialog \in [for : {"delete", "move"}, ids : Seq(Rows)] : pg = [page EXCEPT !.dialog = dialog]
      BY <2>1, <2>2
  <2>4. SameButLost(page, pg) /\ pg.lost = page.lost
      BY <1>1, <2>3 DEF SameButLost, PageRecords
  <2>5. QED
      BY <1>2, <1>5, <2>4, PageAlone DEF Asks
<1>6. CASE Cancels
  <2>1. pg = [page EXCEPT !.dialog = None]
      BY <1>2, <1>6 DEF Cancels
  <2>2. SameButLost(page, pg) /\ pg.lost = page.lost
      BY <1>1, <2>1 DEF SameButLost, PageRecords
  <2>3. QED
      BY <1>2, <1>6, <2>2, PageAlone DEF Cancels
<1>7. QED
    BY <1>3, <1>4, <1>5, <1>6

(* The page goes elsewhere.                                                *)
LEMMA GoToKeeps == ManagerInv /\ GoTo => ManagerInv'
<1> SUFFICES ASSUME ManagerInv, GoTo PROVE ManagerInv'
    OBVIOUS
<1>1. ~page.locked /\ UNCHANGED <<filed, gone, says>> /\ mail' = mail
    BY DEF GoTo, Gesture
<1>2. /\ VaultTypes /\ page \in PageRecords /\ Typed(page, chores, mail)
      /\ LettersAwaited(chores, mail)
    BY <1>1, InvOpen
<1>3. PICK p \in Places :
        Begin([page EXCEPT !.place = p, !.query = None, !.box = None, !.settling = FALSE,
                           !.selection = {}],
              Reload(p, None, {"tree", "view"}, "show", <<>>))
    BY DEF GoTo
<1>4. PICK pg : pg = [page EXCEPT !.place = p, !.query = None, !.box = None, !.settling = FALSE,
                                  !.selection = {}]
    OBVIOUS
<1>5. pg \in PageRecords /\ pg.place = p /\ pg.query = None /\ pg.locked = page.locked
    BY <1>2, <1>4 DEF PageRecords
<1>6. ~pg.locked
    BY <1>1, <1>5
<1>7. Typed(pg, chores, mail)
    BY <1>2, <1>5 DEF Typed
<1>8. PICK what \in SUBSET {"tree", "view"} : what = {"tree", "view"}
    OBVIOUS
<1>9. Begin(pg, Reload(pg.place, pg.query, what, "show", <<>>)) /\ "tree" \in what /\ "view" \in what
    BY <1>3, <1>4, <1>5, <1>8
<1>10. QED
    BY <1>1, <1>2, <1>5, <1>6, <1>7, <1>9, ReloadBegins

(* Another view of the place, the rest of the page as it is.               *)
LEMMA AnotherView ==
    ASSUME ManagerInv, ~page.locked, UNCHANGED <<filed, gone, says, mail>>,
           NEW pg \in PageRecords, pg.place = page.place, pg.tree = page.tree,
           pg.lost = page.lost, pg.locked = page.locked,
           Begin(pg, Reload(pg.place, pg.query, {"view"}, "show", <<>>))
    PROVE  ManagerInv'
<1>1. /\ VaultTypes /\ Typed(page, chores, mail)
      /\ LettersAwaited(chores, mail) /\ TreeFollows(page, chores, mail)
    BY InvOpen
<1>2. ~pg.locked
    OBVIOUS
<1>3. Typed(pg, chores, mail)
    BY <1>1 DEF Typed
<1>4. TreeFollows(pg, chores, mail)
    BY <1>1 DEF TreeFollows
<1>5. PICK what \in SUBSET {"tree", "view"} : what = {"view"}
    OBVIOUS
<1>6. "view" \in what /\ Begin(pg, Reload(pg.place, pg.query, what, "show", <<>>))
    BY <1>5
<1>7. QED
    BY <1>1, <1>2, <1>3, <1>4, <1>6, ReloadBegins

LEMMA SearchStepsKeep ==
    ASSUME ManagerInv, EscapesSearch \/ Settles
    PROVE  ManagerInv'
<1>1. ~page.locked /\ UNCHANGED <<filed, gone, says, mail>>
    BY DEF EscapesSearch, Settles, Gesture
<1>2. page \in PageRecords
    BY InvOpen
<1>3. CASE EscapesSearch
  <2>1. PICK pg : pg = [page EXCEPT !.box = None, !.settling = FALSE, !.query = None]
      OBVIOUS
  <2>2. /\ pg \in PageRecords /\ pg.place = page.place /\ pg.query = None /\ pg.tree = page.tree
        /\ pg.lost = page.lost /\ pg.locked = page.locked
      BY <1>2, <2>1 DEF PageRecords
  <2>3. Begin(pg, Reload(page.place, None, {"view"}, "show", <<>>))
      BY <1>3, <2>1 DEF EscapesSearch
  <2>4. Begin(pg, Reload(pg.place, pg.query, {"view"}, "show", <<>>))
      BY <2>2, <2>3
  <2>5. QED
      BY <1>1, <2>2, <2>4, AnotherView
<1>4. CASE Settles /\ page.box # page.query
  <2>1. PICK pg : pg = [page EXCEPT !.settling = FALSE, !.query = page.box, !.selection = {}]
      OBVIOUS
  <2>2. /\ pg \in PageRecords /\ pg.place = page.place /\ pg.query = page.box /\ pg.tree = page.tree
        /\ pg.lost = page.lost /\ pg.locked = page.locked
      BY <1>2, <2>1 DEF PageRecords
  <2>3. Begin(pg, Reload(page.place, page.box, {"view"}, "show", <<>>))
      BY <1>4, <2>1 DEF Settles
  <2>4. Begin(pg, Reload(pg.place, pg.query, {"view"}, "show", <<>>))
      BY <2>2, <2>3
  <2>5. QED
      BY <1>1, <2>2, <2>4, AnotherView
<1>5. CASE Settles /\ page.box = page.query
  <2>1. PICK pg : pg = page'
      OBVIOUS
  <2>2. pg = [page EXCEPT !.settling = FALSE] /\ chores' = chores
      BY <1>5, <2>1 DEF Settles
  <2>3. SameButLost(page, pg) /\ pg.lost = page.lost
      BY <1>2, <2>2 DEF SameButLost, PageRecords
  <2>4. QED
      BY <1>1, <2>1, <2>2, <2>3, PageAlone
<1>6. QED
    BY <1>3, <1>4, <1>5

LEMMA ClickKeeps == ManagerInv /\ Click => ManagerInv'
<1> SUFFICES ASSUME ManagerInv, Click PROVE ManagerInv'
    OBVIOUS
<1>1. ~page.locked /\ UNCHANGED <<filed, gone, says, mail>> /\ Free # {}
    BY DEF Click, Gesture
<1>2. /\ VaultTypes /\ page \in PageRecords /\ chores \in [Chores -> ChoreRecords \cup {None}]
      /\ Midway(page, chores, mail) /\ PaintFollows(page, chores)
    BY <1>1, InvOpen
<1>3. PICK k \in DOMAIN page.shown, toggle \in BOOLEAN :
        LET row == page.rows[k]
            next == Selected([page EXCEPT !.selection =
                                IF ~toggle THEN {row}
                                ELSE IF row \in @ THEN @ \ {row} ELSE @ \cup {row}],
                             chores, OneOf(Free))
        IN  k \in DOMAIN page.rows /\ page' = next.page /\ chores' = next.chores
    BY DEF Click
<1>4. PICK chosen : chosen = IF ~toggle THEN {page.rows[k]}
                             ELSE IF page.rows[k] \in page.selection THEN page.selection \ {page.rows[k]}
                                  ELSE page.selection \cup {page.rows[k]}
    OBVIOUS
<1>5. PICK pg : pg = [page EXCEPT !.selection = chosen]
    OBVIOUS
<1>6. PICK c : c = OneOf(Free)
    OBVIOUS
<1>7. page' = Selected(pg, chores, c).page /\ chores' = Selected(pg, chores, c).chores
    BY <1>2, <1>3, <1>4, <1>5, <1>6 DEF PageRecords
<1>8. chosen \in SUBSET Rows
  <2>1. page.rows \in Seq(Rows) /\ page.selection \in SUBSET Rows
      BY <1>2 DEF PageRecords
  <2>2. page.rows[k] \in Rows
      BY <1>3, <2>1
  <2>3. QED
      BY <1>4, <2>1, <2>2
<1>9. /\ pg \in PageRecords /\ pg.place = page.place /\ pg.query = page.query /\ pg.rows = page.rows
      /\ pg.tree = page.tree /\ pg.lost = page.lost /\ pg.locked = page.locked /\ pg.shown = page.shown
    BY <1>2, <1>5, <1>8 DEF PageRecords
<1>10. Midway(pg, chores, mail)
    BY <1>2, <1>9, MidwayPage
<1>11. PaintFollows(pg, chores)
    BY <1>2, <1>9 DEF PaintFollows
<1>12. c \in Chores /\ chores[c] = None
    BY <1>1, <1>6 DEF OneOf, Free
<1>13. chores = [chores EXCEPT ![c] = None] /\ DOMAIN chores = Chores
    BY <1>2, <1>12
<1>14. Sound(Selected(pg, chores, c).page, Selected(pg, chores, c).chores, mail)
    BY <1>10, <1>11, <1>12, <1>13, SelectedFollows
<1>15. PICK pg2, ks2 : pg2 = page' /\ ks2 = chores'
    OBVIOUS
<1>16. Sound(pg2, ks2, mail)
    BY <1>7, <1>14, <1>15
<1>17. QED
    BY <1>1, <1>2, <1>15, <1>16, SoundCarries

(* What each of these asks for is a change, of the bookmarks it names.      *)
LEMMA DropInFolderKeeps == ManagerInv /\ DropInFolder => ManagerInv'
<1> SUFFICES ASSUME ManagerInv, DropInFolder PROVE ManagerInv'
    OBVIOUS
<1>1. ~page.locked /\ UNCHANGED <<filed, gone, says, mail>>
    BY DEF DropInFolder, Gesture
<1>2. page \in PageRecords
    BY InvOpen
<1>3. PICK p \in Places :
        Begin([page EXCEPT !.dragging = {}],
              Change([kind |-> "move", ids |-> InOrder(page.dragging), to |-> p,
                      after |-> AtTheEnd], "on success", <<>>))
    BY DEF DropInFolder
<1>4. PICK pg : pg = [page EXCEPT !.dragging = {}]
    OBVIOUS
<1>5. SameButLost(page, pg) /\ pg.lost = page.lost
    BY <1>2, <1>4 DEF SameButLost, PageRecords
<1>6. PICK change : change = [kind |-> "move", ids |-> InOrder(page.dragging), to |-> p,
                              after |-> AtTheEnd]
    OBVIOUS
<1>7. change \in Changes
  <2>1. page.dragging \in SUBSET Rows
      BY <1>2 DEF PageRecords
  <2>2. InOrder(page.dragging) \in Seq(Rows)
      BY <1>2, <2>1, InOrderLists
  <2>3. QED
      BY <1>6, <2>2 DEF Changes
<1>8. Begin(pg, Change(change, "on success", <<>>))
    BY <1>3, <1>4, <1>6
<1>9. <<>> \in Seq(Rows)
    OBVIOUS
<1>10. QED
    BY <1>1, <1>5, <1>7, <1>8, <1>9, ChangeBegins

LEMMA DropAtKeeps == ManagerInv /\ DropAt => ManagerInv'
<1> SUFFICES ASSUME ManagerInv, DropAt PROVE ManagerInv'
    OBVIOUS
<1>1. ~page.locked /\ UNCHANGED <<filed, gone, says, mail>>
    BY DEF DropAt, Gesture
<1>2. page \in PageRecords
    BY InvOpen
<1>3. PICK ids : ids = InOrder(page.dragging)
    OBVIOUS
<1>4. ids \in Seq(Rows)
  <2>1. page.dragging \in SUBSET Rows
      BY <1>2 DEF PageRecords
  <2>2. QED
      BY <1>2, <1>3, <2>1, InOrderLists
<1>5. PICK at \in DOMAIN page.rows \cup {0} :
        Begin([page EXCEPT !.dragging = {}],
              Change([kind |-> "move", ids |-> ids, to |-> page.place,
                      after |-> IF at = 0 THEN None ELSE page.rows[at]], "reselect", ids))
    BY <1>3 DEF DropAt
<1>6. PICK pg : pg = [page EXCEPT !.dragging = {}]
    OBVIOUS
<1>7. SameButLost(page, pg) /\ pg.lost = page.lost
    BY <1>2, <1>6 DEF SameButLost, PageRecords
<1>8. PICK after : after = IF at = 0 THEN None ELSE page.rows[at]
    OBVIOUS
<1>9. after \in Rows \cup {None} /\ page.place \in Places
  <2>1. page.rows \in Seq(Rows) /\ page.place \in Places
      BY <1>2 DEF PageRecords
  <2>2. QED
      BY <1>5, <1>8, <2>1
<1>10. PICK change : change = [kind |-> "move", ids |-> ids, to |-> page.place, after |-> after]
    OBVIOUS
<1>11. change \in Changes
    BY <1>4, <1>9, <1>10 DEF Changes
<1>12. Begin(pg, Change(change, "reselect", ids))
    BY <1>5, <1>6, <1>8, <1>10
<1>13. QED
    BY <1>1, <1>4, <1>7, <1>11, <1>12, ChangeBegins

LEMMA NudgeKeeps == ManagerInv /\ Nudge => ManagerInv'
<1> SUFFICES ASSUME ManagerInv, Nudge PROVE ManagerInv'
    OBVIOUS
<1>1. ~page.locked /\ UNCHANGED <<filed, gone, says, mail>>
    BY DEF Nudge, Gesture
<1>2. page \in PageRecords
    BY InvOpen
<1>3. PICK ids : ids = Kept(page.rows, page.selection)
    OBVIOUS
<1>4. page.rows \in Seq(Rows) /\ page.place \in Places
    BY <1>2 DEF PageRecords
<1>5. ids \in Seq(Rows)
  <2>1. ids \in Seq(Rows \cap page.selection)
      BY <1>3, <1>4, KeptLists
  <2>2. QED
      BY <2>1
<1>6. PICK after \in Rows \cup {None} :
        Begin(page, Change([kind |-> "move", ids |-> ids, to |-> page.place, after |-> after],
                           "reselect", ids))
  <2>1. PICK k \in DOMAIN page.rows :
          \E after : /\ \/ k > 1 /\ after = IF k = 2 THEN None ELSE page.rows[k - 2]
                        \/ k < Len(page.rows) /\ after = page.rows[k + 1]
                     /\ Begin(page, Change([kind |-> "move", ids |-> ids, to |-> page.place,
                                            after |-> after], "reselect", ids))
      BY <1>3 DEF Nudge
  <2>2. PICK after : /\ \/ k > 1 /\ after = IF k = 2 THEN None ELSE page.rows[k - 2]
                        \/ k < Len(page.rows) /\ after = page.rows[k + 1]
                     /\ Begin(page, Change([kind |-> "move", ids |-> ids, to |-> page.place,
                                            after |-> after], "reselect", ids))
      BY <2>1
  <2>3. after \in Rows \cup {None}
      BY <1>4, <2>2
  <2>4. QED
      BY <2>2, <2>3
<1>7. PICK change : change = [kind |-> "move", ids |-> ids, to |-> page.place, after |-> after]
    OBVIOUS
<1>8. change \in Changes
    BY <1>4, <1>5, <1>7 DEF Changes
<1>9. SameButLost(page, page)
    BY <1>2 DEF SameButLost
<1>10. Begin(page, Change(change, "reselect", ids))
    BY <1>6, <1>7
<1>11. QED
    BY <1>1, <1>5, <1>8, <1>9, <1>10, ChangeBegins

LEMMA SaveDetailKeeps == ManagerInv /\ SaveDetail => ManagerInv'
<1> SUFFICES ASSUME ManagerInv, SaveDetail PROVE ManagerInv'
    OBVIOUS
<1>1. ~page.locked /\ UNCHANGED <<filed, gone, says, mail>>
    BY DEF SaveDetail, Gesture
<1>2. page \in PageRecords
    BY InvOpen
<1>3. PICK w \in Words :
        Begin(page, Change([kind |-> "save", ids |-> <<page.detail.id>>, text |-> w],
                           "on success", <<>>))
    BY DEF SaveDetail
<1>4. page.detail.id \in Rows
    BY <1>2 DEF SaveDetail, PageRecords, Items
<1>5. PICK change : change = [kind |-> "save", ids |-> <<page.detail.id>>, text |-> w]
    OBVIOUS
<1>6. change \in Changes
  <2>1. <<page.detail.id>> \in Seq(Rows)
      BY <1>4
  <2>2. QED
      BY <1>5, <2>1 DEF Changes
<1>7. SameButLost(page, page)
    BY <1>2 DEF SameButLost
<1>8. Begin(page, Change(change, "on success", <<>>))
    BY <1>3, <1>5
<1>9. <<>> \in Seq(Rows)
    OBVIOUS
<1>10. QED
    BY <1>1, <1>6, <1>7, <1>8, <1>9, ChangeBegins

LEMMA ConfirmsDeleteKeeps == ManagerInv /\ ConfirmsDelete => ManagerInv'
<1> SUFFICES ASSUME ManagerInv, ConfirmsDelete PROVE ManagerInv'
    OBVIOUS
<1>1. ~page.locked /\ UNCHANGED <<filed, gone, says, mail>>
    BY DEF ConfirmsDelete
<1>2. page \in PageRecords
    BY InvOpen
<1>3. PICK ids : ids = page.dialog.ids
    OBVIOUS
<1>4. ids \in Seq(Rows)
    BY <1>2, <1>3 DEF ConfirmsDelete, PageRecords
<1>5. PICK pg : pg = [page EXCEPT !.dialog = None]
    OBVIOUS
<1>6. SameButLost(page, pg) /\ pg.lost = page.lost
    BY <1>2, <1>5 DEF SameButLost, PageRecords
<1>7. PICK change : change = [kind |-> "delete", ids |-> ids]
    OBVIOUS
<1>8. change \in Changes
    BY <1>4, <1>7 DEF Changes
<1>9. Begin(pg, Change(change, "toast", ids))
    BY <1>3, <1>5, <1>7 DEF ConfirmsDelete
<1>10. QED
    BY <1>1, <1>4, <1>6, <1>8, <1>9, ChangeBegins

LEMMA ConfirmsMoveKeeps == ManagerInv /\ ConfirmsMove => ManagerInv'
<1> SUFFICES ASSUME ManagerInv, ConfirmsMove PROVE ManagerInv'
    OBVIOUS
<1>1. ~page.locked /\ UNCHANGED <<filed, gone, says, mail>>
    BY DEF ConfirmsMove, Gesture
<1>2. page \in PageRecords
    BY InvOpen
<1>3. PICK p \in Places :
        Begin([page EXCEPT !.dialog = None],
              Change([kind |-> "move", ids |-> InOrder(page.selection), to |-> p,
                      after |-> AtTheEnd], "show", <<>>))
    BY DEF ConfirmsMove
<1>4. PICK pg : pg = [page EXCEPT !.dialog = None]
    OBVIOUS
<1>5. SameButLost(page, pg) /\ pg.lost = page.lost
    BY <1>2, <1>4 DEF SameButLost, PageRecords
<1>6. PICK change : change = [kind |-> "move", ids |-> InOrder(page.selection), to |-> p,
                              after |-> AtTheEnd]
    OBVIOUS
<1>7. change \in Changes
  <2>1. page.selection \in SUBSET Rows
      BY <1>2 DEF PageRecords
  <2>2. InOrder(page.selection) \in Seq(Rows)
      BY <1>2, <2>1, InOrderLists
  <2>3. QED
      BY <1>6, <2>2 DEF Changes
<1>8. Begin(pg, Change(change, "show", <<>>))
    BY <1>3, <1>4, <1>6
<1>9. <<>> \in Seq(Rows)
    OBVIOUS
<1>10. QED
    BY <1>1, <1>5, <1>7, <1>8, <1>9, ChangeBegins

LEMMA UndoKeeps == ManagerInv /\ Undo => ManagerInv'
<1> SUFFICES ASSUME ManagerInv, Undo PROVE ManagerInv'
    OBVIOUS
<1>1. ~page.locked /\ UNCHANGED <<filed, gone, says, mail>>
    BY DEF Undo, Gesture
<1>2. page \in PageRecords
    BY InvOpen
<1>3. page.undo \in Seq(Rows)
    BY <1>2 DEF Undo, PageRecords
<1>4. PICK pg : pg = [page EXCEPT !.undo = None]
    OBVIOUS
<1>5. SameButLost(page, pg) /\ pg.lost = page.lost
    BY <1>2, <1>4 DEF SameButLost, PageRecords
<1>6. PICK change : change = [kind |-> "restore", ids |-> page.undo]
    OBVIOUS
<1>7. change \in Changes
    BY <1>3, <1>6 DEF Changes
<1>8. Begin(pg, Change(change, "show", <<>>))
    BY <1>4, <1>6 DEF Undo
<1>9. <<>> \in Seq(Rows)
    OBVIOUS
<1>10. QED
    BY <1>1, <1>5, <1>7, <1>8, <1>9, ChangeBegins

LEMMA ReceivesKeeps == ManagerInv /\ Receives => ManagerInv'
<1> SUFFICES ASSUME ManagerInv, Receives PROVE ManagerInv'
    OBVIOUS
<1>1. ~page.locked /\ mail # <<>> /\ UNCHANGED <<filed, gone, says>>
    BY DEF Receives
<1>2. /\ VaultTypes /\ Sound(page, chores, mail) /\ Typed(page, chores, mail)
      /\ page \in PageRecords /\ mail \in Seq(Letters) /\ LettersAwaited(chores, mail)
    BY <1>1, InvOpen
<1>3. PICK m : m = Head(mail)
    OBVIOUS
<1>4. PICK rest : rest = Tail(mail)
    OBVIOUS
<1>5. /\ rest \in Seq(Letters)
      /\ 1 \in DOMAIN mail /\ mail[1] = m
      /\ \A i \in DOMAIN rest : i \in Nat /\ i + 1 \in DOMAIN mail /\ i + 1 # 1 /\ rest[i] = mail[i + 1]
    BY <1>1, <1>2, <1>3, <1>4, RestOfTheMail
<1>6. m \in Letters
    BY <1>2, <1>5, EveryLetter
<1>7. mail' = rest
    BY <1>4 DEF Receives
<1>8. CASE m.to # None
  <2>1. PICK r : r = Arrived(m.to, m.what, m.body)
      OBVIOUS
  <2>2. Sound(r.page, r.chores, rest)
      BY <1>1, <1>2, <1>3, <1>4, <1>8, <2>1, LetterArrives
  <2>3. page' = r.page /\ chores' = r.chores
      BY <1>3, <1>8, <2>1 DEF Receives
  <2>4. PICK pg, ks : pg = r.page /\ ks = r.chores
      OBVIOUS
  <2>5. Sound(pg, ks, rest) /\ page' = pg /\ chores' = ks
      BY <2>2, <2>3, <2>4
  <2>6. QED
      BY <1>1, <1>2, <1>7, <2>5, SoundCarries
<1>9. CASE m.to = None
  <2>1. Hears(m.body)
      BY <1>3, <1>9 DEF Receives
  <2>2. Typed(page, chores, rest)
      BY <1>2, <1>5 DEF Typed
  <2>3. CASE m.body = "VAULT_CHANGED"
    <3>1. LettersAwaited(chores, rest)
      <4>1. ASSUME NEW i \in DOMAIN rest, rest[i].to # None
            PROVE  /\ chores[rest[i].to] # None
                   /\ rest[i].what \in chores[rest[i].to].awaited
                   /\ rest[i].what \notin chores[rest[i].to].unserved
          BY <1>2, <1>5, <4>1 DEF LettersAwaited
      <4>2. ASSUME NEW i \in DOMAIN rest, NEW j \in DOMAIN rest,
                   rest[i].to # None, rest[i].to = rest[j].to, rest[i].what = rest[j].what
            PROVE  i = j
        <5>1. i + 1 = j + 1
            BY <1>2, <1>5, <4>2 DEF LettersAwaited
        <5>2. QED
            BY <1>5, <5>1
      <4>3. QED
          BY <4>1, <4>2 DEF LettersAwaited
    <3>2. PICK what \in SUBSET {"tree", "view"} : what = {"tree", "view"}
        OBVIOUS
    <3>3. Begin(page, Reload(page.place, page.query, what, "show", <<>>))
        BY <2>1, <2>3, <3>2 DEF Hears
    <3>4. "tree" \in what /\ "view" \in what
        BY <3>2
    <3>5. QED
        BY <1>1, <1>2, <1>7, <2>2, <3>1, <3>3, <3>4, ReloadBegins
  <2>4. CASE m.body # "VAULT_CHANGED"
    <3>1. PICK pg : pg = [page EXCEPT !.locked = TRUE]
        OBVIOUS
    <3>2. PICK ks : ks = [c \in Chores |-> None]
        OBVIOUS
    <3>3. pg \in PageRecords /\ pg.locked = TRUE
        BY <1>2, <3>1 DEF PageRecords
    <3>4. Typed(pg, ks, rest)
        BY <1>5, <3>2, <3>3 DEF Typed
    <3>5. Sound(pg, ks, rest)
        BY <3>3, <3>4 DEF Sound
    <3>6. page' = pg /\ chores' = ks
        BY <2>1, <2>4, <3>1, <3>2 DEF Hears
    <3>7. QED
        BY <1>1, <1>2, <1>7, <3>5, <3>6, SoundCarries
  <2>5. QED
      BY <2>3, <2>4
<1>10. QED
    BY <1>8, <1>9

-----------------------------------------------------------------------------
(* The worker sends                                                        *)

Grows(ml, more, n, m) ==
    /\ more \in Seq(Letters)
    /\ n \in Nat /\ n \notin DOMAIN ml
    /\ DOMAIN more = DOMAIN ml \cup {n}
    /\ \A i \in DOMAIN ml : more[i] = ml[i] /\ i < n /\ i \in Nat
    /\ more[n] = m

LEMMA MailGrows ==
    ASSUME NEW ml \in Seq(Letters), NEW m \in Letters, NEW more, more = Append(ml, m)
    PROVE  \E n : Grows(ml, more, n, m)
<1>1. PICK n : n = Len(ml) + 1
    OBVIOUS
<1>2. Len(ml) \in Nat /\ DOMAIN ml = 1 .. Len(ml)
    OBVIOUS
<1>3. /\ more \in Seq(Letters) /\ Len(more) = n /\ DOMAIN more = 1 .. n
      /\ \A i \in 1 .. Len(ml) : more[i] = ml[i]
      /\ more[n] = m
    BY <1>1
<1>4. n \in Nat /\ n \notin DOMAIN ml /\ DOMAIN more = DOMAIN ml \cup {n}
    BY <1>1, <1>2, <1>3
<1>5. \A i \in DOMAIN ml : more[i] = ml[i] /\ i < n /\ i \in Nat
    BY <1>1, <1>2, <1>3
<1>6. Grows(ml, more, n, m)
    BY <1>3, <1>4, <1>5 DEF Grows
<1>7. QED
    BY <1>6

(* News of the vault puts every letter before it out of date.              *)
NewsBehind(ml) ==
    /\ Told(ml)
    /\ \A i \in DOMAIN ml : ml[i].what = "item" => \E j \in DOMAIN ml : j > i /\ ml[j].to = None

LEMMA NewsSent ==
    ASSUME NEW pg, NEW ks, NEW ml, Typed(pg, ks, ml), NEW m \in News,
           NEW more, more = Append(ml, m)
    PROVE  /\ Typed(pg, ks, more)
           /\ LettersAwaited(ks, ml) => LettersAwaited(ks, more)
           /\ NewsBehind(more)
<1>1. ml \in Seq(Letters)
    BY DEF Typed
<1>2. m \in Letters /\ m.to = None /\ m.what = "news"
  <2>1. m \in Letters
      BY DEF Letters
  <2>2. QED
      BY <2>1, LetterFacts
<1>3. PICK n : Grows(ml, more, n, m)
    BY <1>1, <1>2, MailGrows
<1>4. Typed(pg, ks, more)
    BY <1>3 DEF Grows, Typed
<1>5. ASSUME LettersAwaited(ks, ml) PROVE LettersAwaited(ks, more)
  <2>1. \A i \in DOMAIN more : more[i].to # None => i \in DOMAIN ml /\ more[i] = ml[i]
      BY <1>2, <1>3 DEF Grows
  <2>2. QED
      BY <1>5, <2>1 DEF LettersAwaited
<1>6. Told(more)
    BY <1>2, <1>3 DEF Grows, Told
<1>7. ASSUME NEW i \in DOMAIN more, more[i].what = "item"
      PROVE  \E j \in DOMAIN more : j > i /\ more[j].to = None
  <2>1. i # n
      BY <1>2, <1>3, <1>7 DEF Grows
  <2>2. i \in DOMAIN ml
      BY <1>3, <2>1 DEF Grows
  <2>3. n \in DOMAIN more /\ n > i /\ more[n].to = None
      BY <1>2, <1>3, <2>2 DEF Grows
  <2>4. QED
      BY <2>3
<1>8. NewsBehind(more)
    BY <1>6, <1>7 DEF NewsBehind
<1>9. QED
    BY <1>4, <1>5, <1>8

(* The answer to what c asks is on its way.                                *)
Sent(ks, c, what, all) ==
    /\ ks[c] # None /\ what \in ks[c].unserved
    /\ all = [ks EXCEPT ![c] = [ks[c] EXCEPT !.unserved = @ \ {what}]]

Alike(k, k2) ==
    /\ k = None <=> k2 = None
    /\ k2 # None =>
         /\ k2 \in ChoreRecords
         /\ k2.at = k.at /\ k2.latest = k.latest /\ k2.place = k.place /\ k2.query = k.query
         /\ k2.awaited = k.awaited /\ k2.goal = k.goal /\ k2.ids = k.ids /\ k2.change = k.change
         /\ k2.unserved \subseteq k.unserved

LEMMA SentFacts ==
    ASSUME NEW pg, NEW ks, NEW ml, Typed(pg, ks, ml), NEW c \in Chores, NEW what, NEW all,
           Sent(ks, c, what, all)
    PROVE  /\ \A d \in Chores : Alike(ks[d], all[d])
           /\ \A d \in Chores : d # c => all[d] = ks[d]
           /\ all \in [Chores -> ChoreRecords \cup {None}]
           /\ all[c] # None /\ all[c].unserved = ks[c].unserved \ {what}
           /\ what \in ks[c].awaited /\ what \in Kinds
<1>1. PICK k : k = ks[c]
    OBVIOUS
<1>2. k \in ChoreRecords /\ ChoreFits(k) /\ ks \in [Chores -> ChoreRecords \cup {None}] /\ what \in k.unserved
    BY <1>1 DEF Sent, Typed
<1>3. PICK k2 : k2 = [k EXCEPT !.unserved = @ \ {what}]
    OBVIOUS
<1>4. /\ k2 \in ChoreRecords
      /\ k2.at = k.at /\ k2.latest = k.latest /\ k2.place = k.place /\ k2.query = k.query
      /\ k2.awaited = k.awaited /\ k2.goal = k.goal /\ k2.ids = k.ids /\ k2.change = k.change
      /\ k2.unserved = k.unserved \ {what}
    BY <1>2, <1>3 DEF ChoreRecords
<1>5. k2 # None /\ k # None
    BY <1>2, <1>4, ChoresAreThere
<1>6. Alike(k, k2)
    BY <1>4, <1>5 DEF Alike
<1>7. all = [ks EXCEPT ![c] = k2]
    BY <1>1, <1>3 DEF Sent
<1>8. all[c] = k2 /\ all \in [Chores -> ChoreRecords \cup {None}] /\ \A d \in Chores : d # c => all[d] = ks[d]
    BY <1>2, <1>4, <1>7
<1>9. \A d \in Chores : ks[d] = None \/ ks[d] \in ChoreRecords
    BY <1>2
<1>10. \A d \in Chores : d # c => Alike(ks[d], all[d])
    BY <1>8, <1>9 DEF Alike
<1>11. \A d \in Chores : Alike(ks[d], all[d])
    BY <1>1, <1>6, <1>8, <1>10
<1>12. what \in k.awaited /\ what \in Kinds
    BY <1>2 DEF ChoreFits, ChoreRecords
<1>13. QED
    BY <1>1, <1>4, <1>5, <1>8, <1>11, <1>12

LEMMA AnswerSent ==
    ASSUME NEW pg, NEW ks, NEW ml, Typed(pg, ks, ml), NEW c \in Chores, NEW what, NEW all,
           Sent(ks, c, what, all),
           NEW m \in Letters, m.to = c, m.what = what, NEW more, more = Append(ml, m)
    PROVE  /\ Typed(pg, all, more)
           /\ LatestIsOfThePage(pg, ks) => LatestIsOfThePage(pg, all)
           /\ LettersAwaited(ks, ml) => LettersAwaited(all, more)
           /\ PaintFollows(pg, ks) => PaintFollows(pg, all)
<1>1. ml \in Seq(Letters)
    BY DEF Typed
<1>2. PICK n : Grows(ml, more, n, m)
    BY <1>1, MailGrows
<1>3. /\ \A d \in Chores : Alike(ks[d], all[d])
      /\ \A d \in Chores : d # c => all[d] = ks[d]
      /\ all \in [Chores -> ChoreRecords \cup {None}]
      /\ all[c] # None /\ all[c].unserved = ks[c].unserved \ {what}
      /\ what \in ks[c].awaited
    BY SentFacts
<1>4. Typed(pg, all, more)
  <2>1. ASSUME NEW d \in Chores, all[d] # None PROVE ChoreFits(all[d])
    <3>1. ks[d] # None /\ Alike(ks[d], all[d])
        BY <1>3, <2>1 DEF Alike
    <3>2. ChoreFits(ks[d])
        BY <3>1 DEF Typed
    <3>3. Asked(all[d]) = Asked(ks[d])
        BY <2>1, <3>1 DEF Alike, Asked
    <3>4. QED
        BY <2>1, <3>1, <3>2, <3>3 DEF Alike, ChoreFits
  <2>2. QED
      BY <1>2, <1>3, <2>1 DEF Typed, Grows
<1>5. ASSUME LatestIsOfThePage(pg, ks) PROVE LatestIsOfThePage(pg, all)
  <2>1. \A d \in Chores : IsLatest(all[d]) => /\ IsLatest(ks[d]) /\ all[d].place = ks[d].place
                                              /\ all[d].query = ks[d].query
      BY <1>3 DEF Alike, IsLatest
  <2>2. QED
      BY <1>5, <2>1 DEF LatestIsOfThePage
<1>6. ASSUME LettersAwaited(ks, ml) PROVE LettersAwaited(all, more)
  <2>1. c # None
      BY ManagerAssumption DEF ManagerAssumption
  <2>2. ASSUME NEW i \in DOMAIN ml, ml[i].to # None
        PROVE  /\ all[ml[i].to] # None
               /\ ml[i].what \in all[ml[i].to].awaited
               /\ ml[i].what \notin all[ml[i].to].unserved
    <3>1. ml[i].to \in Chores
        BY <2>2, EveryLetter
    <3>2. Alike(ks[ml[i].to], all[ml[i].to])
        BY <1>3, <3>1
    <3>3. /\ ks[ml[i].to] # None
          /\ ml[i].what \in ks[ml[i].to].awaited
          /\ ml[i].what \notin ks[ml[i].to].unserved
        BY <1>6, <2>2 DEF LettersAwaited
    <3>4. QED
        BY <3>2, <3>3 DEF Alike
  <2>3. ASSUME NEW i \in DOMAIN ml, ml[i].to = c PROVE ml[i].what # what
    <3>1. ml[i].what \notin ks[c].unserved
        BY <1>6, <2>1, <2>3 DEF LettersAwaited
    <3>2. QED
        BY <3>1 DEF Sent
  <2>4. /\ all[c] # None /\ what \in all[c].awaited /\ what \notin all[c].unserved
      BY <1>3 DEF Alike
  <2>5. ASSUME NEW i \in DOMAIN more, more[i].to # None
        PROVE  /\ all[more[i].to] # None
               /\ more[i].what \in all[more[i].to].awaited
               /\ more[i].what \notin all[more[i].to].unserved
    <3>1. CASE i = n
        BY <1>2, <2>4, <3>1 DEF Grows
    <3>2. CASE i # n
      <4>1. i \in DOMAIN ml /\ more[i] = ml[i]
          BY <1>2, <3>2 DEF Grows
      <4>2. QED
          BY <2>2, <2>5, <4>1
    <3>3. QED
        BY <3>1, <3>2
  <2>6. ASSUME NEW i \in DOMAIN more, NEW j \in DOMAIN more,
               more[i].to # None, more[i].to = more[j].to, more[i].what = more[j].what
        PROVE  i = j
    <3>1. \A o \in DOMAIN more : o = n \/ (o \in DOMAIN ml /\ more[o] = ml[o])
        BY <1>2 DEF Grows
    <3>2. more[n].to = c /\ more[n].what = what
        BY <1>2 DEF Grows
    <3>3. CASE i = n
        BY <2>3, <2>6, <3>1, <3>2, <3>3
    <3>4. CASE j = n
        BY <2>3, <2>6, <3>1, <3>2, <3>4
    <3>5. CASE i # n /\ j # n
        BY <1>6, <2>6, <3>1, <3>5 DEF LettersAwaited
    <3>6. QED
        BY <3>3, <3>4, <3>5
  <2>7. QED
      BY <2>5, <2>6 DEF LettersAwaited
<1>7. ASSUME PaintFollows(pg, ks) PROVE PaintFollows(pg, all)
  <2>1. \A d \in Chores : (Loading(ks[d]) \/ AtItem(ks[d])) /\ ks[d].goal # "detail"
                            => (Loading(all[d]) \/ AtItem(all[d])) /\ all[d].goal # "detail"
      BY <1>3 DEF Alike, Loading, AtItem
  <2>2. QED
      BY <1>7, <2>1 DEF PaintFollows
<1>8. QED
    BY <1>4, <1>5, <1>6, <1>7

(* What the vault answers is what the page will show of it.                *)
LEMMA AnswerKeeps ==
    ASSUME VaultTypes, NEW pg, NEW ks, NEW ml, Sound(pg, ks, ml),
           NEW c \in Chores, NEW what, NEW all, Sent(ks, c, what, all),
           NEW m \in Letters, m.to = c, m.what = what, NEW more, more = Append(ml, m),
           what = "view" => m.body = ListView(ks[c].place, ks[c].query),
           what = "tree" => m.body = Tree,
           what = "item" => m.body = GetItem(Asked(ks[c]))
    PROVE  Sound(pg, all, more)
<1>1. Typed(pg, ks, ml) /\ ml \in Seq(Letters) /\ pg \in PageRecords
    BY DEF Sound, Typed
<1>2. /\ Typed(pg, all, more)
      /\ LatestIsOfThePage(pg, ks) => LatestIsOfThePage(pg, all)
      /\ LettersAwaited(ks, ml) => LettersAwaited(all, more)
      /\ PaintFollows(pg, ks) => PaintFollows(pg, all)
    BY <1>1, AnswerSent
<1>3. CASE pg.locked
    BY <1>2, <1>3 DEF Sound
<1>4. ASSUME ~pg.locked
      PROVE  Midway(pg, all, more) /\ PaintFollows(pg, all) /\ DetailFollows(pg, all, more)
  <2>1. /\ Midway(pg, ks, ml) /\ PaintFollows(pg, ks) /\ DetailFollows(pg, ks, ml)
        /\ LatestIsOfThePage(pg, ks) /\ LettersAwaited(ks, ml)
        /\ TreeFollows(pg, ks, ml) /\ ViewFollows(pg, ks, ml) /\ ItemsAreFresh(pg, ks, ml)
      BY <1>4 DEF Sound, Midway
  <2>2. PICK n : Grows(ml, more, n, m)
      BY <1>1, MailGrows
  <2>3. /\ \A d \in Chores : Alike(ks[d], all[d])
        /\ \A d \in Chores : d # c => all[d] = ks[d]
        /\ all[c] # None /\ all[c].unserved = ks[c].unserved \ {what}
      BY <1>1, SentFacts
  <2>4. /\ n \in DOMAIN more /\ more[n] = m /\ n \in Nat
        /\ \A i \in DOMAIN ml : i \in DOMAIN more /\ more[i] = ml[i] /\ i < n /\ i \in Nat
        /\ \A i \in DOMAIN more : i = n \/ i \in DOMAIN ml
      BY <2>2 DEF Grows
  <2>5. Told(ml) => Told(more)
      BY <2>4 DEF Told
  <2>6. ASSUME NEW d \in Chores, NEW other, other \in ks[d].unserved, ks[d] # None
        PROVE  other \in all[d].unserved \/ (d = c /\ other = what)
      BY <2>3, <2>6
  <2>7. \A d \in Chores : IsLatest(ks[d]) <=> IsLatest(all[d])
      BY <2>3 DEF Alike, IsLatest
  <2>8. TreeFollows(pg, all, more)
    <3>1. CASE what = "tree"
      <4>1. \A j \in DOMAIN more : ~(j > n)
          BY <2>4
      <4>2. more[n].what = "tree" /\ more[n].body = Tree
          BY <2>4, <3>1
      <4>3. QED
          BY <2>4, <4>1, <4>2 DEF TreeFollows
    <3>2. CASE what # "tree"
      <4>1. CASE pg.lost \/ Told(ml)
          BY <2>5, <4>1 DEF TreeFollows
      <4>2. CASE \E d \in Chores : Unserved(ks[d], "tree")
        <5>1. PICK d \in Chores : Unserved(ks[d], "tree")
            BY <4>2
        <5>2. Unserved(all[d], "tree")
            BY <2>3, <2>6, <3>2, <5>1 DEF Alike, Unserved
        <5>3. QED
            BY <5>2 DEF TreeFollows
      <4>3. CASE \E i \in DOMAIN ml :
                   /\ ml[i].what = "tree" /\ ml[i].body = Tree
                   /\ \A j \in DOMAIN ml : j > i => ml[j].what # "tree"
        <5>1. PICK i \in DOMAIN ml : /\ ml[i].what = "tree" /\ ml[i].body = Tree
                                     /\ \A j \in DOMAIN ml : j > i => ml[j].what # "tree"
            BY <4>3
        <5>2. i \in DOMAIN more /\ more[i].what = "tree" /\ more[i].body = Tree
            BY <2>4, <5>1
        <5>3. \A j \in DOMAIN more : j > i => more[j].what # "tree"
            BY <2>4, <3>2, <5>1
        <5>4. QED
            BY <5>2, <5>3 DEF TreeFollows
      <4>4. CASE pg.tree = Tree /\ \A i \in DOMAIN ml : ml[i].what # "tree"
        <5>1. \A i \in DOMAIN more : more[i].what # "tree"
            BY <2>4, <3>2, <4>4
        <5>2. QED
            BY <4>4, <5>1 DEF TreeFollows
      <4>5. QED
          BY <2>1, <4>1, <4>2, <4>3, <4>4 DEF TreeFollows
    <3>3. QED
        BY <3>1, <3>2
  <2>9. ViewFollows(pg, all, more)
    <3>1. CASE pg.lost \/ Told(ml)
        BY <2>5, <3>1 DEF ViewFollows
    <3>2. CASE \E d \in Chores : IsLatest(ks[d]) /\ "view" \in ks[d].unserved
      <4>1. PICK d \in Chores : IsLatest(ks[d]) /\ "view" \in ks[d].unserved
          BY <3>2
      <4>2. CASE "view" \in all[d].unserved
          BY <2>7, <4>1, <4>2 DEF ViewFollows
      <4>3. CASE d = c /\ what = "view"
        <5>1. ks[c].place = pg.place /\ ks[c].query = pg.query
            BY <2>1, <4>1, <4>3 DEF LatestIsOfThePage
        <5>2. more[n].to = c /\ more[n].what = "view" /\ more[n].body = ListView(pg.place, pg.query)
            BY <2>4, <4>3, <5>1
        <5>3. IsLatest(all[c])
            BY <2>7, <4>1, <4>3
        <5>4. QED
            BY <2>4, <5>2, <5>3 DEF ViewFollows
      <4>4. QED
          BY <2>6, <4>1, <4>2, <4>3 DEF IsLatest
    <3>3. CASE \E d \in Chores : IsLatest(ks[d]) /\
                 \E i \in DOMAIN ml : /\ ml[i].to = d /\ ml[i].what = "view"
                                      /\ ml[i].body = ListView(pg.place, pg.query)
      <4>1. PICK d \in Chores, i \in DOMAIN ml :
               /\ IsLatest(ks[d]) /\ ml[i].to = d /\ ml[i].what = "view"
               /\ ml[i].body = ListView(pg.place, pg.query)
          BY <3>3
      <4>2. i \in DOMAIN more /\ more[i] = ml[i] /\ IsLatest(all[d])
          BY <2>4, <2>7, <4>1
      <4>3. QED
          BY <4>1, <4>2 DEF ViewFollows
    <3>4. CASE /\ pg.rows = ListView(pg.place, pg.query)
               /\ \A d \in Chores : IsLatest(ks[d]) => "view" \notin ks[d].awaited
      <4>1. \A d \in Chores : IsLatest(all[d]) => "view" \notin all[d].awaited
          BY <2>3, <2>7, <3>4 DEF Alike, IsLatest
      <4>2. QED
          BY <3>4, <4>1 DEF ViewFollows
    <3>5. QED
        BY <2>1, <3>1, <3>2, <3>3, <3>4 DEF ViewFollows
  <2>10. \A d \in Chores : (Loading(ks[d]) <=> Loading(all[d])) /\ (AtItem(ks[d]) <=> AtItem(all[d]))
      BY <2>3 DEF Alike, Loading, AtItem
  <2>11. \A d \in Chores : ks[d] # None => Asked(all[d]) = Asked(ks[d]) /\ all[d].goal = ks[d].goal
      BY <2>3 DEF Alike, Asked
  <2>12. \A i \in DOMAIN ml : ml[i].to # None => ml[i].to \in Chores /\ ks[ml[i].to] # None
      BY <1>1, <2>1, EveryLetter DEF LettersAwaited
  <2>13. ASSUME NEW i \in DOMAIN ml, Superseded(ks, ml, i) PROVE Superseded(all, more, i)
    <3>1. CASE \E j \in DOMAIN ml : j > i /\ (ml[j].to = None \/ Loading(ks[ml[j].to]))
      <4>1. PICK j \in DOMAIN ml : j > i /\ (ml[j].to = None \/ Loading(ks[ml[j].to]))
          BY <3>1
      <4>2. j \in DOMAIN more /\ more[j] = ml[j]
          BY <2>4
      <4>3. more[j].to = None \/ Loading(all[more[j].to])
          BY <2>10, <2>12, <4>1, <4>2
      <4>4. QED
          BY <4>1, <4>2, <4>3 DEF Superseded
    <3>2. CASE \E d \in Chores : Loading(ks[d]) /\ ks[d].unserved # {}
      <4>1. PICK d \in Chores : Loading(ks[d]) /\ ks[d].unserved # {}
          BY <3>2
      <4>2. CASE d = c
        <5>1. n \in DOMAIN more /\ n > i /\ Loading(all[more[n].to])
            BY <2>4, <2>10, <4>1, <4>2
        <5>2. QED
            BY <5>1 DEF Superseded
      <4>3. CASE d # c
        <5>1. Loading(all[d]) /\ all[d].unserved # {}
            BY <2>3, <4>1, <4>3
        <5>2. QED
            BY <5>1 DEF Superseded
      <4>4. QED
          BY <4>2, <4>3
    <3>3. QED
        BY <2>13, <3>1, <3>2 DEF Superseded
  <2>14. ItemsAreFresh(pg, all, more)
    <3>1. CASE pg.lost
        BY <3>1 DEF ItemsAreFresh
    <3>2. CASE ~pg.lost
      <4>1. ASSUME NEW i \in DOMAIN more, more[i].what = "item", more[i].body # None
            PROVE  more[i].body = GetItem(Asked(all[more[i].to])) \/ Superseded(all, more, i)
        <5>1. CASE i = n
          <6>1. more[i] = m /\ what = "item" /\ ks[c] # None
              BY <2>4, <4>1, <5>1 DEF Sent
          <6>2. m.body = GetItem(Asked(all[c]))
              BY <2>11, <6>1
          <6>3. QED
              BY <6>1, <6>2
        <5>2. CASE i # n
          <6>1. i \in DOMAIN ml /\ more[i] = ml[i]
              BY <2>4, <5>2
          <6>2. ml[i].body = GetItem(Asked(ks[ml[i].to])) \/ Superseded(ks, ml, i)
              BY <2>1, <3>2, <4>1, <6>1 DEF ItemsAreFresh
          <6>3. ml[i].to # None
            <7>1. ml[i].what \in Kinds
                BY <4>1, <6>1 DEF Kinds
            <7>2. QED
                BY <1>1, <6>1, <7>1, EveryLetter
          <6>4. Asked(all[ml[i].to]) = Asked(ks[ml[i].to])
              BY <2>11, <2>12, <6>1, <6>3
          <6>5. QED
              BY <2>13, <6>1, <6>2, <6>4
        <5>3. QED
            BY <5>1, <5>2
      <4>2. QED
          BY <4>1 DEF ItemsAreFresh
    <3>3. QED
        BY <3>1, <3>2
  <2>15. DetailFollows(pg, all, more)
    <3>1. CASE pg.lost \/ Told(ml)
        BY <2>5, <3>1 DEF DetailFollows
    <3>2. CASE \E d \in Chores : Loading(ks[d]) \/ (AtItem(ks[d]) /\ ks[d].goal = "reselect")
        BY <2>10, <2>11, <3>2 DEF DetailFollows, AtItem
    <3>3. CASE pg.detail = IF Sole(pg) = None THEN None ELSE GetItem(Sole(pg))
        BY <3>3 DEF DetailFollows
    <3>4. ASSUME ~pg.lost, ~Told(ml), \A d \in Chores : ~Loading(ks[d]),
                 NEW d \in Chores, AtItem(ks[d]), Asked(ks[d]) = Sole(pg),
                 Brings(ks, ml, d, GetItem(Sole(pg)))
          PROVE  DetailFollows(pg, all, more)
      <4>1. ks[d] # None /\ AtItem(all[d]) /\ Asked(all[d]) = Sole(pg)
          BY <2>10, <2>11, <3>4 DEF AtItem
      <4>2. CASE "item" \in all[d].unserved
          BY <4>1, <4>2 DEF Brings, DetailFollows
      <4>3. CASE d = c /\ what = "item"
        (* The one selected is shown, hence there.                         *)
        <5>1. \A e \in Chores : ~IsLatest(ks[e])
          <6>1. ASSUME NEW e \in Chores, IsLatest(ks[e]) PROVE FALSE
            <7>1. ChoreFits(ks[e]) /\ ks[e] \in ChoreRecords /\ ks[e].latest
                BY <1>1, <6>1 DEF IsLatest, Typed
            <7>2. ks[e].at = "loading"
                BY <7>1 DEF ChoreFits, ChoreRecords
            <7>3. QED
                BY <3>4, <6>1, <7>2 DEF Loading, IsLatest
          <6>2. QED
              BY <6>1
        <5>2. pg.rows = ListView(pg.place, pg.query)
            BY <2>1, <3>4, <5>1 DEF ViewFollows
        <5>3. pg.rows \in Seq(AllRows)
          <6>1. pg.place \in Places
              BY <1>1 DEF PageRecords
          <6>2. QED
              BY <5>2, <6>1, ListViewLists
        <5>4. Sole(pg) # None
          <6>1. ks[d] \in ChoreRecords /\ ChoreFits(ks[d]) /\ ks[d].at = "item"
              BY <1>1, <3>4 DEF AtItem, Typed
          <6>2. Asked(ks[d]) \in Rows
              BY <6>1 DEF ChoreFits
          <6>3. QED
              BY <3>4, <6>2, ManagerAssumption DEF ManagerAssumption
        <5>5. Sole(pg) \in AllRows
          <6>1. Sole(pg) \in ToSet(pg.rows)
              BY <1>1, <5>4, SoleIsShown
          <6>2. QED
              BY <5>3, <6>1 DEF ToSet
        <5>6. GetItem(Sole(pg)) # None
            BY <5>5, GetItemFinds
        <5>7. more[n].to = d /\ more[n].body = GetItem(Sole(pg))
            BY <2>4, <3>4, <4>3
        <5>8. Brings(all, more, d, GetItem(Sole(pg)))
            BY <2>4, <5>6, <5>7 DEF Brings
        <5>9. QED
            BY <4>1, <5>8 DEF DetailFollows
      <4>4. CASE \E i \in DOMAIN ml : ml[i].to = d /\ ml[i].body = GetItem(Sole(pg)) /\ GetItem(Sole(pg)) # None
        <5>1. Brings(all, more, d, GetItem(Sole(pg)))
            BY <2>4, <4>4 DEF Brings
        <5>2. QED
            BY <4>1, <5>1 DEF DetailFollows
      <4>5. QED
          BY <2>6, <3>4, <4>1, <4>2, <4>3, <4>4 DEF Brings
    <3>5. QED
        BY <2>1, <3>1, <3>2, <3>3, <3>4 DEF DetailFollows
  <2>16. Midway(pg, all, more)
      BY <1>2, <1>4, <2>1, <2>8, <2>9, <2>14 DEF Midway
  <2>17. QED
      BY <1>2, <2>1, <2>15, <2>16
<1>5. QED
    BY <1>2, <1>3, <1>4 DEF Sound

(* The vault changes, or an answer is lost, and the page will know of it.  *)
LEMMA OutdatedKeeps ==
    ASSUME VaultTypes', NEW pg, NEW ks, NEW ml, page' = pg, chores' = ks, mail' = ml,
           Typed(pg, ks, ml),
           ~pg.locked => LatestIsOfThePage(pg, ks) /\ LettersAwaited(ks, ml) /\ PaintFollows(pg, ks),
           pg.lost \/ NewsBehind(ml)
    PROVE  ManagerInv'
<1>1. Typed(page, chores, mail)' <=> Typed(pg, ks, ml)
    BY DEF Typed
<1>2. LatestIsOfThePage(page, chores)' <=> LatestIsOfThePage(pg, ks)
    BY DEF LatestIsOfThePage
<1>3. LettersAwaited(chores, mail)' <=> LettersAwaited(ks, ml)
    BY DEF LettersAwaited
<1>4. PaintFollows(page, chores)' <=> PaintFollows(pg, ks)
    BY DEF PaintFollows
<1>5. Told(mail)' <=> Told(ml)
    BY DEF Told
<1>6. page'.lost \/ Told(mail)'
    BY <1>5 DEF NewsBehind
<1>7. TreeFollows(page, chores, mail)'
    BY <1>6 DEF TreeFollows
<1>8. ViewFollows(page, chores, mail)'
    BY <1>6 DEF ViewFollows
<1>9. DetailFollows(page, chores, mail)'
    BY <1>6 DEF DetailFollows
<1>10. ItemsAreFresh(page, chores, mail)'
  <2>1. CASE pg.lost
      BY <2>1 DEF ItemsAreFresh
  <2>2. CASE NewsBehind(ml)
      BY <2>2 DEF NewsBehind, ItemsAreFresh, Superseded
  <2>3. QED
      BY <2>1, <2>2
<1>11. Sound(page, chores, mail)'
    BY <1>1, <1>2, <1>3, <1>4, <1>7, <1>8, <1>9, <1>10 DEF Sound, Midway
<1>12. QED
    BY <1>11 DEF ManagerInv

-----------------------------------------------------------------------------
(* The vault changes                                                       *)

LEMMA MovedLists ==
    ASSUME VaultTypes, NEW ids \in Seq(Rows), NEW to \in Places, NEW after,
           after \in ToSet(Alive(Without(ids)[to])) \cup {AtTheEnd, None}
    PROVE  Moved(ids, to, after) \in [Places -> Seq(Rows)]
<1>1. PICK rest : rest = Without(ids)
    OBVIOUS
<1>2. rest \in [Places -> Seq(Rows)]
  <2>1. ASSUME NEW p \in Places
        PROVE  Kept(filed[p], Rows \ ToSet(ids)) \in Seq(Rows)
    <3>1. filed[p] \in Seq(Rows)
        BY DEF VaultTypes
    <3>2. Kept(filed[p], Rows \ ToSet(ids)) \in Seq(Rows \cap (Rows \ ToSet(ids)))
        BY <3>1, KeptLists
    <3>3. QED
        BY <3>2
  <2>2. QED
      BY <1>1, <2>1 DEF Without
<1>3. PICK row : row = rest[to]
    OBVIOUS
<1>4. row \in Seq(Rows) /\ Len(row) \in Nat /\ DOMAIN row = 1 .. Len(row)
    BY <1>2, <1>3
<1>5. PICK at : at = CASE after = AtTheEnd -> Len(row)
                       [] after = None -> 0
                       [] OTHER -> CHOOSE k \in DOMAIN row : row[k] = after
    OBVIOUS
<1>6. at \in 0 .. Len(row)
  <2>1. CASE after = AtTheEnd
      BY <1>4, <1>5, <2>1
  <2>2. CASE after # AtTheEnd /\ after = None
      BY <1>4, <1>5, <2>2
  <2>3. CASE after # AtTheEnd /\ after # None
    <3>1. row \in Seq(ToSet(row))
        BY <1>4 DEF ToSet
    <3>2. Kept(row, AllRows) \in Seq(ToSet(row) \cap AllRows)
        BY <3>1, KeptLists
    <3>3. after \in ToSet(Kept(row, AllRows))
        BY <1>1, <1>3, <2>3 DEF Alive
    <3>4. after \in ToSet(row)
        BY <3>2, <3>3 DEF ToSet
    <3>5. \E k \in DOMAIN row : row[k] = after
        BY <3>4 DEF ToSet
    <3>6. at = CHOOSE k \in DOMAIN row : row[k] = after
        BY <1>5, <2>3
    <3>7. at \in DOMAIN row
        BY <3>5, <3>6
    <3>8. QED
        BY <1>4, <3>7
  <2>4. QED
      BY <2>1, <2>2, <2>3
<1>7. SubSeq(row, 1, at) \in Seq(Rows) /\ SubSeq(row, at + 1, Len(row)) \in Seq(Rows)
  <2>1. at \in Nat /\ at <= Len(row)
      BY <1>4, <1>6
  <2>2. SubSeq(row, 1, at) \in Seq(Rows)
      BY <1>4, <2>1
  <2>3. SubSeq(row, at + 1, Len(row)) \in Seq(Rows)
      BY <1>4, <2>1
  <2>4. QED
      BY <2>2, <2>3
<1>8. PICK new : new = SubSeq(row, 1, at) \o ids \o SubSeq(row, at + 1, Len(row))
    OBVIOUS
<1>9. new \in Seq(Rows)
    BY <1>7, <1>8
<1>10. Moved(ids, to, after) = [rest EXCEPT ![to] = new]
    BY <1>1, <1>3, <1>5, <1>8 DEF Moved
<1>11. QED
    BY <1>2, <1>9, <1>10

LEMMA AppliedTypes ==
    ASSUME VaultTypes, NEW change \in Changes, ~Refuses(change), Applied(change)
    PROVE  VaultTypes'
<1>1. /\ filed \in [Places -> Seq(Rows)] /\ gone \in SUBSET Rows /\ says \in [Rows -> Words]
    BY DEF VaultTypes
<1>2. change.ids \in Seq(Rows) /\ ToSet(change.ids) \subseteq Rows
    BY DEF Changes, ToSet
<1>3. filed' \in [Places -> Seq(Rows)]
  <2>1. CASE change.kind = "move"
    <3>1. change.to \in Places
        BY <2>1 DEF Changes
    <3>2. change.after \in ToSet(Alive(Without(change.ids)[change.to])) \cup {AtTheEnd, None}
        BY <2>1 DEF Refuses
    <3>3. filed' = Moved(change.ids, change.to, change.after)
        BY <2>1 DEF Applied
    <3>4. QED
        BY <1>2, <3>1, <3>2, <3>3, MovedLists
  <2>2. CASE change.kind # "move"
      BY <1>1, <2>2 DEF Applied
  <2>3. QED
      BY <2>1, <2>2
<1>4. gone' \in SUBSET Rows
    BY <1>1, <1>2 DEF Applied
<1>5. says' \in [Rows -> Words]
  <2>1. CASE change.kind = "save"
    <3>1. change.text \in Words
        BY <2>1 DEF Changes
    <3>2. QED
        BY <1>1, <2>1, <3>1 DEF Applied
  <2>2. CASE change.kind # "save"
      BY <1>1, <2>2 DEF Applied
  <2>3. QED
      BY <2>1, <2>2
<1>6. QED
    BY <1>3, <1>4, <1>5 DEF VaultTypes

LEMMA ServesKeeps ==
    ASSUME ManagerInv, NEW c \in Chores, NEW what \in {"view", "tree", "item"}, Serves(c, what)
    PROVE  ManagerInv'
<1>1. /\ VaultTypes /\ Sound(page, chores, mail) /\ Typed(page, chores, mail)
      /\ mail \in Seq(Letters)
    BY InvOpen
<1>2. PICK all : all = chores'
    OBVIOUS
<1>3. Sent(chores, c, what, all)
    BY <1>2 DEF Serves, Sent
<1>4. PICK body : body = CASE what = "view" -> ListView(chores[c].place, chores[c].query)
                           [] what = "tree" -> Tree
                           [] what = "item" -> GetItem(Asked(chores[c]))
    OBVIOUS
<1>5. PICK m : m = Letter(c, what, body)
    OBVIOUS
<1>6. m.to = c /\ m.what = what /\ m.body = body
    BY <1>5 DEF Letter
<1>7. m \in Letters
  <2>1. CASE what = "view"
    <3>1. ChoreFits(chores[c]) /\ chores[c] \in ChoreRecords
        BY <1>1, <1>3 DEF Sent, Typed
    <3>2. chores[c].place \in Places
        BY <1>3, <2>1, <3>1 DEF Sent, ChoreFits, ChoreRecords
    <3>3. body \in Seq(AllRows)
        BY <1>1, <1>4, <2>1, <3>2, ListViewLists
    <3>4. AllRows \subseteq Rows
        BY DEF AllRows
    <3>5. body \in Seq(Rows)
        BY <3>3, <3>4, WiderLists
    <3>6. QED
        BY <1>5, <2>1, <3>5 DEF Letter, Letters
  <2>2. CASE what = "tree"
    <3>1. body \in [Places -> Nat]
        BY <1>1, <1>4, <2>2, TreeCounts
    <3>2. QED
        BY <1>5, <2>2, <3>1 DEF Letter, Letters
  <2>3. CASE what = "item"
    <3>1. body \in Items \cup {None}
        BY <1>1, <1>4, <2>3, GetItemFinds
    <3>2. QED
        BY <1>5, <2>3, <3>1 DEF Letter, Letters
  <2>4. QED
      BY <2>1, <2>2, <2>3
<1>8. /\ what = "view" => m.body = ListView(chores[c].place, chores[c].query)
      /\ what = "tree" => m.body = Tree
      /\ what = "item" => m.body = GetItem(Asked(chores[c]))
    BY <1>4, <1>6
<1>9. PICK more : more = Append(mail, m)
    OBVIOUS
<1>10. PICK pg : pg = page
    OBVIOUS
<1>11. Sound(pg, all, more)
    BY <1>1, <1>3, <1>6, <1>7, <1>8, <1>9, <1>10, AnswerKeeps
<1>12. mail' = more /\ page' = pg /\ UNCHANGED <<filed, gone, says>>
    BY <1>4, <1>5, <1>9, <1>10 DEF Serves
<1>13. QED
    BY <1>1, <1>2, <1>11, <1>12, SoundCarries

LEMMA CommitsKeeps ==
    ASSUME ManagerInv, NEW c \in Chores, Commits(c)
    PROVE  ManagerInv'
<1>1. /\ VaultTypes /\ Sound(page, chores, mail) /\ Typed(page, chores, mail)
      /\ mail \in Seq(Letters)
    BY InvOpen
<1>2. PICK all : all = chores'
    OBVIOUS
<1>3. chores[c] # None /\ "change" \in chores[c].unserved
    BY DEF Commits
<1>4. ChoreFits(chores[c]) /\ chores[c] \in ChoreRecords
    BY <1>1, <1>3 DEF Typed
<1>5. chores[c].change \in Changes /\ chores[c].unserved = {"change"}
    BY <1>3, <1>4 DEF ChoreFits, ChoreRecords
<1>6. Sent(chores, c, "change", all)
    BY <1>2, <1>3, <1>5 DEF Commits, Sent
<1>7. PICK pg : pg = page
    OBVIOUS
<1>8. CASE Refuses(chores[c].change)
  <2>1. PICK m : m = Letter(c, "change", None)
      OBVIOUS
  <2>2. m.to = c /\ m.what = "change" /\ m \in Letters
      BY <2>1 DEF Letter, Letters
  <2>3. PICK more : more = Append(mail, m)
      OBVIOUS
  <2>4. Sound(pg, all, more)
      BY <1>1, <1>6, <1>7, <2>2, <2>3, AnswerKeeps
  <2>5. mail' = more /\ page' = pg /\ UNCHANGED <<filed, gone, says>>
      BY <1>7, <1>8, <2>1, <2>3 DEF Commits
  <2>6. QED
      BY <1>1, <1>2, <2>4, <2>5, SoundCarries
<1>9. CASE ~Refuses(chores[c].change)
  <2>1. VaultTypes'
      BY <1>1, <1>5, <1>9, AppliedTypes DEF Commits
  <2>2. PICK news : news = Letter(None, "news", "VAULT_CHANGED")
      OBVIOUS
  <2>3. news \in News
      BY <2>2 DEF Letter, News
  <2>4. PICK m : m = Letter(c, "change", "OK")
      OBVIOUS
  <2>5. m.to = c /\ m.what = "change" /\ m \in Letters
      BY <2>4 DEF Letter, Letters
  <2>6. PICK told : told = Append(mail, news)
      OBVIOUS
  <2>7. PICK more : more = Append(told, m)
      OBVIOUS
  <2>8. /\ Typed(pg, chores, told)
        /\ LettersAwaited(chores, mail) => LettersAwaited(chores, told)
        /\ NewsBehind(told)
    <3>1. Typed(pg, chores, mail)
        BY <1>1, <1>7
    <3>2. QED
        BY <2>3, <2>6, <3>1, NewsSent
  <2>9. /\ Typed(pg, all, more)
        /\ LatestIsOfThePage(pg, chores) => LatestIsOfThePage(pg, all)
        /\ LettersAwaited(chores, told) => LettersAwaited(all, more)
        /\ PaintFollows(pg, chores) => PaintFollows(pg, all)
    <3>1. Typed(pg, chores, told)
        BY <2>8
    <3>2. QED
        BY <1>6, <2>5, <2>7, <3>1, AnswerSent, ZenonT(30)
  <2>10. ~pg.locked => LatestIsOfThePage(pg, all) /\ LettersAwaited(all, more) /\ PaintFollows(pg, all)
    <3>1. ~page.locked => /\ LatestIsOfThePage(page, chores) /\ LettersAwaited(chores, mail)
                          /\ PaintFollows(page, chores)
        BY <1>1 DEF Sound, Midway
    <3>2. QED
        BY <1>7, <2>8, <2>9, <3>1
  <2>11. PICK n : Grows(told, more, n, m)
    <3>1. told \in Seq(Letters)
        BY <2>8 DEF Typed
    <3>2. QED
        BY <2>5, <2>7, <3>1, MailGrows
  <2>12. Told(more)
      BY <2>8, <2>11 DEF Grows, NewsBehind, Told
  <2>13. ASSUME NEW i \in DOMAIN more, more[i].what = "item"
         PROVE  \E j \in DOMAIN more : j > i /\ more[j].to = None
    <3>1. i \in DOMAIN told /\ told[i].what = "item"
        BY <2>5, <2>11, <2>13 DEF Grows
    <3>2. PICK j \in DOMAIN told : j > i /\ told[j].to = None
        BY <2>8, <3>1 DEF NewsBehind
    <3>3. j \in DOMAIN more /\ more[j] = told[j]
        BY <2>11 DEF Grows
    <3>4. QED
        BY <3>2, <3>3
  <2>14. NewsBehind(more)
      BY <2>12, <2>13 DEF NewsBehind
  <2>15. mail' = more /\ page' = pg
    <3>1. more = mail \o <<news, m>>
        BY <1>1, <2>6, <2>7
    <3>2. QED
        BY <1>7, <1>9, <2>2, <2>4, <3>1 DEF Commits
  <2>16. QED
      BY <1>2, <2>1, <2>9, <2>10, <2>14, <2>15, OutdatedKeeps
<1>10. QED
    BY <1>8, <1>9

LEMMA UnreachableKeeps ==
    ASSUME ManagerInv, NEW c \in Chores, NEW what \in Kinds, Unreachable(c, what)
    PROVE  ManagerInv'
<1>1. /\ VaultTypes /\ Sound(page, chores, mail) /\ Typed(page, chores, mail)
      /\ mail \in Seq(Letters) /\ page \in PageRecords
    BY InvOpen
<1>2. PICK all : all = chores'
    OBVIOUS
<1>3. Sent(chores, c, what, all)
    BY <1>2 DEF Unreachable, Sent
<1>4. PICK pg : pg = [page EXCEPT !.lost = TRUE]
    OBVIOUS
<1>5. SameButLost(page, pg) /\ pg.lost = TRUE
    BY <1>1, <1>4 DEF SameButLost, PageRecords
<1>6. Typed(pg, chores, mail)
    BY <1>1, <1>5 DEF Typed, SameButLost
<1>7. PICK m : m = Letter(c, what, None)
    OBVIOUS
<1>8. m.to = c /\ m.what = what /\ m \in Letters
    BY <1>7 DEF Letter, Letters, Kinds
<1>9. PICK more : more = Append(mail, m)
    OBVIOUS
<1>10. /\ Typed(pg, all, more)
       /\ LatestIsOfThePage(pg, chores) => LatestIsOfThePage(pg, all)
       /\ LettersAwaited(chores, mail) => LettersAwaited(all, more)
       /\ PaintFollows(pg, chores) => PaintFollows(pg, all)
    BY <1>3, <1>6, <1>8, <1>9, AnswerSent
<1>11. ~pg.locked => LatestIsOfThePage(pg, all) /\ LettersAwaited(all, more) /\ PaintFollows(pg, all)
  <2>1. ~page.locked => /\ LatestIsOfThePage(page, chores) /\ LettersAwaited(chores, mail)
                        /\ PaintFollows(page, chores)
      BY <1>1 DEF Sound, Midway
  <2>2. LatestIsOfThePage(page, chores) => LatestIsOfThePage(pg, chores)
      BY <1>5 DEF SameButLost, LatestIsOfThePage
  <2>3. PaintFollows(page, chores) => PaintFollows(pg, chores)
      BY <1>5 DEF SameButLost, PaintFollows
  <2>4. pg.locked = page.locked
      BY <1>5 DEF SameButLost
  <2>5. QED
      BY <1>10, <2>1, <2>2, <2>3, <2>4
<1>12. VaultTypes'
  <2>1. CASE UNCHANGED <<filed, gone, says>>
      BY <1>1, <2>1 DEF VaultTypes
  <2>2. CASE what = "change" /\ ~Refuses(chores[c].change) /\ Applied(chores[c].change)
    <3>1. ChoreFits(chores[c]) /\ chores[c] \in ChoreRecords
        BY <1>1, <1>3 DEF Sent, Typed
    <3>2. chores[c].change \in Changes
        BY <1>3, <2>2, <3>1 DEF Sent, ChoreFits, ChoreRecords
    <3>3. QED
        BY <1>1, <2>2, <3>2, AppliedTypes
  <2>3. QED
      BY <2>1, <2>2 DEF Unreachable
<1>13. mail' = more /\ page' = pg
    BY <1>4, <1>7, <1>9 DEF Unreachable
<1>14. pg.lost
    BY <1>5
<1>15. QED
    BY <1>2, <1>10, <1>11, <1>12, <1>13, <1>14, OutdatedKeeps

LEMMA ElsewhereKeeps ==
    ASSUME ManagerInv, ChangesElsewhere \/ LocksElsewhere
    PROVE  ManagerInv'
<1>1. /\ VaultTypes /\ Sound(page, chores, mail) /\ Typed(page, chores, mail)
    BY InvOpen
<1>2. PICK m \in News : mail' = Append(mail, m)
  <2>1. /\ Letter(None, "news", "VAULT_CHANGED") \in News
        /\ Letter(None, "news", "SESSION_LOCKED") \in News
      BY DEF Letter, News
  <2>2. QED
      BY <2>1 DEF ChangesElsewhere, LocksElsewhere
<1>3. PICK more : more = mail'
    OBVIOUS
<1>4. PICK pg, ks : pg = page /\ ks = chores
    OBVIOUS
<1>5. /\ Typed(pg, ks, more)
      /\ LettersAwaited(ks, mail) => LettersAwaited(ks, more)
      /\ NewsBehind(more)
  <2>1. Typed(pg, ks, mail)
      BY <1>1, <1>4
  <2>2. more = Append(mail, m)
      BY <1>2, <1>3
  <2>3. QED
      BY <2>1, <2>2, NewsSent
<1>6. ~pg.locked => LatestIsOfThePage(pg, ks) /\ LettersAwaited(ks, more) /\ PaintFollows(pg, ks)
    BY <1>1, <1>4, <1>5 DEF Sound, Midway
<1>7. VaultTypes'
  <2>1. CASE ChangesElsewhere
    <3>1. PICK r \in AllRows : \/ gone' = gone \cup {r} /\ UNCHANGED says
                               \/ UNCHANGED gone /\ \E w \in Words : says' = [says EXCEPT ![r] = w]
        BY <2>1 DEF ChangesElsewhere
    <3>2. filed' = filed /\ r \in Rows
        BY <2>1 DEF ChangesElsewhere, AllRows
    <3>3. QED
        BY <1>1, <3>1, <3>2 DEF VaultTypes
  <2>2. CASE LocksElsewhere
      BY <1>1, <2>2 DEF VaultTypes, LocksElsewhere
  <2>3. QED
      BY <2>1, <2>2
<1>8. page' = pg /\ chores' = ks
    BY <1>4 DEF ChangesElsewhere, LocksElsewhere
<1>9. QED
    BY <1>3, <1>5, <1>6, <1>7, <1>8, OutdatedKeeps

-----------------------------------------------------------------------------
(* The page as it opens, every step, and what follows when all is quiet    *)

LEMMA InitManager == ManagerInit => ManagerInv
<1> SUFFICES ASSUME ManagerInit PROVE ManagerInv
    OBVIOUS
<1>1. PICK start : start = CHOOSE p \in Places : TRUE
    OBVIOUS
<1>2. PICK k : k = Reload(start, None, {"tree", "view"}, "show", <<>>)
    OBVIOUS
<1>3. PICK c : c = OneOf(Chores)
    OBVIOUS
<1>4. /\ filed = [p \in Places |-> IF p = start THEN Increasing(Rows) ELSE <<>>]
      /\ page = [place |-> start, query |-> None, box |-> None, settling |-> FALSE,
                 selection |-> {}, rows |-> <<>>, shown |-> <<>>, tree |-> None,
                 detail |-> None, dragging |-> {}, dialog |-> None, undo |-> None,
                 lost |-> FALSE, locked |-> FALSE]
      /\ chores = [d \in Chores |-> IF d = c THEN k ELSE None]
      /\ mail = <<>> /\ gone = {} /\ says = [r \in Rows |-> CHOOSE w \in Words : TRUE]
    BY <1>1, <1>2, <1>3 DEF ManagerInit
<1>5. start \in Places /\ c \in Chores /\ (CHOOSE w \in Words : TRUE) \in Words
    BY <1>1, <1>3, ManagerAssumption DEF ManagerAssumption, OneOf
<1>6. VaultTypes
  <2>1. Rows \in SUBSET Nat /\ IsFiniteSet(Rows)
      BY ManagerAssumption DEF ManagerAssumption
  <2>2. Increasing(Rows) \in Seq(Rows)
      BY <2>1, IncreasingLists
  <2>3. QED
      BY <1>4, <1>5, <2>2 DEF VaultTypes
<1>7. page \in PageRecords /\ page.place = start /\ page.query = None
    BY <1>4, <1>5 DEF PageRecords
<1>8. /\ k \in ChoreRecords /\ ChoreFits(k) /\ k # None
      /\ Loading(k) /\ IsLatest(k) /\ k.goal # "detail"
      /\ k.place = start /\ k.query = None /\ k.unserved = {"tree", "view"}
  <2>1. PICK what \in SUBSET {"tree", "view"} : what = {"tree", "view"}
      OBVIOUS
  <2>2. None \in Words \cup {None} /\ <<>> \in Seq(Rows)
      OBVIOUS
  <2>3. PICK q \in Words \cup {None} : q = None
      BY <2>2
  <2>4. k = Reload(start, q, what, "show", <<>>) /\ "view" \in what
      BY <1>2, <2>1, <2>3
  <2>5. ReloadOf(start, q, what, Reload(start, q, what, "show", <<>>))
      BY <1>5, <2>2, <2>4, ReloadIsAChore
  <2>6. ReloadOf(start, q, what, k)
      BY <2>4, <2>5
  <2>7. QED
      BY <2>1, <2>3, <2>6 DEF ReloadOf
<1>9. chores[c] = k /\ \A d \in Chores : d # c => chores[d] = None
    BY <1>4, <1>5
<1>10. DOMAIN mail = {} /\ mail \in Seq(Letters)
    BY <1>4
<1>11. Typed(page, chores, mail)
  <2>1. chores \in [Chores -> ChoreRecords \cup {None}]
      BY <1>4, <1>8
  <2>2. QED
      BY <1>7, <1>8, <1>9, <1>10, <2>1 DEF Typed
<1>12. LatestIsOfThePage(page, chores)
    BY <1>7, <1>8, <1>9 DEF LatestIsOfThePage, IsLatest
<1>13. LettersAwaited(chores, mail) /\ ItemsAreFresh(page, chores, mail)
    BY <1>10 DEF LettersAwaited, ItemsAreFresh
<1>14. TreeFollows(page, chores, mail)
    BY <1>5, <1>8, <1>9 DEF TreeFollows, Unserved
<1>15. ViewFollows(page, chores, mail)
    BY <1>5, <1>8, <1>9 DEF ViewFollows
<1>16. PaintFollows(page, chores) /\ DetailFollows(page, chores, mail)
    BY <1>5, <1>8, <1>9 DEF PaintFollows, DetailFollows
<1>17. ~page.locked
    BY <1>4
<1>18. QED
    BY <1>6, <1>11, <1>12, <1>13, <1>14, <1>15, <1>16, <1>17 DEF ManagerInv, Sound, Midway

LEMMA ManagerKeeps == ManagerInv /\ [ManagerNext]_manager => ManagerInv'
<1> SUFFICES ASSUME ManagerInv, [ManagerNext]_manager PROVE ManagerInv'
    OBVIOUS
<1>1. CASE Types \/ Drag \/ Asks \/ Cancels
    BY <1>1, PageAloneSteps
<1>2. CASE EscapesSearch \/ Settles
    BY <1>2, SearchStepsKeep
<1>3. CASE GoTo
    BY <1>3, GoToKeeps
<1>4. CASE Click
    BY <1>4, ClickKeeps
<1>5. CASE DropInFolder
    BY <1>5, DropInFolderKeeps
<1>6. CASE DropAt
    BY <1>6, DropAtKeeps
<1>7. CASE Nudge
    BY <1>7, NudgeKeeps
<1>8. CASE SaveDetail
    BY <1>8, SaveDetailKeeps
<1>9. CASE ConfirmsDelete
    BY <1>9, ConfirmsDeleteKeeps
<1>10. CASE ConfirmsMove
    BY <1>10, ConfirmsMoveKeeps
<1>11. CASE Undo
    BY <1>11, UndoKeeps
<1>12. CASE Receives
    BY <1>12, ReceivesKeeps
<1>13. ASSUME NEW c \in Chores, Commits(c)
       PROVE  ManagerInv'
    BY <1>13, CommitsKeeps
<1>14. ASSUME NEW c \in Chores, NEW what \in {"view", "tree", "item"}, Serves(c, what)
       PROVE  ManagerInv'
    BY <1>14, ServesKeeps
<1>15. ASSUME NEW c \in Chores, NEW what \in {"view", "tree", "item", "change"}, Unreachable(c, what)
       PROVE  ManagerInv'
  <2>1. what \in Kinds
      BY DEF Kinds
  <2>2. QED
      BY <1>15, <2>1, UnreachableKeeps
<1>16. CASE ChangesElsewhere \/ LocksElsewhere
    BY <1>16, ElsewhereKeeps
<1>17. CASE UNCHANGED manager
  <2>1. VaultTypes /\ Sound(page, chores, mail)
      BY InvOpen
  <2>2. PICK pg, ks, ml : pg = page /\ ks = chores /\ ml = mail
      OBVIOUS
  <2>3. /\ UNCHANGED <<filed, gone, says>>
        /\ page' = pg /\ chores' = ks /\ mail' = ml
      BY <1>17, <2>2 DEF manager
  <2>4. Sound(pg, ks, ml)
      BY <2>1, <2>2
  <2>5. QED
      BY <2>1, <2>3, <2>4, SoundCarries
<1>18. QED
    BY <1>1, <1>2, <1>3, <1>4, <1>5, <1>6, <1>7, <1>8, <1>9, <1>10, <1>11, <1>12, <1>13, <1>14,
       <1>15, <1>16, <1>17 DEF ManagerNext

LEMMA QuietFollows == ManagerInv => QuietPageShowsTheVault
<1> SUFFICES ASSUME ManagerInv, ~page.locked, ~page.lost, mail = <<>>,
                    \A c \in Chores : chores[c] = None
             PROVE  QuietPageShowsTheVault
    BY DEF QuietPageShowsTheVault
<1>1. /\ PaintFollows(page, chores) /\ DetailFollows(page, chores, mail)
      /\ TreeFollows(page, chores, mail) /\ ViewFollows(page, chores, mail)
    BY InvOpen DEF Midway
<1>2. DOMAIN mail = {} /\ ~Told(mail)
    BY DEF Told
<1>3. page.tree = Tree
    BY <1>1, <1>2 DEF TreeFollows, Unserved
<1>4. page.rows = ListView(page.place, page.query)
    BY <1>1, <1>2 DEF ViewFollows, IsLatest
<1>5. page.shown = page.rows
    BY <1>1 DEF PaintFollows, Loading, AtItem
<1>6. page.detail = IF Sole(page) = None THEN None ELSE GetItem(Sole(page))
    BY <1>1, <1>2 DEF DetailFollows, Loading, AtItem
<1>7. QED
    BY <1>3, <1>4, <1>5, <1>6 DEF QuietPageShowsTheVault

(* A manager page with nothing under way (no answer, no news, no search    *)
(* still settling) shows the vault as it is: the rows of its place or its  *)
(* search, the counts of the tree and the one selected bookmark, however   *)
(* often refreshView, refreshDetail and reloadAll overtook one another,    *)
(* unless it has said that a call failed and nothing was loaded since.     *)
THEOREM QuietPageAlwaysShowsTheVault == ManagerSpec => []QuietPageShowsTheVault
<1>1. ManagerInit => ManagerInv
    BY InitManager
<1>2. ManagerInv /\ [ManagerNext]_manager => ManagerInv'
    BY ManagerKeeps
<1>3. ManagerInv => QuietPageShowsTheVault
    BY QuietFollows
<1>4. QED
    BY <1>1, <1>2, <1>3, PTL DEF ManagerSpec
================================================================================
