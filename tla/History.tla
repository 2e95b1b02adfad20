------------------------------- MODULE History -------------------------------
(***************************************************************************)
(* History hygiene (background/history.ts, history/cleanup.ts, domain.ts,  *)
(* match.ts, the queue of background/incognito.ts, the panel of            *)
(* ui/history-cleanup.ts): deleting from Chrome's history what the vault   *)
(* holds, on a button, for one bookmark, on lock, or by quick-close.       *)
(*                                                                         *)
(* A task is an asynchronous procedure of the worker; what runs between    *)
(* two awaits is one step.  The user goes on visiting pages, editing the   *)
(* vault and granting or revoking the permission between them.             *)
(*                                                                         *)
(* Abstraction.  A URL is a record: its registrable domain (`site'),       *)
(* whether it names a port, and its query.  The public suffix list is read *)
(* or is not.                                                              *)
(***************************************************************************)
EXTENDS Integers, FiniteSets

CONSTANTS
    Urls,           \* records [site, port, query]
    Mentions,       \* what chrome.history.search() can find for a site: more than its URLs
    Tasks,          \* 1 .. n: procedures that may run at a time
    MaxHistory      \* bound: what the user does and what fails

VARIABLES
    saved,      \* the URLs of the live bookmarks
    visited,    \* chrome.history
    permitted,    \* the optional permission
    clears,     \* settings.clearHistoryOnLock
    queue,      \* vm.historyQueue: hosts
    unlocked,
    tasks,
    panel,      \* ui/history-cleanup.ts
    promised,   \* history: sites queued in this session
    ticked,     \* history: sites ever queued
    owed,       \* history: see PromisesAreKept
    broken,     \* history: see PromisesAreKept
    past

history ==
    <<saved, visited, permitted, clears, queue, unlocked, tasks, panel, promised, ticked, owed,
      broken, past>>

Sites == {u.site : u \in Urls}
Resting == [at |-> "rest"]

(* A search finds at least the site's own URLs; no URL is on "nowhere".    *)
ASSUME HistoryAssumption ==
    /\ Tasks \subseteq Int
    /\ \A u \in Urls :
        u.port \in BOOLEAN /\ u.site # "nowhere" /\ u \in Mentions[u.site]

HistoryInit ==
    /\ saved \in {{u} : u \in Urls}
    /\ visited = Urls
    /\ permitted = TRUE
    /\ clears = FALSE
    /\ queue = {}
    /\ unlocked = TRUE
    /\ tasks = [t \in Tasks |-> Resting]
    /\ panel = [at |-> "idle", sites |-> {}]
    /\ promised = {} /\ ticked = {} /\ owed = {} /\ broken = FALSE
    /\ past = 0

-----------------------------------------------------------------------------
(* URLs *)

(* URL.host keeps the port; registrableDomain() splits at the dots and     *)
(* takes it for part of the name, a site no URL of history is on.          *)
Host(u) == <<u.site, u.port>>
RegistrableDomain(host) == IF host[2] THEN "nowhere" ELSE host[1]
QueuedSites == {RegistrableDomain(host) : host \in queue}

(* domainsOf(): vaultDomains() without its tombstones.                     *)
DomainsOf(urls) == {u.site : u \in urls}

(* isSamePage(): a bookmark without a query stands for any.                *)
SamePage(item, u) ==
    /\ item.site = u.site /\ item.port = u.port
    /\ item.query = "" \/ item.query = u.query

(* scanHistory(): search() over-matches, and every result is checked.      *)
ScanUnchecked(sites) == visited \cap UNION {Mentions[s] : s \in sites}     (* Bug *)

Scan(sites) == {u \in visited : \E s \in sites : u \in Mentions[s] /\ u.site = s}

-----------------------------------------------------------------------------
(* Tasks *)

Happens == past < MaxHistory /\ past' = past + 1

Begins(t, task) ==
    /\ Happens
    /\ tasks[t] = Resting
    /\ \A i \in Tasks : i < t => tasks[i] # Resting
    /\ tasks' = [tasks EXCEPT ![t] = task]

Goes(t, at) == tasks' = [tasks EXCEPT ![t].at = at]
Rests(t) == tasks' = [tasks EXCEPT ![t] = Resting]

(* `allowed' is a history field: the sites the vault held at some moment    *)
(* since the task was asked.                                               *)
Task(for, only) ==
    [at |-> "permission", for |-> for, only |-> only, sites |-> {}, urls |-> {},
     allowed |-> DomainsOf(saved)]

Locking == \E t \in Tasks : tasks[t] # Resting /\ tasks[t].for = "lock"

-----------------------------------------------------------------------------
(* The world *)

Visits ==
    /\ Happens
    /\ \E u \in Urls \ visited :
        /\ visited' = visited \cup {u}
        /\ owed' = owed \ {u}
    /\ UNCHANGED <<saved, permitted, clears, queue, unlocked, tasks, panel, promised, ticked, broken>>

(* A bookmark is added, edited or deleted by another handler.              *)
VaultEdited ==
    /\ Happens
    /\ unlocked
    /\ \E u \in Urls : saved' = IF u \in saved THEN saved \ {u} ELSE saved \cup {u}
    /\ tasks' = [t \in Tasks |->
                    IF tasks[t].at \in {"rest", "read queue", "write queue"} THEN tasks[t]
                    ELSE [tasks[t] EXCEPT !.allowed = @ \cup DomainsOf(saved')]]
    /\ UNCHANGED <<visited, permitted, clears, queue, unlocked, panel, promised, ticked, owed, broken>>

PermissionFlips ==
    /\ Happens
    /\ permitted' = ~permitted
    /\ broken' = (broken \/ Locking)
    /\ UNCHANGED <<saved, visited, clears, queue, unlocked, tasks, panel, promised, ticked, owed>>

SettingFlips ==
    /\ Happens
    /\ clears' = ~clears
    /\ UNCHANGED <<saved, visited, permitted, queue, unlocked, tasks, panel, promised, ticked, owed, broken>>

Unlocks ==
    /\ Happens
    /\ ~unlocked
    /\ unlocked' = TRUE
    /\ owed' = {} /\ broken' = ~(promised \subseteq QueuedSites)
    /\ UNCHANGED <<saved, visited, permitted, clears, queue, tasks, panel, promised, ticked>>

(* storage.session survives the worker, the key in it too.                 *)
HistoryWorkerDies ==
    /\ Happens
    /\ tasks' = [t \in Tasks |-> Resting]
    /\ panel' = IF panel.at \in {"checking", "clearing"} THEN [at |-> "idle", sites |-> {}] ELSE panel
    /\ UNCHANGED <<saved, visited, permitted, clears, queue, unlocked, promised, ticked, owed, broken>>

-----------------------------------------------------------------------------
(* The panel *)

(* The button of paintIdle(); of the permission notice.                    *)
Checks(t) ==
    /\ panel.at = "idle"
    /\ Begins(t, Task("preview", {}))
    /\ panel' = [panel EXCEPT !.at = "checking"]
    /\ UNCHANGED <<saved, visited, permitted, clears, queue, unlocked, promised, ticked, owed, broken>>

Grants ==
    /\ panel.at = "ungranted"
    /\ \/ permitted' = TRUE /\ panel' = [panel EXCEPT !.at = "idle"]
       \/ permitted' = FALSE /\ panel' = [panel EXCEPT !.at = "refused"]
    /\ broken' = (broken \/ (Locking /\ permitted' # permitted))
    /\ UNCHANGED <<saved, visited, clears, queue, unlocked, tasks, promised, ticked, owed, past>>

(* The panel is built anew when its screen is opened again.                *)
Reopens ==
    /\ Happens
    /\ panel.at \notin {"checking", "clearing"}
    /\ panel' = [at |-> IF permitted THEN "idle" ELSE "ungranted", sites |-> {}]
    /\ UNCHANGED <<saved, visited, permitted, clears, queue, unlocked, tasks, promised, ticked, owed, broken>>

(* confirmAndClear(), confirmAndClearOne(): the list may be minutes old.   *)
Confirms(t) ==
    /\ panel.at = "preview"
    /\ \E only \in {panel.sites} \cup {{s} : s \in panel.sites} :
        /\ Begins(t, Task("sites", IF only = panel.sites THEN Sites ELSE only))
        /\ panel' = [at |-> "clearing", sites |-> panel.sites \ only]
    /\ UNCHANGED <<saved, visited, permitted, clears, queue, unlocked, promised, ticked, owed, broken>>

-----------------------------------------------------------------------------
(* The other ways in *)

(* FORGET_ITEM_HISTORY, after its own confirmation.                        *)
Forgets(t) ==
    /\ unlocked
    /\ \E u \in saved :
        Begins(t, Task("item", {u}))
    /\ UNCHANGED <<saved, visited, permitted, clears, queue, unlocked, panel, promised, ticked, owed, broken>>

(* quickClose(): the site of the active tab, in the vault or not.          *)
QuickCloses(t) ==
    /\ \E s \in Sites : Begins(t, Task("tab", {s}))
    /\ UNCHANGED <<saved, visited, permitted, clears, queue, unlocked, panel, promised, ticked, owed, broken>>

(* items.open() in a normal window, "clear this afterwards" ticked.        *)
Opens(t) ==
    /\ unlocked
    /\ \E u \in saved :
        /\ Begins(t, [at |-> "read queue", for |-> "open", url |-> u])
        /\ visited' = visited \cup {u}
        /\ owed' = owed \ {u}
    /\ UNCHANGED <<saved, permitted, clears, queue, unlocked, panel, promised, ticked, broken>>

(* queueHistoryCleanup(): read, then written.                              *)
ReadsQueue(t) ==
    /\ tasks[t].at = "read queue"
    /\ tasks' = [tasks EXCEPT ![t] =
            [at |-> "write queue", for |-> "open", url |-> tasks[t].url, seen |-> queue]]
    /\ UNCHANGED <<saved, visited, permitted, clears, queue, unlocked, panel, promised, ticked, owed, broken, past>>

WritesQueue(t) ==
    /\ tasks[t].at = "write queue"
    /\ LET url == tasks[t].url
           site == {url.site} \ {IF url.port THEN url.site ELSE "nowhere"}
       IN  /\ queue' = tasks[t].seen \cup {Host(url)}
           /\ promised' = promised \cup site
           /\ ticked' = ticked \cup site
    /\ broken' = (broken \/ ~(queue \subseteq tasks[t].seen))
    /\ Rests(t)
    /\ UNCHANGED <<saved, visited, permitted, clears, unlocked, panel, owed, past>>

(* lock(), not a panic: cleanOnLock() on the vault that is still open.     *)
LockBegins(t) ==
    /\ unlocked
    /\ ~Locking
    /\ Begins(t, Task("lock", IF clears THEN Sites ELSE {}))
    /\ owed' = {u \in visited : u.site \in promised}
    /\ broken' = (broken \/ ~permitted)
    /\ UNCHANGED <<saved, visited, permitted, clears, queue, unlocked, panel, promised, ticked>>

(* A panic-lock skips the cleanup.                                         *)
Panics ==
    /\ Happens
    /\ unlocked /\ ~Locking
    /\ unlocked' = FALSE
    /\ queue' = {} /\ promised' = {} /\ owed' = {}
    /\ UNCHANGED <<saved, visited, permitted, clears, tasks, panel, ticked, broken>>

-----------------------------------------------------------------------------
(* How a task goes on *)

(* What its asker is told: the panel shows that nothing was cleared, the   *)
(* lock goes on whatever happened.                                         *)
GivesUp(t, notice) ==
    CASE tasks[t].for = "lock" -> Goes(t, "clear queue") /\ UNCHANGED panel
      [] tasks[t].for \in {"preview", "sites"} -> Rests(t) /\ panel' = [panel EXCEPT !.at = notice]
      [] OTHER -> Rests(t) /\ UNCHANGED panel

AsksPermission(t) ==
    /\ tasks[t].at = "permission"
    /\ IF permitted THEN Goes(t, "vault") /\ UNCHANGED panel
       ELSE GivesUp(t, IF tasks[t].for = "preview" THEN "ungranted" ELSE "failed")
    /\ UNCHANGED <<saved, visited, permitted, clears, queue, unlocked, promised, ticked, owed, broken, past>>

(* The sites to search, once the public suffix list is there: vaultDomains,*)
(* its intersection with what was asked for, or the queue.                 *)
WantedIfSet(task) ==    (* Bug: the queue is drained only under clearHistoryOnLock *)
    IF task.for = "preview" THEN DomainsOf(saved)
    ELSE IF task.for = "item" THEN DomainsOf(task.only \cap saved)
    ELSE IF task.for = "tab" THEN task.only
    ELSE DomainsOf(saved) \cap task.only

Wanted(task) ==
    CASE task.for = "preview" -> DomainsOf(saved)
      [] task.for = "sites" -> DomainsOf(saved) \cap task.only
      [] task.for = "item" -> DomainsOf(task.only \cap saved)
      [] task.for = "tab" -> task.only
      [] task.for = "lock" ->
            QueuedSites \cup (task.only \cap DomainsOf(saved))

ReadsVault(t) ==
    /\ tasks[t].at = "vault"
    /\ \/ /\ unlocked \/ tasks[t].for = "tab"
          /\ tasks' = [tasks EXCEPT ![t].at = "search", ![t].sites = Wanted(tasks[t])]
          /\ UNCHANGED <<panel, broken, past>>
       \/ /\ ~unlocked
          /\ GivesUp(t, "failed")
          /\ UNCHANGED <<broken, past>>
       \/ \* the list cannot be read
          /\ Happens
          /\ GivesUp(t, "failed")
          /\ broken' = (broken \/ tasks[t].for = "lock")
    /\ UNCHANGED <<saved, visited, permitted, clears, queue, unlocked, promised, ticked, owed>>

Found(task) ==
    IF task.for = "item" THEN {u \in Scan(task.sites) : \A item \in task.only : SamePage(item, u)}
    ELSE Scan(task.sites)

Searches(t) ==
    /\ tasks[t].at = "search"
    /\ IF tasks[t].for = "preview"
         THEN /\ panel' = [at |-> "preview", sites |-> DomainsOf(Scan(tasks[t].sites))]
              /\ Rests(t)
         ELSE /\ tasks' = [tasks EXCEPT ![t].at = "delete", ![t].urls = Found(tasks[t])]
              /\ UNCHANGED panel
    /\ UNCHANGED <<saved, visited, permitted, clears, queue, unlocked, promised, ticked, owed, broken, past>>

(* deleteHistory(), one URL at a time; one Chrome refuses is left.         *)
DeletesOne(t) ==
    /\ tasks[t].at = "delete"
    /\ \E u \in tasks[t].urls :
        /\ tasks' = [tasks EXCEPT ![t].urls = @ \ {u}]
        /\ \/ visited' = visited \ {u} /\ UNCHANGED <<broken, past>>
           \/ Happens /\ broken' = (broken \/ tasks[t].for = "lock") /\ UNCHANGED visited
    /\ UNCHANGED <<saved, permitted, clears, queue, unlocked, panel, promised, ticked, owed>>

(* Back to the rest of the list, or to the button.                         *)
Finishes(t) ==
    /\ tasks[t].at = "delete" /\ tasks[t].urls = {}
    /\ IF tasks[t].for = "lock" THEN Goes(t, "clear queue") ELSE Rests(t)
    /\ panel' = IF tasks[t].for # "sites" THEN panel
                ELSE [panel EXCEPT !.at = IF panel.sites = {} THEN "idle" ELSE "preview"]
    /\ UNCHANGED <<saved, visited, permitted, clears, queue, unlocked, promised, ticked, owed, broken, past>>

ClearsQueue(t) ==
    /\ tasks[t].at = "clear queue"
    /\ queue' = {} /\ promised' = {}
    /\ Goes(t, "drop key")
    /\ UNCHANGED <<saved, visited, permitted, clears, unlocked, panel, ticked, owed, broken, past>>

(* lock() clears the whole session area.                                   *)
DropsKey(t) ==
    /\ tasks[t].at = "drop key"
    /\ unlocked' = FALSE
    /\ queue' = {} /\ promised' = {}
    /\ Rests(t)
    /\ UNCHANGED <<saved, visited, permitted, clears, panel, ticked, owed, broken, past>>

HistoryNext ==
    \/ Visits \/ VaultEdited \/ PermissionFlips \/ SettingFlips \/ Unlocks
    \/ HistoryWorkerDies \/ Grants \/ Reopens \/ Panics
    \/ \E t \in Tasks :
        \/ Checks(t) \/ Confirms(t) \/ Forgets(t) \/ QuickCloses(t) \/ Opens(t)
        \/ ReadsQueue(t) \/ WritesQueue(t) \/ LockBegins(t)
        \/ AsksPermission(t) \/ ReadsVault(t) \/ Searches(t) \/ DeletesOne(t) \/ Finishes(t)
        \/ ClearsQueue(t) \/ DropsKey(t)

HistorySpec == HistoryInit /\ [][HistoryNext]_history

-----------------------------------------------------------------------------
(* "Only vaulted domains are deleted": an entry goes only for a task whose *)
(* sites it is on, and those are sites the vault held since the task was   *)
(* asked, whatever list the page kept on screen meanwhile; one bookmark's  *)
(* button deletes its page alone; a lock adds what the user ticked, and    *)
(* quick-close is the exception.                                           *)
OnlyVaultedHistoryGoes ==
    [][\A u \in visited \ visited' : \E t \in Tasks :
        /\ tasks[t].at = "delete"
        /\ CASE tasks[t].for = "sites" -> u.site \in tasks[t].only \cap tasks[t].allowed
             [] tasks[t].for = "item" -> \A item \in tasks[t].only : SamePage(item, u)
             [] tasks[t].for = "tab" -> u.site \in tasks[t].only
             [] tasks[t].for = "lock" ->
                    u.site \in ticked \cup (tasks[t].only \cap tasks[t].allowed)]_history

(* "That tick is a promise": what history held of the queued sites when    *)
(* the lock began is gone when it ends, visited again or not at all.       *)
(* Excused are a missing permission, a list or a deletion that failed, a   *)
(* panic, and two opens that queue at once, of which one is forgotten; a   *)
(* tick that reaches the queue after the lock has read it is dropped.      *)
(* A host with a port is never promised here: nothing is ever found on it. *)
PromisesAreKept ==
    ~unlocked /\ ~broken => owed \cap visited = {}
=============================================================================
