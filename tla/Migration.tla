------------------------------ MODULE Migration ------------------------------
(***************************************************************************)
(* Moving a vault between the sync area and Drive (src/sync/migration.ts,  *)
(* started by connectDrive() and disconnectDrive() of                      *)
(* src/background/syncing.ts), on one computer, while another computer     *)
(* syncs through one of the two and the user goes on adding bookmarks.     *)
(*                                                                         *)
(* Abstractions.  A bookmark is its id and is only ever added: what        *)
(* goes away, a sync took for removed elsewhere.  A push to a provider is  *)
(* one step (modules SyncEngine and Drive look inside), and so is a run of *)
(* the sync engine.  A vault opens for the computers that hold its key.    *)
(***************************************************************************)
EXTENDS Naturals, FiniteSets

CONSTANTS
    This, Other,    \* the computer that migrates, and another one
    Items,          \* bookmarks
    None,           \* JavaScript's null
    MaxMoves,       \* bound: migrations started
    MaxSyncs        \* bound: revision from which no sync is run

Computers == {This, Other}
Stores == {"chrome", "drive"}
Keys == {"ours", "theirs"}

(* An EncryptedVault as a provider holds it, and a merge base.             *)
Stored == [rev : Nat, items : SUBSET Items, key : Keys]
Bases == [items : SUBSET Items, rev : Nat, stamp : Stored]

ASSUME MigrationConstants ==
    /\ This # Other
    /\ {MaxMoves, MaxSyncs} \subseteq Nat
    /\ None \notin Stored \cup Bases

VARIABLES
    items,      \* by computer: repo.items()
    rev,        \* by computer: repo.header().vaultRev
    key,        \* by computer: the key of its vault
    providerId, \* by computer: vm.settings.providerId
    base,       \* by computer: vm.base and vm.baseMeta
    remote,     \* by store: the vault in it, or None
    job,        \* migrateProvider() in progress, None if none
    added,      \* history: the bookmarks users added
    moves       \* what MaxMoves bounds

vault == <<items, rev, key>>
migration == <<items, rev, key, providerId, base, remote, job, added, moves>>

Steps == {"init", "peek", "pull", "push", "verifyPeek", "verifyPull", "switch",
          "clearBase", "saveBase", "clean"}
Jobs == [pc : Steps, to : Stores, from : Stores, items : SUBSET Items,
         replace : BOOLEAN, clear : BOOLEAN, expect : Stored \cup {None},
         stamp : Stored \cup {None}]

Readable(c, p) == remote[p] # None /\ remote[p].key = key[c]

-----------------------------------------------------------------------------
(* Initial states: this computer syncs through one store; the other one    *)
(* shares its vault, through the same store or the other, or has its own.  *)

Empty(k) == [rev |-> 1, items |-> {}, key |-> k]

MigrationInit ==
    /\ items = [c \in Computers |-> {}]
    /\ rev = [c \in Computers |-> 1]
    /\ \E p \in [Computers -> Stores], k \in Keys :
        /\ k = "theirs" => p[Other] # p[This]
        /\ providerId = p
        /\ key = [c \in Computers |-> IF c = This THEN "ours" ELSE k]
        /\ remote = [s \in Stores |->
                        IF s = p[This] THEN Empty("ours")
                        ELSE IF s = p[Other] THEN Empty(k) ELSE None]
        /\ base = [c \in Computers |->
                    [items |-> {}, rev |-> 1, stamp |-> Empty(key[c])]]
    /\ job = None
    /\ added = {}
    /\ moves = 0

-----------------------------------------------------------------------------
(* What goes on meanwhile *)

AddOn(c) ==
    /\ \E i \in Items \ added :
        /\ items' = [items EXCEPT ![c] = @ \cup {i}]
        /\ added' = added \cup {i}
    /\ rev' = [rev EXCEPT ![c] = @ + 1]
    /\ UNCHANGED <<key, providerId, base, remote, job, moves>>

Larger(a, b) == IF a > b THEN a ELSE b

(* merge(): an item in the base that one side no longer has was removed    *)
(* there.                                                                  *)
MergedItems(b, l, r) == (l \cap r) \cup (l \ b) \cup (r \ b)

Publish(c, its, n) ==
    LET v == [rev |-> n, items |-> its, key |-> key[c]] IN
    /\ remote' = [remote EXCEPT ![providerId[c]] = v]
    /\ base' = [base EXCEPT ![c] = [items |-> its, rev |-> n, stamp |-> v]]

(* run() of the engine, where there is something to do.                    *)
SyncOn(c) ==
    LET r == remote[providerId[c]]
        b == base[c]
        merged == MergedItems(IF b = None THEN {} ELSE b.items, items[c], r.items)
        n == Larger(rev[c], r.rev) + (IF merged = items[c] THEN 0 ELSE 1)
    IN
    /\ rev[c] < MaxSyncs
    /\ \/ /\ r = None
          /\ Publish(c, items[c], rev[c])
          /\ UNCHANGED <<items, rev>>
       \/ /\ r # None
          /\ b # None
          /\ b.stamp = r
          /\ b.rev # rev[c]
          /\ Publish(c, items[c], rev[c])
          /\ UNCHANGED <<items, rev>>
       \/ /\ r # None
          /\ b # None => b.stamp # r
          /\ r.key = key[c]
          /\ items' = [items EXCEPT ![c] = merged]
          /\ rev' = [rev EXCEPT ![c] = n]
          /\ Publish(c, merged, n)
    /\ UNCHANGED <<key, providerId, job, added, moves>>

-----------------------------------------------------------------------------
(* migrateProvider() *)

(* connectDrive() clears the sync area in the end, disconnectDrive() the   *)
(* copy on Drive if asked to.  The items are taken now, the revision is    *)
(* read when it is needed.                                                 *)
StartMigration(to, replace, clear) ==
    /\ job = None
    /\ moves < MaxMoves
    /\ to # providerId[This]
    /\ to = "chrome" => ~replace
    /\ to = "drive" => clear
    /\ moves' = moves + 1
    /\ job' = [pc |-> "init", to |-> to, from |-> providerId[This],
               items |-> items[This], replace |-> replace, clear |-> clear,
               expect |-> None, stamp |-> None]
    /\ UNCHANGED <<vault, providerId, base, remote, added>>

Goto(pc) == job' = [job EXCEPT !.pc = pc]
At(pc) == job # None /\ job.pc = pc

(* The vault fits, and the provider answers.                               *)
Authorizes ==
    /\ At("init")
    /\ Goto("peek")
    /\ UNCHANGED <<vault, providerId, base, remote, added, moves>>

(* It does not fit in the sync area, or a request throws: nothing flips.   *)
GivesUp ==
    /\ job # None
    /\ job.pc \notin {"clearBase", "saveBase", "clean"}
    /\ job' = None
    /\ UNCHANGED <<vault, providerId, base, remote, added, moves>>

(* placeVault() *)
Peeks ==
    /\ At("peek")
    /\ job' = [job EXCEPT !.pc = IF remote[job.to] = None THEN "push" ELSE "pull",
                          !.expect = remote[job.to]]
    /\ UNCHANGED <<vault, providerId, base, remote, added, moves>>

(* A vault that opens is left for the merge; one that does not is refused, *)
(* or cleared away if the user said so.                                    *)
Pulls ==
    /\ At("pull")
    /\ \/ /\ remote[job.to] = None \/ Readable(This, job.to)
          /\ Goto("push")
          /\ UNCHANGED remote
       \/ /\ remote[job.to] # None
          /\ ~Readable(This, job.to)
          /\ ~job.replace
          /\ job' = None
          /\ UNCHANGED remote
       \/ /\ remote[job.to] # None
          /\ ~Readable(This, job.to)
          /\ job.replace
          /\ remote' = [remote EXCEPT ![job.to] = None]
          /\ job' = [job EXCEPT !.pc = "push", !.expect = None]
    /\ UNCHANGED <<vault, providerId, base, added, moves>>

(* pushLight() with the stamp that was found.                              *)
Uploads ==
    LET v == [rev |-> rev[This], items |-> job.items, key |-> key[This]] IN
    /\ At("push")
    /\ remote[job.to] = job.expect
    /\ remote' = [remote EXCEPT ![job.to] = v]
    /\ job' = [job EXCEPT !.pc = "verifyPeek", !.stamp = v]
    /\ UNCHANGED <<vault, providerId, base, added, moves>>

(* A backend that accepts bytes it will not give back.                     *)
UploadIsLost ==
    /\ At("push")
    /\ remote[job.to] = job.expect
    /\ job' = [job EXCEPT !.pc = "verifyPeek",
                  !.stamp = [rev |-> rev[This], items |-> job.items,
                             key |-> key[This]]]
    /\ UNCHANGED <<vault, providerId, base, remote, added, moves>>

UploadIsRefused ==
    /\ At("push")
    /\ remote[job.to] # job.expect
    /\ job' = None
    /\ UNCHANGED <<vault, providerId, base, remote, added, moves>>

(* verify() *)
VerifiesRev ==
    /\ At("verifyPeek")
    /\ IF remote[job.to] # None /\ remote[job.to].rev = rev[This]
         THEN Goto("verifyPull")
         ELSE job' = None
    /\ UNCHANGED <<vault, providerId, base, remote, added, moves>>

SameAnything(v) == v # None                (* Bug: the push returned, so fine *)

(* It opens, and holds the items that were taken.                          *)
SameItems(v) == v # None /\ v.key = key[This] /\ v.items = job.items

VerifiesItems ==
    /\ At("verifyPull")
    /\ IF SameItems(remote[job.to]) THEN Goto("switch") ELSE job' = None
    /\ UNCHANGED <<vault, providerId, base, remote, added, moves>>

(* The flip.                                                               *)
Switches ==
    /\ At("switch")
    /\ providerId' = [providerId EXCEPT ![This] = job.to]
    /\ Goto("clearBase")
    /\ UNCHANGED <<vault, base, remote, added, moves>>

ClearsBase ==
    /\ At("clearBase")
    /\ base' = [base EXCEPT ![This] = None]
    /\ Goto("saveBase")
    /\ UNCHANGED <<vault, providerId, remote, added, moves>>

BaseItems == job.items

BaseStamp == job.stamp

(* saveBase(): the items taken at the start, with the revision of now.     *)
SavesBase ==
    /\ At("saveBase")
    /\ base' = [base EXCEPT ![This] = [items |-> BaseItems, rev |-> rev[This],
                                       stamp |-> BaseStamp]]
    /\ IF job.clear THEN Goto("clean") ELSE job' = None
    /\ UNCHANGED <<vault, providerId, remote, added, moves>>

CleansTarget == job.to                    (* Bug: the copy in force is cleared *)
CleansStore == job.from

(* disconnect() of the sync area, or deleteRemote() of Drive, as best they *)
(* can.                                                                    *)
Cleans ==
    /\ At("clean")
    /\ \/ remote' = [remote EXCEPT ![CleansStore] = None]
       \/ UNCHANGED remote
    /\ job' = None
    /\ UNCHANGED <<vault, providerId, base, added, moves>>

(* The worker is torn down, at any point.                                  *)
Die ==
    /\ job # None
    /\ job' = None
    /\ UNCHANGED <<vault, providerId, base, remote, added, moves>>

Migrate ==
    \/ Authorizes \/ GivesUp \/ Peeks \/ Pulls \/ Uploads
    \/ UploadIsLost \/ UploadIsRefused \/ VerifiesRev \/ VerifiesItems
    \/ Switches \/ ClearsBase \/ SavesBase \/ Cleans

MigrationNext ==
    \/ \E c \in Computers : AddOn(c) \/ SyncOn(c)
    \/ \E to \in Stores, replace, clear \in BOOLEAN : StartMigration(to, replace, clear)
    \/ Migrate
    \/ Die

MigrationSpec == MigrationInit /\ [][MigrationNext]_migration

-----------------------------------------------------------------------------
(* Properties *)

MigrationTypeOK ==
    /\ items \in [Computers -> SUBSET Items]
    /\ rev \in [Computers -> Nat]
    /\ key \in [Computers -> Keys]
    /\ providerId \in [Computers -> Stores]
    /\ base \in [Computers -> Bases \cup {None}]
    /\ remote \in [Stores -> Stored \cup {None}]
    /\ job \in Jobs \cup {None}
    /\ added \subseteq Items
    /\ moves \in 0 .. MaxMoves

(* Wherever a migration fails or the worker dies, the provider in force    *)
(* holds a vault this computer can open (migrateProvider: upload, verify,  *)
(* flip, and only then clear the source).                                  *)
ProviderHoldsVault == Readable(This, providerId[This])

(* The flip is to a store that holds every bookmark the migration took.    *)
FlipIsComplete ==
    [][providerId'[This] # providerId[This] =>
        /\ Readable(This, providerId'[This])
        /\ job.items \subseteq remote[providerId'[This]].items]_migration

(* "uploading over it would destroy whatever the first one had": no        *)
(* bookmark is lost to a migration.                                        *)
NothingLost ==
    \A i \in added : \/ \E c \in Computers : i \in items[c]
                     \/ \E p \in Stores : remote[p] # None /\ i \in remote[p].items
==============================================================================
