----------------------------- MODULE Restoring -------------------------------
(***************************************************************************)
(* The backup screen (src/manager/io.ts): sealing a backup, restoring one  *)
(* and taking a restore back, through the dialogs of src/ui/dialog.ts and  *)
(* the gate of src/ui/export-gate.ts, with the worker's half               *)
(* (src/background/io.ts, src/io/vault-file.ts, import-encrypted.ts).      *)
(*                                                                         *)
(* A job is one run of runBackup(), runRestore(), paintUndo() or of the    *)
(* undo button; `at` is the await it has reached.  Only the dialog opened  *)
(* last can be used: showModal() makes the rest of the page inert.         *)
(*                                                                         *)
(* Abstraction.  A vault is the set of its bookmarks; Import has what the  *)
(* worker does inside an import or an undo, Merge what a merge keeps.      *)
(* The bookmark picker of the same screen is in NativeImport.              *)
(***************************************************************************)
EXTENDS Naturals, Sequences, SequencesExt, FiniteSets

CONSTANTS IoJobs,             \* what may be under way at a time
          FilesAround,      \* the files the user may pick
          VaultHolds,       \* the bookmarks of the vault, at first
          ChangedBoth,        \* those a merge finds changed on both sides
          NoWay,            \* no rollback snapshot
          NotUp,            \* another screen is shown
          MaxStarts,        \* bound: what the user starts
          MaxElsewhere      \* bound: what other windows do, locks, failures

Marks == VaultHolds \cup ChangedBoth \cup UNION {file.holds : file \in FilesAround}
IoScreens == [bar : {"none", "working", "counted"}, depth : Nat, undo : BOOLEAN]

ASSUME RestoringAssumption ==
    /\ IsFiniteSet(IoJobs) /\ IsFiniteSet(Marks)
    /\ \A marks \in SUBSET Marks : NoWay # marks
    /\ NotUp \notin IoScreens

VARIABLES holdings,         \* the bookmarks of the vault
          wayBack,          \* vm.rollback, or NoWay
          vaultOpen,
          ioRuns,             \* by job: where it is and what it knows
          dialogs,          \* the ioRuns whose dialogs are open, the last on top
          ioPage,           \* the screen: its bar, its busy depth, its undo notice
          handedOver,       \* the backups saved as files
          starts, elsewheres,
          chronicle         \* what happened, for the properties

restoring ==
    <<holdings, wayBack, vaultOpen, ioRuns, dialogs, ioPage, handedOver, starts, elsewheres, chronicle>>

-----------------------------------------------------------------------------
(* The worker's half *)

VaultPassword == "ours"
Brief == {"brief"}          \* shorter than MIN_PASSWORD_LENGTH

(* All that is wrong with the structure is said before a password is tried. *)
ParseVmv(file) ==
    IF file.newer THEN "UNSUPPORTED_SCHEMA" ELSE IF file.weak THEN "CORRUPT_VAULT" ELSE "fine"

(* The guards of parseVmv(), applied to the file Drive holds.              *)
ParseContainer(file) == ParseVmv(file)

ParseVaultFile(file) ==
    CASE file.kind = "backup" -> ParseVmv(file)
      [] file.kind = "sync" -> ParseContainer(file)
      [] OTHER -> "CORRUPT_VAULT"

(* The wrapped key is the password check: what fails behind it is damage.   *)
OpenVmv(file, password) ==
    IF password # file.sealedWith THEN "WRONG_PASSWORD" ELSE IF file.damaged THEN "CORRUPT_VAULT" ELSE "fine"

(* A bucket the header lists and the file lacks is damage too.              *)
OpenContainer(file, password) == OpenVmv(file, password)

OpenVaultFile(file, password) ==
    IF ParseVaultFile(file) # "fine" THEN ParseVaultFile(file)
    ELSE IF file.kind = "backup" THEN OpenVmv(file, password) ELSE OpenContainer(file, password)

(* exportVault(), serializeVmv()                                           *)
Sealed(bookmarks, password) ==
    [kind |-> "backup", newer |-> FALSE, weak |-> FALSE, sealedWith |-> password,
     damaged |-> FALSE, holds |-> bookmarks]

-----------------------------------------------------------------------------
NoRun == [at |-> "rest", mine |-> TRUE, file |-> 0, password |-> "", mode |-> "none",
            count |-> 0, reply |-> "none", disputed |-> FALSE, undo |-> FALSE]

Begun(at) == [NoRun EXCEPT !.at = at]

RestoringInit ==
    /\ holdings = VaultHolds
    /\ wayBack = NoWay
    /\ vaultOpen = TRUE
    /\ ioRuns = [j \in IoJobs |-> NoRun]
    /\ dialogs = <<>>
    /\ ioPage = NotUp
    /\ handedOver = {}
    /\ starts = 0 /\ elsewheres = 0
    /\ chronicle = [elsewhere |-> FALSE, failed |-> FALSE, crossed |-> FALSE, strayed |-> FALSE,
                    mixed |-> FALSE, misled |-> FALSE, swapped |-> FALSE]

Underway == {j \in IoJobs : ioRuns[j].at # "rest"}

(* A free place.                                                           *)
FreeRun == CHOOSE j \in IoJobs : j \notin Underway

(* The user presses something on the page: no dialog is over it.           *)
UserStarts ==
    /\ dialogs = <<>>
    /\ starts < MaxStarts /\ starts' = starts + 1
    /\ Underway # IoJobs

OnTop(j) == dialogs # <<>> /\ Last(dialogs) = j
ShowsDialog(j) == dialogs' = Append(dialogs, j)
ShutsDialog(j) == dialogs' = RemoveFirst(dialogs, j)

Reaches(j, at) == ioRuns' = [ioRuns EXCEPT ![j].at = at, ![j].reply = "none"]
RunEnds(j) == ioRuns' = [ioRuns EXCEPT ![j] = NoRun]

(* The answer was no: the dialog complains and its buttons live again.     *)
DialogRefuses(j, at) ==
    /\ ioRuns' = [ioRuns EXCEPT ![j].at = at, ![j].reply = "none", ![j].password = "", ![j].mode = "none"]
    /\ UNCHANGED dialogs

-----------------------------------------------------------------------------
(* The screen and its bar *)

(* openIo(): a screen of its own, with nothing running as far as it knows. *)
OpensIo ==
    /\ UserStarts
    /\ vaultOpen /\ ioPage = NotUp
    /\ ioPage' = [bar |-> "none", depth |-> 0, undo |-> FALSE]
    /\ ioRuns' = [j \in IoJobs |-> IF j = FreeRun THEN Begun("painting") ELSE [ioRuns[j] EXCEPT !.mine = FALSE]]
    /\ UNCHANGED <<holdings, wayBack, vaultOpen, dialogs, handedOver, elsewheres, chronicle>>

(* showScreen() renders the slot away; the jobs go on.                      *)
PageGone == [j \in IoJobs |-> [ioRuns[j] EXCEPT !.mine = FALSE]]

LeavesIo ==
    /\ dialogs = <<>>
    /\ ioPage # NotUp
    /\ ioPage' = NotUp
    /\ ioRuns' = PageGone
    /\ UNCHANGED <<holdings, wayBack, vaultOpen, dialogs, handedOver, starts, elsewheres, chronicle>>

(* busyRunner(): up when a job begins, down with the last that ends.       *)
BusyFrom(page) == IF page = NotUp THEN page ELSE [page EXCEPT !.depth = @ + 1, !.bar = "working"]
BusyEnds(page) ==
    IF page = NotUp THEN page
    ELSE [page EXCEPT !.depth = @ - 1, !.bar = IF page.depth = 1 THEN "none" ELSE @]

(* idle(), paintProgress(): a count, and then again what there is without. *)
Idled(page) == [page EXCEPT !.bar = IF page.depth > 0 THEN "working" ELSE "none"]
Counted(page, finished) ==
    IF page = NotUp THEN page ELSE IF finished THEN Idled(page) ELSE [page EXCEPT !.bar = "counted"]

-----------------------------------------------------------------------------
(* Backing up *)

PressesBackup ==
    /\ UserStarts
    /\ ioPage # NotUp
    /\ ioRuns' = [ioRuns EXCEPT ![FreeRun] = Begun("backup")]
    /\ ShowsDialog(FreeRun)
    /\ UNCHANGED <<holdings, wayBack, vaultOpen, ioPage, handedOver, elsewheres, chronicle>>

(* askExportPassword(): a password of its own is typed twice; either way    *)
(* the dialog stays until the file is there.                               *)
SubmitsBackup(j, mode, typed, again) ==
    /\ OnTop(j) /\ ioRuns[j].at = "backup"
    /\ mode = "custom" => typed \notin Brief /\ typed = again
    /\ ioRuns' = [ioRuns EXCEPT ![j].at = "sealing", ![j].password = typed, ![j].mode = mode]
    /\ UNCHANGED <<holdings, wayBack, vaultOpen, dialogs, ioPage, handedOver, starts, elsewheres, chronicle>>

(* exportEncrypted()                                                       *)
Exports(j) ==
    /\ ioRuns[j].at = "sealing" /\ ioRuns[j].reply = "none"
    /\ LET sealed == vaultOpen /\ (ioRuns[j].mode = "vault" => ioRuns[j].password = VaultPassword)
       IN  /\ ioPage' = IF sealed THEN Counted(ioPage, TRUE) ELSE ioPage
           /\ ioRuns' = [ioRuns EXCEPT ![j].reply = IF sealed THEN "fine" ELSE "refused",
                                   ![j].file = IF sealed THEN Sealed(holdings, ioRuns[j].password) ELSE 0]
    /\ UNCHANGED <<holdings, wayBack, vaultOpen, dialogs, handedOver, starts, elsewheres, chronicle>>

(* The file is handed over, or the complaint shown under the field.        *)
ExportArrives(j) ==
    /\ ioRuns[j].at = "sealing" /\ ioRuns[j].reply # "none"
    /\ IF ioRuns[j].reply = "fine"
         THEN /\ handedOver' = handedOver \cup {[file |-> ioRuns[j].file, mode |-> ioRuns[j].mode]}
              /\ RunEnds(j) /\ ShutsDialog(j)
         ELSE DialogRefuses(j, "backup") /\ UNCHANGED handedOver
    /\ UNCHANGED <<holdings, wayBack, vaultOpen, ioPage, starts, elsewheres, chronicle>>

-----------------------------------------------------------------------------
(* Restoring *)

PicksFile(file) ==
    /\ UserStarts
    /\ ioPage # NotUp
    /\ ioRuns' = [ioRuns EXCEPT ![FreeRun] = [Begun("reading") EXCEPT !.file = file]]
    /\ UNCHANGED <<holdings, wayBack, vaultOpen, dialogs, ioPage, handedOver, elsewheres, chronicle>>

FileRead(j) ==
    /\ ioRuns[j].at = "reading"
    /\ Reaches(j, "password") /\ ShowsDialog(j)
    /\ UNCHANGED <<holdings, wayBack, vaultOpen, ioPage, handedOver, starts, elsewheres, chronicle>>

(* promptImportPassword(): opened inside the dialog.                       *)
SubmitsPassword(j, typed) ==
    /\ OnTop(j) /\ ioRuns[j].at = "password"
    /\ ioRuns' = [ioRuns EXCEPT ![j].at = "previewing", ![j].password = typed]
    /\ UNCHANGED <<holdings, wayBack, vaultOpen, dialogs, ioPage, handedOver, starts, elsewheres, chronicle>>

PreviewsImport(j) ==
    /\ ioRuns[j].at = "previewing" /\ ioRuns[j].reply = "none"
    /\ ioRuns' = [ioRuns EXCEPT ![j].reply =
            IF vaultOpen THEN OpenVaultFile(ioRuns[j].file, ioRuns[j].password) ELSE "VAULT_LOCKED"]
    /\ UNCHANGED <<holdings, wayBack, vaultOpen, dialogs, ioPage, handedOver, starts, elsewheres, chronicle>>

(* chooseImportMode() opens over whatever is open by now.                  *)
PreviewArrives(j) ==
    /\ ioRuns[j].at = "previewing" /\ ioRuns[j].reply # "none"
    /\ IF ioRuns[j].reply = "fine"
         THEN Reaches(j, "mode") /\ dialogs' = Append(RemoveFirst(dialogs, j), j)
         ELSE DialogRefuses(j, "password")
    /\ UNCHANGED <<holdings, wayBack, vaultOpen, ioPage, handedOver, starts, elsewheres, chronicle>>

TicksMode(j, mode) ==
    /\ OnTop(j) /\ ioRuns[j].at = "mode"
    /\ ioRuns' = [ioRuns EXCEPT ![j].mode = mode]
    /\ UNCHANGED <<holdings, wayBack, vaultOpen, dialogs, ioPage, handedOver, starts, elsewheres, chronicle>>

(* The answer is looked up in the document, not in the dialog: of two such  *)
(* questions the one below is found first.                                 *)
TickedModes == {i \in DOMAIN dialogs : ioRuns[dialogs[i]].at = "mode" /\ ioRuns[dialogs[i]].mode # "none"}

SubmitsMode(j) ==
    /\ OnTop(j) /\ ioRuns[j].at = "mode"
    /\ TickedModes # {}
    /\ LET found == ioRuns[dialogs[Min(TickedModes)]].mode
       IN  /\ ioRuns' = [ioRuns EXCEPT ![j].at = IF found = "merge" THEN "importing" ELSE "counting", ![j].mode = found]
           /\ ioPage' = IF found = "merge" /\ ioRuns[j].mine THEN BusyFrom(ioPage) ELSE ioPage
           /\ chronicle' = [chronicle EXCEPT
                !.swapped = @ \/ found # ioRuns[j].mode,
                !.mixed = @ \/ \E k \in ToSet(dialogs) \ {j} : ioRuns[k].at = "mode"]
    /\ ShutsDialog(j)
    /\ UNCHANGED <<holdings, wayBack, vaultOpen, handedOver, starts, elsewheres>>

(* liveBookmarkCount(): a refusal counts as none.                          *)
CountsBookmarks(j) ==
    /\ ioRuns[j].at = "counting" /\ ioRuns[j].reply = "none"
    /\ ioRuns' = [ioRuns EXCEPT ![j].reply = "fine", ![j].count = IF vaultOpen THEN Cardinality(holdings) ELSE 0]
    /\ UNCHANGED <<holdings, wayBack, vaultOpen, dialogs, ioPage, handedOver, starts, elsewheres, chronicle>>

(* confirmReplaceImport(): the phrase, then the question.                  *)
CountArrives(j) ==
    /\ ioRuns[j].at = "counting" /\ ioRuns[j].reply # "none"
    /\ Reaches(j, "phrase") /\ ShowsDialog(j)
    /\ UNCHANGED <<holdings, wayBack, vaultOpen, ioPage, handedOver, starts, elsewheres, chronicle>>

TypesReplacePhrase(j) ==
    /\ OnTop(j) /\ ioRuns[j].at = "phrase"
    /\ Reaches(j, "last")
    /\ UNCHANGED <<holdings, wayBack, vaultOpen, dialogs, ioPage, handedOver, starts, elsewheres, chronicle>>

ConfirmsReplace(j) ==
    /\ OnTop(j) /\ ioRuns[j].at = "last"
    /\ Reaches(j, "importing") /\ ShutsDialog(j)
    /\ ioPage' = IF ioRuns[j].mine THEN BusyFrom(ioPage) ELSE ioPage
    /\ UNCHANGED <<holdings, wayBack, vaultOpen, handedOver, starts, elsewheres, chronicle>>

(* Cancel or Escape: not while an answer is being tried.                   *)
CancelsDialog(j) ==
    /\ OnTop(j) /\ ioRuns[j].at \in {"backup", "password", "mode", "phrase", "last", "undo"}
    /\ RunEnds(j) /\ ShutsDialog(j)
    /\ UNCHANGED <<holdings, wayBack, vaultOpen, ioPage, handedOver, starts, elsewheres, chronicle>>

(* From the count to the import: what a change in between makes stale.     *)
Replacing == {"counting", "phrase", "last", "importing"}

(* runImport(): the file is opened again.  Its progress is broadcast.      *)
RunsImport(j) ==
    /\ ioRuns[j].at = "importing" /\ ioRuns[j].reply = "none"
    /\ LET job == ioRuns[j]
           done == vaultOpen /\ OpenVaultFile(job.file, job.password) = "fine"
       IN  IF done
             THEN /\ holdings' = job.file.holds \cup (IF job.mode = "merge" THEN holdings ELSE {})
                  /\ wayBack' = IF job.mode = "replace" THEN holdings ELSE wayBack
                  /\ ioRuns' = [ioRuns EXCEPT ![j].reply =
                        IF job.mode = "merge" /\ job.file.holds \cap holdings \cap ChangedBoth # {} THEN "disputed" ELSE "fine"]
                  /\ ioPage' = Counted(ioPage, TRUE)
                  /\ chronicle' = [chronicle EXCEPT
                        !.misled = @ \/ (job.mode = "replace" /\ job.count # Cardinality(holdings)),
                        !.elsewhere = @ \/ \E k \in Underway \ {j} : ioRuns[k].at \in Replacing]
             ELSE /\ ioRuns' = [ioRuns EXCEPT ![j].reply = "refused"]
                  /\ UNCHANGED <<holdings, wayBack, ioPage, chronicle>>
    /\ UNCHANGED <<vaultOpen, dialogs, handedOver, starts, elsewheres>>

(* The jobs that already asked for the notice, and may be answered late.   *)
Crossing(j) == \E k \in Underway \ {j} : ioRuns[k].at = "painting"

(* The bar comes down and the notice is asked for, on the screen that began. *)
EndsBusy(j) ==
    /\ ioPage' = IF ioRuns[j].mine THEN BusyEnds(ioPage) ELSE ioPage
    /\ IF ioRuns[j].reply = "refused" THEN RunEnds(j) /\ UNCHANGED chronicle
       ELSE /\ ioRuns' = [ioRuns EXCEPT ![j] =
                    [Begun("painting") EXCEPT !.mine = ioRuns[j].mine, !.disputed = ioRuns[j].reply = "disputed"]]
            /\ chronicle' = [chronicle EXCEPT !.crossed = @ \/ Crossing(j), !.strayed = @ \/ ~ioRuns[j].mine]
    /\ UNCHANGED <<holdings, wayBack, vaultOpen, dialogs, handedOver, starts, elsewheres>>

(* Bug: the notice is left as it was.                                      *)
ImportArrivesQuietly(j) ==
    /\ ioRuns[j].at = "importing" /\ ioRuns[j].reply # "none"
    /\ ioPage' = IF ioRuns[j].mine THEN BusyEnds(ioPage) ELSE ioPage
    /\ RunEnds(j)
    /\ UNCHANGED <<holdings, wayBack, vaultOpen, dialogs, handedOver, starts, elsewheres, chronicle>>

ImportArrives(j) == ioRuns[j].at = "importing" /\ ioRuns[j].reply # "none" /\ EndsBusy(j)

-----------------------------------------------------------------------------
(* The undo *)

(* rollbackOffer(), while the vault is open.                               *)
ReadsOffer(j) ==
    /\ ioRuns[j].at = "painting" /\ ioRuns[j].reply = "none"
    /\ ioRuns' = [ioRuns EXCEPT ![j].reply = "fine", ![j].undo = vaultOpen /\ wayBack # NoWay]
    /\ UNCHANGED <<holdings, wayBack, vaultOpen, dialogs, ioPage, handedOver, starts, elsewheres, chronicle>>

(* A merge that left disagreements goes on to the screen that settles them  *)
(* (what that screen asks before it opens is left out).                    *)
OfferArrives(j) ==
    /\ ioRuns[j].at = "painting" /\ ioRuns[j].reply # "none"
    /\ IF ioRuns[j].disputed
         THEN ioPage' = NotUp /\ ioRuns' = [PageGone EXCEPT ![j] = NoRun]
         ELSE /\ ioPage' = IF ioRuns[j].mine /\ ioPage # NotUp
                           THEN [ioPage EXCEPT !.undo = ioRuns[j].undo] ELSE ioPage
              /\ RunEnds(j)
    /\ UNCHANGED <<holdings, wayBack, vaultOpen, dialogs, handedOver, starts, elsewheres, chronicle>>

PressesUndoImport ==
    /\ UserStarts
    /\ ioPage # NotUp /\ ioPage.undo
    /\ ioRuns' = [ioRuns EXCEPT ![FreeRun] = Begun("undo")]
    /\ ShowsDialog(FreeRun)
    /\ UNCHANGED <<holdings, wayBack, vaultOpen, ioPage, handedOver, elsewheres, chronicle>>

ConfirmsUndo(j) ==
    /\ OnTop(j) /\ ioRuns[j].at = "undo"
    /\ Reaches(j, "undoing") /\ ShutsDialog(j)
    /\ ioPage' = IF ioRuns[j].mine THEN BusyFrom(ioPage) ELSE ioPage
    /\ UNCHANGED <<holdings, wayBack, vaultOpen, handedOver, starts, elsewheres, chronicle>>

(* undoImport(), restoreRollback()                                         *)
UndoesImport(j) ==
    /\ ioRuns[j].at = "undoing" /\ ioRuns[j].reply = "none"
    /\ IF vaultOpen /\ wayBack # NoWay
         THEN /\ holdings' = wayBack /\ wayBack' = NoWay
              /\ ioRuns' = [ioRuns EXCEPT ![j].reply = "fine"]
              /\ chronicle' = [chronicle EXCEPT
                    !.elsewhere = @ \/ \E k \in Underway \ {j} : ioRuns[k].at \in Replacing]
         ELSE /\ ioRuns' = [ioRuns EXCEPT ![j].reply = "refused"]
              /\ UNCHANGED <<holdings, wayBack, chronicle>>
    /\ UNCHANGED <<vaultOpen, dialogs, ioPage, handedOver, starts, elsewheres>>

UndoneArrives(j) == ioRuns[j].at = "undoing" /\ ioRuns[j].reply # "none" /\ EndsBusy(j)

-----------------------------------------------------------------------------
(* Elsewhere *)

Elsewhere == elsewheres < MaxElsewhere /\ elsewheres' = elsewheres + 1

EditsElsewhere(mark) ==
    /\ Elsewhere
    /\ holdings' = IF mark \in holdings THEN holdings \ {mark} ELSE holdings \cup {mark}
    /\ chronicle' = [chronicle EXCEPT !.elsewhere = TRUE]
    /\ UNCHANGED <<wayBack, vaultOpen, ioRuns, dialogs, ioPage, handedOver, starts>>

(* The 24 hours are over: the offer, when asked, is cleared.               *)
OfferLapses ==
    /\ Elsewhere
    /\ wayBack' = NoWay
    /\ chronicle' = [chronicle EXCEPT !.elsewhere = TRUE]
    /\ UNCHANGED <<holdings, vaultOpen, ioRuns, dialogs, ioPage, handedOver, starts>>

(* SESSION_LOCKED renders the page away; open dialogs stay.                *)
LocksVault ==
    /\ Elsewhere
    /\ vaultOpen
    /\ vaultOpen' = FALSE
    /\ ioPage' = NotUp
    /\ ioRuns' = PageGone
    /\ chronicle' = [chronicle EXCEPT !.failed = TRUE]
    /\ UNCHANGED <<holdings, wayBack, dialogs, handedOver, starts>>

UnlocksVault ==
    /\ ~vaultOpen
    /\ vaultOpen' = TRUE
    /\ UNCHANGED <<holdings, wayBack, ioRuns, dialogs, ioPage, handedOver, starts, elsewheres, chronicle>>

(* Another window exports: its first broadcast comes, its last may not.    *)
ProgressElsewhere(finished) ==
    /\ Elsewhere
    /\ ioPage # NotUp
    /\ ioPage' = Counted(ioPage, finished)
    /\ chronicle' = [chronicle EXCEPT !.failed = TRUE]
    /\ UNCHANGED <<holdings, wayBack, vaultOpen, ioRuns, dialogs, handedOver, starts>>

(* The worker dies under a request, or the file cannot be read: send() says *)
(* UNREACHABLE.                                                            *)
WorkerFails(j) ==
    /\ Elsewhere
    /\ ioRuns[j].reply = "none"
    /\ \/ /\ ioRuns[j].at \in {"sealing", "previewing", "importing", "undoing"}
          /\ ioRuns' = [ioRuns EXCEPT ![j].reply = "refused"]
       \/ /\ ioRuns[j].at \in {"painting", "counting"}
          /\ ioRuns' = [ioRuns EXCEPT ![j].reply = "fine"]
       \/ /\ ioRuns[j].at = "reading"
          /\ RunEnds(j)
    /\ chronicle' = [chronicle EXCEPT !.failed = TRUE]
    /\ UNCHANGED <<holdings, wayBack, vaultOpen, dialogs, ioPage, handedOver, starts>>

RestoringNext ==
    \/ OpensIo \/ LeavesIo \/ PressesBackup \/ PressesUndoImport \/ OfferLapses \/ LocksVault \/ UnlocksVault
    \/ \E file \in FilesAround \cup {made.file : made \in handedOver} : PicksFile(file)
    \/ \E mark \in ChangedBoth : EditsElsewhere(mark)
    \/ \E finished \in BOOLEAN : ProgressElsewhere(finished)
    \/ \E j \in IoJobs :
        \/ \E typed \in {VaultPassword, "other"} : SubmitsBackup(j, "vault", typed, "")
        \/ \E typed, again \in {"other"} \cup Brief : SubmitsBackup(j, "custom", typed, again)
        \/ \E typed \in {VaultPassword, "other"} : SubmitsPassword(j, typed)
        \/ \E mode \in {"merge", "replace"} : TicksMode(j, mode)
        \/ Exports(j) \/ ExportArrives(j) \/ FileRead(j) \/ PreviewsImport(j) \/ PreviewArrives(j)
        \/ SubmitsMode(j) \/ CountsBookmarks(j) \/ CountArrives(j) \/ TypesReplacePhrase(j) \/ ConfirmsReplace(j)
        \/ CancelsDialog(j) \/ RunsImport(j) \/ ImportArrives(j) \/ ReadsOffer(j) \/ OfferArrives(j)
        \/ ConfirmsUndo(j) \/ UndoesImport(j) \/ UndoneArrives(j) \/ WorkerFails(j)

RestoringSpec == RestoringInit /\ [][RestoringNext]_restoring

(***************************** properties **********************************)

(* "A backup nobody can open is not a backup": the one sealed under the     *)
(* vault's password opens with it, and no file is handed over that does not *)
(* open.                                                                   *)
BackupsOpen ==
    \A made \in handedOver :
        /\ made.mode = "vault" => OpenVaultFile(made.file, VaultPassword) = "fine"
        /\ OpenVaultFile(made.file, made.file.sealedWith) = "fine"

(* Whoever replaced the vault was told how many bookmarks go.  Excused: the *)
(* vault changed between the question and the import, or was locked.       *)
ReplaceWasCounted == chronicle.misled => chronicle.elsewhere \/ chronicle.failed

(* The mode that is applied was ticked in this file's own dialog, unless    *)
(* two files were asked about at once.                                     *)
ModeWasTicked == chronicle.swapped => chronicle.mixed

(* "The 24-hour undo, shown only while there is one", once all is quiet.    *)
(* Excused: a job outlived its screen, or its question was crossed.        *)
NoticeIsTrue ==
    (/\ Underway = {} /\ ioPage # NotUp
     /\ ~(chronicle.elsewhere \/ chronicle.failed \/ chronicle.crossed \/ chronicle.strayed)) =>
        (ioPage.undo <=> wayBack # NoWay)

(* "The bar must not blink out between two of them", nor stay: while a job  *)
(* of this screen waits there is a bar, and afterwards there is none.      *)
BarTellsTheTruth ==
    (ioPage # NotUp /\ ~chronicle.failed) =>
        (ioPage.bar # "none" <=> \E j \in IoJobs : ioRuns[j].mine /\ ioRuns[j].at \in {"importing", "undoing"})

RestoringHolds == BackupsOpen /\ ReplaceWasCounted /\ ModeWasTicked /\ NoticeIsTrue /\ BarTellsTheTruth
=============================================================================
