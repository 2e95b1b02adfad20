------------------------------- MODULE MCParts -------------------------------
(* The small components that share no state: a behaviour runs one of them. *)
EXTENDS WriteBudget, Arranging, Import, Manager, FocusWatch, Previews, Icons, History, Restoring

CONSTANTS bmX, bmY, hereW, elseW

MCFiles == {{bmX}, {bmX, bmY}}

MCUrl(s, p, q) == [site |-> s, port |-> p, query |-> q]
MCUrls == {MCUrl("a", FALSE, ""), MCUrl("a", FALSE, "q"), MCUrl("a", TRUE, ""), MCUrl("b", FALSE, "")}
MCMentions ==
    [s \in {"a", "b", "nowhere"} |-> {u \in MCUrls : u.site = s \/ (s = "a" /\ u.site = "b")}]

BackupFile(kind, password, newer, damaged, holds) ==
    [kind |-> kind, newer |-> newer, weak |-> FALSE, sealedWith |-> password, damaged |-> damaged, holds |-> holds]
MCFilesAround ==
    {BackupFile("backup", "ours", FALSE, FALSE, {2, 3}), BackupFile("sync", "other", FALSE, FALSE, {3}),
     BackupFile("sync", "ours", TRUE, TRUE, {1})}

VARIABLE part

Init ==
    /\ part \in {"budget", "arranging", "import", "manager", "focus", "previews", "icons", "history",
                "restoring"}
    /\ BudgetInit
    /\ ArrangingInit
    /\ ImportInit
    /\ ManagerInit
    /\ FocusWatchInit
    /\ PreviewsInit
    /\ IconsInit
    /\ HistoryInit
    /\ RestoringInit
    /\ part # "import" => vault = {}
    /\ part # "focus" => user = hereW
    /\ part # "previews" => tab = "a"
    /\ part # "icons" => chromeHas
    /\ part # "history" => saved = {MCUrl("b", FALSE, "")}

Budget ==
    /\ part = "budget" /\ BudgetNext
    /\ UNCHANGED <<part, arranging, import, manager, focusWatch, previews, icons, history, restoring>>

Arranges ==
    /\ part = "arranging" /\ ArrangingNext
    /\ UNCHANGED <<part, budget, import, manager, focusWatch, previews, icons, history, restoring>>

Imports ==
    /\ part = "import" /\ ImportNext
    /\ UNCHANGED <<part, budget, arranging, manager, focusWatch, previews, icons, history, restoring>>

Manages ==
    /\ part = "manager" /\ ManagerNext
    /\ UNCHANGED <<part, budget, arranging, import, focusWatch, previews, icons, history, restoring>>

Watches ==
    /\ part = "focus" /\ FocusWatchNext
    /\ UNCHANGED <<part, budget, arranging, import, manager, previews, icons, history, restoring>>

Pictures ==
    /\ part = "previews" /\ PreviewsNext
    /\ UNCHANGED <<part, budget, arranging, import, manager, focusWatch, icons, history, restoring>>

Favicons ==
    /\ part = "icons" /\ IconsNext
    /\ UNCHANGED <<part, budget, arranging, import, manager, focusWatch, previews, history, restoring>>

Forgetting ==
    /\ part = "history" /\ HistoryNext
    /\ UNCHANGED <<part, budget, arranging, import, manager, focusWatch, previews, icons, restoring>>

BacksUp ==
    /\ part = "restoring" /\ RestoringNext
    /\ UNCHANGED <<part, budget, arranging, import, manager, focusWatch, previews, icons, history>>

Next ==
    \/ Budget \/ Arranges \/ Imports \/ Manages \/ Watches \/ Pictures \/ Favicons
    \/ Forgetting \/ BacksUp

Spec ==
    Init /\ [][Next]_<<part, budget, arranging, import, manager, focusWatch, previews, icons, history, restoring>>
==============================================================================
