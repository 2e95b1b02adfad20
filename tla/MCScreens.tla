------------------------------ MODULE MCScreens ------------------------------
(* More components that share no state: a behaviour runs one of them. *)
EXTENDS NativeImport, SettingsSync, Popup, Onboarding, SettingsPage, Search, Duplicates

CONSTANTS pcA, pcB, pageP,
          Played    \* the components of the run

MCTitle ==
    (1 :> <<"bar", FALSE>>) @@ (2 :> <<"a", TRUE>>) @@ [n \in 3 .. 5 |-> <<"page", FALSE>>]
MCUrl ==
    (1 :> AFolder) @@ (2 :> AFolder) @@ (3 :> "u") @@ (4 :> Unsafe) @@ (5 :> "u")
MCHome == (1 :> Top) @@ (2 :> 1) @@ (3 :> 2) @@ (4 :> 2) @@ (5 :> Unborn)

MCTitleWords == (1 :> {"github"}) @@ (2 :> {"git"}) @@ (3 :> {"tea"}) @@ (4 :> {"github"}) @@ (5 :> {"tea"})
MCTagWords == (1 :> {}) @@ (2 :> {"hub"}) @@ (3 :> {"hub", "tea"})
MCNoteWords == (1 :> {"tea"}) @@ (2 :> {}) @@ (3 :> {"github"})
MCUrlWords == ("a" :> {"tea", "git"}) @@ ("b" :> {"b"})
MCHostWord == ("a" :> "tea") @@ ("b" :> "b")
MCStartOf == {<<"git", "github">>}
MCPartOf == {<<"hub", "github">>}
MCFirstHome == (1 :> 4) @@ (2 :> 5) @@ (3 :> 0) @@ (4 :> 0) @@ (5 :> 0)
Typed(k, v) == [kind |-> k, value |-> v]
MCQueries ==
    {<<>>, <<Typed("", "git")>>, <<Typed("", "hub"), Typed("", "tea")>>, <<Typed("tag", "hub")>>,
     <<Typed("folder", "hub"), Typed("", "git")>>, <<Typed("host", "tea"), Typed("in", "title")>>,
     <<Typed("", "git"), Typed("in", "note")>>, <<Typed("in", "noets")>>,
     <<Typed("", "tea"), Typed("in", "url"), Typed("in", "title")>>}
MCFolded == ("e" :> <<"e">>) @@ ("E" :> <<"e">>) @@ ("fi" :> <<"f", "i">>) @@ ("accent" :> <<>>)
MCLines == UNION {[1 .. n -> DOMAIN MCFolded] : n \in 0 .. 3}
MCTerms == {<<"e">>, <<"e", "e">>, <<"f">>, <<"i", "e">>, <<"e", "f">>}

MCSavedAs == (1 :> "a") @@ (2 :> "b") @@ (3 :> "a?t") @@ (4 :> "b#f")
MCStripped == ("a" :> "a") @@ ("a?t" :> "a") @@ ("b#f" :> "b#f") @@ ("b" :> "b")
MCNormalForm == ("a" :> "a") @@ ("b#f" :> "b") @@ ("b" :> "b")

MCKnown == (pcA :> {0, 1, 2}) @@ (pcB :> {0, 1})

VARIABLE part

screens == <<part, native, settingsSync, wire, popups, onboarding, settingsPage, searching, duplicates>>

Init ==
    /\ part \in Played
    /\ NativeInit
    /\ SettingsSyncInit
    /\ WireInit
    /\ PopupInit
    /\ OnboardingInit
    /\ SettingsPageInit
    /\ SearchInit
    /\ DuplicatesInit
    /\ part # "page" => remoteVault = "ours"
    /\ part # "popup" => standing = "none" /\ tab = NoBookmark

Natively ==
    /\ part = "native" /\ NativeNext
    /\ UNCHANGED <<part, settingsSync, wire, popups, onboarding, settingsPage, searching, duplicates>>

Settles ==
    /\ part = "settings" /\ SettingsSyncNext
    /\ UNCHANGED <<part, native, wire, popups, onboarding, settingsPage, searching, duplicates>>

Wires ==
    /\ part = "wire" /\ WireNext
    /\ UNCHANGED <<part, native, settingsSync, popups, onboarding, settingsPage, searching, duplicates>>

Pops ==
    /\ part = "popup" /\ PopupNext
    /\ UNCHANGED <<part, native, settingsSync, wire, onboarding, settingsPage, searching, duplicates>>

Starts ==
    /\ part = "onboarding" /\ OnboardingNext
    /\ UNCHANGED <<part, native, settingsSync, wire, popups, settingsPage, searching, duplicates>>

Asks ==
    /\ part = "page" /\ SettingsPageNext
    /\ UNCHANGED <<part, native, settingsSync, wire, popups, onboarding, searching, duplicates>>

Looks ==
    /\ part = "search" /\ SearchNext
    /\ UNCHANGED <<part, native, settingsSync, wire, popups, onboarding, settingsPage, duplicates>>

Tidies ==
    /\ part = "duplicates" /\ DuplicatesNext
    /\ UNCHANGED <<part, native, settingsSync, wire, popups, onboarding, settingsPage, searching>>

Next == Natively \/ Settles \/ Wires \/ Pops \/ Starts \/ Asks \/ Looks \/ Tidies

Spec == Init /\ [][Next]_screens
=============================================================================
