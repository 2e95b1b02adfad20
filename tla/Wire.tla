-------------------------------- MODULE Wire ---------------------------------
(***************************************************************************)
(* The messages between the pages and the worker (src/shared/messages.ts)  *)
(* and the worker's router (handleRequest() of src/background/index.ts).   *)
(*                                                                         *)
(* A message is its type and its fields; what a field holds is one of a    *)
(* few kinds of value, as far as the parser tells values apart ("word" is  *)
(* one of the words a field takes, "text" any other).  What a handler does *)
(* is in the modules of the components: here it succeeds or throws.        *)
(***************************************************************************)
EXTENDS Naturals, FiniteSets, TLC

CONSTANTS WirePages,      \* open pages
          Asked,          \* bound: the requests the pages make
          Misspelt,       \* a type the worker does not know
          Refused,        \* the parser's null
          NoCall,
          MaxCalls        \* bound: calls

VARIABLES call, heard, told, calls

wire == <<call, heard, told, calls>>

(***************************** requests ************************************)

Text == {"empty", "text", "word"}
NonEmptyString == {"text", "word"}
Word == {"word"}
Flag == {"flag"}
IdList == {"ids"}
StringArray == {"ids", "gaps", "none"}
PositiveInteger == {"positive"}
PatchOf == {"patch"}
Maybe(kind) == kind \cup {"absent"}
Values == Text \cup Flag \cup StringArray \cup {"absent", "null", "positive", "zero", "patch"}

Bare == {"PING", "GET_STATE", "TOUCH", "GET_SETTINGS", "ADD_ACTIVE_TAB", "LOOKUP_ACTIVE_TAB", "GET_TREE",
         "LIST_DUPLICATES", "COUNT_TRACKING_PARAMS", "STRIP_TRACKING_PARAMS", "GET_SYNC_STATUS", "SYNC_NOW",
         "LIST_CONFLICTS", "GET_ROLLBACK", "ROLLBACK_IMPORT", "NATIVE_TREE", "GET_DRIVE_STATE",
         "GET_DIAGNOSTICS", "GET_ONBOARDING", "PREVIEW_HISTORY_CLEANUP", "HISTORY_PRESENCE",
         "REPLACE_REMOTE_VAULT"}

ShapeOfPopup ==
    [t \in Bare |-> <<>>]
    @@ [t \in {"CREATE_VAULT", "UNLOCK"} |-> [password |-> Text]]
    @@ "LOCK" :> [panic |-> Maybe(Flag)]
    @@ "SET_SETTINGS" :> [settings |-> PatchOf]
    @@ [t \in {"GET_ICON", "REFRESH_ICON"} |-> [url |-> NonEmptyString]]
    @@ "ADD_URL" :> [url |-> NonEmptyString, title |-> Maybe(Text)]
    @@ "LIST_ITEMS" :> [query |-> Maybe(Text), limit |-> Maybe(PositiveInteger)]
    @@ "OPEN_ITEM" :> [id |-> NonEmptyString, force |-> Maybe(Flag), clearHistoryAfter |-> Maybe(Flag)]
    @@ [t \in {"DELETE_ITEMS", "RESTORE_ITEMS", "DELETE_NATIVE"} |-> [ids |-> IdList]]
    @@ "INCOGNITO_ACCESS" :> [recheck |-> Maybe(Flag)]
    @@ "CLEAR_VAULTED_HISTORY" :> [domains |-> Maybe(IdList)]
    @@ [t \in {"DESTROY_VAULT", "DISCONNECT_DRIVE"} |-> [deleteRemote |-> Maybe(Flag)]]
    @@ "CONNECT_DRIVE" :> [replaceExisting |-> Maybe(Flag)]
    @@ "ADOPT_REMOTE_VAULT" :> [password |-> Text, from |-> Word]
    @@ "SET_ONBOARDING" :> [patch |-> PatchOf]

ShapeOfManager ==
    "EXPORT_VAULT" :> [password |-> Text, mode |-> Word]
    @@ "PREVIEW_IMPORT" :> [file |-> NonEmptyString, password |-> Text]
    @@ "IMPORT_VAULT" :> [file |-> NonEmptyString, password |-> Text, mode |-> Word]
    @@ "IMPORT_NATIVE" :> [ids |-> IdList, parentId |-> Maybe(NonEmptyString)]
    @@ "RESOLVE_CONFLICTS" :> [ids |-> IdList, resolution |-> Word]
    @@ "LIST_VIEW" :> [folderId |-> Maybe(NonEmptyString), query |-> Maybe(Text), sort |-> Maybe(Word),
                       untagged |-> Maybe(Flag)]
    @@ [t \in {"GET_ITEM", "GET_THUMB", "FORGET_ITEM_HISTORY", "REFRESH_THUMB"} |-> [id |-> NonEmptyString]]
    @@ "CREATE_FOLDER" :> [title |-> NonEmptyString, parentId |-> Maybe(NonEmptyString)]
    @@ "UPDATE_ITEM" :> [id |-> NonEmptyString, patch |-> PatchOf]
    @@ "MOVE_ITEMS" :> [ids |-> IdList, parentId |-> NonEmptyString,
                        afterId |-> Maybe(NonEmptyString) \cup {"null"}]
    @@ "DELETE_FOLDER" :> [id |-> NonEmptyString, mode |-> Word]
    @@ "TAG_ITEMS" :> [ids |-> IdList, add |-> Maybe(StringArray), remove |-> Maybe(StringArray)]
    @@ "RENAME_TAG" :> [from |-> NonEmptyString, to |-> NonEmptyString]
    @@ "DELETE_TAG" :> [tag |-> NonEmptyString]
    @@ "CHANGE_PASSWORD" :> [currentPassword |-> Text, newPassword |-> Text]

Shape == ShapeOfPopup @@ ShapeOfManager

Said(fields) == [f \in {g \in DOMAIN fields : fields[g] # "absent"} |-> fields[f]]

(* A bug: a field that is absent reaches the handler as null. *)
ParseRequestFilling(m) ==
    IF m.type \in DOMAIN Shape /\ \A f \in DOMAIN Shape[m.type] : m.fields[f] \in Shape[m.type][f]
    THEN [type |-> m.type,
          fields |-> [f \in DOMAIN m.fields |-> IF m.fields[f] = "absent" THEN "null" ELSE m.fields[f]]]
    ELSE Refused

ParseRequest(m) ==
    IF m.type \in DOMAIN Shape /\ \A f \in DOMAIN Shape[m.type] : m.fields[f] \in Shape[m.type][f]
    THEN [type |-> m.type, fields |-> Said(m.fields)]
    ELSE Refused

ASSUME WireAssumption == Asked \subseteq DOMAIN Shape /\ Misspelt \notin DOMAIN Shape

(***************************** answers *************************************)

PopupAnswers ==
    [t \in {"CREATE_VAULT", "UNLOCK", "LOCK", "DELETE_ITEMS", "RESTORE_ITEMS"} |-> "OK"]
    @@ [t \in {"GET_SETTINGS", "SET_SETTINGS"} |-> "SETTINGS"]
    @@ [t \in {"ADD_ACTIVE_TAB", "ADD_URL"} |-> "ADDED"]
    @@ [t \in {"GET_THUMB", "REFRESH_THUMB"} |-> "THUMB"]
    @@ [t \in {"GET_ICON", "REFRESH_ICON"} |-> "ICON"]
    @@ "PING" :> "PONG" @@ "GET_STATE" :> "STATE" @@ "TOUCH" :> "TOUCHED" @@ "LIST_ITEMS" :> "ITEMS"
    @@ "OPEN_ITEM" :> "OPENED" @@ "LOOKUP_ACTIVE_TAB" :> "ACTIVE_TAB"
    @@ "INCOGNITO_ACCESS" :> "INCOGNITO_ACCESS_STATE"

ManagerAnswers ==
    [t \in {"UPDATE_ITEM", "DELETE_FOLDER", "CHANGE_PASSWORD"} |-> "OK"]
    @@ [t \in {"MOVE_ITEMS", "TAG_ITEMS", "RENAME_TAG", "DELETE_TAG", "COUNT_TRACKING_PARAMS",
               "STRIP_TRACKING_PARAMS", "RESOLVE_CONFLICTS", "ROLLBACK_IMPORT", "CLEAR_VAULTED_HISTORY",
               "FORGET_ITEM_HISTORY"} |-> "COUNT"]
    @@ [t \in {"GET_SYNC_STATUS", "SYNC_NOW", "REPLACE_REMOTE_VAULT", "ADOPT_REMOTE_VAULT"} |-> "SYNC_STATUS"]
    @@ [t \in {"CONNECT_DRIVE", "DISCONNECT_DRIVE"} |-> "MIGRATION"]
    @@ [t \in {"GET_ONBOARDING", "SET_ONBOARDING"} |-> "ONBOARDING"]
    @@ "GET_TREE" :> "TREE" @@ "LIST_VIEW" :> "VIEW" @@ "LIST_DUPLICATES" :> "DUPLICATES" @@ "GET_ITEM" :> "ITEM"
    @@ "CREATE_FOLDER" :> "CREATED" @@ "DESTROY_VAULT" :> "DESTROYED" @@ "LIST_CONFLICTS" :> "CONFLICTS"
    @@ "EXPORT_VAULT" :> "FILE" @@ "PREVIEW_IMPORT" :> "IMPORT_PREVIEW" @@ "IMPORT_VAULT" :> "IMPORT_RESULT"
    @@ "GET_ROLLBACK" :> "ROLLBACK" @@ "NATIVE_TREE" :> "NATIVE_TREE_STATE" @@ "IMPORT_NATIVE" :> "NATIVE_IMPORT"
    @@ "DELETE_NATIVE" :> "NATIVE_DELETE" @@ "GET_DRIVE_STATE" :> "DRIVE_STATE"
    @@ "GET_DIAGNOSTICS" :> "DIAGNOSTICS" @@ "PREVIEW_HISTORY_CLEANUP" :> "HISTORY_PREVIEW"
    @@ "HISTORY_PRESENCE" :> "HISTORY_PRESENCE"

ResponseMap == PopupAnswers @@ ManagerAnswers

RESPONSE_TYPES ==
    {"PONG", "STATE", "OK", "SETTINGS", "TOUCHED", "ADDED", "ITEMS", "OPENED", "INCOGNITO_ACCESS_STATE", "THUMB",
     "ICON", "TREE", "VIEW", "DUPLICATES", "ITEM", "CREATED", "COUNT", "SYNC_STATUS", "CONFLICTS", "FILE",
     "IMPORT_PREVIEW", "IMPORT_RESULT", "ROLLBACK", "NATIVE_TREE_STATE", "NATIVE_IMPORT", "NATIVE_DELETE",
     "ONBOARDING", "HISTORY_PREVIEW", "HISTORY_PRESENCE", "DRIVE_STATE", "DIAGNOSTICS", "MIGRATION", "DESTROYED",
     "ERROR"}

BROADCAST_TYPES ==
    {"SESSION_LOCKED", "SESSION_UNLOCKED", "SETTINGS_CHANGED", "VAULT_CHANGED", "SYNC_CHANGED", "IO_PROGRESS"}

(* What the worker may broadcast while it handles a request of a page. *)
Broadcasts(t) ==
    CASE t \in {"CREATE_VAULT", "UNLOCK"} -> {"SESSION_UNLOCKED"}
      [] t = "LOCK" -> {"SESSION_LOCKED"}
      [] t = "SET_SETTINGS" -> {"SETTINGS_CHANGED"}
      [] t \in {"ADD_ACTIVE_TAB", "MOVE_ITEMS", "DELETE_ITEMS"} -> {"VAULT_CHANGED"}
      [] t = "SYNC_NOW" -> {"SYNC_CHANGED"}
      [] t \in {"EXPORT_VAULT", "IMPORT_VAULT"} -> {"IO_PROGRESS"}
      [] t = "CONNECT_DRIVE" -> {"MIGRATION_PROGRESS"}
      [] OTHER -> {}

(* send(): what the page makes of what came back. *)
ParseResponse(type) == IF type \in RESPONSE_TYPES THEN type ELSE "ERROR"

ParseBroadcast(type) == IF type \in BROADCAST_TYPES THEN type ELSE Refused

(***************************** calls ***************************************)

WireInit ==
    /\ call = [p \in WirePages |-> NoCall]
    /\ heard = [p \in WirePages |-> {}]
    /\ told = {}
    /\ calls = 0

At(p, stage) == call[p] # NoCall /\ call[p].at = stage

Sayable == {"absent", "null", "text", "ids"}

Sends(p) ==
    /\ call[p] = NoCall
    /\ calls < MaxCalls /\ calls' = calls + 1
    /\ \E t \in Asked \cup {Misspelt} :
       \E fields \in [(IF t \in Asked THEN DOMAIN Shape[t] ELSE {}) -> Sayable] :
           call' = [call EXCEPT ![p] = [at |-> "sent", said |-> [type |-> t, fields |-> fields]]]
    /\ UNCHANGED <<heard, told>>

(* onRequest(): a message that is not one of ours closes the channel. *)
Takes(p) ==
    /\ At(p, "sent")
    /\ LET request == ParseRequest(call[p].said)
       IN call' = [call EXCEPT ![p] =
                      IF request = Refused THEN [at |-> "answered", said |-> @.said, answer |-> Misspelt]
                      ELSE [at |-> "handling", said |-> @.said, request |-> request]]
    /\ UNCHANGED <<heard, told, calls>>

Narrates(p) ==
    /\ At(p, "handling")
    /\ \E b \in Broadcasts(call[p].request.type) :
        /\ told' = told \cup {b}
        /\ heard' = [q \in WirePages |-> heard[q] \cup ({ParseBroadcast(b)} \ {Refused})]
    /\ UNCHANGED <<call, calls>>

(* handleRequest(): the answer of the type, or ERROR for whatever is thrown. *)
HandleRequest(p) ==
    /\ At(p, "handling")
    /\ \E answer \in {ResponseMap[call[p].request.type], "ERROR"} :
        call' = [call EXCEPT ![p] = [at |-> "answered", said |-> @.said, answer |-> answer]]
    /\ UNCHANGED <<heard, told, calls>>

Hearing(p) ==
    /\ At(p, "answered")
    /\ call' = [call EXCEPT ![p] = [at |-> "done", said |-> @.said, answer |-> @.answer,
                                    got |-> ParseResponse(@.answer)]]
    /\ UNCHANGED <<heard, told, calls>>

GoesOn(p) ==
    /\ At(p, "done")
    /\ call' = [call EXCEPT ![p] = NoCall]
    /\ UNCHANGED <<heard, told, calls>>

(* The channels of a dead worker close: send() answers UNREACHABLE. *)
WireWorkerDies ==
    /\ \E p \in WirePages : At(p, "handling")
    /\ call' = [p \in WirePages |->
                   IF At(p, "handling")
                   THEN [at |-> "done", said |-> call[p].said, answer |-> Misspelt, got |-> "ERROR"]
                   ELSE call[p]]
    /\ UNCHANGED <<heard, told, calls>>

WireNext ==
    \/ \E p \in WirePages : Sends(p) \/ Takes(p) \/ Narrates(p) \/ HandleRequest(p) \/ Hearing(p) \/ GoesOn(p)
    \/ WireWorkerDies

WireSpec == WireInit /\ [][WireNext]_wire

(***************************** properties **********************************)

(* "Collapsing absent into null would silently turn every drop onto a       *)
(* folder into a drop at the top of it" (messages.ts:1689): a handler is    *)
(* given exactly what its page said, and only if every field may be that.   *)
MeansWhatWasSaid ==
    \A p \in WirePages : At(p, "handling") =>
        LET said == call[p].said.fields
            given == call[p].request.fields
        IN \A f \in DOMAIN Shape[call[p].said.type] :
               /\ said[f] \in Shape[call[p].said.type][f]
               /\ IF said[f] = "absent" THEN f \notin DOMAIN given
                  ELSE f \in DOMAIN given /\ given[f] = said[f]

(* send(): "get the response its type promises" (messages.ts:1997), and the *)
(* broadcasts of Broadcast: what the worker answered or told reaches the    *)
(* page as that.                                                            *)
SuccessIsHeard ==
    \A p \in WirePages :
        /\ told \subseteq heard[p]
        /\ (At(p, "done") /\ call[p].answer \notin {"ERROR", Misspelt}) => call[p].got = call[p].answer
=============================================================================
