----------------------------- MODULE ScreensProofs ---------------------------
(* Why the settings screen, the popup and the screen of duplicates say,     *)
(* with nothing under way, what is stored, and why duplicates are removed   *)
(* and brought back as the user was told: for every set of switches and     *)
(* bookmarks, every number of calls under way, answered in any order, lost  *)
(* or refused, and every bound.                                             *)
EXTENDS SettingsPage, Popup, Duplicates, TLAPS, SequenceTheorems, FiniteSetTheorems

(***************************** queues ************************************)

(* A queue holds an element of the set; it holds one at most.              *)
Meets(q, H) == \E k \in DOMAIN q : q[k] \in H
MeetsOnce(q, H) == \A j, k \in DOMAIN q : q[j] \in H /\ q[k] \in H => j = k

LEMMA AppendMeets ==
    ASSUME NEW S, NEW q \in Seq(S), NEW e \in S, NEW H
    PROVE  /\ Append(q, e) \in Seq(S)
           /\ Meets(Append(q, e), H) <=> (Meets(q, H) \/ e \in H)
           /\ MeetsOnce(q, H) /\ ~(e \in H /\ Meets(q, H)) => MeetsOnce(Append(q, e), H)
<1>1. /\ Append(q, e) \in Seq(S)
      /\ Len(q) \in Nat /\ DOMAIN q = 1 .. Len(q)
      /\ DOMAIN Append(q, e) = 1 .. (Len(q) + 1)
      /\ Append(q, e)[Len(q) + 1] = e
      /\ \A k \in 1 .. Len(q) : Append(q, e)[k] = q[k]
    OBVIOUS
<1>2. \A k \in 1 .. (Len(q) + 1) : k \in 1 .. Len(q) \/ k = Len(q) + 1
    BY <1>1
<1>3. Len(q) + 1 \in 1 .. (Len(q) + 1) /\ \A k \in 1 .. Len(q) : k \in 1 .. (Len(q) + 1)
    BY <1>1
<1>4. QED
    BY <1>1, <1>2, <1>3 DEF Meets, MeetsOnce

(* Where an element of what is left of a queue was.                         *)
Skip(i, k) == IF i < k THEN i ELSE i + 1

LEMMA RemoveShifts ==
    ASSUME NEW S, NEW q \in Seq(S), NEW k \in DOMAIN q
    PROVE  /\ RemoveAt(q, k) \in Seq(S)
           /\ DOMAIN RemoveAt(q, k) = 1 .. (Len(q) - 1)
           /\ \A i \in DOMAIN RemoveAt(q, k) :
                 RemoveAt(q, k)[i] = q[Skip(i, k)] /\ Skip(i, k) \in DOMAIN q /\ Skip(i, k) # k
           /\ \A i, j \in DOMAIN RemoveAt(q, k) : Skip(i, k) = Skip(j, k) => i = j
           /\ \A n \in DOMAIN q : n # k => \E i \in DOMAIN RemoveAt(q, k) : Skip(i, k) = n
<1> DEFINE a == SubSeq(q, 1, k - 1)
           b == SubSeq(q, k + 1, Len(q))
<1>1. Len(q) \in Nat /\ DOMAIN q = 1 .. Len(q) /\ k \in Nat /\ 1 <= k /\ k <= Len(q)
    OBVIOUS
<1>2. a \in Seq(S) /\ Len(a) = k - 1 /\ \A i \in 1 .. (k - 1) : a[i] = q[i]
    BY <1>1
<1>3. b \in Seq(S) /\ Len(b) = Len(q) - k /\ \A i \in 1 .. (Len(q) - k) : b[i] = q[k + i]
    BY <1>1
<1>4. RemoveAt(q, k) = a \o b
    BY DEF RemoveAt
<1> HIDE DEF a, b
<1>5. a \o b \in Seq(S) /\ DOMAIN (a \o b) = 1 .. (Len(q) - 1)
  <2>1. a \o b \in Seq(S) /\ Len(a \o b) = Len(a) + Len(b)
      BY <1>2, <1>3, ConcatProperties
  <2>2. Len(a) + Len(b) = Len(q) - 1
      BY <1>1, <1>2, <1>3
  <2>3. QED
      BY <2>1, <2>2
<1>6. ASSUME NEW i \in 1 .. (Len(q) - 1)
      PROVE  (a \o b)[i] = q[Skip(i, k)] /\ Skip(i, k) \in DOMAIN q /\ Skip(i, k) # k
  <2>1. CASE i < k
      BY <1>1, <1>2, <1>3, <2>1 DEF Skip
  <2>2. CASE i >= k
    <3>1. (a \o b)[i] = b[i - (k - 1)] /\ i - (k - 1) \in 1 .. (Len(q) - k)
        BY <1>1, <1>2, <1>3, <2>2, SMTT(30)
    <3>2. b[i - (k - 1)] = q[k + (i - (k - 1))]
        BY <1>3, <3>1
    <3>3. k + (i - (k - 1)) = i + 1 /\ i + 1 \in DOMAIN q /\ i + 1 # k /\ Skip(i, k) = i + 1
        BY <1>1, <2>2 DEF Skip
    <3>4. QED
        BY <3>1, <3>2, <3>3
  <2>3. i < k \/ i >= k
      BY <1>1
  <2>4. QED
      BY <2>1, <2>2, <2>3
<1>7. \A i, j \in 1 .. (Len(q) - 1) : Skip(i, k) = Skip(j, k) => i = j
    BY <1>1 DEF Skip
<1>8. ASSUME NEW n \in DOMAIN q, n # k
      PROVE  \E i \in 1 .. (Len(q) - 1) : Skip(i, k) = n
  <2>1. CASE n < k
    <3>1. n \in 1 .. (Len(q) - 1) /\ Skip(n, k) = n
        BY <1>1, <2>1 DEF Skip
    <3>2. QED
        BY <3>1
  <2>2. CASE n > k
    <3>1. n - 1 \in 1 .. (Len(q) - 1) /\ Skip(n - 1, k) = n
        BY <1>1, <2>2 DEF Skip
    <3>2. QED
        BY <3>1
  <2>3. n < k \/ n > k
      BY <1>1, <1>8
  <2>4. QED
      BY <2>1, <2>2, <2>3
<1>9. QED
    BY <1>4, <1>5, <1>6, <1>7, <1>8

LEMMA RemoveMeets ==
    ASSUME NEW S, NEW q \in Seq(S), NEW k \in DOMAIN q, NEW H
    PROVE  /\ RemoveAt(q, k) \in Seq(S)
           /\ Meets(RemoveAt(q, k), H) => Meets(q, H)
           /\ q[k] \notin H /\ Meets(q, H) => Meets(RemoveAt(q, k), H)
           /\ MeetsOnce(q, H) => MeetsOnce(RemoveAt(q, k), H)
           /\ MeetsOnce(q, H) /\ q[k] \in H => ~Meets(RemoveAt(q, k), H)
           /\ \A i \in DOMAIN RemoveAt(q, k) : \E n \in DOMAIN q : n # k /\ RemoveAt(q, k)[i] = q[n]
<1> DEFINE r == RemoveAt(q, k)
<1>1. /\ r \in Seq(S)
      /\ \A i \in DOMAIN r : r[i] = q[Skip(i, k)] /\ Skip(i, k) \in DOMAIN q /\ Skip(i, k) # k
      /\ \A i, j \in DOMAIN r : Skip(i, k) = Skip(j, k) => i = j
      /\ \A n \in DOMAIN q : n # k => \E i \in DOMAIN r : Skip(i, k) = n
    BY RemoveShifts
<1> HIDE DEF r
<1>2. QED
  <2>1. Meets(r, H) => Meets(q, H)
      BY <1>1 DEF Meets
  <2>2. q[k] \notin H /\ Meets(q, H) => Meets(r, H)
      BY <1>1 DEF Meets
  <2>3. MeetsOnce(q, H) => MeetsOnce(r, H)
      BY <1>1 DEF MeetsOnce
  <2>4. MeetsOnce(q, H) /\ q[k] \in H => ~Meets(r, H)
      BY <1>1 DEF Meets, MeetsOnce
  <2>5. \A i \in DOMAIN r : \E n \in DOMAIN q : n # k /\ r[i] = q[n]
      BY <1>1
  <2>6. QED
      BY <1>1, <2>1, <2>2, <2>3, <2>4, <2>5 DEF r

LEMMA ReplaceMeets ==
    ASSUME NEW S, NEW q \in Seq(S), NEW k \in DOMAIN q, NEW e \in S, NEW H
    PROVE  /\ [q EXCEPT ![k] = e] \in Seq(S)
           /\ e \in H \/ q[k] \notin H => (Meets(q, H) => Meets([q EXCEPT ![k] = e], H))
           /\ e \in H => Meets([q EXCEPT ![k] = e], H)
           /\ e \notin H \/ q[k] \in H => (Meets([q EXCEPT ![k] = e], H) => Meets(q, H))
           /\ e \notin H \/ q[k] \in H => (MeetsOnce(q, H) => MeetsOnce([q EXCEPT ![k] = e], H))
<1>1. /\ [q EXCEPT ![k] = e] \in Seq(S) /\ DOMAIN [q EXCEPT ![k] = e] = DOMAIN q
      /\ \A i \in DOMAIN q : [q EXCEPT ![k] = e][i] = IF i = k THEN e ELSE q[i]
    OBVIOUS
<1> DEFINE r == [q EXCEPT ![k] = e]
<1>2. r \in Seq(S) /\ DOMAIN r = DOMAIN q /\ \A i \in DOMAIN q : r[i] = IF i = k THEN e ELSE q[i]
    BY <1>1
<1> HIDE DEF r
<1>3. QED
  <2>1. e \in H \/ q[k] \notin H => (Meets(q, H) => Meets(r, H))
      BY <1>2 DEF Meets
  <2>2. e \in H => Meets(r, H)
      BY <1>2 DEF Meets
  <2>3. e \notin H \/ q[k] \in H => (Meets(r, H) => Meets(q, H))
      BY <1>2 DEF Meets
  <2>4. e \notin H \/ q[k] \in H => (MeetsOnce(q, H) => MeetsOnce(r, H))
      BY <1>2 DEF MeetsOnce
  <2>5. QED
      BY <1>2, <2>1, <2>2, <2>3, <2>4 DEF r

(* The queue has an element of the first set, and its last one is in the    *)
(* second.                                                                 *)
EndsOn(q, H, G) == \E k \in DOMAIN q : q[k] \in H /\ q[k] \in G /\ \A j \in DOMAIN q : j > k => q[j] \notin H

LEMMA AppendEnds ==
    ASSUME NEW S, NEW q \in Seq(S), NEW e \in S, NEW H, NEW G
    PROVE  /\ e \in H /\ e \in G => EndsOn(Append(q, e), H, G)
           /\ e \notin H /\ EndsOn(q, H, G) => EndsOn(Append(q, e), H, G)
<1>1. /\ Len(q) \in Nat /\ DOMAIN q = 1 .. Len(q)
      /\ DOMAIN Append(q, e) = 1 .. (Len(q) + 1)
      /\ Append(q, e)[Len(q) + 1] = e
      /\ \A k \in 1 .. Len(q) : Append(q, e)[k] = q[k]
    OBVIOUS
<1>2. \A k \in 1 .. (Len(q) + 1) : k \in 1 .. Len(q) \/ k = Len(q) + 1
    BY <1>1
<1>3. /\ Len(q) + 1 \in 1 .. (Len(q) + 1)
      /\ \A k \in 1 .. Len(q) : k \in 1 .. (Len(q) + 1)
      /\ \A k \in 1 .. (Len(q) + 1) : ~(k > Len(q) + 1)
    BY <1>1
<1>4. QED
    BY <1>1, <1>2, <1>3 DEF EndsOn

LEMMA EndsOver ==
    ASSUME NEW q, NEW r, DOMAIN r = DOMAIN q, NEW H, NEW G, NEW F,
           \A k \in DOMAIN q : r[k] \in H <=> q[k] \in H,
           \A k \in DOMAIN q : q[k] \in H /\ q[k] \in G => r[k] \in F
    PROVE  EndsOn(q, H, G) => EndsOn(r, H, F)
  BY DEF EndsOn

LEMMA RemoveEnds ==
    ASSUME NEW S, NEW q \in Seq(S), NEW k \in DOMAIN q, NEW H, NEW G
    PROVE  /\ q[k] \notin H /\ EndsOn(q, H, G) => EndsOn(RemoveAt(q, k), H, G)
           /\ (\A j \in 1 .. (k - 1) : q[j] \notin H) /\ EndsOn(q, H, G) =>
                 EndsOn(RemoveAt(q, k), H, G) \/ (q[k] \in G /\ ~Meets(RemoveAt(q, k), H))
<1> DEFINE r == RemoveAt(q, k)
<1>1. Len(q) \in Nat /\ DOMAIN q = 1 .. Len(q) /\ k \in Nat /\ 1 <= k /\ k <= Len(q)
    OBVIOUS
<1>2. DOMAIN r = 1 .. (Len(q) - 1) /\ \A i \in DOMAIN r : r[i] = q[Skip(i, k)]
    BY RemoveShifts
<1> HIDE DEF r
<1>3. ASSUME NEW m \in DOMAIN q, m # k, q[m] \in H, q[m] \in G, \A j \in DOMAIN q : j > m => q[j] \notin H
      PROVE  EndsOn(r, H, G)
  <2> DEFINE n == IF m < k THEN m ELSE m - 1
  <2>1. n \in DOMAIN r /\ Skip(n, k) = m
      BY <1>1, <1>2, <1>3 DEF Skip
  <2>2. \A j \in DOMAIN r : j > n => Skip(j, k) > m /\ Skip(j, k) \in DOMAIN q
      BY <1>1, <1>2, <1>3 DEF Skip
  <2> HIDE DEF n
  <2>3. QED
      BY <1>2, <1>3, <2>1, <2>2 DEF EndsOn
<1>4. ASSUME \A j \in DOMAIN q : j > k => q[j] \notin H, \A j \in 1 .. (k - 1) : q[j] \notin H
      PROVE  ~Meets(r, H)
  <2>1. \A i \in DOMAIN r : Skip(i, k) \in DOMAIN q /\ (Skip(i, k) > k \/ Skip(i, k) \in 1 .. (k - 1))
      BY <1>1, <1>2 DEF Skip
  <2>2. QED
      BY <1>2, <1>4, <2>1 DEF Meets
<1>5. QED
    BY <1>3, <1>4 DEF EndsOn, r

(***************************** the settings screen *************************)

OfASwitch == {"permission", "set", "count", "strip"}
Vaults == {"none", "ours", "theirs"}
Flags == BOOLEAN
SwitchArgs == [switch : Switches, wanted : BOOLEAN]
AdoptArgs == [password : {"right", "wrong"}, found : Vaults]

(* A request as it is on its way: its argument is one of its kind, what an  *)
(* adoption has fetched is a vault, an erasure was asked for, and a setting *)
(* that was stored comes back with all of them.                             *)
PageSends ==
    {x \in [type : {"status", "sync", "password", "drive", "replace", "adopt", "destroy"} \cup OfASwitch,
            arg : {""} \cup Flags \cup SwitchArgs \cup AdoptArgs,
            at : {"sent", "removed", "fetched", "answered"}, ok : BOOLEAN,
            answer : {NoAnswer, "mismatch"} \cup [Switches -> BOOLEAN], mine : BOOLEAN, asked : BOOLEAN] :
        /\ x.type \in OfASwitch => x.arg \in SwitchArgs
        /\ x.type \in {"count", "strip"} => x.arg.switch = "stripTrackingParams"
        /\ x.type = "adopt" => x.arg \in AdoptArgs
        /\ x.type = "adopt" /\ x.at = "fetched" => x.arg.found # "none"
        /\ x.type = "destroy" => x.asked
        /\ x.type = "set" /\ x.at = "answered" /\ x.ok => x.answer \in [Switches -> BOOLEAN]}

ScreenRecords ==
    [boxes : [Switches -> [checked : BOOLEAN, busy : BOOLEAN]], mismatch : BOOLEAN, armed : BOOLEAN,
     replacing : BOOLEAN, typed : BOOLEAN, sure : BOOLEAN, erasable : BOOLEAN, alsoRemote : BOOLEAN,
     pressed : SUBSET {"sync", "password", "drive"}, dialog : {"none", "adopt", "cleanup"}, deciding : BOOLEAN]

PageRecords ==
    [asked : BOOLEAN, adopted : BOOLEAN, destroyed : BOOLEAN, lost : BOOLEAN, elsewhere : BOOLEAN,
     crossed : BOOLEAN, rebuilt : BOOLEAN]

SettingsPageTypes ==
    /\ prefs \in [Switches -> BOOLEAN] /\ knownPrefs \in [Switches -> BOOLEAN]
    /\ permitted \in BOOLEAN
    /\ localVault \in Vaults /\ remoteVault \in Vaults
    /\ settingsScreen \in ScreenRecords \cup {NoScreen}
    /\ sends \in Seq(PageSends)
    /\ pageRecord \in PageRecords

(* Requests by what waits for them.                                        *)
OfType(type) == {x \in PageSends : x.type = type}
AwaitedBy(type) == {x \in PageSends : x.type = type /\ x.mine}
Holding(s) == {x \in PageSends : x.type \in OfASwitch /\ x.mine /\ x.arg.switch = s}
Writers(s) == {x \in PageSends : x.type \in {"permission", "set"} /\ x.mine /\ x.arg.switch = s}
Foreign == {x \in PageSends : x.type \in {"permission", "set"} /\ ~x.mine}
Stored(s) == {x \in PageSends : x.type = "set" /\ x.at = "answered" /\ x.arg.switch = s}
Failed == {x \in PageSends : x.type = "set" /\ x.at = "answered" /\ ~x.ok}

(* The vault here is gone or another one only where the user said so.      *)
VaultsKept ==
    /\ Meets(sends, OfType("adopt")) => pageRecord.adopted
    /\ localVault # "none" \/ pageRecord.destroyed
    /\ localVault = "ours" \/ pageRecord.adopted \/ pageRecord.destroyed

(* A control that waits has a request under way that will free it.          *)
ControlsWait ==
    settingsScreen # NoScreen =>
        /\ settingsScreen.sure => pageRecord.asked
        /\ \A button \in settingsScreen.pressed : Meets(sends, AwaitedBy(button))
        /\ settingsScreen.replacing => Meets(sends, AwaitedBy("replace"))
        /\ settingsScreen.deciding <=> Meets(sends, AwaitedBy("adopt"))
        /\ settingsScreen.deciding => settingsScreen.dialog = "adopt"
        /\ MeetsOnce(sends, AwaitedBy("adopt"))
        /\ settingsScreen.typed => settingsScreen.erasable \/ Meets(sends, AwaitedBy("destroy"))

(* A switch waits for one request at a time, or for the open question.      *)
SwitchesWait ==
    settingsScreen # NoScreen =>
        /\ settingsScreen.dialog = "cleanup" =>
              "stripTrackingParams" \in Switches /\ ~Meets(sends, Holding("stripTrackingParams"))
        /\ \A s \in Switches :
              /\ MeetsOnce(sends, Holding(s))
              /\ settingsScreen.boxes[s].busy <=>
                    \/ Meets(sends, Holding(s))
                    \/ s = "stripTrackingParams" /\ settingsScreen.dialog = "cleanup"

Excused == pageRecord.elsewhere \/ pageRecord.lost \/ pageRecord.crossed \/ pageRecord.rebuilt

(* What a request to write a switch finds: the switch as it is wanted, and  *)
(* the setting as it was until the request is stored.                       *)
Follows(x, screen, kept) ==
    /\ screen.boxes[x.arg.switch].checked = x.arg.wanted
    /\ kept[x.arg.switch] = (IF x.type = "set" /\ x.at = "answered" THEN x.arg.wanted ELSE ~x.arg.wanted)

SwitchesFollow ==
    ~Excused =>
        /\ ~Meets(sends, Failed)
        /\ \A s \in Switches : Meets(sends, Stored(s)) \/ knownPrefs[s] = prefs[s]
        /\ settingsScreen # NoScreen =>
              /\ ~Meets(sends, Foreign)
              /\ \A s \in Switches :
                    /\ \A k \in DOMAIN sends : sends[k] \in Writers(s) => Follows(sends[k], settingsScreen, prefs)
                    /\ Meets(sends, Writers(s)) \/ settingsScreen.boxes[s].checked = prefs[s]

SettingsPageInv ==
    SettingsPageTypes /\ VaultsKept /\ ControlsWait /\ SwitchesWait /\ SwitchesFollow

(***************************** requests ***********************************)

(* What may be asked for with what.                                        *)
Goes(type, arg) ==
    \/ type \in {"status", "sync", "password", "drive", "replace"} /\ arg = ""
    \/ type = "adopt" /\ arg \in AdoptArgs
    \/ type = "destroy" /\ arg \in Flags /\ pageRecord.asked
    \/ type \in {"permission", "set"} /\ arg \in SwitchArgs
    \/ type \in {"count", "strip"} /\ arg \in SwitchArgs /\ arg.switch = "stripTrackingParams"

LEMMA SentFields ==
    ASSUME NEW type, NEW arg
    PROVE  /\ Sent(type, arg).type = type /\ Sent(type, arg).arg = arg /\ Sent(type, arg).at = "sent"
           /\ Sent(type, arg).mine /\ ~Sent(type, arg).ok /\ Sent(type, arg).asked = pageRecord.asked
  BY DEF Sent

LEMMA SentIsASend ==
    ASSUME SettingsPageTypes, NEW type, NEW arg, Goes(type, arg)
    PROVE  /\ Sent(type, arg) \in PageSends
           /\ Sent(type, arg).type = type /\ Sent(type, arg).arg = arg /\ Sent(type, arg).mine
           /\ Sent(type, arg).at = "sent"
<1> DEFINE Types == {"status", "sync", "password", "drive", "replace", "adopt", "destroy"} \cup OfASwitch
           Args == {""} \cup Flags \cup SwitchArgs \cup AdoptArgs
<1>1. pageRecord.asked \in BOOLEAN
    BY DEF SettingsPageTypes, PageRecords
<1>2. type \in Types /\ arg \in Args
    BY DEF OfASwitch, Goes
<1> HIDE DEF Types, Args
<1>3. Sent(type, arg) \in
            [type : Types, arg : Args,
             at : {"sent", "removed", "fetched", "answered"}, ok : BOOLEAN,
             answer : {NoAnswer, "mismatch"} \cup [Switches -> BOOLEAN], mine : BOOLEAN, asked : BOOLEAN]
    BY <1>1, <1>2 DEF Sent
<1> DEFINE e == Sent(type, arg)
<1>4. /\ e.type = type /\ e.arg = arg /\ e.at = "sent"
      /\ e.mine /\ ~e.ok /\ (pageRecord.asked => e.asked)
  <2>1. e.type = type /\ e.arg = arg /\ e.at = "sent"
      BY SentFields
  <2>2. e.mine
      BY SentFields
  <2>3. ~e.ok
      BY SentFields
  <2>4. pageRecord.asked => e.asked
      BY SentFields
  <2>5. QED
      BY <2>1, <2>2, <2>3, <2>4
<1> HIDE DEF e
<1>5. /\ type \in OfASwitch => arg \in SwitchArgs
      /\ type \in {"count", "strip"} => arg.switch = "stripTrackingParams"
      /\ type = "adopt" => arg \in AdoptArgs
      /\ type = "destroy" => pageRecord.asked
    BY DEF OfASwitch, Goes
<1>6. e \in PageSends
    BY <1>3, <1>4, <1>5 DEF PageSends, Types, Args, e
<1>7. QED
    BY <1>4, <1>6 DEF e

(* One request more.                                                       *)
LEMMA OneMoreSend ==
    ASSUME SettingsPageTypes, NEW e \in PageSends, sends' = Append(sends, e)
    PROVE  /\ sends' \in Seq(PageSends)
           /\ \A H : Meets(sends', H) <=> (Meets(sends, H) \/ e \in H)
           /\ \A H : MeetsOnce(sends, H) /\ ~(e \in H /\ Meets(sends, H)) => MeetsOnce(sends', H)
           /\ DOMAIN sends' = 1 .. (Len(sends) + 1) /\ DOMAIN sends = 1 .. Len(sends) /\ Len(sends) \in Nat
           /\ \A k \in DOMAIN sends' : (k \in DOMAIN sends /\ sends'[k] = sends[k]) \/ (k \notin DOMAIN sends /\ sends'[k] = e)
<1>1. sends \in Seq(PageSends)
    BY DEF SettingsPageTypes
<1>2. QED
    BY <1>1, AppendMeets

(* The screen goes on as it was but for its dialog and its buttons: what a  *)
(* switch waits for is what it waited for.                                 *)
LEMMA SwitchesGoOn ==
    ASSUME SettingsPageInv, settingsScreen' # NoScreen => settingsScreen # NoScreen,
           settingsScreen' # NoScreen =>
              /\ settingsScreen'.boxes = settingsScreen.boxes
              /\ settingsScreen'.dialog = "cleanup" <=> settingsScreen.dialog = "cleanup",
           \/ sends' = sends
           \/ \E e \in PageSends : sends' = Append(sends, e) /\ e.type \notin OfASwitch,
           UNCHANGED <<prefs, knownPrefs>>, Excused => Excused'
    PROVE  SwitchesWait' /\ SwitchesFollow'
<1>1. SettingsPageTypes /\ SwitchesWait /\ SwitchesFollow
    BY DEF SettingsPageInv
<1>2. \A s \in Switches : Meets(sends', Holding(s)) <=> Meets(sends, Holding(s))
    BY <1>1, OneMoreSend DEF Holding
<1>3. \A s \in Switches : MeetsOnce(sends, Holding(s)) => MeetsOnce(sends', Holding(s))
    BY <1>1, OneMoreSend DEF Holding
<1>4. \A s \in Switches : (Meets(sends', Writers(s)) <=> Meets(sends, Writers(s))) /\ (Meets(sends', Stored(s)) <=> Meets(sends, Stored(s)))
    BY <1>1, OneMoreSend DEF Writers, Stored, OfASwitch
<1>5. /\ Meets(sends', Foreign) <=> Meets(sends, Foreign)
      /\ Meets(sends', Failed) <=> Meets(sends, Failed)
    BY <1>1, OneMoreSend DEF Foreign, Failed, OfASwitch
<1>6. \A s \in Switches, k \in DOMAIN sends' : sends'[k] \in Writers(s) => k \in DOMAIN sends /\ sends'[k] = sends[k]
    BY <1>1, OneMoreSend DEF Writers, OfASwitch
<1>7. SwitchesWait'
  <2> SUFFICES ASSUME settingsScreen' # NoScreen PROVE SwitchesWait'
      BY DEF SwitchesWait
  <2>1. settingsScreen'.dialog = "cleanup" =>
              "stripTrackingParams" \in Switches /\ ~Meets(sends', Holding("stripTrackingParams"))
      BY <1>1, <1>2 DEF SwitchesWait
  <2>2. ASSUME NEW s \in Switches
        PROVE  /\ MeetsOnce(sends', Holding(s))
               /\ settingsScreen'.boxes[s].busy <=>
                    \/ Meets(sends', Holding(s))
                    \/ s = "stripTrackingParams" /\ settingsScreen'.dialog = "cleanup"
      BY <1>1, <1>2, <1>3 DEF SwitchesWait
  <2>3. QED
      BY <2>1, <2>2 DEF SwitchesWait
<1>8. SwitchesFollow'
  <2> SUFFICES ASSUME ~Excused' PROVE SwitchesFollow'
      BY DEF SwitchesFollow
  <2>1. /\ ~Meets(sends', Failed)
        /\ \A s \in Switches : Meets(sends', Stored(s)) \/ knownPrefs'[s] = prefs'[s]
      BY <1>1, <1>4, <1>5 DEF SwitchesFollow
  <2>2. ASSUME settingsScreen' # NoScreen
        PROVE  /\ ~Meets(sends', Foreign)
               /\ \A s \in Switches :
                    /\ \A k \in DOMAIN sends' : sends'[k] \in Writers(s) => Follows(sends'[k], settingsScreen', prefs')
                    /\ Meets(sends', Writers(s)) \/ settingsScreen'.boxes[s].checked = prefs'[s]
      BY <1>1, <1>4, <1>5, <1>6, <2>2 DEF SwitchesFollow, Follows
  <2>3. QED
      BY <2>1, <2>2 DEF SwitchesFollow
<1>9. QED
    BY <1>7, <1>8

(* The buttons go on: what is asked for now is none of theirs.             *)
LEMMA ControlsGoOn ==
    ASSUME SettingsPageInv, settingsScreen # NoScreen,
           \/ sends' = sends
           \/ \E e \in PageSends : sends' = Append(sends, e) /\ e.type # "adopt", pageRecord.asked => pageRecord'.asked,
           \A part \in {"replacing", "deciding", "typed", "sure", "erasable", "pressed"} :
              settingsScreen'[part] = settingsScreen[part],
           settingsScreen.deciding => settingsScreen'.dialog = settingsScreen.dialog
    PROVE  ControlsWait'
<1>1. SettingsPageTypes /\ ControlsWait
    BY DEF SettingsPageInv
<1>2. \A type : Meets(sends, AwaitedBy(type)) => Meets(sends', AwaitedBy(type))
    BY <1>1, OneMoreSend
<1>3. /\ Meets(sends', AwaitedBy("adopt")) <=> Meets(sends, AwaitedBy("adopt"))
      /\ MeetsOnce(sends, AwaitedBy("adopt")) => MeetsOnce(sends', AwaitedBy("adopt"))
    BY <1>1, OneMoreSend DEF AwaitedBy
<1>4. QED
    BY <1>1, <1>2, <1>3 DEF ControlsWait

(***************************** the user ***********************************)

LEMMA PressesStep ==
    ASSUME SettingsPageInv, NEW button \in {"sync", "password", "drive"}, Presses(button)
    PROVE  SettingsPageInv'
<1> DEFINE e == Sent(button, "")
<1>0. SettingsPageTypes /\ VaultsKept /\ ControlsWait
    BY DEF SettingsPageInv
<1>1. /\ settingsScreen # NoScreen
      /\ settingsScreen' = [settingsScreen EXCEPT !.pressed = @ \cup {button}]
      /\ sends' = Append(sends, e)
      /\ UNCHANGED <<prefs, permitted, localVault, remoteVault, knownPrefs, pageRecord>>
    BY DEF Presses, OnPage
<1>a. settingsScreen \in ScreenRecords
    BY <1>0, <1>1 DEF SettingsPageTypes
<1>2. e \in PageSends /\ e.type = button /\ e.mine
    BY <1>0, SentIsASend DEF Goes
<1> HIDE DEF e
<1>3. settingsScreen' \in ScreenRecords
    BY <1>0, <1>a, <1>1 DEF ScreenRecords
<1>4. SettingsPageTypes'
    BY <1>0, <1>a, <1>1, <1>2, <1>3, OneMoreSend DEF SettingsPageTypes
<1>5. VaultsKept'
    BY <1>0, <1>a, <1>1, <1>2, OneMoreSend DEF VaultsKept, OfType
<1>6. ControlsWait'
  <2>1. \A type : Meets(sends, AwaitedBy(type)) => Meets(sends', AwaitedBy(type))
      BY <1>0, <1>a, <1>1, <1>2, OneMoreSend
  <2>2. Meets(sends', AwaitedBy(button))
      BY <1>0, <1>a, <1>1, <1>2, OneMoreSend DEF AwaitedBy
  <2>3. /\ Meets(sends', AwaitedBy("adopt")) <=> Meets(sends, AwaitedBy("adopt"))
        /\ MeetsOnce(sends, AwaitedBy("adopt")) => MeetsOnce(sends', AwaitedBy("adopt"))
      BY <1>0, <1>a, <1>1, <1>2, OneMoreSend DEF AwaitedBy
  <2>4. settingsScreen'.pressed = settingsScreen.pressed \cup {button}
        /\ \A part \in {"replacing", "deciding", "typed", "sure", "erasable", "dialog"} : settingsScreen'[part] = settingsScreen[part]
      BY <1>0, <1>a, <1>1 DEF ScreenRecords
  <2>5. QED
      BY <1>0, <1>a, <1>1, <2>1, <2>2, <2>3, <2>4 DEF ControlsWait
<1>7. settingsScreen'.boxes = settingsScreen.boxes /\ settingsScreen'.dialog = settingsScreen.dialog
    BY <1>0, <1>a, <1>1 DEF ScreenRecords
<1>8. SwitchesWait' /\ SwitchesFollow'
    BY <1>0, <1>a, <1>1, <1>2, <1>7, SwitchesGoOn DEF Excused, OfASwitch
<1>9. QED
    BY <1>4, <1>5, <1>6, <1>8 DEF SettingsPageInv

LEMMA TogglesStep ==
    ASSUME SettingsPageInv, NEW s \in Switches, Toggles(s)
    PROVE  SettingsPageInv'
<1> DEFINE wanted == ~settingsScreen.boxes[s].checked
           arg == [switch |-> s, wanted |-> wanted]
           type == IF s = "clearHistoryOnLock" /\ wanted THEN "permission" ELSE "set"
           e == Sent(type, arg)
<1>0. SettingsPageTypes /\ VaultsKept /\ ControlsWait /\ SwitchesWait /\ SwitchesFollow
    BY DEF SettingsPageInv
<1>1. /\ settingsScreen # NoScreen /\ settingsScreen.dialog = "none"
      /\ ~settingsScreen.boxes[s].busy
      /\ settingsScreen' = [settingsScreen EXCEPT !.boxes[s] = [checked |-> wanted, busy |-> TRUE]]
      /\ sends' = Append(sends, e)
      /\ UNCHANGED <<prefs, permitted, localVault, remoteVault, knownPrefs, pageRecord>>
    BY DEF Toggles, OnPage
<1>2. settingsScreen \in ScreenRecords
    BY <1>0, <1>1 DEF SettingsPageTypes
<1>3. wanted \in BOOLEAN /\ settingsScreen.boxes[s].checked \in BOOLEAN
    BY <1>2 DEF ScreenRecords
<1>4. arg \in SwitchArgs /\ arg.switch = s /\ arg.wanted = wanted
    BY <1>3 DEF SwitchArgs
<1>5. type \in {"permission", "set"}
    OBVIOUS
<1> HIDE DEF arg, type, wanted
<1>6. e \in PageSends /\ e.type = type /\ e.arg = arg /\ e.mine /\ e.at = "sent"
    BY <1>0, <1>4, <1>5, SentIsASend DEF Goes
<1> HIDE DEF e
<1>7. /\ settingsScreen'.boxes = [settingsScreen.boxes EXCEPT ![s] = [checked |-> wanted, busy |-> TRUE]]
      /\ \A part \in {"replacing", "deciding", "typed", "sure", "erasable", "pressed", "dialog"} :
              settingsScreen'[part] = settingsScreen[part]
      /\ settingsScreen' \in ScreenRecords
    BY <1>1, <1>2, <1>3 DEF ScreenRecords
<1>8. /\ settingsScreen'.boxes[s].checked = wanted /\ settingsScreen'.boxes[s].busy
      /\ \A t \in Switches : t # s => settingsScreen'.boxes[t] = settingsScreen.boxes[t]
    BY <1>2, <1>7 DEF ScreenRecords
<1>9. SettingsPageTypes'
    BY <1>0, <1>1, <1>6, <1>7, OneMoreSend DEF SettingsPageTypes
<1>10. VaultsKept'
    BY <1>0, <1>1, <1>5, <1>6, OneMoreSend DEF VaultsKept, OfType
<1>11. ControlsWait'
    BY <1>1, <1>5, <1>6, <1>7, ControlsGoOn
<1>12. \A t \in Switches : /\ e \in Holding(t) <=> t = s
                           /\ e \in Writers(t) <=> t = s
                           /\ e \notin Stored(t)
    BY <1>4, <1>5, <1>6 DEF Holding, Writers, Stored, OfASwitch
<1>13. ~Meets(sends, Holding(s))
    BY <1>0, <1>1 DEF SwitchesWait
<1>14. SwitchesWait'
  <2>1. settingsScreen'.dialog = "none"
      BY <1>1, <1>7
  <2>2. ASSUME NEW t \in Switches
        PROVE  MeetsOnce(sends', Holding(t)) /\ (settingsScreen'.boxes[t].busy <=> Meets(sends', Holding(t)))
    <3>1. CASE t = s
        BY <1>0, <1>1, <1>6, <1>8, <1>12, <1>13, <3>1, OneMoreSend DEF SwitchesWait
    <3>2. CASE t # s
        BY <1>0, <1>1, <1>6, <1>8, <1>12, <3>2, OneMoreSend DEF SwitchesWait
    <3>3. QED
        BY <3>1, <3>2
  <2>3. QED
      BY <2>1, <2>2 DEF SwitchesWait
<1>15. SwitchesFollow'
  <2> SUFFICES ASSUME ~Excused' PROVE SwitchesFollow'
      BY DEF SwitchesFollow
  <2>1. ~Excused
      BY <1>1 DEF Excused
  <2>2. ~Meets(sends, Writers(s))
      BY <1>13 DEF Meets, Holding, Writers, OfASwitch
  <2>3. settingsScreen.boxes[s].checked = prefs[s]
      BY <1>0, <1>1, <2>1, <2>2 DEF SwitchesFollow
  <2>4. prefs[s] = ~wanted
      BY <1>3, <2>3 DEF wanted
  <2>5. \A t \in Switches : Meets(sends', Stored(t)) \/ knownPrefs'[t] = prefs'[t]
      BY <1>0, <1>1, <1>6, <2>1, OneMoreSend DEF SwitchesFollow
  <2>6. ~Meets(sends', Foreign) /\ ~Meets(sends', Failed)
      BY <1>0, <1>1, <1>6, <2>1, OneMoreSend DEF SwitchesFollow, Foreign, Failed
  <2>7. ASSUME NEW t \in Switches, NEW k \in DOMAIN sends', sends'[k] \in Writers(t)
        PROVE  Follows(sends'[k], settingsScreen', prefs')
    <3>1. CASE sends'[k] = e
        BY <1>1, <1>4, <1>6, <1>8, <2>4, <3>1 DEF Follows
    <3>2. CASE k \in DOMAIN sends /\ sends'[k] = sends[k]
      <4>1. t # s
          BY <2>2, <2>7, <3>2 DEF Meets
      <4>2. Follows(sends[k], settingsScreen, prefs) /\ sends[k].arg.switch = t
          BY <1>0, <1>1, <2>1, <2>7, <3>2 DEF SwitchesFollow, Writers
      <4>3. QED
          BY <1>1, <1>8, <3>2, <4>1, <4>2 DEF Follows
    <3>3. QED
        BY <1>0, <1>1, <1>6, <3>1, <3>2, OneMoreSend
  <2>8. ASSUME NEW t \in Switches
        PROVE  Meets(sends', Writers(t)) \/ settingsScreen'.boxes[t].checked = prefs'[t]
    <3>1. CASE t = s
        BY <1>0, <1>1, <1>6, <1>12, <3>1, OneMoreSend
    <3>2. CASE t # s
        BY <1>0, <1>1, <1>6, <1>8, <2>1, <3>2, OneMoreSend DEF SwitchesFollow
    <3>3. QED
        BY <3>1, <3>2
  <2>9. QED
      BY <2>5, <2>6, <2>7, <2>8 DEF SwitchesFollow
<1>16. QED
    BY <1>9, <1>10, <1>11, <1>14, <1>15 DEF SettingsPageInv

(* What most gestures leave alone.                                         *)
LEMMA QuietGesture ==
    ASSUME SettingsPageInv, settingsScreen # NoScreen, settingsScreen' \in ScreenRecords,
           \/ sends' = sends
           \/ \E e \in PageSends : sends' = Append(sends, e) /\ e.type \notin OfASwitch /\ e.type # "adopt",
           settingsScreen'.boxes = settingsScreen.boxes, settingsScreen'.dialog = settingsScreen.dialog,
           UNCHANGED <<prefs, permitted, localVault, remoteVault, knownPrefs>>,
           pageRecord' \in PageRecords,
           \A part \in {"adopted", "destroyed", "lost", "elsewhere", "crossed", "rebuilt"} :
              pageRecord'[part] = pageRecord[part]
    PROVE  SettingsPageTypes' /\ VaultsKept' /\ SwitchesWait' /\ SwitchesFollow'
<1>1. SettingsPageTypes /\ VaultsKept
    BY DEF SettingsPageInv
<1>2. SettingsPageTypes'
    BY <1>1, OneMoreSend DEF SettingsPageTypes
<1>3. VaultsKept'
    BY <1>1, OneMoreSend DEF VaultsKept, OfType
<1>4. SwitchesWait' /\ SwitchesFollow'
    BY SwitchesGoOn DEF Excused
<1>5. QED
    BY <1>2, <1>3, <1>4

LEMMA PressesReplaceStep ==
    ASSUME SettingsPageInv, PressesReplace
    PROVE  SettingsPageInv'
<1> DEFINE e == Sent("replace", "")
<1>0. SettingsPageTypes /\ ControlsWait
    BY DEF SettingsPageInv
<1>1. settingsScreen # NoScreen /\ UNCHANGED <<prefs, permitted, localVault, remoteVault, knownPrefs, pageRecord>>
    BY DEF PressesReplace, OnPage
<1>2. settingsScreen \in ScreenRecords /\ pageRecord \in PageRecords
    BY <1>0, <1>1 DEF SettingsPageTypes
<1>3. e \in PageSends /\ e.type = "replace" /\ e.mine
    BY <1>0, SentIsASend DEF Goes
<1> HIDE DEF e
<1>4. CASE /\ settingsScreen' = [settingsScreen EXCEPT !.replacing = TRUE]
           /\ sends' = Append(sends, e)
  <2>1. /\ settingsScreen' \in ScreenRecords /\ settingsScreen'.boxes = settingsScreen.boxes
        /\ \A part \in {"deciding", "typed", "sure", "erasable", "pressed", "dialog"} :
              settingsScreen'[part] = settingsScreen[part]
      BY <1>2, <1>4 DEF ScreenRecords
  <2>2. \A type : Meets(sends, AwaitedBy(type)) => Meets(sends', AwaitedBy(type))
      BY <1>0, <1>3, <1>4, OneMoreSend
  <2>3. Meets(sends', AwaitedBy("replace"))
      BY <1>0, <1>3, <1>4, OneMoreSend DEF AwaitedBy
  <2>4. /\ Meets(sends', AwaitedBy("adopt")) <=> Meets(sends, AwaitedBy("adopt"))
        /\ MeetsOnce(sends, AwaitedBy("adopt")) => MeetsOnce(sends', AwaitedBy("adopt"))
      BY <1>0, <1>3, <1>4, OneMoreSend DEF AwaitedBy
  <2>5. ControlsWait'
      BY <1>0, <1>1, <2>1, <2>2, <2>3, <2>4 DEF ControlsWait
  <2>6. SettingsPageTypes' /\ VaultsKept' /\ SwitchesWait' /\ SwitchesFollow'
      BY <1>1, <1>2, <1>3, <1>4, <2>1, QuietGesture DEF OfASwitch
  <2>7. QED
      BY <2>5, <2>6 DEF SettingsPageInv
<1>5. CASE settingsScreen' = [settingsScreen EXCEPT !.armed = TRUE] /\ sends' = sends
  <2>1. /\ settingsScreen' \in ScreenRecords /\ settingsScreen'.boxes = settingsScreen.boxes
        /\ \A part \in {"replacing", "deciding", "typed", "sure", "erasable", "pressed", "dialog"} :
              settingsScreen'[part] = settingsScreen[part]
      BY <1>2, <1>5 DEF ScreenRecords
  <2>2. ControlsWait'
      BY <1>1, <1>5, <2>1, ControlsGoOn
  <2>3. SettingsPageTypes' /\ VaultsKept' /\ SwitchesWait' /\ SwitchesFollow'
      BY <1>1, <1>2, <1>5, <2>1, QuietGesture
  <2>4. QED
      BY <2>2, <2>3 DEF SettingsPageInv
<1>6. QED
    BY <1>4, <1>5 DEF PressesReplace, e

LEMMA TicksRemoteStep ==
    ASSUME SettingsPageInv, TicksRemote
    PROVE  SettingsPageInv'
<1>0. SettingsPageTypes
    BY DEF SettingsPageInv
<1>1. /\ settingsScreen # NoScreen /\ UNCHANGED <<prefs, permitted, localVault, remoteVault, knownPrefs, sends, pageRecord>>
      /\ settingsScreen' = [settingsScreen EXCEPT !.alsoRemote = ~@]
    BY DEF TicksRemote, OnPage
<1>2. settingsScreen \in ScreenRecords /\ pageRecord \in PageRecords
    BY <1>0, <1>1 DEF SettingsPageTypes
<1>3. /\ settingsScreen' \in ScreenRecords /\ settingsScreen'.boxes = settingsScreen.boxes
      /\ \A part \in {"replacing", "deciding", "typed", "sure", "erasable", "pressed", "dialog"} :
              settingsScreen'[part] = settingsScreen[part]
    BY <1>1, <1>2 DEF ScreenRecords
<1>4. ControlsWait'
    BY <1>1, <1>3, ControlsGoOn
<1>5. SettingsPageTypes' /\ VaultsKept' /\ SwitchesWait' /\ SwitchesFollow'
    BY <1>1, <1>2, <1>3, QuietGesture
<1>6. QED
    BY <1>4, <1>5 DEF SettingsPageInv

LEMMA TypesPhraseStep ==
    ASSUME SettingsPageInv, NEW complete \in BOOLEAN, TypesPhrase(complete)
    PROVE  SettingsPageInv'
<1>0. SettingsPageTypes /\ ControlsWait
    BY DEF SettingsPageInv
<1>1. /\ settingsScreen # NoScreen /\ UNCHANGED <<prefs, permitted, localVault, remoteVault, knownPrefs, sends>>
      /\ settingsScreen' = [settingsScreen EXCEPT !.typed = complete, !.erasable = complete, !.sure = @ /\ complete]
      /\ pageRecord' = [pageRecord EXCEPT !.asked = @ /\ complete]
    BY DEF TypesPhrase, OnPage
<1>2. settingsScreen \in ScreenRecords /\ pageRecord \in PageRecords
    BY <1>0, <1>1 DEF SettingsPageTypes
<1>3. /\ settingsScreen' \in ScreenRecords /\ settingsScreen'.boxes = settingsScreen.boxes
      /\ \A part \in {"replacing", "deciding", "pressed", "dialog"} :
              settingsScreen'[part] = settingsScreen[part]
    BY <1>1, <1>2 DEF ScreenRecords
<1>4. /\ pageRecord' \in PageRecords
      /\ \A part \in {"adopted", "destroyed", "lost", "elsewhere", "crossed", "rebuilt"} :
              pageRecord'[part] = pageRecord[part]
    BY <1>1, <1>2 DEF PageRecords
<1>5. /\ settingsScreen'.typed => settingsScreen'.erasable
      /\ settingsScreen'.sure => settingsScreen.sure /\ complete
      /\ pageRecord.asked /\ complete => pageRecord'.asked
    BY <1>1, <1>2 DEF ScreenRecords, PageRecords
<1>6. ControlsWait'
    BY <1>0, <1>1, <1>3, <1>5 DEF ControlsWait
<1>7. SettingsPageTypes' /\ VaultsKept' /\ SwitchesWait' /\ SwitchesFollow'
    BY <1>1, <1>2, <1>3, <1>4, QuietGesture
<1>8. QED
    BY <1>6, <1>7 DEF SettingsPageInv

LEMMA PressesDestroyStep ==
    ASSUME SettingsPageInv, PressesDestroy
    PROVE  SettingsPageInv'
<1> DEFINE e == Sent("destroy", settingsScreen.alsoRemote)
<1>0. SettingsPageTypes /\ ControlsWait
    BY DEF SettingsPageInv
<1>1. settingsScreen # NoScreen /\ UNCHANGED <<prefs, permitted, localVault, remoteVault, knownPrefs>>
    BY DEF PressesDestroy, OnPage
<1>2. settingsScreen \in ScreenRecords /\ pageRecord \in PageRecords
    BY <1>0, <1>1 DEF SettingsPageTypes
<1>3. CASE /\ settingsScreen.sure
           /\ settingsScreen' = [settingsScreen EXCEPT !.erasable = FALSE]
           /\ sends' = Append(sends, e)
           /\ pageRecord' = pageRecord
  <2>1. /\ settingsScreen' \in ScreenRecords /\ settingsScreen'.boxes = settingsScreen.boxes
        /\ \A part \in {"replacing", "deciding", "typed", "sure", "pressed", "dialog"} :
              settingsScreen'[part] = settingsScreen[part]
        /\ settingsScreen.alsoRemote \in Flags
      BY <1>2, <1>3 DEF ScreenRecords, Flags
  <2>2. pageRecord.asked
      BY <1>0, <1>1, <1>3 DEF ControlsWait
  <2>3. e \in PageSends /\ e.type = "destroy" /\ e.mine
      BY <1>0, <2>1, <2>2, SentIsASend DEF Goes
  <2> HIDE DEF e
  <2>4. \A type : Meets(sends, AwaitedBy(type)) => Meets(sends', AwaitedBy(type))
      BY <1>0, <1>3, <2>3, OneMoreSend
  <2>5. Meets(sends', AwaitedBy("destroy"))
      BY <1>0, <1>3, <2>3, OneMoreSend DEF AwaitedBy
  <2>6. /\ Meets(sends', AwaitedBy("adopt")) <=> Meets(sends, AwaitedBy("adopt"))
        /\ MeetsOnce(sends, AwaitedBy("adopt")) => MeetsOnce(sends', AwaitedBy("adopt"))
      BY <1>0, <1>3, <2>3, OneMoreSend DEF AwaitedBy
  <2>7. ControlsWait'
      BY <1>0, <1>1, <1>3, <2>1, <2>4, <2>5, <2>6 DEF ControlsWait
  <2>8. SettingsPageTypes' /\ VaultsKept' /\ SwitchesWait' /\ SwitchesFollow'
      BY <1>1, <1>2, <1>3, <2>1, <2>3, QuietGesture DEF OfASwitch
  <2>9. QED
      BY <2>7, <2>8 DEF SettingsPageInv
<1>4. CASE /\ settingsScreen' = [settingsScreen EXCEPT !.sure = TRUE]
           /\ pageRecord' = [pageRecord EXCEPT !.asked = TRUE]
           /\ sends' = sends
  <2>1. /\ settingsScreen' \in ScreenRecords /\ settingsScreen'.boxes = settingsScreen.boxes
        /\ \A part \in {"replacing", "deciding", "typed", "erasable", "pressed", "dialog"} :
              settingsScreen'[part] = settingsScreen[part]
      BY <1>2, <1>4 DEF ScreenRecords
  <2>2. /\ pageRecord' \in PageRecords /\ pageRecord'.asked
        /\ \A part \in {"adopted", "destroyed", "lost", "elsewhere", "crossed", "rebuilt"} :
              pageRecord'[part] = pageRecord[part]
      BY <1>2, <1>4 DEF PageRecords
  <2>3. ControlsWait'
      BY <1>0, <1>1, <1>4, <2>1, <2>2 DEF ControlsWait
  <2>4. SettingsPageTypes' /\ VaultsKept' /\ SwitchesWait' /\ SwitchesFollow'
      BY <1>1, <1>2, <1>4, <2>1, <2>2, QuietGesture
  <2>5. QED
      BY <2>3, <2>4 DEF SettingsPageInv
<1>5. QED
    BY <1>3, <1>4 DEF PressesDestroy, e

LEMMA OpensAdoptionStep ==
    ASSUME SettingsPageInv, OpensAdoption
    PROVE  SettingsPageInv'
<1>0. SettingsPageTypes /\ ControlsWait
    BY DEF SettingsPageInv
<1>1. /\ settingsScreen # NoScreen /\ settingsScreen.dialog = "none"
      /\ UNCHANGED <<prefs, permitted, localVault, remoteVault, knownPrefs, sends, pageRecord>>
      /\ settingsScreen' = [settingsScreen EXCEPT !.dialog = "adopt"]
    BY DEF OpensAdoption, OnPage
<1>2. settingsScreen \in ScreenRecords
    BY <1>0, <1>1 DEF SettingsPageTypes
<1>3. /\ settingsScreen' \in ScreenRecords /\ settingsScreen'.boxes = settingsScreen.boxes
      /\ settingsScreen'.dialog = "adopt"
      /\ \A part \in {"replacing", "deciding", "typed", "sure", "erasable", "pressed"} :
              settingsScreen'[part] = settingsScreen[part]
    BY <1>1, <1>2 DEF ScreenRecords
<1>4. ControlsWait'
    BY <1>0, <1>1, <1>3 DEF ControlsWait
<1>5. SettingsPageTypes'
    BY <1>0, <1>1, <1>3 DEF SettingsPageTypes
<1>6. VaultsKept'
    BY <1>1 DEF SettingsPageInv, VaultsKept
<1>7. SwitchesWait' /\ SwitchesFollow'
    BY <1>1, <1>3, SwitchesGoOn DEF Excused
<1>8. QED
    BY <1>4, <1>5, <1>6, <1>7 DEF SettingsPageInv

LEMMA ConfirmsStep ==
    ASSUME SettingsPageInv, NEW password \in {"right", "wrong"}, Confirms(password)
    PROVE  SettingsPageInv'
<1>0. SettingsPageTypes /\ VaultsKept /\ ControlsWait /\ SwitchesWait /\ SwitchesFollow
    BY DEF SettingsPageInv
<1>1. /\ settingsScreen # NoScreen /\ ~settingsScreen.deciding /\ settingsScreen.dialog # "none"
      /\ UNCHANGED <<prefs, permitted, localVault, remoteVault, knownPrefs>>
    BY DEF Confirms
<1>2. settingsScreen \in ScreenRecords /\ pageRecord \in PageRecords
    BY <1>0, <1>1 DEF SettingsPageTypes
<1>3. ASSUME settingsScreen.dialog = "adopt",
             settingsScreen' = [settingsScreen EXCEPT !.deciding = TRUE],
             sends' = Append(sends, Sent("adopt", [password |-> password, found |-> "none"])),
             pageRecord' = [pageRecord EXCEPT !.adopted = TRUE]
      PROVE  SettingsPageInv'
  <2> DEFINE arg == [password |-> password, found |-> "none"]
             e == Sent("adopt", arg)
  <2>1. arg \in AdoptArgs
      BY DEF AdoptArgs, Vaults
  <2> HIDE DEF arg
  <2>2. e \in PageSends /\ e.type = "adopt" /\ e.mine
      BY <1>0, <2>1, SentIsASend DEF Goes
  <2>3. sends' = Append(sends, e)
      BY <1>3 DEF arg
  <2> HIDE DEF e
  <2>4. /\ settingsScreen' \in ScreenRecords /\ settingsScreen'.boxes = settingsScreen.boxes /\ settingsScreen'.deciding
        /\ \A part \in {"replacing", "typed", "sure", "erasable", "pressed", "dialog"} :
              settingsScreen'[part] = settingsScreen[part]
      BY <1>2, <1>3 DEF ScreenRecords
  <2>5. /\ pageRecord' \in PageRecords /\ pageRecord'.adopted
        /\ \A part \in {"asked", "destroyed", "lost", "elsewhere", "crossed", "rebuilt"} :
              pageRecord'[part] = pageRecord[part]
      BY <1>2, <1>3 DEF PageRecords
  <2>6. SettingsPageTypes'
      BY <1>0, <1>1, <2>2, <2>3, <2>4, <2>5, OneMoreSend DEF SettingsPageTypes
  <2>7. VaultsKept'
      BY <1>0, <1>1, <2>5 DEF VaultsKept
  <2>8. \A type : Meets(sends, AwaitedBy(type)) => Meets(sends', AwaitedBy(type))
      BY <1>0, <2>2, <2>3, OneMoreSend
  <2>9. e \in AwaitedBy("adopt") /\ ~Meets(sends, AwaitedBy("adopt"))
      BY <1>0, <1>1, <2>2 DEF AwaitedBy, ControlsWait
  <2>10. Meets(sends', AwaitedBy("adopt")) /\ MeetsOnce(sends', AwaitedBy("adopt"))
      BY <1>0, <1>1, <2>2, <2>3, <2>9, OneMoreSend DEF ControlsWait
  <2>11. ControlsWait'
      BY <1>0, <1>1, <1>3, <2>4, <2>5, <2>8, <2>10 DEF ControlsWait
  <2>12. SwitchesWait' /\ SwitchesFollow'
      BY <1>1, <2>2, <2>3, <2>4, <2>5, SwitchesGoOn DEF Excused, OfASwitch
  <2>13. QED
      BY <2>6, <2>7, <2>11, <2>12 DEF SettingsPageInv
<1>4. ASSUME settingsScreen.dialog # "adopt",
             settingsScreen' = [settingsScreen EXCEPT !.dialog = "none"],
             sends' = Append(sends, Sent("strip", [switch |-> "stripTrackingParams", wanted |-> TRUE])),
             pageRecord' = pageRecord
      PROVE  SettingsPageInv'
  <2> DEFINE arg == [switch |-> "stripTrackingParams", wanted |-> TRUE]
             e == Sent("strip", arg)
             strip == "stripTrackingParams"
  <2>1. settingsScreen.dialog = "cleanup"
      BY <1>1, <1>2, <1>4 DEF ScreenRecords
  <2>2. strip \in Switches /\ ~Meets(sends, Holding(strip))
      BY <1>0, <1>1, <2>1 DEF SwitchesWait
  <2>3. arg \in SwitchArgs /\ arg.switch = strip
      BY <2>2 DEF SwitchArgs
  <2> HIDE DEF arg
  <2>a. Goes("strip", arg)
      BY <2>3 DEF Goes
  <2>4. e \in PageSends /\ e.type = "strip" /\ e.arg = arg /\ e.mine
      BY <1>0, <2>a, SentIsASend
  <2>5. sends' = Append(sends, e)
      BY <1>4 DEF arg
  <2> HIDE DEF e
  <2>6. /\ settingsScreen' \in ScreenRecords /\ settingsScreen'.boxes = settingsScreen.boxes /\ settingsScreen'.dialog = "none"
        /\ \A part \in {"replacing", "deciding", "typed", "sure", "erasable", "pressed"} :
              settingsScreen'[part] = settingsScreen[part]
      BY <1>2, <1>4 DEF ScreenRecords
  <2>7. SettingsPageTypes'
      BY <1>0, <1>1, <1>4, <2>4, <2>5, <2>6, OneMoreSend DEF SettingsPageTypes
  <2>8. VaultsKept'
      BY <1>0, <1>1, <1>4, <2>4, <2>5, OneMoreSend DEF VaultsKept, OfType
  <2>9. ControlsWait'
      BY <1>1, <1>4, <2>4, <2>5, <2>6, ControlsGoOn
  <2>10. \A t \in Switches : /\ e \in Holding(t) <=> t = strip
                             /\ e \notin Writers(t) /\ e \notin Stored(t)
      BY <2>3, <2>4 DEF Holding, Writers, Stored, OfASwitch
  <2>11. e \notin Foreign /\ e \notin Failed
      BY <2>4 DEF Foreign, Failed
  <2>12. SwitchesWait'
    <3>1. ASSUME NEW t \in Switches
          PROVE  MeetsOnce(sends', Holding(t)) /\ (settingsScreen'.boxes[t].busy <=> Meets(sends', Holding(t)))
      <4>1. CASE t = strip
          BY <1>0, <1>1, <2>1, <2>2, <2>4, <2>5, <2>6, <2>10, <4>1, OneMoreSend DEF SwitchesWait
      <4>2. CASE t # strip
          BY <1>0, <1>1, <2>1, <2>4, <2>5, <2>6, <2>10, <4>2, OneMoreSend DEF SwitchesWait
      <4>3. QED
          BY <4>1, <4>2
    <3>2. QED
        BY <2>6, <3>1 DEF SwitchesWait
  <2>13. SwitchesFollow'
    <3> SUFFICES ASSUME ~Excused' PROVE SwitchesFollow'
        BY DEF SwitchesFollow
    <3>1. ~Excused
        BY <1>4 DEF Excused
    <3>2. \A t \in Switches : Meets(sends', Stored(t)) \/ knownPrefs'[t] = prefs'[t]
        BY <1>0, <1>1, <2>4, <2>5, <3>1, OneMoreSend DEF SwitchesFollow
    <3>3. ~Meets(sends', Failed) /\ (settingsScreen # NoScreen => ~Meets(sends', Foreign))
        BY <1>0, <1>1, <2>4, <2>5, <2>11, <3>1, OneMoreSend DEF SwitchesFollow
    <3>4. \A t \in Switches, k \in DOMAIN sends' : sends'[k] \in Writers(t) => k \in DOMAIN sends /\ sends'[k] = sends[k]
        BY <1>0, <2>4, <2>5, <2>10, OneMoreSend
    <3>5. ASSUME NEW t \in Switches
          PROVE  /\ \A k \in DOMAIN sends' : sends'[k] \in Writers(t) => Follows(sends'[k], settingsScreen', prefs')
                 /\ Meets(sends', Writers(t)) \/ settingsScreen'.boxes[t].checked = prefs'[t]
        BY <1>0, <1>1, <2>4, <2>5, <2>6, <2>10, <3>1, <3>4, OneMoreSend DEF SwitchesFollow, Follows
    <3>6. QED
        BY <1>1, <3>2, <3>3, <3>5, Zenon DEF SwitchesFollow
  <2>14. QED
      BY <2>7, <2>8, <2>9, <2>12, <2>13 DEF SettingsPageInv
<1>5. QED
    BY <1>3, <1>4 DEF Confirms

LEMMA DismissesStep ==
    ASSUME SettingsPageInv, Dismisses
    PROVE  SettingsPageInv'
<1> DEFINE strip == "stripTrackingParams"
           CleanupAsked == settingsScreen.dialog = "cleanup"
<1>0. SettingsPageTypes /\ VaultsKept /\ ControlsWait /\ SwitchesWait /\ SwitchesFollow
    BY DEF SettingsPageInv
<1>1. /\ settingsScreen # NoScreen /\ settingsScreen.dialog # "none" /\ ~settingsScreen.deciding
      /\ settingsScreen' = [settingsScreen EXCEPT !.dialog = "none",
                            !.boxes = [s \in Switches |-> IF settingsScreen.dialog = "cleanup" /\ s = "stripTrackingParams"
                                                          THEN [@[s] EXCEPT !.busy = FALSE] ELSE @[s]]]
      /\ UNCHANGED <<prefs, permitted, localVault, remoteVault, knownPrefs, sends, pageRecord>>
    BY DEF Dismisses
<1>2. settingsScreen \in ScreenRecords
    BY <1>0, <1>1 DEF SettingsPageTypes
<1>3. /\ settingsScreen'.dialog = "none"
      /\ settingsScreen'.boxes = [s \in Switches |-> IF CleanupAsked /\ s = strip
                                                     THEN [settingsScreen.boxes[s] EXCEPT !.busy = FALSE]
                                                     ELSE settingsScreen.boxes[s]]
      /\ \A part \in {"replacing", "deciding", "typed", "sure", "erasable", "pressed", "mismatch", "armed", "alsoRemote"} :
              settingsScreen'[part] = settingsScreen[part]
    BY <1>1, <1>2 DEF ScreenRecords
<1>4. /\ settingsScreen'.boxes \in [Switches -> [checked : BOOLEAN, busy : BOOLEAN]]
      /\ \A s \in Switches : /\ settingsScreen'.boxes[s].checked = settingsScreen.boxes[s].checked
                             /\ CleanupAsked /\ s = strip => ~settingsScreen'.boxes[s].busy
                             /\ ~(CleanupAsked /\ s = strip) => settingsScreen'.boxes[s] = settingsScreen.boxes[s]
  <2> DEFINE box(s) == IF CleanupAsked /\ s = strip THEN [settingsScreen.boxes[s] EXCEPT !.busy = FALSE] ELSE settingsScreen.boxes[s]
  <2>1. \A s \in Switches : settingsScreen.boxes[s] \in [checked : BOOLEAN, busy : BOOLEAN]
      BY <1>2 DEF ScreenRecords
  <2>2. ASSUME NEW s \in Switches
        PROVE  /\ box(s) \in [checked : BOOLEAN, busy : BOOLEAN]
               /\ box(s).checked = settingsScreen.boxes[s].checked
               /\ CleanupAsked /\ s = strip => ~box(s).busy
               /\ ~(CleanupAsked /\ s = strip) => box(s) = settingsScreen.boxes[s]
    <3>1. CASE CleanupAsked /\ s = strip
        BY <2>1, <3>1
    <3>2. CASE ~(CleanupAsked /\ s = strip)
        BY <2>1, <3>2
    <3>3. QED
        BY <3>1, <3>2
  <2>3. settingsScreen'.boxes = [s \in Switches |-> box(s)]
      BY <1>3
  <2> HIDE DEF box
  <2>4. QED
      BY <2>2, <2>3
<1>5. settingsScreen' \in ScreenRecords
    BY <1>1, <1>2, <1>3, <1>4 DEF ScreenRecords
<1>6. SettingsPageTypes' /\ VaultsKept'
    BY <1>0, <1>1, <1>5 DEF SettingsPageTypes, VaultsKept
<1>7. ControlsWait'
    BY <1>0, <1>1, <1>3 DEF ControlsWait
<1>8. SwitchesWait'
    BY <1>0, <1>1, <1>3, <1>4 DEF SwitchesWait
<1>9. SwitchesFollow'
  <2>1. \A s \in Switches : \A x \in Writers(s) : Follows(x, settingsScreen, prefs) => Follows(x, settingsScreen', prefs)
      BY <1>4 DEF Writers, Follows
  <2>2. QED
      BY <1>0, <1>1, <1>4, <2>1 DEF SwitchesFollow, Excused
<1>10. QED
    BY <1>6, <1>7, <1>8, <1>9 DEF SettingsPageInv

(* What the screens before wait for is nobody's.                           *)
LEMMA OrphansAreNobodys ==
    ASSUME NEW q \in Seq(PageSends)
    PROVE  /\ Orphans(q) \in Seq(PageSends)
           /\ \A type : /\ ~Meets(Orphans(q), AwaitedBy(type))
                        /\ Meets(Orphans(q), OfType(type)) <=> Meets(q, OfType(type))
           /\ \A s : /\ ~Meets(Orphans(q), Holding(s)) /\ ~Meets(Orphans(q), Writers(s))
                     /\ Meets(Orphans(q), Stored(s)) <=> Meets(q, Stored(s))
           /\ Meets(Orphans(q), Failed) => Meets(q, Failed)
           /\ Meets(Orphans(q), Foreign) => \E k \in DOMAIN q : q[k].type \in {"permission", "set"}
<1> DEFINE r == Orphans(q)
<1>1. DOMAIN r = DOMAIN q /\ \A k \in DOMAIN q : r[k] = [q[k] EXCEPT !.mine = FALSE]
    BY DEF Orphans
<1>2. DOMAIN q = 1 .. Len(q) /\ Len(q) \in Nat /\ \A k \in DOMAIN q : q[k] \in PageSends
    OBVIOUS
<1>3. ASSUME NEW x \in PageSends
      PROVE  /\ [x EXCEPT !.mine = FALSE] \in PageSends
             /\ ~[x EXCEPT !.mine = FALSE].mine
             /\ \A part \in {"type", "arg", "at", "ok"} : [x EXCEPT !.mine = FALSE][part] = x[part]
  <2>1. [x EXCEPT !.mine = FALSE] \in PageSends
      BY DEF PageSends
  <2>2. ~[x EXCEPT !.mine = FALSE].mine
      BY DEF PageSends
  <2>3. \A part \in {"type", "arg", "at", "ok"} : [x EXCEPT !.mine = FALSE][part] = x[part]
      BY DEF PageSends
  <2>4. QED
      BY <2>1, <2>2, <2>3
<1>4. \A k \in DOMAIN q : r[k] \in PageSends /\ ~r[k].mine /\ r[k].type = q[k].type /\ r[k].arg = q[k].arg
                           /\ r[k].at = q[k].at /\ r[k].ok = q[k].ok
    BY <1>1, <1>2, <1>3
<1>5. r = [k \in 1 .. Len(q) |-> r[k]]
    BY <1>2 DEF Orphans
<1> HIDE DEF r
<1>6. r \in Seq(PageSends)
    BY <1>1, <1>2, <1>4, <1>5
<1>7. \A type : /\ ~Meets(r, AwaitedBy(type))
                /\ Meets(r, OfType(type)) <=> Meets(q, OfType(type))
    BY <1>1, <1>2, <1>4 DEF Meets, AwaitedBy, OfType
<1>8. \A s : /\ ~Meets(r, Holding(s)) /\ ~Meets(r, Writers(s))
             /\ Meets(r, Stored(s)) <=> Meets(q, Stored(s))
    BY <1>1, <1>2, <1>4 DEF Meets, Holding, Writers, Stored
<1>9. /\ Meets(r, Foreign) => \E k \in DOMAIN q : q[k].type \in {"permission", "set"}
      /\ Meets(r, Failed) => Meets(q, Failed)
    BY <1>1, <1>2, <1>4 DEF Meets, Foreign, Failed
<1>10. QED
    BY <1>6, <1>7, <1>8, <1>9 DEF r

LEMMA LeavesSettingsStep ==
    ASSUME SettingsPageInv, LeavesSettings
    PROVE  SettingsPageInv'
<1>0. SettingsPageTypes /\ VaultsKept /\ SwitchesFollow
    BY DEF SettingsPageInv
<1>1. /\ settingsScreen' = NoScreen /\ sends' = Orphans(sends)
      /\ pageRecord' = [pageRecord EXCEPT !.asked = FALSE]
      /\ UNCHANGED <<prefs, permitted, localVault, remoteVault, knownPrefs>>
    BY DEF LeavesSettings
<1>2. sends \in Seq(PageSends) /\ pageRecord \in PageRecords
    BY <1>0 DEF SettingsPageTypes
<1>3. /\ pageRecord' \in PageRecords
      /\ \A part \in {"adopted", "destroyed", "lost", "elsewhere", "crossed", "rebuilt"} :
              pageRecord'[part] = pageRecord[part]
    BY <1>1, <1>2 DEF PageRecords
<1>4. SettingsPageTypes'
    BY <1>0, <1>1, <1>2, <1>3, OrphansAreNobodys DEF SettingsPageTypes
<1>5. VaultsKept'
    BY <1>0, <1>1, <1>2, <1>3, OrphansAreNobodys DEF VaultsKept
<1>6. ControlsWait' /\ SwitchesWait'
    BY <1>1 DEF ControlsWait, SwitchesWait
<1>7. SwitchesFollow'
    BY <1>0, <1>1, <1>2, <1>3, OrphansAreNobodys DEF SwitchesFollow, Excused
<1>8. QED
    BY <1>4, <1>5, <1>6, <1>7 DEF SettingsPageInv

LEMMA OpensSettingsStep ==
    ASSUME SettingsPageInv, OpensSettings
    PROVE  SettingsPageInv'
<1> DEFINE e == Sent("status", "")
<1>0. SettingsPageTypes /\ VaultsKept /\ SwitchesFollow
    BY DEF SettingsPageInv
<1>1. /\ settingsScreen = NoScreen /\ sends' = Append(sends, e)
      /\ UNCHANGED <<prefs, permitted, localVault, remoteVault, knownPrefs, settingsScreen, pageRecord>>
    BY DEF OpensSettings, Reopened
<1>2. e \in PageSends /\ e.type = "status"
    BY <1>0, SentIsASend DEF Goes
<1> HIDE DEF e
<1>3. SettingsPageTypes'
    BY <1>0, <1>1, <1>2, OneMoreSend DEF SettingsPageTypes
<1>4. VaultsKept'
    BY <1>0, <1>1, <1>2, OneMoreSend DEF VaultsKept, OfType
<1>5. ControlsWait' /\ SwitchesWait'
    BY <1>1 DEF ControlsWait, SwitchesWait
<1>6. SwitchesFollow'
    BY <1>0, <1>1, <1>2, OneMoreSend DEF SwitchesFollow, Excused, Failed
<1>7. QED
    BY <1>3, <1>4, <1>5, <1>6 DEF SettingsPageInv

LEMMA ChangesElsewhereStep ==
    ASSUME SettingsPageInv, NEW s \in Switches, ChangesElsewhere(s)
    PROVE  SettingsPageInv'
<1>0. SettingsPageTypes /\ VaultsKept /\ ControlsWait /\ SwitchesWait
    BY DEF SettingsPageInv
<1>1. /\ prefs' = [prefs EXCEPT ![s] = ~@]
      /\ knownPrefs' = prefs'
      /\ pageRecord' = [pageRecord EXCEPT !.elsewhere = TRUE]
      /\ UNCHANGED <<permitted, localVault, remoteVault, settingsScreen, sends>>
    BY DEF ChangesElsewhere
<1>2. /\ prefs' \in [Switches -> BOOLEAN]
      /\ pageRecord' \in PageRecords /\ pageRecord'.elsewhere
      /\ \A part \in {"asked", "adopted", "destroyed"} : pageRecord'[part] = pageRecord[part]
    BY <1>0, <1>1 DEF SettingsPageTypes, PageRecords
<1>3. SettingsPageTypes' /\ VaultsKept'
    BY <1>0, <1>1, <1>2 DEF SettingsPageTypes, VaultsKept
<1>4. ControlsWait' /\ SwitchesWait' /\ SwitchesFollow'
    BY <1>0, <1>1, <1>2 DEF ControlsWait, SwitchesWait, SwitchesFollow, Excused
<1>5. QED
    BY <1>3, <1>4 DEF SettingsPageInv

(***************************** the worker *********************************)

(* A request goes on, or is answered.                                      *)
LEMMA SendMoves ==
    ASSUME SettingsPageInv, NEW k \in DOMAIN sends, NEW e \in PageSends, sends' = [sends EXCEPT ![k] = e],
           e.type = sends[k].type, e.mine <=> sends[k].mine, e.type \in OfASwitch => e.arg = sends[k].arg,
           UNCHANGED settingsScreen, pageRecord.asked => pageRecord'.asked
    PROVE  /\ sends' \in Seq(PageSends) /\ ControlsWait' /\ SwitchesWait'
           /\ Meets(sends', OfType("adopt")) <=> Meets(sends, OfType("adopt"))
           /\ e.type # "set" /\ (Excused => Excused') /\ UNCHANGED <<prefs, knownPrefs>> => SwitchesFollow'
<1>1. SettingsPageTypes /\ ControlsWait /\ SwitchesWait /\ SwitchesFollow
    BY DEF SettingsPageInv
<1>2. sends \in Seq(PageSends) /\ DOMAIN sends' = DOMAIN sends
    BY <1>1 DEF SettingsPageTypes
<1>3. sends[k] \in PageSends
    BY <1>2
<1>4. \A type : /\ e \in AwaitedBy(type) <=> sends[k] \in AwaitedBy(type)
                /\ e \in OfType(type) <=> sends[k] \in OfType(type)
    BY <1>3 DEF AwaitedBy, OfType
<1>5. \A s : /\ e \in Holding(s) <=> sends[k] \in Holding(s)
             /\ e \in Writers(s) <=> sends[k] \in Writers(s)
    BY <1>3 DEF Holding, Writers, OfASwitch
<1>6. e \in Foreign <=> sends[k] \in Foreign
    BY <1>3 DEF Foreign
<1>7. sends' \in Seq(PageSends)
    BY <1>2, ReplaceMeets
<1>8. \A type : /\ Meets(sends', AwaitedBy(type)) <=> Meets(sends, AwaitedBy(type))
                /\ MeetsOnce(sends, AwaitedBy(type)) => MeetsOnce(sends', AwaitedBy(type))
                /\ Meets(sends', OfType(type)) <=> Meets(sends, OfType(type))
    BY <1>2, <1>4, ReplaceMeets
<1>9. \A s : /\ Meets(sends', Holding(s)) <=> Meets(sends, Holding(s))
             /\ MeetsOnce(sends, Holding(s)) => MeetsOnce(sends', Holding(s))
             /\ Meets(sends', Writers(s)) <=> Meets(sends, Writers(s))
    BY <1>2, <1>5, ReplaceMeets
<1>10. Meets(sends', Foreign) <=> Meets(sends, Foreign)
    BY <1>2, <1>6, ReplaceMeets
<1>11. ControlsWait'
    BY <1>1, <1>8 DEF ControlsWait
<1>12. SwitchesWait'
    BY <1>1, <1>9 DEF SwitchesWait
<1>13. ASSUME e.type # "set", Excused => Excused', UNCHANGED <<prefs, knownPrefs>>
       PROVE  SwitchesFollow'
  <2> SUFFICES ASSUME ~Excused' PROVE SwitchesFollow'
      BY DEF SwitchesFollow
  <2>1. ~Excused
      BY <1>13
  <2>2. e \notin Failed /\ sends[k] \notin Failed /\ \A s : e \notin Stored(s) /\ sends[k] \notin Stored(s)
      BY <1>13 DEF Stored, Failed
  <2>3. /\ Meets(sends', Failed) <=> Meets(sends, Failed)
        /\ \A s : Meets(sends', Stored(s)) <=> Meets(sends, Stored(s))
      BY <1>2, <2>2, ReplaceMeets
  <2>4. ASSUME settingsScreen # NoScreen, NEW s \in Switches, NEW j \in DOMAIN sends', sends'[j] \in Writers(s)
        PROVE  Follows(sends'[j], settingsScreen, prefs)
    <3>1. j \in DOMAIN sends /\ sends[j] \in Writers(s)
        BY <1>2, <1>5, <2>4
    <3>2. Follows(sends[j], settingsScreen, prefs)
        BY <1>1, <2>1, <2>4, <3>1 DEF SwitchesFollow
    <3>3. CASE j # k
        BY <1>2, <3>2, <3>3
    <3>4. CASE j = k
      <4>1. sends'[k] = e /\ e.arg = sends[k].arg /\ e.type \notin {"set"} /\ sends[k].type \notin {"set"}
          BY <1>2, <1>13, <2>4, <3>4 DEF Writers, OfASwitch
      <4>2. QED
          BY <3>2, <3>4, <4>1 DEF Follows
    <3>5. QED
        BY <3>3, <3>4
  <2>5. QED
      BY <1>1, <1>9, <1>10, <1>13, <2>1, <2>3, <2>4 DEF SwitchesFollow
<1>14. QED
    BY <1>7, <1>8, <1>11, <1>12, <1>13

LEMMA AnswerIsGiven ==
    ASSUME SettingsPageTypes, NEW k \in DOMAIN sends, NEW ok \in BOOLEAN,
           NEW answer \in {NoAnswer, "mismatch"} \cup [Switches -> BOOLEAN], Answers(k, ok, answer),
           sends[k].type = "set" /\ ok => answer \in [Switches -> BOOLEAN]
    PROVE  \E e \in PageSends :
              /\ sends' = [sends EXCEPT ![k] = e]
              /\ e.type = sends[k].type /\ e.arg = sends[k].arg /\ e.at = "answered"
              /\ e.mine <=> sends[k].mine
              /\ e.ok <=> ok
<1> DEFINE e == [sends[k] EXCEPT !.ok = ok, !.answer = answer, !.at = "answered"]
<1>1. sends \in Seq(PageSends) /\ sends[k] \in PageSends
    BY DEF SettingsPageTypes
<1>2. sends' = [sends EXCEPT ![k] = e]
    BY <1>1 DEF Answers
<1>3. /\ e.type = sends[k].type /\ e.arg = sends[k].arg /\ e.mine = sends[k].mine /\ e.asked = sends[k].asked
      /\ e.at = "answered" /\ e.ok = ok /\ e.answer = answer
    BY <1>1 DEF PageSends
<1>4. e \in PageSends
  <2>1. e \in [type : {"status", "sync", "password", "drive", "replace", "adopt", "destroy"} \cup OfASwitch,
               arg : {""} \cup Flags \cup SwitchArgs \cup AdoptArgs,
               at : {"sent", "removed", "fetched", "answered"}, ok : BOOLEAN,
               answer : {NoAnswer, "mismatch"} \cup [Switches -> BOOLEAN], mine : BOOLEAN, asked : BOOLEAN]
      BY <1>1 DEF PageSends
  <2> HIDE DEF e
  <2>2. /\ sends[k].type \in OfASwitch => sends[k].arg \in SwitchArgs
        /\ sends[k].type \in {"count", "strip"} => sends[k].arg.switch = "stripTrackingParams"
        /\ sends[k].type = "adopt" => sends[k].arg \in AdoptArgs
        /\ sends[k].type = "destroy" => sends[k].asked
      BY <1>1 DEF PageSends
  <2>3. /\ e.type \in OfASwitch => e.arg \in SwitchArgs
        /\ e.type \in {"count", "strip"} => e.arg.switch = "stripTrackingParams"
        /\ e.type = "adopt" => e.arg \in AdoptArgs
        /\ e.type = "destroy" => e.asked
        /\ e.at # "fetched"
        /\ e.type = "set" /\ e.at = "answered" /\ e.ok => e.answer \in [Switches -> BOOLEAN]
      BY <1>3, <2>2
  <2>4. QED
      BY <2>1, <2>3 DEF PageSends
<1> HIDE DEF e
<1>5. QED
    BY <1>2, <1>3, <1>4

(* An answer to what is no setting.                                        *)
LEMMA AnswerKeeps ==
    ASSUME SettingsPageInv, NEW k \in DOMAIN sends, sends[k].type # "set", NEW ok \in BOOLEAN,
           NEW answer \in {NoAnswer, "mismatch"} \cup [Switches -> BOOLEAN], Answers(k, ok, answer),
           UNCHANGED <<prefs, knownPrefs, settingsScreen>>, pageRecord.asked => pageRecord'.asked,
           Excused => Excused'
    PROVE  /\ sends' \in Seq(PageSends) /\ ControlsWait' /\ SwitchesWait' /\ SwitchesFollow'
           /\ Meets(sends', OfType("adopt")) <=> Meets(sends, OfType("adopt"))
<1>1. SettingsPageTypes
    BY DEF SettingsPageInv
<1>2. PICK e \in PageSends :
              /\ sends' = [sends EXCEPT ![k] = e]
              /\ e.type = sends[k].type /\ e.arg = sends[k].arg
              /\ e.mine <=> sends[k].mine
    BY <1>1, AnswerIsGiven
<1>3. QED
    BY <1>2, SendMoves

LEMMA SendsAreSends ==
    SettingsPageTypes => sends \in Seq(PageSends) /\ \A k \in DOMAIN sends : sends[k] \in PageSends
  BY DEF SettingsPageTypes

(* Its argument and its kind are kept; where it is changes.                *)
LEMMA GoesOnward ==
    ASSUME SettingsPageTypes, NEW k \in DOMAIN sends, NEW at \in {"removed", "fetched"}, NEW arg, Onward(k, at, arg),
           \/ sends[k].type = "adopt" /\ arg \in AdoptArgs /\ arg.found # "none"
           \/ sends[k].type \in {"replace", "destroy"} /\ at = "removed" /\ arg \in {""} \cup Flags \cup SwitchArgs \cup AdoptArgs
    PROVE  \E e \in PageSends :
              /\ sends' = [sends EXCEPT ![k] = e]
              /\ e.type = sends[k].type
              /\ e.mine <=> sends[k].mine
<1> DEFINE e == [sends[k] EXCEPT !.at = at, !.arg = arg]
<1>1. sends \in Seq(PageSends) /\ sends[k] \in PageSends
    BY SendsAreSends
<1>2. sends' = [sends EXCEPT ![k] = e]
    BY <1>1 DEF Onward
<1>3. /\ e.type = sends[k].type /\ e.arg = arg /\ e.mine = sends[k].mine /\ e.asked = sends[k].asked
      /\ e.at = at
    BY <1>1 DEF PageSends
<1>4. e \in PageSends
  <2>1. e \in [type : {"status", "sync", "password", "drive", "replace", "adopt", "destroy"} \cup OfASwitch,
               arg : {""} \cup Flags \cup SwitchArgs \cup AdoptArgs,
               at : {"sent", "removed", "fetched", "answered"}, ok : BOOLEAN,
               answer : {NoAnswer, "mismatch"} \cup [Switches -> BOOLEAN], mine : BOOLEAN, asked : BOOLEAN]
      BY <1>1 DEF PageSends
  <2> HIDE DEF e
  <2>2. sends[k].type = "destroy" => sends[k].asked
      BY <1>1 DEF PageSends
  <2>3. /\ e.type \notin OfASwitch /\ e.type \notin {"count", "strip"}
        /\ e.type = "adopt" => e.arg \in AdoptArgs /\ e.arg.found # "none"
        /\ e.type = "destroy" => e.asked
        /\ e.type # "set"
      BY <1>3, <2>2 DEF OfASwitch
  <2>4. QED
      BY <2>1, <2>3 DEF PageSends
<1> HIDE DEF e
<1>5. QED
    BY <1>2, <1>3, <1>4

LEMMA OnwardKeeps ==
    ASSUME SettingsPageInv, NEW k \in DOMAIN sends, NEW at \in {"removed", "fetched"}, NEW arg, Onward(k, at, arg),
           \/ sends[k].type = "adopt" /\ arg \in AdoptArgs /\ arg.found # "none"
           \/ sends[k].type \in {"replace", "destroy"} /\ at = "removed" /\ arg \in {""} \cup Flags \cup SwitchArgs \cup AdoptArgs,
           UNCHANGED <<prefs, knownPrefs, settingsScreen, pageRecord>>
    PROVE  /\ sends' \in Seq(PageSends) /\ ControlsWait' /\ SwitchesWait' /\ SwitchesFollow'
           /\ Meets(sends', OfType("adopt")) <=> Meets(sends, OfType("adopt"))
<1>1. SettingsPageTypes
    BY DEF SettingsPageInv
<1>2. PICK e \in PageSends :
              /\ sends' = [sends EXCEPT ![k] = e]
              /\ e.type = sends[k].type
              /\ e.mine <=> sends[k].mine
    BY <1>1, GoesOnward
<1>3. e.type \notin OfASwitch /\ e.type # "set"
    BY <1>2 DEF OfASwitch
<1>4. Excused => Excused'
    BY DEF Excused
<1>5. QED
    BY <1>2, <1>3, <1>4, SendMoves

(* What is left to show of a step of the worker that keeps the vaults.      *)
LEMMA WorkerKeeps ==
    ASSUME SettingsPageInv, sends' \in Seq(PageSends), ControlsWait', SwitchesWait', SwitchesFollow',
           Meets(sends', OfType("adopt")) <=> Meets(sends, OfType("adopt")),
           permitted' \in BOOLEAN, remoteVault' \in Vaults,
           UNCHANGED <<prefs, knownPrefs, settingsScreen, localVault, pageRecord>>
    PROVE  SettingsPageInv'
<1>1. SettingsPageTypes' /\ VaultsKept'
    BY DEF SettingsPageInv, SettingsPageTypes, VaultsKept
<1>2. QED
    BY <1>1 DEF SettingsPageInv

LEMMA Unanswered == NoAnswer \in {NoAnswer, "mismatch"} \cup [Switches -> BOOLEAN]
  OBVIOUS

LEMMA GrantsStep ==
    ASSUME SettingsPageInv, NEW k \in DOMAIN sends, NEW yes \in BOOLEAN, Grants(k, yes)
    PROVE  SettingsPageInv'
<1>1. /\ sends[k].type = "permission" /\ permitted' = (permitted \/ yes)
      /\ Answers(k, permitted', NoAnswer)
      /\ UNCHANGED <<prefs, localVault, remoteVault, knownPrefs, settingsScreen, pageRecord>>
    BY DEF Grants, Answered
<1>2. permitted' \in BOOLEAN /\ remoteVault' \in Vaults
    BY <1>1 DEF SettingsPageInv, SettingsPageTypes
<1>3. Excused => Excused'
    BY <1>1 DEF Excused
<1>4. QED
    BY <1>1, <1>2, <1>3, Unanswered, AnswerKeeps, WorkerKeeps

LEMMA ServesSimpleStep ==
    ASSUME SettingsPageInv, NEW k \in DOMAIN sends, ServesSimple(k)
    PROVE  SettingsPageInv'
<1>0. SettingsPageTypes /\ VaultsKept /\ SwitchesFollow
    BY DEF SettingsPageInv
<1>1. /\ sends[k].at = "sent"
      /\ UNCHANGED <<permitted, localVault, remoteVault, knownPrefs, settingsScreen, pageRecord>>
    BY DEF ServesSimple
<1>2. permitted' \in BOOLEAN /\ remoteVault' \in Vaults /\ sends \in Seq(PageSends) /\ sends[k] \in PageSends
    BY <1>0, <1>1 DEF SettingsPageTypes
<1>3. Excused <=> Excused'
    BY <1>1 DEF Excused
<1>4. ASSUME sends[k].type = "set", prefs' = [prefs EXCEPT ![sends[k].arg.switch] = sends[k].arg.wanted],
             Answers(k, TRUE, prefs')
      PROVE  SettingsPageInv'
  <2> DEFINE s == sends[k].arg.switch
             wanted == sends[k].arg.wanted
  <2>1. s \in Switches /\ wanted \in BOOLEAN
      BY <1>2, <1>4 DEF PageSends, OfASwitch, SwitchArgs
  <2>2. /\ prefs' \in [Switches -> BOOLEAN] /\ prefs'[s] = wanted
        /\ \A t \in Switches : t # s => prefs'[t] = prefs[t]
      BY <1>0, <1>4, <2>1 DEF SettingsPageTypes
  <2> HIDE DEF s, wanted
  <2>3. PICK e \in PageSends :
              /\ sends' = [sends EXCEPT ![k] = e]
              /\ e.type = sends[k].type /\ e.arg = sends[k].arg /\ e.at = "answered"
              /\ e.mine <=> sends[k].mine
              /\ e.ok <=> TRUE
      BY <1>0, <1>4, <2>2, AnswerIsGiven
  <2>4. /\ sends' \in Seq(PageSends) /\ ControlsWait' /\ SwitchesWait'
        /\ Meets(sends', OfType("adopt")) <=> Meets(sends, OfType("adopt"))
      BY <1>1, <2>3, SendMoves
  <2>5. SettingsPageTypes' /\ VaultsKept'
      BY <1>0, <1>1, <2>2, <2>4 DEF SettingsPageTypes, VaultsKept
  <2>6. SwitchesFollow'
    <3> SUFFICES ASSUME ~Excused' PROVE SwitchesFollow'
        BY DEF SwitchesFollow
    <3>1. e \in Stored(s)
        BY <1>2, <1>4, <2>3 DEF Stored, s
    <3>2. \A t \in Switches : Meets(sends', Stored(t)) \/ knownPrefs'[t] = prefs'[t]
      <4>1. Meets(sends', Stored(s))
          BY <1>2, <2>3, <3>1, ReplaceMeets
      <4>2. ASSUME NEW t \in Switches, t # s PROVE Meets(sends', Stored(t)) \/ knownPrefs'[t] = prefs'[t]
        <5>1. sends[k] \notin Stored(t)
            BY <1>1 DEF Stored
        <5>2. Meets(sends, Stored(t)) => Meets(sends', Stored(t))
            BY <1>2, <2>3, <5>1, ReplaceMeets
        <5>3. QED
            BY <1>0, <1>1, <1>3, <2>2, <4>2, <5>2 DEF SwitchesFollow
      <4>3. QED
          BY <4>1, <4>2
    <3>3. ASSUME settingsScreen # NoScreen
          PROVE  /\ ~Meets(sends', Foreign)
                 /\ \A t \in Switches :
                    /\ \A j \in DOMAIN sends' : sends'[j] \in Writers(t) => Follows(sends'[j], settingsScreen, prefs')
                    /\ Meets(sends', Writers(t)) \/ settingsScreen.boxes[t].checked = prefs'[t]
      <4>1. e \in Foreign <=> sends[k] \in Foreign
          BY <1>2, <2>3 DEF Foreign
      <4>2. ~Meets(sends, Foreign) /\ ~Meets(sends', Foreign)
          BY <1>0, <1>2, <1>3, <2>3, <3>3, <4>1, ReplaceMeets DEF SwitchesFollow
      <4>3. sends[k].mine
          BY <1>2, <1>4, <4>2 DEF Meets, Foreign
      <4>4. sends[k] \in Writers(s) /\ sends[k] \in Holding(s)
          BY <1>2, <1>4, <4>3 DEF Writers, Holding, OfASwitch, s
      <4>5. e \in Writers(s)
          BY <1>4, <2>3, <4>3 DEF Writers, s
      <4>6. Follows(sends[k], settingsScreen, prefs)
          BY <1>0, <1>3, <2>1, <3>3, <4>4 DEF SwitchesFollow
      <4>7. settingsScreen.boxes[s].checked = wanted
          BY <4>6 DEF Follows, s, wanted
      <4>8. Follows(e, settingsScreen, prefs')
          BY <1>4, <2>2, <2>3, <4>7 DEF Follows, s, wanted
      <4>9. DOMAIN sends' = DOMAIN sends /\ \A j \in DOMAIN sends : sends'[j] = IF j = k THEN e ELSE sends[j]
          BY <1>2, <2>3
      <4>10. ASSUME NEW t \in Switches, NEW j \in DOMAIN sends', sends'[j] \in Writers(t)
             PROVE  Follows(sends'[j], settingsScreen, prefs')
        <5>1. CASE j = k
            BY <4>8, <4>9, <5>1
        <5>2. CASE j # k
          <6>1. sends'[j] = sends[j] /\ j \in DOMAIN sends /\ sends[j] \in Writers(t) /\ sends[j] \in Holding(t)
              BY <4>9, <4>10, <5>2 DEF Writers, Holding, OfASwitch
          <6>2. t # s
              BY <3>3, <4>4, <5>2, <6>1 DEF SettingsPageInv, SwitchesWait, MeetsOnce
          <6>3. Follows(sends[j], settingsScreen, prefs) /\ sends[j].arg.switch = t
              BY <1>0, <1>3, <3>3, <6>1 DEF SwitchesFollow, Writers
          <6>4. QED
              BY <2>2, <6>1, <6>2, <6>3 DEF Follows
        <5>3. QED
            BY <5>1, <5>2
      <4>11. ASSUME NEW t \in Switches
             PROVE  Meets(sends', Writers(t)) \/ settingsScreen.boxes[t].checked = prefs'[t]
        <5>1. CASE t = s
            BY <1>2, <2>3, <4>5, <5>1, ReplaceMeets
        <5>2. CASE t # s
          <6>1. sends[k] \notin Writers(t)
              BY <5>2 DEF Writers, s
          <6>2. Meets(sends, Writers(t)) => Meets(sends', Writers(t))
              BY <1>2, <2>3, <6>1, ReplaceMeets
          <6>3. QED
              BY <1>0, <1>3, <2>2, <3>3, <5>2, <6>2 DEF SwitchesFollow
        <5>3. QED
            BY <5>1, <5>2
      <4>12. QED
          BY <4>2, <4>10, <4>11
    <3>4. ~Meets(sends', Failed)
      <4>1. e \notin Failed
          BY <2>3 DEF Failed
      <4>2. QED
          BY <1>0, <1>2, <1>3, <2>3, <4>1, ReplaceMeets DEF SwitchesFollow
    <3>5. QED
        BY <1>1, <3>2, <3>3, <3>4 DEF SwitchesFollow
  <2>7. QED
      BY <2>4, <2>5, <2>6 DEF SettingsPageInv
<1>5. ASSUME NEW ok \in BOOLEAN, sends[k].type # "set", Answers(k, ok, NoAnswer), prefs' = prefs
      PROVE  SettingsPageInv'
  <2>1. UNCHANGED <<prefs, knownPrefs, settingsScreen>> /\ (pageRecord.asked => pageRecord'.asked) /\ (Excused => Excused')
      BY <1>1, <1>3, <1>5
  <2>2. /\ sends' \in Seq(PageSends) /\ ControlsWait' /\ SwitchesWait' /\ SwitchesFollow'
        /\ Meets(sends', OfType("adopt")) <=> Meets(sends, OfType("adopt"))
      BY <1>5, <2>1, Unanswered, AnswerKeeps
  <2>3. QED
      BY <1>1, <1>2, <1>5, <2>2, WorkerKeeps
<1>6. (localVault # remoteVault /\ remoteVault # "none") \in BOOLEAN
    OBVIOUS
<1>7. QED
  <2>1. CASE /\ sends[k].type = "set"
             /\ prefs' = [prefs EXCEPT ![sends[k].arg.switch] = sends[k].arg.wanted]
             /\ Answers(k, TRUE, prefs')
      BY <1>4, <2>1
  <2>2. CASE /\ sends[k].type \in {"count", "strip", "password"}
             /\ \E yes \in BOOLEAN : Answered(k, yes)
             /\ UNCHANGED prefs
      BY <1>5, <2>2 DEF Answered
  <2>3. CASE /\ sends[k].type = "status"
             /\ Answered(k, localVault # remoteVault /\ remoteVault # "none") /\ UNCHANGED prefs
      BY <1>5, <1>6, <2>3 DEF Answered
  <2>4. QED
      BY <2>1, <2>2, <2>3 DEF ServesSimple

LEMMA PushesStep ==
    ASSUME SettingsPageInv, NEW k \in DOMAIN sends, Pushes(k)
    PROVE  SettingsPageInv'
<1>1. /\ sends[k].type # "set"
      /\ \E ok \in BOOLEAN : Answers(k, ok, NoAnswer)
      /\ UNCHANGED <<prefs, permitted, localVault, knownPrefs, settingsScreen, pageRecord>>
    BY DEF Pushes, Answered
<1>2. permitted' \in BOOLEAN /\ remoteVault' \in Vaults
    BY <1>1 DEF Pushes, SettingsPageInv, SettingsPageTypes
<1>3. Excused => Excused'
    BY <1>1 DEF Excused
<1>4. QED
    BY <1>1, <1>2, <1>3, Unanswered, AnswerKeeps, WorkerKeeps

LEMMA RemovesRemoteStep ==
    ASSUME SettingsPageInv, NEW k \in DOMAIN sends, RemovesRemote(k)
    PROVE  SettingsPageInv'
<1>1. /\ sends[k].type = "replace"
      /\ Answers(k, FALSE, NoAnswer) \/ Onward(k, "removed", sends[k].arg)
      /\ UNCHANGED <<prefs, permitted, localVault, knownPrefs, settingsScreen, pageRecord>>
    BY DEF RemovesRemote, Answered
<1>2. permitted' \in BOOLEAN /\ remoteVault' \in Vaults
    BY DEF RemovesRemote, SettingsPageInv, SettingsPageTypes, Vaults
<1>3. Excused => Excused'
    BY <1>1 DEF Excused
<1>4. sends[k].arg \in {""} \cup Flags \cup SwitchArgs \cup AdoptArgs
    BY SendsAreSends DEF SettingsPageInv, PageSends
<1>5. CASE Answers(k, FALSE, NoAnswer)
    BY <1>1, <1>2, <1>3, <1>5, Unanswered, AnswerKeeps, WorkerKeeps
<1>6. CASE Onward(k, "removed", sends[k].arg)
  <2>1. /\ sends' \in Seq(PageSends) /\ ControlsWait' /\ SwitchesWait' /\ SwitchesFollow'
        /\ Meets(sends', OfType("adopt")) <=> Meets(sends, OfType("adopt"))
      BY <1>1, <1>4, <1>6, OnwardKeeps
  <2>2. QED
      BY <1>1, <1>2, <2>1, WorkerKeeps
<1>7. QED
    BY <1>1, <1>5, <1>6

LEMMA FetchesRemoteStep ==
    ASSUME SettingsPageInv, NEW k \in DOMAIN sends, FetchesRemote(k)
    PROVE  SettingsPageInv'
<1> DEFINE arg == [sends[k].arg EXCEPT !.found = remoteVault]
<1>1. /\ sends[k].type = "adopt"
      /\ Answers(k, FALSE, NoAnswer) \/ (remoteVault # "none" /\ Onward(k, "fetched", arg))
      /\ UNCHANGED <<prefs, permitted, localVault, remoteVault, knownPrefs, settingsScreen, pageRecord>>
    BY DEF FetchesRemote, Answered
<1>2. permitted' \in BOOLEAN /\ remoteVault' \in Vaults /\ remoteVault \in Vaults
    BY <1>1 DEF SettingsPageInv, SettingsPageTypes
<1>3. Excused => Excused'
    BY <1>1 DEF Excused
<1>4. sends[k].arg \in AdoptArgs
    BY <1>1, SendsAreSends DEF SettingsPageInv, PageSends
<1>5. CASE Answers(k, FALSE, NoAnswer)
    BY <1>1, <1>2, <1>3, <1>5, Unanswered, AnswerKeeps, WorkerKeeps
<1>6. CASE remoteVault # "none" /\ Onward(k, "fetched", arg)
  <2>1. arg \in AdoptArgs /\ arg.found = remoteVault
      BY <1>2, <1>4 DEF AdoptArgs
  <2> HIDE DEF arg
  <2>2. /\ sends' \in Seq(PageSends) /\ ControlsWait' /\ SwitchesWait' /\ SwitchesFollow'
        /\ Meets(sends', OfType("adopt")) <=> Meets(sends, OfType("adopt"))
      BY <1>1, <1>6, <2>1, OnwardKeeps
  <2>3. QED
      BY <1>1, <1>2, <2>2, WorkerKeeps
<1>7. QED
    BY <1>1, <1>5, <1>6

LEMMA AdoptsFetchedStep ==
    ASSUME SettingsPageInv, NEW k \in DOMAIN sends, AdoptsFetched(k)
    PROVE  SettingsPageInv'
<1>0. SettingsPageTypes /\ VaultsKept
    BY DEF SettingsPageInv
<1>1. /\ sends[k].type = "adopt" /\ sends[k].at = "fetched"
      /\ \E ok \in BOOLEAN : Answers(k, ok, NoAnswer)
      /\ localVault' \in {localVault, sends[k].arg.found}
      /\ UNCHANGED <<prefs, permitted, remoteVault, knownPrefs, settingsScreen, pageRecord>>
    BY DEF AdoptsFetched, Answered
<1>2. sends[k] \in PageSends
    BY <1>0, SendsAreSends
<1>3. sends[k].arg.found \in Vaults /\ sends[k].arg.found # "none"
    BY <1>1, <1>2 DEF PageSends, AdoptArgs
<1>4. pageRecord.adopted
    BY <1>0, <1>1, <1>2 DEF VaultsKept, Meets, OfType
<1>5. Excused => Excused'
    BY <1>1 DEF Excused
<1>6. /\ sends' \in Seq(PageSends) /\ ControlsWait' /\ SwitchesWait' /\ SwitchesFollow'
      /\ Meets(sends', OfType("adopt")) <=> Meets(sends, OfType("adopt"))
    BY <1>1, <1>5, Unanswered, AnswerKeeps
<1>7. SettingsPageTypes'
    BY <1>0, <1>1, <1>3, <1>6 DEF SettingsPageTypes
<1>8. VaultsKept'
    BY <1>0, <1>1, <1>3, <1>4 DEF VaultsKept
<1>9. QED
    BY <1>6, <1>7, <1>8 DEF SettingsPageInv

LEMMA ConnectsDriveStep ==
    ASSUME SettingsPageInv, NEW k \in DOMAIN sends, ConnectsDrive(k)
    PROVE  SettingsPageInv'
<1>1. /\ sends[k].type = "drive"
      /\ \E ok \in BOOLEAN, answer \in {NoAnswer, "mismatch"} : Answers(k, ok, answer)
      /\ UNCHANGED <<prefs, permitted, localVault, knownPrefs, settingsScreen, pageRecord>>
    BY DEF ConnectsDrive, Answered
<1>2. permitted' \in BOOLEAN /\ remoteVault' \in Vaults
    BY <1>1 DEF ConnectsDrive, SettingsPageInv, SettingsPageTypes
<1>3. Excused => Excused'
    BY <1>1 DEF Excused
<1>4. {NoAnswer, "mismatch"} \subseteq {NoAnswer, "mismatch"} \cup [Switches -> BOOLEAN]
    OBVIOUS
<1>5. QED
    BY <1>1, <1>2, <1>3, <1>4, AnswerKeeps, WorkerKeeps

LEMMA DestroysRemoteStep ==
    ASSUME SettingsPageInv, NEW k \in DOMAIN sends, DestroysRemote(k)
    PROVE  SettingsPageInv'
<1>1. /\ sends[k].type = "destroy"
      /\ Onward(k, "removed", TRUE)
      /\ remoteVault' \in {"none", remoteVault}
      /\ UNCHANGED <<prefs, permitted, localVault, knownPrefs, settingsScreen, pageRecord>>
    BY DEF DestroysRemote
<1>2. permitted' \in BOOLEAN /\ remoteVault' \in Vaults
    BY <1>1 DEF SettingsPageInv, SettingsPageTypes, Vaults
<1>3. TRUE \in {""} \cup Flags \cup SwitchArgs \cup AdoptArgs
    BY DEF Flags
<1>4. /\ sends' \in Seq(PageSends) /\ ControlsWait' /\ SwitchesWait' /\ SwitchesFollow'
      /\ Meets(sends', OfType("adopt")) <=> Meets(sends, OfType("adopt"))
    BY <1>1, <1>3, OnwardKeeps
<1>5. QED
    BY <1>1, <1>2, <1>4, WorkerKeeps

LEMMA DestroysVaultStep ==
    ASSUME SettingsPageInv, NEW k \in DOMAIN sends, DestroysVault(k)
    PROVE  SettingsPageInv'
<1>0. SettingsPageTypes /\ VaultsKept
    BY DEF SettingsPageInv
<1>1. /\ sends[k].type = "destroy"
      /\ \E ok \in BOOLEAN : Answers(k, ok, NoAnswer)
      /\ UNCHANGED <<prefs, permitted, remoteVault, knownPrefs, settingsScreen>>
      /\ \/ UNCHANGED <<localVault, pageRecord>>
         \/ localVault' = "none" /\ pageRecord' = [pageRecord EXCEPT !.destroyed = TRUE]
    BY DEF DestroysVault, Answered
<1>2. pageRecord' \in PageRecords /\ localVault' \in Vaults
    BY <1>0, <1>1 DEF SettingsPageTypes, PageRecords, Vaults
<1>3. /\ \A part \in {"asked", "adopted", "lost", "elsewhere", "crossed", "rebuilt"} :
              pageRecord'[part] = pageRecord[part]
      /\ pageRecord.destroyed => pageRecord'.destroyed
      /\ localVault' = localVault \/ pageRecord'.destroyed
    BY <1>0, <1>1 DEF SettingsPageTypes, PageRecords
<1>4. /\ sends' \in Seq(PageSends) /\ ControlsWait' /\ SwitchesWait' /\ SwitchesFollow'
      /\ Meets(sends', OfType("adopt")) <=> Meets(sends, OfType("adopt"))
    BY <1>1, <1>3, Unanswered, AnswerKeeps DEF Excused
<1>5. SettingsPageTypes' /\ VaultsKept'
    BY <1>0, <1>1, <1>2, <1>3, <1>4 DEF SettingsPageTypes, VaultsKept
<1>6. QED
    BY <1>4, <1>5 DEF SettingsPageInv

LEMMA LosesSendStep ==
    ASSUME SettingsPageInv, NEW k \in DOMAIN sends, LosesSend(k)
    PROVE  SettingsPageInv'
<1>0. SettingsPageTypes /\ VaultsKept
    BY DEF SettingsPageInv
<1>1. /\ sends' = [sends EXCEPT ![k].ok = FALSE, ![k].answer = NoAnswer, ![k].at = "answered"]
      /\ pageRecord' = [pageRecord EXCEPT !.lost = TRUE]
      /\ UNCHANGED <<prefs, permitted, localVault, remoteVault, knownPrefs, settingsScreen>>
    BY DEF LosesSend
<1>2. Answers(k, FALSE, NoAnswer)
    BY <1>1 DEF Answers
<1>3. PICK e \in PageSends :
              /\ sends' = [sends EXCEPT ![k] = e]
              /\ e.type = sends[k].type /\ e.arg = sends[k].arg /\ e.at = "answered"
              /\ e.mine <=> sends[k].mine
              /\ e.ok <=> FALSE
    BY <1>0, <1>2, Unanswered, AnswerIsGiven
<1>4. /\ pageRecord' \in PageRecords /\ pageRecord'.lost
      /\ \A part \in {"asked", "adopted", "destroyed"} : pageRecord'[part] = pageRecord[part]
    BY <1>0, <1>1 DEF SettingsPageTypes, PageRecords
<1>5. /\ sends' \in Seq(PageSends) /\ ControlsWait' /\ SwitchesWait'
      /\ Meets(sends', OfType("adopt")) <=> Meets(sends, OfType("adopt"))
    BY <1>1, <1>3, <1>4, SendMoves
<1>6. SettingsPageTypes' /\ VaultsKept'
    BY <1>0, <1>1, <1>4, <1>5 DEF SettingsPageTypes, VaultsKept
<1>7. SwitchesFollow'
    BY <1>4 DEF SwitchesFollow, Excused
<1>8. QED
    BY <1>5, <1>6, <1>7 DEF SettingsPageInv

(***************************** answers ************************************)

(* A request is done with, and the screen may be asked for anew.           *)
Left(k, q) == q = OtherSends(k) \/ \E e \in PageSends : e.type = "status" /\ q = Append(OtherSends(k), e)

LEMMA WithoutIt ==
    ASSUME SettingsPageTypes, NEW k \in DOMAIN sends, NEW q, Left(k, q), NEW H, \A e \in PageSends : e.type = "status" => e \notin H
    PROVE  /\ q \in Seq(PageSends)
           /\ Meets(q, H) => Meets(sends, H)
           /\ sends[k] \notin H /\ Meets(sends, H) => Meets(q, H)
           /\ MeetsOnce(sends, H) => MeetsOnce(q, H)
           /\ MeetsOnce(sends, H) /\ sends[k] \in H => ~Meets(q, H)
<1> DEFINE rest == OtherSends(k)
<1>1. sends \in Seq(PageSends)
    BY DEF SettingsPageTypes
<1>2. /\ rest \in Seq(PageSends)
      /\ Meets(rest, H) => Meets(sends, H)
      /\ sends[k] \notin H /\ Meets(sends, H) => Meets(rest, H)
      /\ MeetsOnce(sends, H) => MeetsOnce(rest, H)
      /\ MeetsOnce(sends, H) /\ sends[k] \in H => ~Meets(rest, H)
    BY <1>1, RemoveMeets DEF OtherSends
<1> HIDE DEF rest
<1>3. CASE q = rest
    BY <1>2, <1>3
<1>4. ASSUME NEW e \in PageSends, e.type = "status", q = Append(rest, e)
      PROVE  /\ q \in Seq(PageSends)
             /\ Meets(q, H) <=> Meets(rest, H)
             /\ MeetsOnce(rest, H) => MeetsOnce(q, H)
    BY <1>2, <1>4, AppendMeets
<1>5. QED
    BY <1>2, <1>3, <1>4 DEF Left, rest

(* ... and what that means for what waits.                                 *)
LEMMA SendLeaves ==
    ASSUME SettingsPageTypes, NEW k \in DOMAIN sends, NEW q, Left(k, q)
    PROVE  /\ q \in Seq(PageSends)
           /\ \A type : type # "status" =>
                /\ Meets(q, AwaitedBy(type)) => Meets(sends, AwaitedBy(type))
                /\ sends[k] \notin AwaitedBy(type) /\ Meets(sends, AwaitedBy(type)) => Meets(q, AwaitedBy(type))
                /\ MeetsOnce(sends, AwaitedBy(type)) => MeetsOnce(q, AwaitedBy(type))
                /\ MeetsOnce(sends, AwaitedBy(type)) /\ sends[k] \in AwaitedBy(type) => ~Meets(q, AwaitedBy(type))
                /\ Meets(q, OfType(type)) => Meets(sends, OfType(type))
           /\ \A s :
                /\ Meets(q, Holding(s)) => Meets(sends, Holding(s))
                /\ sends[k] \notin Holding(s) /\ Meets(sends, Holding(s)) => Meets(q, Holding(s))
                /\ MeetsOnce(sends, Holding(s)) => MeetsOnce(q, Holding(s))
                /\ MeetsOnce(sends, Holding(s)) /\ sends[k] \in Holding(s) => ~Meets(q, Holding(s))
                /\ Meets(q, Writers(s)) => Meets(sends, Writers(s))
                /\ sends[k] \notin Writers(s) /\ Meets(sends, Writers(s)) => Meets(q, Writers(s))
                /\ sends[k] \notin Stored(s) /\ Meets(sends, Stored(s)) => Meets(q, Stored(s))
           /\ Meets(q, Foreign) => Meets(sends, Foreign)
           /\ Meets(q, Failed) => Meets(sends, Failed)
<1>1. \A e \in PageSends : e.type = "status" =>
         /\ e \notin Foreign /\ e \notin Failed
         /\ \A type : type # "status" => e \notin AwaitedBy(type) /\ e \notin OfType(type)
         /\ \A s : e \notin Holding(s) /\ e \notin Writers(s) /\ e \notin Stored(s)
    BY DEF Foreign, Failed, AwaitedBy, OfType, Holding, Writers, Stored, OfASwitch
<1>2. q \in Seq(PageSends) /\ (Meets(q, Foreign) => Meets(sends, Foreign)) /\ (Meets(q, Failed) => Meets(sends, Failed))
    BY <1>1, WithoutIt
<1>3. ASSUME NEW type, type # "status"
      PROVE  /\ Meets(q, AwaitedBy(type)) => Meets(sends, AwaitedBy(type))
             /\ sends[k] \notin AwaitedBy(type) /\ Meets(sends, AwaitedBy(type)) => Meets(q, AwaitedBy(type))
             /\ MeetsOnce(sends, AwaitedBy(type)) => MeetsOnce(q, AwaitedBy(type))
             /\ MeetsOnce(sends, AwaitedBy(type)) /\ sends[k] \in AwaitedBy(type) => ~Meets(q, AwaitedBy(type))
             /\ Meets(q, OfType(type)) => Meets(sends, OfType(type))
    BY <1>1, <1>3, WithoutIt
<1>4. ASSUME NEW s
      PROVE  /\ Meets(q, Holding(s)) => Meets(sends, Holding(s))
             /\ sends[k] \notin Holding(s) /\ Meets(sends, Holding(s)) => Meets(q, Holding(s))
             /\ MeetsOnce(sends, Holding(s)) => MeetsOnce(q, Holding(s))
             /\ MeetsOnce(sends, Holding(s)) /\ sends[k] \in Holding(s) => ~Meets(q, Holding(s))
             /\ Meets(q, Writers(s)) => Meets(sends, Writers(s))
             /\ sends[k] \notin Writers(s) /\ Meets(sends, Writers(s)) => Meets(q, Writers(s))
             /\ sends[k] \notin Stored(s) /\ Meets(sends, Stored(s)) => Meets(q, Stored(s))
    BY <1>1, WithoutIt
<1>5. QED
    BY <1>2, <1>3, <1>4

(* What is left was there before.                                          *)
LEMMA LeftWasThere ==
    ASSUME SettingsPageTypes, NEW k \in DOMAIN sends, NEW q, Left(k, q), NEW j \in DOMAIN q, q[j].type # "status"
    PROVE  \E n \in DOMAIN sends : n # k /\ q[j] = sends[n]
<1> DEFINE rest == OtherSends(k)
<1>1. sends \in Seq(PageSends)
    BY DEF SettingsPageTypes
<1>2. rest \in Seq(PageSends) /\ \A i \in DOMAIN rest : \E n \in DOMAIN sends : n # k /\ rest[i] = sends[n]
    BY <1>1, RemoveMeets DEF OtherSends
<1> HIDE DEF rest
<1>3. CASE q = rest
    BY <1>2, <1>3
<1>4. ASSUME NEW e \in PageSends, e.type = "status", q = Append(rest, e)
      PROVE  \E n \in DOMAIN sends : n # k /\ q[j] = sends[n]
  <2>1. j \in DOMAIN rest /\ q[j] = rest[j]
      BY <1>2, <1>4
  <2>2. QED
      BY <1>2, <2>1
<1>5. QED
    BY <1>3, <1>4 DEF Left, rest

(* What waits for other than a switch waits on.                            *)
Buttons == {"sync", "password", "drive", "replace", "adopt", "destroy"}
OthersWaitOn(k, q) ==
    /\ \A type \in Buttons : sends[k] \notin AwaitedBy(type) /\ Meets(sends, AwaitedBy(type)) => Meets(q, AwaitedBy(type))
    /\ Meets(q, AwaitedBy("adopt")) => Meets(sends, AwaitedBy("adopt")) /\ sends[k] \notin AwaitedBy("adopt")
    /\ MeetsOnce(q, AwaitedBy("adopt"))

LEMMA LeftWaitsOn ==
    ASSUME SettingsPageTypes, NEW k \in DOMAIN sends, NEW q, Left(k, q), MeetsOnce(sends, AwaitedBy("adopt"))
    PROVE  OthersWaitOn(k, q)
<1>1. \A type \in Buttons : type # "status"
    BY DEF Buttons
<1>2. "adopt" \in Buttons
    BY DEF Buttons
<1>3. QED
    BY <1>1, <1>2, SendLeaves DEF OthersWaitOn

LEMMA ControlsStay ==
    ASSUME SettingsPageInv, NEW k \in DOMAIN sends, OthersWaitOn(k, sends'), settingsScreen # NoScreen,
           settingsScreen \in ScreenRecords, pageRecord'.asked = pageRecord.asked,
           settingsScreen'.sure <=> settingsScreen.sure,
           settingsScreen'.typed <=> settingsScreen.typed,
           \A button \in settingsScreen'.pressed : button \in settingsScreen.pressed /\ sends[k] \notin AwaitedBy(button),
           settingsScreen'.replacing => settingsScreen.replacing /\ sends[k] \notin AwaitedBy("replace"),
           settingsScreen'.deciding <=> (settingsScreen.deciding /\ sends[k] \notin AwaitedBy("adopt")),
           settingsScreen'.deciding => settingsScreen'.dialog = settingsScreen.dialog,
           settingsScreen'.erasable \/ ((settingsScreen'.erasable <=> settingsScreen.erasable) /\ sends[k] \notin AwaitedBy("destroy"))
    PROVE  ControlsWait'
<1>1. SettingsPageTypes /\ ControlsWait
    BY DEF SettingsPageInv
<1>2. settingsScreen'.sure => pageRecord'.asked
    BY <1>1 DEF ControlsWait
<1>3. \A button \in settingsScreen'.pressed : Meets(sends', AwaitedBy(button))
  <2>1. \A button \in settingsScreen.pressed : button \in Buttons
      BY DEF ScreenRecords, Buttons
  <2>2. QED
      BY <1>1, <2>1 DEF ControlsWait, OthersWaitOn
<1>4. settingsScreen'.replacing => Meets(sends', AwaitedBy("replace"))
    BY <1>1 DEF ControlsWait, OthersWaitOn, Buttons
<1>5. settingsScreen'.deciding <=> Meets(sends', AwaitedBy("adopt"))
    BY <1>1 DEF ControlsWait, OthersWaitOn, Buttons
<1>6. settingsScreen'.deciding => settingsScreen'.dialog = "adopt"
    BY <1>1 DEF ControlsWait
<1>7. MeetsOnce(sends', AwaitedBy("adopt"))
    BY DEF OthersWaitOn
<1>8. settingsScreen'.typed => settingsScreen'.erasable \/ Meets(sends', AwaitedBy("destroy"))
    BY <1>1 DEF ControlsWait, OthersWaitOn, Buttons
<1>9. QED
    BY <1>2, <1>3, <1>4, <1>5, <1>6, <1>7, <1>8 DEF ControlsWait

(* A request of a button is done with: the switches stay as they are.       *)
LEMMA SwitchesStay ==
    ASSUME SettingsPageInv, NEW k \in DOMAIN sends, sends[k].type \notin OfASwitch, Left(k, sends'),
           settingsScreen' # NoScreen => settingsScreen # NoScreen,
           settingsScreen' # NoScreen =>
              /\ settingsScreen'.boxes = settingsScreen.boxes
              /\ settingsScreen'.dialog = "cleanup" <=> settingsScreen.dialog = "cleanup",
           UNCHANGED <<prefs, knownPrefs, pageRecord>>
    PROVE  SwitchesWait' /\ SwitchesFollow'
<1>1. SettingsPageTypes /\ SwitchesWait /\ SwitchesFollow
    BY DEF SettingsPageInv
<1>2. \A s : sends[k] \notin Holding(s) /\ sends[k] \notin Writers(s) /\ sends[k] \notin Stored(s)
    BY DEF Holding, Writers, Stored, OfASwitch
<1>3. \A s : /\ Meets(sends', Holding(s)) <=> Meets(sends, Holding(s))
             /\ MeetsOnce(sends, Holding(s)) => MeetsOnce(sends', Holding(s))
             /\ Meets(sends', Writers(s)) <=> Meets(sends, Writers(s))
             /\ Meets(sends, Stored(s)) => Meets(sends', Stored(s))
    BY <1>1, <1>2, SendLeaves
<1>4. /\ Meets(sends', Foreign) => Meets(sends, Foreign)
      /\ Meets(sends', Failed) => Meets(sends, Failed)
    BY <1>1, SendLeaves
<1>5. ASSUME NEW s, NEW j \in DOMAIN sends', sends'[j] \in Writers(s)
      PROVE  \E n \in DOMAIN sends : sends'[j] = sends[n]
  <2>1. sends'[j].type # "status"
      BY <1>5 DEF Writers
  <2>2. QED
      BY <1>1, <2>1, LeftWasThere
<1>6. SwitchesWait'
    BY <1>1, <1>3 DEF SwitchesWait
<1>7. SwitchesFollow'
  <2> SUFFICES ASSUME ~Excused' PROVE SwitchesFollow'
      BY DEF SwitchesFollow
  <2>1. ~Excused
      BY DEF Excused
  <2>2. ASSUME settingsScreen' # NoScreen, NEW s \in Switches, NEW j \in DOMAIN sends', sends'[j] \in Writers(s)
        PROVE  Follows(sends'[j], settingsScreen', prefs')
    <3>1. PICK n \in DOMAIN sends : sends'[j] = sends[n]
        BY <1>5, <2>2
    <3>2. Follows(sends[n], settingsScreen, prefs)
        BY <1>1, <2>1, <2>2, <3>1 DEF SwitchesFollow
    <3>3. QED
        BY <2>2, <3>1, <3>2 DEF Follows
  <2>3. ASSUME settingsScreen' # NoScreen
        PROVE  /\ ~Meets(sends', Foreign)
               /\ \A s \in Switches : Meets(sends', Writers(s)) \/ settingsScreen'.boxes[s].checked = prefs'[s]
      BY <1>1, <1>3, <1>4, <2>1, <2>3 DEF SwitchesFollow
  <2>4. ~Meets(sends', Failed) /\ \A s \in Switches : Meets(sends', Stored(s)) \/ knownPrefs'[s] = prefs'[s]
      BY <1>1, <1>3, <1>4, <2>1 DEF SwitchesFollow
  <2>5. QED
      BY <2>2, <2>3, <2>4 DEF SwitchesFollow
<1>8. QED
    BY <1>6, <1>7

LEMMA ButtonArrivesStep ==
    ASSUME SettingsPageInv, NEW k \in DOMAIN sends, ButtonArrives(k)
    PROVE  SettingsPageInv'
<1>0. SettingsPageTypes /\ VaultsKept /\ ControlsWait
    BY DEF SettingsPageInv
<1>1. /\ sends[k].type \in {"sync", "password", "drive"}
      /\ settingsScreen' = IF ~Shown(k) THEN settingsScreen
               ELSE [settingsScreen EXCEPT !.pressed = @ \ {sends[k].type},
                                 !.mismatch = @ \/ sends[k].answer = "mismatch"]
      /\ UNCHANGED <<prefs, permitted, localVault, remoteVault, knownPrefs, pageRecord>>
    BY DEF ButtonArrives
<1>2. Left(k, sends')
  <2>1. Sent("status", "") \in PageSends /\ Sent("status", "").type = "status"
      BY <1>0, SentIsASend DEF Goes
  <2>2. QED
      BY <2>1 DEF Left, ButtonArrives, Reopened
<1>3. sends \in Seq(PageSends) /\ sends[k] \in PageSends
    BY <1>0, SendsAreSends
<1>4. sends' \in Seq(PageSends) /\ (Meets(sends', OfType("adopt")) => Meets(sends, OfType("adopt")))
    BY <1>0, <1>2, SendLeaves
<1>5. ASSUME settingsScreen # NoScreen
      PROVE  /\ settingsScreen' \in ScreenRecords
             /\ \A part \in {"boxes", "dialog", "replacing", "deciding", "typed", "sure", "erasable"} :
                    settingsScreen'[part] = settingsScreen[part]
             /\ \A button \in settingsScreen'.pressed : button \in settingsScreen.pressed /\ sends[k] \notin AwaitedBy(button)
  <2>1. settingsScreen \in ScreenRecords
      BY <1>0, <1>5 DEF SettingsPageTypes
  <2>2. CASE Shown(k)
    <3>1. settingsScreen' = [settingsScreen EXCEPT !.pressed = @ \ {sends[k].type},
                                 !.mismatch = @ \/ sends[k].answer = "mismatch"]
        BY <1>1, <2>2
    <3>2. \A part \in {"boxes", "dialog", "replacing", "deciding", "typed", "sure", "erasable"} :
                    settingsScreen'[part] = settingsScreen[part]
        BY <2>1, <3>1 DEF ScreenRecords
    <3>3. settingsScreen'.pressed = settingsScreen.pressed \ {sends[k].type}
        BY <2>1, <3>1 DEF ScreenRecords
    <3>4. settingsScreen' \in ScreenRecords
        BY <2>1, <3>1 DEF ScreenRecords
    <3>5. QED
        BY <3>2, <3>3, <3>4 DEF AwaitedBy
  <2>3. CASE ~Shown(k)
      BY <1>1, <1>5, <2>1, <2>3 DEF Shown, AwaitedBy
  <2>4. QED
      BY <2>2, <2>3
<1>6. settingsScreen = NoScreen => settingsScreen' = NoScreen
    BY <1>1 DEF Shown
<1>7. SettingsPageTypes' /\ VaultsKept'
    BY <1>0, <1>1, <1>4, <1>5, <1>6 DEF SettingsPageTypes, VaultsKept
<1>8. SwitchesWait' /\ SwitchesFollow'
    BY <1>1, <1>2, <1>5, <1>6, SwitchesStay DEF OfASwitch
<1>9. ControlsWait'
  <2> SUFFICES ASSUME settingsScreen # NoScreen PROVE ControlsWait'
      BY <1>6 DEF ControlsWait
  <2>1. OthersWaitOn(k, sends')
      BY <1>0, <1>2, LeftWaitsOn DEF ControlsWait
  <2>2. \A type \in {"replace", "adopt", "destroy"} : sends[k] \notin AwaitedBy(type)
      BY <1>1 DEF AwaitedBy
  <2>3. settingsScreen \in ScreenRecords
      BY <1>0 DEF SettingsPageTypes
  <2>4. QED
      BY <1>1, <1>5, <2>1, <2>2, <2>3, ControlsStay
<1>10. QED
    BY <1>7, <1>8, <1>9 DEF SettingsPageInv

LEMMA AskedAgain ==
    ASSUME SettingsPageTypes, NEW k \in DOMAIN sends,
           sends' = IF sends[k].ok THEN Reopened(OtherSends(k)) ELSE OtherSends(k)
    PROVE  Left(k, sends')
<1>1. Sent("status", "") \in PageSends /\ Sent("status", "").type = "status"
    BY SentIsASend DEF Goes
<1>2. QED
    BY <1>1 DEF Left, Reopened

LEMMA ReplaceArrivesStep ==
    ASSUME SettingsPageInv, NEW k \in DOMAIN sends, ReplaceArrives(k)
    PROVE  SettingsPageInv'
<1>0. SettingsPageTypes /\ VaultsKept /\ ControlsWait
    BY DEF SettingsPageInv
<1>1. /\ sends[k].type = "replace"
      /\ settingsScreen' = IF Shown(k) THEN [settingsScreen EXCEPT !.replacing = FALSE, !.armed = FALSE] ELSE settingsScreen
      /\ UNCHANGED <<prefs, permitted, localVault, remoteVault, knownPrefs, pageRecord>>
    BY DEF ReplaceArrives, Arrived
<1>2. Left(k, sends')
    BY <1>0, AskedAgain DEF ReplaceArrives
<1>3. sends[k] \in PageSends
    BY <1>0, SendsAreSends
<1>4. sends' \in Seq(PageSends) /\ (Meets(sends', OfType("adopt")) => Meets(sends, OfType("adopt")))
    BY <1>0, <1>2, SendLeaves
<1>5. ASSUME settingsScreen # NoScreen
      PROVE  /\ settingsScreen' \in ScreenRecords
             /\ \A part \in {"boxes", "dialog", "pressed", "deciding", "typed", "sure", "erasable"} :
                    settingsScreen'[part] = settingsScreen[part]
             /\ settingsScreen'.replacing => settingsScreen.replacing /\ sends[k] \notin AwaitedBy("replace")
  <2>1. settingsScreen \in ScreenRecords
      BY <1>0, <1>5 DEF SettingsPageTypes
  <2>2. CASE Shown(k)
      BY <1>1, <2>1, <2>2 DEF ScreenRecords
  <2>3. CASE ~Shown(k)
      BY <1>1, <1>5, <2>1, <2>3 DEF Shown, AwaitedBy
  <2>4. QED
      BY <2>2, <2>3
<1>6. settingsScreen = NoScreen => settingsScreen' = NoScreen
    BY <1>1 DEF Shown
<1>7. SettingsPageTypes' /\ VaultsKept'
    BY <1>0, <1>1, <1>4, <1>5, <1>6 DEF SettingsPageTypes, VaultsKept
<1>8. SwitchesWait' /\ SwitchesFollow'
    BY <1>1, <1>2, <1>5, <1>6, SwitchesStay DEF OfASwitch
<1>9. ControlsWait'
  <2> SUFFICES ASSUME settingsScreen # NoScreen PROVE ControlsWait'
      BY <1>6 DEF ControlsWait
  <2>1. OthersWaitOn(k, sends')
      BY <1>0, <1>2, LeftWaitsOn DEF ControlsWait
  <2>2. settingsScreen \in ScreenRecords
      BY <1>0 DEF SettingsPageTypes
  <2>3. \A type \in {"sync", "password", "drive", "adopt", "destroy"} : sends[k] \notin AwaitedBy(type)
      BY <1>1 DEF AwaitedBy
  <2>4. \A button \in settingsScreen'.pressed : button \in settingsScreen.pressed /\ sends[k] \notin AwaitedBy(button)
      BY <1>5, <2>2, <2>3 DEF ScreenRecords
  <2>5. QED
      BY <1>1, <1>5, <2>1, <2>2, <2>3, <2>4, ControlsStay
<1>10. QED
    BY <1>7, <1>8, <1>9 DEF SettingsPageInv

LEMMA AdoptionArrivesStep ==
    ASSUME SettingsPageInv, NEW k \in DOMAIN sends, AdoptionArrives(k)
    PROVE  SettingsPageInv'
<1>0. SettingsPageTypes /\ VaultsKept /\ ControlsWait
    BY DEF SettingsPageInv
<1>1. /\ sends[k].type = "adopt"
      /\ settingsScreen' = IF Shown(k)
               THEN [settingsScreen EXCEPT !.deciding = FALSE, !.dialog = IF sends[k].ok THEN "none" ELSE @]
               ELSE settingsScreen
      /\ UNCHANGED <<prefs, permitted, localVault, remoteVault, knownPrefs, pageRecord>>
    BY DEF AdoptionArrives, Arrived
<1>2. Left(k, sends')
    BY <1>0, AskedAgain DEF AdoptionArrives
<1>3. sends[k] \in PageSends
    BY <1>0, SendsAreSends
<1>4. sends' \in Seq(PageSends) /\ (Meets(sends', OfType("adopt")) => Meets(sends, OfType("adopt")))
    BY <1>0, <1>2, SendLeaves
<1>5. ASSUME settingsScreen # NoScreen
      PROVE  /\ settingsScreen' \in ScreenRecords
             /\ \A part \in {"boxes", "replacing", "pressed", "typed", "sure", "erasable"} :
                    settingsScreen'[part] = settingsScreen[part]
             /\ settingsScreen'.dialog = "cleanup" <=> settingsScreen.dialog = "cleanup"
             /\ settingsScreen'.deciding <=> (settingsScreen.deciding /\ sends[k] \notin AwaitedBy("adopt"))
             /\ settingsScreen'.deciding => settingsScreen'.dialog = settingsScreen.dialog
  <2>1. settingsScreen \in ScreenRecords
      BY <1>0, <1>5 DEF SettingsPageTypes
  <2>2. CASE Shown(k)
    <3>1. sends[k] \in AwaitedBy("adopt")
        BY <1>1, <1>3, <2>2 DEF Shown, AwaitedBy
    <3>2. settingsScreen.dialog = "adopt"
        BY <1>0, <1>5, <3>1 DEF ControlsWait, Meets
    <3>3. settingsScreen' = [settingsScreen EXCEPT !.deciding = FALSE, !.dialog = IF sends[k].ok THEN "none" ELSE @]
        BY <1>1, <2>2
    <3>4. /\ settingsScreen' \in ScreenRecords
          /\ \A part \in {"boxes", "replacing", "pressed", "typed", "sure", "erasable"} :
                    settingsScreen'[part] = settingsScreen[part]
        BY <2>1, <3>3 DEF ScreenRecords
    <3>5. settingsScreen'.dialog # "cleanup" /\ ~settingsScreen'.deciding
        BY <2>1, <3>2, <3>3 DEF ScreenRecords
    <3>6. QED
        BY <3>1, <3>2, <3>4, <3>5
  <2>3. CASE ~Shown(k)
      BY <1>1, <1>5, <2>1, <2>3 DEF Shown, AwaitedBy
  <2>4. QED
      BY <2>2, <2>3
<1>6. settingsScreen = NoScreen => settingsScreen' = NoScreen
    BY <1>1 DEF Shown
<1>7. SettingsPageTypes' /\ VaultsKept'
    BY <1>0, <1>1, <1>4, <1>5, <1>6 DEF SettingsPageTypes, VaultsKept
<1>8. SwitchesWait' /\ SwitchesFollow'
    BY <1>1, <1>2, <1>5, <1>6, SwitchesStay DEF OfASwitch
<1>9. ControlsWait'
  <2> SUFFICES ASSUME settingsScreen # NoScreen PROVE ControlsWait'
      BY <1>6 DEF ControlsWait
  <2>1. OthersWaitOn(k, sends')
      BY <1>0, <1>2, LeftWaitsOn DEF ControlsWait
  <2>2. settingsScreen \in ScreenRecords
      BY <1>0 DEF SettingsPageTypes
  <2>3. \A type \in {"sync", "password", "drive", "replace", "destroy"} : sends[k] \notin AwaitedBy(type)
      BY <1>1 DEF AwaitedBy
  <2>4. \A button \in settingsScreen'.pressed : button \in settingsScreen.pressed /\ sends[k] \notin AwaitedBy(button)
      BY <1>5, <2>2, <2>3 DEF ScreenRecords
  <2>5. QED
      BY <1>1, <1>5, <2>1, <2>2, <2>3, <2>4, ControlsStay
<1>10. QED
    BY <1>7, <1>8, <1>9 DEF SettingsPageInv

(* The screen goes: what was asked for on it is nobody's.                   *)
LEMMA ScreenGoes ==
    ASSUME SettingsPageInv, NEW k \in DOMAIN sends, sends[k].type \notin {"permission", "set"},
           sends' = Orphans(OtherSends(k)), settingsScreen' = NoScreen,
           \A part \in {"adopted", "destroyed", "lost", "elsewhere", "crossed"} : pageRecord'[part] = pageRecord[part],
           pageRecord.rebuilt => pageRecord'.rebuilt, pageRecord' \in PageRecords,
           UNCHANGED <<prefs, permitted, localVault, remoteVault, knownPrefs>>
    PROVE  SettingsPageInv'
<1>0. SettingsPageTypes /\ VaultsKept /\ SwitchesFollow
    BY DEF SettingsPageInv
<1> DEFINE rest == OtherSends(k)
<1>1. Left(k, rest)
    BY DEF Left
<1>2. /\ rest \in Seq(PageSends)
      /\ Meets(rest, OfType("adopt")) => Meets(sends, OfType("adopt"))
      /\ Meets(rest, Failed) => Meets(sends, Failed)
      /\ \A s : sends[k] \notin Stored(s) /\ Meets(sends, Stored(s)) => Meets(rest, Stored(s))
    BY <1>0, <1>1, SendLeaves
<1>3. sends' = Orphans(rest)
    OBVIOUS
<1> HIDE DEF rest
<1>4. /\ sends' \in Seq(PageSends)
      /\ Meets(sends', OfType("adopt")) => Meets(sends, OfType("adopt"))
      /\ Meets(sends', Failed) => Meets(sends, Failed)
      /\ \A s : sends[k] \notin Stored(s) /\ Meets(sends, Stored(s)) => Meets(sends', Stored(s))
    BY <1>2, <1>3, OrphansAreNobodys
<1>5. \A s : sends[k] \notin Stored(s)
    BY DEF Stored
<1>6. SettingsPageTypes' /\ VaultsKept'
    BY <1>0, <1>4 DEF SettingsPageTypes, VaultsKept
<1>7. ControlsWait' /\ SwitchesWait'
    BY DEF ControlsWait, SwitchesWait
<1>8. SwitchesFollow'
    BY <1>0, <1>4, <1>5 DEF SwitchesFollow, Excused
<1>9. QED
    BY <1>6, <1>7, <1>8 DEF SettingsPageInv

LEMMA DestructionArrivesStep ==
    ASSUME SettingsPageInv, NEW k \in DOMAIN sends, DestructionArrives(k)
    PROVE  SettingsPageInv'
<1>0. SettingsPageTypes /\ VaultsKept /\ ControlsWait
    BY DEF SettingsPageInv
<1>1. /\ sends[k].type = "destroy"
      /\ UNCHANGED <<prefs, permitted, localVault, remoteVault, knownPrefs, pageRecord>>
    BY DEF DestructionArrives, Arrived
<1>2. sends[k] \in PageSends /\ pageRecord \in PageRecords
    BY <1>0, SendsAreSends DEF SettingsPageTypes
<1>3. CASE sends[k].ok
  <2>1. sends' = Orphans(OtherSends(k)) /\ settingsScreen' = NoScreen
      BY <1>3 DEF DestructionArrives
  <2>2. QED
      BY <1>1, <1>2, <2>1, ScreenGoes
<1>4. CASE ~sends[k].ok
  <2>1. /\ sends' = OtherSends(k)
        /\ settingsScreen' = IF Shown(k) THEN [settingsScreen EXCEPT !.erasable = TRUE] ELSE settingsScreen
      BY <1>4 DEF DestructionArrives
  <2>2. Left(k, sends')
      BY <2>1 DEF Left
  <2>3. sends' \in Seq(PageSends) /\ (Meets(sends', OfType("adopt")) => Meets(sends, OfType("adopt")))
      BY <1>0, <2>2, SendLeaves
  <2>4. ASSUME settingsScreen # NoScreen
        PROVE  /\ settingsScreen' \in ScreenRecords
               /\ \A part \in {"boxes", "dialog", "replacing", "pressed", "deciding", "typed", "sure"} :
                    settingsScreen'[part] = settingsScreen[part]
               /\ settingsScreen'.erasable \/ ((settingsScreen'.erasable <=> settingsScreen.erasable) /\ sends[k] \notin AwaitedBy("destroy"))
    <3>1. settingsScreen \in ScreenRecords
        BY <1>0, <2>4 DEF SettingsPageTypes
    <3>2. CASE Shown(k)
        BY <2>1, <3>1, <3>2 DEF ScreenRecords
    <3>3. CASE ~Shown(k)
        BY <2>1, <2>4, <3>1, <3>3 DEF Shown, AwaitedBy
    <3>4. QED
        BY <3>2, <3>3
  <2>5. settingsScreen = NoScreen => settingsScreen' = NoScreen
      BY <2>1 DEF Shown
  <2>6. SettingsPageTypes' /\ VaultsKept'
      BY <1>0, <1>1, <2>3, <2>4, <2>5 DEF SettingsPageTypes, VaultsKept
  <2>7. SwitchesWait' /\ SwitchesFollow'
      BY <1>1, <2>2, <2>4, <2>5, SwitchesStay DEF OfASwitch
  <2>8. ControlsWait'
    <3> SUFFICES ASSUME settingsScreen # NoScreen PROVE ControlsWait'
        BY <2>5 DEF ControlsWait
    <3>1. OthersWaitOn(k, sends')
        BY <1>0, <2>2, LeftWaitsOn DEF ControlsWait
    <3>2. settingsScreen \in ScreenRecords
        BY <1>0 DEF SettingsPageTypes
    <3>3. \A type \in {"sync", "password", "drive", "replace", "adopt"} : sends[k] \notin AwaitedBy(type)
        BY <1>1 DEF AwaitedBy
    <3>4. \A button \in settingsScreen'.pressed : button \in settingsScreen.pressed /\ sends[k] \notin AwaitedBy(button)
        BY <2>4, <3>2, <3>3 DEF ScreenRecords
    <3>5. QED
        BY <1>1, <2>4, <3>1, <3>2, <3>3, <3>4, ControlsStay
  <2>9. QED
      BY <2>6, <2>7, <2>8 DEF SettingsPageInv
<1>5. QED
    BY <1>3, <1>4

LEMMA ScreenArrivesStep ==
    ASSUME SettingsPageInv, NEW k \in DOMAIN sends, ScreenArrives(k)
    PROVE  SettingsPageInv'
<1>0. SettingsPageTypes /\ VaultsKept /\ SwitchesFollow
    BY DEF SettingsPageInv
<1>1. /\ sends[k].type = "status" /\ sends' = Orphans(OtherSends(k))
      /\ settingsScreen' = IF localVault = "none" THEN NoScreen ELSE Built(sends[k].ok)
      /\ pageRecord' = [pageRecord EXCEPT !.asked = FALSE,
                                !.rebuilt = @ \/ \E other \in DOMAIN sends : sends[other].type \in {"permission", "set"}]
      /\ UNCHANGED <<prefs, permitted, localVault, remoteVault, knownPrefs>>
    BY DEF ScreenArrives, Arrived
<1>2. sends[k] \in PageSends /\ pageRecord \in PageRecords
    BY <1>0, SendsAreSends DEF SettingsPageTypes
<1>3. /\ pageRecord' \in PageRecords
      /\ \A part \in {"adopted", "destroyed", "lost", "elsewhere", "crossed"} : pageRecord'[part] = pageRecord[part]
      /\ pageRecord'.rebuilt <=> (pageRecord.rebuilt \/ \E other \in DOMAIN sends : sends[other].type \in {"permission", "set"})
    BY <1>1, <1>2 DEF PageRecords
<1>4. CASE localVault = "none"
    BY <1>1, <1>2, <1>3, <1>4, ScreenGoes
<1>5. CASE localVault # "none"
  <2> DEFINE rest == OtherSends(k)
  <2>1. Left(k, rest)
      BY DEF Left
  <2>2. rest \in Seq(PageSends) /\ (Meets(rest, OfType("adopt")) => Meets(sends, OfType("adopt"))) /\ (Meets(rest, Failed) => Meets(sends, Failed))
      BY <1>0, <2>1, SendLeaves
  <2>3. \A j \in DOMAIN rest : \E n \in DOMAIN sends : rest[j].type # "status" => rest[j] = sends[n]
      BY <1>0, <2>1, LeftWasThere
  <2>4. sends' = Orphans(rest)
      BY <1>1
  <2> HIDE DEF rest
  <2>5. sends' \in Seq(PageSends) /\ (Meets(sends', OfType("adopt")) => Meets(sends, OfType("adopt"))) /\ (Meets(sends', Failed) => Meets(sends, Failed))
      BY <2>2, <2>4, OrphansAreNobodys
  <2>6. /\ \A type : ~Meets(sends', AwaitedBy(type))
        /\ \A s : ~Meets(sends', Holding(s)) /\ ~Meets(sends', Writers(s))
        /\ Meets(sends', Foreign) => \E j \in DOMAIN rest : rest[j].type \in {"permission", "set"}
      BY <2>2, <2>4, OrphansAreNobodys
  <2>7. settingsScreen' = Built(sends[k].ok)
      BY <1>1, <1>5
  <2>8. sends[k].ok \in BOOLEAN /\ knownPrefs \in [Switches -> BOOLEAN]
      BY <1>0, <1>2 DEF PageSends, SettingsPageTypes
  <2>9. /\ settingsScreen' \in ScreenRecords
        /\ ~settingsScreen'.sure /\ settingsScreen'.pressed = {} /\ ~settingsScreen'.replacing
        /\ ~settingsScreen'.deciding /\ ~settingsScreen'.typed
        /\ settingsScreen'.dialog = "none"
        /\ \A s \in Switches : settingsScreen'.boxes[s].checked = knownPrefs[s] /\ ~settingsScreen'.boxes[s].busy
      BY <2>7, <2>8 DEF Built, ScreenRecords
  <2>10. SettingsPageTypes' /\ VaultsKept'
      BY <1>0, <1>1, <1>3, <2>5, <2>9 DEF SettingsPageTypes, VaultsKept
  <2>11. ControlsWait'
    <3>1. MeetsOnce(sends', AwaitedBy("adopt"))
        BY <2>6 DEF Meets, MeetsOnce
    <3>2. QED
        BY <2>6, <2>9, <3>1 DEF ControlsWait
  <2>12. SwitchesWait'
    <3>1. \A s : MeetsOnce(sends', Holding(s))
        BY <2>6 DEF Meets, MeetsOnce
    <3>2. QED
        BY <2>6, <2>9, <3>1 DEF SwitchesWait
  <2>13. SwitchesFollow'
    <3> SUFFICES ASSUME ~Excused' PROVE SwitchesFollow'
        BY DEF SwitchesFollow
    <3>1. ~Excused /\ \A other \in DOMAIN sends : sends[other].type \notin {"permission", "set"}
        BY <1>3 DEF Excused
    <3>2. ~Meets(sends', Foreign)
        BY <2>3, <2>6, <3>1
    <3>3. \A s : ~Meets(sends, Stored(s))
        BY <3>1 DEF Meets, Stored
    <3>4. \A s \in Switches : knownPrefs[s] = prefs[s]
        BY <1>0, <3>1, <3>3 DEF SwitchesFollow
    <3>5. \A s \in Switches, j \in DOMAIN sends' : sends'[j] \notin Writers(s)
        BY <2>6 DEF Meets
    <3>6. ~Meets(sends', Failed)
        BY <1>0, <2>5, <3>1 DEF SwitchesFollow
    <3>7. QED
        BY <1>1, <2>9, <3>2, <3>4, <3>5, <3>6 DEF SwitchesFollow
  <2>14. QED
      BY <2>10, <2>11, <2>12, <2>13 DEF SettingsPageInv
<1>6. QED
    BY <1>4, <1>5

(* A switch is settled: it is free, and nothing else of the screen changes.  *)
LEMMA SettledSwitch ==
    ASSUME settingsScreen \in ScreenRecords, NEW s \in Switches, NEW stored \in BOOLEAN
    PROVE  /\ SwitchSettled(s, stored) \in ScreenRecords
           /\ \A part \in {"dialog", "sure", "pressed", "replacing", "deciding", "typed", "erasable"} :
                 SwitchSettled(s, stored)[part] = settingsScreen[part]
           /\ \A t \in Switches : t # s => SwitchSettled(s, stored).boxes[t] = settingsScreen.boxes[t]
           /\ ~SwitchSettled(s, stored).boxes[s].busy
           /\ SwitchSettled(s, stored).boxes[s].checked <=> (IF stored THEN settingsScreen.boxes[s].checked ELSE ~settingsScreen.boxes[s].checked)
<1> DEFINE box == [checked |-> IF stored THEN settingsScreen.boxes[s].checked ELSE ~settingsScreen.boxes[s].checked, busy |-> FALSE]
           set == [settingsScreen EXCEPT !.boxes[s] = box]
<1>0. settingsScreen.boxes \in [Switches -> [checked : BOOLEAN, busy : BOOLEAN]]
    BY DEF ScreenRecords
<1>1. box \in [checked : BOOLEAN, busy : BOOLEAN] /\ ~box.busy
      /\ (box.checked <=> (IF stored THEN settingsScreen.boxes[s].checked ELSE ~settingsScreen.boxes[s].checked))
    BY <1>0
<1>2. SwitchSettled(s, stored) = set
    BY DEF SwitchSettled
<1> HIDE DEF box
<1>3. set.boxes = [settingsScreen.boxes EXCEPT ![s] = box]
    BY DEF ScreenRecords
<1>4. \A part \in {"dialog", "sure", "pressed", "replacing", "deciding", "typed", "erasable"} :
                 set[part] = settingsScreen[part]
    BY DEF ScreenRecords
<1>5. set \in ScreenRecords
  <2>1. [settingsScreen.boxes EXCEPT ![s] = box] \in [Switches -> [checked : BOOLEAN, busy : BOOLEAN]]
      BY <1>0, <1>1
  <2>2. QED
      BY <2>1 DEF ScreenRecords
<1> HIDE DEF set
<1>6. set.boxes[s] = box /\ \A t \in Switches : t # s => set.boxes[t] = settingsScreen.boxes[t]
    BY <1>0, <1>3
<1>7. QED
    BY <1>1, <1>2, <1>4, <1>5, <1>6

(* A request of a switch is answered for good.                             *)
LEMMA HeardOf ==
    ASSUME SettingsPageInv, NEW k \in DOMAIN sends, sends[k].type \in OfASwitch, sends' = OtherSends(k)
    PROVE  /\ settingsScreen # NoScreen => OthersWaitOn(k, sends')
           /\ Meets(sends', OfType("adopt")) => Meets(sends, OfType("adopt"))
           /\ sends[k] \in PageSends /\ sends[k].arg \in SwitchArgs /\ sends[k].arg.switch \in Switches
           /\ settingsScreen # NoScreen =>
                \A s \in Switches :
                  /\ MeetsOnce(sends', Holding(s))
                  /\ Meets(sends', Holding(s)) <=> (Meets(sends, Holding(s)) /\ ~(sends[k].mine /\ s = sends[k].arg.switch))
           /\ \A type : sends[k] \notin AwaitedBy(type) \/ type \in OfASwitch
           /\ sends' \in Seq(PageSends)
<1>0. SettingsPageTypes /\ ControlsWait /\ SwitchesWait
    BY DEF SettingsPageInv
<1>1. sends[k] \in PageSends
    BY <1>0, SendsAreSends
<1>2. Left(k, sends')
    BY DEF Left
<1>3. sends[k].arg \in SwitchArgs
    BY <1>1 DEF PageSends
<1>4. sends[k].arg.switch \in Switches
    BY <1>3 DEF SwitchArgs
<1>5. \A s : sends[k] \in Holding(s) <=> (sends[k].mine /\ s = sends[k].arg.switch)
    BY <1>1 DEF Holding
<1>6. /\ Meets(sends', OfType("adopt")) => Meets(sends, OfType("adopt"))
      /\ sends' \in Seq(PageSends)
      /\ \A s :
           /\ Meets(sends', Holding(s)) => Meets(sends, Holding(s))
           /\ sends[k] \notin Holding(s) /\ Meets(sends, Holding(s)) => Meets(sends', Holding(s))
           /\ MeetsOnce(sends, Holding(s)) => MeetsOnce(sends', Holding(s))
           /\ MeetsOnce(sends, Holding(s)) /\ sends[k] \in Holding(s) => ~Meets(sends', Holding(s))
    BY <1>0, <1>2, SendLeaves
<1>7. settingsScreen # NoScreen =>
        \A s \in Switches :
          /\ MeetsOnce(sends', Holding(s))
          /\ Meets(sends', Holding(s)) <=> (Meets(sends, Holding(s)) /\ ~(sends[k].mine /\ s = sends[k].arg.switch))
    BY <1>0, <1>5, <1>6 DEF SwitchesWait
<1>8. settingsScreen # NoScreen => OthersWaitOn(k, sends')
    BY <1>0, <1>2, LeftWaitsOn DEF ControlsWait
<1>9. \A type : sends[k] \notin AwaitedBy(type) \/ type \in OfASwitch
    BY DEF AwaitedBy
<1>10. QED
    BY <1>1, <1>3, <1>4, <1>6, <1>7, <1>8, <1>9

(* ... and frees it, on the screen that asked.                             *)
LEMMA SwitchIsFreed ==
    ASSUME SettingsPageInv, NEW k \in DOMAIN sends, sends[k].type \in OfASwitch, sends' = OtherSends(k), NEW stored \in BOOLEAN,
           settingsScreen' = IF Shown(k) THEN SwitchSettled(sends[k].arg.switch, stored) ELSE settingsScreen
    PROVE  /\ sends' \in Seq(PageSends)
           /\ settingsScreen' \in ScreenRecords \cup {NoScreen}
           /\ SwitchesWait'
           /\ pageRecord'.asked = pageRecord.asked => ControlsWait'
<1>0. SettingsPageTypes /\ ControlsWait /\ SwitchesWait
    BY DEF SettingsPageInv
<1>1. /\ sends' \in Seq(PageSends)
      /\ sends[k] \in PageSends /\ sends[k].arg.switch \in Switches
      /\ \A type : sends[k] \notin AwaitedBy(type) \/ type \in OfASwitch
      /\ settingsScreen # NoScreen => OthersWaitOn(k, sends')
      /\ settingsScreen # NoScreen =>
            \A s \in Switches :
              /\ MeetsOnce(sends', Holding(s))
              /\ Meets(sends', Holding(s)) <=> (Meets(sends, Holding(s)) /\ ~(sends[k].mine /\ s = sends[k].arg.switch))
    BY HeardOf
<1> DEFINE t == sends[k].arg.switch
<1>2. settingsScreen = NoScreen => settingsScreen' = NoScreen
    BY DEF Shown
<1>3. ASSUME settingsScreen # NoScreen
      PROVE  /\ settingsScreen' \in ScreenRecords
             /\ \A part \in {"dialog", "sure", "pressed", "replacing", "deciding", "typed", "erasable"} :
                   settingsScreen'[part] = settingsScreen[part]
             /\ \A s \in Switches : ~(sends[k].mine /\ s = t) => settingsScreen'.boxes[s] = settingsScreen.boxes[s]
             /\ sends[k].mine => ~settingsScreen'.boxes[t].busy
  <2>1. settingsScreen \in ScreenRecords
      BY <1>0, <1>3 DEF SettingsPageTypes
  <2>2. CASE sends[k].mine
    <3>1. settingsScreen' = SwitchSettled(t, stored)
        BY <1>3, <2>2 DEF Shown
    <3>2. /\ SwitchSettled(t, stored) \in ScreenRecords
          /\ \A part \in {"dialog", "sure", "pressed", "replacing", "deciding", "typed", "erasable"} :
                SwitchSettled(t, stored)[part] = settingsScreen[part]
          /\ \A s \in Switches : s # t => SwitchSettled(t, stored).boxes[s] = settingsScreen.boxes[s]
          /\ ~SwitchSettled(t, stored).boxes[t].busy
        BY <1>1, <2>1, SettledSwitch
    <3>3. QED
        BY <2>2, <3>1, <3>2
  <2>3. CASE ~sends[k].mine
      BY <2>1, <2>3 DEF Shown
  <2>4. QED
      BY <2>2, <2>3
<1>4. sends[k].mine => sends[k] \in Holding(t)
    BY <1>1 DEF Holding
<1>5. SwitchesWait'
  <2> SUFFICES ASSUME settingsScreen # NoScreen PROVE SwitchesWait'
      BY <1>2 DEF SwitchesWait
  <2>1. /\ settingsScreen'.dialog = settingsScreen.dialog
        /\ settingsScreen'.dialog = "cleanup" =>
              "stripTrackingParams" \in Switches /\ ~Meets(sends', Holding("stripTrackingParams"))
      BY <1>0, <1>1, <1>3 DEF SwitchesWait
  <2>2. ASSUME NEW s \in Switches, ~(sends[k].mine /\ s = t)
        PROVE  settingsScreen'.boxes[s].busy <=>
                  \/ Meets(sends', Holding(s))
                  \/ s = "stripTrackingParams" /\ settingsScreen'.dialog = "cleanup"
      BY <1>0, <1>1, <1>3, <2>1, <2>2 DEF SwitchesWait
  <2>3. ASSUME sends[k].mine
        PROVE  settingsScreen'.boxes[t].busy <=>
                  \/ Meets(sends', Holding(t))
                  \/ t = "stripTrackingParams" /\ settingsScreen'.dialog = "cleanup"
    <3>1. Meets(sends, Holding(t))
        BY <1>4, <2>3 DEF Meets
    <3>2. ~(t = "stripTrackingParams" /\ settingsScreen.dialog = "cleanup")
        BY <1>0, <3>1 DEF SwitchesWait
    <3>3. ~Meets(sends', Holding(t))
        BY <1>1, <2>3
    <3>4. ~settingsScreen'.boxes[t].busy
        BY <1>3, <2>3
    <3>5. QED
        BY <2>1, <3>2, <3>3, <3>4
  <2>4. QED
      BY <1>1, <2>1, <2>2, <2>3 DEF SwitchesWait
<1>6. ASSUME pageRecord'.asked = pageRecord.asked PROVE ControlsWait'
  <2> SUFFICES ASSUME settingsScreen # NoScreen PROVE ControlsWait'
      BY <1>2 DEF ControlsWait
  <2>1. settingsScreen \in ScreenRecords
      BY <1>0 DEF SettingsPageTypes
  <2>2. \A type \in {"sync", "password", "drive", "replace", "adopt", "destroy"} : sends[k] \notin AwaitedBy(type)
      BY <1>1 DEF OfASwitch
  <2>3. \A button \in settingsScreen'.pressed : button \in settingsScreen.pressed /\ sends[k] \notin AwaitedBy(button)
      BY <1>3, <2>1, <2>2 DEF ScreenRecords
  <2>4. QED
      BY <1>1, <1>3, <1>6, <2>1, <2>2, <2>3, ControlsStay
<1>7. QED
    BY <1>1, <1>2, <1>3, <1>5, <1>6

(* Who writes a switch without the one that is done with.                   *)
WritersWithout(k, q) ==
    /\ \A s : /\ \A j \in DOMAIN q : q[j] \in Writers(s) => \E n \in DOMAIN sends : n # k /\ q[j] = sends[n]
              /\ sends[k] \notin Writers(s) /\ Meets(sends, Writers(s)) => Meets(q, Writers(s))
    /\ Meets(q, Foreign) => Meets(sends, Foreign)
    /\ Meets(q, Failed) => Meets(sends, Failed)

LEMMA WritersAreWithout ==
    ASSUME SettingsPageTypes, NEW k \in DOMAIN sends, NEW q,
           q = OtherSends(k) \/ \E e \in PageSends : e.type = "count" /\ q = Append(OtherSends(k), e)
    PROVE  WritersWithout(k, q)
<1> DEFINE rest == OtherSends(k)
<1>1. sends \in Seq(PageSends)
    BY SendsAreSends
<1>2. /\ rest \in Seq(PageSends)
      /\ \A i \in DOMAIN rest : \E n \in DOMAIN sends : n # k /\ rest[i] = sends[n]
    BY <1>1, RemoveMeets DEF OtherSends
<1>3. \A H : /\ Meets(rest, H) => Meets(sends, H)
             /\ sends[k] \notin H /\ Meets(sends, H) => Meets(rest, H)
    BY <1>1, RemoveMeets DEF OtherSends
<1> HIDE DEF rest
<1>4. CASE q = rest
    BY <1>2, <1>3, <1>4 DEF WritersWithout
<1>5. ASSUME NEW e \in PageSends, e.type = "count", q = Append(rest, e)
      PROVE  WritersWithout(k, q)
  <2>1. (\A s : e \notin Writers(s)) /\ e \notin Foreign /\ e \notin Failed
      BY <1>5 DEF Writers, Foreign, Failed
  <2>2. \A H : Meets(q, H) <=> (Meets(rest, H) \/ e \in H)
      BY <1>2, <1>5, AppendMeets
  <2>3. \A j \in DOMAIN q : (j \in DOMAIN rest /\ q[j] = rest[j]) \/ q[j] = e
      BY <1>2, <1>5
  <2>4. QED
      BY <1>2, <1>3, <2>1, <2>2, <2>3 DEF WritersWithout
<1>6. QED
    BY <1>4, <1>5 DEF rest

LEMMA FollowsOn ==
    ASSUME SettingsPageInv, ~Excused, NEW k \in DOMAIN sends, WritersWithout(k, sends'),
           settingsScreen # NoScreen, UNCHANGED prefs,
           \A s \in Switches :
              \/ settingsScreen'.boxes[s].checked = settingsScreen.boxes[s].checked /\ sends[k] \notin Writers(s)
              \/ settingsScreen'.boxes[s].checked = prefs[s] /\ sends[k] \in Writers(s)
    PROVE  /\ ~Meets(sends', Foreign) /\ ~Meets(sends', Failed)
           /\ \A s \in Switches :
                /\ \A j \in DOMAIN sends' : sends'[j] \in Writers(s) => Follows(sends'[j], settingsScreen', prefs')
                /\ Meets(sends', Writers(s)) \/ settingsScreen'.boxes[s].checked = prefs'[s]
<1>1. SwitchesWait /\ SwitchesFollow
    BY DEF SettingsPageInv
<1>2. \A s : \A x \in Writers(s) : x \in Holding(s) /\ x.arg.switch = s
    BY DEF Writers, Holding, OfASwitch
<1>3. ~Meets(sends', Foreign) /\ ~Meets(sends', Failed)
    BY <1>1 DEF WritersWithout, SwitchesFollow
<1>4. ASSUME NEW s \in Switches
      PROVE  /\ \A j \in DOMAIN sends' : sends'[j] \in Writers(s) => Follows(sends'[j], settingsScreen', prefs')
             /\ Meets(sends', Writers(s)) \/ settingsScreen'.boxes[s].checked = prefs'[s]
  <2>1. CASE sends[k] \in Writers(s)
    <3>1. MeetsOnce(sends, Holding(s)) /\ sends[k] \in Holding(s)
        BY <1>1, <1>2, <2>1 DEF SwitchesWait
    <3>2. \A j \in DOMAIN sends' : sends'[j] \notin Writers(s)
        BY <1>2, <3>1 DEF WritersWithout, MeetsOnce
    <3>3. QED
        BY <2>1, <3>2
  <2>2. CASE sends[k] \notin Writers(s)
    <3>1. settingsScreen'.boxes[s].checked = settingsScreen.boxes[s].checked
        BY <2>2
    <3>2. Meets(sends', Writers(s)) \/ settingsScreen'.boxes[s].checked = prefs'[s]
        BY <1>1, <2>2, <3>1 DEF SwitchesFollow, WritersWithout
    <3>3. ASSUME NEW j \in DOMAIN sends', sends'[j] \in Writers(s)
          PROVE  Follows(sends'[j], settingsScreen', prefs')
      <4>1. PICK n \in DOMAIN sends : sends'[j] = sends[n]
          BY <3>3 DEF WritersWithout
      <4>2. Follows(sends[n], settingsScreen, prefs) /\ sends[n].arg.switch = s
          BY <1>1, <1>2, <3>3, <4>1 DEF SwitchesFollow
      <4>3. QED
          BY <3>1, <4>1, <4>2 DEF Follows
    <3>4. QED
        BY <3>2, <3>3
  <2>3. QED
      BY <2>1, <2>2
<1>5. QED
    BY <1>3, <1>4

(* The request goes on as another one of the same switch.                  *)
LEMMA GoesOnAs ==
    ASSUME SettingsPageInv, NEW k \in DOMAIN sends, sends[k].type \in OfASwitch, NEW e \in PageSends,
           e.type \in OfASwitch, e.mine <=> sends[k].mine, e.arg = sends[k].arg,
           sends' = Append(OtherSends(k), e), UNCHANGED settingsScreen
    PROVE  /\ sends' \in Seq(PageSends)
           /\ Meets(sends', OfType("adopt")) => Meets(sends, OfType("adopt"))
           /\ SwitchesWait'
           /\ pageRecord'.asked = pageRecord.asked => ControlsWait'
<1>0. SettingsPageTypes /\ ControlsWait /\ SwitchesWait
    BY DEF SettingsPageInv
<1> DEFINE rest == OtherSends(k)
<1>1. sends \in Seq(PageSends) /\ sends[k] \in PageSends
    BY <1>0, SendsAreSends
<1>2. /\ rest \in Seq(PageSends)
      /\ \A H : /\ Meets(rest, H) => Meets(sends, H)
                /\ sends[k] \notin H /\ Meets(sends, H) => Meets(rest, H)
                /\ MeetsOnce(sends, H) => MeetsOnce(rest, H)
                /\ MeetsOnce(sends, H) /\ sends[k] \in H => ~Meets(rest, H)
    BY <1>1, RemoveMeets DEF OtherSends
<1>3. sends' = Append(rest, e)
    OBVIOUS
<1> HIDE DEF rest
<1>4. sends' \in Seq(PageSends)
      /\ \A H : /\ Meets(sends', H) <=> (Meets(rest, H) \/ e \in H)
                /\ MeetsOnce(rest, H) /\ ~(e \in H /\ Meets(rest, H)) => MeetsOnce(sends', H)
    BY <1>2, <1>3, AppendMeets
<1>5. \A s : e \in Holding(s) <=> sends[k] \in Holding(s)
    BY <1>1 DEF Holding
<1>6. \A s : /\ MeetsOnce(sends, Holding(s)) => MeetsOnce(sends', Holding(s))
             /\ Meets(sends', Holding(s)) <=> Meets(sends, Holding(s))
  <2> TAKE s
  <2>1. MeetsOnce(sends, Holding(s)) => MeetsOnce(sends', Holding(s))
      BY <1>2, <1>4, <1>5
  <2>2. sends[k] \in Holding(s) => Meets(sends, Holding(s))
      BY DEF Meets
  <2>3. QED
      BY <1>2, <1>4, <1>5, <2>1, <2>2
<1>7. SwitchesWait'
    BY <1>0, <1>6 DEF SwitchesWait
<1>8. \A type \in Buttons : /\ e \notin AwaitedBy(type) /\ sends[k] \notin AwaitedBy(type)
                            /\ e \notin OfType(type) /\ sends[k] \notin OfType(type)
    BY DEF AwaitedBy, OfType, Buttons, OfASwitch
<1>9. \A type \in Buttons : /\ Meets(sends', AwaitedBy(type)) <=> Meets(sends, AwaitedBy(type))
                            /\ MeetsOnce(sends, AwaitedBy(type)) => MeetsOnce(sends', AwaitedBy(type))
                            /\ Meets(sends', OfType(type)) <=> Meets(sends, OfType(type))
    BY <1>2, <1>4, <1>8
<1>10. ASSUME pageRecord'.asked = pageRecord.asked PROVE ControlsWait'
  <2> SUFFICES ASSUME settingsScreen # NoScreen PROVE ControlsWait'
      BY DEF ControlsWait
  <2>1. \A button \in settingsScreen.pressed : button \in Buttons
      BY <1>0 DEF SettingsPageTypes, ScreenRecords, Buttons
  <2>2. {"replace", "adopt", "destroy"} \subseteq Buttons
      BY DEF Buttons
  <2>3. QED
      BY <1>0, <1>9, <1>10, <2>1, <2>2 DEF ControlsWait
<1>11. QED
    BY <1>4, <1>7, <1>9, <1>10 DEF Buttons

LEMMA SentInItsPlace ==
    ASSUME SettingsPageTypes, NEW type \in {"set", "count"}, NEW arg \in SwitchArgs, NEW mine \in BOOLEAN,
           type = "count" => arg.switch = "stripTrackingParams"
    PROVE  \E e \in PageSends :
              /\ e = [Sent(type, arg) EXCEPT !.mine = mine]
              /\ e.type = type /\ e.arg = arg /\ e.at = "sent"
              /\ e.mine <=> mine
<1> DEFINE x == Sent(type, arg)
           e == [x EXCEPT !.mine = mine]
<1>1. x \in PageSends /\ x.type = type /\ x.arg = arg /\ x.at = "sent"
    BY SentIsASend DEF Goes
<1> HIDE DEF x
<1>2. e \in PageSends
    BY <1>1 DEF PageSends
<1>3. e.type = x.type /\ e.arg = x.arg /\ e.at = x.at /\ e.mine = mine
    BY <1>1 DEF PageSends
<1> HIDE DEF e
<1>4. QED
    BY <1>1, <1>2, <1>3 DEF e, x

LEMMA PermissionArrivesStep ==
    ASSUME SettingsPageInv, NEW k \in DOMAIN sends, PermissionArrives(k)
    PROVE  SettingsPageInv'
<1>0. SettingsPageTypes /\ VaultsKept /\ SwitchesFollow
    BY DEF SettingsPageInv
<1>1. /\ sends[k].type = "permission"
      /\ settingsScreen' = IF ~sends[k].ok /\ Shown(k) THEN SwitchSettled(sends[k].arg.switch, FALSE) ELSE settingsScreen
      /\ UNCHANGED <<prefs, permitted, localVault, remoteVault, knownPrefs, pageRecord>>
    BY DEF PermissionArrives, Arrived
<1>2. sends \in Seq(PageSends) /\ sends[k] \in PageSends
    BY <1>0, SendsAreSends
<1>3. sends[k].type \in OfASwitch
    BY <1>1 DEF OfASwitch
<1>4. sends[k].arg \in SwitchArgs /\ sends[k].mine \in BOOLEAN
    BY <1>2, <1>3 DEF PageSends
<1> DEFINE t == sends[k].arg.switch
<1>5. t \in Switches
    BY <1>4 DEF SwitchArgs
<1>6. /\ \A s : sends[k] \in Writers(s) <=> (sends[k].mine /\ s = t)
      /\ sends[k] \in Foreign <=> ~sends[k].mine
      /\ \A s : sends[k] \notin Stored(s)
    BY <1>1, <1>2 DEF Writers, Foreign, Stored
<1>7. Excused' <=> Excused
    BY <1>1 DEF Excused
<1>8. CASE sends[k].ok
  <2>1. PICK e \in PageSends :
              /\ e = [Sent("set", sends[k].arg) EXCEPT !.mine = sends[k].mine]
              /\ e.type = "set" /\ e.arg = sends[k].arg /\ e.at = "sent"
              /\ e.mine <=> sends[k].mine
      BY <1>0, <1>4, SentInItsPlace
  <2>2. sends' = Append(OtherSends(k), e) /\ UNCHANGED settingsScreen
      BY <1>1, <1>8, <2>1 DEF PermissionArrives
  <2>3. e.type \in OfASwitch
      BY <2>1 DEF OfASwitch
  <2>4. /\ sends' \in Seq(PageSends)
        /\ Meets(sends', OfType("adopt")) => Meets(sends, OfType("adopt"))
        /\ SwitchesWait' /\ ControlsWait'
      BY <1>1, <1>3, <2>1, <2>2, <2>3, GoesOnAs
  <2>5. SettingsPageTypes' /\ VaultsKept'
      BY <1>0, <1>1, <2>2, <2>4 DEF SettingsPageTypes, VaultsKept
  <2>6. SwitchesFollow'
    <3> SUFFICES ASSUME ~Excused' PROVE SwitchesFollow'
        BY DEF SwitchesFollow
    <3> DEFINE rest == OtherSends(k)
    <3>1. /\ rest \in Seq(PageSends)
          /\ \A i \in DOMAIN rest : \E n \in DOMAIN sends : rest[i] = sends[n]
          /\ \A H : /\ Meets(rest, H) => Meets(sends, H)
                    /\ sends[k] \notin H /\ Meets(sends, H) => Meets(rest, H)
        BY <1>2, RemoveMeets DEF OtherSends
    <3>2. sends' = Append(rest, e)
        BY <2>2
    <3> HIDE DEF rest
    <3>3. /\ \A H : Meets(sends', H) <=> (Meets(rest, H) \/ e \in H)
          /\ \A j \in DOMAIN sends' : (j \in DOMAIN rest /\ sends'[j] = rest[j]) \/ sends'[j] = e
        BY <3>1, <3>2, AppendMeets
    <3>4. /\ \A s : e \in Writers(s) <=> sends[k] \in Writers(s)
          /\ e \in Foreign <=> sends[k] \in Foreign
          /\ e \notin Failed
      <4>1. \A s : e \in Writers(s) <=> sends[k] \in Writers(s)
          BY <1>1, <1>2, <2>1 DEF Writers
      <4>2. e \in Foreign <=> sends[k] \in Foreign
          BY <1>1, <1>2, <2>1 DEF Foreign
      <4>3. e \notin Failed
          BY <2>1 DEF Failed
      <4>4. QED
          BY <4>1, <4>2, <4>3
    <3>5. \A H : sends[k] \in H => Meets(sends, H)
        BY DEF Meets
    <3>6. /\ Meets(sends', Foreign) => Meets(sends, Foreign)
          /\ Meets(sends', Failed) => Meets(sends, Failed)
          /\ \A s : Meets(sends, Writers(s)) => Meets(sends', Writers(s))
          /\ \A s : Meets(sends, Stored(s)) => Meets(sends', Stored(s))
        BY <1>6, <3>1, <3>3, <3>4, <3>5
    <3>7. ASSUME settingsScreen # NoScreen, NEW s \in Switches, NEW j \in DOMAIN sends', sends'[j] \in Writers(s)
          PROVE  Follows(sends'[j], settingsScreen, prefs)
      <4>1. CASE sends'[j] = e
        <5>1. Follows(sends[k], settingsScreen, prefs)
            BY <1>0, <1>7, <3>4, <3>7, <4>1 DEF SwitchesFollow
        <5>2. QED
            BY <1>1, <2>1, <4>1, <5>1 DEF Follows
      <4>2. CASE j \in DOMAIN rest /\ sends'[j] = rest[j]
          BY <1>0, <1>7, <3>1, <3>7, <4>2 DEF SwitchesFollow
      <4>3. QED
          BY <3>3, <4>1, <4>2
    <3>8. QED
        BY <1>0, <1>1, <1>7, <2>2, <3>6, <3>7 DEF SwitchesFollow
  <2>7. QED
      BY <2>4, <2>5, <2>6 DEF SettingsPageInv
<1>9. CASE ~sends[k].ok
  <2>1. /\ sends' = OtherSends(k)
        /\ settingsScreen' = IF Shown(k) THEN SwitchSettled(t, FALSE) ELSE settingsScreen
      BY <1>1, <1>9 DEF PermissionArrives
  <2>2. /\ sends' \in Seq(PageSends) /\ settingsScreen' \in ScreenRecords \cup {NoScreen}
        /\ SwitchesWait' /\ ControlsWait'
      BY <1>1, <1>3, <2>1, SwitchIsFreed
  <2>3. Meets(sends', OfType("adopt")) => Meets(sends, OfType("adopt"))
      BY <1>3, <2>1, HeardOf
  <2>4. SettingsPageTypes' /\ VaultsKept'
      BY <1>0, <1>1, <2>2, <2>3 DEF SettingsPageTypes, VaultsKept
  <2>5. SwitchesFollow'
    <3> SUFFICES ASSUME ~Excused' PROVE SwitchesFollow'
        BY DEF SwitchesFollow
    <3>1. WritersWithout(k, sends') /\ Left(k, sends')
        BY <1>0, <2>1, WritersAreWithout DEF Left
    <3>2. ~Meets(sends', Failed) /\ \A s \in Switches : Meets(sends', Stored(s)) \/ knownPrefs'[s] = prefs'[s]
      <4>1. \A s : Meets(sends, Stored(s)) => Meets(sends', Stored(s))
          BY <1>0, <1>6, <3>1, SendLeaves
      <4>2. QED
          BY <1>0, <1>1, <1>7, <3>1, <4>1 DEF SwitchesFollow, WritersWithout
    <3>3. CASE settingsScreen = NoScreen
        BY <2>1, <3>2, <3>3 DEF SwitchesFollow, Shown
    <3>4. CASE settingsScreen # NoScreen
      <4>1. settingsScreen \in ScreenRecords
          BY <1>0, <3>4 DEF SettingsPageTypes
      <4>2. sends[k].mine
          BY <1>0, <1>6, <1>7, <3>4 DEF SwitchesFollow, Meets
      <4>3. settingsScreen' = SwitchSettled(t, FALSE)
          BY <2>1, <3>4, <4>2 DEF Shown
      <4>4. /\ \A s \in Switches : s # t => SwitchSettled(t, FALSE).boxes[s] = settingsScreen.boxes[s]
            /\ SwitchSettled(t, FALSE).boxes[t].checked <=> ~settingsScreen.boxes[t].checked
          BY <1>5, <4>1, SettledSwitch
      <4>5. Follows(sends[k], settingsScreen, prefs)
          BY <1>0, <1>5, <1>6, <1>7, <3>4, <4>2 DEF SwitchesFollow
      <4>6. SwitchSettled(t, FALSE).boxes[t].checked \in BOOLEAN /\ settingsScreen.boxes[t].checked \in BOOLEAN /\ prefs[t] \in BOOLEAN
            /\ sends[k].arg.wanted \in BOOLEAN
        <5>1. SwitchSettled(t, FALSE) \in ScreenRecords
            BY <1>5, <4>1, SettledSwitch
        <5>2. \A screen \in ScreenRecords : screen.boxes[t].checked \in BOOLEAN
            BY <1>5 DEF ScreenRecords
        <5>3. QED
            BY <1>0, <1>4, <1>5, <4>1, <5>1, <5>2 DEF SettingsPageTypes, SwitchArgs
      <4>7. settingsScreen'.boxes[t].checked = prefs[t]
          BY <1>1, <4>3, <4>4, <4>5, <4>6 DEF Follows
      <4>8. \A s \in Switches :
              \/ settingsScreen'.boxes[s].checked = settingsScreen.boxes[s].checked /\ sends[k] \notin Writers(s)
              \/ settingsScreen'.boxes[s].checked = prefs[s] /\ sends[k] \in Writers(s)
          BY <1>6, <4>2, <4>3, <4>4, <4>7
      <4>9. /\ ~Meets(sends', Foreign) /\ ~Meets(sends', Failed)
            /\ \A s \in Switches :
                /\ \A j \in DOMAIN sends' : sends'[j] \in Writers(s) => Follows(sends'[j], settingsScreen', prefs')
                /\ Meets(sends', Writers(s)) \/ settingsScreen'.boxes[s].checked = prefs'[s]
          BY <1>1, <1>7, <3>1, <3>4, <4>8, FollowsOn
      <4>10. QED
          BY <3>2, <4>9 DEF SwitchesFollow
    <3>5. QED
        BY <3>3, <3>4
  <2>6. QED
      BY <2>2, <2>4, <2>5 DEF SettingsPageInv
<1>10. QED
    BY <1>8, <1>9

LEMMA SettingArrivesStep ==
    ASSUME SettingsPageInv, NEW k \in DOMAIN sends, SettingArrives(k)
    PROVE  SettingsPageInv'
<1> DEFINE arg == sends[k].arg
           stored == sends[k].ok
           offers == stored /\ arg.switch = "stripTrackingParams" /\ arg.wanted
           t == sends[k].arg.switch
<1>0. SettingsPageTypes /\ VaultsKept /\ SwitchesFollow
    BY DEF SettingsPageInv
<1>1. /\ sends[k].type = "set" /\ sends[k].at = "answered"
      /\ knownPrefs' = (IF stored THEN sends[k].answer ELSE knownPrefs)
      /\ pageRecord' = [pageRecord EXCEPT !.crossed = @ \/ (stored /\ sends[k].answer # prefs)]
      /\ sends' = (IF offers THEN Append(OtherSends(k), [Sent("count", arg) EXCEPT !.mine = sends[k].mine]) ELSE OtherSends(k))
      /\ settingsScreen' = IF ~offers /\ Shown(k) THEN SwitchSettled(t, stored) ELSE settingsScreen
      /\ UNCHANGED <<prefs, permitted, localVault, remoteVault>>
    BY DEF SettingArrives, Arrived
<1>2. sends \in Seq(PageSends) /\ sends[k] \in PageSends /\ pageRecord \in PageRecords
    BY <1>0, SendsAreSends DEF SettingsPageTypes
<1>3. sends[k].type \in OfASwitch
    BY <1>1 DEF OfASwitch
<1>4. /\ sends[k].arg \in SwitchArgs /\ sends[k].mine \in BOOLEAN /\ sends[k].ok \in BOOLEAN
      /\ sends[k].ok => sends[k].answer \in [Switches -> BOOLEAN]
    BY <1>1, <1>2, <1>3 DEF PageSends
<1>5. t \in Switches
    BY <1>4 DEF SwitchArgs
<1>6. /\ \A s : sends[k] \in Writers(s) <=> (sends[k].mine /\ s = t)
      /\ sends[k] \in Foreign <=> ~sends[k].mine
      /\ sends[k] \in Failed <=> ~sends[k].ok
    BY <1>1, <1>2 DEF Writers, Foreign, Failed
<1>7. /\ pageRecord' \in PageRecords
      /\ \A part \in {"asked", "adopted", "destroyed", "elsewhere", "lost", "rebuilt"} : pageRecord'[part] = pageRecord[part]
      /\ pageRecord'.crossed <=> (pageRecord.crossed \/ (stored /\ sends[k].answer # prefs))
  <2> DEFINE over == stored /\ sends[k].answer # prefs
  <2>1. pageRecord' = [pageRecord EXCEPT !.crossed = @ \/ over] /\ over \in BOOLEAN
      BY <1>1
  <2> HIDE DEF over
  <2>2. /\ pageRecord' \in PageRecords
        /\ \A part \in {"asked", "adopted", "destroyed", "elsewhere", "lost", "rebuilt"} : pageRecord'[part] = pageRecord[part]
        /\ pageRecord'.crossed <=> (pageRecord.crossed \/ over)
      BY <1>2, <2>1 DEF PageRecords
  <2>3. QED
      BY <2>2 DEF over
<1>8. ~Excused' => /\ ~Excused
                   /\ stored => sends[k].answer = prefs
    BY <1>7 DEF Excused
<1>9. ~Excused => stored
    BY <1>0, <1>6 DEF SwitchesFollow, Meets
<1>10. knownPrefs' \in [Switches -> BOOLEAN] /\ (~Excused' => knownPrefs' = prefs)
    BY <1>0, <1>1, <1>4, <1>8, <1>9 DEF SettingsPageTypes
(* The queue, the controls and who waits.                                  *)
<1>11. /\ sends' \in Seq(PageSends) /\ settingsScreen' \in ScreenRecords \cup {NoScreen}
       /\ SwitchesWait' /\ ControlsWait'
       /\ Meets(sends', OfType("adopt")) => Meets(sends, OfType("adopt"))
       /\ WritersWithout(k, sends')
  <2>1. CASE offers
    <3>1. PICK e \in PageSends :
              /\ e = [Sent("count", sends[k].arg) EXCEPT !.mine = sends[k].mine]
              /\ e.type = "count" /\ e.arg = sends[k].arg /\ e.at = "sent"
              /\ e.mine <=> sends[k].mine
        BY <1>0, <1>4, <2>1, SentInItsPlace
    <3>2. sends' = Append(OtherSends(k), e) /\ UNCHANGED settingsScreen
        BY <1>1, <2>1, <3>1
    <3>3. e.type \in OfASwitch
        BY <3>1 DEF OfASwitch
    <3>4. /\ sends' \in Seq(PageSends) /\ SwitchesWait' /\ ControlsWait'
          /\ Meets(sends', OfType("adopt")) => Meets(sends, OfType("adopt"))
        BY <1>3, <1>7, <3>1, <3>2, <3>3, GoesOnAs
    <3>5. WritersWithout(k, sends')
        BY <1>0, <3>1, <3>2, WritersAreWithout
    <3>6. QED
        BY <1>0, <3>2, <3>4, <3>5 DEF SettingsPageTypes
  <2>2. CASE ~offers
    <3>1. /\ sends' = OtherSends(k)
          /\ settingsScreen' = IF Shown(k) THEN SwitchSettled(t, stored) ELSE settingsScreen
        BY <1>1, <2>2
    <3>2. /\ sends' \in Seq(PageSends) /\ settingsScreen' \in ScreenRecords \cup {NoScreen}
          /\ SwitchesWait' /\ ControlsWait'
        BY <1>3, <1>4, <1>7, <3>1, SwitchIsFreed
    <3>3. Meets(sends', OfType("adopt")) => Meets(sends, OfType("adopt"))
        BY <1>3, <3>1, HeardOf
    <3>4. WritersWithout(k, sends')
        BY <1>0, <3>1, WritersAreWithout
    <3>5. QED
        BY <3>2, <3>3, <3>4
  <2>3. QED
      BY <2>1, <2>2
<1>12. SettingsPageTypes' /\ VaultsKept'
    BY <1>0, <1>1, <1>7, <1>10, <1>11 DEF SettingsPageTypes, VaultsKept
<1>13. SwitchesFollow'
  <2> SUFFICES ASSUME ~Excused' PROVE SwitchesFollow'
      BY DEF SwitchesFollow
  <2>1. ~Excused /\ stored /\ knownPrefs' = prefs
      BY <1>8, <1>9, <1>10
  <2>2. ~Meets(sends', Failed)
      BY <1>0, <1>11, <2>1 DEF SwitchesFollow, WritersWithout
  <2>3. CASE settingsScreen = NoScreen
      BY <1>1, <2>1, <2>2, <2>3 DEF SwitchesFollow, Shown
  <2>4. CASE settingsScreen # NoScreen
    <3>1. settingsScreen \in ScreenRecords
        BY <1>0, <2>4 DEF SettingsPageTypes
    <3>2. sends[k].mine
        BY <1>0, <1>6, <2>1, <2>4 DEF SwitchesFollow, Meets
    <3>3. settingsScreen' = SwitchSettled(t, TRUE) \/ settingsScreen' = settingsScreen
      <4>1. stored = TRUE
          BY <1>4, <2>1
      <4>2. QED
          BY <1>1, <4>1
    <3>4. /\ \A s \in Switches : s # t => SwitchSettled(t, TRUE).boxes[s] = settingsScreen.boxes[s]
          /\ SwitchSettled(t, TRUE).boxes[t].checked <=> settingsScreen.boxes[t].checked
        BY <1>5, <3>1, SettledSwitch
    <3>5. SwitchSettled(t, TRUE).boxes[t].checked \in BOOLEAN /\ settingsScreen.boxes[t].checked \in BOOLEAN
      <4>1. SwitchSettled(t, TRUE) \in ScreenRecords
          BY <1>5, <3>1, SettledSwitch
      <4>2. \A screen \in ScreenRecords : screen.boxes[t].checked \in BOOLEAN
          BY <1>5 DEF ScreenRecords
      <4>3. QED
          BY <3>1, <4>1, <4>2
    <3>6. \A s \in Switches : settingsScreen'.boxes[s].checked = settingsScreen.boxes[s].checked
        BY <3>3, <3>4, <3>5
    <3>7. settingsScreen.boxes[t].checked = prefs[t]
      <4>1. Follows(sends[k], settingsScreen, prefs)
          BY <1>0, <1>5, <1>6, <2>1, <2>4, <3>2 DEF SwitchesFollow
      <4>2. QED
          BY <1>1, <4>1 DEF Follows
    <3>8. \A s \in Switches :
              \/ settingsScreen'.boxes[s].checked = settingsScreen.boxes[s].checked /\ sends[k] \notin Writers(s)
              \/ settingsScreen'.boxes[s].checked = prefs[s] /\ sends[k] \in Writers(s)
        BY <1>6, <3>2, <3>6, <3>7
    <3>9. /\ ~Meets(sends', Foreign) /\ ~Meets(sends', Failed)
          /\ \A s \in Switches :
                /\ \A j \in DOMAIN sends' : sends'[j] \in Writers(s) => Follows(sends'[j], settingsScreen', prefs')
                /\ Meets(sends', Writers(s)) \/ settingsScreen'.boxes[s].checked = prefs'[s]
        BY <1>1, <1>11, <2>1, <2>4, <3>8, FollowsOn
    <3>10. QED
        BY <1>1, <2>1, <3>9 DEF SwitchesFollow
  <2>5. QED
      BY <2>3, <2>4
<1>14. QED
    BY <1>11, <1>12, <1>13 DEF SettingsPageInv

LEMMA CleanupArrivesStep ==
    ASSUME SettingsPageInv, NEW k \in DOMAIN sends, CleanupArrives(k)
    PROVE  SettingsPageInv'
<1> DEFINE strip == "stripTrackingParams"
<1>0. SettingsPageTypes /\ VaultsKept /\ SwitchesFollow /\ SwitchesWait /\ ControlsWait
    BY DEF SettingsPageInv
<1>1. /\ sends[k].type \in {"count", "strip"} /\ sends' = OtherSends(k)
      /\ Shown(k) => settingsScreen.dialog = "none"
      /\ settingsScreen' = IF ~Shown(k) THEN settingsScreen
               ELSE IF sends[k].type = "count" /\ sends[k].ok
                    THEN [settingsScreen EXCEPT !.dialog = "cleanup"]
                    ELSE SwitchSettled(strip, TRUE)
      /\ UNCHANGED <<prefs, permitted, localVault, remoteVault, knownPrefs, pageRecord>>
    BY DEF CleanupArrives, Arrived
<1>2. sends \in Seq(PageSends) /\ sends[k] \in PageSends
    BY <1>0, SendsAreSends
<1>3. sends[k].type \in OfASwitch
    BY <1>1 DEF OfASwitch
<1>4. sends[k].arg.switch = strip /\ sends[k].arg \in SwitchArgs
    BY <1>1, <1>2, <1>3 DEF PageSends
<1>5. strip \in Switches
    BY <1>4 DEF SwitchArgs
<1>6. /\ \A s : sends[k] \notin Writers(s) /\ sends[k] \notin Stored(s)
      /\ sends[k].mine => sends[k] \in Holding(strip)
    BY <1>1, <1>2, <1>3, <1>4 DEF Writers, Stored, Holding
<1>7. Excused' <=> Excused
    BY <1>1 DEF Excused
<1>8. Left(k, sends') /\ WritersWithout(k, sends')
    BY <1>0, <1>1, WritersAreWithout DEF Left
<1>9. /\ sends' \in Seq(PageSends) /\ settingsScreen' \in ScreenRecords \cup {NoScreen}
      /\ SwitchesWait' /\ ControlsWait'
      /\ settingsScreen # NoScreen => \A s \in Switches : settingsScreen'.boxes[s].checked = settingsScreen.boxes[s].checked
      /\ settingsScreen = NoScreen => settingsScreen' = NoScreen
  <2>1. CASE Shown(k) /\ sends[k].type = "count" /\ sends[k].ok
    <3>1. settingsScreen' = [settingsScreen EXCEPT !.dialog = "cleanup"]
        BY <1>1, <2>1
    <3>2. settingsScreen # NoScreen /\ sends[k].mine /\ settingsScreen.dialog = "none"
        BY <1>1, <2>1 DEF Shown
    <3>3. settingsScreen \in ScreenRecords
        BY <1>0, <3>2 DEF SettingsPageTypes
    <3>4. /\ settingsScreen' \in ScreenRecords /\ settingsScreen'.dialog = "cleanup"
          /\ \A part \in {"boxes", "sure", "pressed", "replacing", "deciding", "typed", "erasable"} :
                 settingsScreen'[part] = settingsScreen[part]
        BY <3>1, <3>3 DEF ScreenRecords
    <3>5. /\ sends' \in Seq(PageSends) /\ OthersWaitOn(k, sends')
          /\ \A type : sends[k] \notin AwaitedBy(type) \/ type \in OfASwitch
          /\ \A s \in Switches :
               /\ MeetsOnce(sends', Holding(s))
               /\ Meets(sends', Holding(s)) <=> (Meets(sends, Holding(s)) /\ s # strip)
        BY <1>1, <1>3, <1>4, <3>2, HeardOf
    <3>6. Meets(sends, Holding(strip))
        BY <1>6, <3>2 DEF Meets
    <3>7. SwitchesWait'
        BY <1>0, <1>5, <3>2, <3>4, <3>5, <3>6 DEF SwitchesWait
    <3>8. ~settingsScreen.deciding
        BY <1>0, <3>2 DEF ControlsWait
    <3>9. \A type \in {"sync", "password", "drive", "replace", "adopt", "destroy"} : sends[k] \notin AwaitedBy(type)
        BY <3>5 DEF OfASwitch
    <3>10. \A button \in settingsScreen'.pressed : button \in settingsScreen.pressed /\ sends[k] \notin AwaitedBy(button)
        BY <3>3, <3>4, <3>9 DEF ScreenRecords
    <3>11. ControlsWait'
        BY <1>1, <3>2, <3>3, <3>4, <3>5, <3>8, <3>9, <3>10, ControlsStay
    <3>12. QED
        BY <3>2, <3>4, <3>5, <3>7, <3>11
  <2>2. CASE ~(Shown(k) /\ sends[k].type = "count" /\ sends[k].ok)
    <3>1. settingsScreen' = IF Shown(k) THEN SwitchSettled(sends[k].arg.switch, TRUE) ELSE settingsScreen
        BY <1>1, <1>4, <2>2
    <3>2. /\ sends' \in Seq(PageSends) /\ settingsScreen' \in ScreenRecords \cup {NoScreen}
          /\ SwitchesWait' /\ ControlsWait'
        BY <1>1, <1>3, <3>1, SwitchIsFreed
    <3>3. ASSUME settingsScreen # NoScreen, NEW s \in Switches
          PROVE  settingsScreen'.boxes[s].checked = settingsScreen.boxes[s].checked
      <4>1. settingsScreen \in ScreenRecords
          BY <1>0, <3>3 DEF SettingsPageTypes
      <4>2. /\ SwitchSettled(strip, TRUE) \in ScreenRecords
            /\ \A u \in Switches : u # strip => SwitchSettled(strip, TRUE).boxes[u] = settingsScreen.boxes[u]
            /\ SwitchSettled(strip, TRUE).boxes[strip].checked <=> settingsScreen.boxes[strip].checked
          BY <1>5, <4>1, SettledSwitch
      <4>3. \A screen \in ScreenRecords : screen.boxes[strip].checked \in BOOLEAN
          BY <1>5 DEF ScreenRecords
      <4>4. SwitchSettled(strip, TRUE).boxes[s].checked = settingsScreen.boxes[s].checked
          BY <4>1, <4>2, <4>3
      <4>5. QED
          BY <1>4, <3>1, <4>4
    <3>4. settingsScreen = NoScreen => settingsScreen' = NoScreen
        BY <3>1 DEF Shown
    <3>5. QED
        BY <3>2, <3>3, <3>4
  <2>3. QED
      BY <2>1, <2>2
<1>10. Meets(sends', OfType("adopt")) => Meets(sends, OfType("adopt"))
    BY <1>1, <1>3, HeardOf
<1>11. SettingsPageTypes' /\ VaultsKept'
    BY <1>0, <1>1, <1>9, <1>10 DEF SettingsPageTypes, VaultsKept
<1>12. SwitchesFollow'
  <2> SUFFICES ASSUME ~Excused' PROVE SwitchesFollow'
      BY DEF SwitchesFollow
  <2>1. ~Meets(sends', Failed) /\ \A s \in Switches : Meets(sends', Stored(s)) \/ knownPrefs'[s] = prefs'[s]
    <3>1. \A s : Meets(sends, Stored(s)) => Meets(sends', Stored(s))
        BY <1>0, <1>6, <1>8, SendLeaves
    <3>2. QED
        BY <1>0, <1>1, <1>7, <1>8, <3>1 DEF SwitchesFollow, WritersWithout
  <2>2. CASE settingsScreen = NoScreen
      BY <1>9, <2>1, <2>2 DEF SwitchesFollow
  <2>3. CASE settingsScreen # NoScreen
    <3>1. /\ ~Meets(sends', Foreign) /\ ~Meets(sends', Failed)
          /\ \A s \in Switches :
                /\ \A j \in DOMAIN sends' : sends'[j] \in Writers(s) => Follows(sends'[j], settingsScreen', prefs')
                /\ Meets(sends', Writers(s)) \/ settingsScreen'.boxes[s].checked = prefs'[s]
        BY <1>1, <1>6, <1>7, <1>8, <1>9, <2>3, FollowsOn
    <3>2. QED
        BY <2>1, <3>1 DEF SwitchesFollow
  <2>4. QED
      BY <2>2, <2>3
<1>13. QED
    BY <1>9, <1>11, <1>12 DEF SettingsPageInv

(***************************** the invariant ******************************)

LEMMA SettingsPageStarts ==
    ASSUME SettingsPageInit PROVE SettingsPageInv
<1> DEFINE e == Sent("status", "")
<1>1. /\ pageRecord = [asked |-> FALSE, adopted |-> FALSE, destroyed |-> FALSE, lost |-> FALSE,
                 elsewhere |-> FALSE, crossed |-> FALSE, rebuilt |-> FALSE]
      /\ prefs = [s \in Switches |-> FALSE] /\ permitted = FALSE
      /\ localVault = "ours" /\ remoteVault \in {"ours", "theirs"}
      /\ knownPrefs = prefs /\ settingsScreen = NoScreen
      /\ sends = <<e>>
    BY DEF SettingsPageInit
<1>2. pageRecord.asked = FALSE /\ pageRecord \in PageRecords
    BY <1>1 DEF PageRecords
<1>3. e \in [type : {"status", "sync", "password", "drive", "replace", "adopt", "destroy"} \cup OfASwitch,
             arg : {""} \cup Flags \cup SwitchArgs \cup AdoptArgs,
             at : {"sent", "removed", "fetched", "answered"}, ok : BOOLEAN,
             answer : {NoAnswer, "mismatch"} \cup [Switches -> BOOLEAN], mine : BOOLEAN, asked : BOOLEAN]
    BY <1>2 DEF Sent
<1>4. e.type = "status"
    BY DEF Sent
<1> HIDE DEF e
<1>5. e \in PageSends
    BY <1>3, <1>4 DEF PageSends, OfASwitch
<1>6. sends \in Seq(PageSends) /\ DOMAIN sends = {1} /\ sends[1] = e
    BY <1>1, <1>5
<1>7. SettingsPageTypes
    BY <1>1, <1>2, <1>6 DEF SettingsPageTypes, Vaults
<1>8. ~Meets(sends, OfType("adopt")) /\ ~Meets(sends, Failed)
    BY <1>4, <1>6 DEF Meets, OfType, Failed
<1>9. VaultsKept /\ ControlsWait /\ SwitchesWait /\ SwitchesFollow
    BY <1>1, <1>8 DEF VaultsKept, ControlsWait, SwitchesWait, SwitchesFollow
<1>10. QED
    BY <1>7, <1>9 DEF SettingsPageInv

LEMMA SettingsPageSteps ==
    ASSUME SettingsPageInv, [SettingsPageNext]_settingsPage PROVE SettingsPageInv'
<1>1. CASE UNCHANGED settingsPage
    BY <1>1 DEF settingsPage, SettingsPageInv, SettingsPageTypes, VaultsKept, ControlsWait, SwitchesWait, SwitchesFollow,
                Excused, Follows
<1>2. ASSUME NEW s \in Switches, Toggles(s) \/ ChangesElsewhere(s) PROVE SettingsPageInv'
    BY <1>2, TogglesStep, ChangesElsewhereStep
<1>3. ASSUME NEW button \in {"sync", "password", "drive"}, Presses(button) PROVE SettingsPageInv'
    BY <1>3, PressesStep
<1>4. ASSUME NEW password \in {"right", "wrong"}, Confirms(password) PROVE SettingsPageInv'
    BY <1>4, ConfirmsStep
<1>5. ASSUME NEW complete \in BOOLEAN, TypesPhrase(complete) PROVE SettingsPageInv'
    BY <1>5, TypesPhraseStep
<1>6. CASE \/ PressesReplace \/ OpensAdoption \/ Dismisses \/ TicksRemote
           \/ PressesDestroy \/ LeavesSettings \/ OpensSettings
    BY <1>6, PressesReplaceStep, OpensAdoptionStep, DismissesStep, TicksRemoteStep, PressesDestroyStep,
       LeavesSettingsStep, OpensSettingsStep
<1>7. ASSUME NEW k \in DOMAIN sends,
             \/ \E yes \in BOOLEAN : Grants(k, yes)
             \/ ServesSimple(k) \/ Pushes(k) \/ RemovesRemote(k) \/ FetchesRemote(k) \/ AdoptsFetched(k)
             \/ ConnectsDrive(k) \/ DestroysRemote(k) \/ DestroysVault(k) \/ LosesSend(k)
      PROVE  SettingsPageInv'
    BY <1>7, GrantsStep, ServesSimpleStep, PushesStep, RemovesRemoteStep, FetchesRemoteStep, AdoptsFetchedStep,
       ConnectsDriveStep, DestroysRemoteStep, DestroysVaultStep, LosesSendStep
<1>8. ASSUME NEW k \in DOMAIN sends,
             \/ PermissionArrives(k) \/ SettingArrives(k) \/ CleanupArrives(k) \/ ButtonArrives(k) \/ ReplaceArrives(k)
             \/ AdoptionArrives(k) \/ DestructionArrives(k) \/ ScreenArrives(k)
      PROVE  SettingsPageInv'
    BY <1>8, PermissionArrivesStep, SettingArrivesStep, CleanupArrivesStep, ButtonArrivesStep, ReplaceArrivesStep,
       AdoptionArrivesStep, DestructionArrivesStep, ScreenArrivesStep
<1>9. QED
    BY <1>1, <1>2, <1>3, <1>4, <1>5, <1>6, <1>7, <1>8 DEF SettingsPageNext

LEMMA SettingsPageInvShows ==
    ASSUME SettingsPageInv PROVE SettingsPageHolds
<1>0. SettingsPageTypes /\ VaultsKept /\ ControlsWait /\ SwitchesWait /\ SwitchesFollow
    BY DEF SettingsPageInv
<1>1. sends = <<>> => \A H : ~Meets(sends, H)
    BY DEF Meets
<1>2. SwitchesShowTheSettings
    BY <1>0, <1>1 DEF SwitchesShowTheSettings, SwitchesFollow, Excused
<1>3. ErasingIsAskedFor
  <2>1. \A x \in PageSends : x.type = "destroy" => x.asked
      BY DEF PageSends
  <2>2. QED
      BY <1>0, <2>1, SendsAreSends DEF ErasingIsAskedFor
<1>4. OneVaultSurvives
    BY <1>0 DEF OneVaultSurvives, VaultsKept
<1>5. NothingStaysDead
  <2> SUFFICES ASSUME sends = <<>>, settingsScreen # NoScreen, settingsScreen.dialog = "none"
               PROVE  /\ settingsScreen.pressed = {} /\ ~settingsScreen.replacing /\ ~settingsScreen.deciding
                      /\ settingsScreen.typed => settingsScreen.erasable
                      /\ \A s \in Switches : ~settingsScreen.boxes[s].busy
      BY DEF NothingStaysDead
  <2>1. settingsScreen.pressed = {}
      BY <1>0, <1>1 DEF ControlsWait
  <2>2. QED
      BY <1>0, <1>1, <2>1 DEF ControlsWait, SwitchesWait
<1>6. QED
    BY <1>2, <1>3, <1>4, <1>5 DEF SettingsPageHolds

(* On the settings screen every switch, with nothing under way, stands as   *)
(* it is stored; nothing is erased that was not asked for twice; neither    *)
(* vault is lost unless the other was chosen; and no control stays dead.    *)
THEOREM SettingsPageIsSound == SettingsPageInit /\ [][SettingsPageNext]_settingsPage => []SettingsPageHolds
<1>1. SettingsPageInit => SettingsPageInv
    BY SettingsPageStarts
<1>2. SettingsPageInv /\ [SettingsPageNext]_settingsPage => SettingsPageInv'
    BY SettingsPageSteps
<1>3. SettingsPageInv => SettingsPageHolds
    BY SettingsPageInvShows
<1>4. QED
    BY <1>1, <1>2, <1>3, PTL
-----------------------------------------------------------------------------
(***************************** the popup ***********************************)

FlightTypes ==
    {"GET_STATE", "LIST_ITEMS", "LOOKUP_ACTIVE_TAB", "ADD_ACTIVE_TAB", "DELETE_ITEMS", "RESTORE_ITEMS", "OPEN_ITEM",
     "REFRESH_THUMB", "SET_SETTINGS", "LOCK", "UNLOCK", "CREATE_VAULT"}
Standings == {"none", "adoptable", "locked", "open"}
AnItem == Bookmarks \cup {NoBookmark}

(* A call as it is on its way: the state is answered with a state.          *)
FlightRecords ==
    {x \in [type : FlightTypes, about : AnItem, filtered : BOOLEAN, mine : BOOLEAN, latest : BOOLEAN,
            answer : {NoCall} \cup Replies] :
        x.type = "GET_STATE" => x.answer = NoCall \/ x.answer.code \in Standings \cup {"ERROR"}}

PopupRecords ==
    [screen : {"loading", "create", "adopt", "unlock", "error", "settings", "vault", "closed"}, rows : SUBSET Bookmarks,
     notice : {"none", "danger", "saved", "info"}, about : AnItem, filtered : BOOLEAN, timer : BOOLEAN, toast : AnItem,
     dialog : AnItem, dialogMine : BOOLEAN, settings : BOOLEAN]

PopupTypes ==
    /\ standing \in Standings
    /\ saved \in [Bookmarks -> {"never", "live", "gone"}]
    /\ tab \in AnItem
    /\ popup \in PopupRecords
    /\ flights \in Seq(FlightRecords)
    /\ news \subseteq {"SESSION_LOCKED", "SESSION_UNLOCKED", "SETTINGS_CHANGED", "VAULT_CHANGED", "PANIC"}
    /\ astray \in BOOLEAN

(* Calls by what their answer will do.                                     *)
StateCalls == {x \in FlightRecords : x.type = "GET_STATE"}
Current == {x \in FlightRecords : x.answer = NoCall \/ x.answer.code = standing}
Closing == {x \in StateCalls : x.answer = NoCall \/ x.answer.code # "open"}
Telling ==
    {x \in FlightRecords :
        /\ x.mine
        /\ \/ x.type = "DELETE_ITEMS"
           \/ x.type = "LIST_ITEMS" /\ (x.about # NoBookmark \/ (x.answer # NoCall /\ x.answer.code # "ERROR"))}
Changes == {"ADD_ACTIVE_TAB", "DELETE_ITEMS", "RESTORE_ITEMS"}
Strays == {x \in FlightRecords : x.type \in Changes /\ ~x.mine}
Reloading ==
    {x \in FlightRecords : x.mine /\ x.type \in Changes /\ x.answer # NoCall /\ x.answer.code \in {"added", "OK"}}
Counting == {x \in FlightRecords : x.type = "LIST_ITEMS" /\ x.mine /\ x.latest}
Good ==
    {x \in Counting :
        /\ x.filtered <=> popup.filtered
        /\ x.answer = NoCall \/ (x.answer.code # "ERROR" /\ x.answer.rows = Finds(popup.filtered))}

RowsAreFound == popup.rows = Finds(popup.filtered)

(* A repaint is on its way: somebody locked, unlocked or changed a setting. *)
Repainting == \E b \in news : b \in Repaints \/ b = "PANIC"

(* The change a call makes is the change of the screen that is shown.       *)
HandsOwn ==
    ~astray => /\ ~Meets(flights, Strays)
               /\ popup.dialog # NoBookmark => popup.dialogMine

ScreenFollows ==
    (popup.screen # "closed" /\ ~astray) =>
        \/ Repainting
        \/ EndsOn(flights, StateCalls, Current)
        \/ ~Meets(flights, StateCalls) /\ popup.screen \in Screens[standing]

RowsFollow ==
    (popup.screen = "vault" /\ ~astray /\ standing = "open") =>
        \/ Repainting
        \/ Meets(flights, StateCalls)
        \/ Meets(flights, Reloading)
        \/ popup.timer
        \/ ~Meets(flights, Counting \ Good) /\ (Meets(flights, Good) \/ RowsAreFound)

NothingShown ==
    (popup.screen # "closed" /\ standing # "open") =>
        \/ Repainting
        \/ Meets(flights, Closing)
        \/ /\ popup.rows = {} /\ popup.toast = NoBookmark
           /\ popup.dialog # NoBookmark => ~popup.dialogMine
           /\ ~Meets(flights, Telling)

PopupInv == PopupTypes /\ HandsOwn /\ ScreenFollows /\ RowsFollow /\ NothingShown

(***************************** calls **************************************)

LEMMA CallsAreCalls ==
    PopupTypes => flights \in Seq(FlightRecords) /\ \A k \in DOMAIN flights : flights[k] \in FlightRecords
  BY DEF PopupTypes

LEMMA AskIsACall ==
    ASSUME NEW type \in FlightTypes, NEW about \in AnItem, NEW filtered \in BOOLEAN
    PROVE  /\ Ask(type, about, filtered) \in FlightRecords
           /\ Ask(type, about, filtered).type = type /\ Ask(type, about, filtered).about = about
           /\ Ask(type, about, filtered).filtered <=> filtered
           /\ Ask(type, about, filtered).mine /\ Ask(type, about, filtered).latest
           /\ Ask(type, about, filtered).answer = NoCall
<1> DEFINE e == Ask(type, about, filtered)
<1>1. /\ e.type = type /\ e.about = about /\ (e.filtered <=> filtered) /\ e.answer = NoCall
    BY DEF Ask
<1>2. e.mine /\ e.latest
    BY DEF Ask
<1>3. e \in [type : FlightTypes, about : AnItem, filtered : BOOLEAN, mine : BOOLEAN, latest : BOOLEAN,
             answer : {NoCall} \cup Replies]
    BY DEF Ask
<1> HIDE DEF e
<1>4. e \in FlightRecords
    BY <1>1, <1>3 DEF FlightRecords
<1>5. QED
    BY <1>1, <1>2, <1>4 DEF e

(* A call that is answered.                                                *)
LEMMA CallAnswered ==
    ASSUME NEW x \in FlightRecords, NEW reply \in Replies,
           x.type = "GET_STATE" => reply.code \in Standings \cup {"ERROR"}
    PROVE  /\ [x EXCEPT !.answer = reply] \in FlightRecords
           /\ [x EXCEPT !.answer = reply].answer = reply
           /\ [x EXCEPT !.answer = reply].type = x.type
           /\ [x EXCEPT !.answer = reply].about = x.about
           /\ [x EXCEPT !.answer = reply].filtered = x.filtered
           /\ [x EXCEPT !.answer = reply].mine = x.mine
           /\ [x EXCEPT !.answer = reply].latest = x.latest
<1> DEFINE e == [x EXCEPT !.answer = reply]
<1>1. e.answer = reply
    BY DEF FlightRecords
<1>2. /\ e.type = x.type
      /\ e.about = x.about
      /\ e.filtered = x.filtered
      /\ e.mine = x.mine
      /\ e.latest = x.latest
    BY DEF FlightRecords
<1>3. e \in [type : FlightTypes, about : AnItem, filtered : BOOLEAN, mine : BOOLEAN, latest : BOOLEAN,
             answer : {NoCall} \cup Replies]
    BY DEF FlightRecords
<1> HIDE DEF e
<1>4. e \in FlightRecords
    BY <1>1, <1>2, <1>3 DEF FlightRecords
<1>5. QED
    BY <1>1, <1>2, <1>4 DEF e

(* A call that is no longer the screen's, or no longer the latest.          *)
LEMMA CallUnmarked ==
    ASSUME NEW x \in FlightRecords
    PROVE  /\ [x EXCEPT !.mine = FALSE] \in FlightRecords
           /\ ~[x EXCEPT !.mine = FALSE].mine
           /\ [x EXCEPT !.mine = FALSE].type = x.type
           /\ [x EXCEPT !.mine = FALSE].about = x.about
           /\ [x EXCEPT !.mine = FALSE].filtered = x.filtered
           /\ [x EXCEPT !.mine = FALSE].latest = x.latest
           /\ [x EXCEPT !.mine = FALSE].answer = x.answer
           /\ [x EXCEPT !.latest = FALSE] \in FlightRecords
           /\ ~[x EXCEPT !.latest = FALSE].latest
           /\ [x EXCEPT !.latest = FALSE].type = x.type
           /\ [x EXCEPT !.latest = FALSE].about = x.about
           /\ [x EXCEPT !.latest = FALSE].filtered = x.filtered
           /\ [x EXCEPT !.latest = FALSE].mine = x.mine
           /\ [x EXCEPT !.latest = FALSE].answer = x.answer
<1>1. [x EXCEPT !.mine = FALSE] \in FlightRecords
    BY DEF FlightRecords
<1>2. ~[x EXCEPT !.mine = FALSE].mine
    BY DEF FlightRecords
<1>3. /\ [x EXCEPT !.mine = FALSE].type = x.type
      /\ [x EXCEPT !.mine = FALSE].about = x.about
      /\ [x EXCEPT !.mine = FALSE].filtered = x.filtered
      /\ [x EXCEPT !.mine = FALSE].latest = x.latest
      /\ [x EXCEPT !.mine = FALSE].answer = x.answer
    BY DEF FlightRecords
<1>4. [x EXCEPT !.latest = FALSE] \in FlightRecords
    BY DEF FlightRecords
<1>5. ~[x EXCEPT !.latest = FALSE].latest
    BY DEF FlightRecords
<1>6. /\ [x EXCEPT !.latest = FALSE].type = x.type
      /\ [x EXCEPT !.latest = FALSE].about = x.about
      /\ [x EXCEPT !.latest = FALSE].filtered = x.filtered
      /\ [x EXCEPT !.latest = FALSE].mine = x.mine
      /\ [x EXCEPT !.latest = FALSE].answer = x.answer
    BY DEF FlightRecords
<1>7. QED
    BY <1>1, <1>2, <1>3, <1>4, <1>5, <1>6

LEMMA DetachedCalls ==
    ASSUME NEW q \in Seq(FlightRecords)
    PROVE  /\ Detached(q) \in Seq(FlightRecords)
           /\ Meets(Detached(q), StateCalls) => Meets(q, StateCalls)
           /\ EndsOn(q, StateCalls, Current) => EndsOn(Detached(q), StateCalls, Current)
           /\ ~Meets(Detached(q), Telling) /\ ~Meets(Detached(q), Counting)
           /\ Meets(Detached(q), Strays) => \E k \in DOMAIN q : q[k].type \in Changes
<1> DEFINE r == Detached(q)
<1>1. DOMAIN r = DOMAIN q /\ \A k \in DOMAIN q : r[k] = [q[k] EXCEPT !.mine = FALSE]
    BY DEF Detached
<1>2. DOMAIN q = 1 .. Len(q) /\ Len(q) \in Nat /\ \A k \in DOMAIN q : q[k] \in FlightRecords
    OBVIOUS
<1>3. \A k \in DOMAIN q : /\ r[k] \in FlightRecords /\ ~r[k].mine
                          /\ r[k].type = q[k].type /\ r[k].about = q[k].about /\ r[k].answer = q[k].answer
  <2> TAKE k \in DOMAIN q
  <2> DEFINE x == q[k]
  <2>1. x \in FlightRecords /\ r[k] = [x EXCEPT !.mine = FALSE]
      BY <1>1, <1>2
  <2> HIDE DEF x, r
  <2>2. /\ [x EXCEPT !.mine = FALSE] \in FlightRecords /\ ~[x EXCEPT !.mine = FALSE].mine
        /\ [x EXCEPT !.mine = FALSE].type = x.type /\ [x EXCEPT !.mine = FALSE].about = x.about
        /\ [x EXCEPT !.mine = FALSE].answer = x.answer
      BY <2>1, CallUnmarked
  <2>3. QED
      BY <2>1, <2>2 DEF x
<1>4. r = [k \in 1 .. Len(q) |-> r[k]]
    BY <1>2 DEF Detached
<1> HIDE DEF r
<1>5. r \in Seq(FlightRecords)
    BY <1>1, <1>2, <1>3, <1>4
<1>6. \A k \in DOMAIN q : (r[k] \in StateCalls <=> q[k] \in StateCalls) /\ (r[k] \in Current <=> q[k] \in Current)
    BY <1>2, <1>3 DEF StateCalls, Current
<1>7. Meets(r, StateCalls) => Meets(q, StateCalls)
    BY <1>1, <1>6 DEF Meets
<1>8. EndsOn(q, StateCalls, Current) => EndsOn(r, StateCalls, Current)
    BY <1>1, <1>6, EndsOver
<1>9. ~Meets(r, Telling) /\ ~Meets(r, Counting)
    BY <1>1, <1>3 DEF Meets, Telling, Counting
<1>10. Meets(r, Strays) => \E k \in DOMAIN q : q[k].type \in Changes
    BY <1>1, <1>3 DEF Meets, Strays
<1>11. QED
    BY <1>5, <1>7, <1>8, <1>9, <1>10 DEF r

(* A reload() just asked for, with the filter as it is.                    *)
JustAsked(filtered) == {x \in Counting : (x.filtered <=> filtered) /\ x.answer = NoCall}

LEMMA ReloadCalls ==
    ASSUME NEW q \in Seq(FlightRecords), NEW about \in AnItem, NEW filtered \in BOOLEAN
    PROVE  /\ Reload(q, about, filtered) \in Seq(FlightRecords)
           /\ Meets(Reload(q, about, filtered), StateCalls) <=> Meets(q, StateCalls)
           /\ EndsOn(q, StateCalls, Current) => EndsOn(Reload(q, about, filtered), StateCalls, Current)
           /\ Meets(q, Closing) => Meets(Reload(q, about, filtered), Closing)
           /\ Meets(Reload(q, about, filtered), Strays) => Meets(q, Strays)
           /\ Meets(Reload(q, about, filtered), Telling) => Meets(q, Telling) \/ about # NoBookmark
           /\ Meets(Reload(q, about, filtered), JustAsked(filtered))
           /\ ~Meets(Reload(q, about, filtered), Counting \ JustAsked(filtered))
<1> DEFINE r == [k \in DOMAIN q |-> IF q[k].type = "LIST_ITEMS" THEN [q[k] EXCEPT !.latest = FALSE] ELSE q[k]]
           e == Ask("LIST_ITEMS", about, filtered)
<1>1. DOMAIN q = 1 .. Len(q) /\ Len(q) \in Nat /\ \A k \in DOMAIN q : q[k] \in FlightRecords
    OBVIOUS
<1>2. Reload(q, about, filtered) = Append(r, e)
    BY DEF Reload
<1>3. e \in FlightRecords /\ e.type = "LIST_ITEMS" /\ e.about = about /\ (e.filtered <=> filtered)
      /\ e.mine /\ e.latest /\ e.answer = NoCall
    BY AskIsACall DEF FlightTypes
<1>4. \A k \in DOMAIN q : r[k] = IF q[k].type = "LIST_ITEMS" THEN [q[k] EXCEPT !.latest = FALSE] ELSE q[k]
    OBVIOUS
<1>5. DOMAIN r = DOMAIN q /\ r = [k \in 1 .. Len(q) |-> r[k]]
    BY <1>1
<1> HIDE DEF r, e
<1>6. \A k \in DOMAIN q :
          /\ r[k] \in FlightRecords /\ r[k].type = q[k].type /\ r[k].about = q[k].about
          /\ r[k].answer = q[k].answer /\ r[k].mine = q[k].mine
          /\ q[k].type = "LIST_ITEMS" => ~r[k].latest
  <2> TAKE k \in DOMAIN q
  <2> DEFINE x == q[k]
  <2>1. x \in FlightRecords /\ r[k] = IF x.type = "LIST_ITEMS" THEN [x EXCEPT !.latest = FALSE] ELSE x
      BY <1>1, <1>4
  <2> HIDE DEF x
  <2>2. /\ [x EXCEPT !.latest = FALSE] \in FlightRecords /\ ~[x EXCEPT !.latest = FALSE].latest
        /\ [x EXCEPT !.latest = FALSE].type = x.type /\ [x EXCEPT !.latest = FALSE].about = x.about
        /\ [x EXCEPT !.latest = FALSE].answer = x.answer /\ [x EXCEPT !.latest = FALSE].mine = x.mine
      BY <2>1, CallUnmarked
  <2>3. QED
      BY <2>1, <2>2 DEF x
<1>7. r \in Seq(FlightRecords)
    BY <1>1, <1>5, <1>6
<1>8. \A k \in DOMAIN q :
          /\ r[k] \in StateCalls <=> q[k] \in StateCalls
          /\ r[k] \in Current <=> q[k] \in Current
          /\ r[k] \in Closing <=> q[k] \in Closing
          /\ r[k] \in Strays <=> q[k] \in Strays
          /\ r[k] \in Telling <=> q[k] \in Telling
          /\ r[k] \notin Counting
    BY <1>1, <1>6 DEF StateCalls, Current, Closing, Strays, Telling, Counting
<1>9. /\ Meets(r, StateCalls) <=> Meets(q, StateCalls)
      /\ Meets(r, Closing) <=> Meets(q, Closing)
      /\ Meets(r, Strays) <=> Meets(q, Strays)
      /\ Meets(r, Telling) <=> Meets(q, Telling)
      /\ ~Meets(r, Counting)
    BY <1>5, <1>8 DEF Meets
<1>10. EndsOn(q, StateCalls, Current) => EndsOn(r, StateCalls, Current)
    BY <1>5, <1>8, EndsOver
<1>11. /\ e \notin StateCalls /\ e \notin Closing /\ e \notin Strays /\ e \in JustAsked(filtered)
       /\ e \in Telling => about # NoBookmark
    BY <1>3 DEF StateCalls, Closing, Strays, JustAsked, Counting, Telling, Changes
<1>12. /\ Append(r, e) \in Seq(FlightRecords)
       /\ \A H : Meets(Append(r, e), H) <=> (Meets(r, H) \/ e \in H)
       /\ EndsOn(r, StateCalls, Current) => EndsOn(Append(r, e), StateCalls, Current)
    BY <1>3, <1>7, <1>11, AppendMeets, AppendEnds
<1>13. Meets(r, Counting \ JustAsked(filtered)) => Meets(r, Counting)
    BY DEF Meets
<1>14. QED
    BY <1>2, <1>9, <1>10, <1>11, <1>12, <1>13

(***************************** gestures ***********************************)

(* Something is asked for, or nothing: what was under way goes on.          *)
LEMMA AskedAtMost ==
    ASSUME PopupTypes,
           flights' = flights \/ \E e \in FlightRecords : e.answer = NoCall /\ e.type # "LIST_ITEMS" /\ flights' = Append(flights, e)
    PROVE  /\ flights' \in Seq(FlightRecords)
           /\ \A H : Meets(flights, H) => Meets(flights', H)
           /\ EndsOn(flights, StateCalls, Current) => EndsOn(flights', StateCalls, Current)
           /\ \/ Meets(flights', StateCalls) /\ EndsOn(flights', StateCalls, Current)
              \/ Meets(flights', StateCalls) <=> Meets(flights, StateCalls)
           /\ Meets(flights', Counting \ Good) => Meets(flights, Counting \ Good)
           /\ Meets(flights', Telling) =>
                 \/ Meets(flights, Telling)
                 \/ \E e \in Telling : flights' = Append(flights, e)
           /\ Meets(flights', Strays) =>
                 \/ Meets(flights, Strays)
                 \/ \E e \in Strays : flights' = Append(flights, e)
<1>1. flights \in Seq(FlightRecords)
    BY CallsAreCalls
<1>2. CASE flights' = flights
    BY <1>1, <1>2
<1>3. ASSUME NEW e \in FlightRecords, e.answer = NoCall, e.type # "LIST_ITEMS", flights' = Append(flights, e)
      PROVE  /\ flights' \in Seq(FlightRecords)
             /\ \A H : Meets(flights', H) <=> (Meets(flights, H) \/ e \in H)
             /\ e \in Current /\ e \notin Counting
             /\ e \in StateCalls => EndsOn(flights', StateCalls, Current)
             /\ e \notin StateCalls /\ EndsOn(flights, StateCalls, Current) => EndsOn(flights', StateCalls, Current)
  <2>1. e \in Current /\ e \notin Counting
      BY <1>3 DEF Current, Counting
  <2>2. QED
      BY <1>1, <1>3, <2>1, AppendMeets, AppendEnds
<1>4. QED
    BY <1>2, <1>3

(* What is on screen stays but for the dialog, a notice and what is typed.  *)
LEMMA QuietAsk ==
    ASSUME PopupInv, popup' \in PopupRecords, UNCHANGED <<standing, saved, tab, news, astray>>,
           flights' = flights \/ \E e \in FlightRecords : e.answer = NoCall /\ e.type # "LIST_ITEMS" /\ flights' = Append(flights, e),
           \A e \in Strays : flights' = Append(flights, e) => popup.dialog # NoBookmark /\ ~popup.dialogMine,
           \A e \in Telling : flights' = Append(flights, e) => popup.dialog # NoBookmark /\ popup.dialogMine,
           popup'.rows = popup.rows,
           popup'.toast \in {popup.toast, NoBookmark},
           popup'.screen = popup.screen \/ (popup.screen = "adopt" /\ popup'.screen = "create"),
           popup'.timer \/ ((popup'.filtered <=> popup.filtered) /\ ~popup.timer),
           popup'.dialog # NoBookmark =>
              \/ popup.dialog # NoBookmark /\ (popup'.dialogMine <=> popup.dialogMine)
              \/ popup.rows # {} /\ popup'.dialogMine
    PROVE  PopupInv'
<1>0. PopupTypes /\ HandsOwn /\ ScreenFollows /\ RowsFollow /\ NothingShown
    BY DEF PopupInv
<1>1. Repainting' <=> Repainting
    BY DEF Repainting
<1>2. PopupTypes'
    BY <1>0, AskedAtMost DEF PopupTypes
<1>3. HandsOwn'
    BY <1>0, AskedAtMost DEF HandsOwn
<1>4. ScreenFollows'
  <2> SUFFICES ASSUME popup'.screen # "closed", ~astray, ~Repainting
               PROVE  \/ EndsOn(flights', StateCalls, Current)
                      \/ ~Meets(flights', StateCalls) /\ popup'.screen \in Screens[standing]
    <3>1. Current' = Current
        BY DEF Current
    <3>2. QED
        BY <1>1, <3>1 DEF ScreenFollows
  <2>1. EndsOn(flights, StateCalls, Current) \/ (~Meets(flights, StateCalls) /\ popup.screen \in Screens[standing])
      BY <1>0 DEF ScreenFollows
  <2>2. popup.screen \in Screens[standing] => popup'.screen \in Screens[standing]
      BY <1>0 DEF Screens, PopupTypes, Standings
  <2>3. QED
      BY <1>0, <2>1, <2>2, AskedAtMost
<1>5. RowsFollow'
  <2> SUFFICES ASSUME popup'.screen = "vault", ~astray, standing = "open", ~Repainting, ~popup'.timer
               PROVE  \/ Meets(flights', StateCalls)
                      \/ Meets(flights', Reloading)
                      \/ /\ ~Meets(flights', Counting \ Good')
                         /\ Meets(flights', Good') \/ RowsAreFound'
    BY <1>1 DEF RowsFollow
  <2>1. popup.screen = "vault" /\ (popup'.filtered <=> popup.filtered) /\ ~popup.timer
      OBVIOUS
  <2>2. popup.filtered \in BOOLEAN /\ popup'.filtered \in BOOLEAN
      BY <1>0 DEF PopupTypes, PopupRecords
  <2>3. (RowsAreFound => RowsAreFound') /\ Good' = Good
    <3>1. popup'.filtered = popup.filtered
        BY <2>1, <2>2
    <3>2. QED
        BY <3>1 DEF RowsAreFound, Finds, Good, Counting
  <2>4. Counting \ Good' = Counting \ Good
      BY <2>3
  <2>5. \/ Meets(flights, StateCalls)
        \/ Meets(flights, Reloading)
        \/ ~Meets(flights, Counting \ Good) /\ (Meets(flights, Good) \/ RowsAreFound)
      BY <1>0, <2>1 DEF RowsFollow
  <2>6. QED
      BY <1>0, <2>3, <2>4, <2>5, AskedAtMost
<1>6. NothingShown'
  <2> SUFFICES ASSUME popup'.screen # "closed", standing # "open", ~Repainting
               PROVE  \/ Meets(flights', Closing)
                      \/ /\ popup'.rows = {} /\ popup'.toast = NoBookmark
                         /\ popup'.dialog # NoBookmark => ~popup'.dialogMine
                         /\ ~Meets(flights', Telling)
    BY <1>1 DEF NothingShown
  <2>1. \/ Meets(flights, Closing)
        \/ /\ popup.rows = {} /\ popup.toast = NoBookmark
           /\ popup.dialog # NoBookmark => ~popup.dialogMine
           /\ ~Meets(flights, Telling)
      BY <1>0 DEF NothingShown
  <2>2. QED
      BY <1>0, <2>1, AskedAtMost
<1>7. QED
    BY <1>2, <1>3, <1>4, <1>5, <1>6 DEF PopupInv

LEMMA PlainAsk ==
    ASSUME PopupTypes, NEW type \in FlightTypes \ {"LIST_ITEMS", "DELETE_ITEMS"}, NEW about \in AnItem,
           flights' = Append(flights, Ask(type, about, FALSE))
    PROVE  /\ \E e \in FlightRecords : e.answer = NoCall /\ e.type # "LIST_ITEMS" /\ flights' = Append(flights, e)
           /\ \A e \in Strays \cup Telling : flights' # Append(flights, e)
<1> DEFINE a == Ask(type, about, FALSE)
<1>1. a \in FlightRecords /\ a.type = type /\ a.mine /\ a.answer = NoCall
    BY AskIsACall
<1>2. flights' = Append(flights, a)
    OBVIOUS
<1> HIDE DEF a
<1>3. a \notin Strays /\ a \notin Telling
    BY <1>1 DEF Strays, Telling
<1>4. flights \in Seq(FlightRecords) /\ \A e \in FlightRecords : Append(flights, e) = Append(flights, a) => e = a
    BY <1>1, CallsAreCalls
<1>5. \A e \in Strays \cup Telling : e \in FlightRecords
    BY DEF Strays, Telling
<1>6. QED
    BY <1>1, <1>2, <1>3, <1>4, <1>5

(* Nothing of the screen's rows, offers and dialogs changes.                *)
SameScreen ==
    /\ popup' \in PopupRecords
    /\ popup'.rows = popup.rows /\ popup'.toast = popup.toast /\ popup'.screen = popup.screen
    /\ popup'.filtered = popup.filtered /\ popup'.timer = popup.timer
    /\ popup'.dialog = popup.dialog /\ popup'.dialogMine = popup.dialogMine

LEMMA PlainStep ==
    ASSUME PopupInv, SameScreen, UNCHANGED <<standing, saved, tab, news, astray>>,
           NEW type \in FlightTypes \ {"LIST_ITEMS", "DELETE_ITEMS"}, NEW about \in AnItem,
           flights' = Append(flights, Ask(type, about, FALSE))
    PROVE  PopupInv'
<1>1. PopupTypes
    BY DEF PopupInv
<1>2. /\ \E e \in FlightRecords : e.answer = NoCall /\ e.type # "LIST_ITEMS" /\ flights' = Append(flights, e)
      /\ \A e \in Strays \cup Telling : flights' # Append(flights, e)
    BY <1>1, PlainAsk
<1>3. popup.timer \in BOOLEAN /\ popup'.timer = popup.timer
    BY <1>1 DEF PopupTypes, PopupRecords, SameScreen
<1>4. QED
    BY <1>2, <1>3, QuietAsk DEF SameScreen

LEMMA ScreenIsARecord ==
    PopupTypes => /\ popup \in PopupRecords
                  /\ popup.about \in AnItem /\ popup.toast \in AnItem /\ popup.dialog \in AnItem
                  /\ popup.filtered \in BOOLEAN /\ popup.timer \in BOOLEAN /\ popup.rows \subseteq Bookmarks
                  /\ NoBookmark \in AnItem /\ Bookmarks \subseteq AnItem
  BY DEF PopupTypes, PopupRecords, AnItem

LEMMA NoticeChanges ==
    ASSUME popup \in PopupRecords, NEW notice \in {"none", "danger", "saved", "info"}, NEW about \in AnItem
    PROVE  /\ popup' = popup => SameScreen
           /\ popup' = [popup EXCEPT !.notice = notice] => SameScreen
           /\ popup' = [popup EXCEPT !.notice = notice, !.about = about] => SameScreen
<1>1. popup' = popup => SameScreen
    BY DEF SameScreen
<1>2. popup' = [popup EXCEPT !.notice = notice] => SameScreen
    BY DEF SameScreen, PopupRecords
<1>3. popup' = [popup EXCEPT !.notice = notice, !.about = about] => SameScreen
    BY DEF SameScreen, PopupRecords
<1>4. QED
    BY <1>1, <1>2, <1>3

LEMMA NothingAppended ==
    ASSUME PopupTypes, flights' = flights
    PROVE  \A e \in Strays \cup Telling : flights' # Append(flights, e)
<1>1. flights \in Seq(FlightRecords) /\ \A e \in Strays \cup Telling : e \in FlightRecords
    BY CallsAreCalls DEF Strays, Telling
<1>2. \A e \in FlightRecords : Len(Append(flights, e)) # Len(flights)
    BY <1>1
<1>3. QED
    BY <1>1, <1>2

LEMMA GesturesStep ==
    ASSUME PopupInv, popup.screen # "closed", Gestures
    PROVE  PopupInv'
<1>0. PopupTypes /\ popup \in PopupRecords
    BY ScreenIsARecord DEF PopupInv
<1>1. UNCHANGED <<standing, saved, tab, news, astray>> /\ popup.dialog = NoBookmark
    BY DEF Gestures
<1>n. NoBookmark \in AnItem
    BY DEF AnItem
<1>2. CASE Adds
    BY <1>0, <1>1, <1>n, <1>2, NoticeChanges, PlainStep DEF Adds, Asking, FlightTypes
<1>3. CASE RefreshesPreview
    BY <1>0, <1>1, <1>3, <1>n, NoticeChanges, PlainStep, ScreenIsARecord DEF RefreshesPreview, Asking, FlightTypes
<1>4. CASE LocksHere \/ ChangesSetting
    BY <1>0, <1>1, <1>4, <1>n, NoticeChanges, PlainStep DEF LocksHere, ChangesSetting, Asking, FlightTypes
<1>5. CASE TypesPassword
    BY <1>0, <1>1, <1>5, <1>n, NoticeChanges, PlainStep DEF TypesPassword, Asking, FlightTypes
<1>6. ASSUME NEW x \in Bookmarks, OpensItem(x) PROVE PopupInv'
  <2>1. x \in AnItem
      BY DEF AnItem
  <2>2. QED
      BY <1>0, <1>1, <1>6, <1>n, <2>1, NoticeChanges, PlainStep DEF OpensItem, Asking, FlightTypes
<1>7. CASE TurnsToSettings
  <2>1. popup' = [popup EXCEPT !.settings = (popup.screen = "vault")] /\ flights' = Append(flights, Ask("GET_STATE", NoBookmark, FALSE))
      BY <1>7 DEF TurnsToSettings, Refresh
  <2>2. SameScreen
      BY <1>0, <2>1 DEF SameScreen, PopupRecords
  <2>3. QED
      BY <1>1, <1>n, <2>1, <2>2, PlainStep DEF FlightTypes
<1>8. CASE Undoes
  <2>1. popup' = [popup EXCEPT !.toast = NoBookmark] /\ flights' = Append(flights, Ask("RESTORE_ITEMS", popup.toast, FALSE))
      BY <1>8 DEF Undoes, Asking
  <2>2. /\ \E e \in FlightRecords : e.answer = NoCall /\ e.type # "LIST_ITEMS" /\ flights' = Append(flights, e)
        /\ \A e \in Strays \cup Telling : flights' # Append(flights, e)
      BY <1>0, <2>1, PlainAsk, ScreenIsARecord DEF FlightTypes
  <2>3. /\ popup' \in PopupRecords
        /\ popup'.rows = popup.rows /\ popup'.toast = NoBookmark /\ popup'.screen = popup.screen
        /\ popup'.filtered = popup.filtered /\ popup'.timer = popup.timer
        /\ popup'.dialog = popup.dialog
      BY <1>0, <1>n, <2>1 DEF PopupRecords
  <2>4. QED
      BY <1>0, <1>1, <2>2, <2>3, ScreenIsARecord, QuietAsk
<1>9. CASE Filters
  <2>1. popup' = [popup EXCEPT !.filtered = ~@, !.timer = TRUE] /\ flights' = flights
      BY <1>9 DEF Filters
  <2>2. /\ popup' \in PopupRecords
        /\ popup'.rows = popup.rows /\ popup'.toast = popup.toast /\ popup'.screen = popup.screen
        /\ popup'.dialog = popup.dialog
      BY <1>0, <2>1 DEF PopupRecords
  <2>3. popup'.timer
      BY <1>0, <2>1 DEF PopupRecords
  <2>4. QED
      BY <1>0, <1>1, <2>1, <2>2, <2>3, NothingAppended, QuietAsk
<1>10. CASE StartsSeparate
  <2>1. popup.screen = "adopt" /\ popup' = [popup EXCEPT !.screen = "create"] /\ flights' = flights
      BY <1>10 DEF StartsSeparate
  <2>2. /\ popup' \in PopupRecords
        /\ popup'.rows = popup.rows /\ popup'.toast = popup.toast /\ popup'.screen = "create"
        /\ popup'.dialog = popup.dialog /\ popup'.filtered = popup.filtered /\ popup'.timer = popup.timer
      BY <1>0, <2>1 DEF PopupRecords
  <2>3. QED
      BY <1>0, <1>1, <2>1, <2>2, NothingAppended, ScreenIsARecord, QuietAsk
<1>11. ASSUME NEW x \in Bookmarks, AsksToDelete(x) PROVE PopupInv'
  <2>1. x \in popup.rows /\ popup' = [popup EXCEPT !.dialog = x, !.dialogMine = TRUE] /\ flights' = flights
      BY <1>11 DEF AsksToDelete
  <2>2. /\ popup' \in PopupRecords
        /\ popup'.rows = popup.rows /\ popup'.toast = popup.toast /\ popup'.screen = popup.screen
        /\ popup'.filtered = popup.filtered /\ popup'.timer = popup.timer
      BY <1>0, <2>1 DEF PopupRecords, AnItem
  <2>3. popup'.dialogMine
      BY <1>0, <2>1 DEF PopupRecords
  <2>4. QED
      BY <1>0, <1>1, <2>1, <2>2, <2>3, NothingAppended, ScreenIsARecord, QuietAsk
<1>12. QED
    BY <1>2, <1>3, <1>4, <1>5, <1>6, <1>7, <1>8, <1>9, <1>10, <1>11 DEF Gestures

LEMMA OfferEndsStep ==
    ASSUME PopupInv, OfferEnds PROVE PopupInv'
<1>0. PopupTypes /\ popup \in PopupRecords
    BY ScreenIsARecord DEF PopupInv
<1>1. /\ popup' = [popup EXCEPT !.toast = NoBookmark] /\ flights' = flights
      /\ UNCHANGED <<standing, saved, tab, news, astray>>
    BY DEF OfferEnds
<1>2. /\ popup' \in PopupRecords
      /\ popup'.rows = popup.rows /\ popup'.toast = NoBookmark /\ popup'.screen = popup.screen
      /\ popup'.filtered = popup.filtered /\ popup'.timer = popup.timer
      /\ popup'.dialog = popup.dialog /\ popup'.dialogMine = popup.dialogMine
    BY <1>0, <1>1 DEF PopupRecords, AnItem
<1>3. QED
    BY <1>0, <1>1, <1>2, NothingAppended, ScreenIsARecord, QuietAsk

LEMMA AnswersDialogStep ==
    ASSUME PopupInv, AnswersDialog PROVE PopupInv'
<1>0. PopupTypes /\ popup \in PopupRecords
    BY ScreenIsARecord DEF PopupInv
<1>1. /\ popup.dialog # NoBookmark
      /\ popup' = [popup EXCEPT !.dialog = NoBookmark]
      /\ UNCHANGED <<standing, saved, tab, news, astray>>
    BY DEF AnswersDialog, ConfirmsDeletion, CancelsDeletion
<1>2. /\ popup' \in PopupRecords
      /\ popup'.rows = popup.rows /\ popup'.toast = popup.toast /\ popup'.screen = popup.screen
      /\ popup'.filtered = popup.filtered /\ popup'.timer = popup.timer
      /\ popup'.dialog = NoBookmark
    BY <1>0, <1>1 DEF PopupRecords, AnItem
<1>3. CASE CancelsDeletion
    BY <1>0, <1>1, <1>2, <1>3, NothingAppended, ScreenIsARecord, QuietAsk DEF CancelsDeletion
<1>4. CASE ConfirmsDeletion
  <2> DEFINE a == Ask("DELETE_ITEMS", popup.dialog, FALSE)
             e == [a EXCEPT !.mine = popup.dialogMine]
  <2>0. "DELETE_ITEMS" \in FlightTypes /\ popup.dialog \in AnItem /\ FALSE \in BOOLEAN
      BY <1>0, ScreenIsARecord DEF FlightTypes
  <2>1. a \in FlightRecords /\ a.type = "DELETE_ITEMS" /\ a.answer = NoCall
      BY <2>0, AskIsACall
  <2>2. flights' = Append(flights, e)
      BY <1>4 DEF ConfirmsDeletion
  <2> HIDE DEF a
  <2>3. popup.dialogMine \in BOOLEAN
      BY <1>0 DEF PopupRecords
  <2>4. e \in FlightRecords /\ e.type = "DELETE_ITEMS" /\ e.answer = NoCall
      BY <2>1, <2>3 DEF FlightRecords
  <2>5. e.mine <=> popup.dialogMine
      BY <2>1 DEF FlightRecords
  <2> HIDE DEF e
  <2>6. flights \in Seq(FlightRecords) /\ \A x \in FlightRecords : Append(flights, x) = Append(flights, e) => x = e
      BY <1>0, <2>4, CallsAreCalls
  <2>7. \A x \in Strays : flights' = Append(flights, x) => ~popup.dialogMine
      BY <2>2, <2>5, <2>6 DEF Strays
  <2>8. \A x \in Telling : flights' = Append(flights, x) => popup.dialogMine
      BY <2>2, <2>5, <2>6 DEF Telling
  <2>9. \E x \in FlightRecords : x.answer = NoCall /\ x.type # "LIST_ITEMS" /\ flights' = Append(flights, x)
      BY <2>2, <2>4
  <2>10. QED
      BY <1>0, <1>1, <1>2, <2>7, <2>8, <2>9, ScreenIsARecord, QuietAsk
<1>5. QED
    BY <1>3, <1>4 DEF AnswersDialog

(* The rows are asked for anew, of what is left under way.                  *)
LEMMA Reloaded ==
    ASSUME PopupInv, popup' \in PopupRecords, UNCHANGED <<standing, saved, tab, news, astray>>,
           NEW q \in Seq(FlightRecords), NEW about \in AnItem, flights' = Reload(q, about, popup'.filtered),
           Meets(flights, StateCalls) <=> Meets(q, StateCalls),
           EndsOn(flights, StateCalls, Current) => EndsOn(q, StateCalls, Current),
           Meets(flights, Closing) => Meets(q, Closing),
           Meets(q, Strays) => Meets(flights, Strays),
           Meets(q, Telling) \/ about # NoBookmark => Meets(flights, Telling),
           popup'.rows = popup.rows, popup'.toast = popup.toast, popup'.screen = popup.screen,
           popup'.dialog = popup.dialog, popup'.dialogMine = popup.dialogMine
    PROVE  PopupInv'
<1>0. PopupTypes /\ HandsOwn /\ ScreenFollows /\ NothingShown
    BY DEF PopupInv
<1>1. popup'.filtered \in BOOLEAN
    BY DEF PopupRecords
<1>2. /\ flights' \in Seq(FlightRecords)
      /\ Meets(flights', StateCalls) <=> Meets(flights, StateCalls)
      /\ EndsOn(flights, StateCalls, Current) => EndsOn(flights', StateCalls, Current)
      /\ Meets(flights, Closing) => Meets(flights', Closing)
      /\ Meets(flights', Strays) => Meets(flights, Strays)
      /\ Meets(flights', Telling) => Meets(flights, Telling)
      /\ Meets(flights', JustAsked(popup'.filtered))
      /\ ~Meets(flights', Counting \ JustAsked(popup'.filtered))
    BY <1>1, ReloadCalls
<1>3. PopupTypes'
    BY <1>0, <1>2 DEF PopupTypes
<1>4. HandsOwn'
    BY <1>0, <1>2 DEF HandsOwn
<1>5. ScreenFollows'
    BY <1>0, <1>2 DEF ScreenFollows, Repainting, Current
<1>6. RowsFollow'
  <2>1. \A x \in JustAsked(popup'.filtered) : x \in Good'
      BY DEF JustAsked, Good, Counting
  <2>2. Meets(flights', Good') /\ ~Meets(flights', Counting \ Good')
      BY <1>2, <2>1 DEF Meets
  <2>3. QED
      BY <2>2 DEF RowsFollow
<1>7. NothingShown'
    BY <1>0, <1>2 DEF NothingShown, Repainting
<1>8. QED
    BY <1>3, <1>4, <1>5, <1>6, <1>7 DEF PopupInv

LEMMA FilterSettlesStep ==
    ASSUME PopupInv, FilterSettles PROVE PopupInv'
<1>0. PopupTypes /\ HandsOwn /\ ScreenFollows /\ NothingShown /\ popup \in PopupRecords
    BY ScreenIsARecord DEF PopupInv
<1>1. /\ popup' = [popup EXCEPT !.timer = FALSE]
      /\ flights' = IF popup.screen = "vault" THEN Reload(flights, NoBookmark, popup.filtered) ELSE flights
      /\ UNCHANGED <<standing, saved, tab, news, astray>>
    BY DEF FilterSettles
<1>2. /\ popup' \in PopupRecords
      /\ popup'.rows = popup.rows /\ popup'.toast = popup.toast /\ popup'.screen = popup.screen
      /\ popup'.filtered = popup.filtered
      /\ popup'.dialog = popup.dialog /\ popup'.dialogMine = popup.dialogMine
    BY <1>0, <1>1 DEF PopupRecords
<1>3. CASE popup.screen = "vault"
  <2>1. flights \in Seq(FlightRecords) /\ NoBookmark \in AnItem
      BY <1>0, CallsAreCalls, ScreenIsARecord
  <2>2. QED
      BY <1>1, <1>2, <1>3, <2>1, Reloaded
<1>4. CASE popup.screen # "vault"
  <2>1. flights' = flights
      BY <1>1, <1>4
  <2>2. PopupTypes' /\ HandsOwn'
      BY <1>0, <1>1, <1>2, <2>1 DEF PopupTypes, HandsOwn
  <2>3. ScreenFollows' /\ RowsFollow'
      BY <1>0, <1>1, <1>2, <1>4, <2>1 DEF ScreenFollows, RowsFollow, Repainting, Current
  <2>4. NothingShown'
      BY <1>0, <1>1, <1>2, <2>1 DEF NothingShown, Repainting
  <2>5. QED
      BY <2>2, <2>3, <2>4 DEF PopupInv
<1>5. QED
    BY <1>3, <1>4

LEMMA HappensElsewhereStep ==
    ASSUME PopupInv, HappensElsewhere PROVE PopupInv'
<1>0. PopupTypes /\ HandsOwn /\ ScreenFollows /\ RowsFollow /\ NothingShown
    BY DEF PopupInv
<1>1. UNCHANGED <<tab, popup, flights>>
    BY DEF HappensElsewhere
<1>2. CASE \E b \in {"SESSION_LOCKED", "PANIC", "SESSION_UNLOCKED", "SETTINGS_CHANGED"} :
              /\ news' = news \cup {b} /\ UNCHANGED <<saved, astray>> /\ standing' \in Standings
  <2>1. Repainting'
      BY <1>2 DEF Repainting, Repaints
  <2>2. PopupTypes' /\ HandsOwn'
      BY <1>0, <1>1, <1>2 DEF PopupTypes, HandsOwn
  <2>3. ScreenFollows' /\ RowsFollow' /\ NothingShown'
      BY <2>1 DEF ScreenFollows, RowsFollow, NothingShown
  <2>4. QED
      BY <2>2, <2>3 DEF PopupInv
<1>3. CASE /\ standing = "open" /\ astray' = TRUE /\ UNCHANGED standing
           /\ \E x \in Bookmarks : saved' = [saved EXCEPT ![x] = IF @ = "live" THEN "gone" ELSE "live"]
           /\ news' = news \cup {"VAULT_CHANGED"}
  <2>1. saved' \in [Bookmarks -> {"never", "live", "gone"}]
      BY <1>0, <1>3 DEF PopupTypes
  <2>2. PopupTypes'
      BY <1>0, <1>1, <1>3, <2>1 DEF PopupTypes
  <2>3. HandsOwn' /\ ScreenFollows' /\ RowsFollow' /\ NothingShown'
      BY <1>3 DEF HandsOwn, ScreenFollows, RowsFollow, NothingShown
  <2>4. QED
      BY <2>2, <2>3 DEF PopupInv
<1>4. standing \in Standings /\ "locked" \in Standings /\ "open" \in Standings
    BY <1>0 DEF PopupTypes, Standings
<1>5. QED
    BY <1>2, <1>3, <1>4 DEF HappensElsewhere

(* The popup closes.                                                       *)
LEMMA PopupCloses ==
    ASSUME PopupInv, popup' = [popup EXCEPT !.screen = "closed", !.rows = {}], flights' = <<>>,
           UNCHANGED <<standing, saved, tab, astray>>, news' \subseteq news
    PROVE  PopupInv'
<1>0. PopupTypes /\ HandsOwn /\ popup \in PopupRecords
    BY ScreenIsARecord DEF PopupInv
<1>1. popup' \in PopupRecords /\ popup'.screen = "closed" /\ popup'.dialog = popup.dialog /\ popup'.dialogMine = popup.dialogMine
    BY <1>0 DEF PopupRecords
<1>2. flights' \in Seq(FlightRecords) /\ \A H : ~Meets(flights', H)
    BY DEF Meets
<1>3. PopupTypes' /\ HandsOwn'
    BY <1>0, <1>1, <1>2 DEF PopupTypes, HandsOwn
<1>4. ScreenFollows' /\ RowsFollow' /\ NothingShown'
    BY <1>1 DEF ScreenFollows, RowsFollow, NothingShown
<1>5. QED
    BY <1>3, <1>4 DEF PopupInv

(* The state is asked for: it will be shown.                               *)
LEMMA RefreshedCalls ==
    ASSUME NEW q \in Seq(FlightRecords)
    PROVE  /\ Refresh(q) \in Seq(FlightRecords)
           /\ Meets(Refresh(q), StateCalls) /\ Meets(Refresh(q), Closing) /\ EndsOn(Refresh(q), StateCalls, Current)
           /\ Meets(Refresh(q), Strays) <=> Meets(q, Strays)
<1> DEFINE e == Ask("GET_STATE", NoBookmark, FALSE)
<1>0. "GET_STATE" \in FlightTypes /\ NoBookmark \in AnItem /\ FALSE \in BOOLEAN
    BY DEF FlightTypes, AnItem
<1>1. e \in FlightRecords /\ e.type = "GET_STATE" /\ e.answer = NoCall
    BY <1>0, AskIsACall
<1>2. Refresh(q) = Append(q, e)
    BY DEF Refresh
<1> HIDE DEF e
<1>3. e \in StateCalls /\ e \in Current /\ e \in Closing /\ e \notin Strays
    BY <1>1 DEF StateCalls, Current, Closing, Strays, Changes
<1>4. QED
    BY <1>1, <1>2, <1>3, AppendMeets, AppendEnds

LEMMA AsksForTheState ==
    ASSUME PopupInv, NEW q \in Seq(FlightRecords), flights' = Refresh(q), Meets(q, Strays) => Meets(flights, Strays),
           UNCHANGED <<popup, standing, saved, tab, astray>>, news' \subseteq news
    PROVE  PopupInv'
<1>0. PopupTypes /\ HandsOwn
    BY DEF PopupInv
<1>1. PopupTypes' /\ HandsOwn'
    BY <1>0, RefreshedCalls DEF PopupTypes, HandsOwn
<1>2. Current' = Current
    BY DEF Current
<1>3. ScreenFollows' /\ RowsFollow' /\ NothingShown'
    BY <1>2, RefreshedCalls DEF ScreenFollows, RowsFollow, NothingShown
<1>4. QED
    BY <1>1, <1>3 DEF PopupInv

LEMMA HearsNewsStep ==
    ASSUME PopupInv, HearsNews PROVE PopupInv'
<1>0. PopupTypes /\ HandsOwn /\ ScreenFollows /\ RowsFollow /\ NothingShown
    BY DEF PopupInv
<1>1. PICK b \in news :
        /\ news' = news \ {b}
        /\ IF b = "PANIC"
           THEN popup' = [popup EXCEPT !.screen = "closed", !.rows = {}] /\ flights' = <<>>
           ELSE popup' = popup /\ flights' = IF b \in Repaints THEN Refresh(flights) ELSE flights
        /\ UNCHANGED <<standing, saved, tab, happened, astray>>
    BY DEF HearsNews
<1>2. CASE b = "PANIC"
    BY <1>1, <1>2, PopupCloses
<1>3. CASE b # "PANIC" /\ b \in Repaints
    BY <1>0, <1>1, <1>3, CallsAreCalls, AsksForTheState
<1>4. CASE b # "PANIC" /\ b \notin Repaints
  <2>1. UNCHANGED <<popup, flights, standing, saved, tab, astray>>
      BY <1>1, <1>4
  <2>2. Repainting' <=> Repainting
      BY <1>1, <1>4 DEF Repainting
  <2>3. PopupTypes' /\ HandsOwn'
      BY <1>0, <1>1, <2>1 DEF PopupTypes, HandsOwn
  <2>4. ScreenFollows' /\ NothingShown'
      BY <1>0, <2>1, <2>2 DEF ScreenFollows, NothingShown, Current
  <2>5. RowsFollow'
      BY <1>0, <2>1, <2>2 DEF RowsFollow, RowsAreFound, Good, Finds
  <2>6. QED
      BY <2>3, <2>4, <2>5 DEF PopupInv
<1>5. QED
    BY <1>2, <1>3, <1>4

(***************************** the worker ********************************)

(* A call is answered: what it becomes, and what it stays.                  *)
LEMMA CallBecomes ==
    ASSUME PopupTypes, NEW k \in DOMAIN flights, NEW reply \in Replies,
           flights[k].type = "GET_STATE" => reply.code \in Standings \cup {"ERROR"},
           flights' = [flights EXCEPT ![k].answer = reply]
    PROVE  \E e \in FlightRecords :
              /\ e.answer = reply
              /\ e.type = flights[k].type
              /\ e.about = flights[k].about
              /\ e.filtered = flights[k].filtered
              /\ e.mine = flights[k].mine
              /\ e.latest = flights[k].latest
              /\ flights' = [flights EXCEPT ![k] = e]
<1> DEFINE x == flights[k]
           e == [x EXCEPT !.answer = reply]
<1>1. x \in FlightRecords
    BY CallsAreCalls
<1>2. flights' = [flights EXCEPT ![k] = e]
    OBVIOUS
<1>3. x.type = "GET_STATE" => reply.code \in Standings \cup {"ERROR"}
    OBVIOUS
<1> HIDE DEF x
<1>4. /\ e \in FlightRecords
      /\ e.answer = reply
      /\ e.type = x.type
      /\ e.about = x.about
      /\ e.filtered = x.filtered
      /\ e.mine = x.mine
      /\ e.latest = x.latest
    BY <1>1, <1>3, CallAnswered
<1> HIDE DEF e
<1>5. QED
    BY <1>2, <1>4 DEF x

(* The calls as they are after one of them is answered.                     *)
LEMMA AnsweredCalls ==
    ASSUME PopupTypes, NEW k \in DOMAIN flights, NEW e \in FlightRecords, flights' = [flights EXCEPT ![k] = e],
           e.type = flights[k].type, e.mine = flights[k].mine
    PROVE  /\ flights' \in Seq(FlightRecords)
           /\ \A H : flights[k] \notin H /\ Meets(flights, H) => Meets(flights', H)
           /\ \A H : e \in H => Meets(flights', H)
           /\ \A H : (e \in H => flights[k] \in H) /\ Meets(flights', H) => Meets(flights, H)
           /\ Meets(flights', StateCalls) <=> Meets(flights, StateCalls)
           /\ Meets(flights', Strays) => Meets(flights, Strays)
           /\ \A F : /\ EndsOn(flights, StateCalls, Current)
                     /\ \A i \in DOMAIN flights : i # k /\ flights[i] \in Current => flights[i] \in F
                     /\ flights[k] \in StateCalls /\ flights[k] \in Current => e \in F
                     => EndsOn(flights', StateCalls, F)
<1> DEFINE x == flights[k]
<1>1. flights \in Seq(FlightRecords) /\ x \in FlightRecords
    BY CallsAreCalls
<1>2. /\ flights' \in Seq(FlightRecords)
      /\ \A H : flights[k] \notin H /\ Meets(flights, H) => Meets(flights', H)
      /\ \A H : e \in H => Meets(flights', H)
      /\ \A H : (e \in H => flights[k] \in H) /\ Meets(flights', H) => Meets(flights, H)
    BY <1>1, ReplaceMeets
<1>3. e \in StateCalls <=> x \in StateCalls
    BY <1>1 DEF StateCalls
<1>4. e \in Strays <=> x \in Strays
    BY <1>1 DEF Strays
<1>5. /\ DOMAIN flights' = DOMAIN flights /\ flights'[k] = e
      /\ \A i \in DOMAIN flights : i # k => flights'[i] = flights[i]
    BY <1>1
<1>6. ASSUME NEW F, EndsOn(flights, StateCalls, Current),
             \A i \in DOMAIN flights : i # k /\ flights[i] \in Current => flights[i] \in F,
             flights[k] \in StateCalls /\ flights[k] \in Current => e \in F
      PROVE  EndsOn(flights', StateCalls, F)
  <2>1. \A i \in DOMAIN flights : flights'[i] \in StateCalls <=> flights[i] \in StateCalls
      BY <1>3, <1>5
  <2>2. \A i \in DOMAIN flights : flights[i] \in StateCalls /\ flights[i] \in Current => flights'[i] \in F
      BY <1>5, <1>6
  <2>3. QED
      BY <1>5, <1>6, <2>1, <2>2, EndsOver
<1>7. QED
    BY <1>2, <1>3, <1>4, <1>6

LEMMA LosesAnswerStep ==
    ASSUME PopupInv, NEW k \in DOMAIN flights, LosesAnswer(k)
    PROVE  PopupInv'
<1>0. PopupTypes /\ NothingShown
    BY DEF PopupInv
<1>1. /\ flights' = [flights EXCEPT ![k].answer = Done("ERROR")] /\ astray' = TRUE
      /\ UNCHANGED <<standing, saved, tab, popup, news>>
    BY DEF LosesAnswer
<1>2. Done("ERROR") \in Replies /\ Done("ERROR").code = "ERROR"
    BY DEF Done, Reply, Replies
<1>3. PICK e \in FlightRecords :
              /\ e.answer = Done("ERROR")
              /\ e.type = flights[k].type
              /\ e.about = flights[k].about
              /\ e.filtered = flights[k].filtered
              /\ e.mine = flights[k].mine
              /\ e.latest = flights[k].latest
              /\ flights' = [flights EXCEPT ![k] = e]
    BY <1>0, <1>1, <1>2, CallBecomes
<1>4. flights[k] \in FlightRecords
    BY <1>0, CallsAreCalls
<1>5. flights[k] \in Closing => e \in Closing
    BY <1>2, <1>3 DEF Closing, StateCalls
<1>6. e \in Telling => flights[k] \in Telling
    BY <1>2, <1>3, <1>4 DEF Telling
<1>7. /\ flights' \in Seq(FlightRecords)
      /\ Meets(flights, Closing) => Meets(flights', Closing)
      /\ Meets(flights', Telling) => Meets(flights, Telling)
    BY <1>0, <1>3, <1>5, <1>6, AnsweredCalls
<1>8. PopupTypes'
    BY <1>0, <1>1, <1>7 DEF PopupTypes
<1>9. NothingShown'
    BY <1>0, <1>1, <1>7 DEF NothingShown, Repainting
<1>10. QED
    BY <1>1, <1>8, <1>9 DEF PopupInv, HandsOwn, ScreenFollows, RowsFollow

(* What a call that only reads is answered.                                *)
ReadsWell(x, reply) ==
    /\ reply \in Replies
    /\ x.type = "GET_STATE" => reply.code = standing
    /\ x.type = "LIST_ITEMS" => IF standing = "open" THEN reply.code # "ERROR" /\ reply.rows = Finds(x.filtered)
                                                     ELSE reply.code = "ERROR"

LEMMA ServesRead ==
    ASSUME PopupInv, NEW k \in DOMAIN flights, NEW reply, ReadsWell(flights[k], reply), flights[k].answer = NoCall,
           flights' = [flights EXCEPT ![k].answer = reply],
           UNCHANGED <<standing, saved, tab, popup, news, astray>>
    PROVE  PopupInv'
<1>0. PopupTypes /\ HandsOwn /\ ScreenFollows /\ RowsFollow /\ NothingShown
    BY DEF PopupInv
<1>1. standing \in Standings /\ popup.filtered \in BOOLEAN
    BY <1>0, ScreenIsARecord DEF PopupTypes
<1>2. PICK e \in FlightRecords :
              /\ e.answer = reply
              /\ e.type = flights[k].type
              /\ e.about = flights[k].about
              /\ e.filtered = flights[k].filtered
              /\ e.mine = flights[k].mine
              /\ e.latest = flights[k].latest
              /\ flights' = [flights EXCEPT ![k] = e]
    BY <1>0, <1>1, CallBecomes DEF ReadsWell
<1> DEFINE x == flights[k]
<1>3. x \in FlightRecords /\ x.answer = NoCall /\ reply # NoCall
    BY <1>0, CallsAreCalls, PopupAssumption DEF ReadsWell
<1>4. /\ flights' \in Seq(FlightRecords)
      /\ \A H : x \notin H /\ Meets(flights, H) => Meets(flights', H)
      /\ \A H : e \in H => Meets(flights', H)
      /\ \A H : (e \in H => x \in H) /\ Meets(flights', H) => Meets(flights, H)
      /\ Meets(flights', StateCalls) <=> Meets(flights, StateCalls)
      /\ Meets(flights', Strays) => Meets(flights, Strays)
    BY <1>0, <1>2, AnsweredCalls
<1>5. x.type = "GET_STATE" => reply.code = standing
    BY DEF ReadsWell
<1>6. x.type = "LIST_ITEMS" => IF standing = "open" THEN reply.code # "ERROR" /\ reply.rows = Finds(x.filtered)
                                                     ELSE reply.code = "ERROR"
    BY DEF ReadsWell
<1>7. PopupTypes' /\ HandsOwn'
    BY <1>0, <1>4 DEF PopupTypes, HandsOwn
<1>8. Repainting' <=> Repainting
    BY DEF Repainting
<1>9. EndsOn(flights, StateCalls, Current) => EndsOn(flights', StateCalls, Current)
  <2>1. x \in StateCalls => e \in Current
      BY <1>2, <1>5 DEF StateCalls, Current
  <2>2. QED
      BY <1>0, <1>2, <2>1, AnsweredCalls
<1>10. ScreenFollows'
  <2>1. Current' = Current
      BY DEF Current
  <2>2. QED
      BY <1>0, <1>4, <1>8, <1>9, <2>1 DEF ScreenFollows
<1>11. NothingShown'
  <2> SUFFICES ASSUME standing # "open"
               PROVE  NothingShown'
      BY DEF NothingShown
  <2>1. x \in Closing => e \in Closing
      BY <1>2, <1>5 DEF Closing, StateCalls
  <2>2. e \in Telling => x \in Telling
      BY <1>2, <1>3, <1>6 DEF Telling
  <2>3. QED
      BY <1>0, <1>4, <1>8, <2>1, <2>2 DEF NothingShown
<1>12. RowsFollow'
  <2> SUFFICES ASSUME standing = "open"
               PROVE  RowsFollow'
      BY DEF RowsFollow
  <2>1. Good' = Good /\ (RowsAreFound' <=> RowsAreFound)
      BY DEF Good, Finds, RowsAreFound
  <2>2. x \notin Reloading
      BY <1>3 DEF Reloading
  <2>3. x \in Good => e \in Good
    <3>1. x \in Good => e \in Counting /\ (e.filtered <=> popup.filtered)
        BY <1>2 DEF Good, Counting
    <3>2. x \in Good => x.filtered = popup.filtered /\ x.type = "LIST_ITEMS"
        BY <1>1 DEF Good, Counting, FlightRecords
    <3>3. x \in Good => e.answer.code # "ERROR" /\ e.answer.rows = Finds(popup.filtered)
        BY <1>2, <1>6, <3>2
    <3>4. QED
        BY <3>1, <3>3 DEF Good
  <2>4. e \in Counting \ Good => x \in Counting \ Good
      BY <1>2, <1>3, <2>3 DEF Counting
  <2> HIDE DEF x
  <2>5. /\ Meets(flights, Reloading) => Meets(flights', Reloading)
        /\ Meets(flights, Good) => Meets(flights', Good)
        /\ Meets(flights', Counting \ Good) => Meets(flights, Counting \ Good)
      BY <1>4, <2>2, <2>3, <2>4
  <2>6. Counting \ Good' = Counting \ Good
      BY <2>1
  <2>7. QED
      BY <1>0, <1>4, <1>8, <2>1, <2>5, <2>6 DEF RowsFollow
<1>13. QED
    BY <1>7, <1>10, <1>11, <1>12 DEF PopupInv

(* A change of the vault, asked for here: the call will reload the rows.    *)
LEMMA ServesChange ==
    ASSUME PopupInv, NEW k \in DOMAIN flights, NEW code \in {"added", "OK"}, standing = "open",
           flights[k].type \in Changes, flights[k].answer = NoCall,
           flights' = [flights EXCEPT ![k].answer = Done(code)],
           saved' \in [Bookmarks -> {"never", "live", "gone"}], news' = news \cup {"VAULT_CHANGED"},
           UNCHANGED <<standing, tab, popup, astray>>
    PROVE  PopupInv'
<1>0. PopupTypes /\ HandsOwn /\ ScreenFollows
    BY DEF PopupInv
<1>1. Done(code) \in Replies /\ Done(code).code = code /\ flights[k].type # "GET_STATE"
    BY DEF Done, Reply, Replies, Changes
<1>2. PICK e \in FlightRecords :
              /\ e.answer = Done(code)
              /\ e.type = flights[k].type
              /\ e.about = flights[k].about
              /\ e.filtered = flights[k].filtered
              /\ e.mine = flights[k].mine
              /\ e.latest = flights[k].latest
              /\ flights' = [flights EXCEPT ![k] = e]
    BY <1>0, <1>1, CallBecomes
<1>3. /\ flights' \in Seq(FlightRecords)
      /\ e \in Reloading => Meets(flights', Reloading)
      /\ Meets(flights', StateCalls) <=> Meets(flights, StateCalls)
      /\ Meets(flights', Strays) => Meets(flights, Strays)
      /\ EndsOn(flights, StateCalls, Current) => EndsOn(flights', StateCalls, Current)
  <2>1. flights[k] \notin StateCalls
      BY <1>1 DEF StateCalls
  <2>2. QED
      BY <1>0, <1>2, <2>1, AnsweredCalls
<1>4. PopupTypes' /\ HandsOwn'
    BY <1>0, <1>3 DEF PopupTypes, HandsOwn
<1>5. Repainting => Repainting'
    BY DEF Repainting
<1>6. ScreenFollows'
    BY <1>0, <1>3, <1>5 DEF ScreenFollows, Current
<1>7. RowsFollow'
  <2> SUFFICES ASSUME ~astray
               PROVE  RowsFollow'
      BY DEF RowsFollow
  <2>1. flights[k] \in FlightRecords /\ flights[k] \notin Strays
      BY <1>0, CallsAreCalls DEF HandsOwn, Meets
  <2>2. flights[k].mine
      BY <2>1 DEF Strays
  <2>3. Done(code) # NoCall
      BY <1>1, PopupAssumption
  <2>4. e \in Reloading
      BY <1>1, <1>2, <2>2, <2>3 DEF Reloading
  <2>5. QED
      BY <1>3, <2>4 DEF RowsFollow
<1>8. NothingShown'
    BY DEF NothingShown
<1>9. QED
    BY <1>4, <1>6, <1>7, <1>8 DEF PopupInv

(* A lock, an unlock or a setting: a broadcast will ask for the state.      *)
LEMMA ServesRepaint ==
    ASSUME PopupInv, NEW k \in DOMAIN flights, flights[k].type # "GET_STATE",
           flights' = [flights EXCEPT ![k].answer = Done("OK")],
           saved' \in [Bookmarks -> {"never", "live", "gone"}], standing' \in Standings,
           NEW b \in Repaints, news' = news \cup {b}, UNCHANGED <<tab, popup, astray>>
    PROVE  PopupInv'
<1>0. PopupTypes /\ HandsOwn
    BY DEF PopupInv
<1>1. Done("OK") \in Replies
    BY DEF Done, Reply, Replies
<1>2. PICK e \in FlightRecords :
              /\ e.answer = Done("OK")
              /\ e.type = flights[k].type
              /\ e.about = flights[k].about
              /\ e.filtered = flights[k].filtered
              /\ e.mine = flights[k].mine
              /\ e.latest = flights[k].latest
              /\ flights' = [flights EXCEPT ![k] = e]
    BY <1>0, <1>1, CallBecomes
<1>3. flights' \in Seq(FlightRecords) /\ (Meets(flights', Strays) => Meets(flights, Strays))
    BY <1>0, <1>2, AnsweredCalls
<1>4. news' \subseteq {"SESSION_LOCKED", "SESSION_UNLOCKED", "SETTINGS_CHANGED", "VAULT_CHANGED", "PANIC"}
    BY <1>0 DEF PopupTypes, Repaints
<1>5. PopupTypes' /\ HandsOwn'
    BY <1>0, <1>3, <1>4 DEF PopupTypes, HandsOwn
<1>6. Repainting'
    BY DEF Repainting
<1>7. QED
    BY <1>5, <1>6 DEF PopupInv, ScreenFollows, RowsFollow, NothingShown

(* TurnedDown, read, done: the answers that go with what the vault is.         *)
LEMMA RefusalReads ==
    ASSUME NEW x, x.type # "GET_STATE", x.type = "LIST_ITEMS" => standing # "open"
    PROVE  ReadsWell(x, Done("ERROR"))
  BY DEF ReadsWell, Done, Reply, Replies

LEMMA ServesStep ==
    ASSUME PopupInv, NEW k \in DOMAIN flights, Serves(k)
    PROVE  PopupInv'
<1> DEFINE x == flights[k]
<1>0. PopupTypes /\ standing \in Standings /\ x \in FlightRecords
    BY CallsAreCalls DEF PopupInv, PopupTypes
<1>1. x.answer = NoCall /\ UNCHANGED <<tab, popup, happened, astray>>
    BY DEF Serves
<1> DEFINE TurnedDown == /\ flights' = [flights EXCEPT ![k].answer = Done("ERROR")]
                      /\ UNCHANGED <<standing, saved, news>>
           Read == \E reply : /\ flights' = [flights EXCEPT ![k].answer = reply] /\ ReadsWell(x, reply)
                              /\ UNCHANGED <<standing, saved, news>>
           Changed == \E code \in {"added", "OK"} :
                         /\ standing = "open" /\ x.type \in Changes
                         /\ flights' = [flights EXCEPT ![k].answer = Done(code)]
                         /\ saved' \in [Bookmarks -> {"never", "live", "gone"}] /\ news' = news \cup {"VAULT_CHANGED"}
                         /\ UNCHANGED standing
           Repainted == \E b \in Repaints :
                           /\ x.type # "GET_STATE"
                           /\ flights' = [flights EXCEPT ![k].answer = Done("OK")]
                           /\ saved' \in [Bookmarks -> {"never", "live", "gone"}] /\ standing' \in Standings
                           /\ news' = news \cup {b}
<1>2. Read => PopupInv'
    BY <1>1, ServesRead
<1>3. Changed => PopupInv'
    BY <1>1, ServesChange
<1>4. Repainted => PopupInv'
    BY <1>1, ServesRepaint
<1>5. x.type # "GET_STATE" /\ (x.type = "LIST_ITEMS" => standing # "open") /\ TurnedDown => Read
    BY RefusalReads
<1>6. saved \in [Bookmarks -> {"never", "live", "gone"}]
    BY <1>0 DEF PopupTypes
<1>7. "SESSION_LOCKED" \in Repaints /\ "SESSION_UNLOCKED" \in Repaints /\ "SETTINGS_CHANGED" \in Repaints
    BY DEF Repaints
<1>8. CASE x.type = "GET_STATE"
  <2>1. flights' = [flights EXCEPT ![k].answer = Done(standing)] /\ UNCHANGED <<standing, saved, news>>
      BY <1>8 DEF Serves
  <2>2. ReadsWell(x, Done(standing))
      BY <1>0, <1>8 DEF ReadsWell, Done, Reply, Replies, Standings
  <2>3. QED
      BY <1>2, <2>1, <2>2
<1>9. CASE x.type = "LIST_ITEMS"
  <2>1. CASE standing # "open"
      BY <1>2, <1>5, <1>9, <2>1 DEF Serves
  <2>2. CASE standing = "open"
    <3>1. /\ flights' = [flights EXCEPT ![k].answer = Reply("OK", Finds(x.filtered), NoBookmark)]
          /\ UNCHANGED <<standing, saved, news>>
        BY <1>9, <2>2 DEF Serves
    <3>2. Finds(x.filtered) \in SUBSET Bookmarks
        BY DEF Finds
    <3>3. ReadsWell(x, Reply("OK", Finds(x.filtered), NoBookmark))
        BY <1>9, <2>2, <3>2 DEF ReadsWell, Reply, Replies
    <3>4. QED
        BY <1>2, <3>1, <3>3
  <2>3. QED
      BY <2>1, <2>2
<1>10. CASE x.type = "LOOKUP_ACTIVE_TAB"
  <2>1. CASE standing # "open"
      BY <1>2, <1>5, <1>10, <2>1 DEF Serves
  <2>2. CASE standing = "open"
    <3>1. /\ flights' = [flights EXCEPT ![k].answer = Reply("OK", {}, LookupActiveTab)]
          /\ UNCHANGED <<standing, saved, news>>
        BY <1>10, <2>2 DEF Serves
    <3>2. LookupActiveTab \in Bookmarks \cup {NoBookmark}
        BY <1>0 DEF LookupActiveTab, PopupTypes, AnItem
    <3>3. ReadsWell(x, Reply("OK", {}, LookupActiveTab))
        BY <1>10, <3>2 DEF ReadsWell, Reply, Replies
    <3>4. QED
        BY <1>2, <3>1, <3>3
  <2>3. QED
      BY <2>1, <2>2
<1>11. CASE x.type \in {"OPEN_ITEM", "REFRESH_THUMB"}
  <2>1. CASE standing # "open"
      BY <1>2, <1>5, <1>11, <2>1 DEF Serves
  <2>2. CASE standing = "open"
    <3>1. PICK code \in {"OK", "ERROR"} :
              /\ flights' = [flights EXCEPT ![k].answer = Done(code)]
              /\ UNCHANGED <<standing, saved, news>>
        BY <1>11, <2>2 DEF Serves
    <3>2. ReadsWell(x, Done(code))
        BY <1>11 DEF ReadsWell, Done, Reply, Replies
    <3>3. QED
        BY <1>2, <3>1, <3>2
  <2>3. QED
      BY <2>1, <2>2
<1>12. CASE x.type = "ADD_ACTIVE_TAB"
  <2>1. CASE standing # "open"
      BY <1>2, <1>5, <1>12, <2>1 DEF Serves
  <2>2. CASE standing = "open"
    <3>1. /\ saved' = AddActiveTab.saved
          /\ news' = news \cup (IF AddActiveTab.answer = "added" THEN {"VAULT_CHANGED"} ELSE {})
          /\ flights' = [flights EXCEPT ![k].answer = Done(AddActiveTab.answer)] /\ UNCHANGED standing
        BY <1>12, <2>2 DEF Serves
    <3>2. CASE AddActiveTab.answer = "added"
      <4>1. saved' \in [Bookmarks -> {"never", "live", "gone"}]
          BY <1>0, <1>6, <3>1, <3>2 DEF AddActiveTab, PopupTypes, AnItem
      <4>2. news' = news \cup {"VAULT_CHANGED"} /\ flights' = [flights EXCEPT ![k].answer = Done("added")]
          BY <3>1, <3>2
      <4>3. x.type \in Changes
          BY <1>12 DEF Changes
      <4>4. QED
          BY <1>3, <2>2, <3>1, <4>1, <4>2, <4>3
    <3>3. CASE AddActiveTab.answer # "added"
      <4>1. AddActiveTab.answer \in {"ERROR", "duplicate"} /\ AddActiveTab.saved = saved
          BY <3>3 DEF AddActiveTab
      <4>2. ReadsWell(x, Done(AddActiveTab.answer))
          BY <1>12, <4>1 DEF ReadsWell, Done, Reply, Replies
      <4>3. news' = news /\ saved' = saved
          BY <3>1, <3>3, <4>1
      <4>4. QED
          BY <1>2, <3>1, <4>2, <4>3
    <3>4. QED
        BY <3>2, <3>3
  <2>3. QED
      BY <2>1, <2>2
<1>13. CASE x.type \in {"DELETE_ITEMS", "RESTORE_ITEMS"}
  <2>1. CASE TurnedDown
      BY <1>2, <1>5, <1>13, <2>1
  <2>2. CASE ~TurnedDown
    <3>1. standing = "open"
        BY <1>13, <2>2 DEF Serves
    <3>2. PICK after \in {"gone", "live"} :
              /\ saved' = [saved EXCEPT ![x.about] = after] /\ news' = news \cup {"VAULT_CHANGED"}
              /\ flights' = [flights EXCEPT ![k].answer = Done("OK")] /\ UNCHANGED standing
        BY <1>13, <2>2, <3>1 DEF Serves
    <3>3. saved' \in [Bookmarks -> {"never", "live", "gone"}] /\ x.type \in Changes
        BY <1>6, <1>13, <3>2 DEF Changes
    <3>4. QED
        BY <1>3, <3>1, <3>2, <3>3
  <2>3. QED
      BY <2>1, <2>2
<1>14. CASE x.type = "SET_SETTINGS"
    BY <1>0, <1>4, <1>6, <1>7, <1>14 DEF Serves
<1>15. CASE x.type = "LOCK"
  <2>1. /\ flights' = [flights EXCEPT ![k].answer = Done("OK")] /\ saved' = saved /\ news' = news \cup {"SESSION_LOCKED"}
        /\ standing' = (IF standing = "open" THEN "locked" ELSE standing)
      BY <1>15 DEF Serves
  <2>2. standing' \in Standings
      BY <1>0, <2>1 DEF Standings
  <2>3. QED
      BY <1>4, <1>6, <1>7, <1>15, <2>1, <2>2
<1>16. CASE x.type \in {"UNLOCK", "CREATE_VAULT"}
  <2>1. CASE TurnedDown
      BY <1>2, <1>5, <1>16, <2>1
  <2>2. CASE ~TurnedDown
    <3>1. /\ standing' = "open"
          /\ saved' = (IF x.type = "UNLOCK" THEN saved ELSE [b \in Bookmarks |-> "never"])
          /\ news' = news \cup {"SESSION_UNLOCKED"} /\ flights' = [flights EXCEPT ![k].answer = Done("OK")]
        BY <1>16, <2>2 DEF Serves
    <3>2. saved' \in [Bookmarks -> {"never", "live", "gone"}] /\ standing' \in Standings
        BY <1>6, <3>1 DEF Standings
    <3>3. QED
        BY <1>4, <1>7, <1>16, <3>1, <3>2
  <2>3. QED
      BY <2>1, <2>2
<1>17. QED
    BY <1>0, <1>8, <1>9, <1>10, <1>11, <1>12, <1>13, <1>14, <1>15, <1>16 DEF FlightRecords, FlightTypes

(***************************** answers ***********************************)

(* What is left under way when an answer arrives.                          *)
LEMMA LeftUnderWay ==
    ASSUME PopupTypes, NEW k \in DOMAIN flights
    PROVE  /\ RemoveAt(flights, k) \in Seq(FlightRecords)
           /\ \A H : Meets(RemoveAt(flights, k), H) => Meets(flights, H)
           /\ \A H : flights[k] \notin H /\ Meets(flights, H) => Meets(RemoveAt(flights, k), H)
           /\ flights[k] \notin StateCalls /\ EndsOn(flights, StateCalls, Current) =>
                 EndsOn(RemoveAt(flights, k), StateCalls, Current)
  BY CallsAreCalls, RemoveMeets, RemoveEnds

(* An answer that changes neither the vault's screen nor its rows.          *)
LEMMA QuietArrival ==
    ASSUME PopupInv, NEW k \in DOMAIN flights, flights[k].type \notin {"GET_STATE", "LIST_ITEMS"},
           flights[k] \notin Reloading, SameScreen, flights' = RemoveAt(flights, k),
           UNCHANGED <<standing, saved, tab, news, astray>>
    PROVE  PopupInv'
<1>0. PopupTypes /\ HandsOwn /\ ScreenFollows /\ RowsFollow /\ NothingShown
    BY DEF PopupInv
<1>1. /\ flights' \in Seq(FlightRecords)
      /\ \A H : Meets(flights', H) => Meets(flights, H)
      /\ \A H : flights[k] \notin H /\ Meets(flights, H) => Meets(flights', H)
      /\ flights[k] \notin StateCalls /\ EndsOn(flights, StateCalls, Current) => EndsOn(flights', StateCalls, Current)
    BY <1>0, LeftUnderWay
<1>2. flights[k] \notin StateCalls /\ flights[k] \notin Closing /\ flights[k] \notin Counting /\ flights[k] \notin Good
    BY DEF StateCalls, Closing, Counting, Good
<1>3. /\ popup' \in PopupRecords
      /\ popup'.rows = popup.rows /\ popup'.toast = popup.toast /\ popup'.screen = popup.screen
      /\ popup'.filtered = popup.filtered /\ popup'.timer = popup.timer
      /\ popup'.dialog = popup.dialog /\ popup'.dialogMine = popup.dialogMine
    BY DEF SameScreen
<1>4. PopupTypes' /\ HandsOwn'
    BY <1>0, <1>1, <1>3 DEF PopupTypes, HandsOwn
<1>5. (Repainting' <=> Repainting) /\ Current' = Current /\ Good' = Good /\ (RowsAreFound' <=> RowsAreFound)
    BY <1>3 DEF Repainting, Current, Good, RowsAreFound, Finds
<1>6. ScreenFollows'
    BY <1>0, <1>1, <1>2, <1>3, <1>5 DEF ScreenFollows
<1>7. NothingShown'
    BY <1>0, <1>1, <1>2, <1>3, <1>5 DEF NothingShown
<1>8. RowsFollow'
  <2>1. Counting \ Good' = Counting \ Good
      BY <1>5
  <2>2. /\ Meets(flights, StateCalls) => Meets(flights', StateCalls)
        /\ Meets(flights, Reloading) => Meets(flights', Reloading)
        /\ Meets(flights, Good) => Meets(flights', Good)
        /\ Meets(flights', Counting \ Good) => Meets(flights, Counting \ Good)
      BY <1>1, <1>2
  <2>3. popup'.screen = popup.screen /\ popup'.timer = popup.timer /\ standing' = standing /\ astray' = astray
      BY <1>3
  <2>4. QED
      BY <1>0, <1>5, <2>1, <2>2, <2>3 DEF RowsFollow
<1>9. QED
    BY <1>4, <1>6, <1>7, <1>8 DEF PopupInv

LEMMA SameNotice ==
    ASSUME PopupTypes, NEW notice \in {"none", "danger", "saved", "info"}, NEW about \in AnItem
    PROVE  /\ popup' = popup => SameScreen
           /\ popup' = [popup EXCEPT !.notice = notice] => SameScreen
           /\ popup' = [popup EXCEPT !.notice = notice, !.about = about] => SameScreen
  BY ScreenIsARecord, NoticeChanges

LEMMA LookupArrivesStep ==
    ASSUME PopupInv, NEW k \in DOMAIN flights, flights[k].answer # NoCall, LookupArrives(k),
           UNCHANGED <<standing, saved, tab, news>>
    PROVE  PopupInv'
<1> DEFINE x == flights[k]
<1>0. PopupTypes /\ x \in FlightRecords
    BY CallsAreCalls DEF PopupInv
<1>1. x.type = "LOOKUP_ACTIVE_TAB" /\ flights' = RemoveAt(flights, k) /\ astray' = astray
    BY DEF LookupArrives
<1>2. popup' = popup \/ popup' = [popup EXCEPT !.notice = "saved", !.about = x.answer.item]
    BY DEF LookupArrives
<1>3. x.answer.item \in AnItem
    BY <1>0 DEF FlightRecords, Replies, AnItem
<1>4. SameScreen
    BY <1>0, <1>2, <1>3, SameNotice
<1>5. x \notin Reloading
    BY <1>1 DEF Reloading, Changes
<1>6. QED
    BY <1>1, <1>4, <1>5, QuietArrival

(* The rows are asked for anew by the answer of a change.                   *)
LEMMA ReloadArrival ==
    ASSUME PopupInv, NEW k \in DOMAIN flights, flights[k].type \in Changes, NEW about \in AnItem,
           about # NoBookmark => flights[k] \in Telling,
           popup' \in PopupRecords, flights' = Reload(RemoveAt(flights, k), about, popup'.filtered),
           popup'.rows = popup.rows, popup'.toast = popup.toast, popup'.screen = popup.screen,
           popup'.dialog = popup.dialog, popup'.dialogMine = popup.dialogMine,
           UNCHANGED <<standing, saved, tab, news, astray>>
    PROVE  PopupInv'
<1> DEFINE q == RemoveAt(flights, k)
<1>0. PopupTypes
    BY DEF PopupInv
<1>1. flights[k] \notin StateCalls /\ flights[k] \notin Closing
    BY DEF StateCalls, Closing, Changes
<1>2. /\ q \in Seq(FlightRecords)
      /\ \A H : Meets(q, H) => Meets(flights, H)
      /\ \A H : flights[k] \notin H /\ Meets(flights, H) => Meets(q, H)
      /\ EndsOn(flights, StateCalls, Current) => EndsOn(q, StateCalls, Current)
    BY <1>0, <1>1, LeftUnderWay
<1>3. flights' = Reload(q, about, popup'.filtered)
    OBVIOUS
<1> HIDE DEF q
<1>4. Meets(flights, StateCalls) <=> Meets(q, StateCalls)
    BY <1>1, <1>2
<1>5. Meets(flights, Closing) => Meets(q, Closing)
    BY <1>1, <1>2
<1>6. Meets(q, Telling) \/ about # NoBookmark => Meets(flights, Telling)
    BY <1>2 DEF Meets
<1>7. Meets(q, Strays) => Meets(flights, Strays)
    BY <1>2
<1>8. QED
    BY <1>2, <1>3, <1>4, <1>5, <1>6, <1>7, Reloaded

LEMMA AddArrivesStep ==
    ASSUME PopupInv, NEW k \in DOMAIN flights, flights[k].answer # NoCall, AddArrives(k),
           UNCHANGED <<standing, saved, tab, news>>
    PROVE  PopupInv'
<1> DEFINE x == flights[k]
<1>0. PopupTypes /\ x \in FlightRecords /\ tab \in AnItem /\ NoBookmark \in AnItem /\ popup \in PopupRecords
    BY CallsAreCalls, ScreenIsARecord DEF PopupInv, PopupTypes
<1>1. x.type = "ADD_ACTIVE_TAB" /\ astray' = astray
    BY DEF AddArrives
<1>2. CASE ~x.mine
  <2>1. popup' = popup /\ flights' = RemoveAt(flights, k)
      BY <1>2 DEF AddArrives
  <2>2. x \notin Reloading
      BY <1>2 DEF Reloading
  <2>3. QED
      BY <1>0, <1>1, <2>1, <2>2, SameNotice, QuietArrival
<1>3. CASE x.mine /\ x.answer.code \in {"ERROR", "duplicate"}
  <2>1. /\ \/ popup' = [popup EXCEPT !.notice = "danger"]
           \/ popup' = [popup EXCEPT !.notice = "saved", !.about = tab]
        /\ flights' = RemoveAt(flights, k)
      BY <1>3 DEF AddArrives
  <2>2. x \notin Reloading
      BY <1>3 DEF Reloading
  <2>3. SameScreen
      BY <1>0, <2>1, SameNotice
  <2>4. QED
      BY <1>1, <2>1, <2>2, <2>3, QuietArrival
<1>4. CASE x.mine /\ x.answer.code \notin {"ERROR", "duplicate"}
  <2>1. /\ popup' = [popup EXCEPT !.notice = "info", !.filtered = FALSE]
        /\ flights' = Reload(RemoveAt(flights, k), NoBookmark, FALSE)
      BY <1>4 DEF AddArrives
  <2>2. /\ popup' \in PopupRecords /\ popup'.filtered = FALSE
        /\ popup'.rows = popup.rows /\ popup'.toast = popup.toast /\ popup'.screen = popup.screen
        /\ popup'.dialog = popup.dialog /\ popup'.dialogMine = popup.dialogMine
      BY <1>0, <2>1 DEF PopupRecords
  <2>3. x.type \in Changes
      BY <1>1 DEF Changes
  <2>4. QED
      BY <1>0, <1>1, <2>1, <2>2, <2>3, ReloadArrival
<1>5. QED
    BY <1>2, <1>3, <1>4

LEMMA EditArrivesStep ==
    ASSUME PopupInv, NEW k \in DOMAIN flights, flights[k].answer # NoCall, EditArrives(k),
           UNCHANGED <<standing, saved, tab, news>>
    PROVE  PopupInv'
<1> DEFINE x == flights[k]
           failed == x.answer.code = "ERROR"
           deleted == x.type = "DELETE_ITEMS"
<1>0. PopupTypes /\ x \in FlightRecords /\ NoBookmark \in AnItem /\ popup \in PopupRecords
    BY CallsAreCalls, ScreenIsARecord DEF PopupInv
<1>1. x.type \in {"DELETE_ITEMS", "RESTORE_ITEMS"} /\ astray' = astray
    BY DEF EditArrives
<1>2. CASE ~x.mine
  <2>1. popup' = popup /\ flights' = RemoveAt(flights, k)
      BY <1>2 DEF EditArrives
  <2>2. x \notin Reloading
      BY <1>2 DEF Reloading
  <2>3. QED
      BY <1>0, <1>1, <2>1, <2>2, SameNotice, QuietArrival
<1>3. ASSUME x.mine
      PROVE  /\ popup' = (IF failed THEN [popup EXCEPT !.notice = "danger"] ELSE popup)
             /\ flights' = IF failed /\ deleted THEN RemoveAt(flights, k)
                           ELSE Reload(RemoveAt(flights, k), IF deleted THEN x.about ELSE NoBookmark, popup.filtered)
    BY <1>3 DEF EditArrives
<1>4. x.mine => SameScreen
    BY <1>0, <1>3, SameNotice
<1>5. CASE x.mine /\ failed /\ deleted
  <2>1. x \notin Reloading
      BY <1>5 DEF Reloading
  <2>2. QED
      BY <1>1, <1>3, <1>4, <1>5, <2>1, QuietArrival
<1>6. CASE x.mine /\ ~(failed /\ deleted)
  <2> DEFINE about == IF deleted THEN x.about ELSE NoBookmark
  <2>1. about \in AnItem /\ x.type \in Changes
      BY <1>0, <1>1 DEF FlightRecords, Changes
  <2>2. about # NoBookmark => x \in Telling
      BY <1>0, <1>6 DEF Telling
  <2>3. /\ popup' \in PopupRecords /\ popup'.filtered = popup.filtered
        /\ popup'.rows = popup.rows /\ popup'.toast = popup.toast /\ popup'.screen = popup.screen
        /\ popup'.dialog = popup.dialog /\ popup'.dialogMine = popup.dialogMine
      BY <1>4, <1>6 DEF SameScreen
  <2>4. flights' = Reload(RemoveAt(flights, k), about, popup'.filtered)
      BY <1>3, <1>6, <2>3
  <2> HIDE DEF about
  <2>5. QED
      BY <1>1, <2>1, <2>2, <2>3, <2>4, ReloadArrival
<1>7. QED
    BY <1>2, <1>5, <1>6

LEMMA OtherArrivesStep ==
    ASSUME PopupInv, NEW k \in DOMAIN flights, flights[k].answer # NoCall, OtherArrives(k),
           UNCHANGED <<standing, saved, tab, news>>
    PROVE  PopupInv'
<1> DEFINE x == flights[k]
<1>0. PopupTypes /\ NoBookmark \in AnItem
    BY ScreenIsARecord DEF PopupInv
<1>1. x.type \in {"OPEN_ITEM", "REFRESH_THUMB", "SET_SETTINGS", "LOCK", "UNLOCK", "CREATE_VAULT"} /\ astray' = astray
    BY DEF OtherArrives
<1>2. \/ popup' = [popup EXCEPT !.screen = "closed", !.rows = {}] /\ flights' = <<>>
      \/ /\ flights' = RemoveAt(flights, k)
         /\ popup' = popup \/ \E notice \in {"danger", "info"} : popup' = [popup EXCEPT !.notice = notice]
      \/ popup' = popup /\ flights' = Refresh(RemoveAt(flights, k))
    BY <1>1 DEF OtherArrives
<1>3. CASE popup' = [popup EXCEPT !.screen = "closed", !.rows = {}] /\ flights' = <<>>
    BY <1>1, <1>3, PopupCloses
<1>4. CASE /\ flights' = RemoveAt(flights, k)
           /\ popup' = popup \/ \E notice \in {"danger", "info"} : popup' = [popup EXCEPT !.notice = notice]
  <2>1. x \notin Reloading
      BY <1>1 DEF Reloading, Changes
  <2>2. SameScreen
      BY <1>0, <1>4, SameNotice
  <2>3. QED
      BY <1>1, <1>4, <2>1, <2>2, QuietArrival
<1>5. CASE popup' = popup /\ flights' = Refresh(RemoveAt(flights, k))
    BY <1>0, <1>1, <1>5, LeftUnderWay, AsksForTheState
<1>6. QED
    BY <1>2, <1>3, <1>4, <1>5

(* The rows arrive: those of the last reload() are shown.                   *)
LEMMA ListArrivesStep ==
    ASSUME PopupInv, NEW k \in DOMAIN flights, flights[k].answer # NoCall, ListArrives(k),
           UNCHANGED <<standing, saved, tab, news>>
    PROVE  PopupInv'
<1> DEFINE x == flights[k]
<1>0. PopupTypes /\ HandsOwn /\ ScreenFollows /\ RowsFollow /\ NothingShown
    BY DEF PopupInv
<1>1. x \in FlightRecords /\ x.answer # NoCall /\ popup \in PopupRecords
    BY <1>0, CallsAreCalls, ScreenIsARecord
<1>2. x.type = "LIST_ITEMS" /\ flights' = RemoveAt(flights, k) /\ astray' = astray
    BY DEF ListArrives
<1>3. x.answer \in Replies
    BY <1>1 DEF FlightRecords
<1>4. x.about \in AnItem /\ x.answer.rows \subseteq Bookmarks
    BY <1>1, <1>3 DEF FlightRecords, Replies
<1> DEFINE shown == IF ~(x.mine /\ x.latest) THEN popup
                    ELSE IF x.answer.code = "ERROR" THEN [popup EXCEPT !.rows = {}, !.notice = "danger"]
                    ELSE [popup EXCEPT !.rows = x.answer.rows]
<1>5. popup' = IF x.mine /\ x.about # NoBookmark THEN [shown EXCEPT !.toast = x.about] ELSE shown
    BY DEF ListArrives, Counts
<1>6. /\ shown \in PopupRecords /\ shown.screen = popup.screen /\ shown.filtered = popup.filtered
      /\ shown.timer = popup.timer /\ shown.dialog = popup.dialog /\ shown.dialogMine = popup.dialogMine
      /\ shown.toast = popup.toast
    BY <1>1, <1>4 DEF PopupRecords
<1>7. /\ ~(x.mine /\ x.latest) => shown.rows = popup.rows
      /\ x.mine /\ x.latest /\ x.answer.code = "ERROR" => shown.rows = {}
      /\ x.mine /\ x.latest /\ x.answer.code # "ERROR" => shown.rows = x.answer.rows
    BY <1>1, <1>4 DEF PopupRecords
<1> HIDE DEF shown
<1>8. /\ popup' \in PopupRecords /\ popup'.screen = popup.screen /\ popup'.filtered = popup.filtered
      /\ popup'.timer = popup.timer /\ popup'.dialog = popup.dialog /\ popup'.dialogMine = popup.dialogMine
      /\ popup'.rows = shown.rows
    BY <1>4, <1>5, <1>6 DEF PopupRecords
<1>9. ~(x.mine /\ x.about # NoBookmark) => popup'.toast = popup.toast
    BY <1>5, <1>6
<1>10. /\ flights' \in Seq(FlightRecords)
       /\ \A H : Meets(flights', H) => Meets(flights, H)
       /\ \A H : x \notin H /\ Meets(flights, H) => Meets(flights', H)
       /\ x \notin StateCalls /\ EndsOn(flights, StateCalls, Current) => EndsOn(flights', StateCalls, Current)
    BY <1>0, <1>2, LeftUnderWay
<1>11. x \notin StateCalls /\ x \notin Closing /\ x \notin Reloading
    BY <1>2 DEF StateCalls, Closing, Reloading, Changes
<1>12. (Repainting' <=> Repainting) /\ Current' = Current
    BY DEF Repainting, Current
<1>13. PopupTypes' /\ HandsOwn'
    BY <1>0, <1>2, <1>8, <1>10 DEF PopupTypes, HandsOwn
<1>14. ScreenFollows'
    BY <1>0, <1>2, <1>8, <1>10, <1>11, <1>12 DEF ScreenFollows
<1>15. NothingShown'
  <2> SUFFICES ASSUME popup.screen # "closed", standing # "open", ~Repainting, ~Meets(flights', Closing)
               PROVE  /\ popup'.rows = {} /\ popup'.toast = NoBookmark
                      /\ popup'.dialog # NoBookmark => ~popup'.dialogMine
                      /\ ~Meets(flights', Telling)
      BY <1>8, <1>12 DEF NothingShown
  <2>1. /\ popup.rows = {} /\ popup.toast = NoBookmark
        /\ popup.dialog # NoBookmark => ~popup.dialogMine
        /\ ~Meets(flights, Telling)
      BY <1>0, <1>10, <1>11 DEF NothingShown
  <2>2. x \notin Telling
      BY <2>1 DEF Meets
  <2>3. x.mine => x.about = NoBookmark /\ x.answer.code = "ERROR"
      BY <1>1, <1>2, <2>2 DEF Telling
  <2>4. popup'.rows = {}
      BY <1>7, <1>8, <2>1, <2>3
  <2>5. QED
      BY <1>8, <1>9, <1>10, <2>1, <2>3, <2>4
<1>16. RowsFollow'
  <2> SUFFICES ASSUME popup.screen = "vault", ~astray, standing = "open", ~Repainting, ~Meets(flights', StateCalls),
                      ~Meets(flights', Reloading), ~popup.timer
               PROVE  ~Meets(flights', Counting \ Good') /\ (Meets(flights', Good') \/ RowsAreFound')
      BY <1>2, <1>8, <1>12 DEF RowsFollow
  <2>1. ~Meets(flights, Counting \ Good) /\ (Meets(flights, Good) \/ RowsAreFound)
      BY <1>0, <1>10, <1>11 DEF RowsFollow
  <2>3. Good' = Good
      BY <1>8 DEF Good, Finds
  <2>4. Counting \ Good' = Counting \ Good
      BY <2>3
  <2>5. CASE x \in Counting
    <3>1. x \in Good
        BY <2>1, <2>5 DEF Meets
    <3>2. popup'.rows = Finds(popup.filtered)
        BY <1>1, <1>7, <1>8, <3>1 DEF Good, Counting
    <3>3. RowsAreFound'
        BY <1>8, <3>2 DEF RowsAreFound, Finds
    <3>4. QED
        BY <1>10, <2>1, <2>3, <2>4, <3>3
  <2>6. CASE x \notin Counting
    <3>1. popup'.rows = popup.rows
        BY <1>1, <1>2, <1>7, <1>8, <2>6 DEF Counting
    <3>2. RowsAreFound => RowsAreFound'
        BY <1>8, <3>1 DEF RowsAreFound, Finds
    <3>3. x \notin Good
        BY <2>6 DEF Good
    <3>4. QED
        BY <1>10, <2>1, <2>3, <2>4, <3>2, <3>3
  <2>7. QED
      BY <2>5, <2>6
<1>17. QED
    BY <1>13, <1>14, <1>15, <1>16 DEF PopupInv

(* What a state shows.                                                     *)
LEMMA ShellShows ==
    ASSUME PopupTypes, NEW code \in Standings \cup {"ERROR"}
    PROVE  /\ Shell(code) \in PopupRecords
           /\ Shell(code).rows = {} /\ Shell(code).toast = NoBookmark /\ Shell(code).dialog = popup.dialog
           /\ Shell(code).dialogMine = FALSE /\ Shell(code).filtered = FALSE /\ Shell(code).timer = FALSE
           /\ code \in Standings => Shell(code).screen \in Screens[code]
<1> DEFINE screen == CASE code = "none" -> "create" [] code = "adoptable" -> "adopt" [] code = "locked" -> "unlock"
                       [] code = "ERROR" -> "error" [] code = "open" /\ popup.settings -> "settings" [] OTHER -> "vault"
           next == Rendered(screen)
<1>1. popup.settings \in BOOLEAN /\ popup.dialog \in AnItem
    BY ScreenIsARecord DEF PopupRecords
<1>2. /\ screen \in {"create", "adopt", "unlock", "error", "settings", "vault"}
      /\ code \in Standings => screen \in Screens[code]
    BY DEF Standings, Screens
<1>3. Shell(code) = [next EXCEPT !.settings = popup.settings /\ code \in {"open", "ERROR"}]
    BY DEF Shell
<1> HIDE DEF screen
<1>4. next \in PopupRecords
    BY <1>1, <1>2 DEF Rendered, PopupRecords, AnItem
<1>5. /\ next.screen = screen /\ next.rows = {} /\ next.toast = NoBookmark /\ next.dialog = popup.dialog
      /\ next.dialogMine = FALSE /\ next.filtered = FALSE /\ next.timer = FALSE
    BY DEF Rendered
<1> HIDE DEF next
<1>6. (popup.settings /\ code \in {"open", "ERROR"}) \in BOOLEAN
    OBVIOUS
<1>7. Shell(code) \in PopupRecords
    BY <1>3, <1>4, <1>6 DEF PopupRecords
<1>8. /\ Shell(code).screen = screen /\ Shell(code).rows = {} /\ Shell(code).toast = NoBookmark
      /\ Shell(code).dialog = popup.dialog
      /\ Shell(code).dialogMine = FALSE /\ Shell(code).filtered = FALSE /\ Shell(code).timer = FALSE
    BY <1>3, <1>4, <1>5 DEF PopupRecords
<1>9. QED
    BY <1>2, <1>7, <1>8

LEMMA AskedAfresh ==
    ASSUME NEW q \in Seq(FlightRecords),
           flights' = Append(Reload(Detached(q), NoBookmark, FALSE), Ask("LOOKUP_ACTIVE_TAB", NoBookmark, FALSE))
    PROVE  /\ Meets(flights', JustAsked(FALSE))
           /\ ~Meets(flights', Counting \ JustAsked(FALSE))
<1> DEFINE r == Reload(Detached(q), NoBookmark, FALSE)
           e == Ask("LOOKUP_ACTIVE_TAB", NoBookmark, FALSE)
<1>1. NoBookmark \in AnItem /\ FALSE \in BOOLEAN /\ "LOOKUP_ACTIVE_TAB" \in FlightTypes
    BY DEF AnItem, FlightTypes
<1>2. Detached(q) \in Seq(FlightRecords)
    BY DetachedCalls
<1>3. /\ r \in Seq(FlightRecords)
      /\ Meets(r, JustAsked(FALSE))
      /\ ~Meets(r, Counting \ JustAsked(FALSE))
    BY <1>1, <1>2, ReloadCalls
<1>4. e \in FlightRecords /\ e.type = "LOOKUP_ACTIVE_TAB"
    BY <1>1, AskIsACall
<1>5. flights' = Append(r, e)
    OBVIOUS
<1> HIDE DEF r, e
<1>6. e \notin Counting \ JustAsked(FALSE)
    BY <1>4 DEF Counting
<1>7. \A H : Meets(Append(r, e), H) <=> (Meets(r, H) \/ e \in H)
    BY <1>3, <1>4, AppendMeets
<1>8. QED
    BY <1>3, <1>5, <1>6, <1>7

(* The calls after a state has been shown.                                  *)
LEMMA ShownCalls ==
    ASSUME NEW q \in Seq(FlightRecords),
           \/ flights' = Append(Reload(Detached(q), NoBookmark, FALSE), Ask("LOOKUP_ACTIVE_TAB", NoBookmark, FALSE))
           \/ flights' = Detached(q)
    PROVE  /\ flights' \in Seq(FlightRecords)
           /\ Meets(flights', StateCalls) => Meets(q, StateCalls)
           /\ EndsOn(q, StateCalls, Current) => EndsOn(flights', StateCalls, Current)
           /\ ~Meets(flights', Telling)
           /\ Meets(flights', Strays) => \E k \in DOMAIN q : q[k].type \in Changes
<1> DEFINE d == Detached(q)
           r == Reload(d, NoBookmark, FALSE)
           e == Ask("LOOKUP_ACTIVE_TAB", NoBookmark, FALSE)
<1>1. /\ d \in Seq(FlightRecords)
      /\ Meets(d, StateCalls) => Meets(q, StateCalls)
      /\ EndsOn(q, StateCalls, Current) => EndsOn(d, StateCalls, Current)
      /\ ~Meets(d, Telling) /\ ~Meets(d, Counting)
      /\ Meets(d, Strays) => \E k \in DOMAIN q : q[k].type \in Changes
    BY DetachedCalls
<1>2. NoBookmark \in AnItem /\ FALSE \in BOOLEAN /\ "LOOKUP_ACTIVE_TAB" \in FlightTypes
    BY DEF AnItem, FlightTypes
<1>3. flights' = Append(r, e) \/ flights' = d
    OBVIOUS
<1> HIDE DEF d
<1>4. /\ r \in Seq(FlightRecords)
      /\ Meets(r, StateCalls) <=> Meets(d, StateCalls)
      /\ EndsOn(d, StateCalls, Current) => EndsOn(r, StateCalls, Current)
      /\ Meets(r, Strays) => Meets(d, Strays)
      /\ Meets(r, Telling) => Meets(d, Telling)
      /\ Meets(r, JustAsked(FALSE))
      /\ ~Meets(r, Counting \ JustAsked(FALSE))
    BY <1>1, <1>2, ReloadCalls
<1>5. e \in FlightRecords /\ e.type = "LOOKUP_ACTIVE_TAB" /\ e.mine
    BY <1>2, AskIsACall
<1> HIDE DEF r, e
<1>6. e \notin StateCalls /\ e \notin Telling /\ e \notin Strays /\ e \notin Counting
    BY <1>5 DEF StateCalls, Telling, Strays, Counting, Changes
<1>7. /\ Append(r, e) \in Seq(FlightRecords)
      /\ \A H : Meets(Append(r, e), H) <=> (Meets(r, H) \/ e \in H)
      /\ EndsOn(r, StateCalls, Current) => EndsOn(Append(r, e), StateCalls, Current)
    BY <1>4, <1>5, <1>6, AppendMeets, AppendEnds
<1>8. CASE flights' = d
    BY <1>1, <1>8 DEF d
<1>9. CASE flights' = Append(r, e)
    BY <1>1, <1>4, <1>6, <1>7, <1>9
<1>10. QED
    BY <1>3, <1>8, <1>9

LEMMA StateArrivesStep ==
    ASSUME PopupInv, popup.screen # "closed", NEW k \in DOMAIN flights, flights[k].answer # NoCall, StateArrives(k),
           UNCHANGED <<standing, saved, tab, news>>
    PROVE  PopupInv'
<1> DEFINE x == flights[k]
           rest == RemoveAt(flights, k)
           code == x.answer.code
<1>0. PopupTypes /\ HandsOwn /\ ScreenFollows
    BY DEF PopupInv
<1>1. x \in FlightRecords /\ x.answer # NoCall /\ x.type = "GET_STATE"
    BY <1>0, CallsAreCalls DEF StateArrives
<1>2. code \in Standings \cup {"ERROR"}
    BY <1>1 DEF FlightRecords
<1>3. /\ popup' = Shell(code)
      /\ flights' = IF Shell(code).screen = "vault"
                    THEN Append(Reload(Detached(rest), NoBookmark, FALSE), Ask("LOOKUP_ACTIVE_TAB", NoBookmark, FALSE))
                    ELSE Detached(rest)
      /\ astray' = (astray \/ Acting(rest) \/ popup.dialog # NoBookmark
                       \/ \E j \in 1 .. (k - 1) : flights[j].type = "GET_STATE")
    BY DEF StateArrives
<1>4. /\ rest \in Seq(FlightRecords)
      /\ \A H : Meets(rest, H) => Meets(flights, H)
    BY <1>0, LeftUnderWay
<1>5. /\ Shell(code) \in PopupRecords
      /\ Shell(code).rows = {} /\ Shell(code).toast = NoBookmark /\ Shell(code).dialog = popup.dialog
      /\ Shell(code).dialogMine = FALSE /\ Shell(code).filtered = FALSE /\ Shell(code).timer = FALSE
      /\ code \in Standings => Shell(code).screen \in Screens[code]
    BY <1>0, <1>2, ShellShows
<1>6. /\ flights' \in Seq(FlightRecords)
      /\ Meets(flights', StateCalls) => Meets(rest, StateCalls)
      /\ EndsOn(rest, StateCalls, Current) => EndsOn(flights', StateCalls, Current)
      /\ ~Meets(flights', Telling)
      /\ Meets(flights', Strays) => \E j \in DOMAIN rest : rest[j].type \in Changes
    BY <1>3, <1>4, ShownCalls
<1>7. /\ EndsOn(flights, StateCalls, Current) /\ (\A j \in 1 .. (k - 1) : flights[j] \notin StateCalls) =>
            EndsOn(rest, StateCalls, Current) \/ (x \in Current /\ ~Meets(rest, StateCalls))
  <2>1. flights \in Seq(FlightRecords)
      BY <1>0, CallsAreCalls
  <2>2. QED
      BY <2>1, RemoveEnds
<1>8. Acting(rest) <=> \E j \in DOMAIN rest : rest[j].mine /\ rest[j].type \in Changes
    BY DEF Acting, Changes
<1>9. \A j \in DOMAIN rest : rest[j] \in FlightRecords
    BY <1>4
<1>10. PopupTypes'
    BY <1>0, <1>3, <1>5, <1>6 DEF PopupTypes
<1> HIDE DEF rest, code
<1>11. HandsOwn'
  <2> SUFFICES ASSUME ~astray'
               PROVE  ~Meets(flights', Strays) /\ popup'.dialog = NoBookmark
      BY DEF HandsOwn
  <2>1. ~astray /\ ~Acting(rest) /\ popup.dialog = NoBookmark
      BY <1>3
  <2>2. ~Meets(rest, Strays)
      BY <1>0, <1>4, <2>1 DEF HandsOwn
  <2>3. \A j \in DOMAIN rest : rest[j].type \notin Changes
      BY <1>8, <1>9, <2>1, <2>2 DEF Meets, Strays
  <2>4. QED
      BY <1>3, <1>5, <1>6, <2>1, <2>3
<1>12. ScreenFollows'
  <2> SUFFICES ASSUME ~astray', ~Repainting
               PROVE  \/ EndsOn(flights', StateCalls, Current)
                      \/ ~Meets(flights', StateCalls) /\ popup'.screen \in Screens[standing]
    <3>1. Current' = Current /\ (Repainting' <=> Repainting)
        BY DEF Current, Repainting
    <3>2. QED
        BY <3>1 DEF ScreenFollows
  <2>1. ~astray /\ \A j \in 1 .. (k - 1) : flights[j] \notin StateCalls
      BY <1>3 DEF StateCalls
  <2>2. Meets(flights, StateCalls)
      BY <1>1 DEF Meets, StateCalls
  <2>3. EndsOn(flights, StateCalls, Current)
      BY <1>0, <2>1, <2>2 DEF ScreenFollows
  <2>4. EndsOn(rest, StateCalls, Current) \/ (x \in Current /\ ~Meets(rest, StateCalls))
      BY <1>7, <2>1, <2>3
  <2>5. x \in Current => code = standing
      BY <1>1 DEF Current, code
  <2>6. standing \in Standings
      BY <1>0 DEF PopupTypes
  <2>7. QED
      BY <1>3, <1>5, <1>6, <2>4, <2>5, <2>6
<1>13. RowsFollow'
  <2> SUFFICES ASSUME popup'.screen = "vault"
               PROVE  ~Meets(flights', Counting \ Good') /\ Meets(flights', Good')
      BY DEF RowsFollow
  <2>1. flights' = Append(Reload(Detached(rest), NoBookmark, FALSE), Ask("LOOKUP_ACTIVE_TAB", NoBookmark, FALSE))
      BY <1>3
  <2>2. /\ Meets(flights', JustAsked(FALSE))
        /\ ~Meets(flights', Counting \ JustAsked(FALSE))
      BY <1>4, <2>1, AskedAfresh
  <2>3. \A y \in JustAsked(FALSE) : y \in Good'
      BY <1>3, <1>5 DEF JustAsked, Good, Counting
  <2>4. QED
      BY <2>2, <2>3 DEF Meets
<1>14. NothingShown'
    BY <1>3, <1>5, <1>6 DEF NothingShown
<1>15. QED
    BY <1>10, <1>11, <1>12, <1>13, <1>14 DEF PopupInv

LEMMA ArrivesStep ==
    ASSUME PopupInv, popup.screen # "closed", NEW k \in DOMAIN flights, Arrives(k)
    PROVE  PopupInv'
<1>1. flights[k].answer # NoCall /\ UNCHANGED <<standing, saved, tab, news, happened>>
    BY DEF Arrives
<1>2. CASE StateArrives(k)
    BY <1>1, <1>2, StateArrivesStep
<1>3. CASE ListArrives(k)
    BY <1>1, <1>3, ListArrivesStep
<1>4. CASE LookupArrives(k)
    BY <1>1, <1>4, LookupArrivesStep
<1>5. CASE AddArrives(k)
    BY <1>1, <1>5, AddArrivesStep
<1>6. CASE EditArrives(k)
    BY <1>1, <1>6, EditArrivesStep
<1>7. CASE OtherArrives(k)
    BY <1>1, <1>7, OtherArrivesStep
<1>8. QED
    BY <1>2, <1>3, <1>4, <1>5, <1>6, <1>7 DEF Arrives

LEMMA PopupInitInv == PopupInit => PopupInv
<1> SUFFICES ASSUME PopupInit PROVE PopupInv
    OBVIOUS
<1>1. flights = Refresh(<<>>) /\ <<>> \in Seq(FlightRecords) /\ ~Meets(<<>>, Strays)
    BY DEF PopupInit, Meets
<1>2. /\ flights \in Seq(FlightRecords)
      /\ Meets(flights, Closing) /\ EndsOn(flights, StateCalls, Current)
      /\ ~Meets(flights, Strays)
    BY <1>1, RefreshedCalls
<1>3. popup \in PopupRecords /\ popup.dialog = NoBookmark /\ popup.screen = "loading"
    BY DEF PopupInit, PopupRecords, AnItem
<1>4. /\ standing \in Standings /\ saved \in [Bookmarks -> {"never", "live", "gone"}]
      /\ tab \in AnItem /\ news = {} /\ astray \in BOOLEAN
    BY DEF PopupInit, Standings, AnItem
<1>5. PopupTypes
    BY <1>2, <1>3, <1>4 DEF PopupTypes
<1>6. HandsOwn /\ ScreenFollows /\ RowsFollow /\ NothingShown
    BY <1>2, <1>3 DEF HandsOwn, ScreenFollows, RowsFollow, NothingShown
<1>7. QED
    BY <1>5, <1>6 DEF PopupInv

LEMMA PopupNextInv == PopupInv /\ [PopupNext]_popups => PopupInv'
<1> SUFFICES ASSUME PopupInv, [PopupNext]_popups PROVE PopupInv'
    OBVIOUS
<1>1. CASE UNCHANGED popups
  <2>1. UNCHANGED <<standing, saved, tab, popup, flights, news, astray>>
      BY <1>1 DEF popups
  <2>2. /\ Repainting' <=> Repainting
        /\ RowsAreFound' <=> RowsAreFound
        /\ Current' = Current /\ Good' = Good
      BY <2>1 DEF Repainting, RowsAreFound, Finds, Current, Good
  <2>3. PopupTypes' /\ HandsOwn' /\ ScreenFollows' /\ NothingShown'
      BY <2>1, <2>2 DEF PopupInv, PopupTypes, HandsOwn, ScreenFollows, NothingShown
  <2>4. RowsFollow'
      BY <2>1, <2>2 DEF PopupInv, RowsFollow
  <2>5. QED
      BY <2>3, <2>4 DEF PopupInv
<1>2. CASE PopupNext
    BY <1>2, ServesStep, LosesAnswerStep, ArrivesStep, GesturesStep, AnswersDialogStep, FilterSettlesStep, OfferEndsStep,
       HearsNewsStep, HappensElsewhereStep DEF PopupNext
<1>3. QED
    BY <1>1, <1>2

LEMMA PopupInvTells == PopupInv => PopupTellsTheTruth
<1> SUFFICES ASSUME PopupInv, Settled PROVE PopupTellsTheTruth
    BY DEF PopupTellsTheTruth, SettledPopupShowsTheVault, LockedPopupShowsNothing
<1>1. \A H : ~Meets(flights, H)
    BY DEF Settled, Meets
<1>2. ~Repainting
    BY DEF Settled, Repainting
<1>3. \A G : ~EndsOn(flights, StateCalls, G)
    BY DEF Settled, EndsOn
<1>4. ~astray => popup.screen \in Screens[standing]
    BY <1>2, <1>3 DEF PopupInv, ScreenFollows, Settled
<1>5. ~astray /\ popup.screen = "vault" => standing = "open"
    BY <1>4 DEF PopupInv, PopupTypes, Standings, Screens
<1>6. ~astray /\ popup.screen = "vault" => popup.rows = Finds(popup.filtered)
    BY <1>1, <1>2, <1>5 DEF PopupInv, RowsFollow, RowsAreFound, Settled
<1>7. standing # "open" => popup.rows = {} /\ popup.toast = NoBookmark
    BY <1>1, <1>2 DEF PopupInv, NothingShown, Settled
<1>8. QED
    BY <1>4, <1>6, <1>7 DEF PopupTellsTheTruth, SettledPopupShowsTheVault, LockedPopupShowsNothing

(* Whatever is asked, answered in any order, lost or broadcast: a popup     *)
(* with nothing under way shows the screen of the vault's state and the     *)
(* rows its filter finds, unless something went on that it cannot know of,  *)
(* and over a vault that is not open it never has a row or an undo left,    *)
(* whatever went on: what the render of popup/popup.ts, the token of        *)
(* reload() and the repaint broadcasts are for.                             *)
THEOREM PopupAlwaysTellsTheTruth == PopupInit /\ [][PopupNext]_popups => []PopupTellsTheTruth
<1>1. PopupInit /\ [][PopupNext]_popups => []PopupInv
    BY PopupInitInv, PopupNextInv, PTL
<1>2. QED
    BY <1>1, PopupInvTells, PTL

(***************************** addresses saved twice *********************)

RequestRecords ==
    [type : {"list", "delete", "restore"}, ids : SUBSET Copies, warned : SUBSET Addresses, at : {"sent", "answered"},
     ok : BOOLEAN, groups : Seq(Seq(Copies)), mine : BOOLEAN]
ProposalRecords == [groups : Seq(Seq(Copies)), ticked : SUBSET Copies, state : {"loading", "shown", "refused"}]
QuestionRecords == [ids : SUBSET Copies, warned : SUBSET Addresses, mine : BOOLEAN, fresh : BOOLEAN]
StoryRecords ==
    [elsewhere : BOOLEAN, refused : BOOLEAN, overlapped : BOOLEAN, crossed : BOOLEAN,
     gone : SUBSET Copies, unasked : SUBSET Addresses, raised : SUBSET Copies]

ListedIn(groups) == UNION {ToSet(groups[n]) : n \in DOMAIN groups}
OneAddressEach(groups) ==
    \A n \in DOMAIN groups : groups[n] # <<>> /\ \A copy \in ToSet(groups[n]) : DuplicateKey(copy) = DuplicateKey(Head(groups[n]))

(* A screen, and an answer on its way, groups copies by address, and ticks  *)
(* are of what is listed.                                                   *)
DuplicatesTypes ==
    /\ shelf \in SUBSET Copies
    /\ proposal \in ProposalRecords \cup {NotShown}
    /\ question \in QuestionRecords \cup {NoQuestion}
    /\ offer \in {NoOffer} \cup SUBSET Copies
    /\ requests \in Seq(RequestRecords)
    /\ story \in StoryRecords
    /\ \A x \in ToSet(requests) : OneAddressEach(x.groups)
    /\ proposal # NotShown => OneAddressEach(proposal.groups) /\ proposal.ticked \subseteq ListedIn(proposal.groups)

Undisturbed == ~story.elsewhere /\ ~story.overlapped

(* Lists that will be painted, removals to be served, and those of a copy  *)
(* that are served while their answer, and the reload behind it, is to come.*)
Paints == {x \in RequestRecords : x.type = "list" /\ x.mine}
Removals == {x \in RequestRecords : x.type = "delete" /\ x.at = "sent"}
Removed(copy) == {x \in RequestRecords : x.type = "delete" /\ x.mine /\ x.at = "answered" /\ x.ok /\ copy \in x.ids}

(* The question is about what is ticked, as long as nothing was painted.    *)
QuestionIsTheScreens ==
    question # NoQuestion =>
        /\ proposal # NotShown
        /\ question.mine /\ question.fresh => question.ids = proposal.ticked /\ question.warned = Emptied(proposal)

(* What is not there was removed from here, and can be raised again.        *)
NothingForgotten == story.elsewhere \/ (Copies \subseteq shelf \cup story.gone /\ story.raised = {})

(* A list under way names live copies, and no removal is under way with it. *)
ListsAreLive ==
    Undisturbed => \A x \in ToSet(requests) :
        x.type = "list" /\ x.at = "answered" /\ x.ok =>
            ListedIn(x.groups) \subseteq shelf /\ ~Meets(requests, Removals)
RefusedSayNothing ==
    \A x \in ToSet(requests) : x.type = "list" /\ ~x.ok => x.groups = <<>>

(* What is removed, or will be, is ticked, as long as no reload is coming.  *)
TicksCover ==
    Undisturbed /\ proposal # NotShown =>
        /\ \A x \in ToSet(requests) : x \in Removals => (x.mine /\ x.ids \subseteq proposal.ticked) \/ proposal.groups = <<>>
        /\ Meets(requests, Paints) \/
           \A copy \in ListedIn(proposal.groups) \ shelf : copy \in proposal.ticked /\ Meets(requests, Removed(copy))

(* What a removal takes is named by its question, or a copy of it stays.    *)
LeavesOne(x) ==
    \A copy \in x.ids \cap shelf :
        DuplicateKey(copy) \in x.warned \/ \E other \in shelf \ x.ids : DuplicateKey(other) = DuplicateKey(copy)
RemovalsAreAsked ==
    Undisturbed =>
        /\ story.unasked = {}
        /\ \A x \in ToSet(requests) : x \in Removals => LeavesOne(x)
        /\ \A x, y \in ToSet(requests) : x \in Removals /\ y \in Removals => x.ids \subseteq y.ids \/ y.ids \subseteq x.ids

Calm == Undisturbed /\ ~story.crossed /\ ~story.refused
(* The last list to be painted is made of the shelf as it is, or an answer  *)
(* is to come that asks for another.                                        *)
ToBeSent == {x \in RequestRecords : x.at = "sent"}
UpToDate == {x \in RequestRecords : x.at = "sent" \/ x.groups = DuplicateGroups(shelf)}
Correcting == {x \in RequestRecords : x.type = "restore" \/ (x.type = "delete" /\ x.mine)}
ProposalFollows ==
    Calm /\ proposal # NotShown =>
        \/ Meets(requests, Correcting)
        \/ EndsOn(requests, Paints, UpToDate)
        \/ ~Meets(requests, Paints) /\ proposal.state = "shown" /\ proposal.groups = DuplicateGroups(shelf)
(* A removal asked by a screen that is gone is served before the list of    *)
(* the screen that is there.                                                *)
StraysAreRead ==
    /\ ~story.refused => \A x \in ToSet(requests) : x.at = "answered" => x.ok
    /\ Calm /\ proposal # NotShown =>
        \A x \in ToSet(requests) : x \in Removals /\ ~x.mine => EndsOn(requests, Paints, ToBeSent)

DuplicatesInv ==
    /\ DuplicatesTypes /\ QuestionIsTheScreens /\ NothingForgotten /\ ListsAreLive /\ RefusedSayNothing
    /\ TicksCover /\ RemovalsAreAsked /\ ProposalFollows /\ StraysAreRead

(***************************** the groups ********************************)

(* In a finite set in strict order each place is taken.                     *)
LEMMA RanksFill ==
    ASSUME NEW S, IsFiniteSet(S), NEW before \in [S -> SUBSET S],
           \A a \in S : a \notin before[a],
           \A a, b \in S : a \in before[b] => before[a] \subseteq before[b],
           \A a, b \in S : a = b \/ a \in before[b] \/ b \in before[a]
    PROVE  \A n \in 1 .. Cardinality(S) : \E a \in S : Cardinality(before[a]) = n - 1
<1> DEFINE size == Cardinality(S)
           rank == [a \in S |-> Cardinality(before[a])]
<1>1. size \in Nat
    BY FS_CardinalityType
<1>2. \A a \in S : IsFiniteSet(before[a]) /\ Cardinality(before[a]) \in Nat
    BY FS_Subset, FS_CardinalityType
<1>3. ASSUME NEW a \in S
      PROVE  Cardinality(before[a]) < size
  <2>1. Cardinality(before[a]) <= size /\ (size = Cardinality(before[a]) => S = before[a])
      BY FS_Subset
  <2>2. S # before[a]
      OBVIOUS
  <2>3. QED
      BY <1>1, <1>2, <2>1, <2>2
<1>4. ASSUME NEW a \in S, NEW b \in S, a \in before[b]
      PROVE  Cardinality(before[a]) < Cardinality(before[b])
  <2>1. before[a] \in SUBSET before[b] /\ before[b] # before[a]
      BY <1>4
  <2>2. Cardinality(before[a]) <= Cardinality(before[b])
        /\ (Cardinality(before[b]) = Cardinality(before[a]) => before[b] = before[a])
      BY <1>2, <2>1, FS_Subset
  <2>3. QED
      BY <1>2, <2>1, <2>2
<1>5. rank \in [S -> 0 .. (size - 1)]
    BY <1>1, <1>2, <1>3
<1>6. \A a, b \in S : rank[a] = rank[b] => a = b
    BY <1>2, <1>4
<1>7. rank \in Injection(S, 0 .. (size - 1))
    BY <1>5, <1>6 DEF Injection, IsInjective
<1>8. IsFiniteSet(0 .. (size - 1)) /\ Cardinality(0 .. (size - 1)) = size
  <2>1. 0 \in Int /\ size - 1 \in Int
      BY <1>1
  <2>2. /\ IsFiniteSet(0 .. (size - 1))
        /\ Cardinality(0 .. (size - 1)) = IF 0 > size - 1 THEN 0 ELSE (size - 1) - 0 + 1
      BY <2>1, FS_Interval
  <2>3. QED
      BY <1>1, <2>2
<1>9. rank \in Surjection(S, 0 .. (size - 1))
    BY <1>7, <1>8, FS_Injection
<1>10. \A n \in 1 .. size : n - 1 \in 0 .. (size - 1)
    BY <1>1
<1>11. QED
    BY <1>9, <1>10 DEF Surjection

LEMMA OldestFirstLists ==
    ASSUME NEW S \in SUBSET Copies
    PROVE  /\ IsFiniteSet(S) /\ Cardinality(S) \in Nat
           /\ OldestFirst(S) \in Seq(S) /\ Len(OldestFirst(S)) = Cardinality(S)
<1> DEFINE before == [a \in S |-> {c \in S : c < a}]
<1>1. IsFiniteSet(S) /\ Cardinality(S) \in Nat
    BY FS_Subset, FS_CardinalityType, DuplicatesAssumption DEF DuplicatesAssumption
<1>2. S \subseteq Nat
    BY DuplicatesAssumption DEF DuplicatesAssumption
<1>3. before \in [S -> SUBSET S] /\ \A a \in S : before[a] = {c \in S : c < a}
    OBVIOUS
<1> HIDE DEF before
<1>4. /\ \A a \in S : a \notin before[a]
      /\ \A a, b \in S : a \in before[b] => before[a] \subseteq before[b]
      /\ \A a, b \in S : a = b \/ a \in before[b] \/ b \in before[a]
  <2>1. \A a, b \in S : a \in before[b] <=> a < b
      BY <1>3
  <2>2. \A a \in S : a \notin before[a]
      BY <1>2, <2>1
  <2>3. ASSUME NEW a \in S, NEW b \in S, a \in before[b]
        PROVE  before[a] \subseteq before[b]
    <3>1. \A c \in before[a] : c \in S /\ c < a
        BY <1>3
    <3>2. ASSUME NEW c \in before[a] PROVE c \in before[b]
      <4>1. c \in Nat /\ a \in Nat /\ b \in Nat /\ c < a /\ a < b /\ c \in S
          BY <1>2, <2>1, <2>3, <3>1
      <4>2. c < b
          BY <4>1
      <4>3. QED
          BY <2>1, <4>1, <4>2
    <3>3. QED
        BY <3>2
  <2>4. \A a, b \in S : a = b \/ a \in before[b] \/ b \in before[a]
      BY <1>2, <2>1
  <2>5. QED
      BY <2>2, <2>3, <2>4
<1>5. \A n \in 1 .. Cardinality(S) : \E a \in S : Cardinality(before[a]) = n - 1
    BY <1>1, <1>4, <1>3, RanksFill
<1>6. \A n \in 1 .. Cardinality(S) : \E a \in S : Cardinality({c \in S : c < a}) = n - 1
    BY <1>3, <1>5
<1>7. \A n \in 1 .. Cardinality(S) : (CHOOSE copy \in S : Cardinality({c \in S : c < copy}) = n - 1) \in S
    BY <1>6
<1>8. QED
  <2> DEFINE nth(n) == CHOOSE copy \in S : Cardinality({c \in S : c < copy}) = n - 1
  <2>1. OldestFirst(S) = [n \in 1 .. Cardinality(S) |-> nth(n)]
      BY DEF OldestFirst
  <2>2. \A n \in 1 .. Cardinality(S) : nth(n) \in S
      BY <1>7
  <2> HIDE DEF nth
  <2>3. QED
      BY <1>1, <2>1, <2>2

(* A group is all live copies of one address, and there are two at least.   *)
Repeated(live) == {c \in live : Cardinality(SameAddress(live, c)) > 1}

LEMMA AGroup ==
    ASSUME NEW live \in SUBSET Copies, NEW c \in Repeated(live)
    PROVE  LET g == OldestFirst(SameAddress(live, c))
           IN  /\ g \in Seq(live) /\ Len(g) > 1 /\ Head(g) \in live
               /\ \A copy \in ToSet(g) : copy \in live /\ DuplicateKey(copy) = DuplicateKey(c)
               /\ DuplicateKey(Head(g)) = DuplicateKey(c)
<1> DEFINE all == SameAddress(live, c)
           g == OldestFirst(all)
<1>1. all \in SUBSET Copies /\ all \subseteq live /\ Cardinality(all) > 1
      /\ \A copy \in all : DuplicateKey(copy) = DuplicateKey(c)
    BY DEF SameAddress, Repeated
<1> HIDE DEF all
<1>2. g \in Seq(all) /\ Len(g) = Cardinality(all) /\ Cardinality(all) \in Nat
    BY <1>1, OldestFirstLists
<1> HIDE DEF g
<1>3. \A copy \in ToSet(g) : copy \in all
    BY <1>2 DEF ToSet
<1>4. 1 \in DOMAIN g /\ Head(g) = g[1] /\ g[1] \in all
    BY <1>1, <1>2
<1>5. g \in Seq(live)
    BY <1>1, <1>2
<1>6. QED
    BY <1>1, <1>2, <1>3, <1>4, <1>5 DEF g, all

LEMMA GroupsAreTheRepeated ==
    ASSUME NEW live \in SUBSET Copies
    PROVE  /\ IsFiniteSet(Groups(live)) /\ Cardinality(Groups(live)) \in Nat
           /\ Cardinality(DuplicateCount(live)) = Cardinality(Groups(live))
           /\ \A g, h \in Groups(live) : DuplicateKey(Head(g)) = DuplicateKey(Head(h)) => g = h
<1> DEFINE group == [c \in Repeated(live) |-> OldestFirst(SameAddress(live, c))]
           address == [g \in Groups(live) |-> DuplicateKey(Head(g))]
<1>1. Groups(live) = {group[c] : c \in Repeated(live)}
    BY DEF Groups, Repeated
<1>2. IsFiniteSet(Repeated(live)) /\ live \subseteq Nat /\ IsFiniteSet(live)
  <2>1. Repeated(live) \in SUBSET Copies
      BY DEF Repeated
  <2>2. QED
      BY <2>1, FS_Subset, DuplicatesAssumption DEF DuplicatesAssumption
<1>3. IsFiniteSet(Groups(live)) /\ Cardinality(Groups(live)) \in Nat
  <2>1. group \in Surjection(Repeated(live), Groups(live))
      BY <1>1 DEF Surjection
  <2>2. QED
      BY <1>2, <2>1, FS_Surjection, FS_CardinalityType
<1>4. \A c, d \in Repeated(live) : DuplicateKey(c) = DuplicateKey(d) => group[c] = group[d]
  <2>1. \A c, d \in Repeated(live) : DuplicateKey(c) = DuplicateKey(d) => SameAddress(live, c) = SameAddress(live, d)
      BY DEF SameAddress
  <2>2. QED
      BY <2>1
<1>5. \A c \in Repeated(live) : DuplicateKey(Head(group[c])) = DuplicateKey(c)
    BY AGroup
<1>6. \A g, h \in Groups(live) : DuplicateKey(Head(g)) = DuplicateKey(Head(h)) => g = h
    BY <1>1, <1>4, <1>5
<1>7. \A c \in live : (\E seen \in SameAddress(live, c) : seen < c) => c \in Repeated(live)
  <2> SUFFICES ASSUME NEW c \in live, NEW seen \in SameAddress(live, c), seen < c
               PROVE  c \in Repeated(live)
      OBVIOUS
  <2>1. {c, seen} \in SUBSET SameAddress(live, c) /\ IsFiniteSet(SameAddress(live, c)) /\ c # seen
        /\ SameAddress(live, c) \in SUBSET live
    <3>1. SameAddress(live, c) \in SUBSET live
        BY DEF SameAddress
    <3>2. QED
        BY <1>2, <3>1, FS_Subset DEF SameAddress
  <2>2. IsFiniteSet({seen} \cup {c}) /\ Cardinality({seen} \cup {c}) = 2
    <3>1. IsFiniteSet({seen}) /\ Cardinality({seen}) = 1 /\ c \notin {seen}
        BY <2>1, FS_Singleton
    <3>2. IsFiniteSet({seen} \cup {c})
          /\ Cardinality({seen} \cup {c}) = IF c \in {seen} THEN Cardinality({seen}) ELSE Cardinality({seen}) + 1
        BY <3>1, FS_AddElement
    <3>3. QED
        BY <3>1, <3>2
  <2>3. {seen} \cup {c} \in SUBSET SameAddress(live, c)
      BY <2>1
  <2>4. Cardinality({seen} \cup {c}) <= Cardinality(SameAddress(live, c)) /\ Cardinality(SameAddress(live, c)) \in Nat
      BY <2>1, <2>3, FS_Subset, FS_CardinalityType
  <2>5. QED
      BY <2>2, <2>4 DEF Repeated
<1>8. \A c \in Repeated(live) : \E d \in live : /\ DuplicateKey(d) = DuplicateKey(c)
                                               /\ \E seen \in SameAddress(live, d) : seen < d
  <2> SUFFICES ASSUME NEW c \in Repeated(live)
               PROVE  \E d \in live : /\ DuplicateKey(d) = DuplicateKey(c)
                                      /\ \E seen \in SameAddress(live, d) : seen < d
      OBVIOUS
  <2>1. c \in live /\ SameAddress(live, c) \in SUBSET live /\ Cardinality(SameAddress(live, c)) > 1
      BY DEF Repeated, SameAddress
  <2>2. PICK other \in SameAddress(live, c) : other # c
    <3>1. c \in SameAddress(live, c)
        BY <2>1 DEF SameAddress
    <3>2. SameAddress(live, c) # {c}
      <4>1. Cardinality({c}) = 1
          BY FS_Singleton
      <4>2. QED
          BY <2>1, <4>1
    <3>3. QED
        BY <3>1, <3>2
  <2>3. other \in live /\ DuplicateKey(other) = DuplicateKey(c)
      BY <2>2 DEF SameAddress
  <2>4. c \in SameAddress(live, other) /\ other \in SameAddress(live, c)
      BY <2>1, <2>3 DEF SameAddress
  <2>5. other < c \/ c < other
      BY <1>2, <2>1, <2>2, <2>3
  <2>6. QED
      BY <2>1, <2>3, <2>4, <2>5
<1>9. address \in Bijection(Groups(live), DuplicateCount(live))
  <2>1. \A g \in Groups(live) : address[g] \in DuplicateCount(live)
      BY <1>1, <1>5, <1>8 DEF DuplicateCount
  <2>2. address \in Injection(Groups(live), DuplicateCount(live))
      BY <1>6, <2>1 DEF Injection, IsInjective
  <2>3. \A key \in DuplicateCount(live) : \E g \in Groups(live) : address[g] = key
      BY <1>1, <1>5, <1>7 DEF DuplicateCount
  <2>4. address \in Surjection(Groups(live), DuplicateCount(live))
      BY <2>1, <2>3 DEF Surjection
  <2>5. QED
      BY <2>2, <2>4 DEF Bijection
<1>10. Cardinality(DuplicateCount(live)) = Cardinality(Groups(live))
    BY <1>3, <1>9, FS_Bijection DEF ExistsBijection
<1>11. QED
    BY <1>3, <1>6, <1>10

LEMMA TheScreensGroups ==
    ASSUME NEW live \in SUBSET Copies
    PROVE  /\ DuplicateGroups(live) \in Seq(Seq(Copies)) /\ OneAddressEach(DuplicateGroups(live))
           /\ ListedIn(DuplicateGroups(live)) \subseteq live
           /\ Cardinality(DuplicateCount(live)) = Len(DuplicateGroups(live))
<1> DEFINE all == Groups(live)
           before == [g \in all |-> Ahead(all, g)]
           listed == DuplicateGroups(live)
<1>1. /\ IsFiniteSet(all) /\ Cardinality(all) \in Nat
      /\ Cardinality(DuplicateCount(live)) = Cardinality(all)
      /\ \A g, h \in all : DuplicateKey(Head(g)) = DuplicateKey(Head(h)) => g = h
    BY GroupsAreTheRepeated
<1>2. \A g \in all : /\ g \in Seq(live) /\ Len(g) \in Nat /\ Len(g) > 1 /\ Head(g) \in Nat
                     /\ \A copy \in ToSet(g) : copy \in live /\ DuplicateKey(copy) = DuplicateKey(Head(g))
  <2>1. \A g \in all : \E c \in Repeated(live) : g = OldestFirst(SameAddress(live, c))
      BY DEF Groups, Repeated
  <2>2. live \subseteq Nat
      BY DuplicatesAssumption DEF DuplicatesAssumption
  <2> HIDE DEF all
  <2>3. ASSUME NEW g \in all
        PROVE  /\ g \in Seq(live) /\ Len(g) > 1 /\ Head(g) \in Nat
               /\ \A copy \in ToSet(g) : copy \in live /\ DuplicateKey(copy) = DuplicateKey(Head(g))
    <3>1. PICK c \in Repeated(live) : g = OldestFirst(SameAddress(live, c))
        BY <2>1
    <3>2. /\ g \in Seq(live) /\ Len(g) > 1 /\ Head(g) \in live
          /\ \A copy \in ToSet(g) : copy \in live /\ DuplicateKey(copy) = DuplicateKey(c)
          /\ DuplicateKey(Head(g)) = DuplicateKey(c)
        BY <3>1, AGroup
    <3>3. QED
        BY <2>2, <3>2
  <2>4. QED
      BY <2>3
<1>3. before \in [all -> SUBSET all] /\ \A g \in all : before[g] = Ahead(all, g)
    BY DEF Ahead
<1> HIDE DEF before
<1>4. \A a, b \in all : a \in before[b] <=> Len(a) > Len(b) \/ (Len(a) = Len(b) /\ Head(a) < Head(b))
    BY <1>3 DEF Ahead
<1> HIDE DEF all
<1>5. /\ \A a \in all : a \notin before[a]
      /\ \A a, b \in all : a \in before[b] => before[a] \subseteq before[b]
      /\ \A a, b \in all : a = b \/ a \in before[b] \/ b \in before[a]
  <2>1. \A a \in all : a \notin before[a]
      BY <1>2, <1>4
  <2>2. ASSUME NEW a \in all, NEW b \in all, a \in before[b]
        PROVE  before[a] \subseteq before[b]
    <3>1. ASSUME NEW c \in before[a] PROVE c \in before[b]
        BY <1>2, <1>3, <1>4, <2>2, <3>1
    <3>2. QED
        BY <3>1
  <2>3. \A a, b \in all : Head(a) = Head(b) => a = b
      BY <1>1
  <2>4. \A a, b \in all : a = b \/ a \in before[b] \/ b \in before[a]
      BY <1>2, <1>4, <2>3
  <2>5. QED
      BY <2>1, <2>2, <2>4
<1>6. \A n \in 1 .. Cardinality(all) : \E g \in all : Cardinality(Ahead(all, g)) = n - 1
  <2>1. \A n \in 1 .. Cardinality(all) : \E g \in all : Cardinality(before[g]) = n - 1
      BY <1>1, <1>3, <1>5, RanksFill
  <2>2. QED
      BY <1>3, <2>1
<1>7. listed = [n \in 1 .. Cardinality(all) |-> CHOOSE group \in all : Cardinality(Ahead(all, group)) = n - 1]
    BY DEF DuplicateGroups, all
<1>8. \A n \in 1 .. Cardinality(all) : listed[n] \in all
    BY <1>6, <1>7
<1>9. listed = [n \in 1 .. Cardinality(all) |-> listed[n]] /\ DOMAIN listed = 1 .. Cardinality(all)
    BY <1>7
<1> HIDE DEF listed
<1>10. listed \in Seq(all) /\ Len(listed) = Cardinality(all)
    BY <1>1, <1>8, <1>9
<1>11. \A g \in all : g \in Seq(Copies) /\ g # <<>> /\ ToSet(g) \subseteq live
    BY <1>2
<1>12. listed \in Seq(Seq(Copies))
    BY <1>10, <1>11
<1>13. OneAddressEach(listed)
    BY <1>2, <1>8, <1>9, <1>11 DEF OneAddressEach
<1>14. ListedIn(listed) \subseteq live
    BY <1>8, <1>9, <1>11 DEF ListedIn
<1>15. QED
    BY <1>1, <1>10, <1>12, <1>13, <1>14 DEF listed

(***************************** requests **********************************)

LEMMA MeetsSome ==
    ASSUME NEW q, NEW H
    PROVE  Meets(q, H) <=> \E x \in ToSet(q) : x \in H
  BY DEF Meets, ToSet

LEMMA OneMoreRequest ==
    ASSUME NEW q \in Seq(RequestRecords), NEW e \in RequestRecords
    PROVE  /\ Append(q, e) \in Seq(RequestRecords)
           /\ ToSet(Append(q, e)) = ToSet(q) \cup {e}
<1>1. /\ Append(q, e) \in Seq(RequestRecords)
      /\ Len(q) \in Nat /\ DOMAIN q = 1 .. Len(q)
      /\ DOMAIN Append(q, e) = 1 .. (Len(q) + 1)
      /\ Append(q, e)[Len(q) + 1] = e
      /\ \A k \in 1 .. Len(q) : Append(q, e)[k] = q[k]
    OBVIOUS
<1>2. \A k \in 1 .. (Len(q) + 1) : k \in 1 .. Len(q) \/ k = Len(q) + 1
    BY <1>1
<1>3. Len(q) + 1 \in 1 .. (Len(q) + 1) /\ \A k \in 1 .. Len(q) : k \in 1 .. (Len(q) + 1)
    BY <1>1
<1>4. QED
    BY <1>1, <1>2, <1>3 DEF ToSet

LEMMA OneRequestLess ==
    ASSUME NEW q \in Seq(RequestRecords), NEW k \in DOMAIN q
    PROVE  /\ RemoveAt(q, k) \in Seq(RequestRecords)
           /\ ToSet(RemoveAt(q, k)) \subseteq ToSet(q)
           /\ ToSet(q) \subseteq ToSet(RemoveAt(q, k)) \cup {q[k]}
<1> DEFINE r == RemoveAt(q, k)
<1>1. /\ r \in Seq(RequestRecords)
      /\ \A i \in DOMAIN r : r[i] = q[Skip(i, k)] /\ Skip(i, k) \in DOMAIN q
      /\ \A n \in DOMAIN q : n # k => \E i \in DOMAIN r : Skip(i, k) = n
    BY RemoveShifts
<1> HIDE DEF r
<1>2. QED
    BY <1>1 DEF ToSet, r

LEMMA OneRequestChanges ==
    ASSUME NEW q \in Seq(RequestRecords), NEW k \in DOMAIN q, NEW e \in RequestRecords
    PROVE  /\ [q EXCEPT ![k] = e] \in Seq(RequestRecords)
           /\ ToSet([q EXCEPT ![k] = e]) \subseteq ToSet(q) \cup {e}
           /\ ToSet(q) \subseteq ToSet([q EXCEPT ![k] = e]) \cup {q[k]}
           /\ e \in ToSet([q EXCEPT ![k] = e])
<1> DEFINE r == [q EXCEPT ![k] = e]
<1>1. r \in Seq(RequestRecords) /\ DOMAIN r = DOMAIN q /\ \A i \in DOMAIN q : r[i] = IF i = k THEN e ELSE q[i]
    OBVIOUS
<1> HIDE DEF r
<1>2. QED
    BY <1>1 DEF ToSet, r

LEMMA AskIsARequest ==
    ASSUME NEW type \in {"list", "delete", "restore"}, NEW ids \in SUBSET Copies, NEW warned \in SUBSET Addresses
    PROVE  LET e == AskFor(type, ids, warned)
           IN  /\ e \in RequestRecords /\ e.type = type /\ e.ids = ids /\ e.warned = warned
               /\ e.at = "sent" /\ ~e.ok /\ e.groups = <<>> /\ e.mine
  BY DEF AskFor, RequestRecords

LEMMA AskForAnother ==
    ASSUME NEW type \in {"list", "delete", "restore"}, NEW ids \in SUBSET Copies, NEW warned \in SUBSET Addresses,
           NEW mine \in BOOLEAN
    PROVE  LET e == [AskFor(type, ids, warned) EXCEPT !.mine = mine]
           IN  /\ e \in RequestRecords /\ e.type = type /\ e.ids = ids /\ e.warned = warned
               /\ e.at = "sent" /\ ~e.ok /\ e.groups = <<>> /\ e.mine = mine
<1> DEFINE a == AskFor(type, ids, warned)
<1>1. /\ a \in RequestRecords /\ a.type = type /\ a.ids = ids /\ a.warned = warned
      /\ a.at = "sent" /\ ~a.ok /\ a.groups = <<>>
    BY AskIsARequest
<1> HIDE DEF a
<1>2. QED
    BY <1>1 DEF RequestRecords, a

LEMMA TheNone == OneAddressEach(<<>>) /\ ListedIn(<<>>) = {} /\ <<>> \in Seq(Seq(Copies))
  BY DEF OneAddressEach, ListedIn

(* What waits for a screen that is gone.                                    *)
Aside(q) == [k \in DOMAIN q |-> [q[k] EXCEPT !.mine = FALSE]]

LEMMA OpenedRequests ==
    ASSUME NEW q \in Seq(RequestRecords)
    PROVE  /\ Opened(q) \in Seq(RequestRecords)
           /\ EndsOn(Opened(q), Paints, ToBeSent)
           /\ \A y \in ToSet(Opened(q)) :
                 \/ y.type = "list" /\ y.at = "sent" /\ ~y.ok /\ y.groups = <<>> /\ y.mine
                 \/ \E x \in ToSet(q) : /\ ~y.mine /\ y.type = x.type /\ y.at = x.at /\ y.ok = x.ok
                                         /\ y.ids = x.ids /\ y.warned = x.warned /\ y.groups = x.groups
<1> DEFINE e == AskFor("list", {}, {})
           r == Aside(q)
<1>1. /\ e \in RequestRecords /\ e.type = "list" /\ e.at = "sent" /\ ~e.ok /\ e.groups = <<>> /\ e.mine
    BY AskIsARequest
<1> HIDE DEF e
<1>2. DOMAIN q = 1 .. Len(q) /\ Len(q) \in Nat /\ \A k \in DOMAIN q : q[k] \in RequestRecords
    OBVIOUS
<1>3. \A x \in RequestRecords :
         LET y == [x EXCEPT !.mine = FALSE]
         IN  /\ y \in RequestRecords /\ ~y.mine /\ y.type = x.type /\ y.at = x.at /\ y.ok = x.ok
             /\ y.ids = x.ids /\ y.warned = x.warned /\ y.groups = x.groups
    BY DEF RequestRecords
<1>4. DOMAIN r = DOMAIN q /\ (\A k \in DOMAIN q : r[k] = [q[k] EXCEPT !.mine = FALSE]) /\ r = [k \in 1 .. Len(q) |-> r[k]]
    BY <1>2 DEF Aside
<1> HIDE DEF r
<1>5. \A k \in DOMAIN q : r[k] \in RequestRecords
    BY <1>2, <1>3, <1>4
<1>6. r \in Seq(RequestRecords)
    BY <1>2, <1>4, <1>5
<1>7. Opened(q) = Append(r, e)
    BY DEF Opened, Aside, r, e
<1>8. Append(r, e) \in Seq(RequestRecords) /\ ToSet(Append(r, e)) = ToSet(r) \cup {e}
    BY <1>1, <1>6, OneMoreRequest
<1>9. EndsOn(Append(r, e), Paints, ToBeSent)
    BY <1>1, <1>6, AppendEnds DEF Paints, ToBeSent
<1>10. ASSUME NEW y \in ToSet(r)
       PROVE  \E x \in ToSet(q) : /\ ~y.mine /\ y.type = x.type /\ y.at = x.at /\ y.ok = x.ok
                                    /\ y.ids = x.ids /\ y.warned = x.warned /\ y.groups = x.groups
  <2>1. PICK k \in DOMAIN q : y = r[k]
      BY <1>4 DEF ToSet
  <2>2. q[k] \in ToSet(q) /\ q[k] \in RequestRecords
      BY <1>2 DEF ToSet
  <2> DEFINE z == [q[k] EXCEPT !.mine = FALSE]
  <2>3. /\ ~z.mine /\ z.type = q[k].type /\ z.at = q[k].at /\ z.ok = q[k].ok
        /\ z.ids = q[k].ids /\ z.warned = q[k].warned /\ z.groups = q[k].groups
      BY <1>3, <2>2
  <2>4. y = z
      BY <1>4, <2>1
  <2> HIDE DEF z
  <2>5. QED
      BY <2>2, <2>3, <2>4
<1>11. QED
    BY <1>1, <1>7, <1>8, <1>9, <1>10

(***************************** the user **********************************)

LEMMA OpenedScreen ==
    ASSUME DuplicatesInv, NEW q \in Seq(RequestRecords), ToSet(q) \subseteq ToSet(requests),
           requests' = Opened(q), proposal' = Loading, UNCHANGED <<shelf, story>>,
           question' \in QuestionRecords \cup {NoQuestion},
           question' = NoQuestion \/ ~question'.mine,
           offer' \in {NoOffer} \cup SUBSET Copies
    PROVE  DuplicatesInv'
<1>1. /\ DuplicatesTypes /\ NothingForgotten /\ ListsAreLive /\ RefusedSayNothing
      /\ RemovalsAreAsked /\ StraysAreRead
    BY DEF DuplicatesInv
<1>2. /\ requests' \in Seq(RequestRecords)
      /\ EndsOn(requests', Paints, ToBeSent)
      /\ \A y \in ToSet(requests') :
            \/ y.type = "list" /\ y.at = "sent" /\ ~y.ok /\ y.groups = <<>> /\ y.mine
            \/ \E x \in ToSet(requests) : /\ ~y.mine /\ y.type = x.type /\ y.at = x.at /\ y.ok = x.ok
                                           /\ y.ids = x.ids /\ y.warned = x.warned /\ y.groups = x.groups
    BY OpenedRequests
<1>3. proposal' \in ProposalRecords /\ proposal'.groups = <<>> /\ proposal'.ticked = {} /\ proposal' # NotShown
  <2>1. /\ Loading \in ProposalRecords /\ Loading.groups = <<>> /\ Loading.ticked = {}
      BY TheNone DEF Loading, ProposalRecords
  <2>2. NotShown \notin ProposalRecords
      BY DuplicatesAssumption DEF DuplicatesAssumption, ProposalRecords
  <2>3. QED
      BY <2>1, <2>2
<1>4. \A x \in ToSet(requests) : x \in RequestRecords
    BY <1>1 DEF DuplicatesTypes, ToSet
<1>5. \A y \in ToSet(requests') : y \in RequestRecords
    BY <1>2 DEF ToSet
<1>6. \A y \in ToSet(requests') : y \in Removals =>
         ~y.mine /\ \E x \in ToSet(requests) : x \in Removals /\ y.ids = x.ids /\ y.warned = x.warned
    BY <1>2, <1>4 DEF Removals
<1>7. Meets(requests', Removals) => Meets(requests, Removals)
    BY <1>6, MeetsSome
<1>8. \A y \in ToSet(requests') : OneAddressEach(y.groups)
    BY <1>1, <1>2, TheNone DEF DuplicatesTypes
<1>9. DuplicatesTypes'
    BY <1>1, <1>2, <1>3, <1>8, TheNone DEF DuplicatesTypes
<1>10. QuestionIsTheScreens'
    BY <1>3 DEF QuestionIsTheScreens
<1>11. NothingForgotten'
    BY <1>1 DEF NothingForgotten
<1>12. ListsAreLive'
    BY <1>1, <1>2, <1>7 DEF ListsAreLive, Undisturbed
<1>13. RefusedSayNothing'
    BY <1>1, <1>2 DEF RefusedSayNothing
<1>14. TicksCover'
    BY <1>3, TheNone DEF TicksCover
<1>15. RemovalsAreAsked'
  <2>1. \A x, y : x.ids = y.ids /\ x.warned = y.warned /\ LeavesOne(x) => LeavesOne(y)
      BY DEF LeavesOne
  <2>2. SUFFICES ASSUME Undisturbed
                 PROVE  /\ story.unasked = {}
                        /\ \A y \in ToSet(requests') : y \in Removals => LeavesOne(y)
                        /\ \A y, z \in ToSet(requests') : y \in Removals /\ z \in Removals => y.ids \subseteq z.ids \/ z.ids \subseteq y.ids
      BY DEF RemovalsAreAsked, Undisturbed, LeavesOne
  <2>3. /\ story.unasked = {}
        /\ \A x \in ToSet(requests) : x \in Removals => LeavesOne(x)
        /\ \A x, y \in ToSet(requests) : x \in Removals /\ y \in Removals => x.ids \subseteq y.ids \/ y.ids \subseteq x.ids
      BY <1>1, <2>2 DEF RemovalsAreAsked
  <2>4. QED
      BY <1>6, <2>1, <2>3
<1>16. ProposalFollows'
  <2>1. \A y \in ToBeSent : y \in UpToDate'
      BY DEF ToBeSent, UpToDate
  <2>2. EndsOn(requests', Paints, UpToDate')
      BY <1>2, <2>1 DEF EndsOn
  <2>3. QED
      BY <2>2 DEF ProposalFollows
<1>17. StraysAreRead'
  <2>1. ~story.refused => \A y \in ToSet(requests') : y.at = "answered" => y.ok
      BY <1>1, <1>2 DEF StraysAreRead
  <2>2. QED
      BY <1>2, <2>1 DEF StraysAreRead, ToBeSent
<1>18. QED
    BY <1>9, <1>10, <1>11, <1>12, <1>13, <1>14, <1>15, <1>16, <1>17 DEF DuplicatesInv

LEMMA OpensDuplicatesStep ==
    ASSUME DuplicatesInv, OpensDuplicates
    PROVE  DuplicatesInv'
<1>1. requests \in Seq(RequestRecords) /\ offer \in {NoOffer} \cup SUBSET Copies
    BY DEF DuplicatesInv, DuplicatesTypes
<1>2. /\ proposal' = Loading /\ requests' = Opened(requests) /\ question' = NoQuestion
      /\ UNCHANGED <<shelf, offer, story>>
    BY DEF OpensDuplicates, Press
<1>3. QED
    BY <1>1, <1>2, OpenedScreen

(* Nothing but what is not shown, or offered, changes.                      *)
LEMMA NothingShownChanges ==
    ASSUME DuplicatesInv, UNCHANGED <<shelf, requests, story>>,
           \/ UNCHANGED <<proposal, question>>
           \/ proposal' = NotShown /\ question' = NoQuestion,
           offer' \in {NoOffer} \cup SUBSET Copies
    PROVE  DuplicatesInv'
<1>1. DuplicatesTypes'
    BY DEF DuplicatesInv, DuplicatesTypes
<1>2. QuestionIsTheScreens'
    BY DEF DuplicatesInv, QuestionIsTheScreens, Emptied
<1>3. NothingForgotten' /\ ListsAreLive' /\ RefusedSayNothing' /\ RemovalsAreAsked'
    BY DEF DuplicatesInv, NothingForgotten, ListsAreLive, RefusedSayNothing, RemovalsAreAsked, LeavesOne, Undisturbed
<1>4. TicksCover'
    BY DEF DuplicatesInv, TicksCover, Undisturbed
<1>5. ProposalFollows' /\ StraysAreRead'
    BY DEF DuplicatesInv, ProposalFollows, StraysAreRead, Calm, Undisturbed, UpToDate
<1>6. QED
    BY <1>1, <1>2, <1>3, <1>4, <1>5 DEF DuplicatesInv

LEMMA LeavesDuplicatesStep ==
    ASSUME DuplicatesInv, LeavesDuplicates
    PROVE  DuplicatesInv'
<1>1. offer \in {NoOffer} \cup SUBSET Copies
    BY DEF DuplicatesInv, DuplicatesTypes
<1>2. QED
    BY <1>1, NothingShownChanges DEF LeavesDuplicates, Press

LEMMA OfferExpiresStep ==
    ASSUME DuplicatesInv, OfferExpires
    PROVE  DuplicatesInv'
  BY NothingShownChanges DEF OfferExpires

(* Ticks come and go, of copies that are listed and not on their way out.   *)
LEMMA Reticked ==
    ASSUME DuplicatesInv, proposal # NotShown, question = NoQuestion,
           NEW ticked, ticked \subseteq ListedIn(proposal.groups),
           proposal' = [proposal EXCEPT !.ticked = ticked],
           NEW late \in BOOLEAN, story' = [story EXCEPT !.overlapped = @ \/ late],
           \A copy \in proposal.ticked \ ticked : late \/ \A x \in ToSet(requests) : copy \notin x.ids,
           UNCHANGED <<shelf, question, offer, requests>>
    PROVE  DuplicatesInv'
<1>1. /\ DuplicatesTypes /\ NothingForgotten /\ ListsAreLive /\ RefusedSayNothing /\ TicksCover
      /\ RemovalsAreAsked /\ ProposalFollows /\ StraysAreRead
    BY DEF DuplicatesInv
<1>2. proposal \in ProposalRecords /\ story \in StoryRecords /\ \A n \in DOMAIN proposal.groups : proposal.groups[n] \in Seq(Copies)
    BY <1>1 DEF DuplicatesTypes, ProposalRecords
<1>3. ticked \subseteq Copies
    BY <1>2 DEF ListedIn, ToSet
<1>4. /\ proposal' \in ProposalRecords /\ proposal'.groups = proposal.groups /\ proposal'.state = proposal.state
      /\ proposal'.ticked = ticked
    BY <1>2, <1>3 DEF ProposalRecords
<1>5. /\ story' \in StoryRecords /\ story'.overlapped = (story.overlapped \/ late)
      /\ \A part \in {"elsewhere", "refused", "crossed", "gone", "unasked", "raised"} : story'[part] = story[part]
    BY <1>2 DEF StoryRecords
<1>6. Undisturbed' => Undisturbed /\ ~late
    BY <1>5 DEF Undisturbed
<1>7. Calm' => Calm
    BY <1>5, <1>6 DEF Calm
<1>8. DuplicatesTypes'
    BY <1>1, <1>4, <1>5 DEF DuplicatesTypes
<1>9. QuestionIsTheScreens'
    BY DEF QuestionIsTheScreens
<1>10. NothingForgotten' /\ ListsAreLive' /\ RefusedSayNothing'
    BY <1>1, <1>5, <1>6 DEF NothingForgotten, ListsAreLive, RefusedSayNothing
<1>11. TicksCover'
  <2> SUFFICES ASSUME Undisturbed'
               PROVE  /\ \A x \in ToSet(requests) : x \in Removals => (x.mine /\ x.ids \subseteq ticked) \/ proposal.groups = <<>>
                      /\ Meets(requests, Paints) \/
                         \A copy \in ListedIn(proposal.groups) \ shelf : copy \in ticked /\ Meets(requests, Removed(copy))
      BY <1>4 DEF TicksCover
  <2>1. /\ \A x \in ToSet(requests) : x \in Removals => (x.mine /\ x.ids \subseteq proposal.ticked) \/ proposal.groups = <<>>
        /\ Meets(requests, Paints) \/
              \A copy \in ListedIn(proposal.groups) \ shelf : copy \in proposal.ticked /\ Meets(requests, Removed(copy))
      BY <1>1, <1>6 DEF TicksCover
  <2>2. \A copy \in proposal.ticked \ ticked : \A x \in ToSet(requests) : copy \notin x.ids
      BY <1>6
  <2>3. \A copy : Meets(requests, Removed(copy)) => \E x \in ToSet(requests) : copy \in x.ids
      BY MeetsSome DEF Removed
  <2>4. QED
      BY <2>1, <2>2, <2>3
<1>12. RemovalsAreAsked'
    BY <1>1, <1>5, <1>6 DEF RemovalsAreAsked, LeavesOne
<1>13. ProposalFollows' /\ StraysAreRead'
    BY <1>1, <1>4, <1>5, <1>7 DEF ProposalFollows, StraysAreRead, UpToDate
<1>14. QED
    BY <1>8, <1>9, <1>10, <1>11, <1>12, <1>13 DEF DuplicatesInv

LEMMA TicksStep ==
    ASSUME DuplicatesInv, NEW copy \in Copies, Ticks(copy)
    PROVE  DuplicatesInv'
<1> DEFINE ticked == IF copy \in proposal.ticked THEN proposal.ticked \ {copy} ELSE proposal.ticked \cup {copy}
           late == copy \in proposal.ticked /\ \E k \in DOMAIN requests : copy \in requests[k].ids
<1>1. copy \in Proposed /\ question = NoQuestion /\ UNCHANGED <<shelf, question, offer, requests>>
    BY DEF Ticks, Press
<1>2. proposal # NotShown /\ copy \in ListedIn(proposal.groups)
    BY <1>1 DEF Proposed, ListedIn
<1>3. proposal \in ProposalRecords /\ proposal.ticked \subseteq ListedIn(proposal.groups) /\ story \in StoryRecords
    BY <1>2 DEF DuplicatesInv, DuplicatesTypes
<1>4. ticked \subseteq ListedIn(proposal.groups)
    BY <1>2, <1>3
<1>5. /\ proposal' = [proposal EXCEPT !.ticked = ticked] /\ story' = [story EXCEPT !.overlapped = @ \/ late]
    BY DEF Ticks
<1>6. \A other \in proposal.ticked \ ticked : late \/ \A x \in ToSet(requests) : other \notin x.ids
    BY DEF ToSet
<1>7. late \in BOOLEAN
    OBVIOUS
<1> HIDE DEF late, ticked
<1>8. QED
    BY <1>1, <1>2, <1>4, <1>5, <1>6, <1>7, Reticked

LEMMA TicksExtrasStep ==
    ASSUME DuplicatesInv, proposal # NotShown, NEW n \in DOMAIN proposal.groups, TicksExtras(n)
    PROVE  DuplicatesInv'
<1> DEFINE ticked == proposal.ticked \cup ToSet(Tail(proposal.groups[n]))
<1>1. question = NoQuestion /\ UNCHANGED <<shelf, question, offer, requests, story>>
      /\ proposal' = [proposal EXCEPT !.ticked = ticked]
    BY DEF TicksExtras, Press
<1>2. proposal \in ProposalRecords /\ proposal.ticked \subseteq ListedIn(proposal.groups) /\ story \in StoryRecords
      /\ OneAddressEach(proposal.groups)
    BY DEF DuplicatesInv, DuplicatesTypes
<1>3. proposal.groups[n] \in Seq(Copies) /\ proposal.groups[n] # <<>>
    BY <1>2 DEF ProposalRecords, OneAddressEach
<1>4. ToSet(Tail(proposal.groups[n])) \subseteq ToSet(proposal.groups[n])
  <2>1. \A g \in Seq(Copies) : g # <<>> => \A i \in DOMAIN Tail(g) : i + 1 \in DOMAIN g /\ Tail(g)[i] = g[i + 1]
      OBVIOUS
  <2>2. QED
      BY <1>3, <2>1 DEF ToSet
<1>5. ticked \subseteq ListedIn(proposal.groups)
    BY <1>2, <1>4 DEF ListedIn
<1>6. story' = [story EXCEPT !.overlapped = @ \/ FALSE]
    BY <1>1, <1>2 DEF StoryRecords
<1>7. proposal.ticked \ ticked = {}
    OBVIOUS
<1> HIDE DEF ticked
<1>8. QED
    BY <1>1, <1>5, <1>6, <1>7, Reticked

LEMMA PressesRemoveStep ==
    ASSUME DuplicatesInv, PressesRemove
    PROVE  DuplicatesInv'
<1>1. /\ proposal # NotShown /\ UNCHANGED <<shelf, proposal, offer, requests, story>>
      /\ question' = [ids |-> proposal.ticked, warned |-> Emptied(proposal), mine |-> TRUE, fresh |-> TRUE]
    BY DEF PressesRemove
<1>2. proposal \in ProposalRecords /\ OneAddressEach(proposal.groups)
    BY <1>1 DEF DuplicatesInv, DuplicatesTypes
<1>3. Emptied(proposal) \subseteq Addresses
  <2>1. \A n \in DOMAIN proposal.groups : Head(proposal.groups[n]) \in Copies
      BY <1>2 DEF OneAddressEach, ProposalRecords
  <2>2. \A copy \in Copies : DuplicateKey(copy) \in Addresses
      BY DEF DuplicateKey, Addresses
  <2>3. QED
      BY <2>1, <2>2 DEF Emptied
<1>4. question' \in QuestionRecords
    BY <1>1, <1>2, <1>3 DEF QuestionRecords, ProposalRecords
<1>5. QuestionIsTheScreens'
    BY <1>1 DEF QuestionIsTheScreens, Emptied
<1>6. DuplicatesTypes'
    BY <1>1, <1>4 DEF DuplicatesInv, DuplicatesTypes
<1>7. NothingForgotten' /\ ListsAreLive' /\ RefusedSayNothing' /\ RemovalsAreAsked'
    BY <1>1 DEF DuplicatesInv, NothingForgotten, ListsAreLive, RefusedSayNothing, RemovalsAreAsked, LeavesOne, Undisturbed
<1>8. TicksCover' /\ ProposalFollows' /\ StraysAreRead'
    BY <1>1 DEF DuplicatesInv, TicksCover, ProposalFollows, StraysAreRead, Calm, Undisturbed, UpToDate
<1>9. QED
    BY <1>5, <1>6, <1>7, <1>8 DEF DuplicatesInv

LEMMA AnswersQuestionStep ==
    ASSUME DuplicatesInv, NEW yes \in BOOLEAN, AnswersQuestion(yes)
    PROVE  DuplicatesInv'
<1>1. /\ DuplicatesTypes /\ QuestionIsTheScreens /\ NothingForgotten /\ ListsAreLive /\ RefusedSayNothing /\ TicksCover
      /\ RemovalsAreAsked /\ ProposalFollows /\ StraysAreRead
    BY DEF DuplicatesInv
<1>2. /\ question # NoQuestion /\ question' = NoQuestion /\ UNCHANGED <<shelf, proposal, offer>>
      /\ story' = [story EXCEPT !.overlapped = @ \/ AskedOfOld]
    BY DEF AnswersQuestion
<1>3. story \in StoryRecords /\ AskedOfOld \in BOOLEAN
    BY <1>1 DEF DuplicatesTypes, AskedOfOld
<1>4. /\ story' \in StoryRecords /\ story'.overlapped = (story.overlapped \/ AskedOfOld)
      /\ \A part \in {"elsewhere", "refused", "crossed", "gone", "unasked", "raised"} : story'[part] = story[part]
    BY <1>2, <1>3 DEF StoryRecords
<1>5. (Undisturbed' => Undisturbed /\ ~AskedOfOld) /\ (Calm' => Calm)
    BY <1>4 DEF Undisturbed, Calm
<1>6. NothingForgotten'
    BY <1>1, <1>2, <1>4 DEF NothingForgotten
<1>7. QuestionIsTheScreens'
    BY <1>2 DEF QuestionIsTheScreens
<1>8. CASE requests' = requests
  <2>1. DuplicatesTypes'
      BY <1>1, <1>2, <1>4, <1>8 DEF DuplicatesTypes
  <2>2. ListsAreLive' /\ RefusedSayNothing' /\ TicksCover' /\ RemovalsAreAsked'
      BY <1>1, <1>2, <1>4, <1>5, <1>8 DEF ListsAreLive, RefusedSayNothing, TicksCover, RemovalsAreAsked, LeavesOne
  <2>3. ProposalFollows' /\ StraysAreRead'
      BY <1>1, <1>2, <1>4, <1>5, <1>8 DEF ProposalFollows, StraysAreRead, UpToDate
  <2>4. QED
      BY <1>6, <1>7, <2>1, <2>2, <2>3 DEF DuplicatesInv
<1>9. CASE requests' = Append(requests, [AskFor("delete", question.ids, question.warned) EXCEPT !.mine = question.mine])
  <2> DEFINE e == [AskFor("delete", question.ids, question.warned) EXCEPT !.mine = question.mine]
  <2>1. question \in QuestionRecords /\ requests \in Seq(RequestRecords)
      BY <1>1, <1>2 DEF DuplicatesTypes
  <2>2. question.ids \in SUBSET Copies /\ question.warned \in SUBSET Addresses /\ question.mine \in BOOLEAN
      BY <2>1 DEF QuestionRecords
  <2>3. /\ e \in RequestRecords /\ e.type = "delete" /\ e.ids = question.ids /\ e.warned = question.warned
        /\ e.at = "sent" /\ ~e.ok /\ e.groups = <<>> /\ e.mine = question.mine
      BY <2>2, AskForAnother
  <2>4. requests' = Append(requests, e)
      BY <1>9
  <2> HIDE DEF e
  <2>5. requests' \in Seq(RequestRecords) /\ ToSet(requests') = ToSet(requests) \cup {e}
      BY <2>1, <2>3, <2>4, OneMoreRequest
  <2>6. \A H : Meets(requests, H) => Meets(requests', H)
      BY <2>5, MeetsSome
  <2>7. DuplicatesTypes'
      BY <1>1, <1>2, <1>4, <2>3, <2>5, TheNone DEF DuplicatesTypes
  <2>8. ASSUME Undisturbed'
        PROVE  /\ ~Meets(requests, Paints) /\ \A x \in ToSet(requests) : x.type # "list"
               /\ e.mine /\ proposal # NotShown /\ proposal \in ProposalRecords
               /\ e.ids = proposal.ticked /\ e.warned = Emptied(proposal)
    <3>1. /\ \A k \in DOMAIN requests : requests[k].type # "list"
          /\ question.mine /\ question.fresh
        BY <1>5, <2>8 DEF AskedOfOld
    <3>2. \A x \in ToSet(requests) : x.type # "list"
        BY <3>1 DEF ToSet
    <3>3. ~Meets(requests, Paints)
        BY <3>2, MeetsSome DEF Paints
    <3>4. proposal # NotShown /\ question.ids = proposal.ticked /\ question.warned = Emptied(proposal)
        BY <1>1, <1>2, <3>1 DEF QuestionIsTheScreens
    <3>5. proposal \in ProposalRecords
        BY <1>1, <3>4 DEF DuplicatesTypes
    <3>6. QED
        BY <2>3, <3>1, <3>2, <3>3, <3>4, <3>5
  <2>9. ListsAreLive' /\ RefusedSayNothing'
      BY <1>1, <2>3, <2>5, <2>8 DEF ListsAreLive, RefusedSayNothing
  <2>10. TicksCover'
    <3> SUFFICES ASSUME Undisturbed'
                 PROVE  /\ \A x \in ToSet(requests') : x \in Removals => (x.mine /\ x.ids \subseteq proposal.ticked) \/ proposal.groups = <<>>
                        /\ \A copy \in ListedIn(proposal.groups) \ shelf : copy \in proposal.ticked /\ Meets(requests', Removed(copy))
        BY <1>2 DEF TicksCover
    <3>1. /\ \A x \in ToSet(requests) : x \in Removals => (x.mine /\ x.ids \subseteq proposal.ticked) \/ proposal.groups = <<>>
          /\ \A copy \in ListedIn(proposal.groups) \ shelf : copy \in proposal.ticked /\ Meets(requests, Removed(copy))
        BY <1>1, <1>5, <2>8 DEF TicksCover
    <3>2. QED
        BY <2>5, <2>6, <2>8, <3>1
  <2>11. RemovalsAreAsked'
    <3> SUFFICES ASSUME Undisturbed'
                 PROVE  /\ story'.unasked = {}
                        /\ \A x \in ToSet(requests') : x \in Removals => LeavesOne(x)
                        /\ \A x, y \in ToSet(requests') : x \in Removals /\ y \in Removals => x.ids \subseteq y.ids \/ y.ids \subseteq x.ids
        BY <1>2 DEF RemovalsAreAsked, LeavesOne
    <3>1. /\ story'.unasked = {}
          /\ \A x \in ToSet(requests) : x \in Removals => LeavesOne(x)
          /\ \A x, y \in ToSet(requests) : x \in Removals /\ y \in Removals => x.ids \subseteq y.ids \/ y.ids \subseteq x.ids
        BY <1>1, <1>4, <1>5 DEF RemovalsAreAsked
    <3>2. /\ \A x \in ToSet(requests) : x \in Removals => (x.mine /\ x.ids \subseteq proposal.ticked) \/ proposal.groups = <<>>
          /\ \A copy \in ListedIn(proposal.groups) \ shelf : copy \in proposal.ticked
        BY <1>1, <1>5, <2>8 DEF TicksCover
    <3>3. proposal.ticked \subseteq ListedIn(proposal.groups) /\ OneAddressEach(proposal.groups)
        BY <1>1, <2>8 DEF DuplicatesTypes
    <3>4. proposal.groups = <<>> => proposal.ticked = {}
        BY <3>3, TheNone
    <3>5. LeavesOne(e)
      <4> SUFFICES ASSUME NEW copy \in proposal.ticked, DuplicateKey(copy) \notin Emptied(proposal)
                   PROVE  \E other \in shelf \ proposal.ticked : DuplicateKey(other) = DuplicateKey(copy)
          BY <2>8 DEF LeavesOne
      <4>1. PICK n \in DOMAIN proposal.groups : copy \in ToSet(proposal.groups[n])
          BY <3>3 DEF ListedIn
      <4>2. DuplicateKey(copy) = DuplicateKey(Head(proposal.groups[n]))
          BY <3>3, <4>1 DEF OneAddressEach
      <4>3. ~(ToSet(proposal.groups[n]) \subseteq proposal.ticked)
          BY <4>1, <4>2 DEF Emptied
      <4>4. PICK other \in ToSet(proposal.groups[n]) : other \notin proposal.ticked
          BY <4>3
      <4>5. other \in ListedIn(proposal.groups) /\ DuplicateKey(other) = DuplicateKey(Head(proposal.groups[n]))
          BY <3>3, <4>1, <4>4 DEF ListedIn, OneAddressEach
      <4>6. other \in shelf
          BY <3>2, <4>4, <4>5
      <4>7. QED
          BY <4>2, <4>4, <4>5, <4>6
    <3>6. \A x \in ToSet(requests) : x \in Removals => x.ids \subseteq e.ids \/ e.ids \subseteq x.ids
        BY <2>8, <3>2, <3>4
    <3>7. QED
        BY <2>5, <3>1, <3>5, <3>6
  <2>12. ProposalFollows'
    <3> SUFFICES ASSUME Undisturbed' PROVE Meets(requests', Correcting)
        BY DEF ProposalFollows, Calm
    <3>1. e \in Correcting
        BY <2>3, <2>8 DEF Correcting
    <3>2. QED
        BY <2>5, <3>1, MeetsSome
  <2>13. StraysAreRead'
    <3>1. ~story'.refused => \A x \in ToSet(requests') : x.at = "answered" => x.ok
        BY <1>1, <1>4, <2>3, <2>5 DEF StraysAreRead
    <3>2. e \notin Paints
        BY <2>3 DEF Paints
    <3>3. EndsOn(requests, Paints, ToBeSent) => EndsOn(requests', Paints, ToBeSent)
        BY <2>1, <2>3, <2>4, <3>2, AppendEnds
    <3>4. Calm' => e.mine
        BY <2>8 DEF Calm
    <3>5. Calm' /\ proposal # NotShown => \A x \in ToSet(requests) : x \in Removals /\ ~x.mine => EndsOn(requests, Paints, ToBeSent)
        BY <1>1, <1>5 DEF StraysAreRead
    <3>6. QED
        BY <1>2, <2>5, <3>1, <3>3, <3>4, <3>5 DEF StraysAreRead
  <2>14. QED
      BY <1>6, <1>7, <2>7, <2>9, <2>10, <2>11, <2>12, <2>13 DEF DuplicatesInv
<1>10. QED
    BY <1>8, <1>9 DEF AnswersQuestion

LEMMA PressesUndoStep ==
    ASSUME DuplicatesInv, PressesUndo
    PROVE  DuplicatesInv'
<1> DEFINE e == AskFor("restore", offer, {})
<1>1. /\ DuplicatesTypes /\ QuestionIsTheScreens /\ NothingForgotten /\ ListsAreLive /\ RefusedSayNothing /\ TicksCover
      /\ RemovalsAreAsked /\ StraysAreRead
    BY DEF DuplicatesInv
<1>2. /\ offer # NoOffer /\ offer' = NoOffer /\ requests' = Append(requests, e)
      /\ UNCHANGED <<shelf, proposal, question, story>>
    BY DEF PressesUndo, Press
<1>3. offer \in SUBSET Copies /\ requests \in Seq(RequestRecords)
    BY <1>1, <1>2 DEF DuplicatesTypes
<1>4. /\ e \in RequestRecords /\ e.type = "restore" /\ e.at = "sent" /\ ~e.ok /\ e.groups = <<>>
    BY <1>3, AskIsARequest
<1> HIDE DEF e
<1>5. requests' \in Seq(RequestRecords) /\ ToSet(requests') = ToSet(requests) \cup {e}
    BY <1>2, <1>3, <1>4, OneMoreRequest
<1>6. \A H : Meets(requests, H) => Meets(requests', H)
    BY <1>5, MeetsSome
<1>7. e \notin Removals /\ e \notin Paints /\ e \in Correcting
    BY <1>4 DEF Removals, Paints, Correcting
<1>8. Meets(requests', Removals) => Meets(requests, Removals)
    BY <1>5, <1>7, MeetsSome
<1>9. DuplicatesTypes'
    BY <1>1, <1>2, <1>4, <1>5, TheNone DEF DuplicatesTypes
<1>10. QuestionIsTheScreens' /\ NothingForgotten'
    BY <1>1, <1>2 DEF QuestionIsTheScreens, NothingForgotten, Emptied
<1>11. ListsAreLive' /\ RefusedSayNothing'
    BY <1>1, <1>2, <1>4, <1>5, <1>8 DEF ListsAreLive, RefusedSayNothing, Undisturbed
<1>12. TicksCover'
  <2>1. \A x \in ToSet(requests') : x \in Removals => x \in ToSet(requests)
      BY <1>5, <1>7
  <2>2. QED
      BY <1>1, <1>2, <1>6, <2>1 DEF TicksCover, Undisturbed
<1>13. RemovalsAreAsked'
  <2>1. \A x \in ToSet(requests') : x \in Removals => x \in ToSet(requests)
      BY <1>5, <1>7
  <2>2. QED
      BY <1>1, <1>2, <2>1 DEF RemovalsAreAsked, Undisturbed, LeavesOne
<1>14. ProposalFollows'
  <2>1. Meets(requests', Correcting)
      BY <1>5, <1>7, MeetsSome
  <2>2. QED
      BY <2>1 DEF ProposalFollows
<1>15. StraysAreRead'
  <2>1. EndsOn(requests, Paints, ToBeSent) => EndsOn(requests', Paints, ToBeSent)
      BY <1>2, <1>3, <1>4, <1>7, AppendEnds
  <2>2. QED
      BY <1>1, <1>2, <1>4, <1>5, <1>7, <2>1 DEF StraysAreRead, Calm, Undisturbed
<1>16. QED
    BY <1>9, <1>10, <1>11, <1>12, <1>13, <1>14, <1>15 DEF DuplicatesInv

LEMMA ChangesMeanwhileStep ==
    ASSUME DuplicatesInv, NEW copy \in Copies, ChangesMeanwhile(copy)
    PROVE  DuplicatesInv'
<1>1. DuplicatesTypes /\ QuestionIsTheScreens /\ RefusedSayNothing /\ StraysAreRead
    BY DEF DuplicatesInv
<1>2. /\ shelf' = (IF copy \in shelf THEN shelf \ {copy} ELSE shelf \cup {copy})
      /\ story' = [story EXCEPT !.elsewhere = TRUE]
      /\ UNCHANGED <<proposal, question, offer, requests>>
    BY DEF ChangesMeanwhile
<1>3. story' \in StoryRecords /\ story'.elsewhere /\ story'.refused = story.refused
    BY <1>1, <1>2 DEF DuplicatesTypes, StoryRecords
<1>4. ~Undisturbed' /\ ~Calm'
    BY <1>3 DEF Undisturbed, Calm
<1>5. DuplicatesTypes'
    BY <1>1, <1>2, <1>3 DEF DuplicatesTypes
<1>6. QuestionIsTheScreens' /\ NothingForgotten' /\ RefusedSayNothing'
    BY <1>1, <1>2, <1>3 DEF QuestionIsTheScreens, NothingForgotten, RefusedSayNothing, Emptied
<1>7. ListsAreLive' /\ TicksCover' /\ RemovalsAreAsked' /\ ProposalFollows' /\ StraysAreRead'
    BY <1>1, <1>2, <1>3, <1>4 DEF ListsAreLive, TicksCover, RemovalsAreAsked, ProposalFollows, StraysAreRead
<1>8. QED
    BY <1>5, <1>6, <1>7 DEF DuplicatesInv

(***************************** the worker ********************************)

(* What becomes of the k-th request, and of the others, when it is served.  *)
ServedAs(k, e, ok, groups) ==
    /\ e \in RequestRecords
    /\ requests' = [requests EXCEPT ![k] = e] /\ requests' \in Seq(RequestRecords)
    /\ e.type = requests[k].type /\ e.ids = requests[k].ids /\ e.warned = requests[k].warned
    /\ e.mine = requests[k].mine /\ e.at = "answered" /\ e.ok = ok /\ e.groups = groups
    /\ e \in ToSet(requests')
    /\ ToSet(requests') \subseteq ToSet(requests) \cup {e}
    /\ \A x \in ToSet(requests') : OneAddressEach(x.groups)
    /\ \A x \in ToSet(requests') : x \in Removals => x \in ToSet(requests)
    /\ Meets(requests', Removals) => Meets(requests, Removals)
    /\ Meets(requests', Paints) <=> Meets(requests, Paints)
    /\ \A copy : Meets(requests, Removed(copy)) => Meets(requests', Removed(copy))
    /\ Meets(requests, Correcting) => Meets(requests', Correcting)

LEMMA RequestServed ==
    ASSUME DuplicatesTypes, NEW k \in DOMAIN requests, requests[k].at = "sent", NEW ok \in BOOLEAN,
           NEW groups \in Seq(Seq(Copies)), OneAddressEach(groups), Served(k, ok, groups)
    PROVE  \E e : ServedAs(k, e, ok, groups)
<1> DEFINE e == [requests[k] EXCEPT !.at = "answered", !.ok = ok, !.groups = groups]
<1>1. requests \in Seq(RequestRecords) /\ requests[k] \in RequestRecords /\ requests[k] \in ToSet(requests)
      /\ \A x \in ToSet(requests) : OneAddressEach(x.groups)
    BY DEF DuplicatesTypes, ToSet
<1>2. requests' = [requests EXCEPT ![k] = e]
    BY <1>1 DEF Served
<1>3. /\ e \in RequestRecords
      /\ e.type = requests[k].type /\ e.ids = requests[k].ids /\ e.warned = requests[k].warned
      /\ e.mine = requests[k].mine /\ e.at = "answered" /\ e.ok = ok /\ e.groups = groups
    BY <1>1 DEF RequestRecords
<1> HIDE DEF e
<1>4. /\ requests' \in Seq(RequestRecords)
      /\ ToSet(requests') \subseteq ToSet(requests) \cup {e}
      /\ ToSet(requests) \subseteq ToSet(requests') \cup {requests[k]}
      /\ e \in ToSet(requests')
    BY <1>1, <1>2, <1>3, OneRequestChanges
<1>5. /\ e \notin Removals
      /\ e \in Paints <=> requests[k] \in Paints
      /\ \A copy : requests[k] \notin Removed(copy)
      /\ requests[k] \in Correcting => e \in Correcting
    BY <1>1, <1>3 DEF Removals, Paints, Removed, Correcting
<1>6. \A x \in ToSet(requests') : x \in Removals => x \in ToSet(requests)
    BY <1>4, <1>5
<1>7. Meets(requests', Removals) => Meets(requests, Removals)
    BY <1>6, MeetsSome
<1>8. Meets(requests', Paints) <=> Meets(requests, Paints)
    BY <1>1, <1>4, <1>5, MeetsSome
<1>9. \A copy : Meets(requests, Removed(copy)) => Meets(requests', Removed(copy))
    BY <1>4, <1>5, MeetsSome
<1>10. Meets(requests, Correcting) => Meets(requests', Correcting)
    BY <1>4, <1>5, MeetsSome
<1>11. \A x \in ToSet(requests') : OneAddressEach(x.groups)
    BY <1>1, <1>3, <1>4
<1>12. QED
    BY <1>2, <1>3, <1>4, <1>6, <1>7, <1>8, <1>9, <1>10, <1>11 DEF ServedAs

(* The last list that paints stays the last.                                *)
LEMMA ServedEnds ==
    ASSUME DuplicatesTypes, NEW k \in DOMAIN requests, NEW e \in RequestRecords,
           requests' = [requests EXCEPT ![k] = e], e.type = requests[k].type, e.mine = requests[k].mine,
           NEW G, NEW F, \A x \in Paints : x \in G => x \in F, e \in Paints => e \in F
    PROVE  EndsOn(requests, Paints, G) => EndsOn(requests', Paints, F)
<1>1. requests \in Seq(RequestRecords) /\ requests[k] \in RequestRecords
    BY DEF DuplicatesTypes
<1>2. DOMAIN requests' = DOMAIN requests /\ \A i \in DOMAIN requests : requests'[i] = IF i = k THEN e ELSE requests[i]
    BY <1>1
<1>3. e \in Paints <=> requests[k] \in Paints
    BY <1>1 DEF Paints
<1>4. \A i \in DOMAIN requests : requests'[i] \in Paints <=> requests[i] \in Paints
    BY <1>2, <1>3
<1>5. \A i \in DOMAIN requests : requests[i] \in Paints /\ requests[i] \in G => requests'[i] \in F
    BY <1>2, <1>3
<1>6. QED
    BY <1>2, <1>4, <1>5 DEF EndsOn

LEMMA RefusesRequestStep ==
    ASSUME DuplicatesInv, NEW k \in DOMAIN requests, RefusesRequest(k)
    PROVE  DuplicatesInv'
<1>1. /\ DuplicatesTypes /\ QuestionIsTheScreens /\ NothingForgotten /\ ListsAreLive /\ RefusedSayNothing /\ TicksCover
      /\ RemovalsAreAsked
    BY DEF DuplicatesInv
<1>2. /\ requests[k].at = "sent" /\ Served(k, FALSE, <<>>) /\ story' = [story EXCEPT !.refused = TRUE]
      /\ UNCHANGED <<shelf, proposal, question, offer>>
    BY DEF RefusesRequest
<1>3. PICK e : ServedAs(k, e, FALSE, <<>>)
    BY <1>1, <1>2, TheNone, RequestServed
<1>4. /\ e \in RequestRecords
      /\ requests' = [requests EXCEPT ![k] = e] /\ requests' \in Seq(RequestRecords)
      /\ e.type = requests[k].type /\ e.ids = requests[k].ids /\ e.warned = requests[k].warned
      /\ e.mine = requests[k].mine /\ e.at = "answered" /\ ~e.ok /\ e.groups = <<>>
      /\ e \in ToSet(requests')
      /\ ToSet(requests') \subseteq ToSet(requests) \cup {e}
      /\ \A x \in ToSet(requests') : OneAddressEach(x.groups)
      /\ \A x \in ToSet(requests') : x \in Removals => x \in ToSet(requests)
      /\ Meets(requests', Removals) => Meets(requests, Removals)
      /\ Meets(requests', Paints) <=> Meets(requests, Paints)
      /\ \A copy : Meets(requests, Removed(copy)) => Meets(requests', Removed(copy))
      /\ Meets(requests, Correcting) => Meets(requests', Correcting)
        BY <1>3 DEF ServedAs
<1>5. /\ story' \in StoryRecords /\ story'.refused
      /\ \A part \in {"elsewhere", "overlapped", "gone", "unasked", "raised"} : story'[part] = story[part]
    BY <1>1, <1>2 DEF DuplicatesTypes, StoryRecords
<1>6. (Undisturbed' <=> Undisturbed) /\ ~Calm'
    BY <1>5 DEF Undisturbed, Calm
<1>7. DuplicatesTypes'
    BY <1>1, <1>2, <1>4, <1>5 DEF DuplicatesTypes
<1>8. QuestionIsTheScreens' /\ NothingForgotten'
    BY <1>1, <1>2, <1>5 DEF QuestionIsTheScreens, NothingForgotten, Emptied
<1>9. ListsAreLive' /\ RefusedSayNothing'
    BY <1>1, <1>2, <1>4, <1>6 DEF ListsAreLive, RefusedSayNothing
<1>10. TicksCover'
    BY <1>1, <1>2, <1>4, <1>6 DEF TicksCover
<1>11. RemovalsAreAsked'
  <2> SUFFICES ASSUME Undisturbed
               PROVE  /\ story'.unasked = {}
                      /\ \A x \in ToSet(requests') : x \in Removals => LeavesOne(x)
                      /\ \A x, y \in ToSet(requests') : x \in Removals /\ y \in Removals => x.ids \subseteq y.ids \/ y.ids \subseteq x.ids
      BY <1>2, <1>6 DEF RemovalsAreAsked, LeavesOne
  <2>1. /\ story.unasked = {}
        /\ \A x \in ToSet(requests) : x \in Removals => LeavesOne(x)
        /\ \A x, y \in ToSet(requests) : x \in Removals /\ y \in Removals => x.ids \subseteq y.ids \/ y.ids \subseteq x.ids
      BY <1>1 DEF RemovalsAreAsked
  <2>2. story'.unasked = {}
      BY <1>5, <2>1
  <2>3. QED
      BY <1>4, <2>1, <2>2
<1>12. ProposalFollows' /\ StraysAreRead'
    BY <1>5, <1>6 DEF ProposalFollows, StraysAreRead
<1>13. QED
    BY <1>7, <1>8, <1>9, <1>10, <1>11, <1>12 DEF DuplicatesInv

LEMMA ListsDuplicatesStep ==
    ASSUME DuplicatesInv, NEW k \in DOMAIN requests, ListsDuplicates(k)
    PROVE  DuplicatesInv'
<1>1. /\ DuplicatesTypes /\ QuestionIsTheScreens /\ NothingForgotten /\ ListsAreLive /\ RefusedSayNothing /\ TicksCover
      /\ RemovalsAreAsked /\ ProposalFollows /\ StraysAreRead
    BY DEF DuplicatesInv
<1>2. /\ requests[k].type = "list" /\ requests[k].at = "sent" /\ Served(k, TRUE, DuplicateGroups(shelf))
      /\ story' = [story EXCEPT !.overlapped = @ \/ Moving(requests)]
      /\ UNCHANGED <<shelf, proposal, question, offer>>
    BY DEF ListsDuplicates
<1>3. /\ DuplicateGroups(shelf) \in Seq(Seq(Copies)) /\ OneAddressEach(DuplicateGroups(shelf))
      /\ ListedIn(DuplicateGroups(shelf)) \subseteq shelf
    BY <1>1, TheScreensGroups DEF DuplicatesTypes
<1>4. PICK e : ServedAs(k, e, TRUE, DuplicateGroups(shelf))
    BY <1>1, <1>2, <1>3, RequestServed
<1>5. /\ e \in RequestRecords
      /\ requests' = [requests EXCEPT ![k] = e] /\ requests' \in Seq(RequestRecords)
      /\ e.type = requests[k].type /\ e.ids = requests[k].ids /\ e.warned = requests[k].warned
      /\ e.mine = requests[k].mine /\ e.at = "answered" /\ e.ok /\ e.groups = DuplicateGroups(shelf)
      /\ e \in ToSet(requests')
      /\ ToSet(requests') \subseteq ToSet(requests) \cup {e}
      /\ \A x \in ToSet(requests') : OneAddressEach(x.groups)
      /\ \A x \in ToSet(requests') : x \in Removals => x \in ToSet(requests)
      /\ Meets(requests', Removals) => Meets(requests, Removals)
      /\ Meets(requests', Paints) <=> Meets(requests, Paints)
      /\ \A copy : Meets(requests, Removed(copy)) => Meets(requests', Removed(copy))
      /\ Meets(requests, Correcting) => Meets(requests', Correcting)
    BY <1>4 DEF ServedAs
<1>6. story \in StoryRecords /\ Moving(requests) \in BOOLEAN
    BY <1>1 DEF DuplicatesTypes, Moving
<1>7. /\ story' \in StoryRecords /\ story'.overlapped = (story.overlapped \/ Moving(requests))
      /\ \A part \in {"elsewhere", "refused", "crossed", "gone", "unasked", "raised"} : story'[part] = story[part]
    BY <1>2, <1>6 DEF StoryRecords
<1>8. (Undisturbed' => Undisturbed /\ ~Moving(requests)) /\ (Calm' => Calm)
    BY <1>7 DEF Undisturbed, Calm
<1>9. Undisturbed' => ~Meets(requests, Removals)
  <2>1. \A i \in DOMAIN requests : requests[i] \in Removals => requests[i].type # "list" /\ requests[i].at = "sent"
      BY DEF Removals
  <2>2. Meets(requests, Removals) => Moving(requests)
      BY <2>1 DEF Meets, Moving
  <2>3. QED
      BY <1>8, <2>2
<1>10. DuplicatesTypes'
    BY <1>1, <1>2, <1>5, <1>7 DEF DuplicatesTypes
<1>11. QuestionIsTheScreens' /\ NothingForgotten'
    BY <1>1, <1>2, <1>7 DEF QuestionIsTheScreens, NothingForgotten, Emptied
<1>12. ListsAreLive' /\ RefusedSayNothing'
    BY <1>1, <1>2, <1>3, <1>5, <1>8, <1>9 DEF ListsAreLive, RefusedSayNothing
<1>13. TicksCover'
    BY <1>1, <1>2, <1>5, <1>8 DEF TicksCover
<1>14. RemovalsAreAsked'
  <2> SUFFICES ASSUME Undisturbed'
               PROVE  /\ story'.unasked = {}
                      /\ \A x \in ToSet(requests') : x \in Removals => LeavesOne(x)
                      /\ \A x, y \in ToSet(requests') : x \in Removals /\ y \in Removals => x.ids \subseteq y.ids \/ y.ids \subseteq x.ids
      BY <1>2 DEF RemovalsAreAsked, LeavesOne
  <2>1. /\ story.unasked = {}
        /\ \A x \in ToSet(requests) : x \in Removals => LeavesOne(x)
        /\ \A x, y \in ToSet(requests) : x \in Removals /\ y \in Removals => x.ids \subseteq y.ids \/ y.ids \subseteq x.ids
      BY <1>1, <1>8 DEF RemovalsAreAsked
  <2>2. story'.unasked = {}
      BY <1>7, <2>1
  <2>3. QED
      BY <1>5, <2>1, <2>2
<1>15. ProposalFollows'
  <2>1. e \in UpToDate
      BY <1>5 DEF UpToDate
  <2>2. EndsOn(requests, Paints, UpToDate) => EndsOn(requests', Paints, UpToDate)
      BY <1>1, <1>5, <2>1, ServedEnds
  <2>3. UpToDate' = UpToDate
      BY <1>2 DEF UpToDate
  <2>4. QED
      BY <1>1, <1>2, <1>5, <1>8, <2>2, <2>3 DEF ProposalFollows
<1>16. StraysAreRead'
  <2>1. ~story'.refused => \A x \in ToSet(requests') : x.at = "answered" => x.ok
      BY <1>1, <1>5, <1>7 DEF StraysAreRead
  <2>2. Calm' => ~Meets(requests', Removals)
      BY <1>5, <1>9 DEF Calm
  <2>3. Calm' => \A x \in ToSet(requests') : x \notin Removals
      BY <2>2, MeetsSome
  <2>4. QED
      BY <2>1, <2>3 DEF StraysAreRead
<1>17. QED
    BY <1>10, <1>11, <1>12, <1>13, <1>14, <1>15, <1>16 DEF DuplicatesInv

LEMMA RestoresCopiesStep ==
    ASSUME DuplicatesInv, NEW k \in DOMAIN requests, RestoresCopies(k)
    PROVE  DuplicatesInv'
<1>1. /\ DuplicatesTypes /\ QuestionIsTheScreens /\ NothingForgotten /\ ListsAreLive /\ RefusedSayNothing /\ TicksCover
      /\ RemovalsAreAsked /\ ProposalFollows /\ StraysAreRead
    BY DEF DuplicatesInv
<1> DEFINE late == OnTheirWayOut(requests[k].ids)
<1>2. /\ requests[k].type = "restore" /\ requests[k].at = "sent" /\ Served(k, TRUE, <<>>)
      /\ shelf' = shelf \cup requests[k].ids
      /\ story' = [story EXCEPT !.raised = @ \cup ((requests[k].ids \ shelf) \ story.gone), !.overlapped = @ \/ late]
      /\ UNCHANGED <<proposal, question, offer>>
    BY DEF RestoresCopies
<1>3. requests[k] \in RequestRecords /\ requests[k].ids \in SUBSET Copies /\ requests[k] \in ToSet(requests)
  <2>1. requests \in Seq(RequestRecords)
      BY <1>1 DEF DuplicatesTypes
  <2>2. requests[k] \in RequestRecords /\ requests[k] \in ToSet(requests)
      BY <2>1 DEF ToSet
  <2>3. QED
      BY <2>2 DEF RequestRecords
<1>4. PICK e : ServedAs(k, e, TRUE, <<>>)
    BY <1>1, <1>2, TheNone, RequestServed
<1>5. /\ e \in RequestRecords
      /\ requests' = [requests EXCEPT ![k] = e] /\ requests' \in Seq(RequestRecords)
      /\ e.type = requests[k].type /\ e.ids = requests[k].ids /\ e.warned = requests[k].warned
      /\ e.mine = requests[k].mine /\ e.at = "answered" /\ e.ok /\ e.groups = <<>>
      /\ e \in ToSet(requests')
      /\ ToSet(requests') \subseteq ToSet(requests) \cup {e}
      /\ \A x \in ToSet(requests') : OneAddressEach(x.groups)
      /\ \A x \in ToSet(requests') : x \in Removals => x \in ToSet(requests)
      /\ Meets(requests', Removals) => Meets(requests, Removals)
      /\ Meets(requests', Paints) <=> Meets(requests, Paints)
      /\ \A copy : Meets(requests, Removed(copy)) => Meets(requests', Removed(copy))
      /\ Meets(requests, Correcting) => Meets(requests', Correcting)
    BY <1>4 DEF ServedAs
<1>6. late \in BOOLEAN /\ (~late => \A x \in ToSet(requests) : x \in Removals => x.ids \cap requests[k].ids = {})
    BY DEF OnTheirWayOut, Removals, ToSet
<1> HIDE DEF late
<1>7. /\ story' \in StoryRecords /\ story'.overlapped = (story.overlapped \/ late)
      /\ \A part \in {"elsewhere", "refused", "crossed", "gone", "unasked"} : story'[part] = story[part]
    BY <1>1, <1>2, <1>3, <1>6 DEF DuplicatesTypes, StoryRecords
<1>8. (Undisturbed' => Undisturbed /\ ~late) /\ (Calm' => Calm)
    BY <1>7 DEF Undisturbed, Calm
<1>9. DuplicatesTypes'
    BY <1>1, <1>2, <1>3, <1>5, <1>7 DEF DuplicatesTypes
<1>10. QuestionIsTheScreens' /\ NothingForgotten'
  <2>1. story'.raised = story.raised \cup ((requests[k].ids \ shelf) \ story.gone)
      BY <1>1, <1>2 DEF DuplicatesTypes, StoryRecords
  <2>2. QED
      BY <1>1, <1>2, <1>3, <1>7, <2>1 DEF QuestionIsTheScreens, NothingForgotten, Emptied
<1>11. ListsAreLive' /\ RefusedSayNothing'
    BY <1>1, <1>2, <1>5, <1>8 DEF ListsAreLive, RefusedSayNothing
<1>12. TicksCover'
    BY <1>1, <1>2, <1>5, <1>8 DEF TicksCover
<1>13. RemovalsAreAsked'
  <2> SUFFICES ASSUME Undisturbed'
               PROVE  /\ story'.unasked = {}
                      /\ \A x \in ToSet(requests') : x \in Removals => LeavesOne(x)'
                      /\ \A x, y \in ToSet(requests') : x \in Removals /\ y \in Removals => x.ids \subseteq y.ids \/ y.ids \subseteq x.ids
      BY DEF RemovalsAreAsked
  <2>1. /\ story'.unasked = {}
        /\ \A x \in ToSet(requests) : x \in Removals => LeavesOne(x)
        /\ \A x, y \in ToSet(requests) : x \in Removals /\ y \in Removals => x.ids \subseteq y.ids \/ y.ids \subseteq x.ids
      BY <1>1, <1>7, <1>8 DEF RemovalsAreAsked
  <2>2. ASSUME NEW x \in ToSet(requests), x \in Removals
        PROVE  LeavesOne(x)'
    <3>1. x.ids \cap requests[k].ids = {}
        BY <1>6, <1>8, <2>2
    <3>2. LeavesOne(x)
        BY <2>1, <2>2
    <3>3. QED
        BY <1>2, <3>1, <3>2 DEF LeavesOne
  <2>3. QED
      BY <1>5, <2>1, <2>2
<1>14. ProposalFollows'
  <2>1. e \in Correcting
      BY <1>2, <1>5 DEF Correcting
  <2>2. Meets(requests', Correcting)
      BY <1>5, <2>1, MeetsSome
  <2>3. QED
      BY <2>2 DEF ProposalFollows
<1>15. StraysAreRead'
  <2>1. ~story'.refused => \A x \in ToSet(requests') : x.at = "answered" => x.ok
      BY <1>1, <1>5, <1>7 DEF StraysAreRead
  <2>2. e \notin Paints
      BY <1>2, <1>5 DEF Paints
  <2>3. EndsOn(requests, Paints, ToBeSent) => EndsOn(requests', Paints, ToBeSent)
      BY <1>1, <1>5, <2>2, ServedEnds
  <2>4. QED
      BY <1>1, <1>2, <1>5, <1>8, <2>1, <2>3 DEF StraysAreRead
<1>16. QED
    BY <1>9, <1>10, <1>11, <1>12, <1>13, <1>14, <1>15 DEF DuplicatesInv

LEMMA DeletesCopiesStep ==
    ASSUME DuplicatesInv, NEW k \in DOMAIN requests, DeletesCopies(k)
    PROVE  DuplicatesInv'
<1>1. /\ DuplicatesTypes /\ QuestionIsTheScreens /\ NothingForgotten /\ ListsAreLive /\ RefusedSayNothing /\ TicksCover
      /\ RemovalsAreAsked /\ ProposalFollows /\ StraysAreRead
    BY DEF DuplicatesInv
<1> DEFINE ids == requests[k].ids
           keys(live) == {DuplicateKey(copy) : copy \in live}
           vanished == (keys(shelf) \ keys(shelf')) \ requests[k].warned
<1>2. /\ requests[k].type = "delete" /\ requests[k].at = "sent" /\ Served(k, TRUE, <<>>)
      /\ shelf' = shelf \ ids
      /\ story' = [story EXCEPT !.gone = @ \cup (ids \cap shelf), !.unasked = @ \cup vanished]
      /\ UNCHANGED <<proposal, question, offer>>
    BY DEF DeletesCopies
<1>3. /\ requests[k] \in RequestRecords /\ ids \in SUBSET Copies /\ requests[k] \in ToSet(requests)
      /\ requests[k] \in Removals
  <2>1. requests \in Seq(RequestRecords)
      BY <1>1 DEF DuplicatesTypes
  <2>2. requests[k] \in RequestRecords /\ requests[k] \in ToSet(requests)
      BY <2>1 DEF ToSet
  <2>3. ids \in SUBSET Copies
      BY <2>2 DEF RequestRecords
  <2>4. QED
      BY <1>2, <2>2, <2>3 DEF Removals
<1>4. PICK e : ServedAs(k, e, TRUE, <<>>)
    BY <1>1, <1>2, TheNone, RequestServed
<1>5. /\ e \in RequestRecords
      /\ requests' = [requests EXCEPT ![k] = e] /\ requests' \in Seq(RequestRecords)
      /\ e.type = requests[k].type /\ e.ids = ids /\ e.warned = requests[k].warned
      /\ e.mine = requests[k].mine /\ e.at = "answered" /\ e.ok /\ e.groups = <<>>
      /\ e \in ToSet(requests')
      /\ ToSet(requests') \subseteq ToSet(requests) \cup {e}
      /\ \A x \in ToSet(requests') : OneAddressEach(x.groups)
      /\ \A x \in ToSet(requests') : x \in Removals => x \in ToSet(requests)
      /\ Meets(requests', Removals) => Meets(requests, Removals)
      /\ Meets(requests', Paints) <=> Meets(requests, Paints)
      /\ \A copy : Meets(requests, Removed(copy)) => Meets(requests', Removed(copy))
      /\ Meets(requests, Correcting) => Meets(requests', Correcting)
    BY <1>4 DEF ServedAs
<1>6. vanished \subseteq Addresses
    BY <1>1 DEF DuplicatesTypes, Addresses, DuplicateKey
<1>7. Undisturbed => vanished = {}
  <2> SUFFICES ASSUME Undisturbed, NEW copy \in shelf, DuplicateKey(copy) \notin requests[k].warned
               PROVE  \E other \in shelf' : DuplicateKey(other) = DuplicateKey(copy)
      OBVIOUS
  <2>1. CASE copy \in ids
      BY <1>1, <1>2, <1>3, <2>1 DEF RemovalsAreAsked, LeavesOne
  <2>2. CASE copy \notin ids
      BY <1>2, <2>2
  <2>3. QED
      BY <2>1, <2>2
<1> HIDE DEF vanished
<1>8. /\ story' \in StoryRecords /\ story'.gone = story.gone \cup (ids \cap shelf) /\ story'.unasked = story.unasked \cup vanished
      /\ \A part \in {"elsewhere", "refused", "overlapped", "crossed", "raised"} : story'[part] = story[part]
    BY <1>1, <1>2, <1>3, <1>6 DEF DuplicatesTypes, StoryRecords
<1>9. (Undisturbed' <=> Undisturbed) /\ (Calm' <=> Calm)
    BY <1>8 DEF Undisturbed, Calm
<1>10. DuplicatesTypes'
    BY <1>1, <1>2, <1>5, <1>8 DEF DuplicatesTypes
<1>11. QuestionIsTheScreens' /\ NothingForgotten'
    BY <1>1, <1>2, <1>3, <1>8 DEF QuestionIsTheScreens, NothingForgotten, Emptied
<1>12. ListsAreLive' /\ RefusedSayNothing'
  <2>1. Meets(requests, Removals)
      BY <1>3, MeetsSome
  <2>2. QED
      BY <1>1, <1>2, <1>5, <1>9, <2>1 DEF ListsAreLive, RefusedSayNothing
<1>13. TicksCover'
  <2> SUFFICES ASSUME Undisturbed, proposal # NotShown
               PROVE  /\ \A x \in ToSet(requests') : x \in Removals => (x.mine /\ x.ids \subseteq proposal.ticked) \/ proposal.groups = <<>>
                      /\ Meets(requests', Paints) \/
                         \A copy \in ListedIn(proposal.groups) \ shelf' : copy \in proposal.ticked /\ Meets(requests', Removed(copy))
      BY <1>2, <1>9 DEF TicksCover
  <2>1. /\ \A x \in ToSet(requests) : x \in Removals => (x.mine /\ x.ids \subseteq proposal.ticked) \/ proposal.groups = <<>>
        /\ Meets(requests, Paints) \/
              \A copy \in ListedIn(proposal.groups) \ shelf : copy \in proposal.ticked /\ Meets(requests, Removed(copy))
      BY <1>1 DEF TicksCover
  <2>2. ASSUME NEW copy \in ListedIn(proposal.groups), copy \in ids
        PROVE  copy \in proposal.ticked /\ Meets(requests', Removed(copy))
    <3>1. proposal.groups # <<>>
        BY <2>2, TheNone
    <3>2. requests[k].mine /\ ids \subseteq proposal.ticked
        BY <1>3, <2>1, <3>1
    <3>3. e \in Removed(copy)
        BY <1>2, <1>5, <2>2, <3>2 DEF Removed
    <3>4. QED
        BY <1>5, <2>2, <3>2, <3>3, MeetsSome
  <2>3. QED
      BY <1>2, <1>5, <2>1, <2>2
<1>14. RemovalsAreAsked'
  <2> SUFFICES ASSUME Undisturbed
               PROVE  /\ story'.unasked = {}
                      /\ \A x \in ToSet(requests') : x \in Removals => LeavesOne(x)'
                      /\ \A x, y \in ToSet(requests') : x \in Removals /\ y \in Removals => x.ids \subseteq y.ids \/ y.ids \subseteq x.ids
      BY <1>9 DEF RemovalsAreAsked
  <2>1. /\ story.unasked = {}
        /\ \A x \in ToSet(requests) : x \in Removals => LeavesOne(x)
        /\ \A x, y \in ToSet(requests) : x \in Removals /\ y \in Removals => x.ids \subseteq y.ids \/ y.ids \subseteq x.ids
      BY <1>1 DEF RemovalsAreAsked
  <2>2. ASSUME NEW x \in ToSet(requests), x \in Removals
        PROVE  LeavesOne(x)'
    <3>1. x.ids \subseteq ids \/ ids \subseteq x.ids
        BY <1>3, <2>1, <2>2
    <3>2. LeavesOne(x)
        BY <2>1, <2>2
    <3>3. QED
        BY <1>2, <3>1, <3>2 DEF LeavesOne
  <2>3. QED
      BY <1>5, <1>7, <1>8, <2>1, <2>2
<1>15. e \notin Paints
    BY <1>2, <1>5 DEF Paints
<1>16. ProposalFollows'
  <2> SUFFICES ASSUME Calm, proposal # NotShown
               PROVE  Meets(requests', Correcting) \/ EndsOn(requests', Paints, UpToDate')
      BY <1>2, <1>9 DEF ProposalFollows
  <2>1. CASE requests[k].mine
    <3>1. e \in Correcting
        BY <1>2, <1>5, <2>1 DEF Correcting
    <3>2. QED
        BY <1>5, <3>1, MeetsSome
  <2>2. CASE ~requests[k].mine
    <3>1. EndsOn(requests, Paints, ToBeSent)
        BY <1>1, <1>3, <2>2 DEF StraysAreRead
    <3>2. \A x \in Paints : x \in ToBeSent => x \in UpToDate'
        BY DEF ToBeSent, UpToDate
    <3>3. PICK now : now = UpToDate'
        OBVIOUS
    <3>4. EndsOn(requests, Paints, ToBeSent) => EndsOn(requests', Paints, now)
        BY <1>1, <1>5, <1>15, <3>2, <3>3, ServedEnds
    <3>5. QED
        BY <3>1, <3>3, <3>4
  <2>3. QED
      BY <2>1, <2>2
<1>17. StraysAreRead'
  <2>1. ~story'.refused => \A x \in ToSet(requests') : x.at = "answered" => x.ok
      BY <1>1, <1>5, <1>8 DEF StraysAreRead
  <2>2. EndsOn(requests, Paints, ToBeSent) => EndsOn(requests', Paints, ToBeSent)
      BY <1>1, <1>5, <1>15, ServedEnds
  <2>3. QED
      BY <1>1, <1>2, <1>5, <1>9, <2>1, <2>2 DEF StraysAreRead
<1>18. QED
    BY <1>10, <1>11, <1>12, <1>13, <1>14, <1>16, <1>17 DEF DuplicatesInv

(***************************** the answers *******************************)

LEMMA OneAnswerIsRead ==
    ASSUME DuplicatesTypes, NEW k \in DOMAIN requests, requests[k].at = "answered"
    PROVE  LET q == Others(k)
           IN  /\ requests[k] \in RequestRecords /\ requests[k] \in ToSet(requests) /\ requests \in Seq(RequestRecords)
               /\ q \in Seq(RequestRecords) /\ ToSet(q) \subseteq ToSet(requests)
               /\ \A H : requests[k] \notin H /\ Meets(requests, H) => Meets(q, H)
               /\ Meets(q, Removals) => Meets(requests, Removals)
               /\ \A x \in ToSet(q) : OneAddressEach(x.groups)
               /\ requests[k] \notin ToBeSent /\ requests[k] \notin Removals
<1>1. requests \in Seq(RequestRecords) /\ \A x \in ToSet(requests) : OneAddressEach(x.groups)
    BY DEF DuplicatesTypes
<1>2. requests[k] \in RequestRecords /\ requests[k] \in ToSet(requests)
    BY <1>1 DEF ToSet
<1> DEFINE q == Others(k)
<1>3. /\ q \in Seq(RequestRecords) /\ ToSet(q) \subseteq ToSet(requests)
      /\ ToSet(requests) \subseteq ToSet(q) \cup {requests[k]}
    BY <1>1, OneRequestLess DEF Others
<1> HIDE DEF q
<1>4. \A H : requests[k] \notin H /\ Meets(requests, H) => Meets(q, H)
    BY <1>3, MeetsSome
<1>5. Meets(q, Removals) => Meets(requests, Removals)
    BY <1>3, MeetsSome
<1>6. requests[k] \notin ToBeSent /\ requests[k] \notin Removals
    BY DEF ToBeSent, Removals
<1>7. QED
    BY <1>1, <1>2, <1>3, <1>4, <1>5, <1>6 DEF q

LEMMA ProposalArrivesStep ==
    ASSUME DuplicatesInv, NEW k \in DOMAIN requests, ProposalArrives(k)
    PROVE  DuplicatesInv'
<1> DEFINE x == requests[k]
           painted == proposal # NotShown /\ x.mine
           behind == \E earlier \in 1 .. k - 1 : requests[earlier].type = "list"
<1>1. /\ DuplicatesTypes /\ QuestionIsTheScreens /\ NothingForgotten /\ ListsAreLive /\ RefusedSayNothing /\ TicksCover
      /\ RemovalsAreAsked /\ ProposalFollows /\ StraysAreRead
    BY DEF DuplicatesInv
<1>2. /\ x.type = "list" /\ x.at = "answered" /\ requests' = Others(k) /\ UNCHANGED <<shelf, offer>>
      /\ ~painted => proposal' = proposal
      /\ painted => proposal' = [groups |-> x.groups, ticked |-> {}, state |-> IF x.ok THEN "shown" ELSE "refused"]
      /\ question' = IF question = NoQuestion \/ ~x.mine THEN question ELSE [question EXCEPT !.fresh = FALSE]
      /\ story' = [story EXCEPT !.crossed = @ \/ behind]
    BY DEF ProposalArrives, Back
<1>3. /\ x \in RequestRecords /\ x \in ToSet(requests) /\ requests \in Seq(RequestRecords)
      /\ requests' \in Seq(RequestRecords) /\ ToSet(requests') \subseteq ToSet(requests)
      /\ \A H : x \notin H /\ Meets(requests, H) => Meets(requests', H)
      /\ Meets(requests', Removals) => Meets(requests, Removals)
      /\ \A y \in ToSet(requests') : OneAddressEach(y.groups)
      /\ x \notin ToBeSent /\ x \notin Removals
    BY <1>1, <1>2, OneAnswerIsRead
<1>4. x \notin Correcting /\ (\A copy : x \notin Removed(copy)) /\ (x \in Paints <=> x.mine)
    BY <1>2, <1>3 DEF Correcting, Removed, Paints
<1>5. OneAddressEach(x.groups) /\ x.groups \in Seq(Seq(Copies)) /\ x.ok \in BOOLEAN
    BY <1>1, <1>3 DEF DuplicatesTypes, RequestRecords
<1>6. story \in StoryRecords /\ behind \in BOOLEAN
    BY <1>1 DEF DuplicatesTypes
<1> HIDE DEF behind
<1>7. /\ story' \in StoryRecords /\ story'.crossed = (story.crossed \/ behind)
      /\ \A part \in {"elsewhere", "refused", "overlapped", "gone", "unasked", "raised"} : story'[part] = story[part]
    BY <1>2, <1>6 DEF StoryRecords
<1>8. (Undisturbed' <=> Undisturbed) /\ (Calm' => Calm /\ ~behind)
    BY <1>7 DEF Undisturbed, Calm
<1>9. painted => /\ proposal' \in ProposalRecords /\ proposal' # NotShown
                 /\ proposal'.groups = x.groups /\ proposal'.ticked = {}
                 /\ proposal'.state = IF x.ok THEN "shown" ELSE "refused"
  <2> SUFFICES ASSUME painted
               PROVE  /\ proposal' \in ProposalRecords /\ proposal' # NotShown
                      /\ proposal'.groups = x.groups /\ proposal'.ticked = {}
                      /\ proposal'.state = IF x.ok THEN "shown" ELSE "refused"
      OBVIOUS
  <2>1. proposal' \in ProposalRecords
      BY <1>2, <1>5 DEF ProposalRecords
  <2>2. NotShown \notin ProposalRecords
      BY DuplicatesAssumption DEF DuplicatesAssumption, ProposalRecords
  <2>3. proposal' # NotShown
      BY <2>1, <2>2
  <2>4. QED
      BY <1>2, <2>1, <2>3
<1>10. proposal' # NotShown => proposal # NotShown
    BY <1>2
<1>11. Calm' => \A j \in 1 .. (k - 1) : requests[j] \notin Paints
    BY <1>8 DEF behind, Paints
<1> HIDE DEF x
<1>12. DuplicatesTypes'
  <2>1. question' \in QuestionRecords \cup {NoQuestion}
      BY <1>1, <1>2 DEF DuplicatesTypes, QuestionRecords
  <2>2. proposal' \in ProposalRecords \cup {NotShown}
      BY <1>1, <1>2, <1>9 DEF DuplicatesTypes
  <2>3. proposal' # NotShown => OneAddressEach(proposal'.groups) /\ proposal'.ticked \subseteq ListedIn(proposal'.groups)
      BY <1>1, <1>2, <1>5, <1>9 DEF DuplicatesTypes
  <2>4. QED
      BY <1>1, <1>2, <1>3, <1>7, <2>1, <2>2, <2>3 DEF DuplicatesTypes
<1>13. QuestionIsTheScreens'
  <2> SUFFICES ASSUME question' # NoQuestion PROVE QuestionIsTheScreens'
      BY DEF QuestionIsTheScreens
  <2>1. question # NoQuestion /\ proposal # NotShown
      BY <1>1, <1>2 DEF QuestionIsTheScreens
  <2>2. CASE x.mine
    <3>1. painted
        BY <2>1, <2>2
    <3>2. question \in QuestionRecords /\ question' = [question EXCEPT !.fresh = FALSE]
        BY <1>1, <1>2, <2>1, <2>2 DEF DuplicatesTypes
    <3>3. ~question'.fresh
        BY <3>2 DEF QuestionRecords
    <3>4. QED
        BY <1>9, <3>1, <3>3 DEF QuestionIsTheScreens
  <2>3. CASE ~x.mine
    <3>1. question' = question /\ proposal' = proposal
        BY <1>2, <2>3
    <3>2. QED
        BY <1>1, <3>1 DEF QuestionIsTheScreens, Emptied
  <2>4. QED
      BY <2>2, <2>3
<1>14. NothingForgotten' /\ RefusedSayNothing'
    BY <1>1, <1>2, <1>3, <1>7 DEF NothingForgotten, RefusedSayNothing
<1>15. ListsAreLive'
    BY <1>1, <1>2, <1>3, <1>8 DEF ListsAreLive
<1>16. TicksCover'
  <2> SUFFICES ASSUME Undisturbed, proposal' # NotShown
               PROVE  /\ \A y \in ToSet(requests') : y \in Removals => (y.mine /\ y.ids \subseteq proposal'.ticked) \/ proposal'.groups = <<>>
                      /\ Meets(requests', Paints) \/
                         \A copy \in ListedIn(proposal'.groups) \ shelf : copy \in proposal'.ticked /\ Meets(requests', Removed(copy))
      BY <1>2, <1>8 DEF TicksCover
  <2>1. CASE painted /\ x.ok
    <3>1. ListedIn(x.groups) \subseteq shelf /\ ~Meets(requests, Removals)
        BY <1>1, <1>2, <1>3, <2>1 DEF ListsAreLive
    <3>2. \A y \in ToSet(requests') : y \notin Removals
        BY <1>3, <3>1, MeetsSome
    <3>3. ListedIn(proposal'.groups) \ shelf = {}
        BY <1>9, <2>1, <3>1
    <3>4. QED
        BY <3>2, <3>3
  <2>2. CASE painted /\ ~x.ok
    <3>1. proposal'.groups = <<>>
        BY <1>1, <1>2, <1>3, <1>9, <2>2 DEF RefusedSayNothing
    <3>2. ListedIn(proposal'.groups) = {}
        BY <3>1, TheNone
    <3>3. QED
        BY <3>1, <3>2
  <2>3. CASE ~painted
    <3>1. proposal' = proposal /\ proposal # NotShown /\ x \notin Paints
        BY <1>2, <1>4, <1>10, <2>3
    <3>2. Meets(requests, Paints) => Meets(requests', Paints)
        BY <1>3, <3>1
    <3>3. \A copy : Meets(requests, Removed(copy)) => Meets(requests', Removed(copy))
        BY <1>3, <1>4
    <3>4. /\ \A y \in ToSet(requests) : y \in Removals => (y.mine /\ y.ids \subseteq proposal.ticked) \/ proposal.groups = <<>>
          /\ Meets(requests, Paints) \/
             \A copy \in ListedIn(proposal.groups) \ shelf : copy \in proposal.ticked /\ Meets(requests, Removed(copy))
        BY <1>1, <3>1 DEF TicksCover
    <3>5. QED
        BY <1>3, <3>1, <3>2, <3>3, <3>4
  <2>4. QED
      BY <1>5, <2>1, <2>2, <2>3
<1>17. RemovalsAreAsked'
  <2>1. \A y : LeavesOne(y)' <=> LeavesOne(y)
      BY <1>2 DEF LeavesOne
  <2>2. SUFFICES ASSUME Undisturbed
                 PROVE  /\ story'.unasked = {}
                        /\ \A y \in ToSet(requests') : y \in Removals => LeavesOne(y)
                        /\ \A y, z \in ToSet(requests') : y \in Removals /\ z \in Removals => y.ids \subseteq z.ids \/ z.ids \subseteq y.ids
      BY <1>2, <1>8 DEF RemovalsAreAsked, LeavesOne
  <2>3. /\ story.unasked = {}
        /\ \A y \in ToSet(requests) : y \in Removals => LeavesOne(y)
        /\ \A y, z \in ToSet(requests) : y \in Removals /\ z \in Removals => y.ids \subseteq z.ids \/ z.ids \subseteq y.ids
      BY <1>1, <2>2 DEF RemovalsAreAsked
  <2>4. story'.unasked = {}
      BY <1>7, <2>3
  <2>5. QED
      BY <1>3, <2>3, <2>4
<1>18. ProposalFollows'
  <2> SUFFICES ASSUME Calm', proposal' # NotShown
               PROVE  \/ Meets(requests', Correcting)
                      \/ EndsOn(requests', Paints, UpToDate)
                      \/ ~Meets(requests', Paints) /\ proposal'.state = "shown" /\ proposal'.groups = DuplicateGroups(shelf)
      BY <1>2 DEF ProposalFollows, UpToDate
  <2>1. Calm /\ proposal # NotShown
      BY <1>8, <1>10
  <2>2. \/ Meets(requests, Correcting)
        \/ EndsOn(requests, Paints, UpToDate)
        \/ ~Meets(requests, Paints) /\ proposal.state = "shown" /\ proposal.groups = DuplicateGroups(shelf)
      BY <1>1, <2>1 DEF ProposalFollows
  <2>3. CASE Meets(requests, Correcting)
      BY <1>3, <1>4, <2>3
  <2>4. CASE EndsOn(requests, Paints, UpToDate) /\ x \notin Paints
    <3>1. requests \in Seq(RequestRecords) /\ requests[k] \notin Paints
        BY <1>3, <2>4 DEF x
    <3>2. EndsOn(RemoveAt(requests, k), Paints, UpToDate)
        BY <2>4, <3>1, RemoveEnds
    <3>3. QED
        BY <1>2, <3>2 DEF Others
  <2>5. CASE EndsOn(requests, Paints, UpToDate) /\ x \in Paints
    <3>1. requests \in Seq(RequestRecords) /\ \A j \in 1 .. (k - 1) : requests[j] \notin Paints
        BY <1>3, <1>11
    <3>2. \/ EndsOn(RemoveAt(requests, k), Paints, UpToDate)
          \/ requests[k] \in UpToDate /\ ~Meets(RemoveAt(requests, k), Paints)
        BY <2>5, <3>1, RemoveEnds
    <3>3. \/ EndsOn(requests', Paints, UpToDate)
          \/ x \in UpToDate /\ ~Meets(requests', Paints)
        BY <1>2, <3>2 DEF Others, x
    <3>4. x \in UpToDate => x.groups = DuplicateGroups(shelf)
        BY <1>2 DEF UpToDate
    <3>5. x.ok /\ painted
        BY <1>1, <1>2, <1>3, <1>4, <2>1, <2>5 DEF StraysAreRead, Calm
    <3>6. QED
        BY <1>9, <3>3, <3>4, <3>5
  <2>6. CASE ~Meets(requests, Paints) /\ proposal.state = "shown" /\ proposal.groups = DuplicateGroups(shelf)
    <3>1. x \notin Paints
        BY <1>3, <2>6, MeetsSome
    <3>2. proposal' = proposal
        BY <1>2, <1>4, <3>1
    <3>3. ~Meets(requests', Paints)
        BY <1>3, <2>6, MeetsSome
    <3>4. QED
        BY <2>6, <3>2, <3>3
  <2>7. QED
      BY <2>2, <2>3, <2>4, <2>5, <2>6
<1>19. StraysAreRead'
  <2>1. ~story'.refused => \A y \in ToSet(requests') : y.at = "answered" => y.ok
      BY <1>1, <1>3, <1>7 DEF StraysAreRead
  <2>2. ASSUME Calm', proposal' # NotShown, NEW y \in ToSet(requests'), y \in Removals, ~y.mine
        PROVE  EndsOn(requests', Paints, ToBeSent)
    <3>1. EndsOn(requests, Paints, ToBeSent)
        BY <1>1, <1>3, <1>8, <1>10, <2>2 DEF StraysAreRead
    <3>2. requests \in Seq(RequestRecords) /\ (\A j \in 1 .. (k - 1) : requests[j] \notin Paints) /\ requests[k] \notin ToBeSent
        BY <1>3, <1>11, <2>2 DEF x
    <3>3. EndsOn(RemoveAt(requests, k), Paints, ToBeSent)
        BY <3>1, <3>2, RemoveEnds
    <3>4. QED
        BY <1>2, <3>3 DEF Others
  <2>3. QED
      BY <2>1, <2>2 DEF StraysAreRead
<1>20. QED
    BY <1>12, <1>13, <1>14, <1>15, <1>16, <1>17, <1>18, <1>19 DEF DuplicatesInv

LEMMA RemovalArrivesStep ==
    ASSUME DuplicatesInv, NEW k \in DOMAIN requests, RemovalArrives(k)
    PROVE  DuplicatesInv'
<1> DEFINE x == requests[k]
           q == Others(k)
           e == [AskFor("list", {}, {}) EXCEPT !.mine = x.mine]
<1>1. /\ DuplicatesTypes /\ QuestionIsTheScreens /\ NothingForgotten /\ ListsAreLive /\ RefusedSayNothing /\ TicksCover
      /\ RemovalsAreAsked /\ ProposalFollows /\ StraysAreRead
    BY DEF DuplicatesInv
<1>2. /\ x.type = "delete" /\ x.at = "answered" /\ UNCHANGED <<shelf, proposal, question, story>>
      /\ offer' = (IF x.ok THEN x.ids ELSE offer)
      /\ x.ok => requests' = Append(q, e)
      /\ ~x.ok => requests' = q
    BY DEF RemovalArrives, Back
<1>3. /\ x \in RequestRecords /\ x \in ToSet(requests) /\ requests \in Seq(RequestRecords)
      /\ q \in Seq(RequestRecords) /\ ToSet(q) \subseteq ToSet(requests)
      /\ \A H : x \notin H /\ Meets(requests, H) => Meets(q, H)
      /\ \A y \in ToSet(q) : OneAddressEach(y.groups)
    BY <1>1, <1>2, OneAnswerIsRead
<1>4. x.mine \in BOOLEAN /\ x.ids \in SUBSET Copies
    BY <1>3 DEF RequestRecords
<1>5. /\ e \in RequestRecords /\ e.type = "list" /\ e.at = "sent" /\ ~e.ok /\ e.groups = <<>> /\ e.mine = x.mine
    BY <1>4, AskForAnother
<1>6. q = RemoveAt(requests, k)
    BY DEF Others
<1> HIDE DEF e, q
<1>7. /\ requests' \in Seq(RequestRecords) /\ ToSet(requests') \subseteq ToSet(requests) \cup {e}
      /\ ToSet(q) \subseteq ToSet(requests')
      /\ x.ok => e \in ToSet(requests')
      /\ ~x.ok => ToSet(requests') \subseteq ToSet(requests)
  <2>1. CASE x.ok
      BY <1>2, <1>3, <1>5, <2>1, OneMoreRequest
  <2>2. CASE ~x.ok
      BY <1>2, <1>3, <2>2
  <2>3. QED
      BY <2>1, <2>2
<1>8. \A H : x \notin H /\ Meets(requests, H) => Meets(requests', H)
    BY <1>3, <1>7, MeetsSome
<1>9. /\ x \notin Paints /\ e \notin Removals /\ (e \in Paints <=> x.mine) /\ (x \in Correcting <=> x.mine)
      /\ e \in ToBeSent /\ e \in UpToDate
      /\ \A copy : x \in Removed(copy) => x.mine /\ x.ok
    BY <1>2, <1>3, <1>5 DEF Paints, Removals, Correcting, ToBeSent, UpToDate, Removed
<1>10. \A y \in ToSet(requests') : y \in Removals => y \in ToSet(requests)
    BY <1>7, <1>9
<1>11. Meets(requests', Removals) => Meets(requests, Removals)
    BY <1>10, MeetsSome
<1>12. ASSUME NEW G, e \in G, EndsOn(requests, Paints, G)
       PROVE  EndsOn(requests', Paints, G)
  <2>1. x \notin Paints /\ requests[k] \notin Paints
      BY <1>9
  <2>2. EndsOn(q, Paints, G)
      BY <1>3, <1>6, <1>12, <2>1, RemoveEnds
  <2>3. x.ok => EndsOn(Append(q, e), Paints, G)
      BY <1>3, <1>5, <1>12, <2>2, AppendEnds
  <2>4. QED
      BY <1>2, <2>2, <2>3
<1>13. x.ok /\ x.mine => EndsOn(requests', Paints, UpToDate) /\ Meets(requests', Paints)
  <2> SUFFICES ASSUME x.ok, x.mine
               PROVE  EndsOn(requests', Paints, UpToDate) /\ Meets(requests', Paints)
      OBVIOUS
  <2>1. EndsOn(Append(q, e), Paints, UpToDate)
      BY <1>3, <1>5, <1>9, AppendEnds
  <2>2. Meets(requests', Paints)
      BY <1>7, <1>9, MeetsSome
  <2>3. QED
      BY <1>2, <2>1, <2>2
<1>14. ~story.refused => x.ok
    BY <1>1, <1>2, <1>3 DEF StraysAreRead
<1> HIDE DEF x
<1>15. DuplicatesTypes'
  <2>1. \A y \in ToSet(requests') : OneAddressEach(y.groups)
      BY <1>1, <1>5, <1>7, TheNone DEF DuplicatesTypes
  <2>2. offer' \in {NoOffer} \cup SUBSET Copies
      BY <1>1, <1>2, <1>4 DEF DuplicatesTypes
  <2>3. QED
      BY <1>1, <1>2, <1>7, <2>1, <2>2 DEF DuplicatesTypes
<1>16. QuestionIsTheScreens' /\ NothingForgotten'
    BY <1>1, <1>2 DEF QuestionIsTheScreens, NothingForgotten, Emptied
<1>17. ListsAreLive' /\ RefusedSayNothing'
    BY <1>1, <1>2, <1>5, <1>7, <1>11 DEF ListsAreLive, RefusedSayNothing, Undisturbed
<1>18. TicksCover'
  <2> SUFFICES ASSUME Undisturbed, proposal # NotShown
               PROVE  /\ \A y \in ToSet(requests') : y \in Removals => (y.mine /\ y.ids \subseteq proposal.ticked) \/ proposal.groups = <<>>
                      /\ Meets(requests', Paints) \/
                         \A copy \in ListedIn(proposal.groups) \ shelf : copy \in proposal.ticked /\ Meets(requests', Removed(copy))
      BY <1>2 DEF TicksCover, Undisturbed
  <2>1. /\ \A y \in ToSet(requests) : y \in Removals => (y.mine /\ y.ids \subseteq proposal.ticked) \/ proposal.groups = <<>>
        /\ Meets(requests, Paints) \/
           \A copy \in ListedIn(proposal.groups) \ shelf : copy \in proposal.ticked /\ Meets(requests, Removed(copy))
      BY <1>1 DEF TicksCover
  <2>2. Meets(requests, Paints) => Meets(requests', Paints)
      BY <1>8, <1>9
  <2>3. \A copy : Meets(requests, Removed(copy)) => Meets(requests', Removed(copy)) \/ Meets(requests', Paints)
      BY <1>8, <1>9, <1>13
  <2>4. QED
      BY <1>10, <2>1, <2>2, <2>3
<1>19. RemovalsAreAsked'
  <2> SUFFICES ASSUME Undisturbed
               PROVE  /\ story.unasked = {}
                      /\ \A y \in ToSet(requests') : y \in Removals => LeavesOne(y)
                      /\ \A y, z \in ToSet(requests') : y \in Removals /\ z \in Removals => y.ids \subseteq z.ids \/ z.ids \subseteq y.ids
      BY <1>2 DEF RemovalsAreAsked, LeavesOne, Undisturbed
  <2>1. /\ story.unasked = {}
        /\ \A y \in ToSet(requests) : y \in Removals => LeavesOne(y)
        /\ \A y, z \in ToSet(requests) : y \in Removals /\ z \in Removals => y.ids \subseteq z.ids \/ z.ids \subseteq y.ids
      BY <1>1 DEF RemovalsAreAsked
  <2>2. QED
      BY <1>10, <2>1
<1>20. ProposalFollows'
  <2> SUFFICES ASSUME Calm, proposal # NotShown
               PROVE  \/ Meets(requests', Correcting)
                      \/ EndsOn(requests', Paints, UpToDate)
                      \/ ~Meets(requests', Paints) /\ proposal.state = "shown" /\ proposal.groups = DuplicateGroups(shelf)
      BY <1>2 DEF ProposalFollows, UpToDate, Calm, Undisturbed
  <2>1. x.ok
      BY <1>14 DEF Calm
  <2>2. \/ Meets(requests, Correcting)
        \/ EndsOn(requests, Paints, UpToDate)
        \/ ~Meets(requests, Paints) /\ proposal.state = "shown" /\ proposal.groups = DuplicateGroups(shelf)
      BY <1>1 DEF ProposalFollows
  <2>3. CASE x.mine
      BY <1>13, <2>1, <2>3
  <2>4. CASE ~x.mine
    <3>1. Meets(requests, Correcting) => Meets(requests', Correcting)
        BY <1>8, <1>9, <2>4
    <3>2. EndsOn(requests, Paints, UpToDate) => EndsOn(requests', Paints, UpToDate)
        BY <1>9, <1>12
    <3>3. Meets(requests', Paints) => Meets(requests, Paints)
        BY <1>7, <1>9, <2>4, MeetsSome
    <3>4. QED
        BY <2>2, <3>1, <3>2, <3>3
  <2>5. QED
      BY <2>3, <2>4
<1>21. StraysAreRead'
  <2>1. ~story.refused => \A y \in ToSet(requests') : y.at = "answered" => y.ok
      BY <1>1, <1>5, <1>7 DEF StraysAreRead
  <2>2. EndsOn(requests, Paints, ToBeSent) => EndsOn(requests', Paints, ToBeSent)
      BY <1>9, <1>12
  <2>3. QED
      BY <1>1, <1>2, <1>10, <2>1, <2>2 DEF StraysAreRead, Calm, Undisturbed
<1>22. QED
    BY <1>15, <1>16, <1>17, <1>18, <1>19, <1>20, <1>21 DEF DuplicatesInv

LEMMA UndoArrivesStep ==
    ASSUME DuplicatesInv, NEW k \in DOMAIN requests, UndoArrives(k)
    PROVE  DuplicatesInv'
<1> DEFINE x == requests[k]
<1>1. /\ DuplicatesTypes /\ QuestionIsTheScreens /\ NothingForgotten /\ ListsAreLive /\ RefusedSayNothing /\ TicksCover
      /\ RemovalsAreAsked /\ StraysAreRead
    BY DEF DuplicatesInv
<1>2. /\ x.type = "restore" /\ x.at = "answered" /\ UNCHANGED <<shelf, offer, story>>
    BY DEF UndoArrives, Back
<1>3. /\ Others(k) \in Seq(RequestRecords) /\ ToSet(Others(k)) \subseteq ToSet(requests)
      /\ Meets(Others(k), Removals) => Meets(requests, Removals)
      /\ \A y \in ToSet(Others(k)) : OneAddressEach(y.groups)
    BY <1>1, <1>2, OneAnswerIsRead
<1> HIDE DEF x
<1>4. CASE proposal = NotShown
  <2>1. requests' = Others(k) /\ UNCHANGED <<proposal, question>>
      BY <1>4 DEF UndoArrives
  <2>2. DuplicatesTypes'
      BY <1>1, <1>2, <1>3, <2>1 DEF DuplicatesTypes
  <2>3. QuestionIsTheScreens' /\ NothingForgotten' /\ ListsAreLive' /\ RefusedSayNothing'
      BY <1>1, <1>2, <1>3, <2>1 DEF QuestionIsTheScreens, NothingForgotten, ListsAreLive, RefusedSayNothing, Undisturbed, Emptied
  <2>4. RemovalsAreAsked'
      BY <1>1, <1>2, <1>3, <2>1 DEF RemovalsAreAsked, LeavesOne, Undisturbed
  <2>5. TicksCover' /\ ProposalFollows'
      BY <1>4, <2>1 DEF TicksCover, ProposalFollows
  <2>6. StraysAreRead'
      BY <1>1, <1>2, <1>3, <1>4, <2>1 DEF StraysAreRead
  <2>7. QED
      BY <2>2, <2>3, <2>4, <2>5, <2>6 DEF DuplicatesInv
<1>5. CASE proposal # NotShown
  <2>1. /\ proposal' = Loading /\ requests' = Opened(Others(k))
        /\ question' = IF question = NoQuestion THEN question ELSE [question EXCEPT !.mine = FALSE]
      BY <1>5 DEF UndoArrives
  <2>2. question \in QuestionRecords \cup {NoQuestion} /\ offer' \in {NoOffer} \cup SUBSET Copies
      BY <1>1, <1>2 DEF DuplicatesTypes
  <2>3. question' \in QuestionRecords \cup {NoQuestion} /\ (question' = NoQuestion \/ ~question'.mine)
      BY <2>1, <2>2 DEF QuestionRecords
  <2>4. QED
      BY <1>2, <1>3, <2>1, <2>2, <2>3, OpenedScreen
<1>6. QED
    BY <1>4, <1>5

(***************************** the theorem *******************************)

LEMMA DuplicatesBegin == DuplicatesInit => DuplicatesInv
<1> SUFFICES ASSUME DuplicatesInit PROVE DuplicatesInv
    OBVIOUS
<1>1. /\ shelf = Copies /\ proposal = NotShown /\ question = NoQuestion /\ offer = NoOffer /\ requests = <<>>
      /\ story = [elsewhere |-> FALSE, refused |-> FALSE, overlapped |-> FALSE, crossed |-> FALSE,
                  gone |-> {}, unasked |-> {}, raised |-> {}]
    BY DEF DuplicatesInit
<1>2. story \in StoryRecords /\ story.unasked = {} /\ story.raised = {}
    BY <1>1 DEF StoryRecords
<1>3. ToSet(requests) = {} /\ requests \in Seq(RequestRecords)
    BY <1>1 DEF ToSet
<1>4. DuplicatesTypes
    BY <1>1, <1>2, <1>3 DEF DuplicatesTypes
<1>5. QuestionIsTheScreens /\ NothingForgotten /\ ListsAreLive /\ RefusedSayNothing
    BY <1>1, <1>2, <1>3 DEF QuestionIsTheScreens, NothingForgotten, ListsAreLive, RefusedSayNothing
<1>6. TicksCover /\ RemovalsAreAsked /\ ProposalFollows /\ StraysAreRead
    BY <1>1, <1>2, <1>3 DEF TicksCover, RemovalsAreAsked, ProposalFollows, StraysAreRead
<1>7. QED
    BY <1>4, <1>5, <1>6 DEF DuplicatesInv

LEMMA DuplicatesKept == DuplicatesInv /\ [DuplicatesNext]_duplicates => DuplicatesInv'
<1> SUFFICES ASSUME DuplicatesInv, [DuplicatesNext]_duplicates PROVE DuplicatesInv'
    OBVIOUS
<1>1. CASE OpensDuplicates
    BY <1>1, OpensDuplicatesStep
<1>2. CASE LeavesDuplicates
    BY <1>2, LeavesDuplicatesStep
<1>3. CASE PressesRemove
    BY <1>3, PressesRemoveStep
<1>4. CASE PressesUndo
    BY <1>4, PressesUndoStep
<1>5. CASE OfferExpires
    BY <1>5, OfferExpiresStep
<1>6. ASSUME NEW copy \in Copies, Ticks(copy) \/ ChangesMeanwhile(copy)
      PROVE  DuplicatesInv'
    BY <1>6, TicksStep, ChangesMeanwhileStep
<1>7. ASSUME proposal # NotShown, NEW n \in DOMAIN proposal.groups, TicksExtras(n)
      PROVE  DuplicatesInv'
    BY <1>7, TicksExtrasStep
<1>8. ASSUME NEW yes \in BOOLEAN, AnswersQuestion(yes)
      PROVE  DuplicatesInv'
    BY <1>8, AnswersQuestionStep
<1>9. ASSUME NEW k \in DOMAIN requests,
             ListsDuplicates(k) \/ DeletesCopies(k) \/ RestoresCopies(k) \/ RefusesRequest(k)
      PROVE  DuplicatesInv'
    BY <1>9, ListsDuplicatesStep, DeletesCopiesStep, RestoresCopiesStep, RefusesRequestStep
<1>10. ASSUME NEW k \in DOMAIN requests, ProposalArrives(k) \/ RemovalArrives(k) \/ UndoArrives(k)
       PROVE  DuplicatesInv'
    BY <1>10, ProposalArrivesStep, RemovalArrivesStep, UndoArrivesStep
<1>11. CASE UNCHANGED duplicates
  <2>1. offer' \in {NoOffer} \cup SUBSET Copies
      BY <1>11 DEF duplicates, DuplicatesInv, DuplicatesTypes
  <2>2. UNCHANGED <<shelf, requests, story>> /\ UNCHANGED <<proposal, question>>
      BY <1>11 DEF duplicates
  <2>3. QED
      BY <2>1, <2>2, NothingShownChanges
<1>12. QED
    BY <1>1, <1>2, <1>3, <1>4, <1>5, <1>6, <1>7, <1>8, <1>9, <1>10, <1>11 DEF DuplicatesNext

LEMMA DuplicatesAreTold == DuplicatesInv => DuplicatesHold
<1> SUFFICES ASSUME DuplicatesInv PROVE DuplicatesHold
    OBVIOUS
<1>1. shelf \in SUBSET Copies /\ story \in StoryRecords
    BY DEF DuplicatesInv, DuplicatesTypes
<1>2. CountIsTheRows
    BY <1>1, TheScreensGroups DEF CountIsTheRows
<1>3. NoAddressVanishesUnasked
    BY DEF DuplicatesInv, RemovalsAreAsked, Undisturbed, NoAddressVanishesUnasked
<1>4. UndoRaisesNothingElse
    BY DEF DuplicatesInv, NothingForgotten, UndoRaisesNothingElse
<1>5. ProposalIsCurrent
  <2> SUFFICES ASSUME requests = <<>>, proposal # NotShown, Calm
               PROVE  proposal.state = "shown" /\ proposal.groups = DuplicateGroups(shelf)
      BY DEF ProposalIsCurrent, Calm, Undisturbed
  <2>1. DOMAIN requests = {}
      OBVIOUS
  <2>2. ~Meets(requests, Correcting) /\ ~EndsOn(requests, Paints, UpToDate)
      BY <2>1 DEF Meets, EndsOn
  <2>3. QED
      BY <2>2 DEF DuplicatesInv, ProposalFollows
<1>6. QED
    BY <1>2, <1>3, <1>4, <1>5 DEF DuplicatesHold

(* The sidebar's number is the number of rows; no address vanishes from the *)
(* vault without the question naming it, unless something came between; an  *)
(* undo raises nothing but what was removed here; and a screen with nothing *)
(* under way proposes what is there.                                        *)
THEOREM DuplicatesAlwaysHold == DuplicatesSpec => []DuplicatesHold
<1>1. DuplicatesSpec => []DuplicatesInv
    BY DuplicatesBegin, DuplicatesKept, PTL DEF DuplicatesSpec
<1>2. QED
    BY <1>1, DuplicatesAreTold, PTL

=============================================================================
