------------------------------- MODULE Search --------------------------------
(***************************************************************************)
(* The search of the unlocked vault (src/vault/search.ts), the index that  *)
(* repo.ts builds on first use and drops on a change, the view the manager *)
(* asks for (listView() of organize.ts), and the highlighting of what was  *)
(* found (matchRanges(), list.ts).                                         *)
(*                                                                         *)
(* Words are atoms: which of them start or hold which is given.  A text to *)
(* highlight is a sequence of characters, each folded to none, one or      *)
(* several.  Titles, tags and notes do not change; parents, addresses and  *)
(* deletions do.  Times of change decide nothing here: ties go by id.      *)
(***************************************************************************)
EXTENDS Integers, Sequences, FiniteSets, SequencesExt, FiniteSetsExt, Functions

CONSTANTS Marks,          \* ids of bookmarks
          Dirs,           \* ids of folders
          TitleWords,     \* of an item: the words of its title
          TagWords,       \* of a bookmark
          NoteWords,      \* of a bookmark
          UrlWords,       \* of an address: host, path and query
          HostWord,       \* of an address
          StartOf,        \* pairs: the first word is the start of the second
          PartOf,         \* pairs: the second word holds the first
          NoIndex,        \* no index is built
          Queries,        \* what is typed: sequences of [kind, value]
          Folded,         \* of a character: what it is folded to
          Lines, Terms,   \* texts and terms to highlight
          FirstHome,      \* of an item: its first parent
          FirstAddress,
          MaxEdits        \* bound: changes of the vault

ASSUME SearchAssumption ==
    /\ Marks \cup Dirs \subseteq Nat \ {0} /\ Marks \cap Dirs = {}

VARIABLES catalog,        \* the items, by id
          searchIndex,    \* NoIndex, or the items it was built from
          committing,     \* apply() has the new items and awaits their buckets
          edits,
          painted         \* what the row painted last highlights

searching == <<catalog, searchIndex, committing, edits, painted>>

RootFolder == 0
Items == Marks \cup Dirs
Listed(items) == {i \in Items : ~items[i].gone}

-----------------------------------------------------------------------------
(* The query *)

FieldWeights == [title |-> 4, tags |-> 3, url |-> 2, note |-> 1]
FieldNames == DOMAIN FieldWeights

EmptyQuery == [terms |-> {}, tags |-> {}, folders |-> {}, hosts |-> {}, fields |-> {}]

(* parseQuery(): "an unknown field name is treated as an ordinary term".   *)
ParsedWord(parsed, word) ==
    CASE word.kind = "tag" -> [parsed EXCEPT !.tags = @ \cup {word.value}]
      [] word.kind = "folder" -> [parsed EXCEPT !.folders = @ \cup {word.value}]
      [] word.kind = "host" -> [parsed EXCEPT !.hosts = @ \cup {word.value}]
      [] word.kind = "in" /\ word.value \in FieldNames -> [parsed EXCEPT !.fields = @ \cup {word.value}]
      [] word.kind = "in" /\ word.value \notin FieldNames -> [parsed EXCEPT !.terms = @ \cup {"in:" \o word.value}]
      [] OTHER -> [parsed EXCEPT !.terms = @ \cup {word.value}]

ParseQuery(query) == FoldLeft(ParsedWord, EmptyQuery, query)

IsEmptyQuery(parsed) == parsed.terms \cup parsed.tags \cup parsed.folders \cup parsed.hosts = {}

-----------------------------------------------------------------------------
(* The index, and what is asked of it *)

FieldText(items, i, name) ==
    CASE name = "title" -> TitleWords[i]
      [] name = "url" -> IF i \in Marks THEN UrlWords[items[i].address] ELSE {}
      [] name = "tags" -> IF i \in Marks THEN TagWords[i] ELSE {}
      [] name = "note" -> IF i \in Marks THEN NoteWords[i] ELSE {}

Includes(words, term) == \E w \in words : w = term \/ <<term, w>> \in StartOf \cup PartOf

(* scoreTerm(): a whole word, the start of one, or anywhere in one.        *)
MatchKind(words, term) ==
    IF term \in words THEN 3
    ELSE IF \E w \in words : <<term, w>> \in StartOf THEN 2
    ELSE IF Includes(words, term) THEN 1 ELSE 0

ScoreTerm(items, i, term, fields) ==
    Max({0} \cup {FieldWeights[name] * MatchKind(FieldText(items, i, name), term) :
                    name \in IF fields = {} THEN FieldNames ELSE fields})

(* isWithin(), hasAncestorTitled(): up the parents, dead ones too, until   *)
(* the top, a folder already seen, or none.                                *)
WalkUp(items, i) ==
    LET Walk[n \in 0 .. Cardinality(Items)] ==
            IF n = 0 THEN <<items[i].parent>>
            ELSE LET trail == Walk[n - 1]
                 IN  IF Last(trail) = RootFolder \/ Last(trail) \in ToSet(Front(trail)) THEN trail
                     ELSE Append(trail, items[Last(trail)].parent)
    IN  ToSet(Walk[Cardinality(Items)])

IsWithin(items, i, scope) == scope \in WalkUp(items, i)

HasAncestorTitled(items, i, word) ==
    \E d \in WalkUp(items, i) \cap Dirs : ~items[d].gone /\ Includes(TitleWords[d], word)

QueryHits(items, parsed, scope) ==
    IF IsEmptyQuery(parsed) THEN {}
    ELSE {i \in Marks \cap Listed(items) :
            /\ scope = RootFolder \/ IsWithin(items, i, scope)
            /\ parsed.tags \subseteq TagWords[i]
            /\ \A host \in parsed.hosts : Includes({HostWord[items[i].address]}, host)
            /\ \A folder \in parsed.folders : HasAncestorTitled(items, i, folder)
            /\ \A term \in parsed.terms : ScoreTerm(items, i, term, parsed.fields) > 0}

HitScore(items, i, parsed) ==
    IF parsed.terms = {} THEN FieldWeights.tags
    ELSE MapThenSumSet(LAMBDA term : ScoreTerm(items, i, term, parsed.fields), parsed.terms)

SearchResult(items, parsed, scope) ==
    SetToSortSeq(QueryHits(items, parsed, scope),
        LAMBDA i, j : \/ HitScore(items, i, parsed) > HitScore(items, j, parsed)
                      \/ HitScore(items, i, parsed) = HitScore(items, j, parsed) /\ i < j)

-----------------------------------------------------------------------------
(* Highlighting: positions in the line as it was typed *)

(* foldWithMap(): what is compared, each with the character it came from.  *)
FoldWithMap(line) ==
    FlattenSeq([n \in DOMAIN line |-> [c \in DOMAIN Folded[line[n]] |-> [char |-> Folded[line[n]][c], from |-> n]]])

OccursAt(folded, term, at) ==
    /\ at + Len(term) - 1 <= Len(folded)
    /\ \A c \in DOMAIN term : folded[at + c - 1].char = term[c]

Occurrences(folded, term) == {at \in DOMAIN folded : OccursAt(folded, term, at)}

FoundRanges(line, terms) ==
    LET folded == FoldWithMap(line)
        Origin(at) == IF at \in DOMAIN folded THEN folded[at].from ELSE Len(line) + 1
    IN  {range \in UNION {{[start |-> Origin(at), end |-> Origin(at + Len(term))] :
                              at \in Occurrences(folded, term)} : term \in terms \ {<<>>}} :
            range.end > range.start}

(* mergeRanges(): overlapping and adjacent ones become one.                *)
MergedWith(merged, range) ==
    IF merged # <<>> /\ range.start <= Last(merged).end
      THEN IF range.end > Last(merged).end
             THEN Append(Front(merged), [Last(merged) EXCEPT !.end = range.end])
             ELSE merged
      ELSE Append(merged, range)

MergeRanges(ranges) ==
    FoldLeft(MergedWith, <<>>,
        SetToSortSeq(ranges, LAMBDA a, b : a.start < b.start \/ (a.start = b.start /\ a.end < b.end)))

MatchRanges(line, terms) == MergeRanges(FoundRanges(line, terms))

-----------------------------------------------------------------------------
(* The vault it searches *)

SearchInit ==
    /\ catalog = [i \in Items |-> [parent |-> FirstHome[i], address |-> FirstAddress, gone |-> FALSE]]
    /\ searchIndex = NoIndex
    /\ committing = FALSE
    /\ edits = 0
    /\ painted = <<>>

(* apply(), purge(), replaceAll(): the items are new at once; when some are *)
(* not known yet their buckets are awaited before the index is dropped.    *)
Commits(items, awaits) ==
    /\ edits < MaxEdits /\ ~committing /\ painted = <<>>
    /\ edits' = edits + 1
    /\ catalog' = items
    /\ IF awaits THEN committing' = TRUE /\ UNCHANGED searchIndex
       ELSE searchIndex' = NoIndex /\ UNCHANGED committing
    /\ UNCHANGED painted

DeletesItem(i) == ~catalog[i].gone /\ Commits([catalog EXCEPT ![i].gone = TRUE], FALSE)
EditsAddress(i, a) == catalog[i].address # a /\ Commits([catalog EXCEPT ![i].address = a], FALSE)
MergesMove(i, p) == catalog[i].parent # p /\ Commits([catalog EXCEPT ![i].parent = p], TRUE)
MergesReturn(i) == catalog[i].gone /\ Commits([catalog EXCEPT ![i].gone = FALSE], TRUE)

(* Bug: the index outlives the change.                                     *)
CommitEndsQuietly ==
    /\ committing
    /\ committing' = FALSE
    /\ UNCHANGED <<catalog, searchIndex, edits, painted>>

CommitEnds ==
    /\ committing
    /\ committing' = FALSE
    /\ searchIndex' = NoIndex
    /\ UNCHANGED <<catalog, edits, painted>>

(* VaultRepository.search(): the index is built when it is first asked for. *)
AsksIndex ==
    /\ searchIndex = NoIndex
    /\ searchIndex' = catalog
    /\ UNCHANGED <<catalog, committing, edits, painted>>

LockDropsIndex ==
    /\ searchIndex # NoIndex /\ painted = <<>>
    /\ searchIndex' = NoIndex
    /\ UNCHANGED <<catalog, committing, edits, painted>>

(* highlight(): a row of what was found, before the first change only, and *)
(* nothing else happens until it is scrolled away.                         *)
PaintsRow(line, terms) ==
    /\ searchIndex # NoIndex /\ edits = 0 /\ painted = <<>>
    /\ painted' = <<line, terms>>
    /\ UNCHANGED <<catalog, searchIndex, committing, edits>>

RowScrollsAway ==
    /\ painted # <<>>
    /\ painted' = <<>>
    /\ UNCHANGED <<catalog, searchIndex, committing, edits>>

SearchNext ==
    \/ \E i \in Marks : DeletesItem(i) \/ MergesReturn(i) \/ \E a \in DOMAIN UrlWords : EditsAddress(i, a)
    \/ \E i \in Items, p \in Dirs \cup {RootFolder} : MergesMove(i, p)
    \/ CommitEnds \/ AsksIndex \/ LockDropsIndex \/ RowScrollsAway
    \/ \E line \in Lines, terms \in SUBSET Terms : PaintsRow(line, terms)

SearchSpec == SearchInit /\ [][SearchNext]_searching

(***************************** properties **********************************)

(* While no change is being stored, what answers a search is the vault as  *)
(* it is, not as it was when it was first asked.                           *)
IndexIsOfTheVault == searchIndex # NoIndex /\ ~committing => searchIndex = catalog

(* What the sidebar would lead to: a folder's children, and theirs.        *)
Below(items, scope) ==
    LET Reached[n \in 0 .. Cardinality(Items)] ==
            IF n = 0 THEN {scope}
            ELSE Reached[n - 1] \cup {i \in Items : items[i].parent \in Reached[n - 1]}
    IN  Reached[Cardinality(Items)]

Needle(word) == IF word.kind = "in" THEN "in:" \o word.value ELSE word.value

SaysWord(items, i, word, only) ==
    CASE word.kind = "tag" -> word.value \in TagWords[i]
      [] word.kind = "folder" ->
            \E d \in Dirs \cap Listed(items) : Includes(TitleWords[d], word.value) /\ i \in Below(items, d)
      [] word.kind = "host" -> Includes({HostWord[items[i].address]}, word.value)
      [] OTHER -> \E name \in only : Includes(FieldText(items, i, name), Needle(word))

(* "Every term must match somewhere; every filter must match" (search.ts), *)
(* in the vault as it is when no commit is under way: a query finds the    *)
(* bookmarks under the folder that say each of its words, and one that has *)
(* a word as its title's comes before one that only holds it.              *)
FindsWhatIsThere ==
    (~committing /\ searchIndex # NoIndex /\ painted = <<>>) =>
        \A query \in Queries, scope \in Dirs \cup {RootFolder} :
            LET result == SearchResult(searchIndex, ParseQuery(query), scope)
                plain == {word \in ToSet(query) : word.kind # "in" \/ word.value \notin FieldNames}
                only == {word.value : word \in ToSet(query) \ plain}
                searched == IF only = {} THEN FieldNames ELSE only
            IN  /\ ToSet(result) =
                     {i \in Marks \cap Listed(catalog) :
                        /\ plain # {}
                        /\ i \in Below(catalog, scope) \/ scope = RootFolder
                        /\ \A word \in plain : SaysWord(catalog, i, word, searched)}
                /\ \A word \in plain : (word.kind = "" /\ Cardinality(plain) = 1 /\ only = {}) =>
                     \A m, n \in DOMAIN result :
                        (/\ word.value \in TitleWords[result[m]]
                         /\ \A name \in FieldNames : word.value \notin FieldText(catalog, result[n], name)) => m < n

(* "The characters the user actually typed": the highlights of a line do   *)
(* not touch, every character that lies in an occurrence is in one, and    *)
(* what is in one belongs to an occurrence or is folded to nothing.        *)
HighlightsCover ==
    painted # <<>> =>
        LET line == painted[1]
            terms == painted[2]
            ranges == MatchRanges(line, terms)
            folded == FoldWithMap(line)
            inside(n) == \E r \in DOMAIN ranges : n \in ranges[r].start .. ranges[r].end - 1
            from(n) == {c \in DOMAIN folded : folded[c].from = n}
            found == {pair[2] .. pair[2] + Len(pair[1]) - 1 : pair \in
                        {pair \in (terms \ {<<>>}) \X DOMAIN folded : OccursAt(folded, pair[1], pair[2])}}
        IN  /\ \A r \in DOMAIN ranges : r > 1 => ranges[r - 1].end < ranges[r].start
            /\ \A n \in DOMAIN line : from(n) # {} =>
                  /\ (\E occurrence \in found : from(n) \subseteq occurrence) => inside(n)
                  /\ inside(n) => \E occurrence \in found : from(n) \cap occurrence # {}

(* What a search reads and shows: the three above.                         *)
SearchHolds == IndexIsOfTheVault /\ FindsWhatIsThere /\ HighlightsCover
=============================================================================
