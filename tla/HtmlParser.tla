----------------------------- MODULE HtmlParser -----------------------------
(***************************************************************************)
(* The reader of key pages: html/IMG3_HtmlParser.cpp and IMG3_HtmlTag.cpp, *)
(* as UpdateIMG3Database (IMG3_Functions.cpp) runs them.                   *)
(*                                                                         *)
(* A page is a sequence of items: a tag, a comment, or a cut (a tag that   *)
(* never ends, or is too long), each with the text that follows it up to   *)
(* the next item (the <b> and <code> tags around a value are part of it).  *)
(* An item's place stands for the id the parser gives the tag (the counter *)
(* numbers the tags in page order), and a piece of text for its            *)
(* characters: letter case and surrounding blanks are layout here.         *)
(***************************************************************************)
EXTENDS Integers, SequencesExt

CONSTANTS
    Page,           \* the pages that can be read
    Name,           \* tag names
    Filter,         \* the names UpdateIMG3Database asks for
    MaxUnterminated \* bound: filters whose copy does not end where it should

Kind == {"open", "close", "whole", "comment", "cut"}
NoName == "no name"

(* What follows a tag.  "iv" and "key" are a labelled value that can be    *)
(* read, "iv label" is <b>IV</b> without one; "limit" has exactly          *)
(* MAX_TAG_VALUE_LENGTH characters and "huge" more than                    *)
(* MAX_TAG_DATA_LENGTH.                                                    *)
Text == {"none", "blank", "words", "iv label", "iv", "key", "limit", "huge"}

(* A comment's name is that of a tag inside it, before its first '>'.      *)
Item == [kind: Kind, name: Name \cup {NoName}, text: Text]

ASSUME HtmlParserAssumption ==
    /\ Page \subseteq Seq(Item)
    /\ Filter \subseteq Name
    /\ NoName \notin Name
    /\ "ul" \in Filter
    /\ MaxUnterminated \in Nat

VARIABLES
    page,       \* the page being read
    filters,    \* tagFilters: the names that will match
    pc, pos,    \* what is executed next; the item, pair or tag it has reached
    openings,   \* openingTags
    closings,   \* closingTags
    complete,   \* completeTags: pairs in the order they were matched
    sorted,     \* sortedTags
    todo,       \* closingTagsOfType: closing tags this CombineTags has yet to visit
    filled,     \* the opening tags that have got their data
    infos,      \* decryptionList
    errorCode

vars == <<page, filters, pc, pos, openings, closings, complete, sorted, todo,
          filled, infos, errorCode>>

NameOf(i) == page[i].name
OfName(tags, n) == {i \in tags : NameOf(i) = n}

Pair == [opening: Nat, closing: Nat]
Info == [section: Pair, iv: Nat, key: Nat]

-----------------------------------------------------------------------------
Init ==
    /\ page \in Page
    /\ filters = {}
    /\ pc = "filters"
    /\ pos = 1
    /\ openings = {} /\ closings = {}
    /\ complete = <<>> /\ sorted = <<>>
    /\ todo = {}
    /\ filled = {}
    /\ infos = <<>>
    /\ errorCode = "none"

\* AddFilter copies a name without the character that ends it: whether the copy
\* equals the name depends on what the memory held.
AddFilters ==
    /\ pc = "filters"
    /\ \E lost \in SUBSET Filter :
          /\ Cardinality(lost) <= MaxUnterminated
          /\ filters' = Filter \ lost
    /\ pc' = "scan"
    /\ UNCHANGED <<page, pos, openings, closings, complete, sorted, todo, filled,
                   infos, errorCode>>

(* ----- ParseHtmlTags: the scan ----------------------------------------- *)

\* Mutant: every tag is of interest.
TagIsOfInterest_always(n) == TRUE

TagIsOfInterest(n) == n \in filters

AddOpeningTag(i) ==
    /\ openings' = IF TagIsOfInterest(NameOf(i)) THEN openings \cup {i} ELSE openings
    /\ UNCHANGED <<closings, complete>>

AddWholeTag(i) ==
    /\ complete' = IF TagIsOfInterest(NameOf(i))
                   THEN Append(complete, [opening |-> i, closing |-> i]) ELSE complete
    /\ UNCHANGED <<openings, closings>>

AddClosingTag(i) ==
    /\ closings' = IF TagIsOfInterest(NameOf(i)) THEN closings \cup {i} ELSE closings
    /\ UNCHANGED <<openings, complete>>

(* The scan skips a comment by the distance from the start of the tag to   *)
(* its '>', but from where it is, which may be before the comment: it can  *)
(* come to rest inside, before the tag there.                              *)
ScanComment(i) ==
    \/ UNCHANGED <<openings, closings, complete>>
    \/ NameOf(i) # NoName /\ AddOpeningTag(i)

ScanTag ==
    /\ pc = "scan"
    /\ pos <= Len(page)
    /\ pos' = pos + 1
    /\ \/ page[pos].kind = "open" /\ AddOpeningTag(pos)
       \/ page[pos].kind = "whole" /\ AddWholeTag(pos)
       \/ page[pos].kind = "close" /\ AddClosingTag(pos)
       \/ page[pos].kind = "comment" /\ ScanComment(pos)
    /\ UNCHANGED <<page, filters, pc, sorted, todo, filled, infos, errorCode>>

\* The scan ends with the page, or at a tag that does not.
EndScan ==
    /\ pc = "scan"
    /\ pc' = "combine"
    /\ \/ /\ pos > Len(page)
          /\ UNCHANGED errorCode
       \/ /\ pos <= Len(page)
          /\ page[pos].kind = "cut"
          /\ errorCode' = "tag"
    /\ UNCHANGED <<page, filters, pos, openings, closings, complete, sorted, todo,
                   filled, infos>>

(* ----- CombineTags, called until no opening tag is left ---------------- *)

\* Takes the first closing tag's name; front() of an empty list is undefined, and
\* what the library returns there is no node.
BeginCombine ==
    /\ pc = "combine"
    /\ \/ /\ openings = {}
          /\ pc' = "retrieve"
          /\ pos' = 1
          /\ UNCHANGED todo
       \/ /\ openings # {}
          /\ closings = {}
          /\ pc' = "crashed"
          /\ UNCHANGED <<pos, todo>>
       \/ /\ openings # {}
          /\ closings # {}
          /\ todo' = OfName(closings, NameOf(Min(closings)))
          /\ pc' = "match"
          /\ UNCHANGED pos
    /\ UNCHANGED <<page, filters, openings, closings, complete, sorted, filled,
                   infos, errorCode>>

\* Mutant: the first opening tag before c is taken.
MatchesOf_first(c) ==
    LET candidates == OfName(openings, NameOf(c))
        earlier == {o \in candidates : o < c}
    IN  IF earlier # {} /\ (earlier # candidates \/ Cardinality(candidates) = 1)
        THEN {Min(earlier)} ELSE {}

\* Mutant: the case of a single opening tag is forgotten.
MatchesOf_notLast(c) ==
    LET candidates == OfName(openings, NameOf(c))
        earlier == {o \in candidates : o < c}
    IN  IF earlier # {} /\ earlier # candidates THEN {Max(earlier)} ELSE {}

(* The opening tag that closing tag c is paired with, if any: the one just *)
(* before the first that comes after c; or the only one there is.  With    *)
(* several and none after c, the loop ends without a match.                *)
MatchesOf(c) ==
    LET candidates == OfName(openings, NameOf(c))
        earlier == {o \in candidates : o < c}
    IN  IF earlier # {} /\ (earlier # candidates \/ Cardinality(candidates) = 1)
        THEN {Max(earlier)} ELSE {}

\* Mutant: a closing tag that finds no opening tag is removed too.
MatchClosing_dropped ==
    /\ pc = "match"
    /\ todo # {}
    /\ LET c == Min(todo) IN
       /\ todo' = todo \ {c}
       /\ closings' = closings \ {c}
       /\ \/ \E o \in MatchesOf(c) :
                /\ complete' = Append(complete, [opening |-> o, closing |-> c])
                /\ openings' = openings \ {o}
          \/ MatchesOf(c) = {} /\ UNCHANGED <<openings, complete>>
    /\ UNCHANGED <<page, filters, pc, pos, sorted, filled, infos, errorCode>>

MatchClosing ==
    /\ pc = "match"
    /\ todo # {}
    /\ LET c == Min(todo) IN
       /\ todo' = todo \ {c}
       /\ \/ \E o \in MatchesOf(c) :
                /\ complete' = Append(complete, [opening |-> o, closing |-> c])
                /\ openings' = openings \ {o}
                /\ closings' = closings \ {c}
                /\ UNCHANGED errorCode
          \/ /\ MatchesOf(c) = {}
             /\ errorCode' = IF \E o \in OfName(openings, NameOf(c)) : o > c
                             THEN "tag set" ELSE errorCode
             /\ UNCHANGED <<openings, closings, complete>>
    /\ UNCHANGED <<page, filters, pc, pos, sorted, filled, infos>>

EndCombine ==
    /\ pc = "match"
    /\ todo = {}
    /\ IF openings = {} THEN pc' = "retrieve" /\ pos' = 1
                        ELSE pc' = "combine" /\ UNCHANGED pos
    /\ UNCHANGED <<page, filters, openings, closings, complete, sorted, todo, filled,
                   infos, errorCode>>

(* ----- RetrieveDataBetweenTags and SetData ----------------------------- *)

TextIn(p, texts) == \E i \in p.opening..(p.closing - 1) : page[i].text \in texts
IsText(p, text) == p.closing = p.opening + 1 /\ page[p.opening].text = text

\* One pair.  A whole tag ends before its data begins, and the unsigned length
\* that results is too long: retrieval stops, as it does for long data.
RetrieveData ==
    /\ pc = "retrieve"
    /\ pos <= Len(complete)
    /\ LET p == complete[pos] IN
       \/ /\ p.opening = p.closing \/ TextIn(p, {"huge"})
          /\ errorCode' = "data too long"
          /\ pc' = "sort"
          /\ UNCHANGED <<pos, filled>>
       \/ /\ IsText(p, "blank")                     \* SetData trims past the start
          /\ pc' = "crashed"
          /\ UNCHANGED <<pos, filled, errorCode>>
       \/ /\ IsText(p, "none") \/ IsText(p, "limit")
          /\ pos' = pos + 1
          /\ UNCHANGED <<pc, filled, errorCode>>
       \/ /\ p.opening # p.closing /\ ~TextIn(p, {"huge"})
          /\ \A text \in {"blank", "none", "limit"} : ~IsText(p, text)
          /\ filled' = filled \cup {p.opening}
          /\ pos' = pos + 1
          /\ UNCHANGED <<pc, errorCode>>
    /\ UNCHANGED <<page, filters, openings, closings, complete, sorted, todo, infos>>

EndRetrieve ==
    /\ pc = "retrieve"
    /\ pos > Len(complete)
    /\ pc' = "sort"
    /\ UNCHANGED <<page, filters, pos, openings, closings, complete, sorted, todo,
                   filled, infos, errorCode>>

(* ----- SortTagsById ---------------------------------------------------- *)

NextById ==
    CHOOSE i \in DOMAIN complete :
        \A j \in DOMAIN complete : complete[i].opening <= complete[j].opening

SortTagsById ==
    /\ pc = "sort"
    /\ IF complete # <<>>
       THEN /\ sorted' = Append(sorted, complete[NextById])
            /\ complete' = RemoveAt(complete, NextById)
            /\ UNCHANGED <<pc, pos>>
       ELSE /\ pc' = "extract"
            /\ pos' = 1
            /\ UNCHANGED <<sorted, complete>>
    /\ UNCHANGED <<page, filters, openings, closings, todo, filled, infos, errorCode>>

(* ----- ExtractDecryptionInfo ------------------------------------------- *)

HasIV(p) == TextIn(p, {"iv label", "iv"})

\* The places in p's data, from the first <b>IV</b> on, where a ':' begins a value.
Values(p) ==
    LET inside == p.opening..(p.closing - 1)
        label == Min({i \in inside : page[i].text \in {"iv label", "iv"}})
    IN  {i \in inside : i >= label /\ page[i].text \in {"iv", "key"}}

IsList(p) == NameOf(p.opening) = "ul"

\* A tag without data has a NULL string, and nothing comes before the first tag.
Readable(k) ==
    /\ sorted[k].opening \in filled
    /\ HasIV(sorted[k]) => k > 1 /\ sorted[k - 1].opening \in filled

\* Mutant: the tag after the list names the section.
InfoOf_next(k) ==
    LET values == Values(sorted[k])
        iv == Min(values)
    IN  [section |-> sorted[IF k < Len(sorted) THEN k + 1 ELSE k],
         iv |-> iv, key |-> Min(values \ {iv})]

InfoOf(k) ==
    LET values == Values(sorted[k])
        iv == Min(values)
    IN  [section |-> sorted[k - 1], iv |-> iv, key |-> Min(values \ {iv})]

\* One tag of sortedTags.  An entry without IV or key ends the extraction.
ExtractInfo ==
    /\ pc = "extract"
    /\ pos <= Len(sorted)
    /\ LET p == sorted[pos]
           skipped == ~IsList(p) \/ (Readable(pos) /\ ~HasIV(p))
       IN
       \/ /\ skipped
          /\ pos' = pos + 1
          /\ UNCHANGED <<pc, infos, errorCode>>
       \/ /\ IsList(p) /\ ~Readable(pos)
          /\ pc' = "crashed"
          /\ UNCHANGED <<pos, infos, errorCode>>
       \/ /\ ~skipped /\ Readable(pos)
          /\ Cardinality(Values(p)) < 2
          /\ errorCode' = IF Values(p) = {} THEN "no IV" ELSE "no key"
          /\ pc' = "done"
          /\ UNCHANGED <<pos, infos>>
       \/ /\ ~skipped /\ Readable(pos)
          /\ Cardinality(Values(p)) >= 2
          /\ infos' = Append(infos, InfoOf(pos))
          /\ pos' = pos + 1
          /\ UNCHANGED <<pc, errorCode>>
    /\ UNCHANGED <<page, filters, openings, closings, complete, sorted, todo, filled>>

EndExtract ==
    /\ pc = "extract"
    /\ pos > Len(sorted)
    /\ pc' = "done"
    /\ UNCHANGED <<page, filters, pos, openings, closings, complete, sorted, todo,
                   filled, infos, errorCode>>

-----------------------------------------------------------------------------
Next ==
    \/ AddFilters
    \/ ScanTag \/ EndScan
    \/ BeginCombine \/ MatchClosing \/ EndCombine
    \/ RetrieveData \/ EndRetrieve
    \/ SortTagsById
    \/ ExtractInfo \/ EndExtract

Spec == Init /\ [][Next]_vars

\* The parser is one thread: while it has a next step, it takes one.
FairSpec == Spec /\ WF_vars(Next)

-----------------------------------------------------------------------------
Matched == Range(complete) \cup Range(sorted)

TypeOK ==
    /\ page \in Seq(Item)
    /\ filters \subseteq Filter
    /\ pc \in {"filters", "scan", "combine", "match", "retrieve", "sort", "extract",
               "done", "crashed"}
    /\ pos \in 1..(Len(page) + 1)
    /\ \A i \in openings \cup closings : i \in 1..Len(page) /\ NameOf(i) \in Filter
    /\ complete \in Seq(Pair) /\ sorted \in Seq(Pair)
    /\ todo \subseteq closings
    /\ filled \subseteq 1..Len(page)
    /\ infos \in Seq(Info)
    /\ errorCode \in {"none", "tag", "tag set", "data too long", "no IV", "no key"}

(* ----- Properties ------------------------------------------------------ *)

Scanned == pc \notin {"filters", "scan"}

\* The scan takes what stands before a tag that does not end; so far it has come to pos.
ScanEnd == Min({i \in 1..Len(page) : page[i].kind = "cut"} \cup {Len(page) + 1})
Reached == IF Scanned THEN ScanEnd ELSE pos

\* The tags of the filters' names on that part of the page, read off the page.
TagsOfPage ==
    {i \in 1..Len(page) : i < Reached /\ NameOf(i) \in filters /\ page[i].kind # "comment"}

\* No tag is lost: each tag of interest of the page is in a list or in a pair, in the
\* scan and after it, through CombineTags, RemoveOpeningTag, RemoveClosingTag and
\* SortTagsById.  None is in two, and a pair joins an opening tag to a later closing
\* tag of its name.
TagsConserved ==
    LET ends == {p.opening : p \in Matched} \cup {p.closing : p \in Matched}
    IN  /\ TagsOfPage \subseteq ends \cup openings \cup closings
        /\ \A p, q \in Matched : p # q => {p.opening, p.closing} \cap {q.opening, q.closing} = {}
        /\ \A p \in Matched : NameOf(p.opening) = NameOf(p.closing) /\ p.opening <= p.closing
        /\ Cardinality(Matched) = Len(complete) + Len(sorted)
        /\ ends \cap (openings \cup closings) = {}

(* Nesting, read off the page by counting tags of one name; the opening    *)
(* tag of a comment in which the scan came to rest is a tag like others.   *)

TagsInComments ==
    {i \in openings \cup {p.opening : p \in Matched} : page[i].kind = "comment"}
Tags == TagsOfPage \cup TagsInComments
Opens(n, i, j) == {k \in OfName(Tags, n) : k \in i..j /\ page[k].kind \in {"open", "comment"}}
Closes(n, i, j) == {k \in OfName(Tags, n) : k \in i..j /\ page[k].kind = "close"}
Level(n, i, j) == Cardinality(Opens(n, i, j)) - Cardinality(Closes(n, i, j))

\* The closing tag that ends the element which tag o opens: the first to even out.
EvenedOut(o) == {c \in Closes(NameOf(o), o, Len(page)) : Level(NameOf(o), o, c) = 0}
Partner(o) == IF page[o].kind = "whole" THEN o ELSE Min(EvenedOut(o))

\* CombineTags joins every opening tag it joins at all to the closing tag of its own
\* element, however elements nest, whatever tags lack their other half and whatever
\* the other names do: an element's data is never that of another.
GenuinePairs ==
    Scanned => \A p \in Matched :
        /\ page[p.opening].kind = "whole" \/ EvenedOut(p.opening) # {}
        /\ p.closing = Partner(p.opening)

(* The entries of a page, by its nesting alone. *)

Element(o) == [opening |-> o, closing |-> Partner(o)]
EntryLists == {o \in Opens("ul", 1, Len(page)) : HasIV(Element(o))}
Heads == (UNION {Opens(n, 1, Len(page)) : n \in Filter})
         \cup {i \in Tags : page[i].kind = "whole"}
IsWhole(o) == Cardinality(Values(Element(o))) >= 2 /\ \E h \in Heads : h < o
EntryOf(o) ==
    LET values == Values(Element(o))
        iv == Min(values)
    IN  [section |-> Element(Max({h \in Heads : h < o})), iv |-> iv, key |-> Min(values \ {iv})]

\* Every filter is one, and no comment of the page has a tag of interest in it: Tags
\* is then what the page says, whatever the parser's lists hold.
ReadsWell ==
    /\ filters = Filter
    /\ \A i \in 1..Len(page) : page[i].kind = "comment" => NameOf(i) \notin Filter

\* "<span>[Area Name]</span><ul><li> <b>IV</b>: ... <b>Key</b>: ...": where no filter is
\* lost and no comment misread, an extraction without error yields exactly the entries
\* on the page, in page order, each with the name just before its list and that list's
\* own IV and key; one that stops early yields the first of them.
EntriesOfPage ==
    ReadsWell =>
    /\ \A k \in DOMAIN infos : \E o \in EntryLists :
          /\ IsWhole(o) /\ infos[k] = EntryOf(o)
          /\ Cardinality({e \in EntryLists : e <= o}) = k
    /\ pc = "done" /\ errorCode = "none" => Len(infos) = Cardinality(EntryLists)

Balanced(n) ==
    /\ \A j \in 1..Len(page) : Level(n, 1, j) >= 0
    /\ Level(n, 1, Len(page)) = 0

(* A page CombineTags can deal with: the last outermost element of a name  *)
(* has no element of that name inside, and every element has text.         *)
NestedOnlyBefore(n) ==
    LET outer == {o \in Opens(n, 1, Len(page)) : Level(n, 1, o) = 1}
    IN  outer # {} => \A i \in Opens(n, 1, Len(page)) : i <= Max(outer)
HasText(p) ==
    /\ p.opening # p.closing
    /\ ~TextIn(p, {"huge"})
    /\ \A text \in {"none", "blank", "limit"} : ~IsText(p, text)

WellFormed ==
    /\ pc = "combine"
    /\ \A n \in Filter : Balanced(n) /\ NestedOnlyBefore(n)
    /\ \A h \in Heads : HasText(Element(h))
    /\ \A o \in EntryLists : \E h \in Heads : h < o

\* On such a page the loop "while (result > 0)" around CombineTags ends, and the
\* rest of the parser reaches its end without reading a missing string.
PageIsParsed == WellFormed ~> pc = "done"
=============================================================================
