-------------------------- MODULE HtmlParserProofs --------------------------
(***************************************************************************)
(* Theorems about the reader of key pages, for any pages, tag names and    *)
(* filters: no tag is lost, pairs are the elements of the page, and the    *)
(* entries it yields are those of the page.                                *)
(***************************************************************************)
EXTENDS HtmlParser, ExtremaProofs, SequenceTheorems, FiniteSetTheorems

-----------------------------------------------------------------------------
(* Sequences and sets. *)

LEMMA AppendFacts ==
    ASSUME NEW T, NEW s \in Seq(T), NEW e \in T
    PROVE  /\ Append(s, e) \in Seq(T) /\ Len(Append(s, e)) = Len(s) + 1
           /\ Range(Append(s, e)) = Range(s) \cup {e}
           /\ IsInjective(s) /\ e \notin Range(s) => IsInjective(Append(s, e))
<1> DEFINE t == Append(s, e)
<1>1. /\ t \in Seq(T) /\ Len(t) = Len(s) + 1 /\ Len(s) \in Nat
      /\ DOMAIN t = 1..(Len(s) + 1) /\ DOMAIN s = 1..Len(s)
      /\ t[Len(s) + 1] = e /\ \A i \in 1..Len(s) : t[i] = s[i]
  OBVIOUS
<1> HIDE DEF t
<1>2. Range(t) = Range(s) \cup {e}
  BY <1>1 DEF Range
<1>3. IsInjective(s) /\ e \notin Range(s) => IsInjective(t)
  BY <1>1 DEF Range, IsInjective
<1> QED
  BY <1>1, <1>2, <1>3 DEF t

LEMMA RemoveAtFacts ==
    ASSUME NEW T, NEW s \in Seq(T), NEW i \in DOMAIN s
    PROVE  /\ RemoveAt(s, i) \in Seq(T) /\ Len(RemoveAt(s, i)) = Len(s) - 1
           /\ IsInjective(s) => /\ IsInjective(RemoveAt(s, i))
                                /\ Range(RemoveAt(s, i)) = Range(s) \ {s[i]}
<1> DEFINE a == SubSeq(s, 1, i - 1)
           b == SubSeq(s, i + 1, Len(s))
           t == RemoveAt(s, i)
<1>1. i \in 1..Len(s) /\ Len(s) \in Nat /\ DOMAIN s = 1..Len(s)
  OBVIOUS
<1>2. a \in Seq(T) /\ Len(a) = i - 1 /\ \A j \in 1..(i - 1) : a[j] = s[j]
  BY <1>1
<1>3. b \in Seq(T) /\ Len(b) = Len(s) - i /\ \A j \in 1..(Len(s) - i) : b[j] = s[i + j]
  BY <1>1
<1>4. t = a \o b
  BY DEF RemoveAt
<1> HIDE DEF a, b, t
<1>5. /\ t \in Seq(T) /\ Len(t) = Len(s) - 1 /\ DOMAIN t = 1..(Len(s) - 1)
      /\ \A j \in 1..(Len(s) - 1) : t[j] = IF j < i THEN s[j] ELSE s[j + 1]
  <2>1. /\ t \in Seq(T) /\ Len(t) = Len(a) + Len(b)
        /\ \A j \in 1..(Len(a) + Len(b)) : t[j] = IF j <= Len(a) THEN a[j] ELSE b[j - Len(a)]
    BY <1>2, <1>3, <1>4, ConcatProperties
  <2>2. ASSUME NEW j \in 1..(Len(s) - 1) PROVE t[j] = IF j < i THEN s[j] ELSE s[j + 1]
    <3>1. t[j] = IF j <= i - 1 THEN a[j] ELSE b[j - (i - 1)]
      BY <1>1, <1>2, <1>3, <2>1
    <3>2. CASE j < i
      BY <1>1, <1>2, <3>1, <3>2
    <3>3. CASE ~ (j < i)
      <4>1. j - (i - 1) \in 1..(Len(s) - i) /\ i + (j - (i - 1)) = j + 1
        BY <1>1, <3>3
      <4>2. b[j - (i - 1)] = s[j + 1]
        BY <1>3, <4>1
      <4> QED
        BY <1>1, <3>1, <3>3, <4>2
    <3> QED
      BY <3>2, <3>3
  <2> QED
    BY <1>1, <1>2, <1>3, <2>1, <2>2
<1>6. ASSUME IsInjective(s) PROVE IsInjective(t)
  <2> SUFFICES ASSUME NEW j \in 1..(Len(s) - 1), NEW k \in 1..(Len(s) - 1), t[j] = t[k]
               PROVE  j = k
    BY <1>5 DEF IsInjective
  <2> DEFINE from(x) == IF x < i THEN x ELSE x + 1
  <2>1. from(j) \in 1..Len(s) /\ from(k) \in 1..Len(s)
    BY <1>1
  <2>2. t[j] = s[from(j)] /\ t[k] = s[from(k)]
    BY <1>5
  <2>3. from(j) = from(k)
    BY <1>1, <1>6, <2>1, <2>2 DEF IsInjective
  <2> QED
    BY <1>1, <2>3
<1>7. ASSUME IsInjective(s) PROVE Range(t) = Range(s) \ {s[i]}
  <2>1. ASSUME NEW x \in Range(t) PROVE x \in Range(s) /\ x # s[i]
    BY <1>1, <1>5, <1>7 DEF IsInjective, Range
  <2>2. ASSUME NEW x \in Range(s), x # s[i] PROVE x \in Range(t)
    <3>1. PICK k \in 1..Len(s) : x = s[k] /\ k # i
      BY <1>1, <2>2 DEF Range
    <3>2. CASE k < i
      BY <1>1, <1>5, <3>1, <3>2 DEF Range
    <3>3. CASE k > i
      <4>1. k - 1 \in 1..(Len(s) - 1) /\ t[k - 1] = s[k]
        BY <1>1, <1>5, <3>1, <3>3
      <4> QED
        BY <1>5, <3>1, <4>1 DEF Range
    <3> QED
      BY <1>1, <3>1, <3>2, <3>3
  <2> QED
    BY <2>1, <2>2
<1> QED
  BY <1>5, <1>6, <1>7 DEF t

\* A function that maps no two elements to one shows that S is not larger than T.
LEMMA Smaller ==
    ASSUME NEW S, NEW T, NEW f \in [S -> T], IsFiniteSet(T),
           \A x, y \in S : f[x] = f[y] => x = y
    PROVE  IsFiniteSet(S) /\ Cardinality(S) <= Cardinality(T)
<1>1. f \in Injection(S, T)
  BY DEF Injection, IsInjective
<1> QED
  BY <1>1, FS_Injection

LEMMA IntervalSize ==
    ASSUME NEW n \in Nat
    PROVE  IsFiniteSet(1..n) /\ Cardinality(1..n) = n
BY FS_Interval

LEMMA RangeSize ==
    ASSUME NEW T, NEW s \in Seq(T), IsInjective(s)
    PROVE  IsFiniteSet(Range(s)) /\ Cardinality(Range(s)) = Len(s)
<1>1. Len(s) \in Nat /\ DOMAIN s = 1..Len(s)
  OBVIOUS
<1>2. IsFiniteSet(1..Len(s)) /\ Cardinality(1..Len(s)) = Len(s)
  BY <1>1, IntervalSize
<1>3. s \in [1..Len(s) -> Range(s)]
  BY <1>1 DEF Range
<1>4. s \in Bijection(1..Len(s), Range(s))
  BY <1>1, <1>3 DEF Bijection, Injection, Surjection, IsInjective, Range
<1>5. ExistsBijection(1..Len(s), Range(s))
  BY <1>4 DEF ExistsBijection
<1> QED
  BY <1>2, <1>5, FS_Bijection

-----------------------------------------------------------------------------
(* The lists of tags. *)

Ends(p) == {p.opening, p.closing}
Joined == UNION {Ends(p) : p \in Matched}

\* A pair is a whole tag with itself, or an opening tag with a later closing tag.
PairOK(p) ==
    /\ p \in Pair
    /\ p.opening \in 1..Len(page) /\ p.closing \in 1..Len(page)
    /\ NameOf(p.opening) = NameOf(p.closing) /\ NameOf(p.opening) \in filters
    /\ \/ p.opening = p.closing /\ page[p.opening].kind = "whole"
       \/ /\ p.opening < p.closing
          /\ page[p.opening].kind \in {"open", "comment"} /\ page[p.closing].kind = "close"

TagsOK ==
    /\ \A o \in openings :
          o \in 1..Len(page) /\ NameOf(o) \in filters /\ page[o].kind \in {"open", "comment"}
    /\ \A c \in closings :
          c \in 1..Len(page) /\ NameOf(c) \in filters /\ page[c].kind = "close"
    /\ todo \subseteq closings
    /\ \A p \in Matched : PairOK(p)

\* No tag is in two lists, or in two pairs; no pair is listed twice.
Apart ==
    /\ \A p, q \in Matched : p # q => Ends(p) \cap Ends(q) = {}
    /\ Joined \cap (openings \cup closings) = {}
    /\ complete \in Seq(Pair) /\ sorted \in Seq(Pair)
    /\ IsInjective(complete) /\ IsInjective(sorted)
    /\ Range(complete) \cap Range(sorted) = {}

\* What can be in the lists at each stage of the parser.
StageOK ==
    /\ page \in Seq(Item) /\ filters \subseteq Filter
    /\ pc \in {"filters", "scan", "combine", "match", "retrieve", "sort", "extract",
               "done", "crashed"}
    /\ pc = "filters" => openings = {} /\ closings = {} /\ complete = <<>>
    /\ pc = "scan" => \A i \in openings \cup closings \cup Joined : i < pos
    /\ pc # "match" => todo = {}
    /\ pc \in {"filters", "scan", "combine", "match", "retrieve"} => sorted = <<>>
    /\ pc \in {"retrieve", "sort", "extract", "done"} => openings = {}
    /\ pos \in 1..(Len(page) + 1)
    /\ pc = "retrieve" => pos <= Len(complete) + 1
    /\ pc \in {"extract", "done"} => pos <= Len(sorted) + 1 /\ complete = <<>>
    /\ pc \notin {"extract", "done", "crashed"} => infos = <<>>
    /\ \A o \in filled : o \in 1..Len(page) /\ page[o].kind # "whole"
    /\ infos \in Seq(Info)
    /\ errorCode \in {"none", "tag", "tag set", "data too long", "no IV", "no key"}

TagsInv == StageOK /\ TagsOK /\ Apart

LEMMA SameTags ==
    ASSUME TagsOK, Apart, UNCHANGED <<page, filters, openings, closings, complete, sorted>>,
           todo' \subseteq closings'
    PROVE  TagsOK' /\ Apart' /\ Matched' = Matched /\ Joined' = Joined
<1>1. Matched' = Matched
  BY DEF Matched
<1>2. Joined' = Joined
  BY <1>1 DEF Joined
<1>3. \A p \in Matched : PairOK(p)'
  BY DEF TagsOK, PairOK, NameOf
<1> QED
  BY <1>1, <1>2, <1>3 DEF TagsOK, Apart, NameOf

\* A pair is added to the end of completeTags.
LEMMA NewPair ==
    ASSUME TagsOK, Apart, UNCHANGED <<page, filters, sorted>>,
           NEW p, PairOK(p), Ends(p) \cap Joined = {},
           complete' = Append(complete, p),
           openings' = openings \ {p.opening}, closings' = closings \ {p.closing},
           page[p.opening].kind # "close", page[p.closing].kind \notin {"open", "comment"},
           todo' \subseteq closings'
    PROVE  TagsOK' /\ Apart' /\ Matched' = Matched \cup {p} /\ Joined' = Joined \cup Ends(p)
<1>1. p \in Pair /\ complete \in Seq(Pair)
  BY DEF PairOK, Apart
<1>2. /\ complete' \in Seq(Pair) /\ Range(complete') = Range(complete) \cup {p}
      /\ p \notin Range(complete) => IsInjective(complete')
  BY <1>1, AppendFacts DEF Apart
<1>3. Matched' = Matched \cup {p}
  BY <1>2 DEF Matched
<1>4. Joined' = Joined \cup Ends(p)
  BY <1>3 DEF Joined
<1>5. p \notin Matched
  <2>1. ASSUME p \in Matched PROVE FALSE
    <3>1. p.opening \in Ends(p) /\ p.opening \in Joined
      BY <2>1 DEF Joined, Ends
    <3> QED
      BY <3>1
  <2> QED
    BY <2>1
<1>6. \A q \in Matched : PairOK(q)' /\ PairOK(q)
  BY DEF TagsOK, PairOK, NameOf
<1>7. PairOK(p)'
  BY DEF PairOK, NameOf
<1>8. TagsOK'
  <2>1. \A o \in openings' : o \in openings
    OBVIOUS
  <2>2. \A c \in closings' : c \in closings
    OBVIOUS
  <2> QED
    BY <1>3, <1>6, <1>7, <2>1, <2>2 DEF TagsOK, NameOf
<1>9. Joined' \cap (openings' \cup closings') = {}
  <2>1. Joined \cap (openings' \cup closings') = {}
    BY DEF Apart
  <2>2. p.opening \notin closings /\ p.closing \notin openings
    BY DEF TagsOK
  <2>3. Ends(p) \cap (openings' \cup closings') = {}
    BY <2>2 DEF Ends
  <2> QED
    BY <1>4, <2>1, <2>3
<1>10. \A q, r \in Matched' : q # r => Ends(q) \cap Ends(r) = {}
  <2>1. \A q \in Matched : Ends(q) \cap Ends(p) = {}
    BY DEF Joined
  <2>2. \A q, r \in Matched : q # r => Ends(q) \cap Ends(r) = {}
    BY DEF Apart
  <2> HIDE DEF Ends
  <2> QED
    BY <1>3, <2>1, <2>2
<1>11. Range(complete') \cap Range(sorted') = {}
  BY <1>2, <1>5 DEF Apart, Matched
<1> QED
  BY <1>2, <1>3, <1>4, <1>5, <1>8, <1>9, <1>10, <1>11 DEF Apart, Matched

LEMMA InitTags == Init => TagsInv
<1> SUFFICES ASSUME Init PROVE TagsInv
  OBVIOUS
<1>1. page \in Seq(Item)
  BY HtmlParserAssumption DEF Init
<1>2. Matched = {} /\ Joined = {} /\ IsInjective(<<>>) /\ Range(<<>>) = {}
  BY DEF Init, Matched, Joined, Range, IsInjective
<1>3. <<>> \in Seq(Pair) /\ <<>> \in Seq(Info) /\ Len(page) \in Nat
  BY <1>1
<1> QED
  BY <1>1, <1>2, <1>3 DEF Init, TagsInv, StageOK, TagsOK, Apart

LEMMA AddFiltersTags == TagsInv /\ AddFilters => TagsInv'
<1> SUFFICES ASSUME TagsInv, AddFilters PROVE TagsInv'
  OBVIOUS
<1>1. openings = {} /\ closings = {} /\ complete = <<>> /\ sorted = <<>>
  BY DEF TagsInv, StageOK, AddFilters
<1>2. Matched' = {} /\ Joined' = {}
  BY <1>1 DEF AddFilters, Matched, Joined, Range
<1>3. TagsOK' /\ Apart'
  BY <1>1, <1>2 DEF TagsInv, StageOK, TagsOK, Apart, AddFilters
<1> QED
  BY <1>1, <1>2, <1>3 DEF TagsInv, StageOK, AddFilters

LEMMA OpeningTags ==
    ASSUME TagsOK, Apart, NEW i, i \in 1..Len(page), i \notin Joined,
           page[i].kind \in {"open", "comment"}, AddOpeningTag(i),
           UNCHANGED <<page, filters, sorted, todo>>
    PROVE  /\ TagsOK' /\ Apart' /\ Joined' = Joined
           /\ openings' \cup closings' \subseteq openings \cup closings \cup {i}
<1>1. Matched' = Matched
  BY DEF Matched, AddOpeningTag
<1>2. Joined' = Joined
  BY <1>1 DEF Joined
<1>3. \A p \in Matched : PairOK(p)'
  BY DEF TagsOK, PairOK, NameOf
<1>4. \A o \in openings' : o \in openings \/ (o = i /\ NameOf(i) \in filters)
  BY DEF AddOpeningTag, TagIsOfInterest
<1> QED
  BY <1>1, <1>2, <1>3, <1>4 DEF TagsOK, Apart, NameOf, AddOpeningTag

LEMMA ClosingTags ==
    ASSUME TagsOK, Apart, NEW i, i \in 1..Len(page), i \notin Joined,
           page[i].kind = "close", AddClosingTag(i),
           UNCHANGED <<page, filters, sorted, todo>>
    PROVE  /\ TagsOK' /\ Apart' /\ Joined' = Joined
           /\ openings' \cup closings' \subseteq openings \cup closings \cup {i}
<1>1. Matched' = Matched
  BY DEF Matched, AddClosingTag
<1>2. Joined' = Joined
  BY <1>1 DEF Joined
<1>3. \A p \in Matched : PairOK(p)'
  BY DEF TagsOK, PairOK, NameOf
<1>4. \A c \in closings' : c \in closings \/ (c = i /\ NameOf(i) \in filters)
  BY DEF AddClosingTag, TagIsOfInterest
<1>5. closings \subseteq closings'
  BY DEF AddClosingTag
<1> QED
  BY <1>1, <1>2, <1>3, <1>4, <1>5 DEF TagsOK, Apart, NameOf, AddClosingTag

LEMMA WholeTags ==
    ASSUME TagsOK, Apart, NEW i \in Nat, i \in 1..Len(page),
           i \notin openings \cup closings \cup Joined,
           page[i].kind = "whole", AddWholeTag(i),
           UNCHANGED <<page, filters, sorted, todo>>
    PROVE  /\ TagsOK' /\ Apart'
           /\ Joined' = IF TagIsOfInterest(NameOf(i)) THEN Joined \cup {i} ELSE Joined
           /\ openings' \cup closings' \subseteq openings \cup closings
<1>1. CASE ~ TagIsOfInterest(NameOf(i))
  BY <1>1, SameTags DEF AddWholeTag, TagsOK
<1>2. CASE TagIsOfInterest(NameOf(i))
  <2> DEFINE p == [opening |-> i, closing |-> i]
  <2>1. p.opening = i /\ p.closing = i /\ p \in Pair
    BY DEF Pair
  <2>2. complete' = Append(complete, p) /\ UNCHANGED <<openings, closings>>
    BY <1>2 DEF AddWholeTag
  <2> HIDE DEF p
  <2>3. PairOK(p)
    BY <1>2, <2>1 DEF PairOK, TagIsOfInterest
  <2>4. Ends(p) = {i}
    BY <2>1 DEF Ends
  <2>5. openings' = openings \ {p.opening} /\ closings' = closings \ {p.closing}
    BY <2>1, <2>2
  <2>6. TagsOK' /\ Apart' /\ Joined' = Joined \cup Ends(p)
    BY <2>1, <2>2, <2>3, <2>4, <2>5, NewPair DEF TagsOK
  <2> QED
    BY <1>2, <2>2, <2>4, <2>6
<1> QED
  BY <1>1, <1>2

LEMMA ScanTagTags == TagsInv /\ ScanTag => TagsInv'
<1> SUFFICES ASSUME TagsInv, ScanTag PROVE TagsInv'
  OBVIOUS
<1>1. /\ pc = "scan" /\ pos \in 1..Len(page) /\ pos' = pos + 1 /\ pos \in Nat /\ Len(page) \in Nat
      /\ UNCHANGED <<page, filters, pc, sorted, todo, filled, infos, errorCode>>
  <2>1. page \in Seq(Item) /\ pos \in 1..(Len(page) + 1)
    BY DEF TagsInv, StageOK
  <2>2. Len(page) \in Nat
    BY <2>1
  <2> QED
    BY <2>1, <2>2 DEF ScanTag
<1>2. TagsOK /\ Apart /\ \A i \in openings \cup closings \cup Joined : i < pos
  BY <1>1 DEF TagsInv, StageOK
<1>3. pos \notin openings \cup closings \cup Joined
  BY <1>1, <1>2
<1>4. /\ TagsOK' /\ Apart'
      /\ openings' \cup closings' \cup Joined' \subseteq openings \cup closings \cup Joined \cup {pos}
  <2>1. CASE page[pos].kind = "open" /\ AddOpeningTag(pos)
    BY <1>1, <1>2, <1>3, <2>1, OpeningTags
  <2>2. CASE page[pos].kind = "whole" /\ AddWholeTag(pos)
    BY <1>1, <1>2, <1>3, <2>2, WholeTags
  <2>3. CASE page[pos].kind = "close" /\ AddClosingTag(pos)
    BY <1>1, <1>2, <1>3, <2>3, ClosingTags
  <2>4. CASE page[pos].kind = "comment" /\ AddOpeningTag(pos)
    BY <1>1, <1>2, <1>3, <2>4, OpeningTags
  <2>5. CASE UNCHANGED <<openings, closings, complete>>
    <3>1. todo' \subseteq closings'
      BY <1>1, <1>2, <2>5 DEF TagsOK
    <3> QED
      BY <1>1, <1>2, <2>5, <3>1, SameTags
  <2> QED
    BY <2>1, <2>2, <2>3, <2>4, <2>5 DEF ScanTag, ScanComment
<1>5. \A i \in openings' \cup closings' \cup Joined' : i < pos'
  <2>1. \A i \in openings \cup closings \cup Joined : i \in Nat
    BY <1>2 DEF TagsOK, Joined, Ends, PairOK
  <2> QED
    BY <1>1, <1>2, <1>4, <2>1
<1>6. StageOK'
  <2>1. pos' \in 1..(Len(page') + 1)
    BY <1>1
  <2> QED
    BY <1>1, <1>5, <2>1 DEF TagsInv, StageOK
<1> QED
  BY <1>4, <1>6 DEF TagsInv

LEMMA Lengths ==
    ASSUME TagsInv
    PROVE  /\ Len(page) \in Nat /\ Len(complete) \in Nat /\ Len(sorted) \in Nat
           /\ pos \in 1..(Len(page) + 1)
<1>1. /\ page \in Seq(Item) /\ complete \in Seq(Pair) /\ sorted \in Seq(Pair)
      /\ pos \in 1..(Len(page) + 1)
  BY DEF TagsInv, StageOK, Apart
<1> QED
  BY <1>1, LenProperties

LEMMA EndScanTags == TagsInv /\ EndScan => TagsInv'
<1> SUFFICES ASSUME TagsInv, EndScan PROVE TagsInv'
  OBVIOUS
<1>1. TagsOK' /\ Apart' /\ Joined' = Joined
  BY SameTags DEF TagsInv, EndScan, TagsOK
<1> QED
  BY <1>1 DEF TagsInv, StageOK, EndScan

LEMMA BeginCombineTags == TagsInv /\ BeginCombine => TagsInv'
<1> SUFFICES ASSUME TagsInv, BeginCombine PROVE TagsInv'
  OBVIOUS
<1>1. todo' \subseteq closings'
  BY DEF TagsInv, TagsOK, BeginCombine, OfName
<1>2. TagsOK' /\ Apart' /\ Joined' = Joined
  BY <1>1, SameTags DEF TagsInv, BeginCombine
<1>3. Len(complete) \in Nat /\ Len(page) \in Nat
  BY Lengths
<1>4. UNCHANGED <<page, filters, openings, closings, complete, sorted, filled, infos, errorCode>>
  BY DEF BeginCombine
<1>5. /\ pc = "combine" /\ sorted = <<>> /\ infos = <<>>
      /\ \/ openings = {} /\ pc' = "retrieve" /\ pos' = 1 /\ todo' = todo
         \/ pc' = "crashed" /\ pos' = pos /\ todo' = todo
         \/ pc' = "match" /\ pos' = pos
  BY DEF BeginCombine, TagsInv, StageOK
<1>6. pos' \in 1..(Len(page') + 1) /\ (pc' = "retrieve" => pos' <= Len(complete') + 1)
  BY <1>3, <1>4, <1>5, Lengths
<1>7. StageOK'
  BY <1>4, <1>5, <1>6 DEF TagsInv, StageOK
<1> QED
  BY <1>2, <1>7 DEF TagsInv

\* What the first closing tag to visit is matched with.
LEMMA MatchFacts ==
    ASSUME TagsInv, pc = "match", todo # {}
    PROVE  LET c == Min(todo) IN
           /\ c \in todo /\ c \in closings /\ c \in 1..Len(page) /\ page[c].kind = "close"
           /\ NameOf(c) \in filters
           /\ \A t \in todo : c <= t
           /\ \A o \in MatchesOf(c) :
                 /\ o \in openings /\ o \in 1..Len(page) /\ o < c /\ NameOf(o) = NameOf(c)
                 /\ page[o].kind \in {"open", "comment"}
                 /\ \A i \in openings : NameOf(i) = NameOf(c) /\ i < c => i <= o
                 /\ \/ \E i \in openings : NameOf(i) = NameOf(c) /\ c <= i
                    \/ Cardinality(OfName(openings, NameOf(c))) = 1
           /\ MatchesOf(c) = {} =>
                 \/ \A o \in OfName(openings, NameOf(c)) : c <= o
                 \/ /\ \A o \in OfName(openings, NameOf(c)) : o < c
                    /\ Cardinality(OfName(openings, NameOf(c))) # 1
<1> DEFINE c == Min(todo)
           candidates == OfName(openings, NameOf(c))
           earlier == {o \in candidates : o < c}
<1>1. TagsOK /\ Len(page) \in Nat /\ todo \in SUBSET Nat
  BY Lengths DEF TagsInv, TagsOK
<1>2. c \in todo /\ \A t \in todo : c <= t
  BY <1>1, MinIn
<1> HIDE DEF c
<1>3. c \in closings /\ c \in 1..Len(page) /\ page[c].kind = "close" /\ NameOf(c) \in filters
      /\ c \in Nat
  BY <1>1, <1>2 DEF TagsOK
<1>4. \A o \in candidates : /\ o \in openings /\ o \in 1..Len(page) /\ NameOf(o) = NameOf(c)
                            /\ page[o].kind \in {"open", "comment"}
  BY <1>1 DEF OfName, TagsOK
<1>5. MatchesOf(c) = IF earlier # {} /\ (earlier # candidates \/ Cardinality(candidates) = 1)
                     THEN {Max(earlier)} ELSE {}
  BY DEF MatchesOf
<1>6. \A i \in openings : NameOf(i) = NameOf(c) => i \in candidates
  BY DEF OfName
<1>7. ASSUME NEW o \in MatchesOf(c)
      PROVE  /\ o \in openings /\ o \in 1..Len(page) /\ o < c /\ NameOf(o) = NameOf(c)
             /\ page[o].kind \in {"open", "comment"}
             /\ \A i \in openings : NameOf(i) = NameOf(c) /\ i < c => i <= o
             /\ \/ \E i \in openings : NameOf(i) = NameOf(c) /\ c <= i
                \/ Cardinality(OfName(openings, NameOf(c))) = 1
  <2>1. /\ earlier # {} /\ o = Max(earlier)
        /\ earlier # candidates \/ Cardinality(candidates) = 1
    BY <1>5
  <2>2. earlier \in SUBSET Int /\ \A x \in earlier : x <= c
    BY <1>3, <1>4
  <2>3. o \in earlier /\ \A y \in earlier : o >= y
    <3>1. c \in Int
      BY <1>3
    <3> HIDE DEF earlier
    <3> QED
      BY <3>1, <2>1, <2>2, MaxIn
  <2>4. \A i \in openings : NameOf(i) = NameOf(c) /\ i < c => i <= o
    <3> SUFFICES ASSUME NEW i \in openings, NameOf(i) = NameOf(c), i < c PROVE i <= o
      OBVIOUS
    <3>1. i \in earlier
      BY <1>6
    <3> QED
      BY <1>4, <2>3, <3>1
  <2>5. \/ \E i \in openings : NameOf(i) = NameOf(c) /\ c <= i
        \/ Cardinality(candidates) = 1
    <3>1. CASE earlier # candidates
      <4>1. PICK i \in candidates : ~ (i < c)
        BY <3>1
      <4> QED
        BY <1>3, <1>4, <4>1
    <3> QED
      BY <2>1, <3>1
  <2> QED
    BY <1>4, <2>3, <2>4, <2>5
<1>8. ASSUME MatchesOf(c) = {}
      PROVE  \/ \A o \in candidates : c <= o
             \/ (\A o \in candidates : o < c) /\ Cardinality(candidates) # 1
  <2>1. earlier = {} \/ (earlier = candidates /\ Cardinality(candidates) # 1)
    BY <1>5, <1>8
  <2>2. CASE earlier = {}
    BY <1>3, <1>4, <2>2
  <2>3. CASE earlier = candidates /\ Cardinality(candidates) # 1
    BY <2>3
  <2> QED
    BY <2>1, <2>2, <2>3
<1> QED
  BY <1>2, <1>3, <1>7, <1>8 DEF c

LEMMA MatchClosingTags ==
    TagsInv /\ MatchClosing =>
        /\ TagsInv'
        /\ \/ \E o \in MatchesOf(Min(todo)) :
                 /\ Matched' = Matched \cup {[opening |-> o, closing |-> Min(todo)]}
                 /\ openings' = openings \ {o} /\ closings' = closings \ {Min(todo)}
           \/ MatchesOf(Min(todo)) = {} /\ UNCHANGED <<openings, closings, Matched>>
<1> SUFFICES ASSUME TagsInv, MatchClosing
             PROVE  /\ TagsInv'
                    /\ \/ \E o \in MatchesOf(Min(todo)) :
                             /\ Matched' = Matched \cup {[opening |-> o, closing |-> Min(todo)]}
                             /\ openings' = openings \ {o} /\ closings' = closings \ {Min(todo)}
                       \/ MatchesOf(Min(todo)) = {} /\ UNCHANGED <<openings, closings, Matched>>
  OBVIOUS
<1> DEFINE c == Min(todo)
<1>1. pc = "match" /\ todo # {} /\ TagsOK /\ Apart /\ todo' = todo \ {c} /\ todo \subseteq closings
  BY DEF TagsInv, MatchClosing, TagsOK
<1>2. /\ c \in closings /\ c \in 1..Len(page) /\ page[c].kind = "close" /\ NameOf(c) \in filters
      /\ \A o \in MatchesOf(c) :
            /\ o \in openings /\ o \in 1..Len(page) /\ o < c /\ NameOf(o) = NameOf(c)
            /\ page[o].kind \in {"open", "comment"}
  BY <1>1, MatchFacts
<1>3. \/ \E o \in MatchesOf(c) :
            /\ complete' = Append(complete, [opening |-> o, closing |-> c])
            /\ openings' = openings \ {o}
            /\ closings' = closings \ {c}
            /\ UNCHANGED errorCode
      \/ /\ MatchesOf(c) = {}
         /\ errorCode' \in {"tag set", errorCode}
         /\ UNCHANGED <<openings, closings, complete>>
  BY DEF MatchClosing
<1>4. UNCHANGED <<page, filters, pc, pos, sorted, filled, infos>>
  BY DEF MatchClosing
<1>5. /\ TagsOK' /\ Apart' /\ errorCode' \in {"tag set", errorCode}
      /\ \/ \E o \in MatchesOf(c) :
               /\ Matched' = Matched \cup {[opening |-> o, closing |-> c]}
               /\ openings' = openings \ {o} /\ closings' = closings \ {c}
         \/ MatchesOf(c) = {} /\ UNCHANGED <<openings, closings, Matched>>
  <2> HIDE DEF c
  <2>1. ASSUME NEW o \in MatchesOf(c),
               complete' = Append(complete, [opening |-> o, closing |-> c]),
               openings' = openings \ {o}, closings' = closings \ {c}
        PROVE  TagsOK' /\ Apart' /\ Matched' = Matched \cup {[opening |-> o, closing |-> c]}
    <3> DEFINE p == [opening |-> o, closing |-> c]
    <3>1. p.opening = o /\ p.closing = c /\ p \in Pair
      BY <1>2 DEF Pair
    <3>2. complete' = Append(complete, p)
      BY <2>1
    <3> HIDE DEF p
    <3>3. PairOK(p)
      BY <1>2, <3>1 DEF PairOK
    <3>4. Ends(p) \cap Joined = {}
      BY <1>1, <1>2, <3>1 DEF Ends, Apart
    <3>5. todo' \subseteq closings'
      BY <1>1, <2>1
    <3>7. page[p.opening].kind # "close" /\ page[p.closing].kind \notin {"open", "comment"}
      BY <1>2, <3>1
    <3>8. openings' = openings \ {p.opening} /\ closings' = closings \ {p.closing}
      BY <2>1, <3>1
    <3>6. TagsOK' /\ Apart' /\ Matched' = Matched \cup {p}
      BY <1>1, <1>4, <3>2, <3>3, <3>4, <3>5, <3>7, <3>8, NewPair
    <3> QED
      BY <3>6 DEF p
  <2>2. CASE MatchesOf(c) = {} /\ UNCHANGED <<openings, closings, complete>>
    <3>1. todo' \subseteq closings'
      BY <1>1, <2>2
    <3> QED
      BY <1>1, <1>3, <1>4, <2>2, <3>1, SameTags
  <2> QED
    BY <1>3, <2>1, <2>2
<1>6. StageOK'
  BY <1>1, <1>4, <1>5 DEF TagsInv, StageOK
<1> QED
  BY <1>5, <1>6 DEF TagsInv

LEMMA EndCombineTags == TagsInv /\ EndCombine => TagsInv'
<1> SUFFICES ASSUME TagsInv, EndCombine PROVE TagsInv'
  OBVIOUS
<1>1. TagsOK' /\ Apart' /\ Joined' = Joined
  BY SameTags DEF TagsInv, EndCombine, TagsOK
<1>2. Len(complete) \in Nat /\ Len(page) \in Nat
  BY Lengths
<1>3. UNCHANGED <<page, filters, openings, closings, complete, sorted, todo, filled, infos,
                  errorCode>>
  BY DEF EndCombine
<1>4. /\ pc = "match" /\ todo = {} /\ sorted = <<>> /\ infos = <<>>
      /\ \/ openings = {} /\ pc' = "retrieve" /\ pos' = 1
         \/ pc' = "combine" /\ pos' = pos
  BY DEF EndCombine, TagsInv, StageOK
<1>5. pos' \in 1..(Len(page') + 1) /\ (pc' = "retrieve" => pos' <= Len(complete') + 1)
  BY <1>2, <1>3, <1>4, Lengths
<1>6. StageOK'
  BY <1>3, <1>4, <1>5 DEF TagsInv, StageOK
<1> QED
  BY <1>1, <1>6 DEF TagsInv

\* There are no more pairs than tags on the page.
LEMMA PairCount ==
    ASSUME TagsInv
    PROVE  /\ IsFiniteSet(Matched) /\ Cardinality(Matched) = Len(complete) + Len(sorted)
           /\ Len(complete) <= Len(page) /\ Len(sorted) <= Len(page)
<1>1. /\ complete \in Seq(Pair) /\ sorted \in Seq(Pair)
      /\ IsInjective(complete) /\ IsInjective(sorted) /\ Range(complete) \cap Range(sorted) = {}
      /\ \A p, q \in Matched : p # q => Ends(p) \cap Ends(q) = {}
      /\ \A p \in Matched : p.opening \in 1..Len(page)
  BY DEF TagsInv, Apart, TagsOK, PairOK
<1>2. /\ IsFiniteSet(Range(complete)) /\ Cardinality(Range(complete)) = Len(complete)
      /\ IsFiniteSet(Range(sorted)) /\ Cardinality(Range(sorted)) = Len(sorted)
  BY <1>1, RangeSize
<1>3. Len(page) \in Nat /\ Len(complete) \in Nat /\ Len(sorted) \in Nat
  BY Lengths
<1>4. IsFiniteSet(Matched) /\ Cardinality(Matched) = Len(complete) + Len(sorted)
  <2>1. Cardinality({}) = 0
    BY FS_EmptySet
  <2>2. /\ IsFiniteSet(Range(complete) \cup Range(sorted))
        /\ Cardinality(Range(complete) \cup Range(sorted)) =
           Cardinality(Range(complete)) + Cardinality(Range(sorted))
           - Cardinality(Range(complete) \cap Range(sorted))
    BY <1>2, FS_Union
  <2>3. Cardinality(Range(complete) \cap Range(sorted)) = 0
    BY <1>1, <2>1
  <2>4. Cardinality(Range(complete) \cup Range(sorted)) = Len(complete) + Len(sorted)
    BY <1>2, <1>3, <2>2, <2>3
  <2> QED
    BY <2>2, <2>4 DEF Matched
<1>5. Cardinality(Matched) <= Len(page)
  <2> DEFINE f == [p \in Matched |-> p.opening]
  <2>1. f \in [Matched -> 1..Len(page)]
    BY <1>1
  <2>2. \A p, q \in Matched : f[p] = f[q] => p = q
    BY <1>1 DEF Ends
  <2>3. IsFiniteSet(1..Len(page)) /\ Cardinality(1..Len(page)) = Len(page)
    BY <1>3, IntervalSize
  <2> HIDE DEF f
  <2> QED
    BY <2>1, <2>2, <2>3, Smaller
<1>6. Len(complete) + Len(sorted) <= Len(page)
  BY <1>4, <1>5
<1> QED
  BY <1>3, <1>4, <1>6

\* A position that goes one further on a list.
LEMMA Advance ==
    ASSUME NEW a \in Nat, NEW b \in Nat, b <= a, NEW p \in 1..(a + 1), p <= b + 1,
           NEW q, q = p \/ (p <= b /\ q = p + 1)
    PROVE  q \in 1..(a + 1) /\ q <= b + 1
OBVIOUS

LEMMA RetrieveTags == TagsInv /\ (RetrieveData \/ EndRetrieve) => TagsInv'
<1> SUFFICES ASSUME TagsInv, RetrieveData \/ EndRetrieve PROVE TagsInv'
  OBVIOUS
<1>1. UNCHANGED <<page, filters, openings, closings, complete, sorted, todo, infos>>
  BY DEF RetrieveData, EndRetrieve
<1>2. TagsOK' /\ Apart'
  BY <1>1, SameTags DEF TagsInv, TagsOK
<1>3. /\ pc = "retrieve" /\ infos = <<>> /\ openings = {} /\ todo = {} /\ sorted = <<>>
      /\ pos <= Len(complete) + 1
      /\ pc' \in {"retrieve", "sort", "crashed"}
      /\ errorCode' \in {errorCode, "data too long"}
      /\ pos' = pos \/ (pos <= Len(complete) /\ pos' = pos + 1)
  BY DEF RetrieveData, EndRetrieve, TagsInv, StageOK
<1>4. /\ Len(page) \in Nat /\ Len(complete) \in Nat /\ Len(complete) <= Len(page)
      /\ pos \in 1..(Len(page) + 1)
  BY Lengths, PairCount
<1>5. pos' \in 1..(Len(page') + 1) /\ pos' <= Len(complete') + 1
  BY <1>1, <1>3, <1>4, Advance
<1>6. \A o \in filled' : o \in 1..Len(page) /\ page[o].kind # "whole"
  <2>1. \/ filled' = filled
        \/ /\ pos <= Len(complete)
           /\ complete[pos].opening # complete[pos].closing
           /\ filled' = filled \cup {complete[pos].opening}
    BY DEF RetrieveData, EndRetrieve
  <2>2. \A o \in filled : o \in 1..Len(page) /\ page[o].kind # "whole"
    BY DEF TagsInv, StageOK
  <2>3. ASSUME pos <= Len(complete), complete[pos].opening # complete[pos].closing
        PROVE  complete[pos].opening \in 1..Len(page) /\ page[complete[pos].opening].kind # "whole"
    <3>1. complete \in Seq(Pair)
      BY DEF TagsInv, Apart
    <3>2. complete[pos] \in Matched
      BY <1>4, <2>3, <3>1 DEF Matched, Range
    <3>3. PairOK(complete[pos])
      BY <3>2 DEF TagsInv, TagsOK
    <3> QED
      BY <2>3, <3>3 DEF PairOK
  <2> QED
    BY <2>1, <2>2, <2>3
<1>7. errorCode' \in {"none", "tag", "tag set", "data too long", "no IV", "no key"}
  BY <1>3 DEF TagsInv, StageOK
<1>8. StageOK'
  BY <1>1, <1>3, <1>5, <1>6, <1>7 DEF TagsInv, StageOK
<1> QED
  BY <1>2, <1>8 DEF TagsInv

\* The pair SortTagsById moves.
LEMMA NextFacts ==
    ASSUME TagsInv, complete # <<>>
    PROVE  /\ NextById \in DOMAIN complete
           /\ \A j \in DOMAIN complete : complete[NextById].opening <= complete[j].opening
<1>1. complete \in Seq(Pair)
  BY DEF TagsInv, Apart
<1> DEFINE S == {complete[j].opening : j \in DOMAIN complete}
<1>2. \A j \in DOMAIN complete : complete[j] \in Pair
  BY <1>1
<1>3. S \in SUBSET Nat
  BY <1>2 DEF Pair
<1>4. S # {}
  <2>1. 1 \in DOMAIN complete
    BY <1>1
  <2> QED
    BY <2>1
<1> HIDE DEF S
<1>5. Min(S) \in S /\ \A x \in S : Min(S) <= x
  BY <1>3, <1>4, MinIn
<1>6. \E i \in DOMAIN complete :
          \A j \in DOMAIN complete : complete[i].opening <= complete[j].opening
  BY <1>5 DEF S
<1> QED
  BY <1>6 DEF NextById

LEMMA SortTags ==
    TagsInv /\ SortTagsById => TagsInv' /\ Matched' = Matched /\ Joined' = Joined
<1> SUFFICES ASSUME TagsInv, SortTagsById PROVE TagsInv' /\ Matched' = Matched /\ Joined' = Joined
  OBVIOUS
<1>1. /\ pc = "sort" /\ openings = {} /\ todo = {} /\ infos = <<>>
      /\ UNCHANGED <<page, filters, openings, closings, todo, filled, infos, errorCode>>
  BY DEF SortTagsById, TagsInv, StageOK
<1>2. TagsOK /\ Apart /\ Len(page) \in Nat /\ Len(sorted) \in Nat /\ pos \in 1..(Len(page) + 1)
  BY Lengths DEF TagsInv
<1>3. CASE complete = <<>>
  <2>1. pc' = "extract" /\ pos' = 1 /\ UNCHANGED <<complete, sorted>>
    BY <1>3 DEF SortTagsById
  <2>2. TagsOK' /\ Apart' /\ Matched' = Matched /\ Joined' = Joined
    BY <1>1, <1>2, <2>1, SameTags DEF TagsOK
  <2>3. pos' \in 1..(Len(page') + 1) /\ pos' <= Len(sorted') + 1
    BY <1>1, <1>2, <2>1
  <2>4. StageOK'
    BY <1>1, <1>3, <2>1, <2>3 DEF TagsInv, StageOK
  <2> QED
    BY <2>2, <2>4 DEF TagsInv
<1>4. CASE complete # <<>>
  <2> DEFINE i == NextById
             p == complete[i]
  <2>1. sorted' = Append(sorted, p) /\ complete' = RemoveAt(complete, i) /\ UNCHANGED <<pc, pos>>
    BY <1>4 DEF SortTagsById
  <2>2. i \in DOMAIN complete
    BY <1>4, NextFacts
  <2>3. complete \in Seq(Pair) /\ sorted \in Seq(Pair) /\ p \in Pair /\ p \in Range(complete)
    BY <1>2, <2>2 DEF Apart, Range
  <2> HIDE DEF i
  <2>4. /\ complete' \in Seq(Pair) /\ IsInjective(complete')
        /\ Range(complete') = Range(complete) \ {p}
    BY <1>2, <2>1, <2>2, <2>3, RemoveAtFacts DEF Apart
  <2> HIDE DEF p
  <2>5. /\ sorted' \in Seq(Pair) /\ Range(sorted') = Range(sorted) \cup {p}
        /\ IsInjective(sorted')
    <3>1. p \notin Range(sorted) /\ IsInjective(sorted)
      BY <1>2, <2>3 DEF Apart
    <3> QED
      BY <2>1, <2>3, <3>1, AppendFacts
  <2>6. Matched' = Matched /\ Range(complete') \cap Range(sorted') = {}
    BY <1>2, <2>3, <2>4, <2>5 DEF Matched, Apart
  <2>7. Joined' = Joined
    BY <2>6 DEF Joined
  <2>8. \A q \in Matched : PairOK(q)'
    BY <1>1, <1>2 DEF TagsOK, PairOK, NameOf
  <2>9. TagsOK'
    BY <1>1, <1>2, <2>6, <2>8 DEF TagsOK, NameOf
  <2>10. Apart'
    BY <1>1, <1>2, <2>4, <2>5, <2>6, <2>7 DEF Apart
  <2>11. StageOK'
    BY <1>1, <1>2, <2>1 DEF TagsInv, StageOK
  <2> QED
    BY <2>6, <2>7, <2>9, <2>10, <2>11 DEF TagsInv
<1> QED
  BY <1>3, <1>4

\* The values of a pair's data are places on the page; two of them are an IV and a key.
LEMMA ValueFacts ==
    ASSUME NEW p \in Pair
    PROVE  /\ Values(p) \in SUBSET Nat /\ IsFiniteSet(Values(p))
           /\ Cardinality(Values(p)) >= 2 =>
                 Min(Values(p)) \in Nat /\ Min(Values(p) \ {Min(Values(p))}) \in Nat
<1> DEFINE V == Values(p)
<1>1. p.opening \in Nat /\ p.closing \in Nat
  BY DEF Pair
<1>2. V \subseteq p.opening..(p.closing - 1)
  BY DEF Values
<1>3. V \in SUBSET Nat /\ IsFiniteSet(V)
  <2>1. IsFiniteSet(p.opening..(p.closing - 1))
    BY <1>1, FS_Interval
  <2> QED
    BY <1>1, <1>2, <2>1, FS_Subset
<1> HIDE DEF V
<1>4. ASSUME Cardinality(V) >= 2 PROVE V # {} /\ \A x : V \ {x} # {}
  <2>1. Cardinality({}) = 0 /\ \A x : Cardinality({x}) = 1
    BY FS_EmptySet, FS_Singleton
  <2>2. V # {}
    BY <1>4, <2>1
  <2>3. ASSUME NEW x, V \ {x} = {} PROVE FALSE
    <3>1. V = {x}
      BY <2>2, <2>3
    <3>2. Cardinality(V) = 1
      BY <2>1, <3>1
    <3> QED
      BY <1>4, <3>2
  <2> QED
    BY <2>2, <2>3
<1>5. ASSUME Cardinality(V) >= 2 PROVE Min(V) \in Nat /\ Min(V \ {Min(V)}) \in Nat
  <2>1. V # {} /\ V \ {Min(V)} # {} /\ V \ {Min(V)} \in SUBSET Nat
    BY <1>3, <1>4, <1>5
  <2>2. Min(V) \in V
    BY <1>3, <2>1, MinIn
  <2>3. Min(V \ {Min(V)}) \in V \ {Min(V)}
    BY <2>1, MinIn
  <2> QED
    BY <1>3, <2>2, <2>3
<1> QED
  BY <1>3, <1>5 DEF V

LEMMA InfoFacts ==
    ASSUME TagsInv, NEW k \in 2..Len(sorted), Cardinality(Values(sorted[k])) >= 2
    PROVE  InfoOf(k) \in Info
<1>1. Len(sorted) \in Nat /\ sorted \in Seq(Pair)
  BY Lengths DEF TagsInv, Apart
<1>2. sorted[k] \in Pair /\ sorted[k - 1] \in Pair
  BY <1>1
<1> DEFINE V == Values(sorted[k])
<1>3. Min(V) \in Nat /\ Min(V \ {Min(V)}) \in Nat
  BY <1>2, ValueFacts
<1> HIDE DEF V
<1>4. InfoOf(k) = [section |-> sorted[k - 1], iv |-> Min(V), key |-> Min(V \ {Min(V)})]
  BY DEF InfoOf, V
<1> QED
  BY <1>2, <1>3, <1>4 DEF Info

LEMMA ExtractTags == TagsInv /\ (ExtractInfo \/ EndExtract) => TagsInv'
<1> SUFFICES ASSUME TagsInv, ExtractInfo \/ EndExtract PROVE TagsInv'
  OBVIOUS
<1>1. /\ UNCHANGED <<page, filters, openings, closings, complete, sorted, todo, filled>>
      /\ pc = "extract" /\ openings = {} /\ todo = {} /\ complete = <<>>
      /\ pos <= Len(sorted) + 1
      /\ pc' \in {"extract", "crashed", "done"}
      /\ errorCode' \in {errorCode, "no IV", "no key"}
      /\ pos' = pos \/ (pos <= Len(sorted) /\ pos' = pos + 1)
      /\ infos \in Seq(Info)
  BY DEF ExtractInfo, EndExtract, TagsInv, StageOK
<1>2. TagsOK' /\ Apart'
  BY <1>1, SameTags DEF TagsInv, TagsOK
<1>3. /\ Len(page) \in Nat /\ Len(sorted) \in Nat /\ Len(sorted) <= Len(page)
      /\ pos \in 1..(Len(page) + 1)
  BY Lengths, PairCount
<1>4. pos' \in 1..(Len(page') + 1) /\ pos' <= Len(sorted') + 1
  BY <1>1, <1>3, Advance
<1>5. infos' \in Seq(Info)
  <2>1. \/ infos' = infos
        \/ /\ pos <= Len(sorted) /\ Readable(pos) /\ HasIV(sorted[pos])
           /\ Cardinality(Values(sorted[pos])) >= 2
           /\ infos' = Append(infos, InfoOf(pos))
    BY DEF ExtractInfo, EndExtract
  <2>2. ASSUME pos <= Len(sorted), Readable(pos), HasIV(sorted[pos]),
               Cardinality(Values(sorted[pos])) >= 2
        PROVE  InfoOf(pos) \in Info
    <3>1. pos \in 2..Len(sorted)
      BY <1>3, <2>2 DEF Readable
    <3> QED
      BY <2>2, <3>1, InfoFacts
  <2>3. CASE infos' = Append(infos, InfoOf(pos)) /\ InfoOf(pos) \in Info
    BY <1>1, <2>3, AppendFacts
  <2> QED
    BY <1>1, <2>1, <2>2, <2>3
<1>6. errorCode' \in {"none", "tag", "tag set", "data too long", "no IV", "no key"}
  BY <1>1 DEF TagsInv, StageOK
<1>7. StageOK'
  BY <1>1, <1>4, <1>5, <1>6 DEF TagsInv, StageOK
<1> QED
  BY <1>2, <1>7 DEF TagsInv

LEMMA NextTags == TagsInv /\ [Next]_vars => TagsInv'
<1> SUFFICES ASSUME TagsInv, [Next]_vars PROVE TagsInv'
  OBVIOUS
<1>1. CASE UNCHANGED vars
  <2>1. TagsOK' /\ Apart' /\ Joined' = Joined
    BY <1>1, SameTags DEF vars, TagsInv, TagsOK
  <2> QED
    BY <1>1, <2>1 DEF vars, TagsInv, StageOK
<1>2. CASE Next
  BY <1>2, AddFiltersTags, ScanTagTags, EndScanTags, BeginCombineTags, MatchClosingTags,
     EndCombineTags, RetrieveTags, SortTags, ExtractTags DEF Next
<1> QED
  BY <1>1, <1>2

LEMMA TagsAlways == Spec => []TagsInv
BY InitTags, NextTags, PTL DEF Spec

LEMMA TagsType == TagsInv => TypeOK
<1> SUFFICES ASSUME TagsInv PROVE TypeOK
  OBVIOUS
<1>1. \A i \in openings \cup closings : i \in 1..Len(page) /\ NameOf(i) \in Filter
  BY DEF TagsInv, TagsOK, StageOK
<1>2. todo \subseteq closings /\ complete \in Seq(Pair) /\ sorted \in Seq(Pair)
  BY DEF TagsInv, TagsOK, Apart
<1>3. filled \subseteq 1..Len(page)
  BY DEF TagsInv, StageOK
<1> QED
  BY <1>1, <1>2, <1>3 DEF TagsInv, StageOK, TypeOK

\* For any pages, names and filters, the parser's lists and counters stay in range.
THEOREM TypeCorrect == Spec => []TypeOK
BY TagsAlways, TagsType, PTL

-----------------------------------------------------------------------------
(* No tag is lost. *)

Held == openings \cup closings \cup {p.opening : p \in Matched} \cup {p.closing : p \in Matched}

LEMMA HeldIs == Held = openings \cup closings \cup Joined
BY DEF Held, Joined, Ends

LEMMA ScanEndFacts ==
    ASSUME TagsInv
    PROVE  /\ ScanEnd \in 1..(Len(page) + 1)
           /\ \A i \in 1..Len(page) : page[i].kind = "cut" => ScanEnd <= i
           /\ ScanEnd = Len(page) + 1 \/ page[ScanEnd].kind = "cut"
<1> DEFINE S == {i \in 1..Len(page) : page[i].kind = "cut"} \cup {Len(page) + 1}
<1>1. Len(page) \in Nat
  BY Lengths
<1>2. S \in SUBSET Nat /\ S # {}
  BY <1>1
<1>3. Len(page) + 1 \in S /\ \A i \in 1..Len(page) : page[i].kind = "cut" => i \in S
  OBVIOUS
<1>4. \A i \in S : i = Len(page) + 1 \/ (i \in 1..Len(page) /\ page[i].kind = "cut")
  OBVIOUS
<1> HIDE DEF S
<1>5. Min(S) \in S /\ \A i \in S : Min(S) <= i
  BY <1>2, MinIn
<1>6. ScanEnd = Min(S)
  BY DEF ScanEnd, S
<1> QED
  BY <1>1, <1>3, <1>4, <1>5, <1>6

\* The lists and pairs hold what the scan has passed, and the scan passes no tag that
\* does not end.
KeptByScan ==
    /\ pc = "filters" => pos = 1
    /\ pc = "scan" => pos <= ScanEnd
    /\ \A i \in Held : i < Reached
    /\ TagsOfPage \subseteq Held

LEMMA InitKept == Init => KeptByScan
<1> SUFFICES ASSUME Init PROVE KeptByScan
  OBVIOUS
<1>1. Held = {}
  BY DEF Init, Held, Matched, Range
<1>2. Reached = 1
  BY DEF Init, Reached, Scanned
<1>3. TagsOfPage = {}
  BY <1>2 DEF TagsOfPage
<1> QED
  BY <1>1, <1>3 DEF Init, KeptByScan

LEMMA ScanTagKept == TagsInv /\ KeptByScan /\ ScanTag => KeptByScan'
<1> SUFFICES ASSUME TagsInv, KeptByScan, ScanTag PROVE KeptByScan'
  OBVIOUS
<1>1. /\ pc = "scan" /\ pos' = pos + 1 /\ pos \in 1..Len(page) /\ pos \in Nat
      /\ UNCHANGED <<page, filters, pc, sorted, todo, filled, infos, errorCode>>
  BY Lengths DEF ScanTag
<1>2. TagsOK /\ Apart /\ \A i \in openings \cup closings \cup Joined : i < pos
  BY <1>1 DEF TagsInv, StageOK
<1>3. pos \notin openings \cup closings \cup Joined
  BY <1>1, <1>2
<1> DEFINE Due == NameOf(pos) \in filters /\ page[pos].kind # "comment"
<1>9. Held = openings \cup closings \cup Joined /\ Held' = openings' \cup closings' \cup Joined'
  BY DEF Held, Joined, Ends
<1>4. Held \subseteq Held' /\ (Due => pos \in Held')
  <2>1. CASE page[pos].kind = "open" /\ AddOpeningTag(pos)
    <3>1. Joined' = Joined
      BY <1>1, <1>2, <1>3, <2>1, OpeningTags
    <3> QED
      BY <2>1, <3>1, <1>9 DEF AddOpeningTag, TagIsOfInterest
  <2>2. CASE page[pos].kind = "whole" /\ AddWholeTag(pos)
    <3>1. Joined' = IF TagIsOfInterest(NameOf(pos)) THEN Joined \cup {pos} ELSE Joined
      BY <1>1, <1>2, <1>3, <2>2, WholeTags
    <3> QED
      BY <2>2, <3>1, <1>9 DEF AddWholeTag, TagIsOfInterest
  <2>3. CASE page[pos].kind = "close" /\ AddClosingTag(pos)
    <3>1. Joined' = Joined
      BY <1>1, <1>2, <1>3, <2>3, ClosingTags
    <3> QED
      BY <2>3, <3>1, <1>9 DEF AddClosingTag, TagIsOfInterest
  <2>4. CASE page[pos].kind = "comment" /\ AddOpeningTag(pos)
    <3>1. Joined' = Joined
      BY <1>1, <1>2, <1>3, <2>4, OpeningTags
    <3> QED
      BY <2>4, <3>1, <1>9 DEF AddOpeningTag
  <2>5. CASE page[pos].kind = "comment" /\ UNCHANGED <<openings, closings, complete>>
    <3>1. Joined' = Joined
      BY <1>1, <2>5 DEF Joined, Matched
    <3> QED
      BY <2>5, <3>1, <1>9
  <2> QED
    BY <2>1, <2>2, <2>3, <2>4, <2>5 DEF ScanTag, ScanComment
<1>5. Reached = pos /\ Reached' = pos' /\ ScanEnd' = ScanEnd
  BY <1>1 DEF Reached, Scanned, ScanEnd
<1>6. pos' <= ScanEnd'
  <2>1. page[pos].kind # "cut"
    BY DEF ScanTag
  <2>2. pos # ScanEnd
    BY <1>1, <2>1, ScanEndFacts
  <2>3. pos <= ScanEnd /\ ScanEnd \in Nat
    BY <1>1, Lengths, ScanEndFacts DEF KeptByScan
  <2> QED
    BY <1>1, <1>5, <2>2, <2>3
<1>7. \A i \in Held' : i < Reached'
  <2>1. TagsInv'
    BY ScanTagTags
  <2>2. \A i \in (openings \cup closings \cup Joined)' : i < pos'
    BY <1>1, <2>1 DEF TagsInv, StageOK
  <2> QED
    BY <1>5, <1>9, <2>2
<1>8. TagsOfPage' \subseteq Held'
  <2> SUFFICES ASSUME NEW i \in TagsOfPage' PROVE i \in Held'
    OBVIOUS
  <2>1. /\ i \in 1..Len(page) /\ i < pos + 1 /\ NameOf(i) \in filters
        /\ page[i].kind # "comment"
    BY <1>1, <1>5 DEF TagsOfPage, NameOf
  <2>2. CASE i < pos
    <3>1. i \in TagsOfPage
      BY <1>5, <2>1, <2>2 DEF TagsOfPage
    <3> QED
      BY <1>4, <3>1 DEF KeptByScan
  <2>3. CASE i = pos
    BY <1>4, <2>1, <2>3
  <2> QED
    BY <1>1, <2>1, <2>2, <2>3
<1> QED
  BY <1>1, <1>6, <1>7, <1>8 DEF KeptByScan

LEMMA SameKept ==
    ASSUME KeptByScan, Held' = Held, UNCHANGED <<page, filters>>, Reached' = Reached,
           pc' \notin {"filters", "scan"} \/ UNCHANGED <<pc, pos>>
    PROVE  KeptByScan'
<1>1. ScanEnd' = ScanEnd
  BY DEF ScanEnd
<1>2. TagsOfPage' = TagsOfPage
  BY DEF TagsOfPage, NameOf
<1> QED
  BY <1>1, <1>2 DEF KeptByScan

LEMMA SamePairs == UNCHANGED <<openings, closings, Matched>> => Held' = Held
BY DEF Held

LEMMA NextKept == TagsInv /\ KeptByScan /\ [Next]_vars => KeptByScan'
<1> SUFFICES ASSUME TagsInv, KeptByScan, [Next]_vars PROVE KeptByScan'
  OBVIOUS
<1>1. CASE ScanTag
  BY <1>1, ScanTagKept
<1>2. CASE AddFilters
  <2>1. /\ pc = "filters" /\ pc' = "scan" /\ pos = 1 /\ openings = {} /\ closings = {}
        /\ complete = <<>> /\ sorted = <<>>
        /\ UNCHANGED <<page, pos, openings, closings, complete, sorted>>
    BY <1>2 DEF AddFilters, KeptByScan, TagsInv, StageOK
  <2>2. Held' = {}
    BY <2>1 DEF Held, Matched, Range
  <2>3. Reached' = 1 /\ ScanEnd' = ScanEnd
    BY <2>1 DEF Reached, Scanned, ScanEnd
  <2>4. TagsOfPage' = {}
    BY <2>3 DEF TagsOfPage
  <2>5. pos' <= ScanEnd'
    <3>1. ScanEnd \in 1..(Len(page) + 1) /\ Len(page) \in Nat
      BY ScanEndFacts, Lengths
    <3> QED
      BY <2>1, <2>3, <3>1
  <2> QED
    BY <2>1, <2>2, <2>4, <2>5 DEF KeptByScan
<1>3. CASE UNCHANGED vars
  <2>1. Held' = Held /\ Reached' = Reached /\ UNCHANGED <<page, filters, pc, pos>>
    BY <1>3 DEF vars, Held, Matched, Reached, Scanned, ScanEnd
  <2> QED
    BY <2>1, SameKept
<1>4. CASE EndScan
  <2>1. /\ pc = "scan" /\ pc' = "combine"
        /\ pos > Len(page) \/ (pos <= Len(page) /\ page[pos].kind = "cut")
        /\ UNCHANGED <<page, filters, openings, closings, complete, sorted>>
    BY <1>4 DEF EndScan
  <2>2. Held' = Held
    BY <2>1, SamePairs DEF Matched
  <2>3. Reached = pos /\ Reached' = ScanEnd
    BY <2>1 DEF Reached, Scanned, ScanEnd
  <2>4. pos = ScanEnd
    <3>1. pos \in 1..(Len(page) + 1) /\ Len(page) \in Nat /\ pos <= ScanEnd
      BY <2>1, Lengths DEF KeptByScan
    <3> QED
      BY <2>1, <3>1, ScanEndFacts
  <2> QED
    BY <2>1, <2>2, <2>3, <2>4, SameKept
<1>5. CASE BeginCombine \/ MatchClosing \/ EndCombine \/ RetrieveData \/ EndRetrieve
           \/ SortTagsById \/ ExtractInfo \/ EndExtract
  <2>1. /\ Scanned /\ pc' \notin {"filters", "scan"} /\ UNCHANGED <<page, filters>>
    BY <1>5 DEF BeginCombine, MatchClosing, EndCombine, RetrieveData, EndRetrieve,
       SortTagsById, ExtractInfo, EndExtract, Scanned
  <2>2. Reached' = Reached
    BY <2>1 DEF Reached, Scanned, ScanEnd
  <2>3. CASE SortTagsById
    <3>1. Matched' = Matched /\ UNCHANGED <<openings, closings>>
      BY <2>3, SortTags DEF SortTagsById
    <3> QED
      BY <2>1, <2>2, <3>1, SamePairs, SameKept
  <2>4. CASE MatchClosing
    <3> DEFINE c == Min(todo)
    <3>1. c \in closings /\ \A o \in MatchesOf(c) : o \in openings
      BY <2>4, MatchFacts DEF MatchClosing
    <3>2. \/ \E o \in MatchesOf(c) :
                /\ Matched' = Matched \cup {[opening |-> o, closing |-> c]}
                /\ openings' = openings \ {o} /\ closings' = closings \ {c}
          \/ UNCHANGED <<openings, closings, Matched>>
      BY <2>4, MatchClosingTags
    <3> HIDE DEF c
    <3>3. ASSUME NEW o \in MatchesOf(c),
                 Matched' = Matched \cup {[opening |-> o, closing |-> c]},
                 openings' = openings \ {o}, closings' = closings \ {c}
          PROVE  Held' = Held
      <4> DEFINE q == [opening |-> o, closing |-> c]
      <4>1. q.opening = o /\ q.closing = c /\ Matched' = Matched \cup {q}
        BY <3>3
      <4> HIDE DEF q
      <4>2. /\ {p.opening : p \in Matched'} = {p.opening : p \in Matched} \cup {o}
            /\ {p.closing : p \in Matched'} = {p.closing : p \in Matched} \cup {c}
        BY <4>1
      <4>3. Held' = openings' \cup closings' \cup {p.opening : p \in Matched'}
                    \cup {p.closing : p \in Matched'}
        BY DEF Held
      <4> QED
        BY <3>1, <3>3, <4>2, <4>3 DEF Held
    <3>4. Held' = Held
      BY <3>2, <3>3, SamePairs
    <3> QED
      BY <2>1, <2>2, <3>4, SameKept
  <2>5. CASE BeginCombine \/ EndCombine \/ RetrieveData \/ EndRetrieve \/ ExtractInfo
             \/ EndExtract
    <3>1. UNCHANGED <<openings, closings, complete, sorted>>
      BY <2>5 DEF BeginCombine, EndCombine, RetrieveData, EndRetrieve, ExtractInfo, EndExtract
    <3>2. Held' = Held
      BY <3>1, SamePairs DEF Matched
    <3> QED
      BY <2>1, <2>2, <3>2, SameKept
  <2> QED
    BY <1>5, <2>3, <2>4, <2>5
<1> QED
  BY <1>1, <1>2, <1>3, <1>4, <1>5 DEF Next

LEMMA KeptAlways == Spec => []KeptByScan
BY TagsAlways, InitKept, NextKept, PTL DEF Spec

LEMMA KeptConserves == TagsInv /\ KeptByScan => TagsConserved
<1> SUFFICES ASSUME TagsInv, KeptByScan PROVE TagsConserved
  OBVIOUS
<1>1. Joined = {p.opening : p \in Matched} \cup {p.closing : p \in Matched}
  BY DEF Joined, Ends
<1>2. \A p, q \in Matched : p # q => {p.opening, p.closing} \cap {q.opening, q.closing} = {}
  BY DEF TagsInv, Apart, Ends
<1>3. \A p \in Matched : NameOf(p.opening) = NameOf(p.closing) /\ p.opening <= p.closing
  BY DEF TagsInv, TagsOK, PairOK, Pair
<1>4. Cardinality(Matched) = Len(complete) + Len(sorted)
  BY PairCount
<1>5. Joined \cap (openings \cup closings) = {}
  BY DEF TagsInv, Apart
<1>6. TagsOfPage \subseteq Joined \cup openings \cup closings
  BY HeldIs DEF KeptByScan
<1> HIDE DEF Matched
<1> QED
  BY <1>1, <1>2, <1>3, <1>4, <1>5, <1>6 DEF TagsConserved

\* However a page's tags nest or fail to, each tag of interest that the scan has passed
\* is in a list or in a pair, and in one only, in the scan and in all that follows it.
THEOREM TagsConservedAlways == Spec => []TagsConserved
BY TagsAlways, KeptAlways, KeptConserves, PTL

\* The tags of the page are those in the lists and pairs.
LEMMA TagsHeld == TagsInv /\ KeptByScan => Tags = Held
<1> SUFFICES ASSUME TagsInv, KeptByScan PROVE Tags = Held
  OBVIOUS
<1>1. TagsOfPage \subseteq Held /\ TagsInComments \subseteq Held
  BY DEF KeptByScan, TagsInComments, Held
<1>2. ASSUME NEW i \in Held PROVE i \in Tags
  <2>1. i \in openings \cup closings \cup Joined
    BY HeldIs
  <2>2. i \in 1..Len(page) /\ NameOf(i) \in filters
    BY <2>1 DEF TagsInv, TagsOK, PairOK, Joined, Ends
  <2>3. i < Reached
    BY DEF KeptByScan
  <2>4. page[i].kind # "comment" => i \in TagsOfPage
    BY <2>2, <2>3 DEF TagsOfPage
  <2>5. page[i].kind = "comment" => i \in TagsInComments
    <3>1. SUFFICES ASSUME page[i].kind = "comment" PROVE i \in TagsInComments
      OBVIOUS
    <3>2. i \notin closings
      BY <3>1 DEF TagsInv, TagsOK
    <3>3. \A p \in Matched : i = p.closing => i = p.opening
      BY <3>1 DEF TagsInv, TagsOK, PairOK
    <3> QED
      BY <3>1, <3>2, <3>3 DEF Held, TagsInComments
  <2> QED
    BY <2>4, <2>5 DEF Tags
<1> QED
  BY <1>1, <1>2 DEF Tags

-----------------------------------------------------------------------------
(* Nesting. *)

SameName(i, p) == NameOf(i) = NameOf(p.opening)
Within(i, p) == p.opening < i /\ i < p.closing

\* A closing tag that found no opening tag: none is left before it, or all of them are
\* and they are several, which this call does not change.
Skipped(c) ==
    \/ \A o \in OfName(openings, NameOf(c)) : c <= o
    \/ /\ \A o \in OfName(openings, NameOf(c)) : o < c
       /\ Cardinality(OfName(openings, NameOf(c))) # 1

\* No tag of a pair's name is left inside the pair, no two pairs of a name cross, and
\* the closing tags CombineTags has passed would find no opening tag now.
Nests ==
    /\ \A p \in Matched, i \in openings \cup closings : SameName(i, p) => ~ Within(i, p)
    /\ \A p, q \in Matched :
          SameName(q.opening, p) /\ Within(q.opening, p) => q.closing < p.closing
    /\ \A t \in todo, c \in closings \ todo : NameOf(c) = NameOf(t) => c < t /\ Skipped(c)

LEMMA InitNesting == Init => Nests
<1> SUFFICES ASSUME Init PROVE Nests
  OBVIOUS
<1>1. Matched = {} /\ todo = {}
  BY DEF Init, Matched, Range
<1> QED
  BY <1>1 DEF Nests

\* In the scan, what is added comes after everything there is.
LEMMA ScanTagNesting == TagsInv /\ Nests /\ ScanTag => Nests'
<1> SUFFICES ASSUME TagsInv, Nests, ScanTag PROVE Nests'
  OBVIOUS
<1>0. pos \in 1..(Len(page) + 1) /\ Len(page) \in Nat
  BY Lengths
<1>1. /\ pc = "scan" /\ pos \in 1..Len(page) /\ pos \in Nat
      /\ UNCHANGED <<page, sorted, todo>> /\ todo' = {}
  <2>1. pc = "scan" /\ pos <= Len(page) /\ UNCHANGED <<page, sorted, todo>>
    BY DEF ScanTag
  <2>2. todo = {}
    BY <2>1 DEF TagsInv, StageOK
  <2> QED
    BY <1>0, <2>1, <2>2
<1>2. \A i \in openings \cup closings \cup Joined : i \in Nat /\ i < pos
  <2>1. \A i \in openings \cup closings \cup Joined : i \in 1..Len(page)
    BY DEF TagsInv, TagsOK, Joined, Ends, PairOK
  <2>2. \A i \in openings \cup closings \cup Joined : i < pos
    BY <1>1 DEF TagsInv, StageOK
  <2> QED
    BY <1>0, <2>1, <2>2
<1>3. \A p \in Matched : p.opening \in Nat /\ p.closing \in Nat /\ p.opening < pos /\ p.closing < pos
  BY <1>2 DEF Joined, Ends
<1> DEFINE new == [opening |-> pos, closing |-> pos]
<1>4. complete' \in {complete, Append(complete, new)}
  BY DEF ScanTag, ScanComment, AddOpeningTag, AddWholeTag, AddClosingTag
<1>5. openings' \cup closings' \subseteq openings \cup closings \cup {pos}
  BY DEF ScanTag, ScanComment, AddOpeningTag, AddWholeTag, AddClosingTag
<1>6. Matched' \subseteq Matched \cup {new}
  <2>1. complete \in Seq(Pair) /\ new \in Pair
    BY <1>1 DEF TagsInv, Apart, Pair
  <2> HIDE DEF new
  <2>2. Range(Append(complete, new)) = Range(complete) \cup {new}
    BY <2>1, AppendFacts
  <2> QED
    BY <1>1, <1>4, <2>2 DEF Matched
<1>7. new.opening = pos /\ new.closing = pos
  OBVIOUS
<1> HIDE DEF new
<1>8. \A p \in Matched', i \in openings' \cup closings' : SameName(i, p)' => ~ Within(i, p)'
  <2> SUFFICES ASSUME NEW p \in Matched', NEW i \in openings' \cup closings',
                      SameName(i, p)', Within(i, p)'
               PROVE  FALSE
    OBVIOUS
  <2>1. SameName(i, p) /\ p.opening < i /\ i < p.closing
    BY <1>1 DEF SameName, NameOf, Within
  <2>2. p \in Matched
    BY <1>1, <1>2, <1>5, <1>6, <1>7, <2>1
  <2>3. i \in openings \cup closings
    BY <1>1, <1>3, <1>5, <2>1, <2>2
  <2> QED
    BY <2>1, <2>2, <2>3 DEF Nests, Within
<1>9. \A p, q \in Matched' :
          SameName(q.opening, p)' /\ Within(q.opening, p)' => q.closing < p.closing
  <2> SUFFICES ASSUME NEW p \in Matched', NEW q \in Matched',
                      SameName(q.opening, p)', Within(q.opening, p)'
               PROVE  q.closing < p.closing
    OBVIOUS
  <2>1. SameName(q.opening, p) /\ p.opening < q.opening /\ q.opening < p.closing
    BY <1>1 DEF SameName, NameOf, Within
  <2>2. p \in Matched
    BY <1>1, <1>3, <1>6, <1>7, <2>1
  <2>3. q \in Matched
    BY <1>1, <1>3, <1>6, <1>7, <2>1, <2>2
  <2> QED
    BY <2>1, <2>2, <2>3 DEF Nests, Within
<1> QED
  BY <1>1, <1>8, <1>9 DEF Nests

LEMMA SameNesting ==
    ASSUME Nests, UNCHANGED <<page, openings, closings, Matched>>,
           todo' = {} \/ todo' = todo
    PROVE  Nests'
<1>1. \A i : NameOf(i)' = NameOf(i)
  BY DEF NameOf
<1>2. \A p, i : (SameName(i, p)' <=> SameName(i, p)) /\ (Within(i, p)' <=> Within(i, p))
  BY DEF SameName, Within, NameOf
<1>3. \A c : Skipped(c)' <=> Skipped(c)
  BY DEF Skipped, OfName, NameOf
<1>4. \A p \in Matched', i \in (openings \cup closings)' : SameName(i, p)' => ~ Within(i, p)'
  BY <1>2 DEF Nests
<1>5. \A p, q \in Matched' :
          SameName(q.opening, p)' /\ Within(q.opening, p)' => q.closing < p.closing
  BY <1>2 DEF Nests
<1>6. \A t \in todo', c \in closings' \ todo' : NameOf(c)' = NameOf(t)' => c < t /\ Skipped(c)'
  BY <1>1, <1>3 DEF Nests
<1> QED
  BY <1>4, <1>5, <1>6 DEF Nests

LEMMA BeginCombineNesting == TagsInv /\ Nests /\ BeginCombine => Nests'
<1> SUFFICES ASSUME TagsInv, Nests, BeginCombine PROVE Nests'
  OBVIOUS
<1>1. UNCHANGED <<page, openings, closings, complete, sorted>>
  BY DEF BeginCombine
<1>2. UNCHANGED Matched
  BY <1>1 DEF Matched
<1>3. CASE todo' = todo
  BY <1>1, <1>2, <1>3, SameNesting
<1>4. CASE todo' = OfName(closings, NameOf(Min(closings)))
  <2>1. \A t \in todo', c \in closings' \ todo' : NameOf(c)' # NameOf(t)'
    BY <1>1, <1>4 DEF OfName, NameOf
  <2>2. \A p \in Matched', i \in (openings \cup closings)' : SameName(i, p)' => ~ Within(i, p)'
    BY <1>1, <1>2 DEF Nests, SameName, Within, NameOf
  <2>3. \A p, q \in Matched' :
            SameName(q.opening, p)' /\ Within(q.opening, p)' => q.closing < p.closing
    BY <1>1, <1>2 DEF Nests, SameName, Within, NameOf
  <2> QED
    BY <2>1, <2>2, <2>3 DEF Nests
<1> QED
  BY <1>3, <1>4 DEF BeginCombine

LEMMA MatchClosingNesting == TagsInv /\ Nests /\ MatchClosing => Nests'
<1> SUFFICES ASSUME TagsInv, Nests, MatchClosing PROVE Nests'
  OBVIOUS
<1>1. /\ pc = "match" /\ todo # {} /\ todo' = todo \ {Min(todo)} /\ todo \subseteq closings
      /\ UNCHANGED page /\ Len(page) \in Nat
  BY Lengths DEF MatchClosing, TagsInv, TagsOK
<1>2. PICK c : c = Min(todo)
  OBVIOUS
<1>3. /\ c \in todo /\ c \in closings /\ c \in 1..Len(page) /\ \A t \in todo : c <= t
      /\ \A o \in MatchesOf(c) :
            /\ o \in openings /\ o \in 1..Len(page) /\ o < c /\ NameOf(o) = NameOf(c)
            /\ \A i \in openings : NameOf(i) = NameOf(c) /\ i < c => i <= o
            /\ \/ \E i \in openings : NameOf(i) = NameOf(c) /\ c <= i
               \/ Cardinality(OfName(openings, NameOf(c))) = 1
      /\ MatchesOf(c) = {} => Skipped(c)
  BY <1>1, <1>2, MatchFacts DEF Skipped
<1>4. /\ \A i \in openings \cup closings : i \in 1..Len(page)
      /\ \A p \in Matched : p.opening \in 1..Len(page) /\ p.closing \in 1..Len(page)
  BY DEF TagsInv, TagsOK, PairOK
<1>5. \A i : NameOf(i)' = NameOf(i)
  BY <1>1 DEF NameOf
<1>6. \/ \E o \in MatchesOf(c) :
            /\ Matched' = Matched \cup {[opening |-> o, closing |-> c]}
            /\ openings' = openings \ {o} /\ closings' = closings \ {c}
      \/ MatchesOf(c) = {} /\ UNCHANGED <<openings, closings, Matched>>
  BY <1>2, MatchClosingTags
<1>7. CASE MatchesOf(c) = {} /\ UNCHANGED <<openings, closings, Matched>>
  <2>1. \A d : Skipped(d)' <=> Skipped(d)
    BY <1>5, <1>7 DEF Skipped, OfName
  <2>2. \A t \in todo', d \in closings' \ todo' : NameOf(d) = NameOf(t) => d < t /\ Skipped(d)
    <3> SUFFICES ASSUME NEW t \in todo', NEW d \in closings' \ todo', NameOf(d) = NameOf(t)
                 PROVE  d < t /\ Skipped(d)
      OBVIOUS
    <3>1. t \in todo /\ t # c /\ d \in closings /\ (d = c \/ d \notin todo)
      BY <1>1, <1>2, <1>7
    <3>2. CASE d = c
      BY <1>1, <1>3, <1>4, <1>7, <3>1, <3>2
    <3>3. CASE d \notin todo
      BY <3>1, <3>3 DEF Nests
    <3> QED
      BY <3>1, <3>2, <3>3
  <2> QED
    BY <1>1, <1>5, <1>7, <2>1, <2>2 DEF Nests, SameName, Within
<1>8. ASSUME NEW o \in MatchesOf(c),
             Matched' = Matched \cup {[opening |-> o, closing |-> c]},
             openings' = openings \ {o}, closings' = closings \ {c}
      PROVE  Nests'
  <2> DEFINE new == [opening |-> o, closing |-> c]
  <2>1. new.opening = o /\ new.closing = c /\ Matched' = Matched \cup {new}
    BY <1>8
  <2> HIDE DEF new
  <2>2. /\ o \in openings /\ o \in 1..Len(page) /\ o < c /\ NameOf(o) = NameOf(c)
        /\ \A i \in openings : NameOf(i) = NameOf(c) /\ i < c => i <= o
        /\ \/ \E i \in openings : NameOf(i) = NameOf(c) /\ c <= i
           \/ Cardinality(OfName(openings, NameOf(c))) = 1
    BY <1>3
  \* A closing tag of the name that was passed before c finds no opening tag before it.
  <2>3. ASSUME NEW d \in closings \ todo, NameOf(d) = NameOf(c)
        PROVE  d < c /\ \A i \in OfName(openings, NameOf(d)) : d <= i
    <3>1. d < c /\ Skipped(d)
      BY <1>3, <2>3 DEF Nests
    <3>2. ASSUME \A i \in OfName(openings, NameOf(d)) : i < d,
                 Cardinality(OfName(openings, NameOf(d))) # 1
          PROVE  FALSE
      <4>1. PICK i \in openings : NameOf(i) = NameOf(c) /\ c <= i
        BY <2>2, <2>3, <3>2
      <4>2. i < d
        BY <2>3, <3>2, <4>1 DEF OfName
      <4> QED
        BY <1>1, <1>3, <1>4, <2>3, <3>1, <4>1, <4>2
    <3> QED
      BY <3>1, <3>2 DEF Skipped
  <2>4. ASSUME NEW p \in Matched', NEW i \in openings' \cup closings', SameName(i, p), Within(i, p)
        PROVE  FALSE
    <3>1. i \in openings \cup closings /\ i # o /\ i # c /\ i \in 1..Len(page)
      <4>1. o \notin closings /\ c \notin openings
        BY <1>3, <2>2 DEF TagsInv, TagsOK
      <4> QED
        BY <1>4, <1>8, <4>1
    <3>2. p = new
      BY <2>1, <2>4, <3>1 DEF Nests
    <3>3. o < i /\ i < c /\ NameOf(i) = NameOf(c)
      BY <2>1, <2>2, <2>4, <3>2 DEF SameName, Within
    <3>4. CASE i \in openings
      BY <1>1, <2>2, <3>1, <3>3, <3>4
    <3>5. CASE i \in todo
      BY <1>1, <1>3, <3>1, <3>3, <3>5
    <3>6. CASE i \in closings \ todo
      <4>1. i <= o
        BY <2>2, <2>3, <3>3, <3>6 DEF OfName
      <4> QED
        BY <1>1, <2>2, <3>1, <3>3, <4>1
    <3> QED
      BY <3>1, <3>4, <3>5, <3>6
  <2>5. ASSUME NEW p \in Matched', NEW q \in Matched',
               SameName(q.opening, p), Within(q.opening, p)
        PROVE  q.closing < p.closing
    <3>1. CASE p \in Matched /\ q \in Matched
      BY <2>5, <3>1 DEF Nests
    <3>2. CASE p = new /\ q = new
      BY <1>1, <2>1, <2>2, <2>5, <3>2 DEF Within
    <3>3. CASE p \in Matched /\ q = new
      <4>1. SameName(o, p) /\ Within(o, p)
        BY <2>1, <2>5, <3>3
      <4> QED
        BY <2>2, <3>3, <4>1 DEF Nests
    <3>4. CASE p = new /\ q \in Matched
      <4>1. NameOf(q.opening) = NameOf(c) /\ o < q.opening /\ q.opening < c
        BY <2>1, <2>2, <2>5, <3>4 DEF SameName, Within
      <4>2. ~ Within(c, q)
        BY <1>3, <3>4, <4>1 DEF Nests, SameName
      <4>3. q.closing # c
        <5>1. q.closing \in Joined
          BY <3>4 DEF Joined, Ends
        <5> QED
          BY <1>3, <5>1 DEF TagsInv, Apart
      <4> QED
        BY <1>1, <1>3, <1>4, <2>1, <3>4, <4>1, <4>2, <4>3 DEF Within
    <3> QED
      BY <2>1, <3>1, <3>2, <3>3, <3>4
  <2>6. ASSUME NEW t \in todo', NEW d \in closings' \ todo', NameOf(d) = NameOf(t)
        PROVE  d < t /\ Skipped(d)'
    <3>1. t \in todo /\ d \in closings \ todo
      BY <1>1, <1>2, <1>8
    <3>2. d < t /\ Skipped(d)
      BY <2>6, <3>1 DEF Nests
    <3>3. OfName(openings, NameOf(d))' = OfName(openings, NameOf(d)) \ {o}
      BY <1>5, <1>8 DEF OfName
    <3>4. CASE NameOf(d) = NameOf(c)
      <4>1. \A i \in OfName(openings, NameOf(d))' : d <= i
        BY <2>3, <3>1, <3>3, <3>4
      <4> QED
        BY <3>2, <4>1 DEF Skipped
    <3>5. CASE NameOf(d) # NameOf(c)
      <4>1. OfName(openings, NameOf(d))' = OfName(openings, NameOf(d))
        BY <2>2, <3>3, <3>5 DEF OfName
      <4> QED
        BY <3>2, <4>1 DEF Skipped
    <3> QED
      BY <3>4, <3>5
  <2>7. \A p, i : (SameName(i, p)' <=> SameName(i, p)) /\ (Within(i, p)' <=> Within(i, p))
    BY <1>1 DEF SameName, Within, NameOf
  <2> QED
    BY <1>5, <2>4, <2>5, <2>6, <2>7 DEF Nests
<1> QED
  BY <1>6, <1>7, <1>8

LEMMA NextNesting == TagsInv /\ Nests /\ [Next]_vars => Nests'
<1> SUFFICES ASSUME TagsInv, Nests, [Next]_vars PROVE Nests'
  OBVIOUS
<1>1. CASE ScanTag \/ BeginCombine \/ MatchClosing
  BY <1>1, ScanTagNesting, BeginCombineNesting, MatchClosingNesting
<1>2. CASE SortTagsById
  <2>1. UNCHANGED <<page, openings, closings, Matched>>
    BY <1>2, SortTags DEF SortTagsById
  <2>2. todo' = todo
    BY <1>2 DEF SortTagsById
  <2> QED
    BY <2>1, <2>2, SameNesting
<1>3. CASE UNCHANGED vars \/ AddFilters \/ EndScan \/ EndCombine \/ RetrieveData
           \/ EndRetrieve \/ ExtractInfo \/ EndExtract
  <2>1. UNCHANGED <<page, openings, closings, complete, sorted, todo>>
    BY <1>3 DEF vars, AddFilters, EndScan, EndCombine, RetrieveData, EndRetrieve, ExtractInfo,
       EndExtract
  <2>2. UNCHANGED Matched
    BY <2>1 DEF Matched
  <2> QED
    BY <2>1, <2>2, SameNesting
<1> QED
  BY <1>1, <1>2, <1>3 DEF Next

LEMMA NestsAlways == Spec => []Nests
BY TagsAlways, InitNesting, NextNesting, PTL DEF Spec

\* The same, of the tags on the page.
NestingInv == Nests /\ Tags = Held

LEMMA NestingAlways == Spec => []NestingInv
<1>1. TagsInv /\ KeptByScan /\ Nests => NestingInv
  BY TagsHeld DEF NestingInv
<1> QED
  BY <1>1, TagsAlways, KeptAlways, NestsAlways, PTL

-----------------------------------------------------------------------------
(* Between the ends of a pair: as many opening as closing tags. *)

\* A pair of two tags.
TwoTags(p) == p \in Matched /\ p.opening # p.closing

LEMMA ElementFacts ==
    ASSUME TagsInv, NestingInv, NEW p, TwoTags(p)
    PROVE  /\ p.opening \in 1..Len(page) /\ p.closing \in 1..Len(page) /\ Len(page) \in Nat
           /\ p.opening < p.closing /\ NameOf(p.closing) = NameOf(p.opening)
           /\ page[p.opening].kind \in {"open", "comment"} /\ page[p.closing].kind = "close"
           /\ p.opening \in Tags /\ p.closing \in Tags
<1>1. p \in Matched /\ PairOK(p) /\ p.opening # p.closing
  BY DEF TwoTags, TagsInv, TagsOK
<1>2. p.opening \in Tags /\ p.closing \in Tags
  BY <1>1 DEF NestingInv, Held
<1> QED
  BY <1>1, <1>2, Lengths DEF PairOK

\* The pair of a tag inside p that has p's name is inside p.
LEMMA ClosedWithin ==
    ASSUME TagsInv, NestingInv, NEW p, TwoTags(p),
           NEW c \in OfName(Tags, NameOf(p.opening)),
           page[c].kind = "close", p.opening <= c, c <= p.closing
    PROVE  \E q : /\ TwoTags(q) /\ q.closing = c /\ NameOf(q.opening) = NameOf(p.opening)
                  /\ p.opening <= q.opening
                  /\ c # p.closing => q.opening # p.opening
<1>1. /\ p \in Matched /\ p.opening \in 1..Len(page) /\ p.closing \in 1..Len(page)
      /\ Len(page) \in Nat /\ p.opening < p.closing /\ page[p.opening].kind \in {"open", "comment"}
  BY ElementFacts DEF TwoTags
<1>2. CASE c = p.closing
  BY <1>1, <1>2 DEF TwoTags
<1>3. CASE c # p.closing
  <2>1. c \in Tags /\ NameOf(c) = NameOf(p.opening)
    BY DEF OfName
  <2>2. c \in Nat /\ p.opening < c /\ c < p.closing
    <3>1. c \in 1..Len(page)
      BY <2>1 DEF NestingInv, Held, TagsInv, TagsOK, PairOK
    <3>2. c # p.opening
      BY <1>1
    <3> QED
      BY <1>1, <1>3, <3>1, <3>2
  <2>3. c \notin openings \cup closings
    BY <1>1, <2>1, <2>2 DEF Nests, NestingInv, SameName, Within
  <2>4. PICK q \in Matched : c = q.opening \/ c = q.closing
    BY <2>1, <2>3 DEF NestingInv, Held
  <2>5. PairOK(q)
    BY <2>4 DEF TagsInv, TagsOK
  <2>6. c = q.closing /\ q.opening < q.closing /\ NameOf(q.opening) = NameOf(p.opening)
    BY <2>1, <2>4, <2>5 DEF PairOK
  <2>7. q.opening \in Nat /\ q.closing \in Nat /\ TwoTags(q)
    BY <2>4, <2>5, <2>6 DEF PairOK, Pair, TwoTags
  <2>8. p.opening < q.opening
    <3>1. q.opening # p.opening
      <4>1. ASSUME q.opening = p.opening PROVE FALSE
        <5>1. q = p
          BY <1>1, <2>4, <4>1 DEF TagsInv, Apart, Ends
        <5> QED
          BY <1>3, <2>6, <5>1
      <4> QED
        BY <4>1
    <3>2. ~ (q.opening < p.opening)
      <4>1. ASSUME q.opening < p.opening PROVE FALSE
        <5>1. SameName(p.opening, q) /\ Within(p.opening, q)
          BY <2>2, <2>6, <4>1 DEF SameName, Within
        <5>2. p.closing < q.closing
          BY <1>1, <2>4, <5>1 DEF Nests, NestingInv
        <5> QED
          BY <1>1, <2>2, <2>6, <5>2
      <4> QED
        BY <4>1
    <3> QED
      BY <1>1, <2>7, <3>1, <3>2
  <2> QED
    BY <1>1, <2>6, <2>7, <2>8
<1> QED
  BY <1>2, <1>3

LEMMA OpenedWithin ==
    ASSUME TagsInv, NestingInv, NEW p, TwoTags(p),
           NEW o \in OfName(Tags, NameOf(p.opening)),
           page[o].kind \in {"open", "comment"}, p.opening <= o, o <= p.closing
    PROVE  \E q : /\ TwoTags(q) /\ q.opening = o /\ q.closing <= p.closing
<1>1. /\ p \in Matched /\ p.opening \in 1..Len(page) /\ p.closing \in 1..Len(page)
      /\ Len(page) \in Nat /\ p.opening < p.closing /\ page[p.closing].kind = "close"
  BY ElementFacts DEF TwoTags
<1>2. CASE o = p.opening
  BY <1>1, <1>2
<1>3. CASE o # p.opening
  <2>1. o \in Tags /\ NameOf(o) = NameOf(p.opening)
    BY DEF OfName
  <2>2. o \in Nat /\ p.opening < o /\ o < p.closing
    <3>1. o \in 1..Len(page)
      BY <2>1 DEF NestingInv, Held, TagsInv, TagsOK, PairOK
    <3>2. o # p.closing
      BY <1>1
    <3> QED
      BY <1>1, <1>3, <3>1, <3>2
  <2>3. o \notin openings \cup closings
    BY <1>1, <2>1, <2>2 DEF Nests, NestingInv, SameName, Within
  <2>4. PICK q \in Matched : o = q.opening \/ o = q.closing
    BY <2>1, <2>3 DEF NestingInv, Held
  <2>5. PairOK(q)
    BY <2>4 DEF TagsInv, TagsOK
  <2>6. o = q.opening /\ q.opening < q.closing
    BY <2>1, <2>4, <2>5 DEF PairOK
  <2>7. q.opening \in Nat /\ q.closing \in Nat /\ TwoTags(q)
    BY <2>4, <2>5, <2>6 DEF PairOK, Pair, TwoTags
  <2>8. q.closing < p.closing
    BY <1>1, <2>1, <2>2, <2>4, <2>6 DEF Nests, NestingInv, SameName, Within
  <2> QED
    BY <1>1, <2>6, <2>7, <2>8
<1> QED
  BY <1>2, <1>3

\* Two pairs with an end in common are one.
LEMMA OnePair ==
    ASSUME TagsInv, NEW p, NEW q, TwoTags(p), TwoTags(q),
           p.opening = q.opening \/ p.closing = q.closing
    PROVE  p = q
BY DEF TwoTags, TagsInv, Apart, Ends

LEMMA LevelFacts ==
    ASSUME TagsInv, NEW n, NEW i \in Nat, NEW j \in Nat
    PROVE  /\ IsFiniteSet(Opens(n, i, j)) /\ IsFiniteSet(Closes(n, i, j))
           /\ Cardinality(Opens(n, i, j)) \in Nat /\ Cardinality(Closes(n, i, j)) \in Nat
<1>1. IsFiniteSet(i..j)
  BY FS_Interval
<1>2. Opens(n, i, j) \in SUBSET (i..j) /\ Closes(n, i, j) \in SUBSET (i..j)
  BY DEF Opens, Closes
<1>3. IsFiniteSet(Opens(n, i, j)) /\ IsFiniteSet(Closes(n, i, j))
  BY <1>1, <1>2, FS_Subset
<1> QED
  BY <1>3, FS_CardinalityType

LEMMA LevelBefore ==
    ASSUME TagsInv, NestingInv, NEW p, TwoTags(p), NEW j \in Nat,
           p.opening <= j, j < p.closing
    PROVE  Level(NameOf(p.opening), p.opening, j) # 0
<1> DEFINE n == NameOf(p.opening)
           a == p.opening
           O == Opens(n, a, j)
           C == Closes(n, a, j)
           mate == [c \in C |-> (CHOOSE q : TwoTags(q) /\ q.closing = c).opening]
<1>1. /\ a \in 1..Len(page) /\ p.closing \in 1..Len(page) /\ Len(page) \in Nat /\ a < p.closing
      /\ page[a].kind \in {"open", "comment"} /\ a \in Tags
  BY ElementFacts
<1>2. IsFiniteSet(O) /\ IsFiniteSet(C) /\ Cardinality(O) \in Nat /\ Cardinality(C) \in Nat
  BY <1>1, LevelFacts
<1>3. a \in O
  BY <1>1 DEF Opens, OfName
<1>4. ASSUME NEW c \in C
      PROVE  \E q : /\ TwoTags(q) /\ q.closing = c /\ mate[c] = q.opening /\ q.opening \in O \ {a}
  <2>1. /\ c \in OfName(Tags, n) /\ page[c].kind = "close" /\ c \in a..j
    BY DEF Closes
  <2>2. a <= c /\ c < p.closing /\ c \in Nat
    BY <1>1, <2>1
  <2>3. PICK q : /\ TwoTags(q) /\ q.closing = c /\ NameOf(q.opening) = n
                 /\ a <= q.opening /\ q.opening # a
    <3>1. c <= p.closing /\ c # p.closing
      BY <1>1, <2>2
    <3> QED
      BY <2>1, <2>2, <3>1, ClosedWithin
  <2>4. q = CHOOSE r : TwoTags(r) /\ r.closing = c
    <3>1. \A r : TwoTags(r) /\ r.closing = c => r = q
      BY <2>3, OnePair
    <3> QED
      BY <2>3, <3>1
  <2>5. mate[c] = q.opening
    BY <2>4
  <2>6. /\ q.opening \in 1..Len(page) /\ q.opening < q.closing /\ q.opening \in Tags
        /\ page[q.opening].kind \in {"open", "comment"}
    BY <2>3, ElementFacts
  <2>7. q.opening \in a..j
    BY <1>1, <2>1, <2>2, <2>3, <2>6
  <2>8. q.opening \in O
    BY <2>3, <2>6, <2>7 DEF Opens, OfName
  <2> QED
    BY <2>3, <2>5, <2>8
<1>5. \A c, d \in C : mate[c] = mate[d] => c = d
  <2> HIDE DEF mate, C, O
  <2> SUFFICES ASSUME NEW c \in C, NEW d \in C, mate[c] = mate[d] PROVE c = d
    OBVIOUS
  <2>1. PICK q : TwoTags(q) /\ q.closing = c /\ mate[c] = q.opening
    BY <1>4
  <2>2. PICK r : TwoTags(r) /\ r.closing = d /\ mate[d] = r.opening
    BY <1>4
  <2>3. q = r
    BY <2>1, <2>2, OnePair
  <2> QED
    BY <2>1, <2>2, <2>3
<1>6. mate \in [C -> O \ {a}]
  <2>1. \A c \in C : mate[c] \in O \ {a}
    BY <1>4
  <2> QED
    BY <2>1
<1> HIDE DEF mate, C, O
<1>7. IsFiniteSet(O \ {a}) /\ Cardinality(O \ {a}) = Cardinality(O) - 1
  BY <1>2, <1>3, FS_RemoveElement
<1>8. Cardinality(C) <= Cardinality(O \ {a})
  BY <1>5, <1>6, <1>7, Smaller
<1>9. Cardinality(O) - Cardinality(C) # 0
  BY <1>2, <1>7, <1>8
<1> QED
  BY <1>9 DEF Level, O, C

LEMMA LevelAtEnd ==
    ASSUME TagsInv, NestingInv, NEW p, TwoTags(p)
    PROVE  Level(NameOf(p.opening), p.opening, p.closing) = 0
<1> DEFINE n == NameOf(p.opening)
           a == p.opening
           b == p.closing
           O == Opens(n, a, b)
           C == Closes(n, a, b)
           opening == [c \in C |-> (CHOOSE q : TwoTags(q) /\ q.closing = c).opening]
           closing == [o \in O |-> (CHOOSE q : TwoTags(q) /\ q.opening = o).closing]
<1>1. /\ a \in 1..Len(page) /\ b \in 1..Len(page) /\ Len(page) \in Nat /\ a < b
  BY ElementFacts
<1>2. IsFiniteSet(O) /\ IsFiniteSet(C) /\ Cardinality(O) \in Nat /\ Cardinality(C) \in Nat
  BY <1>1, LevelFacts
<1>3. ASSUME NEW c \in C
      PROVE  \E q : /\ TwoTags(q) /\ q.closing = c /\ opening[c] = q.opening /\ q.opening \in O
  <2>1. /\ c \in OfName(Tags, n) /\ page[c].kind = "close" /\ c \in a..b
    BY DEF Closes
  <2>2. a <= c /\ c <= b /\ c \in Nat
    BY <1>1, <2>1
  <2>3. PICK q : TwoTags(q) /\ q.closing = c /\ NameOf(q.opening) = n /\ a <= q.opening
    BY <2>1, <2>2, ClosedWithin
  <2>4. q = CHOOSE r : TwoTags(r) /\ r.closing = c
    <3>1. \A r : TwoTags(r) /\ r.closing = c => r = q
      BY <2>3, OnePair
    <3> QED
      BY <2>3, <3>1
  <2>5. opening[c] = q.opening
    BY <2>4
  <2>6. /\ q.opening \in 1..Len(page) /\ q.opening < q.closing /\ q.opening \in Tags
        /\ page[q.opening].kind \in {"open", "comment"}
    BY <2>3, ElementFacts
  <2>7. q.opening \in a..b
    BY <1>1, <2>1, <2>2, <2>3, <2>6
  <2>8. q.opening \in O
    BY <2>3, <2>6, <2>7 DEF Opens, OfName
  <2> QED
    BY <2>3, <2>5, <2>8
<1>4. ASSUME NEW o \in O
      PROVE  \E q : /\ TwoTags(q) /\ q.opening = o /\ closing[o] = q.closing /\ q.closing \in C
  <2>1. /\ o \in OfName(Tags, n) /\ page[o].kind \in {"open", "comment"} /\ o \in a..b
    BY DEF Opens
  <2>2. a <= o /\ o <= b /\ o \in Nat
    BY <1>1, <2>1
  <2>3. PICK q : TwoTags(q) /\ q.opening = o /\ q.closing <= b
    BY <2>1, <2>2, OpenedWithin
  <2>4. q = CHOOSE r : TwoTags(r) /\ r.opening = o
    <3>1. \A r : TwoTags(r) /\ r.opening = o => r = q
      BY <2>3, OnePair
    <3> QED
      BY <2>3, <3>1
  <2>5. closing[o] = q.closing
    BY <2>4
  <2>6. /\ q.closing \in 1..Len(page) /\ q.opening < q.closing /\ q.closing \in Tags
        /\ NameOf(q.closing) = NameOf(q.opening) /\ page[q.closing].kind = "close"
    BY <2>3, ElementFacts
  <2>7. q.closing \in a..b
    BY <1>1, <2>1, <2>2, <2>3, <2>6
  <2>8. q.closing \in C
    BY <2>1, <2>3, <2>6, <2>7 DEF Closes, OfName
  <2> QED
    BY <2>3, <2>5, <2>8
<1>5. Cardinality(C) <= Cardinality(O)
  <2>1. opening \in [C -> O]
    BY <1>3
  <2> HIDE DEF opening, C, O
  <2>2. \A c, d \in C : opening[c] = opening[d] => c = d
    <3> SUFFICES ASSUME NEW c \in C, NEW d \in C, opening[c] = opening[d] PROVE c = d
      OBVIOUS
    <3>1. PICK q : TwoTags(q) /\ q.closing = c /\ opening[c] = q.opening
      BY <1>3
    <3>2. PICK r : TwoTags(r) /\ r.closing = d /\ opening[d] = r.opening
      BY <1>3
    <3>3. q = r
      BY <3>1, <3>2, OnePair
    <3> QED
      BY <3>1, <3>2, <3>3
  <2> QED
    BY <1>2, <2>1, <2>2, Smaller
<1>6. Cardinality(O) <= Cardinality(C)
  <2>1. closing \in [O -> C]
    BY <1>4
  <2> HIDE DEF closing, C, O
  <2>2. \A c, d \in O : closing[c] = closing[d] => c = d
    <3> SUFFICES ASSUME NEW c \in O, NEW d \in O, closing[c] = closing[d] PROVE c = d
      OBVIOUS
    <3>1. PICK q : TwoTags(q) /\ q.opening = c /\ closing[c] = q.closing
      BY <1>4
    <3>2. PICK r : TwoTags(r) /\ r.opening = d /\ closing[d] = r.closing
      BY <1>4
    <3>3. q = r
      BY <3>1, <3>2, OnePair
    <3> QED
      BY <3>1, <3>2, <3>3
  <2> QED
    BY <1>2, <2>1, <2>2, Smaller
<1> HIDE DEF C, O
<1>7. Cardinality(O) - Cardinality(C) = 0
  BY <1>2, <1>5, <1>6
<1> QED
  BY <1>7 DEF Level, O, C

LEMMA PairsArePartners ==
    ASSUME TagsInv, NestingInv, NEW p \in Matched
    PROVE  /\ page[p.opening].kind = "whole" \/ EvenedOut(p.opening) # {}
           /\ p.closing = Partner(p.opening)
<1>1. PairOK(p)
  BY DEF TagsInv, TagsOK
<1>2. CASE p.opening = p.closing
  <2>1. page[p.opening].kind = "whole"
    BY <1>1, <1>2 DEF PairOK, Pair
  <2> QED
    BY <1>2, <2>1 DEF Partner
<1>3. CASE p.opening # p.closing
  <2> DEFINE n == NameOf(p.opening)
             a == p.opening
             b == p.closing
             C == Closes(n, a, Len(page))
             S == EvenedOut(a)
  <2>0. S = {c \in C : Level(n, a, c) = 0}
    BY DEF EvenedOut
  <2>1. TwoTags(p)
    BY <1>3 DEF TwoTags
  <2>2. /\ a \in 1..Len(page) /\ b \in 1..Len(page) /\ Len(page) \in Nat /\ a < b
        /\ NameOf(b) = n /\ page[a].kind \in {"open", "comment"} /\ page[b].kind = "close"
        /\ b \in Tags
    BY <2>1, ElementFacts
  <2>3. b \in S
    <3>1. b \in C
      BY <2>2 DEF Closes, OfName
    <3>2. Level(n, a, b) = 0
      BY <2>1, LevelAtEnd
    <3> QED
      BY <2>0, <3>1, <3>2
  <2>4. ASSUME NEW c \in S PROVE c \in Nat /\ b <= c
    <3>1. c \in a..Len(page) /\ Level(n, a, c) = 0
      BY <2>0 DEF Closes
    <3>2. c \in Nat /\ a <= c
      BY <2>2, <3>1
    <3>3. ~ (c < b)
      BY <2>1, <3>1, <3>2, LevelBefore
    <3> QED
      BY <2>2, <3>2, <3>3
  <2> HIDE DEF S
  <2>5. Min(S) = b
    BY <2>3, <2>4, MinIs
  <2>6. page[a].kind # "whole"
    BY <2>2
  <2> QED
    BY <2>3, <2>5, <2>6 DEF Partner, S
<1> QED
  BY <1>2, <1>3

\* On any page, whatever tags lack their other half, each pair CombineTags makes is an
\* opening tag with the closing tag of its own element.
THEOREM GenuinePairsAlways == Spec => []GenuinePairs
<1>1. TagsInv /\ NestingInv => GenuinePairs
  BY PairsArePartners DEF GenuinePairs
<1> QED
  BY <1>1, TagsAlways, NestingAlways, PTL

-----------------------------------------------------------------------------
(* The order of the sorted pairs. *)

SortedOK ==
    /\ \A j, k \in DOMAIN sorted : j < k => sorted[j].opening < sorted[k].opening
    /\ \A p \in Range(complete), k \in DOMAIN sorted : sorted[k].opening < p.opening

LEMMA InitSorted == Init => SortedOK
BY DEF Init, SortedOK

LEMMA SortStepSorted == TagsInv /\ SortedOK /\ SortTagsById => SortedOK'
<1> SUFFICES ASSUME TagsInv, SortedOK, SortTagsById PROVE SortedOK'
  OBVIOUS
<1>1. CASE complete = <<>>
  BY <1>1 DEF SortTagsById, SortedOK
<1>2. CASE complete # <<>>
  <2> DEFINE i == NextById
             p == complete[i]
  <2>1. sorted' = Append(sorted, p) /\ complete' = RemoveAt(complete, i)
    BY <1>2 DEF SortTagsById
  <2>2. i \in DOMAIN complete /\ \A j \in DOMAIN complete : p.opening <= complete[j].opening
    BY <1>2, NextFacts
  <2>3. /\ complete \in Seq(Pair) /\ sorted \in Seq(Pair) /\ IsInjective(complete)
        /\ \A q, r \in Matched : q # r => Ends(q) \cap Ends(r) = {}
    BY DEF TagsInv, Apart
  <2>4. p \in Range(complete) /\ p \in Pair /\ \A q \in Range(complete) : p.opening <= q.opening
    BY <2>2, <2>3 DEF Range
  <2>5. \A q \in Range(complete) : q \in Pair
    BY <2>3 DEF Range
  <2> HIDE DEF i
  <2>6. Range(complete') = Range(complete) \ {p}
    BY <2>1, <2>2, <2>3, RemoveAtFacts
  <2> HIDE DEF p
  <2>7. \A q \in Range(complete') : p.opening < q.opening /\ q \in Range(complete)
    <3> SUFFICES ASSUME NEW q \in Range(complete') PROVE p.opening < q.opening /\ q \in Range(complete)
      OBVIOUS
    <3>1. q \in Range(complete) /\ q # p
      BY <2>6
    <3>2. p.opening # q.opening
      BY <2>3, <2>4, <3>1 DEF Matched, Ends
    <3> QED
      BY <2>4, <2>5, <3>1, <3>2 DEF Pair
  <2>8. /\ DOMAIN sorted = 1..Len(sorted) /\ DOMAIN sorted' = 1..(Len(sorted) + 1)
        /\ Len(sorted) \in Nat
        /\ sorted'[Len(sorted) + 1] = p /\ \A k \in 1..Len(sorted) : sorted'[k] = sorted[k]
    BY <2>1, <2>3, <2>4
  <2>9. \A k \in 1..Len(sorted) : sorted[k].opening < p.opening
    BY <2>4, <2>8 DEF SortedOK
  <2>10. \A j, k \in DOMAIN sorted' : j < k => sorted'[j].opening < sorted'[k].opening
    <3> SUFFICES ASSUME NEW j \in DOMAIN sorted', NEW k \in DOMAIN sorted', j < k
                 PROVE  sorted'[j].opening < sorted'[k].opening
      OBVIOUS
    <3>1. j \in 1..Len(sorted)
      BY <2>8
    <3>2. CASE k \in 1..Len(sorted)
      BY <2>8, <3>1, <3>2 DEF SortedOK
    <3>3. CASE k = Len(sorted) + 1
      BY <2>8, <2>9, <3>1, <3>3
    <3> QED
      BY <2>8, <3>2, <3>3
  <2>11. \A q \in Range(complete'), k \in DOMAIN sorted' : sorted'[k].opening < q.opening
    <3> SUFFICES ASSUME NEW q \in Range(complete'), NEW k \in DOMAIN sorted'
                 PROVE  sorted'[k].opening < q.opening
      OBVIOUS
    <3>1. CASE k \in 1..Len(sorted)
      BY <2>7, <2>8, <3>1 DEF SortedOK
    <3>2. CASE k = Len(sorted) + 1
      BY <2>7, <2>8, <3>2
    <3> QED
      BY <2>8, <3>1, <3>2
  <2> QED
    BY <2>10, <2>11 DEF SortedOK
<1> QED
  BY <1>1, <1>2

LEMMA NextSorted == TagsInv /\ SortedOK /\ [Next]_vars => SortedOK'
<1> SUFFICES ASSUME TagsInv, SortedOK, [Next]_vars PROVE SortedOK'
  OBVIOUS
<1>1. CASE AddFilters \/ ScanTag \/ EndScan \/ BeginCombine \/ MatchClosing \/ EndCombine
           \/ RetrieveData \/ EndRetrieve
  <2>1. sorted' = <<>>
    BY <1>1 DEF AddFilters, ScanTag, EndScan, BeginCombine, MatchClosing, EndCombine,
       RetrieveData, EndRetrieve, TagsInv, StageOK
  <2> QED
    BY <2>1 DEF SortedOK
<1>2. CASE UNCHANGED vars \/ ExtractInfo \/ EndExtract
  <2>1. UNCHANGED <<complete, sorted>>
    BY <1>2 DEF vars, ExtractInfo, EndExtract
  <2> QED
    BY <2>1 DEF SortedOK
<1>3. CASE SortTagsById
  BY <1>3, SortStepSorted
<1> QED
  BY <1>1, <1>2, <1>3 DEF Next

LEMMA SortedAlways == Spec => []SortedOK
BY TagsAlways, InitSorted, NextSorted, PTL DEF Spec

-----------------------------------------------------------------------------
(* The entries of the page, in terms of the sorted pairs. *)

\* All pairs are sorted, and there is nothing else.
AllSorted == openings = {} /\ complete = <<>>

LEMMA HeadsAre ==
    ASSUME TagsInv, NestingInv, AllSorted
    PROVE  Heads = {sorted[k].opening : k \in DOMAIN sorted}
<1>1. Matched = Range(sorted)
  BY DEF AllSorted, Matched, Range
<1>2. \A p \in Range(sorted) : PairOK(p)
  BY <1>1 DEF TagsInv, TagsOK
<1>3. Range(sorted) = {sorted[k] : k \in DOMAIN sorted}
  BY DEF Range
<1>4. \A c \in closings : page[c].kind = "close"
  BY DEF TagsInv, TagsOK
<1>5. Tags = closings \cup {p.opening : p \in Range(sorted)} \cup {p.closing : p \in Range(sorted)}
  BY <1>1 DEF NestingInv, Held, AllSorted
<1>6. ASSUME NEW i \in Tags, page[i].kind \in {"open", "comment", "whole"}
      PROVE  \E p \in Range(sorted) : i = p.opening
  <2>1. PICK p \in Range(sorted) : i = p.opening \/ i = p.closing
    BY <1>4, <1>5, <1>6
  <2>2. \/ p.opening = p.closing
        \/ page[p.closing].kind = "close"
    BY <1>2, <2>1 DEF PairOK
  <2>3. i = p.opening
    BY <1>6, <2>1, <2>2
  <2> QED
    BY <2>1, <2>3
<1>7. ASSUME NEW i \in Heads PROVE \E p \in Range(sorted) : i = p.opening
  <2>1. i \in Tags /\ page[i].kind \in {"open", "comment", "whole"}
    <3>1. CASE \E n \in Filter : i \in Opens(n, 1, Len(page))
      BY <3>1 DEF Opens, OfName
    <3>2. CASE i \in {t \in Tags : page[t].kind = "whole"}
      BY <3>2
    <3> QED
      BY <3>1, <3>2 DEF Heads
  <2> QED
    BY <1>6, <2>1
<1>8. ASSUME NEW p \in Range(sorted) PROVE p.opening \in Heads
  <2>1. PairOK(p) /\ p.opening \in Tags /\ filters \subseteq Filter
    BY <1>2, <1>5 DEF TagsInv, StageOK
  <2>2. CASE page[p.opening].kind = "whole"
    BY <2>1, <2>2 DEF Heads
  <2>3. CASE page[p.opening].kind \in {"open", "comment"}
    <3>1. NameOf(p.opening) \in Filter /\ p.opening \in 1..Len(page)
      BY <2>1 DEF PairOK
    <3>2. p.opening \in Opens(NameOf(p.opening), 1, Len(page))
      BY <2>1, <2>3, <3>1 DEF Opens, OfName
    <3> QED
      BY <3>1, <3>2 DEF Heads
  <2> QED
    BY <2>1, <2>2, <2>3 DEF PairOK
<1> HIDE DEF Heads, Range
<1>9. Heads = {p.opening : p \in Range(sorted)}
  BY <1>7, <1>8
<1> QED
  BY <1>3, <1>9

LEMMA SortedFacts ==
    ASSUME TagsInv, NestingInv, NEW k \in DOMAIN sorted
    PROVE  /\ sorted[k] \in Matched /\ PairOK(sorted[k]) /\ sorted[k] \in Pair
           /\ Element(sorted[k].opening) = sorted[k]
<1>1. sorted[k] \in Matched
  BY DEF Matched, Range
<1>2. PairOK(sorted[k]) /\ sorted[k] \in Pair
  BY <1>1 DEF TagsInv, TagsOK, PairOK
<1>3. sorted[k].closing = Partner(sorted[k].opening)
  BY <1>1, PairsArePartners
<1>4. PICK o \in Nat, c \in Nat : sorted[k] = [opening |-> o, closing |-> c]
  BY <1>2 DEF Pair
<1>5. c = Partner(o)
  BY <1>3, <1>4
<1> QED
  BY <1>1, <1>2, <1>4, <1>5 DEF Element

LEMMA ListsAre ==
    ASSUME TagsInv, NestingInv, AllSorted
    PROVE  /\ EntryLists = {sorted[k].opening :
                            k \in {j \in DOMAIN sorted : IsList(sorted[j]) /\ HasIV(sorted[j])}}
           /\ EntryLists \subseteq 1..Len(page)
<1> DEFINE At == {j \in DOMAIN sorted : IsList(sorted[j]) /\ HasIV(sorted[j])}
<1>1. ASSUME NEW o \in EntryLists PROVE \E k \in At : o = sorted[k].opening
  <2>1. /\ o \in Tags /\ NameOf(o) = "ul" /\ page[o].kind \in {"open", "comment"}
        /\ o \in 1..Len(page) /\ HasIV(Element(o))
    BY DEF EntryLists, Opens, OfName
  <2>2. o \in Heads
    <3>1. o \in Opens("ul", 1, Len(page)) /\ "ul" \in Filter
      BY HtmlParserAssumption DEF EntryLists
    <3> QED
      BY <3>1 DEF Heads
  <2>3. PICK k \in DOMAIN sorted : o = sorted[k].opening
    BY <2>2, HeadsAre
  <2>4. Element(o) = sorted[k]
    BY <2>3, SortedFacts
  <2> QED
    BY <2>1, <2>3, <2>4 DEF IsList
<1>2. ASSUME NEW k \in At PROVE sorted[k].opening \in EntryLists
  <2> DEFINE p == sorted[k]
  <2>1. p \in Matched /\ PairOK(p) /\ Element(p.opening) = p
    BY SortedFacts
  <2>2. NameOf(p.opening) = "ul" /\ HasIV(p)
    BY DEF IsList
  <2> HIDE DEF p
  <2>3. p.opening # p.closing
    <3>1. PICK i \in p.opening..(p.closing - 1) : TRUE
      BY <2>2 DEF HasIV, TextIn
    <3>2. p.opening \in Nat /\ p.closing \in Nat
      BY <2>1 DEF PairOK, Pair
    <3> QED
      BY <3>1, <3>2
  <2>4. p.opening \in 1..Len(page) /\ page[p.opening].kind \in {"open", "comment"} /\ p.opening \in Tags
    BY <2>1, <2>3 DEF PairOK, NestingInv, Held
  <2>5. p.opening \in Opens("ul", 1, Len(page))
    BY <2>2, <2>4 DEF Opens, OfName
  <2>6. p.opening \in EntryLists
    BY <2>1, <2>2, <2>5 DEF EntryLists
  <2> QED
    BY <2>6 DEF p
<1>3. EntryLists \subseteq 1..Len(page)
  BY DEF EntryLists, Opens
<1> HIDE DEF At, EntryLists
<1>4. EntryLists = {sorted[k].opening : k \in At}
  BY <1>1, <1>2
<1> QED
  BY <1>3, <1>4 DEF At

\* The entry of a list is made from the pair and the one before it.
LEMMA EntryIs ==
    ASSUME TagsInv, NestingInv, SortedOK, AllSorted, NEW k \in 2..Len(sorted),
           Cardinality(Values(sorted[k])) >= 2
    PROVE  IsWhole(sorted[k].opening) /\ EntryOf(sorted[k].opening) = InfoOf(k)
<1>1. Len(sorted) \in Nat /\ DOMAIN sorted = 1..Len(sorted)
  <2>1. sorted \in Seq(Pair)
    BY DEF TagsInv, Apart
  <2> QED
    BY <2>1, LenProperties
<1>2. k \in DOMAIN sorted /\ k - 1 \in DOMAIN sorted /\ k - 1 < k
  BY <1>1
<1> DEFINE o == sorted[k].opening
           h == sorted[k - 1].opening
           H == {x \in Heads : x < o}
<1>3. Element(o) = sorted[k] /\ Element(h) = sorted[k - 1] /\ o \in Nat /\ h \in Nat
  BY <1>2, SortedFacts DEF Pair
<1>4. h < o
  BY <1>2 DEF SortedOK
<1>5. Heads = {sorted[j].opening : j \in DOMAIN sorted}
  BY HeadsAre
<1>6. h \in H
  BY <1>2, <1>4, <1>5
<1>7. \A x \in H : x \in Int /\ h >= x
  <2> SUFFICES ASSUME NEW x \in H PROVE x \in Int /\ h >= x
    OBVIOUS
  <2>1. PICK j \in DOMAIN sorted : x = sorted[j].opening
    BY <1>5
  <2>2. x \in Nat
    BY <2>1, SortedFacts DEF Pair
  <2>3. x < o
    OBVIOUS
  <2> HIDE DEF h, o, H
  <2>4. ~ (k < j) /\ j # k
    <3>1. k < j => o < x
      BY <1>2, <2>1 DEF SortedOK, o
    <3>2. j = k => x = o
      BY <2>1 DEF o
    <3> QED
      BY <1>3, <2>2, <2>3, <3>1, <3>2
  <2>5. j = k - 1 \/ j < k - 1
    BY <1>1, <1>2, <2>4
  <2>6. j < k - 1 => x < h
    BY <1>2, <2>1 DEF SortedOK, h
  <2>7. j = k - 1 => x = h
    BY <2>1 DEF h
  <2> QED
    BY <1>3, <2>2, <2>5, <2>6, <2>7
<1> HIDE DEF H
<1>8. Max(H) = h
  BY <1>6, <1>7, MaxIs
<1>9. IsWhole(o)
  BY <1>3, <1>6 DEF IsWhole, H
<1>10. EntryOf(o) = InfoOf(k)
  <2>1. EntryOf(o) = LET values == Values(sorted[k]) iv == Min(values)
                     IN  [section |-> sorted[k - 1], iv |-> iv, key |-> Min(values \ {iv})]
    BY <1>3, <1>8 DEF EntryOf, H
  <2> QED
    BY <2>1 DEF InfoOf
<1> QED
  BY <1>9, <1>10

-----------------------------------------------------------------------------
(* Extraction. *)

EntriesSoFar ==
    \A k \in DOMAIN infos : \E o \in EntryLists :
        /\ IsWhole(o) /\ infos[k] = EntryOf(o)
        /\ Cardinality({e \in EntryLists : e <= o}) = k

PassedLists == {e \in EntryLists : \E i \in DOMAIN sorted : i < pos /\ sorted[i].opening = e}

\* The list so far has an entry for each list that extraction has passed.
Extracted ==
    /\ EntriesSoFar
    /\ pc \in {"extract", "done"} => Len(infos) = Cardinality(PassedLists)
    /\ pc = "done" => pos = Len(sorted) + 1 \/ errorCode # "none"

LEMMA SameEntries ==
    ASSUME UNCHANGED <<page, filters, openings, closings, complete, sorted>>, Reached' = Reached
    PROVE  /\ EntryLists' = EntryLists
           /\ \A o : (IsWhole(o)' <=> IsWhole(o)) /\ EntryOf(o)' = EntryOf(o)
<1>1. Matched' = Matched
  BY DEF Matched
<1>2. Tags' = Tags
  BY <1>1 DEF Tags, TagsOfPage, TagsInComments, NameOf
<1>3. \A i : NameOf(i)' = NameOf(i)
  BY DEF NameOf
<1>4. \A n : OfName(Tags, n)' = OfName(Tags, n)
  BY <1>2, <1>3 DEF OfName
<1>5. \A n, i, j : Opens(n, i, j)' = Opens(n, i, j) /\ Closes(n, i, j)' = Closes(n, i, j)
  BY <1>4 DEF Opens, Closes
<1>6. \A n, i, j : Level(n, i, j)' = Level(n, i, j)
  BY <1>5 DEF Level
<1>7. \A o : Partner(o)' = Partner(o)
  BY <1>3, <1>5, <1>6 DEF Partner, EvenedOut
<1>8. \A o : Element(o)' = Element(o)
  BY <1>7 DEF Element
<1>9. \A p : (HasIV(p)' <=> HasIV(p)) /\ Values(p)' = Values(p)
  BY DEF HasIV, TextIn, Values
<1>10. \A o : (HasIV(Element(o))' <=> HasIV(Element(o))) /\ Values(Element(o))' = Values(Element(o))
  BY <1>8, <1>9 DEF HasIV, TextIn, Values
<1>11. EntryLists' = EntryLists
  BY <1>5, <1>10 DEF EntryLists
<1>12. Heads' = Heads
  BY <1>2, <1>5 DEF Heads
<1>13. \A o : IsWhole(o)' <=> IsWhole(o)
  BY <1>10, <1>12 DEF IsWhole
<1>14. \A o : EntryOf(o)' = EntryOf(o)
  BY <1>8, <1>10, <1>12 DEF EntryOf
<1> QED
  BY <1>11, <1>13, <1>14

LEMMA SortedSeq ==
    ASSUME TagsInv
    PROVE  DOMAIN sorted = 1..Len(sorted) /\ Len(sorted) \in Nat /\ pos \in Nat /\ pos >= 1
<1>1. sorted \in Seq(Pair) /\ pos \in 1..(Len(page) + 1) /\ Len(page) \in Nat
  BY Lengths DEF TagsInv, Apart
<1> QED
  BY <1>1, LenProperties

\* One pair of the sorted pairs is passed; if it is a list of an entry, it is added.
LEMMA Passing ==
    ASSUME TagsInv, NestingInv, SortedOK, AllSorted, pos <= Len(sorted)
    PROVE  LET o == sorted[pos].opening
               now == {e \in EntryLists : \E i \in DOMAIN sorted : i < pos + 1 /\ sorted[i].opening = e}
           IN  /\ IsFiniteSet(PassedLists)
               /\ ~ (IsList(sorted[pos]) /\ HasIV(sorted[pos])) => now = PassedLists
               /\ IsList(sorted[pos]) /\ HasIV(sorted[pos]) =>
                     /\ o \in EntryLists
                     /\ now = PassedLists \cup {o} /\ o \notin PassedLists
                     /\ now = {e \in EntryLists : e <= o}
<1> DEFINE o == sorted[pos].opening
           now == {e \in EntryLists : \E i \in DOMAIN sorted : i < pos + 1 /\ sorted[i].opening = e}
           IsEntry(k) == IsList(sorted[k]) /\ HasIV(sorted[k])
<1>1. DOMAIN sorted = 1..Len(sorted) /\ Len(sorted) \in Nat /\ pos \in 1..Len(sorted)
  BY SortedSeq
<1>2. /\ EntryLists = {sorted[k].opening : k \in {j \in DOMAIN sorted : IsEntry(j)}}
      /\ EntryLists \subseteq 1..Len(page) /\ Len(page) \in Nat
  BY ListsAre, Lengths
<1>3. \A k \in DOMAIN sorted : sorted[k].opening \in Nat
  BY SortedFacts DEF Pair
<1>4. \A j, k \in DOMAIN sorted : j < k => sorted[j].opening < sorted[k].opening
  BY DEF SortedOK
<1>5. \A j, k \in DOMAIN sorted : sorted[j].opening <= sorted[k].opening => j <= k
  BY <1>1, <1>3, <1>4
<1> HIDE DEF IsEntry
<1>6. IsFiniteSet(PassedLists)
  <2>1. IsFiniteSet(1..Len(page))
    BY <1>2, IntervalSize
  <2> QED
    BY <1>2, <2>1, FS_Subset DEF PassedLists
<1>7. now \subseteq PassedLists \cup {o} /\ PassedLists \subseteq now
  BY <1>1 DEF PassedLists
<1>8. o \in EntryLists <=> IsEntry(pos)
  <2>1. ASSUME o \in EntryLists PROVE IsEntry(pos)
    <3>1. PICK k \in DOMAIN sorted : IsEntry(k) /\ o = sorted[k].opening
      BY <1>2, <2>1
    <3>2. k <= pos /\ pos <= k
      BY <1>1, <1>3, <1>5, <3>1
    <3>3. k = pos
      BY <1>1, <3>2
    <3> QED
      BY <3>1, <3>3
  <2> QED
    BY <1>1, <1>2, <2>1
<1>9. o \notin PassedLists
  BY <1>1, <1>3, <1>4 DEF PassedLists
<1>10. ASSUME IsEntry(pos) PROVE now = PassedLists \cup {o}
  <2>1. o \in now
    BY <1>1, <1>8, <1>10
  <2> HIDE DEF now
  <2> QED
    BY <1>7, <2>1
<1>11. ASSUME IsEntry(pos) PROVE now = {e \in EntryLists : e <= o}
  <2>1. ASSUME NEW e \in now PROVE e <= o
    <3>1. PICK i \in DOMAIN sorted : i < pos + 1 /\ sorted[i].opening = e
      OBVIOUS
    <3>2. i = pos \/ i < pos
      BY <1>1, <3>1
    <3> QED
      BY <1>1, <1>3, <1>4, <3>1, <3>2
  <2>2. ASSUME NEW e \in EntryLists, e <= o PROVE e \in now
    <3>1. PICK k \in DOMAIN sorted : e = sorted[k].opening
      BY <1>2
    <3>2. k <= pos
      BY <1>1, <1>5, <2>2, <3>1
    <3>3. k < pos + 1
      BY <1>1, <3>2
    <3> QED
      BY <3>1, <3>3
  <2> QED
    BY <2>1, <2>2
<1>12. ASSUME ~ IsEntry(pos) PROVE now = PassedLists
  <2>1. o \notin now
    BY <1>8, <1>12
  <2> HIDE DEF now
  <2> QED
    BY <1>7, <2>1
<1> QED
  BY <1>6, <1>8, <1>9, <1>10, <1>11, <1>12 DEF IsEntry

LEMMA InitExtracted == Init => Extracted
<1> SUFFICES ASSUME Init PROVE Extracted
  OBVIOUS
<1>1. DOMAIN infos = {}
  BY DEF Init
<1> QED
  BY <1>1 DEF Init, Extracted, EntriesSoFar

LEMMA NoEntries ==
    ASSUME infos' = <<>>, pc' \notin {"extract", "done"}
    PROVE  Extracted'
<1>1. DOMAIN infos' = {}
  OBVIOUS
<1> QED
  BY <1>1 DEF Extracted, EntriesSoFar

LEMMA SortExtracted == TagsInv /\ SortTagsById => Extracted'
<1> SUFFICES ASSUME TagsInv, SortTagsById PROVE Extracted'
  OBVIOUS
<1>1. infos' = <<>>
  BY DEF SortTagsById, TagsInv, StageOK
<1>2. CASE complete # <<>>
  BY <1>1, <1>2, NoEntries DEF SortTagsById
<1>3. CASE complete = <<>>
  <2>1. pc' = "extract" /\ pos' = 1 /\ sorted' = sorted
    BY <1>3 DEF SortTagsById
  <2>2. DOMAIN sorted = 1..Len(sorted) /\ Len(sorted) \in Nat
    BY SortedSeq
  <2>3. PassedLists' = {}
    BY <2>1, <2>2 DEF PassedLists
  <2>4. Cardinality(PassedLists') = 0
    BY <2>3, FS_EmptySet
  <2>5. DOMAIN infos' = {} /\ Len(infos') = 0
    BY <1>1
  <2> QED
    BY <2>1, <2>4, <2>5 DEF Extracted, EntriesSoFar
<1> QED
  BY <1>2, <1>3

LEMMA SameReached ==
    ASSUME Scanned, pc' \notin {"filters", "scan"}, UNCHANGED page
    PROVE  Reached' = Reached
BY DEF Reached, Scanned, ScanEnd

LEMMA SameSoFar ==
    ASSUME EntriesSoFar, UNCHANGED <<page, filters, openings, closings, complete, sorted, infos>>,
           Reached' = Reached
    PROVE  EntriesSoFar'
<1>1. EntryLists' = EntryLists /\ \A o : (IsWhole(o)' <=> IsWhole(o)) /\ EntryOf(o)' = EntryOf(o)
  BY SameEntries
<1> QED
  BY <1>1 DEF EntriesSoFar

LEMMA ExtractExtracted ==
    TagsInv /\ NestingInv /\ SortedOK /\ Extracted /\ ExtractInfo => Extracted'
<1> SUFFICES ASSUME TagsInv, NestingInv, SortedOK, Extracted, ExtractInfo PROVE Extracted'
  OBVIOUS
<1>1. /\ pc = "extract" /\ pos <= Len(sorted)
      /\ UNCHANGED <<page, filters, openings, closings, complete, sorted, todo, filled>>
  BY DEF ExtractInfo
<1>2. AllSorted
  BY <1>1 DEF TagsInv, StageOK, AllSorted
<1>3. EntriesSoFar /\ Len(infos) = Cardinality(PassedLists)
  BY <1>1 DEF Extracted
<1>0. Reached' = Reached
  BY <1>1, SameReached DEF ExtractInfo, Scanned
<1>4. EntryLists' = EntryLists /\ \A o : (IsWhole(o)' <=> IsWhole(o)) /\ EntryOf(o)' = EntryOf(o)
  BY <1>0, <1>1, SameEntries
<1> DEFINE o == sorted[pos].opening
           now == {e \in EntryLists : \E i \in DOMAIN sorted : i < pos + 1 /\ sorted[i].opening = e}
           isEntry == IsList(sorted[pos]) /\ HasIV(sorted[pos])
<1>5. /\ IsFiniteSet(PassedLists)
      /\ ~ isEntry => now = PassedLists
      /\ isEntry => /\ o \in EntryLists
                    /\ now = PassedLists \cup {o} /\ o \notin PassedLists
                    /\ now = {e \in EntryLists : e <= o}
  BY <1>1, <1>2, Passing
<1>6. pos' = pos + 1 => PassedLists' = now
  BY <1>1, <1>4 DEF PassedLists
<1>7. pos \in Nat /\ pos >= 1 /\ Len(sorted) \in Nat /\ infos \in Seq(Info)
  BY SortedSeq DEF TagsInv, StageOK
<1>8. CASE UNCHANGED infos
  <2>1. EntriesSoFar'
    BY <1>0, <1>1, <1>3, <1>8, SameSoFar
  <2>2. CASE pc' = "extract"
    <3>1. pos' = pos + 1 /\ ~ isEntry
      <4>1. infos # Append(infos, InfoOf(pos))
        BY <1>7
      <4> QED
        BY <1>1, <1>8, <2>2, <4>1 DEF ExtractInfo
    <3>2. PassedLists' = PassedLists
      BY <1>5, <1>6, <3>1
    <3> QED
      BY <1>3, <1>8, <2>1, <2>2, <3>2 DEF Extracted
  <2>3. CASE pc' = "done"
    <3>1. pos' = pos /\ errorCode' # "none"
      BY <1>1, <2>3 DEF ExtractInfo
    <3>2. PassedLists' = PassedLists
      BY <1>1, <1>4, <3>1 DEF PassedLists
    <3> QED
      BY <1>3, <1>8, <2>1, <2>3, <3>1, <3>2 DEF Extracted
  <2>4. CASE pc' \notin {"extract", "done"}
    BY <2>1, <2>4 DEF Extracted
  <2> QED
    BY <2>2, <2>3, <2>4
<1>9. CASE /\ isEntry /\ Readable(pos) /\ Cardinality(Values(sorted[pos])) >= 2
           /\ infos' = Append(infos, InfoOf(pos)) /\ pos' = pos + 1 /\ pc' = pc
  <2>1. pos \in 2..Len(sorted)
    BY <1>1, <1>7, <1>9 DEF Readable
  <2>2. IsWhole(o) /\ EntryOf(o) = InfoOf(pos)
    BY <1>2, <1>9, <2>1, EntryIs
  <2> DEFINE new == InfoOf(pos)
             n == Len(infos)
  <2>3. new \in Info
    BY <1>9, <2>1, InfoFacts
  <2> HIDE DEF o, new, now, isEntry
  <2>4. Cardinality(now) = n + 1
    <3>1. Cardinality(PassedLists \cup {o}) = Cardinality(PassedLists) + 1
      BY <1>5, <1>9, FS_AddElement
    <3> QED
      BY <1>3, <1>5, <1>9, <3>1
  <2>5. /\ n \in Nat /\ DOMAIN infos = 1..n /\ DOMAIN infos' = 1..(n + 1) /\ Len(infos') = n + 1
        /\ infos'[n + 1] = new /\ \A k \in 1..n : infos'[k] = infos[k]
    <3>1. infos' = Append(infos, new)
      BY <1>9 DEF new
    <3> QED
      BY <1>7, <2>3, <3>1
  <2> HIDE DEF n
  <2>6. EntriesSoFar'
    <3> SUFFICES ASSUME NEW k \in 1..(n + 1)
                 PROVE  \E x \in EntryLists : /\ IsWhole(x) /\ infos'[k] = EntryOf(x)
                                              /\ Cardinality({e \in EntryLists : e <= x}) = k
      BY <1>4, <2>5 DEF EntriesSoFar
    <3>1. CASE k \in 1..n
      BY <1>3, <2>5, <3>1 DEF EntriesSoFar
    <3>2. CASE k = n + 1
      <4>1. infos'[k] = EntryOf(o)
        BY <2>2, <2>5, <3>2 DEF new
      <4>2. o \in EntryLists /\ Cardinality({e \in EntryLists : e <= o}) = k
        BY <1>5, <1>9, <2>4, <3>2
      <4> QED
        BY <2>2, <4>1, <4>2
    <3>3. k \in 1..n \/ k = n + 1
      BY <2>5
    <3> QED
      BY <3>1, <3>2, <3>3
  <2>7. Len(infos') = Cardinality(PassedLists')
    BY <1>6, <1>9, <2>4, <2>5
  <2> QED
    BY <1>1, <1>9, <2>6, <2>7 DEF Extracted
<1> QED
  <2>1. \/ UNCHANGED infos
        \/ /\ isEntry /\ Readable(pos) /\ Cardinality(Values(sorted[pos])) >= 2
           /\ infos' = Append(infos, InfoOf(pos)) /\ pos' = pos + 1 /\ pc' = pc
    BY DEF ExtractInfo
  <2> QED
    BY <1>8, <1>9, <2>1

LEMMA EndExtracted == TagsInv /\ Extracted /\ EndExtract => Extracted'
<1> SUFFICES ASSUME TagsInv, Extracted, EndExtract PROVE Extracted'
  OBVIOUS
<1>1. /\ pc = "extract" /\ pc' = "done" /\ pos > Len(sorted) /\ pos <= Len(sorted) + 1
      /\ UNCHANGED <<page, filters, openings, closings, complete, sorted, infos, pos>>
  BY DEF EndExtract, TagsInv, StageOK
<1>0. Reached' = Reached
  BY <1>1, SameReached DEF Scanned
<1>2. EntriesSoFar'
  BY <1>0, <1>1, SameSoFar DEF Extracted
<1>3. EntryLists' = EntryLists
  BY <1>0, <1>1, SameEntries
<1>4. PassedLists' = PassedLists
  BY <1>1, <1>3 DEF PassedLists
<1>5. pos' = Len(sorted') + 1
  BY <1>1, SortedSeq
<1> QED
  BY <1>1, <1>2, <1>4, <1>5 DEF Extracted

LEMMA NextExtracted ==
    TagsInv /\ NestingInv /\ SortedOK /\ Extracted /\ [Next]_vars => Extracted'
<1> SUFFICES ASSUME TagsInv, NestingInv, SortedOK, Extracted, [Next]_vars PROVE Extracted'
  OBVIOUS
<1>1. CASE AddFilters \/ ScanTag \/ EndScan \/ BeginCombine \/ MatchClosing \/ EndCombine
           \/ RetrieveData \/ EndRetrieve
  <2>1. infos' = <<>> /\ pc' \notin {"extract", "done"}
    BY <1>1 DEF AddFilters, ScanTag, EndScan, BeginCombine, MatchClosing, EndCombine,
       RetrieveData, EndRetrieve, TagsInv, StageOK
  <2> QED
    BY <2>1, NoEntries
<1>2. CASE UNCHANGED vars
  <2>0. Reached' = Reached
    BY <1>2 DEF vars, Reached, Scanned, ScanEnd
  <2>1. EntriesSoFar'
    BY <1>2, <2>0, SameSoFar DEF vars, Extracted
  <2>2. PassedLists' = PassedLists
    BY <1>2, <2>0, SameEntries DEF vars, PassedLists
  <2> QED
    BY <1>2, <2>1, <2>2 DEF vars, Extracted
<1>3. CASE SortTagsById \/ ExtractInfo \/ EndExtract
  BY <1>3, SortExtracted, ExtractExtracted, EndExtracted
<1> QED
  BY <1>1, <1>2, <1>3 DEF Next

LEMMA ExtractedEntries ==
    TagsInv /\ NestingInv /\ SortedOK /\ Extracted => EntriesOfPage
<1> SUFFICES ASSUME TagsInv, NestingInv, SortedOK, Extracted PROVE EntriesOfPage
  OBVIOUS
<1>1. ASSUME pc = "done", errorCode = "none" PROVE Len(infos) = Cardinality(EntryLists)
  <2>1. pos = Len(sorted) + 1 /\ AllSorted
    BY <1>1 DEF Extracted, TagsInv, StageOK, AllSorted
  <2>2. DOMAIN sorted = 1..Len(sorted) /\ Len(sorted) \in Nat
    BY SortedSeq
  <2>3. \A e \in EntryLists : \E i \in DOMAIN sorted : sorted[i].opening = e
    BY <2>1, ListsAre
  <2>4. PassedLists = EntryLists
    BY <2>1, <2>2, <2>3 DEF PassedLists
  <2> QED
    BY <1>1, <2>4 DEF Extracted
<1> QED
  BY <1>1 DEF EntriesOfPage, Extracted, EntriesSoFar

\* For any page without tags in comments, read with all its filters: what extraction
\* yields is the entries of the page by its nesting alone, in order, each with the name
\* before its list and its list's own IV and key; all of them when nothing went wrong.
THEOREM EntriesOfPageAlways == Spec => []EntriesOfPage
<1>1. Spec => []Extracted
  BY TagsAlways, NestingAlways, SortedAlways, InitExtracted, NextExtracted, PTL DEF Spec
<1> QED
  BY <1>1, TagsAlways, NestingAlways, SortedAlways, ExtractedEntries, PTL
=============================================================================
