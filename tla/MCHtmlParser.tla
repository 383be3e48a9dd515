---------------------------- MODULE MCHtmlParser ----------------------------
(* Pages for the runs of TLC: sequences of fragments of key pages, well    *)
(* formed and not; two of any kind, three of the kinds whose order matters *)
(* to CombineTags.                                                         *)
EXTENDS HtmlParser

Open(n, text) == [kind |-> "open", name |-> n, text |-> text]
Close(n) == [kind |-> "close", name |-> n, text |-> "none"]
Whole(n) == [kind |-> "whole", name |-> n, text |-> "none"]
Comment(n) == [kind |-> "comment", name |-> n, text |-> "none"]
Cut == [kind |-> "cut", name |-> NoName, text |-> "none"]

Area == <<Open("span", "words"), Close("span")>>
LinkedArea == <<Open("span", "none"), Open("a", "words"), Close("a"), Close("span")>>
Values2(first, second) ==
    <<Open("ul", "none"), Open("li", first), Close("li"), Open("li", second), Close("li"), Close("ul")>>
Entry == Area \o Values2("iv", "key")
Plain == <<Open("ul", "none"), Open("li", "words"), Close("li"), Close("ul")>>
Nested == <<Open("ul", "words")>> \o Entry \o <<Close("ul")>>

\* Entries, plain and nested lists; a tag without its end, and an end without its tag.
Structure == {Entry, Plain, Nested, <<Open("span", "words")>>, <<Close("li")>>}

Fragments ==
    Structure \cup
    {LinkedArea \o Values2("iv", "key"),
     Area \o Values2("iv", "words"), Area \o Values2("iv label", "key"),
     <<Whole("a")>>, <<Open("b", "words"), Close("b")>>, <<Cut>>, <<Comment("ul")>>,
     \* texts that give a tag no data
     <<Open("span", "blank"), Close("span")>>, <<Open("a", "limit"), Close("a")>>,
     <<Open("li", "huge"), Close("li")>>}

MCPages == {FlattenSeq(s) : s \in BoundedSeq(Fragments, 2) \cup [1..3 -> Structure]}
MCNames == {"a", "li", "span", "ul", "b"}
MCFilters == {"a", "li", "span", "ul"}
=============================================================================
