----------------------------- MODULE MCImg3File -----------------------------
(* Files for the runs of TLC.  A file is built of chunks, each its length  *)
(* and the headers in it, and main lists the offsets where chunks begin.   *)
(* A header has three words, that of the file four, and the data one or    *)
(* two.                                                                    *)
EXTENDS Img3File, SequencesExt

H(magic, total, data) == [magic |-> magic, totalLength |-> total, dataLength |-> data]
Alone(magic, total, data) == [length |-> total, headers |-> 0 :> H(magic, total, data)]

\* A certificate has sections inside.
Certificate ==
    [length |-> 10, headers |-> 0 :> H("CERT", 10, 7) @@ 3 :> H("Img3", 7, 4) @@ 6 :> H("DATA", 4, 1)]
\* A section of an unknown type is not passed as a whole: what is inside is found.
Unknown == [length |-> 8, headers |-> 0 :> H("RAND", 8, 5) @@ 3 :> H("TYPE", 5, 2)]
Padding == [length |-> 1, headers |-> <<>>]

Chunks ==
    {Alone("DATA", 5, 2), Alone("DATA", 6, 2), Alone("DATA", 3, 0),  \* plain, padded, empty
     Alone("TYPE", 5, 1), Alone("KBAG", 4, 1), Alone("RAND", 4, 1),
     Certificate, Unknown, Padding}

LengthOf(chunks) == FoldLeft(LAMBDA n, c : n + c.length, 0, chunks)
At(chunks, k) == 4 + LengthOf(SubSeq(chunks, 1, k - 1))

FileOf(chunks, base) ==
    [length |-> 4 + LengthOf(chunks),
     headers |-> FoldLeft(LAMBDA h, k : h @@ [o \in {At(chunks, k) + i : i \in DOMAIN chunks[k].headers}
                                                |-> chunks[k].headers[o - At(chunks, k)]],
                          0 :> base, [k \in DOMAIN chunks |-> k]),
     main |-> {At(chunks, k) : k \in DOMAIN chunks}]

Whole(chunks) == FileOf(chunks, H("Img3", 4 + LengthOf(chunks), LengthOf(chunks)))

\* Cut off, of another kind, no firmware at all, and empty.
Broken ==
    {FileOf(<<Alone("DATA", 5, 2)>>, H("Img3", 20, 16)),
     FileOf(<<Alone("DATA", 5, 2)>>, H("DATA", 9, 5)), FileOf(<<>>, H("DATA", 4, 5)),
     FileOf(<<Alone("DATA", 5, 2)>>, H("Img3", 9, 10)),
     [length |-> 5, headers |-> <<>>, main |-> {}], [length |-> 0, headers |-> <<>>, main |-> {}]}

\* Sections that give too short a length for their data or for their header, none at
\* all, one that leads over 2^32 to just before the section, and data behind the file.
Wrong ==
    {Alone("TYPE", 1, 0), [Alone("DATA", 2, 2) EXCEPT !.length = 5],
     [Alone("DATA", 0, 1) EXCEPT !.length = 4], [Alone("KBAG", 0, 0) EXCEPT !.length = 3],
     [Alone("TYPE", Wrap - 2, 1) EXCEPT !.length = 4], [Alone("DATA", 40, 37) EXCEPT !.length = 4],
     [Alone("TYPE", 3, 5) EXCEPT !.length = 8]}

\* The chunks whose order matters most.
Few == {Alone("DATA", 5, 2), Alone("DATA", 6, 2), Alone("RAND", 4, 1), Certificate, Padding}

Sound == {Whole(chunks) : chunks \in BoundedSeq(Chunks, 2) \cup [1..3 -> Few]}
Unsound ==
    {Whole(chunks) : chunks \in {<<w>> : w \in Wrong} \cup {<<w, c>> : w \in Wrong, c \in Few \cup Wrong}
                                \cup {<<c, w>> : w \in Wrong, c \in Few}}

MCFile == Sound \cup Unsound \cup Broken
MCKnown == {"DATA", "TYPE", "KBAG", "CERT"}
MCOther == {"Img3", "RAND"}

\* DataIsPayload and ParseEnds are about these files, but the last also about others.
ASSUME MCWellFormed == \A f \in Sound : IsImg3(f) /\ WellFormed(f) /\ Readable(f)
ASSUME MCOthers == \E f \in Unsound : IsImg3(f) /\ Readable(f) /\ ~WellFormed(f)

\* No file whose sections all have a length has as many as MaxSections.
ASSUME MCMaxSections == \A f \in File : f.length < MaxSections * 4
=============================================================================
