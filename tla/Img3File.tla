------------------------------ MODULE Img3File ------------------------------
(***************************************************************************)
(* The sections of firmware files: sections/IMG3_FileInterface.cpp and     *)
(* IMG3_FileSection.cpp.  One IMG3_FileInterface parses one file after the *)
(* other, as the loops of DecryptIMG3File and PatchKernelFile do.          *)
(*                                                                         *)
(* A file is its length and the section headers that stand in it, by their *)
(* offsets, wherever they stand: main sections, sections inside others,    *)
(* and those of types the program does not know.  The rest is payload.     *)
(* What a header gives as its lengths is not checked, and can be anything. *)
(* Lengths and offsets are counted in words, and headers begin on words.   *)
(***************************************************************************)
EXTENDS Integers, Sequences, FiniteSets

CONSTANTS
    File,       \* the files that can be parsed
    Known,      \* magic values of the sections ParseFile looks for
    Other,      \* magic values it does not look for, that of the file itself among them
    Base,       \* IMG3_MAGIC
    Data,       \* IMG3_DATA_MAGIC
    HeaderSize, \* sizeof(IMG3_Generic_Header)
    Wrap,       \* offsets and lengths are uint32_t: the words in 2^32 bytes
    MaxFiles,   \* bound: files parsed by one object
    MaxSections \* bound: sections listed, before a list that does not end is left

Magic == Known \cup Other
Word == 0..(Wrap - 1)
Header == [magic: Magic, totalLength: Word, dataLength: Word]

ASSUME Img3FileAssumption ==
    /\ Known \cap Other = {}
    /\ Data \in Known /\ Base \in Other
    /\ HeaderSize \in Nat \ {0}
    /\ Wrap \in Nat \ {0}
    /\ MaxFiles \in Nat /\ MaxSections \in Nat
    /\ \A f \in File :
          /\ f.length \in Word
          /\ DOMAIN f.headers \subseteq Nat
          /\ \A o \in DOMAIN f.headers : f.headers[o] \in Header

VARIABLES
    file,       \* fileData: the file that is being parsed, or was last
    parsed,     \* the files parsed so far
    pc, result, \* "loop" inside ParseFile; what it returned
    sections,
    currOffset

vars == <<file, parsed, pc, result, sections, currOffset>>

NoFile == [length |-> 0, headers |-> <<>>]
NoData == [offset |-> 0, length |-> 0]

\* original is the file and the offset the header was read at; data is the part
\* of that file the copy was made of.
Section == [header: Header, original: [file: Nat, offset: Nat], data: [offset: Nat, length: Nat]]

\* A header of one of these types stands here.
Tag(f, offset, magics) == offset \in DOMAIN f.headers /\ f.headers[offset].magic \in magics

Init ==
    /\ file = NoFile
    /\ parsed = 0
    /\ pc = "idle"
    /\ result = "none"
    /\ sections = <<>>
    /\ currOffset = 0

-----------------------------------------------------------------------------
(* ParseSection *)

\* What GetSectionHeaderLength returns, in unsigned arithmetic.
HeaderLength(h) == (h.totalLength - h.dataLength) % Wrap

\* Mutant: the data of every section is taken to end it.
DataOffset_fromEnd(h) == HeaderLength(h)

\* Where the data begins behind the start of its section.
DataOffset(h) == IF h.magic = Data THEN HeaderSize ELSE HeaderLength(h)

\* The data to copy is not all in the file.
Over(f, offset) ==
    LET h == f.headers[offset] IN
    h.magic # Base /\ h.dataLength # 0 /\ offset + DataOffset(h) + h.dataLength > f.length

ParseSection(f, offset, nth) ==
    LET h == f.headers[offset] IN
    [header |-> h,
     original |-> [file |-> nth, offset |-> offset],
     data |-> IF h.magic = Base \/ h.dataLength = 0 THEN NoData
              ELSE [offset |-> offset + DataOffset(h), length |-> h.dataLength]]

(* ParseFile *)

\* What the file begins with: an Img3 header that gives the file's own length.
IsImg3(f) == Tag(f, 0, {Base}) /\ f.headers[0].totalLength = f.length

\* ParseFile is given file f: the first one, or the next after one that was parsed
\* (a file that cannot be parsed ends the command).
Given(f) ==
    /\ pc = "idle" /\ result # "failed"
    /\ parsed < MaxFiles
    /\ parsed' = parsed + 1
    /\ file' = f

\* An empty file is refused before the list of the file before is cleared.
RefuseEmpty(f) ==
    /\ Given(f)
    /\ f.length = 0
    /\ result' = "failed"
    /\ UNCHANGED <<pc, sections, currOffset>>

\* Mutant: the list is not cleared.
Refuse_kept(f) ==
    /\ Given(f)
    /\ f.length # 0 /\ ~IsImg3(f)
    /\ result' = "failed"
    /\ UNCHANGED <<pc, sections, currOffset>>

\* The sections of the file before are deleted, and the first header is not right.
Refuse(f) ==
    /\ Given(f)
    /\ f.length # 0 /\ ~IsImg3(f)
    /\ sections' = <<>>
    /\ result' = "failed"
    /\ UNCHANGED <<pc, currOffset>>

\* The first header is that of a section whose data is copied from behind the file.
RefuseCrash(f) ==
    /\ Given(f)
    /\ f.length # 0 /\ Tag(f, 0, Known) /\ Over(f, 0)
    /\ sections' = <<>>
    /\ pc' = "crashed" /\ result' = "none"
    /\ UNCHANGED currOffset

\* Mutant: the Img3 header is not listed.
BeginParse_unlisted(f) ==
    /\ Given(f)
    /\ f.length # 0 /\ IsImg3(f)
    /\ sections' = <<>>
    /\ currOffset' = HeaderLength(f.headers[0])
    /\ pc' = "loop" /\ result' = "none"

\* The sections of the file before are deleted, and the Img3 header is listed.
BeginParse(f) ==
    /\ Given(f)
    /\ f.length # 0 /\ IsImg3(f)
    /\ sections' = <<ParseSection(f, 0, parsed')>>
    /\ currOffset' = HeaderLength(f.headers[0])
    /\ pc' = "loop" /\ result' = "none"

\* Mutant: the offset is moved by the length of the data.
AddSection_byData ==
    /\ pc = "loop"
    /\ currOffset < file.length
    /\ Tag(file, currOffset, Known)
    /\ Len(sections) < MaxSections
    /\ sections' = Append(sections, ParseSection(file, currOffset, parsed))
    /\ currOffset' = (currOffset + file.headers[currOffset].dataLength + 1) % Wrap
    /\ UNCHANGED <<file, parsed, pc, result>>

\* A tag ParseFile looks for: the section is parsed, listed, and passed by the length
\* it gives, which may be none, or lead back over 2^32.
AddSection ==
    /\ pc = "loop"
    /\ currOffset < file.length
    /\ Tag(file, currOffset, Known)
    /\ Len(sections) < MaxSections
    /\ sections' = Append(sections, ParseSection(file, currOffset, parsed))
    /\ currOffset' = (currOffset + file.headers[currOffset].totalLength) % Wrap
    /\ UNCHANGED <<file, parsed, pc, result>>

\* There is no memory for the copy of the data: what was listed stays listed.
SectionFails ==
    /\ pc = "loop"
    /\ currOffset < file.length
    /\ Tag(file, currOffset, Known)
    /\ file.headers[currOffset].dataLength # 0
    /\ pc' = "idle" /\ result' = "failed"
    /\ UNCHANGED <<file, parsed, sections, currOffset>>

\* The data is copied from behind the file, where there may be nothing to read.
SectionCrash ==
    /\ pc = "loop"
    /\ currOffset < file.length
    /\ Tag(file, currOffset, Known)
    /\ Over(file, currOffset)
    /\ pc' = "crashed"
    /\ UNCHANGED <<file, parsed, result, sections, currOffset>>

\* Mutant: the scan moves two words at a time.
Skip_two ==
    /\ pc = "loop"
    /\ currOffset < file.length
    /\ ~Tag(file, currOffset, Known)
    /\ currOffset' = currOffset + 2
    /\ UNCHANGED <<file, parsed, pc, result, sections>>

\* Mutant: the offset is not moved.
Skip_stuck ==
    /\ pc = "loop"
    /\ currOffset < file.length
    /\ ~Tag(file, currOffset, Known)
    /\ UNCHANGED vars

\* Anything else is passed bit by bit, sections of other types included.
Skip ==
    /\ pc = "loop"
    /\ currOffset < file.length
    /\ ~Tag(file, currOffset, Known)
    /\ currOffset' = currOffset + 1
    /\ UNCHANGED <<file, parsed, pc, result, sections>>

EndParse ==
    /\ pc = "loop"
    /\ currOffset >= file.length
    /\ pc' = "idle" /\ result' = "ok"
    /\ UNCHANGED <<file, parsed, sections, currOffset>>

\* GetSectionData and GetSectionDataLength: the first section of a type.
FirstOfType(magic) ==
    LET found == {k \in DOMAIN sections : sections[k].header.magic = magic}
    IN  sections[CHOOSE k \in found : \A j \in found : k <= j]
GetSectionData(magic) == FirstOfType(magic).data
GetSectionDataLength(magic) == FirstOfType(magic).header.dataLength

-----------------------------------------------------------------------------
ParseFile == AddSection \/ SectionFails \/ SectionCrash \/ Skip \/ EndParse

Next ==
    \/ \E f \in File : RefuseEmpty(f) \/ Refuse(f) \/ RefuseCrash(f) \/ BeginParse(f)
    \/ ParseFile

Spec == Init /\ [][Next]_vars

\* A call of ParseFile runs on; no file has to be given to it.
FairSpec == Spec /\ WF_vars(ParseFile)

-----------------------------------------------------------------------------
TypeOK ==
    /\ file \in File \cup {NoFile}
    /\ parsed \in 0..MaxFiles
    /\ pc \in {"idle", "loop", "crashed"}
    /\ result \in {"none", "ok", "failed"}
    /\ sections \in Seq(Section)
    /\ pc = "loop" => result = "none" /\ sections # <<>> /\ IsImg3(file)
    /\ currOffset \in Word

(* ----- Properties ------------------------------------------------------ *)

Offset(k) == sections[k].original.offset
End(k) == Offset(k) + sections[k].header.totalLength
Start == HeaderLength(file.headers[0])

\* No section leads over 2^32, back into what was read.
InWidth(f) == \A o \in DOMAIN f.headers : Tag(f, o, Known) => o + f.headers[o].totalLength < Wrap

\* Also when ParseFile gives up, in the middle or at the first header, the list has
\* no section of an earlier file, whose memory is unmapped, and every section in it
\* is what stands in this file at its offset.  (An empty file leaves the list alone.)
OnlyThisFile ==
    file.length # 0 => \A k \in DOMAIN sections :
        /\ sections[k].original.file = parsed
        /\ Offset(k) \in DOMAIN file.headers
        /\ sections[k].header = file.headers[Offset(k)]

\* "We are not concerned with these internal sections": behind the Img3 header the
\* sections of the list follow one another in the file, and none begins within the
\* length another gives, however short or long those lengths are (a section of length
\* zero is listed again), as long as they do not lead over 2^32.
MainSectionsOnly ==
    file.length # 0 /\ InWidth(file) =>
    /\ \A k \in 2..Len(sections) : Start <= Offset(k) /\ End(k) <= currOffset
    /\ \A j, k \in 2..Len(sections) : j < k => End(j) <= Offset(k)

\* Wherever the headers stand and whatever lies between them, no tag that ParseFile
\* looks for is passed without a section of the list that begins at or contains it,
\* whatever lengths the headers give.
NoTagMissed ==
    file.length # 0 /\ sections # <<>> =>
        \A o \in DOMAIN file.headers :
            Start <= o /\ o < currOffset /\ Tag(file, o, Known) =>
                \E k \in 2..Len(sections) : Offset(k) <= o /\ o < End(k)

\* A firmware file as they are made.  Its main sections, main, lie behind the Img3
\* header and not in one another, and are as long as their header and data; what else
\* stands in the file lies within one of them, and a DATA section within one of a type
\* that is passed as a whole.
WellFormed(f) ==
    LET main == {o \in f.main : Tag(f, o, Magic)}
        After(o) == o + f.headers[o].totalLength
    IN  /\ \A o \in DOMAIN f.headers : Tag(f, o, Known) =>
              f.headers[o].dataLength + HeaderSize <= f.headers[o].totalLength
        /\ \A o \in main : After(o) < Wrap
        /\ \A o \in main : o < f.length /\ HeaderLength(f.headers[0]) <= o
        /\ \A o, p \in main : o < p => After(o) <= p
        /\ \A o \in DOMAIN f.headers \ main : Tag(f, o, Known) =>
               \E m \in main : /\ m < o /\ After(o) <= After(m)
                               /\ Tag(f, o, {Data}) => Tag(f, m, Known)

\* The DATA section the commands go on with is the first in the file, and what was
\* copied is its payload, not the padding that may follow it, in the length that
\* GetSectionDataLength reports for it.
DataIsPayload ==
    result = "ok" /\ WellFormed(file) =>
    LET places == {o \in DOMAIN file.headers : Tag(file, o, {Data}) /\ o \in file.main}
        first == CHOOSE o \in places : \A p \in places : o <= p
    IN  places # {} =>
            /\ GetSectionDataLength(Data) = file.headers[first].dataLength
            /\ GetSectionData(Data).length = GetSectionDataLength(Data)
            /\ GetSectionDataLength(Data) > 0 => GetSectionData(Data).offset = first + HeaderSize

\* A file in which every section has a length, its data is in the file, and none leads
\* over 2^32.
Readable(f) ==
    /\ InWidth(f)
    /\ \A o \in DOMAIN f.headers : Tag(f, o, Known) => f.headers[o].totalLength > 0 /\ ~Over(f, o)

\* On such a file, whatever else is wrong with its lengths, ParseFile comes to an end.
\* (A section of length zero keeps it for ever.)
ParseEnds == pc = "loop" /\ Readable(file) ~> pc = "idle"
=============================================================================
