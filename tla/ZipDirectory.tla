---------------------------- MODULE ZipDirectory ----------------------------
(***************************************************************************)
(* AnalyzeFile of compression/IMG3_ZipInterface.cpp: the search for the    *)
(* end of the central directory in the last bytes of a file, and the walk  *)
(* over the records of the directory.                                      *)
(*                                                                         *)
(* A file is its length and, by their offsets, the end markers and the     *)
(* record headers that stand in it, whether they are meant as such or are  *)
(* bytes of a comment or of a member.                                      *)
(***************************************************************************)
EXTENDS Integers, Sequences, FiniteSets, FiniteSetsExt, Functions

CONSTANTS
    Layout,      \* file -> its length, its end markers ("ends") and its headers ("records")
    Window,      \* ZIP_BUFFER_SIZE
    EndSize,     \* length of the end of a directory, without a comment
    RecordSize,  \* length of a record's header
    Behind,      \* what an end can be taken for that the file's end cuts off
    MaxZipFaults \* bound: reads that fail

Size(r) == RecordSize + r.nameLength + r.extraLength + r.commentLength

ASSUME ZipAssumption ==
    /\ {Window, EndSize, RecordSize, MaxZipFaults} \subseteq Nat
    /\ 4 <= RecordSize /\ 4 <= EndSize /\ EndSize <= Window
    /\ \A e \in Behind : {e.total, e.size, e.offset} \subseteq Nat
    /\ \A f \in DOMAIN Layout :
          /\ Layout[f].length \in Nat
          /\ DOMAIN Layout[f].ends \subseteq 0..Layout[f].length - 4
          /\ DOMAIN Layout[f].records \subseteq 0..Layout[f].length - 4
          /\ \A e \in Range(Layout[f].ends) : {e.total, e.size, e.offset} \subseteq Nat
          /\ \A r \in Range(Layout[f].records) :
                {r.nameLength, r.extraLength, r.commentLength} \subseteq Nat

VARIABLES
    zip,        \* the state of an IMG3_ZipInterface, and of AnalyzeFile
    zipFaults

zipVars == <<zip, zipFaults>>

(* zip.at and zip.offset are the number and the place of the next record.  *)
NoEnd == [total |-> 0, size |-> 0, offset |-> 0]
NoZip == [pc |-> "idle", file |-> "none", end |-> NoEnd, at |-> 0, offset |-> 0,
          nodes |-> <<>>, files |-> <<>>, error |-> "none"]

ZipInit == zip = NoZip /\ zipFaults = 0

-----------------------------------------------------------------------------
File == Layout[zip.file]

ZipCalm == UNCHANGED zipFaults
ZipFault == zipFaults < MaxZipFaults /\ zipFaults' = zipFaults + 1

ZipFails(error) == zip' = [zip EXCEPT !.pc = "failed", !.error = error]

\* A new object opens the file.
AnalyzeFile(f) ==
    /\ zip.pc = "idle"
    /\ \/ /\ f \in DOMAIN Layout
          /\ zip' = [NoZip EXCEPT !.pc = "find", !.file = f]
          /\ ZipCalm
       \/ /\ f \in DOMAIN Layout => ZipFault
          /\ f \notin DOMAIN Layout => ZipCalm
          /\ zip' = [NoZip EXCEPT !.pc = "failed", !.file = f, !.error = "system"]

\* The end markers in the part that is read.
EndsInWindow(f) == {o \in DOMAIN f.ends : o >= f.length - Window}

\* The first of them counts.  When the file goes on for less than an end, what is
\* behind the buffer in memory is taken for the rest.
FindCentralDirectoryEnd ==
    /\ zip.pc = "find"
    /\ LET places == EndsInWindow(File)
           place == Min(places)
       IN
       \/ /\ places # {}
          /\ \E e \in IF place + EndSize <= File.length THEN {File.ends[place]} ELSE Behind :
                zip' = [zip EXCEPT !.pc = "open", !.end = e]
          /\ ZipCalm
       \/ places = {} /\ ZipFails("not a zip") /\ ZipCalm
       \/ ZipFails("not a zip") /\ ZipFault

\* The records are read as a whole: nothing, or more than there is, cannot be read.
OpenDirectory ==
    /\ zip.pc = "open"
    /\ LET readable == zip.end.size > 0 /\ zip.end.offset + zip.end.size <= File.length IN
       \/ readable /\ zip' = [zip EXCEPT !.pc = "records"] /\ ZipCalm
       \/ ~readable /\ ZipFails("no directory") /\ ZipCalm
       \/ readable /\ ZipFails("no directory") /\ ZipFault

\* Mutant: the comment of a record is not passed over.
RecordEnd_noComment(r) == zip.offset + RecordSize + r.nameLength + r.extraLength

RecordEnd(r) == zip.offset + Size(r)

Place == zip.end.offset + zip.offset
HeaderRead ==
    /\ Place \in DOMAIN File.records
    /\ zip.offset + RecordSize <= zip.end.size

\* Mutant: a record may run over the end of the directory.
ReadRecord_over ==
    /\ zip.pc = "records"
    /\ zip.at < zip.end.total
    /\ HeaderRead
    /\ LET r == File.records[Place] IN
       zip' = [zip EXCEPT !.at = @ + 1, !.offset = RecordEnd(r),
                          !.nodes = Append(@, r.name), !.files = Append(@, r.name)]
    /\ ZipCalm

ReadRecord ==
    /\ zip.pc = "records"
    /\ zip.at < zip.end.total
    /\ HeaderRead
    /\ LET r == File.records[Place] IN
       /\ RecordEnd(r) <= zip.end.size
       /\ zip' = [zip EXCEPT !.at = @ + 1, !.offset = RecordEnd(r),
                             !.nodes = Append(@, r.name), !.files = Append(@, r.name)]
    /\ ZipCalm

\* No marker where a record should be, a header that the directory does not hold, or a
\* record that runs over its end.  What is behind the directory in memory makes no
\* difference: a record that is taken from there runs over the end as well.  The nodes
\* are dropped, the names of the files are kept.  The node at hand is deleted, and
\* before the first record it is not set.
TraversalError ==
    /\ zip.pc = "records"
    /\ zip.at < zip.end.total
    /\ HeaderRead => RecordEnd(File.records[Place]) > zip.end.size
    /\ \/ zip' = [zip EXCEPT !.pc = "failed", !.error = "no directory", !.nodes = <<>>,
                             !.files = IF HeaderRead THEN Append(@, File.records[Place].name) ELSE @]
       \/ zip.at = 0 /\ ~HeaderRead /\ zip' = [zip EXCEPT !.pc = "crashed"]
    /\ ZipCalm

EndRecords ==
    /\ zip.pc = "records"
    /\ zip.at >= zip.end.total
    /\ zip' = [zip EXCEPT !.pc = "listed"]
    /\ ZipCalm

ZipNext ==
    \/ FindCentralDirectoryEnd \/ OpenDirectory
    \/ ReadRecord \/ TraversalError \/ EndRecords

-----------------------------------------------------------------------------
ZipTypeOK ==
    /\ zip.pc \in {"idle", "find", "open", "records", "listed", "failed", "crashed"}
    /\ zip.error \in {"none", "system", "not a zip", "no directory"}
    /\ zip.pc = "failed" <=> zip.error # "none"
    /\ zip.at \in Nat /\ Len(zip.nodes) \in {0, zip.at} /\ Len(zip.files) \in zip.at..zip.at + 1
    /\ zip.pc \notin {"idle", "failed"} => zip.offset <= zip.end.size
    /\ zipFaults \in 0..MaxZipFaults

(* ----- What the file holds, apart from how it is read ------------------ *)

\* The offsets behind an end's directory at which records follow one another, as many
\* as the end says, and fill the directory.
IsDirectory(f, e, offsets) ==
    /\ Len(offsets) = e.total /\ e.total > 0
    /\ offsets[1] = e.offset
    /\ Range(offsets) \subseteq DOMAIN f.records
    /\ \A i \in 1..e.total :
          offsets[i] + Size(f.records[offsets[i]]) =
             IF i = e.total THEN e.offset + e.size ELSE offsets[i + 1]

Directories(f, e) ==
    {offsets \in UNION {[1..n -> DOMAIN f.records] : n \in 0..Cardinality(DOMAIN f.records)} :
        IsDirectory(f, e, offsets)}

InReach(f) == {o \in DOMAIN f.ends : o + Window >= f.length}

\* An archive with one end marker in reach, whose directory is whole.
Intact(f) ==
    \E o \in DOMAIN f.ends :
        /\ InReach(f) = {o} /\ o + EndSize <= f.length
        /\ f.ends[o].offset + f.ends[o].size <= o
        /\ Directories(f, f.ends[o]) # {}

Names(f) ==
    LET end == f.ends[CHOOSE o \in InReach(f) : TRUE]
        offsets == CHOOSE s \in Directories(f, end) : TRUE
    IN  [i \in DOMAIN offsets |-> f.records[offsets[i]].name]

\* An intact archive is never taken for something else unless a read failed, and its
\* list is the directory's: every member once, in order, and nothing that only looks
\* like a record.
ListIsDirectory ==
    zip.file \in DOMAIN Layout /\ Intact(File) =>
        /\ zip.pc = "listed" => zip.nodes = Names(File) /\ zip.files = Names(File)
        /\ zip.pc \in {"failed", "crashed"} => zipFaults > 0
=============================================================================
