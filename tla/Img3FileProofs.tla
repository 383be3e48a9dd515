--------------------------- MODULE Img3FileProofs ---------------------------
(***************************************************************************)
(* Theorems about ParseFile, for files of any length with any headers in   *)
(* any places, any number of section types and any number of files.        *)
(***************************************************************************)
EXTENDS Img3File, ExtremaProofs, SequenceTheorems

\* Inside ParseFile the scan has passed the Img3 header of a file it was given.
Scanning ==
    pc = "loop" =>
        /\ file \in File
        /\ file.length # 0
        /\ Start \in Nat
        /\ InWidth(file) => Start <= currOffset

Inv == TypeOK /\ Scanning /\ OnlyThisFile /\ MainSectionsOnly /\ NoTagMissed

-----------------------------------------------------------------------------
(* Facts about files and sections. *)

\* What an uint32_t keeps of a number.
LEMMA WordFacts ==
    ASSUME NEW x \in Int
    PROVE  /\ x % Wrap \in Word
           /\ x \in Nat => x % Wrap <= x
           /\ x \in Word => x % Wrap = x
<1>1. Wrap \in Nat \ {0}
  BY Img3FileAssumption
<1>2. PICK q \in Int, d \in 0..(Wrap - 1) : x = Wrap * q + d /\ x % Wrap = d
  <2>1. x % Wrap \in 0..(Wrap - 1) /\ x \div Wrap \in Int /\ x = Wrap * (x \div Wrap) + (x % Wrap)
    BY <1>1
  <2> QED
    BY <2>1
<1>3. Wrap * q \in Int /\ Wrap * (-1 - q) = -Wrap - Wrap * q /\ Wrap * (q - 1) = Wrap * q - Wrap
  BY <1>1, <1>2
<1>4. \A u, v \in Nat : u * v \in Nat
  OBVIOUS
<1>5. q < 0 => Wrap * q <= -Wrap
  <2>1. q < 0 => Wrap * (-1 - q) \in Nat
    BY <1>1, <1>2, <1>4
  <2> QED
    BY <1>1, <1>3, <2>1
<1>6. q > 0 => Wrap <= Wrap * q
  <2>1. q > 0 => Wrap * (q - 1) \in Nat
    BY <1>1, <1>2, <1>4
  <2> QED
    BY <1>1, <1>3, <2>1
<1>7. q = 0 => Wrap * q = 0
  BY <1>1
<1>8. q < 0 \/ q = 0 \/ q > 0
  BY <1>2
<1> HIDE DEF Word
<1>9. x % Wrap \in Word
  BY <1>1, <1>2 DEF Word
<1>10. x \in Nat => x % Wrap <= x
  BY <1>1, <1>2, <1>3, <1>5, <1>6, <1>7, <1>8
<1>11. x \in Word => x % Wrap = x
  BY <1>1, <1>2, <1>3, <1>5, <1>6, <1>7, <1>8 DEF Word
<1> QED
  BY <1>9, <1>10, <1>11

\* The headers of a file, whose lengths are any words.
LEMMA HeaderFacts ==
    ASSUME NEW f \in File, NEW o \in DOMAIN f.headers
    PROVE  /\ o \in Nat
           /\ f.headers[o] \in Header
           /\ f.headers[o].totalLength \in Nat
           /\ f.headers[o].dataLength \in Nat
           /\ HeaderLength(f.headers[o]) \in Word
           /\ HeaderLength(f.headers[o]) \in Nat
           /\ HeaderSize \in Nat \ {0}
<1>1. /\ o \in Nat
      /\ f.headers[o] \in Header
      /\ HeaderSize \in Nat \ {0}
      /\ Wrap \in Nat \ {0}
  BY Img3FileAssumption
<1>2. f.headers[o].totalLength \in Nat /\ f.headers[o].dataLength \in Nat
  BY <1>1 DEF Header, Word
<1>3. f.headers[o].totalLength - f.headers[o].dataLength \in Int
  BY <1>2
<1>4. HeaderLength(f.headers[o]) \in Word
  BY <1>3, WordFacts DEF HeaderLength
<1> QED
  BY <1>1, <1>2, <1>4 DEF Word

\* A parsed section has its type and stands where its header was read.
LEMMA SectionFacts ==
    ASSUME NEW f \in File, NEW o \in DOMAIN f.headers, NEW n \in Nat
    PROVE  /\ ParseSection(f, o, n) \in Section
           /\ ParseSection(f, o, n).header = f.headers[o]
           /\ ParseSection(f, o, n).original.file = n
           /\ ParseSection(f, o, n).original.offset = o
<1> DEFINE h == f.headers[o]
           data == IF h.magic = Base \/ h.dataLength = 0 THEN NoData
                   ELSE [offset |-> o + DataOffset(h), length |-> h.dataLength]
<1>1. /\ o \in Nat /\ h \in Header /\ h.dataLength \in Nat
      /\ HeaderLength(h) \in Nat /\ HeaderSize \in Nat
  BY HeaderFacts
<1>2. DataOffset(h) \in Nat
  BY <1>1 DEF DataOffset
<1>3. data \in [offset: Nat, length: Nat]
  BY <1>1, <1>2 DEF NoData
<1>4. ParseSection(f, o, n) =
          [header |-> h, original |-> [file |-> n, offset |-> o], data |-> data]
  BY DEF ParseSection
<1> HIDE DEF h, data
<1> QED
  BY <1>1, <1>3, <1>4 DEF Section, h

-----------------------------------------------------------------------------
(* The inductive invariant. *)

LEMMA InitInv == Init => Inv
<1> SUFFICES ASSUME Init PROVE Inv
  OBVIOUS
<1>1. <<>> \in Seq(Section) /\ Len(<<>>) = 0
  BY EmptySeq
<1>2. MaxFiles \in Nat /\ 0 \in Word
  BY Img3FileAssumption DEF Word
<1> QED
  BY <1>1, <1>2
     DEF Init, Inv, TypeOK, Scanning, OnlyThisFile, MainSectionsOnly, NoTagMissed, NoFile

\* A file that is refused leaves an empty list, or is empty itself.
LEMMA RefuseInv ==
    ASSUME Inv, NEW f \in File, RefuseEmpty(f) \/ Refuse(f) \/ RefuseCrash(f)
    PROVE  Inv'
<1>1. /\ file' = f /\ parsed' = parsed + 1 /\ parsed < MaxFiles
      /\ pc' \in {"idle", "crashed"} /\ result' \in {"none", "failed"} /\ currOffset' = currOffset
      /\ sections' = <<>> \/ (sections' = sections /\ f.length = 0)
  BY DEF RefuseEmpty, Refuse, RefuseCrash, Given
<1>2. <<>> \in Seq(Section) /\ Len(<<>>) = 0
  BY EmptySeq
<1>3. TypeOK'
  <2>1. parsed' \in 0..MaxFiles
    BY <1>1, Img3FileAssumption DEF Inv, TypeOK
  <2>2. sections' \in Seq(Section)
    BY <1>1, <1>2 DEF Inv, TypeOK
  <2> QED
    BY <1>1, <2>1, <2>2 DEF Inv, TypeOK
<1>4. OnlyThisFile' /\ MainSectionsOnly' /\ NoTagMissed'
  BY <1>1, <1>2 DEF OnlyThisFile, MainSectionsOnly, NoTagMissed
<1> QED
  BY <1>1, <1>3, <1>4 DEF Inv, Scanning

\* The list begins with the Img3 section, and the scan behind its header.
LEMMA BeginParseInv ==
    ASSUME Inv, NEW f \in File, BeginParse(f)
    PROVE  Inv'
<1> DEFINE base == ParseSection(f, 0, parsed')
           start == HeaderLength(f.headers[0])
<1>1. /\ file' = f /\ parsed' = parsed + 1 /\ parsed < MaxFiles
      /\ pc' = "loop" /\ result' = "none" /\ f.length # 0 /\ IsImg3(f)
      /\ sections' = <<base>> /\ currOffset' = start
  BY DEF BeginParse, Given
<1>2. parsed' \in 0..MaxFiles /\ parsed' \in Nat
  BY <1>1, Img3FileAssumption DEF Inv, TypeOK
<1>3. 0 \in DOMAIN f.headers
  BY <1>1 DEF IsImg3, Tag
<1>4. start \in Nat /\ start \in Word
  BY <1>3, HeaderFacts
<1>5. /\ base \in Section /\ base.original.file = parsed'
      /\ base.original.offset = 0 /\ base.header = f.headers[0]
  BY <1>2, <1>3, SectionFacts
<1> HIDE DEF base
<1>6. /\ sections' \in Seq(Section) /\ Len(sections') = 1 /\ sections'[1] = base
      /\ DOMAIN sections' = {1} /\ sections' # <<>>
  BY <1>1, <1>5
<1>7. TypeOK'
  BY <1>1, <1>2, <1>4, <1>6 DEF TypeOK
<1>8. Scanning'
  BY <1>1, <1>4 DEF Scanning, Start
<1>9. OnlyThisFile'
  BY <1>1, <1>3, <1>5, <1>6 DEF OnlyThisFile, Offset
<1>10. MainSectionsOnly'
  BY <1>6 DEF MainSectionsOnly
<1>11. NoTagMissed'
  <2>1. ASSUME NEW o \in DOMAIN f.headers, start <= o, o < start
        PROVE  FALSE
    BY <1>4, <2>1, HeaderFacts
  <2> QED
    BY <1>1, <2>1 DEF NoTagMissed, Start
<1> QED
  BY <1>7, <1>8, <1>9, <1>10, <1>11 DEF Inv

\* A section joins the list: it begins where the last one ended or later, and the
\* tags inside it are passed with it.
LEMMA AddSectionInv ==
    ASSUME Inv, AddSection
    PROVE  Inv'
<1> DEFINE new == ParseSection(file, currOffset, parsed)
           n == Len(sections)
<1>1. /\ pc = "loop" /\ currOffset < file.length /\ Tag(file, currOffset, Known)
      /\ sections' = Append(sections, new)
      /\ currOffset' = (currOffset + file.headers[currOffset].totalLength) % Wrap
      /\ UNCHANGED <<file, parsed, pc, result>>
  BY DEF AddSection
<1>2. /\ file \in File /\ file.length # 0 /\ Start \in Nat /\ (InWidth(file) => Start <= currOffset)
      /\ sections \in Seq(Section) /\ sections # <<>> /\ currOffset \in Nat /\ parsed \in Nat
  BY <1>1, Img3FileAssumption DEF Inv, Scanning, TypeOK, Word
<1>3. currOffset \in DOMAIN file.headers
  BY <1>1 DEF Tag
<1> DEFINE last == currOffset + file.headers[currOffset].totalLength
<1>4. /\ file.headers[currOffset].totalLength \in Nat /\ last \in Nat /\ currOffset <= last
      /\ currOffset' \in Word /\ currOffset' \in Nat /\ currOffset' <= last
      /\ InWidth(file) => currOffset' = last
  <2>1. file.headers[currOffset].totalLength \in Nat /\ last \in Nat /\ currOffset <= last
    BY <1>2, <1>3, HeaderFacts
  <2>2. currOffset' \in Word /\ currOffset' <= last /\ (last \in Word => currOffset' = last)
    BY <1>1, <2>1, WordFacts
  <2>3. InWidth(file) => last \in Word
    BY <1>1, <1>3, <2>1, Img3FileAssumption DEF InWidth, Word
  <2> QED
    BY <2>1, <2>2, <2>3, Img3FileAssumption DEF Word
<1>5. /\ new \in Section /\ new.original.file = parsed
      /\ new.original.offset = currOffset /\ new.header = file.headers[currOffset]
  BY <1>2, <1>3, SectionFacts
<1> HIDE DEF new
<1>6. /\ sections' \in Seq(Section) /\ n \in Nat /\ n >= 1
      /\ Len(sections') = n + 1 /\ DOMAIN sections' = 1..(n + 1) /\ DOMAIN sections = 1..n
      /\ \A i \in 1..n : sections'[i] = sections[i]
      /\ sections'[n + 1] = new
  <2>1. sections' \in Seq(Section)
    BY <1>1, <1>2, <1>5, AppendProperties
  <2>2. n \in Nat /\ n # 0
    BY <1>2, EmptySeq, LenProperties
  <2> QED
    BY <1>1, <1>2, <1>5, <2>1, <2>2, AppendProperties, LenProperties
<1>7. TypeOK'
  BY <1>1, <1>4, <1>6, EmptySeq DEF Inv, TypeOK
<1>8. Scanning'
  BY <1>1, <1>2, <1>4 DEF Scanning, Start
<1>9. OnlyThisFile'
  <2>1. \A k \in 1..n : /\ sections[k].original.file = parsed
                        /\ Offset(k) \in DOMAIN file.headers
                        /\ sections[k].header = file.headers[Offset(k)]
    BY <1>2, <1>6 DEF Inv, OnlyThisFile
  <2> QED
    BY <1>1, <1>3, <1>5, <1>6, <2>1 DEF OnlyThisFile, Offset
<1> DEFINE NewOffset(k) == sections'[k].original.offset
           NewEnd(k) == NewOffset(k) + sections'[k].header.totalLength
<1>10. /\ \A k \in 1..n : NewOffset(k) = Offset(k) /\ NewEnd(k) = End(k)
       /\ NewOffset(n + 1) = currOffset
       /\ NewEnd(n + 1) = last
  <2>1. \A k \in 1..n : NewOffset(k) = Offset(k) /\ NewEnd(k) = End(k)
    BY <1>6 DEF Offset, End
  <2>2. NewOffset(n + 1) = currOffset
    BY <1>5, <1>6
  <2>3. sections'[n + 1].header.totalLength = file.headers[currOffset].totalLength
    BY <1>5, <1>6
  <2> QED
    BY <1>1, <2>1, <2>2, <2>3
<1>11. \A k \in 1..n : Offset(k) \in Nat /\ End(k) \in Nat
  <2>1. \A k \in 1..n : sections[k] \in Section
    BY <1>2, <1>6, ElementOfSeq
  <2>2. \A x \in Section : /\ x.original.offset \in Nat
                            /\ x.header.totalLength \in Nat
    BY Img3FileAssumption DEF Section, Header, Word
  <2> QED
    BY <2>1, <2>2 DEF Offset, End
<1>12. /\ InWidth(file) =>
             /\ \A k \in 2..n : Start <= Offset(k) /\ End(k) <= currOffset
             /\ \A j, k \in 2..n : j < k => End(j) <= Offset(k)
       /\ \A o \in DOMAIN file.headers :
             Start <= o /\ o < currOffset /\ Tag(file, o, Known) =>
                 \E k \in 2..n : Offset(k) <= o /\ o < End(k)
  BY <1>2 DEF Inv, MainSectionsOnly, NoTagMissed
<1>13. \A k \in 2..(n + 1) : k \in 1..(n + 1) /\ (k \in 2..n \/ k = n + 1)
  BY <1>6
<1>14. \A k \in 2..n : k \in 1..n /\ k \in 2..(n + 1)
  BY <1>6
<1> HIDE DEF NewOffset, NewEnd, last, n
<1>15. ASSUME InWidth(file)
       PROVE  \A k \in 2..(n + 1) : Start <= NewOffset(k) /\ NewEnd(k) <= currOffset'
  <2>1. \A k \in 2..n : Start <= NewOffset(k) /\ NewEnd(k) <= currOffset'
    <3>1. \A k \in 2..n : NewOffset(k) = Offset(k) /\ NewEnd(k) = End(k) /\ End(k) \in Nat
      BY <1>10, <1>11, <1>14
    <3> QED
      BY <1>2, <1>4, <1>12, <1>15, <3>1
  <2>2. Start <= NewOffset(n + 1) /\ NewEnd(n + 1) <= currOffset'
    BY <1>2, <1>4, <1>10, <1>15
  <2> QED
    BY <1>13, <2>1, <2>2
<1>16. ASSUME InWidth(file)
       PROVE  \A j, k \in 2..(n + 1) : j < k => NewEnd(j) <= NewOffset(k)
  <2>1. \A j, k \in 2..n : j < k => NewEnd(j) <= NewOffset(k)
    BY <1>10, <1>12, <1>14, <1>16
  <2>2. \A j \in 2..n : NewEnd(j) <= NewOffset(n + 1)
    BY <1>10, <1>12, <1>14, <1>16
  <2>3. \A k \in 2..(n + 1) : ~(n + 1 < k)
    BY <1>6
  <2> QED
    BY <1>13, <2>1, <2>2, <2>3
<1>17. ASSUME NEW o \in DOMAIN file.headers, Start <= o, o < currOffset', Tag(file, o, Known)
       PROVE  \E k \in 2..(n + 1) : NewOffset(k) <= o /\ o < NewEnd(k)
  <2>1. o \in Nat
    BY <1>2, HeaderFacts
  <2>2. CASE o < currOffset
    <3>1. PICK k \in 2..n : Offset(k) <= o /\ o < End(k)
      BY <1>12, <1>17, <2>2
    <3>2. NewOffset(k) <= o /\ o < NewEnd(k)
      BY <1>10, <1>14, <3>1
    <3> QED
      BY <1>14, <3>2
  <2>3. CASE currOffset <= o
    <3>1. NewOffset(n + 1) <= o /\ o < NewEnd(n + 1)
      BY <1>4, <1>10, <1>17, <2>1, <2>3
    <3>2. n + 1 \in 2..(n + 1)
      BY <1>6
    <3> QED
      BY <3>1, <3>2
  <2> QED
    BY <1>2, <2>1, <2>2, <2>3
<1>18. Len(sections') = n + 1 /\ Start' = Start /\ file' = file /\ InWidth(file)' = InWidth(file)
  BY <1>1, <1>6 DEF Start
<1>19. \A k : Offset(k)' = NewOffset(k) /\ End(k)' = NewEnd(k)
  BY DEF Offset, End, NewOffset, NewEnd
<1>20. MainSectionsOnly'
  BY <1>15, <1>16, <1>18, <1>19 DEF MainSectionsOnly
<1>21. NoTagMissed'
  BY <1>17, <1>18, <1>19 DEF NoTagMissed
<1> QED
  BY <1>7, <1>8, <1>9, <1>20, <1>21 DEF Inv

\* What is skipped begins with no tag that ParseFile looks for.
LEMMA SkipInv ==
    ASSUME Inv, Skip
    PROVE  Inv'
<1>1. /\ pc = "loop" /\ ~Tag(file, currOffset, Known) /\ currOffset' = currOffset + 1
      /\ UNCHANGED <<file, parsed, pc, result, sections>>
  BY DEF Skip
<1>2. /\ file \in File /\ file.length # 0 /\ Start \in Nat /\ (InWidth(file) => Start <= currOffset)
      /\ sections \in Seq(Section) /\ currOffset \in Nat /\ currOffset + 1 \in Word
  <2>1. currOffset < file.length /\ currOffset \in Nat /\ file \in File
    BY <1>1, Img3FileAssumption DEF Skip, Inv, Scanning, TypeOK, Word
  <2>2. file.length \in Word
    BY <2>1, Img3FileAssumption
  <2> QED
    BY <1>1, <2>1, <2>2, Img3FileAssumption DEF Inv, Scanning, TypeOK, Word
<1>3. TypeOK' /\ Scanning' /\ OnlyThisFile'
  <2>1. TypeOK'
    BY <1>1, <1>2 DEF Inv, TypeOK
  <2>2. Scanning'
    BY <1>1, <1>2 DEF Scanning, Start
  <2> QED
    BY <1>1, <1>2, <2>1, <2>2 DEF Inv, OnlyThisFile, Offset
<1>4. MainSectionsOnly'
  <2>1. \A k \in 2..Len(sections) : End(k) \in Nat
    <3>1. \A k \in 2..Len(sections) : sections[k] \in Section
      BY <1>2, LenProperties, ElementOfSeq
    <3> QED
      BY <3>1, Img3FileAssumption DEF Section, Header, Offset, End, Word
  <2>2. \A k \in 2..Len(sections) : Offset(k)' = Offset(k) /\ End(k)' = End(k)
    BY <1>1 DEF Offset, End
  <2> QED
    BY <1>1, <1>2, <2>1, <2>2 DEF Inv, MainSectionsOnly, Start
<1>5. NoTagMissed'
  <2>1. \A o \in DOMAIN file.headers : o < currOffset + 1 /\ Tag(file, o, Known) => o < currOffset
    BY <1>1, <1>2, HeaderFacts
  <2>2. \A k \in 2..Len(sections) : Offset(k)' = Offset(k) /\ End(k)' = End(k)
    BY <1>1 DEF Offset, End
  <2> QED
    BY <1>1, <2>1, <2>2 DEF Inv, NoTagMissed, Start
<1> QED
  BY <1>3, <1>4, <1>5 DEF Inv

\* Leaving ParseFile, and a step that changes nothing.
LEMMA LeaveInv ==
    ASSUME Inv, SectionFails \/ SectionCrash \/ EndParse \/ UNCHANGED vars
    PROVE  Inv'
<1>1. /\ UNCHANGED <<file, parsed, sections, currOffset>>
      /\ \/ pc' = "idle" /\ result' \in {"ok", "failed"}
         \/ pc' = "crashed" /\ result' = result
         \/ pc' = pc /\ result' = result
  BY DEF SectionFails, SectionCrash, EndParse, vars
<1>2. \A k : Offset(k)' = Offset(k) /\ End(k)' = End(k)
  BY <1>1 DEF Offset, End
<1>3. TypeOK' /\ Scanning'
  BY <1>1 DEF Inv, TypeOK, Scanning, Start
<1>4. OnlyThisFile'
  BY <1>1, <1>2 DEF Inv, OnlyThisFile
<1>5. MainSectionsOnly' /\ NoTagMissed'
  BY <1>1, <1>2 DEF Inv, MainSectionsOnly, NoTagMissed, Start
<1> QED
  BY <1>3, <1>4, <1>5 DEF Inv

\* Whatever the file holds: the list has sections of this file only, in the order
\* of the file and none inside another, and no tag the scan has passed is missing.
THEOREM InvAlways == Spec => []Inv
<1>1. Inv /\ [Next]_vars => Inv'
  BY RefuseInv, BeginParseInv, AddSectionInv, SkipInv, LeaveInv DEF Next, ParseFile
<1> QED
  BY <1>1, InitInv, PTL DEF Spec

\* Type correctness: the offset stays a natural number, the list well typed, and
\* inside ParseFile the list is never empty.
THEOREM TypeCorrect == Spec => []TypeOK
<1>1. Inv => TypeOK
  BY DEF Inv
<1> QED
  BY <1>1, InvAlways, PTL

\* Sections of an earlier file never survive in the list, nor do sections stand in
\* it that this file does not have, even when ParseFile gives up.
THEOREM OnlyThisFileAlways == Spec => []OnlyThisFile
<1>1. Inv => OnlyThisFile
  BY DEF Inv
<1> QED
  BY <1>1, InvAlways, PTL

\* Sections that lie inside others are never listed beside them.
THEOREM MainSectionsAlways == Spec => []MainSectionsOnly
<1>1. Inv => MainSectionsOnly
  BY DEF Inv
<1> QED
  BY <1>1, InvAlways, PTL

\* No section of a known type is overlooked.
THEOREM NoTagMissedAlways == Spec => []NoTagMissed
<1>1. Inv => NoTagMissed
  BY DEF Inv
<1> QED
  BY <1>1, InvAlways, PTL

-----------------------------------------------------------------------------
(* What the commands take for the payload. *)

\* Each section of the list is what ParseSection reads where it stands; the first is
\* the Img3 header and the others have types that ParseFile looks for.
SectionsAreRead ==
    file.length # 0 => \A k \in DOMAIN sections :
        /\ sections[k] = ParseSection(file, Offset(k), parsed)
        /\ Tag(file, Offset(k), IF k = 1 THEN {Base} ELSE Known)

\* When ParseFile returns success, the scan has reached the end of the file.
ScanIsDone ==
    result = "ok" => file \in File /\ file.length # 0 /\ sections # <<>> /\ currOffset >= file.length

ReadInv == SectionsAreRead /\ ScanIsDone

LEMMA ReadInvAlways == Spec => []ReadInv
<1>1. Init => ReadInv
  BY DEF Init, ReadInv, SectionsAreRead, ScanIsDone, NoFile
<1>2. ASSUME Inv, ReadInv, [Next]_vars PROVE ReadInv'
  <2>1. ASSUME NEW f \in File, RefuseEmpty(f) \/ Refuse(f) \/ RefuseCrash(f) PROVE ReadInv'
    <3>1. /\ file' = f /\ result' \in {"none", "failed"}
          /\ sections' = <<>> \/ (sections' = sections /\ f.length = 0)
      BY <2>1 DEF RefuseEmpty, Refuse, RefuseCrash, Given
    <3> QED
      BY <3>1 DEF ReadInv, SectionsAreRead, ScanIsDone
  <2>2. ASSUME NEW f \in File, BeginParse(f) PROVE ReadInv'
    <3>1. /\ file' = f /\ parsed' = parsed + 1 /\ parsed < MaxFiles /\ result' = "none"
          /\ IsImg3(f) /\ sections' = <<ParseSection(f, 0, parsed')>>
      BY <2>2 DEF BeginParse, Given
    <3>2. parsed' \in Nat
      BY <1>2, <3>1, Img3FileAssumption DEF Inv, TypeOK
    <3>3. 0 \in DOMAIN f.headers /\ Tag(f, 0, {Base})
      BY <3>1 DEF IsImg3, Tag
    <3>4. ParseSection(f, 0, parsed').original.offset = 0
      BY <3>2, <3>3, SectionFacts
    <3>5. DOMAIN sections' = {1} /\ sections'[1] = ParseSection(f, 0, parsed')
      BY <3>1
    <3>6. sections'[1].original.offset = 0
      BY <3>4, <3>5
    <3> QED
      BY <3>1, <3>3, <3>5, <3>6 DEF ReadInv, SectionsAreRead, ScanIsDone, Offset
  <2>3. CASE AddSection
    <3> DEFINE new == ParseSection(file, currOffset, parsed)
               n == Len(sections)
    <3>1. /\ pc = "loop" /\ currOffset < file.length /\ Tag(file, currOffset, Known)
          /\ sections' = Append(sections, new) /\ UNCHANGED <<file, parsed, pc, result>>
      BY <2>3 DEF AddSection
    <3>2. /\ file \in File /\ file.length # 0 /\ sections \in Seq(Section) /\ sections # <<>>
          /\ parsed \in Nat /\ result = "none"
      BY <1>2, <3>1, Img3FileAssumption DEF Inv, Scanning, TypeOK
    <3>3. currOffset \in DOMAIN file.headers
      BY <3>1 DEF Tag
    <3>4. new \in Section /\ new.original.offset = currOffset
      BY <3>2, <3>3, SectionFacts
    <3> HIDE DEF new
    <3>5. /\ n \in Nat /\ n >= 1 /\ DOMAIN sections' = 1..(n + 1) /\ DOMAIN sections = 1..n
          /\ \A i \in 1..n : sections'[i] = sections[i]
          /\ sections'[n + 1] = new
      <4>1. n \in Nat /\ n # 0
        BY <3>2, EmptySeq, LenProperties
      <4> QED
        BY <3>1, <3>2, <3>4, <4>1, AppendProperties, LenProperties
    <3>6. \A k \in 1..n :
             /\ sections'[k] = ParseSection(file, sections'[k].original.offset, parsed)
             /\ Tag(file, sections'[k].original.offset, IF k = 1 THEN {Base} ELSE Known)
      BY <1>2, <3>2, <3>5 DEF ReadInv, SectionsAreRead, Offset
    <3>7. /\ sections'[n + 1] = ParseSection(file, sections'[n + 1].original.offset, parsed)
          /\ Tag(file, sections'[n + 1].original.offset, Known) /\ n + 1 # 1
      BY <3>1, <3>4, <3>5 DEF new
    <3>8. \A k \in 1..(n + 1) :
             /\ sections'[k] = ParseSection(file, sections'[k].original.offset, parsed)
             /\ Tag(file, sections'[k].original.offset, IF k = 1 THEN {Base} ELSE Known)
      <4> SUFFICES ASSUME NEW k \in 1..(n + 1)
                   PROVE  /\ sections'[k] = ParseSection(file, sections'[k].original.offset, parsed)
                          /\ Tag(file, sections'[k].original.offset, IF k = 1 THEN {Base} ELSE Known)
        OBVIOUS
      <4>1. CASE k \in 1..n
        BY <3>6, <4>1
      <4>2. CASE k = n + 1
        BY <3>7, <4>2
      <4> QED
        BY <3>5, <4>1, <4>2
    <3> HIDE DEF n
    <3> QED
      BY <3>1, <3>2, <3>5, <3>8 DEF ReadInv, SectionsAreRead, ScanIsDone, Offset
  <2>4. CASE Skip
    BY <1>2, <2>4 DEF Skip, Inv, TypeOK, ReadInv, SectionsAreRead, ScanIsDone, Offset
  <2>5. CASE SectionFails \/ SectionCrash \/ EndParse
    BY <1>2, <2>5 DEF SectionFails, SectionCrash, EndParse, Inv, TypeOK, Scanning, ReadInv, SectionsAreRead, ScanIsDone, Offset
  <2>6. CASE UNCHANGED vars
    BY <1>2, <2>6 DEF vars, ReadInv, SectionsAreRead, ScanIsDone, Offset
  <2> QED
    BY <1>2, <2>1, <2>2, <2>3, <2>4, <2>5, <2>6 DEF Next, ParseFile
<1> QED
  BY <1>1, <1>2, InvAlways, PTL DEF Spec

\* No section of a well-formed file leads over 2^32, and each is as long as its header.
LEMMA WellFormedFits ==
    ASSUME NEW f \in File, WellFormed(f)
    PROVE  /\ InWidth(f)
           /\ \A o \in DOMAIN f.headers : Tag(f, o, Known) => f.headers[o].totalLength > 0
<1> DEFINE main == {o \in f.main : Tag(f, o, Magic)}
           After(o) == o + f.headers[o].totalLength
<1>1. /\ \A o \in DOMAIN f.headers : Tag(f, o, Known) =>
             f.headers[o].dataLength + HeaderSize <= f.headers[o].totalLength
      /\ \A o \in main : After(o) < Wrap
      /\ \A o \in DOMAIN f.headers \ main : Tag(f, o, Known) =>
             \E m \in main : After(o) <= After(m)
  BY DEF WellFormed
<1>2. \A o \in DOMAIN f.headers : After(o) \in Nat
  BY HeaderFacts
<1>3. \A o \in main : o \in DOMAIN f.headers
  BY DEF Tag
<1>4. Wrap \in Nat
  BY Img3FileAssumption
<1>5. InWidth(f)
  <2> HIDE DEF main, After
  <2>1. \A o \in DOMAIN f.headers : Tag(f, o, Known) => After(o) < Wrap
    BY <1>1, <1>2, <1>3, <1>4
  <2> QED
    BY <2>1 DEF InWidth, After
<1> QED
  BY <1>1, <1>5, HeaderFacts

\* A main section of a well-formed file is listed where it stands.
LEMMA MainIsListed ==
    ASSUME Inv, ReadInv, result = "ok", WellFormed(file), NEW o \in file.main, Tag(file, o, Known)
    PROVE  \E k \in 2..Len(sections) : Offset(k) = o
<1> DEFINE main == {m \in file.main : Tag(file, m, Magic)}
           After(m) == m + file.headers[m].totalLength
<1>1. /\ file \in File /\ file.length # 0 /\ sections # <<>> /\ currOffset >= file.length
      /\ currOffset \in Nat /\ sections \in Seq(Section) /\ file.length \in Nat
  BY Img3FileAssumption DEF Inv, TypeOK, ReadInv, ScanIsDone, Word
<1>2. /\ \A m \in main : m < file.length /\ Start <= m
      /\ \A m, p \in main : m < p => After(m) <= p
      /\ \A p \in DOMAIN file.headers \ main : Tag(file, p, Known) =>
             \E m \in main : m < p /\ After(p) <= After(m)
  BY DEF WellFormed, Start
<1>3. o \in main /\ o \in DOMAIN file.headers
  BY DEF Tag, Magic
<1>4. \A p \in DOMAIN file.headers : p \in Nat /\ After(p) \in Nat
  BY <1>1, HeaderFacts
<1>5. \A m \in main : m \in DOMAIN file.headers
  BY DEF Tag
<1>6. PICK k \in 2..Len(sections) : Offset(k) <= o /\ o < End(k)
  <2>1. Start <= o /\ o < currOffset
    BY <1>1, <1>2, <1>3, <1>4
  <2> QED
    BY <1>1, <1>3, <2>1 DEF Inv, NoTagMissed
<1>7. k \in DOMAIN sections /\ k # 1
  BY <1>1, LenProperties
<1>8. /\ Tag(file, Offset(k), Known) /\ Offset(k) \in DOMAIN file.headers
      /\ End(k) = After(Offset(k))
  <2>1. Tag(file, Offset(k), Known) /\ sections[k].header = file.headers[Offset(k)]
    BY <1>1, <1>7 DEF Inv, OnlyThisFile, ReadInv, SectionsAreRead
  <2> QED
    BY <2>1 DEF Tag, End
<1> HIDE DEF main, After
<1>9. Offset(k) = o
  <2> SUFFICES ASSUME Offset(k) # o PROVE FALSE
    OBVIOUS
  <2>1. Offset(k) < o /\ o < After(Offset(k))
    BY <1>3, <1>4, <1>6, <1>8
  <2>2. CASE Offset(k) \in main
    BY <1>2, <1>3, <1>4, <1>8, <2>1, <2>2
  <2>3. CASE Offset(k) \notin main
    <3>1. PICK m \in main : m < Offset(k) /\ After(Offset(k)) <= After(m)
      BY <1>2, <1>8, <2>3
    <3>2. m < o /\ o < After(m) /\ After(m) \in Nat /\ m \in Nat /\ o \in Nat
      BY <1>3, <1>4, <1>5, <1>8, <2>1, <3>1
    <3> QED
      BY <1>2, <1>3, <3>2
  <2> QED
    BY <2>2, <2>3
<1> QED
  BY <1>9

\* In a well-formed file, whatever stands between the sections and in them, the DATA
\* section found by its type is the first main one and its data is its payload.
THEOREM DataIsPayloadAlways == Spec => []DataIsPayload
<1>1. ASSUME Inv, ReadInv PROVE DataIsPayload
  <2> DEFINE places == {o \in DOMAIN file.headers : Tag(file, o, {Data}) /\ o \in file.main}
             first == CHOOSE o \in places : \A p \in places : o <= p
             found == {k \in DOMAIN sections : sections[k].header.magic = Data}
             f1 == CHOOSE k \in found : \A j \in found : k <= j
             After(m) == m + file.headers[m].totalLength
  <2> SUFFICES ASSUME result = "ok", WellFormed(file), places # {}
               PROVE  /\ GetSectionDataLength(Data) = file.headers[first].dataLength
                      /\ GetSectionData(Data).length = GetSectionDataLength(Data)
                      /\ GetSectionDataLength(Data) > 0 =>
                            GetSectionData(Data).offset = first + HeaderSize
    BY DEF DataIsPayload
  <2>1. /\ file \in File /\ file.length # 0
        /\ sections \in Seq(Section) /\ DOMAIN sections = 1..Len(sections) /\ Len(sections) \in Nat
        /\ parsed \in Nat
    BY <1>1, Img3FileAssumption, LenProperties DEF Inv, TypeOK, ReadInv, ScanIsDone
  <2>2. Data \in Known /\ Base # Data
    BY Img3FileAssumption
  <2>3. \A o \in DOMAIN file.headers : o \in Nat /\ After(o) \in Nat
    BY <2>1, HeaderFacts
  <2>4. first \in places /\ \A p \in places : first <= p
    <3>1. places \in SUBSET Nat
      BY <2>3
    <3> HIDE DEF places
    <3> QED
      BY <3>1, LeastIn
  <2> HIDE DEF first
  <2>5. first \in file.main /\ Tag(file, first, {Data}) /\ Tag(file, first, Known)
        /\ first \in DOMAIN file.headers
    BY <2>2, <2>4 DEF Tag
  <2>6. PICK k \in 2..Len(sections) : Offset(k) = first
    BY <1>1, <2>1, <2>5, MainIsListed
  <2>7. \A j \in DOMAIN sections :
           /\ sections[j] = ParseSection(file, Offset(j), parsed)
           /\ sections[j].header = file.headers[Offset(j)]
           /\ Offset(j) \in DOMAIN file.headers
           /\ Tag(file, Offset(j), IF j = 1 THEN {Base} ELSE Known)
           /\ End(j) = After(Offset(j))
    BY <1>1, <2>1 DEF ReadInv, SectionsAreRead, Inv, OnlyThisFile, End
  <2>8. k \in found
    BY <2>1, <2>5, <2>6, <2>7 DEF Tag
  <2>9. f1 \in found /\ \A j \in found : f1 <= j
    <3>1. found \in SUBSET Nat
      BY <2>1
    <3> HIDE DEF found
    <3> QED
      BY <2>8, <3>1, LeastIn
  <2>10. FirstOfType(Data) = sections[f1]
    BY DEF FirstOfType
  <2> HIDE DEF f1
  <2>11. f1 \in 2..Len(sections) /\ f1 <= k /\ Tag(file, Offset(f1), {Data})
    <3>1. f1 # 1
      BY <2>2, <2>7, <2>9 DEF Tag
    <3> QED
      BY <2>1, <2>7, <2>8, <2>9, <3>1 DEF Tag
  <2>12. Offset(f1) = first
    <3> SUFFICES ASSUME Offset(f1) # first PROVE FALSE
      OBVIOUS
    <3>1. f1 < k /\ Offset(f1) < first
      <4>1. f1 < k
        BY <2>6, <2>11
      <4>2. End(f1) <= Offset(k)
        BY <1>1, <2>1, <2>11, <4>1, WellFormedFits DEF Inv, MainSectionsOnly
      <4>3. Offset(f1) < End(f1) /\ Offset(f1) \in Nat /\ End(f1) \in Nat
        <5>1. Offset(f1) \in DOMAIN file.headers /\ End(f1) = After(Offset(f1))
          BY <2>1, <2>7, <2>11
        <5>2. file.headers[Offset(f1)].totalLength > 0
          BY <2>1, <2>2, <2>11, <5>1, WellFormedFits DEF Tag
        <5> QED
          BY <2>1, <5>1, <5>2, HeaderFacts
      <4> QED
        BY <2>3, <2>5, <2>6, <4>1, <4>2, <4>3
    <3>2. Offset(f1) \notin file.main
      <4>1. Offset(f1) \in DOMAIN file.headers
        BY <2>11 DEF Tag
      <4>2. Offset(f1) \in file.main => Offset(f1) \in places
        BY <2>11, <4>1
      <4>3. Offset(f1) \in Nat /\ first \in Nat
        BY <2>3, <2>5, <4>1
      <4>4. ~(first <= Offset(f1))
        BY <3>1, <4>3
      <4> HIDE DEF places
      <4> QED
        BY <2>4, <4>2, <4>4
    <3>3. PICK m \in file.main : /\ Tag(file, m, Known) /\ m < Offset(f1)
                                  /\ After(Offset(f1)) <= After(m)
      BY <2>1, <2>2, <2>7, <2>11, <3>2 DEF WellFormed, Tag
    <3>4. PICK i \in 2..Len(sections) : Offset(i) = m
      BY <1>1, <2>1, <3>3, MainIsListed
    <3>5. i \in DOMAIN sections /\ f1 \in DOMAIN sections /\ End(i) = After(m) /\ End(f1) = After(Offset(f1))
      BY <2>1, <2>7, <2>11, <3>4
    <3>6. /\ m \in Nat /\ Offset(f1) \in Nat /\ After(m) \in Nat /\ Offset(f1) < After(Offset(f1))
          /\ After(Offset(f1)) \in Nat
      <4>1. m \in DOMAIN file.headers /\ Offset(f1) \in DOMAIN file.headers
        BY <2>7, <3>3, <3>5 DEF Tag
      <4>2. file.headers[Offset(f1)].totalLength > 0
        BY <2>1, <2>2, <2>11, <4>1, WellFormedFits DEF Tag
      <4>3. file.headers[Offset(f1)].totalLength \in Nat
        BY <2>1, <4>1, HeaderFacts
      <4>4. m \in Nat /\ Offset(f1) \in Nat /\ After(m) \in Nat /\ After(Offset(f1)) \in Nat
        BY <2>3, <4>1
      <4>5. Offset(f1) < After(Offset(f1))
        BY <4>2, <4>3, <4>4
      <4> QED
        BY <4>4, <4>5
    <3>7. i # f1
      BY <3>3, <3>4, <3>6
    <3>8. i < f1 \/ f1 < i
      BY <2>1, <2>11, <3>4, <3>7
    <3>9. End(i) <= Offset(f1) \/ End(f1) <= Offset(i)
      BY <1>1, <2>1, <2>11, <3>4, <3>8, WellFormedFits DEF Inv, MainSectionsOnly
    <3> QED
      BY <3>3, <3>4, <3>5, <3>6, <3>9
  <2>13. /\ FirstOfType(Data) = ParseSection(file, first, parsed)
         /\ file.headers[first].magic = Data
    BY <2>1, <2>5, <2>7, <2>10, <2>11, <2>12 DEF Tag
  <2>14. /\ FirstOfType(Data).header = file.headers[first]
         /\ FirstOfType(Data).data =
               IF file.headers[first].dataLength = 0 THEN NoData
               ELSE [offset |-> first + HeaderSize, length |-> file.headers[first].dataLength]
    BY <2>2, <2>13 DEF ParseSection, DataOffset
  <2> HIDE DEF places
  <2> QED
    BY <2>14 DEF GetSectionData, GetSectionDataLength, NoData
<1> QED
  BY <1>1, InvAlways, ReadInvAlways, PTL
=============================================================================
