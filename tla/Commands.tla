------------------------------ MODULE Commands ------------------------------
(***************************************************************************)
(* The commands over firmware archives: IMG3_Functions.cpp, with the       *)
(* extraction of compression/IMG3_ZipInterface.cpp.  Several runs of the   *)
(* program work in one directory.  A run extracts members of an archive    *)
(* there by the unzip program, maps them one after the other, and writes   *)
(* what it made of them to a file named for the archive.                   *)
(*                                                                         *)
(* A file is <<base, suffix>>, and its content says what wrote it.  What   *)
(* ParseFile, the cipher and the compressor do to one file is the subject  *)
(* of other modules: here a member only has a kind.  data_section.bin,     *)
(* which decrypt writes and nothing reads, is left out, and so are the     *)
(* files that PatchKernelFile would write behind the point it never passes.*)
(* unzip is installed: an execlp that fails would let the child of vfork   *)
(* go on as a second run of the program in the memory of the first.        *)
(***************************************************************************)
EXTENDS Integers, Sequences, FiniteSets, FiniteSetsExt

CONSTANTS
    Process,    \* runs of the program that can be active at a time
    Base,       \* names of the files the commands can be given
    Area,       \* what -s can ask for
    Kernel,     \* the area that patch asks for
    Member,     \* archive -> its members, in the order of its central directory
    Broken,     \* archives whose central directory cannot be read
    Packed,     \* compressed files
    NoKey,      \* the archives and areas for which the database has no key
    MaxRuns,    \* bound: commands started
    MaxFaults,  \* bound: calls to the system or the database that fail
    MaxCrashes  \* bound: runs that are killed

(* A member's kind is that of its DATA section: "short" when the decrypted *)
(* data says that it is compressed and is shorter than the header of       *)
(* compressed data, "no data" when the section is missing or empty, or the *)
(* member is no firmware, and else "data".                                 *)
Kind == {"data", "short", "no data"}
All == "all"

ASSUME CommandsAssumption ==
    /\ DOMAIN Member \subseteq Base /\ Broken \subseteq Base /\ Packed \subseteq Base
    /\ \A a \in DOMAIN Member :
          /\ Member[a] \in Seq([name: Base, area: SUBSET Area, kind: Kind])
          /\ \A i, j \in DOMAIN Member[a] : Member[a][i].name = Member[a][j].name => i = j
          /\ \A i \in DOMAIN Member[a] : Member[a][i].name \notin DOMAIN Member \cup Broken \cup Packed
    /\ Broken \cap DOMAIN Member = {} /\ Packed \cap (DOMAIN Member \cup Broken) = {}
    /\ Kernel \in Area /\ All \notin Area
    /\ NoKey \subseteq [base: Base, area: Area]
    /\ {MaxRuns, MaxFaults, MaxCrashes} \subseteq Nat

VARIABLES
    disk,       \* file -> its content
    proc,       \* process -> the state of its run
    disturbed,  \* the processes whose run met a fault, or another run at its files
    runs, faults, crashes

vars == <<disk, proc, disturbed, runs, faults, crashes>>

File == Base \X {"", "_decrypted", "_patched", "_decompressed"}

Run == [command: {"decrypt"}, base: Base, area: Area]
       \cup [command: {"extract"}, base: Base, area: Area \cup {All}]
       \cup [command: {"patch"}, base: Base, area: {Kernel}]
       \cup [command: {"list", "parse", "decompress"}, base: Base, area: {All}]

(* Contents of files, and of the memory that holds what was read from one. *)
None == [is |-> "none"]
Archive == [is |-> "archive"]
BrokenArchive == [is |-> "broken"]
Compressed == [is |-> "compressed"]
Decompressed == [is |-> "decompressed"]
Mixed == [is |-> "mixed"]       \* written by two runs at once
Freed == [is |-> "freed"]       \* memory that was freed, and what is written from it
Partial(p) == [is |-> "partial", by |-> p]
Firmware(a, i) == [is |-> "firmware", archive |-> a, index |-> i]
Decrypted(from, key) == [is |-> "decrypted", from |-> from, key |-> key]

MemberIn(c) == Member[c.archive][c.index]
KindOf(c) == IF c.is = "firmware" THEN MemberIn(c).kind ELSE "data"

(* The state of a run.  todo are the members ExtractFiles has yet to       *)
(* extract, by their place in the central directory, first to last.        *)
(* files is extractedFiles from the one at hand on, mapped is data, and    *)
(* buffer is decryptedData (or decompressedData).                          *)
NoRun == [command |-> "none"]
Idle == [pc |-> "idle", run |-> NoRun, todo |-> {}, files |-> <<>>,
         mapped |-> None, buffer |-> None, result |-> "none"]

Init ==
    /\ disk = [f \in File |->
                  IF f[2] # "" THEN None
                  ELSE IF f[1] \in DOMAIN Member THEN Archive
                  ELSE IF f[1] \in Broken THEN BrokenArchive
                  ELSE IF f[1] \in Packed THEN Compressed ELSE None]
    /\ proc = [p \in Process |-> Idle]
    /\ disturbed = {}
    /\ runs = 0 /\ faults = 0 /\ crashes = 0

-----------------------------------------------------------------------------
(* Helpers. *)

At(p, step) == proc[p].pc = step
Command(p) == proc[p].run.command
Input(p) == <<proc[p].run.base, "">>
IsArchive(p) == proc[p].run.base \in DOMAIN Member

Set(p, state) == proc' = [proc EXCEPT ![p] = state]
Goto(p, step) == Set(p, [proc[p] EXCEPT !.pc = step])

\* A run returns.  IMG3_ZipInterface closes an archive that AnalyzeFile has closed
\* already once more when it is destroyed, which may end the process.
Return(p, res) ==
    \E end \in {res} \cup (IF IsArchive(p) THEN {"crashed"} ELSE {}) :
        Set(p, [Idle EXCEPT !.result = end])

\* The process dies of the code's own doing.
Abort(p) == Set(p, [Idle EXCEPT !.result = "crashed"])

Calm == UNCHANGED <<disturbed, faults>>
Fault(p) ==
    /\ faults < MaxFaults
    /\ faults' = faults + 1
    /\ disturbed' = disturbed \cup {p}

(* Which files a command may write, and whether another can disturb it.    *)
Output(r) ==
    <<r.base, CASE r.command = "decrypt" -> "_decrypted"
                [] r.command = "patch" -> "_patched"
                [] OTHER -> "_decompressed">>
Writes(r) ==
    (IF r.command \in {"decrypt", "patch", "decompress"} THEN {Output(r)} ELSE {})
    \cup (IF r.command \in {"decrypt", "patch", "extract"} /\ r.base \in DOMAIN Member
          THEN {<<Member[r.base][i].name, "">> : i \in DOMAIN Member[r.base]} ELSE {})
Disturbs(q, r) == Writes(q) \cap (Writes(r) \cup {<<r.base, "">>}) # {}

-----------------------------------------------------------------------------
Start(p, r) ==
    /\ At(p, "idle")
    /\ runs < MaxRuns
    /\ runs' = runs + 1
    /\ LET from == IF r.command \in {"parse", "decompress"} THEN "map" ELSE "analyze"
           queue == IF from = "map" THEN <<r.base>> ELSE <<>>
           others == {q \in Process : ~At(q, "idle")}
       IN  /\ Set(p, [Idle EXCEPT !.pc = from, !.run = r, !.files = queue])
           /\ disturbed' = (disturbed \ {p})
                  \cup {q \in others : Disturbs(r, proc[q].run)}
                  \cup (IF \E q \in others : Disturbs(proc[q].run, r) THEN {p} ELSE {})
    /\ UNCHANGED <<disk, faults, crashes>>

(* ----- IMG3_ZipInterface ----------------------------------------------- *)

\* strcasestr(node->fileName, section)
Matches(a, area) ==
    {i \in DOMAIN Member[a] : area = All \/ area \in Member[a][i].area}

\* What a command returns that has no list of files.  PatchKernelFile closes two
\* files that it has not opened.
GiveUp(p) == IF Command(p) = "patch" THEN Abort(p) ELSE Return(p, "failed")

\* AnalyzeFile; decrypt and patch take a file that is no archive, or in which no end
\* of a directory could be read, as it is.
AnalyzeFile(p) ==
    /\ At(p, "analyze")
    /\ LET content == disk[Input(p)]
           asItIs == Command(p) \in {"decrypt", "patch"}
       IN
       \/ /\ content = Archive
          /\ IF Command(p) = "list" THEN Return(p, "ok")
             ELSE Set(p, [proc[p] EXCEPT !.pc = "extract",
                                         !.todo = Matches(proc[p].run.base, proc[p].run.area)])
          /\ Calm
       \/ /\ \/ content \in {None, BrokenArchive}
             \/ content # Archive /\ ~asItIs
          /\ GiveUp(p)
          /\ Calm
       \/ /\ content = BrokenArchive                        \* an unset node is deleted
          /\ Abort(p)
          /\ Calm
       \/ /\ content \notin {None, Archive, BrokenArchive} /\ asItIs
          /\ Set(p, [proc[p] EXCEPT !.pc = "next", !.files = <<proc[p].run.base>>])
          /\ Calm
       \/ /\ Fault(p)
          /\ \/ GiveUp(p)
             \/ asItIs /\ Set(p, [proc[p] EXCEPT !.pc = "next", !.files = <<proc[p].run.base>>])
    /\ UNCHANGED <<disk, runs, crashes>>

\* The member at hand, and the file unzip makes of it.
Current(p) == Firmware(proc[p].run.base, Min(proc[p].todo))
Place(p) == <<MemberIn(Current(p)).name, "">>
OfArea(p) == proc[p].run.area # All

NoName == "garbled"

\* ExtractFiles lists the file as extracted: it does not look at the status of unzip.
Extracted(p, name) ==
    Set(p, [proc[p] EXCEPT !.pc = "extract", !.todo = @ \ {Min(@)},
                           !.files = IF OfArea(p) THEN Append(@, name) ELSE @])

\* Mutant: unzip is not told to overwrite.
UnzipBegin_kept(p) ==
    /\ At(p, "extract")
    /\ proc[p].todo # {}
    /\ Calm
    /\ \/ /\ disk[Place(p)] = None
          /\ disk' = [disk EXCEPT ![Place(p)] = Partial(p)]
          /\ Goto(p, "unzip")
       \/ /\ disk[Place(p)] # None
          /\ Extracted(p, Place(p)[1])
          /\ UNCHANGED disk
    /\ UNCHANGED <<runs, crashes>>

\* unzip begins a file.  ExtractAllFiles does not tell it to overwrite, and the user
\* may want the file that is there to be kept.  It can fail, or be asked for a name
\* that nothing terminates.
UnzipBegin(p) ==
    /\ At(p, "extract")
    /\ proc[p].todo # {}
    /\ \/ /\ disk' = [disk EXCEPT ![Place(p)] = Partial(p)]
          /\ Goto(p, "unzip")
          /\ Calm
       \/ /\ ~OfArea(p) /\ disk[Place(p)] # None
          /\ Extracted(p, Place(p)[1])
          /\ UNCHANGED disk /\ Calm
       \/ /\ Fault(p)
          /\ \E name \in {Place(p)[1], NoName} : Extracted(p, name)
          /\ UNCHANGED disk
    /\ UNCHANGED <<runs, crashes>>

\* unzip replaces a file by a new one, which other runs may have replaced again.
UnzipEnd(p) ==
    /\ At(p, "unzip")
    /\ Extracted(p, Place(p)[1])
    /\ \/ /\ disk' = IF disk[Place(p)] = Partial(p)
                     THEN [disk EXCEPT ![Place(p)] = Current(p)] ELSE disk
          /\ Calm
       \/ Fault(p) /\ UNCHANGED disk
    /\ UNCHANGED <<runs, crashes>>

\* vfork fails: extract ends as usual, PatchKernelFile closes files it has not opened,
\* and DecryptIMG3File goes on with a list that is NULL.
ForkFails(p) ==
    /\ At(p, "extract")
    /\ proc[p].todo # {}
    /\ OfArea(p) \/ proc[p].todo = Matches(proc[p].run.base, All)
    /\ Fault(p)
    /\ IF Command(p) = "extract" THEN Return(p, "ok") ELSE Abort(p)
    /\ UNCHANGED <<disk, runs, crashes>>

ExtractDone(p) ==
    /\ At(p, "extract")
    /\ proc[p].todo = {}
    /\ IF Command(p) = "extract" THEN Return(p, "ok") ELSE Goto(p, "next")
    /\ Calm
    /\ UNCHANGED <<disk, runs, crashes>>

(* ----- The loops of DecryptIMG3File and PatchKernelFile ---------------- *)

\* The next file, or success after the last (or when no name matched).
NextFile(p) ==
    /\ At(p, "next")
    /\ IF proc[p].files = <<>> THEN Return(p, "ok")
       ELSE Goto(p, IF Command(p) = "patch" THEN "open" ELSE "map")
    /\ Calm
    /\ UNCHANGED <<disk, runs, crashes>>

\* PatchKernelFile opens its output, which empties it, and then the patch file.
OpenPatch(p) ==
    /\ At(p, "open")
    /\ \/ /\ disk' = [disk EXCEPT ![Output(proc[p].run)] = Partial(p)]
          /\ \/ Goto(p, "map") /\ Calm
             \/ Return(p, "failed") /\ Fault(p)
       \/ /\ Fault(p)
          /\ Return(p, "failed")
          /\ UNCHANGED disk
    /\ UNCHANGED <<runs, crashes>>

\* MapFileToMemory: what is written to the file's name later does not change it.
Map(p) ==
    /\ At(p, "map")
    /\ LET name == Head(proc[p].files)
           content == IF name = NoName THEN None ELSE disk[<<name, "">>]
       IN
       \/ /\ content # None
          /\ Set(p, [proc[p] EXCEPT !.pc = "parse", !.mapped = content])
          /\ Calm
       \/ /\ content = None
          /\ Return(p, "failed")
          /\ Calm
       \/ /\ Fault(p)
          /\ Return(p, "failed")
    /\ UNCHANGED <<disk, runs, crashes>>

\* Mutant: ParseFile does not compare the lengths.
Parsable_anyLength(c) == c.is \in {"firmware", "partial"} /\ KindOf(c) # "no data"

\* ParseFile accepts the file, and GetSectionData finds data.  A file that is not yet
\* or never will be whole does not have the length that its header gives.
Parsable(c) == c.is = "firmware" /\ KindOf(c) # "no data"

\* ParseFile, or IsFileCompressed and LzssDecompress.  PatchKernelFile goes on with
\* encryptedData, which nothing sets.
Parse(p) ==
    /\ At(p, "parse")
    /\ CASE Command(p) = "decrypt" ->
              IF Parsable(proc[p].mapped) THEN Goto(p, "decrypt") ELSE Return(p, "failed")
         [] Command(p) = "patch" -> Return(p, "failed")
         [] Command(p) = "parse" -> Return(p, "ok")
         [] Command(p) = "decompress" ->
              IF proc[p].mapped = Compressed
              THEN Set(p, [proc[p] EXCEPT !.pc = "write", !.buffer = Decompressed])
              ELSE Return(p, "ok")
    /\ Calm
    /\ UNCHANGED <<disk, runs, crashes>>

Key(r) == [base |-> r.base, area |-> r.area]

\* DecryptIMG3Data.  When LzssDecompress refuses the data it is freed, but the caller
\* keeps it.
Decrypt(p) ==
    /\ At(p, "decrypt")
    /\ LET key == Key(proc[p].run)
           data == IF KindOf(proc[p].mapped) = "short" THEN Freed
                   ELSE Decrypted(proc[p].mapped, key)
       IN
       \/ /\ key \notin NoKey
          /\ Set(p, [proc[p] EXCEPT !.pc = "write", !.buffer = data])
          /\ Calm
       \/ /\ key \in NoKey
          /\ Return(p, "failed")
          /\ Calm
       \/ /\ Fault(p)
          /\ Return(p, "failed")
    /\ UNCHANGED <<disk, runs, crashes>>

\* Mutant: the output is opened without emptying it.
WriteBegin_kept(p) ==
    /\ At(p, "write")
    /\ \/ /\ disk' = [disk EXCEPT ![Output(proc[p].run)] = IF @ = None THEN Partial(p) ELSE @]
          /\ Goto(p, "writing")
          /\ Calm
       \/ /\ Fault(p)
          /\ Goto(p, "release")
          /\ UNCHANGED disk
    /\ UNCHANGED <<runs, crashes>>

\* WriteDataToFile: opens the output, which empties it.
WriteBegin(p) ==
    /\ At(p, "write")
    /\ \/ /\ disk' = [disk EXCEPT ![Output(proc[p].run)] = Partial(p)]
          /\ Goto(p, "writing")
          /\ Calm
       \/ /\ Fault(p)
          /\ Goto(p, "release")
          /\ UNCHANGED disk
    /\ UNCHANGED <<runs, crashes>>

\* Another run writes to the file as well, or has opened it since this one did.
Shared(p) ==
    LET out == Output(proc[p].run) IN
    \/ disk[out] # Partial(p)
    \/ \E q \in Process \ {p} : At(q, "writing") /\ Output(proc[q].run) = out

\* A write puts content in the file, or some of its own data amid another run's.
Leaves(p, content) ==
    \E c \in {content} \cup (IF Shared(p) THEN {Mixed} ELSE {}) :
        disk' = [disk EXCEPT ![Output(proc[p].run)] = c]

\* The data is written where it belongs, also when another run has emptied the file or
\* written to it meanwhile; or the write fails after some of it.  Nobody looks at the
\* result.
WriteEnd(p) ==
    /\ At(p, "writing")
    /\ Goto(p, "release")
    /\ \/ Leaves(p, proc[p].buffer) /\ Calm
       \/ Leaves(p, disk[Output(proc[p].run)]) /\ Fault(p)
    /\ UNCHANGED <<runs, crashes>>

\* Mutant: the file is not taken off the list.
Release_kept(p) ==
    /\ At(p, "release")
    /\ Set(p, [proc[p] EXCEPT !.pc = "next", !.mapped = None, !.buffer = None])
    /\ Calm
    /\ UNCHANGED <<disk, runs, crashes>>

\* Mutant: the file stays mapped.
Release_mapped(p) ==
    /\ At(p, "release")
    /\ Set(p, [proc[p] EXCEPT !.pc = "next", !.files = Tail(@), !.buffer = None])
    /\ Calm
    /\ UNCHANGED <<disk, runs, crashes>>

\* The buffer is freed and the file unmapped; memory that was freed is freed again.
Release(p) ==
    /\ At(p, "release")
    /\ \/ IF Command(p) = "decompress" THEN Return(p, "ok")
          ELSE Set(p, [proc[p] EXCEPT !.pc = "next", !.files = Tail(@),
                                      !.mapped = None, !.buffer = None])
       \/ proc[p].buffer = Freed /\ Abort(p)
    /\ Calm
    /\ UNCHANGED <<disk, runs, crashes>>

\* A run is killed, its unzip with it, also amid a write.
Crash(p) ==
    /\ ~At(p, "idle")
    /\ crashes < MaxCrashes
    /\ crashes' = crashes + 1
    /\ Set(p, [Idle EXCEPT !.result = "killed"])
    /\ IF At(p, "writing") THEN Leaves(p, disk[Output(proc[p].run)]) ELSE UNCHANGED disk
    /\ UNCHANGED <<disturbed, runs, faults>>

-----------------------------------------------------------------------------
Step(p) ==
    \/ AnalyzeFile(p)
    \/ UnzipBegin(p) \/ UnzipEnd(p) \/ ForkFails(p) \/ ExtractDone(p)
    \/ NextFile(p) \/ OpenPatch(p) \/ Map(p) \/ Parse(p) \/ Decrypt(p)
    \/ WriteBegin(p) \/ WriteEnd(p) \/ Release(p)

Next == \E p \in Process : (\E r \in Run : Start(p, r)) \/ Step(p) \/ Crash(p)

Spec == Init /\ [][Next]_vars

\* A run that is active keeps being scheduled; nobody has to start one.
FairSpec == Spec /\ \A p \in Process : WF_vars(Step(p))

-----------------------------------------------------------------------------
Content ==
    {None, Archive, BrokenArchive, Compressed, Decompressed, Mixed, Freed}
    \cup {Partial(p) : p \in Process}
    \cup UNION {{Firmware(a, i) : i \in DOMAIN Member[a]} : a \in DOMAIN Member}

AnyContent == Content \cup {Decrypted(c, k) : c \in Content, k \in [base: Base, area: Area]}

State ==
    [pc: {"idle", "analyze", "extract", "unzip", "next", "open", "map", "parse",
          "decrypt", "write", "writing", "release"},
     run: Run \cup {NoRun}, todo: SUBSET Nat, files: Seq(Base \cup {NoName}),
     mapped: AnyContent, buffer: AnyContent,
     result: {"none", "ok", "failed", "crashed", "killed"}]

\* The types; a file is mapped, and a buffer held, exactly where the code goes on to
\* use or release them.
TypeOK ==
    /\ disk \in [File -> AnyContent]
    /\ proc \in [Process -> State]
    /\ \A p \in Process :
          /\ proc[p].run = NoRun <=> At(p, "idle")
          /\ proc[p].mapped # None =>
                proc[p].pc \in {"parse", "decrypt", "write", "writing", "release"}
          /\ proc[p].buffer # None <=> proc[p].pc \in {"write", "writing", "release"}
    /\ disturbed \subseteq Process
    /\ runs \in 0..MaxRuns /\ faults \in 0..MaxFaults /\ crashes \in 0..MaxCrashes

(* ----- Properties ------------------------------------------------------ *)

\* The file a decryption of c in run r can come from, by its name alone.
NamedFor(c, r) ==
    \/ MemberIn(c).name = r.base
    \/ /\ r.base \in DOMAIN Member
       /\ \E i \in DOMAIN Member[r.base] :
             /\ Member[r.base][i].name = MemberIn(c).name
             /\ r.area \in Member[r.base][i].area

\* One whole firmware file, of a name that was asked for.
Whole(c, r) == c.is = "firmware" /\ NamedFor(c, r)

\* A short member that decrypt can come to from this file.
HasShort(base) ==
    \E a \in DOMAIN Member, area \in Area : \E i \in DOMAIN Member[a] :
        Member[a][i].kind = "short" /\ Whole(Firmware(a, i), [base |-> base, area |-> area])

\* What can be in an output.  Decrypted data is that of one whole firmware file, never
\* of one that unzip had not finished, of an output or of two members; it is in the
\* file named for the archive and has the key of the area that was asked for, and only
\* a member of a name that was asked for can be in it.  Freed memory is in an output
\* only for an archive with a short member, and a cut-off one is being written or is
\* left by a call that failed or a run that was killed.  What else there is is the
\* mixture that OnlyOverlapsMix is about.
OutputsAreWhole ==
    \A f \in File :
        LET c == disk[f] IN
        /\ c.is = "decrypted" =>
              Whole(c.from, c.key) /\ f = <<c.key.base, "_decrypted">>
        /\ c = Decompressed => f[2] = "_decompressed"
        /\ c = Freed => f[2] = "_decrypted" /\ HasShort(f[1])
        /\ f[2] \in {"_decrypted", "_decompressed"} =>
              \/ c \in {None, Decompressed, Freed, Mixed} \/ c.is = "decrypted"
              \/ \E p \in Process :
                    /\ c = Partial(p)
                    /\ (At(p, "writing") /\ f = Output(proc[p].run)) \/ faults + crashes > 0

\* Data of two runs comes together in a file only when one that writes to it was
\* disturbed: it and another at its files were active at the same time, or a call of its
\* own failed.  It does so never by the members that one run goes through, by one run
\* after another, or by what a failed or killed run has left.
OnlyOverlapsMix ==
    [][\A f \in File :
          disk'[f] = Mixed /\ disk[f] # Mixed =>
              \E p \in disturbed : At(p, "writing") /\ Output(proc[p].run) = f]_vars

\* What a run should go through: its file as it is, or the members of its area.
Asked(p) ==
    LET r == proc[p].run IN
    IF r.base \in DOMAIN Member
    THEN {Firmware(r.base, i) : i \in Matches(r.base, r.area)}
    ELSE {disk[Input(p)]}

\* The one of them that is gone through last.
LastAsked(p) ==
    LET r == proc[p].run IN
    IF r.base \in DOMAIN Member THEN Firmware(r.base, Max(Matches(r.base, r.area)))
    ELSE disk[Input(p)]

\* A run that met no fault, and no other run at its files, and reports success has
\* done what it was asked for, whatever earlier runs, killed ones among them, have
\* left in the directory: extract has put every member of the area in place, and the
\* output of decrypt holds the data of the last of them (each overwrites the one
\* before), from this archive and not from one with a member of that name.
SuccessIsDone ==
    [][\A p \in Process :
          /\ ~At(p, "idle") /\ proc'[p].pc = "idle" /\ proc'[p].result = "ok"
          /\ p \notin disturbed'
          /\ Asked(p) # {}
          =>
          /\ Command(p) = "extract" /\ OfArea(p) =>
                \A c \in Asked(p) : disk'[<<MemberIn(c).name, "">>] = c
          /\ Command(p) = "decrypt" /\ KindOf(LastAsked(p)) # "short" =>
                disk'[Output(proc[p].run)] = Decrypted(LastAsked(p), Key(proc[p].run))]_vars

\* "Successfully extracted the file %s from the archive %s.": when ExtractFiles lists
\* a file as extracted, the file is there.
SaidExtracted ==
    [][\A p \in Process :
          /\ proc[p].pc \in {"extract", "unzip"}
          /\ Len(proc'[p].files) > Len(proc[p].files)
          => proc'[p].files = Append(proc[p].files, Place(p)[1]) /\ disk'[Place(p)] = Current(p)]_vars

\* Every command ends, whatever it finds and whatever others do to its files.
EveryCommandEnds == \A p \in Process : ~At(p, "idle") ~> At(p, "idle")
=============================================================================
