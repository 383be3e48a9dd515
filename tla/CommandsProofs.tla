--------------------------- MODULE CommandsProofs ---------------------------
(***************************************************************************)
(* Theorems about the commands, for any number of processes, commands,     *)
(* faults and kills, and any archives.                                     *)
(***************************************************************************)
EXTENDS Commands, ExtremaProofs, SequenceTheorems

(* The inductive invariant has one part for each process, one for each     *)
(* file, and the bounds.                                                   *)

\* The names that can be on a command's list of files.
Allowed(r) ==
    {NoName, r.base} \cup
    {Member[r.base][i].name :
        i \in IF r.base \in DOMAIN Member THEN Matches(r.base, r.area) ELSE {}}

\* A process in state s is where its command can be, with members that are left in its
\* archive, files it was told to take, and memory of a file it may have taken.
Sound(s) ==
    /\ s.run = NoRun <=> s.pc = "idle"
    /\ s.mapped # None => s.pc \in {"parse", "decrypt", "write", "writing", "release"}
    /\ s.buffer # None <=> s.pc \in {"write", "writing", "release"}
    /\ s.pc # "idle" => s.run \in Run /\ s.files \in Seq(Allowed(s.run))
    /\ s.pc = "analyze" => s.run.command \notin {"parse", "decompress"}
    /\ s.pc \in {"extract", "unzip"} =>
          /\ s.run.command \in {"extract", "decrypt", "patch"}
          /\ s.run.base \in DOMAIN Member
          /\ s.todo \subseteq Matches(s.run.base, s.run.area)
    /\ s.pc = "unzip" => s.todo # {}
    /\ s.pc = "next" => s.run.command \in {"decrypt", "patch"}
    /\ s.pc = "open" => s.run.command = "patch"
    /\ s.pc \in {"map", "parse"} =>
          s.run.command \in {"decrypt", "patch", "parse", "decompress"}
    /\ s.pc \in {"open", "map", "parse", "decrypt", "write", "writing", "release"} =>
          s.files # <<>>
    /\ s.pc \in {"parse", "decrypt"} /\ s.run.command = "decrypt" /\ s.mapped.is = "firmware"
          => NamedFor(s.mapped, Key(s.run))
    /\ s.pc = "decrypt" => s.run.command = "decrypt" /\ s.mapped.is = "firmware"
    /\ s.pc \in {"write", "writing", "release"} =>
          /\ s.run.command \in {"decrypt", "decompress"}
          /\ \/ s.buffer.is = "decrypted"
             \/ s.buffer = Freed /\ s.run.command = "decrypt" /\ HasShort(s.run.base)
             \/ s.buffer = Decompressed /\ s.run.command = "decompress"
    /\ s.buffer.is = "decrypted" =>
          /\ s.run.command = "decrypt"
          /\ s.buffer.from.is = "firmware"
          /\ s.buffer.key = Key(s.run)
          /\ NamedFor(s.buffer.from, s.buffer.key)

ProcOK ==
    /\ proc \in [Process -> State]
    /\ \A p \in Process : Sound(proc[p])

\* An archive is one from the start, a member stands under its own name, decrypted
\* data and what else the commands write where it belongs, and in an output nothing
\* but that.
WellPlaced(f, c) ==
    /\ c.is = "archive" => f[1] \in DOMAIN Member
    /\ c.is = "firmware" => f = <<MemberIn(c).name, "">>
    /\ c.is = "decrypted" => Whole(c.from, c.key) /\ f = <<c.key.base, "_decrypted">>
    /\ c = Decompressed => f[2] = "_decompressed"
    /\ c = Freed => f[2] = "_decrypted" /\ HasShort(f[1])
    /\ f[2] \in {"_decrypted", "_decompressed"} =>
          \/ c \in {None, Decompressed, Freed, Mixed} \/ c.is = "decrypted"
          \/ \E p \in Process : c = Partial(p)

DiskOK ==
    /\ disk \in [File -> AnyContent]
    /\ \A f \in File : WellPlaced(f, disk[f])

Bounds ==
    /\ disturbed \subseteq Process
    /\ runs \in 0..MaxRuns /\ faults \in 0..MaxFaults /\ crashes \in 0..MaxCrashes

Inv == ProcOK /\ DiskOK /\ Bounds

-----------------------------------------------------------------------------
(* Members, contents and files. *)

LEMMA MemberFacts ==
    ASSUME NEW a \in DOMAIN Member, NEW i \in DOMAIN Member[a]
    PROVE  /\ a \in Base
           /\ i \in Nat
           /\ Member[a][i].name \in Base
           /\ Firmware(a, i) \in Content
           /\ Firmware(a, i).is = "firmware"
           /\ MemberIn(Firmware(a, i)) = Member[a][i]
<1> DEFINE M == [name: Base, area: SUBSET Area, kind: Kind]
<1>1. a \in Base /\ Member[a] \in Seq(M)
  BY CommandsAssumption
<1>2. i \in Nat /\ Member[a][i] \in M
  <2> HIDE DEF M
  <2> DEFINE m == Member[a]
  <2>1. m \in Seq(M) /\ i \in DOMAIN m
    BY <1>1
  <2> HIDE DEF m
  <2>2. Len(m) \in Nat /\ m \in [1..Len(m) -> M] /\ DOMAIN m = 1..Len(m)
    BY <2>1, LenProperties
  <2>3. i \in Nat /\ m[i] \in M
    BY <2>1, <2>2
  <2> QED
    BY <2>3 DEF m
<1>3. Firmware(a, i) \in Content
  BY DEF Content
<1> QED
  BY <1>1, <1>2, <1>3 DEF Firmware, MemberIn

\* What kinds of content look like.
LEMMA ContentFacts ==
    ASSUME NEW c \in AnyContent
    PROVE  /\ c.is = "firmware" => c \in Content
           /\ c.is = "decrypted" => c.key \in [base: Base, area: Area]
<1>1. CASE c \in Content
  BY <1>1 DEF Content, None, Archive, BrokenArchive, Compressed, Decompressed, Mixed, Freed,
              Partial, Firmware
<1>2. CASE c \in {Decrypted(d, k) : d \in Content, k \in [base: Base, area: Area]}
  BY <1>2 DEF Decrypted
<1> QED
  BY <1>1, <1>2 DEF AnyContent

LEMMA PlainContent ==
    /\ {None, Archive, BrokenArchive, Compressed, Decompressed, Mixed, Freed} \subseteq AnyContent
    /\ \A c \in {None, BrokenArchive, Compressed, Decompressed, Mixed, Freed} :
          c.is \notin {"archive", "firmware", "decrypted"}
    /\ \A p \in Process : /\ Partial(p) \in AnyContent
                          /\ Partial(p).is \notin {"archive", "firmware", "decrypted"}
<1>1. Content \subseteq AnyContent
  BY DEF AnyContent
<1>2. {None, Archive, BrokenArchive, Compressed, Decompressed, Mixed, Freed} \subseteq Content
  BY DEF Content
<1>3. \A p \in Process : Partial(p) \in Content
  BY DEF Content
<1>4. \A c \in {None, BrokenArchive, Compressed, Decompressed, Mixed, Freed} :
         c.is \notin {"archive", "firmware", "decrypted"}
  BY DEF None, BrokenArchive, Compressed, Decompressed, Mixed, Freed
<1>5. \A p \in Process : Partial(p).is \notin {"archive", "firmware", "decrypted"}
  BY DEF Partial
<1> QED
  BY <1>1, <1>2, <1>3, <1>4, <1>5

LEMMA FileFacts ==
    /\ \A n \in Base : <<n, "">> \in File
    /\ \A r \in Run : Output(r) \in File
    /\ \A r \in Run : r.base \in Base
    /\ \A r \in Run : r.command = "decrypt" =>
          /\ Output(r) = <<r.base, "_decrypted">>
          /\ r.area \in Area
          /\ Key(r) \in [base: Base, area: Area]
BY DEF File, Output, Run, Key

-----------------------------------------------------------------------------
(* One process takes another state, one file another content.              *)

LEMMA Kept ==
    ASSUME ProcOK, NEW p \in Process, NEW s \in State, Sound(s), Set(p, s)
    PROVE  ProcOK'
<1>1. proc' \in [Process -> State]
  BY DEF ProcOK, Set
<1>2. \A q \in Process : proc'[q] = IF q = p THEN s ELSE proc[q]
  BY DEF ProcOK, Set
<1>3. \A q \in Process : Sound(proc'[q])
  BY <1>2 DEF ProcOK
<1> QED
  BY <1>1, <1>3 DEF ProcOK

\* A process without a command holds nothing.
LEMMA IdleSound ==
    ASSUME NEW res \in {"none", "ok", "failed", "crashed", "killed"}
    PROVE  /\ [Idle EXCEPT !.result = res] \in State
           /\ Sound([Idle EXCEPT !.result = res])
<1> DEFINE s == [Idle EXCEPT !.result = res]
<1>1. s = [pc |-> "idle", run |-> NoRun, todo |-> {}, files |-> <<>>,
           mapped |-> None, buffer |-> None, result |-> res]
  BY DEF Idle
<1>2. None \in AnyContent /\ None.is = "none"
  BY PlainContent DEF None
<1>3. <<>> \in Seq(Base \cup {NoName})
  BY EmptySeq
<1>4. s \in State
  BY <1>1, <1>2, <1>3 DEF State
<1>5. Sound(s)
  BY <1>1, <1>2 DEF Sound
<1> QED
  BY <1>4, <1>5

LEMMA Ends ==
    ASSUME ProcOK, NEW p \in Process, NEW res \in {"ok", "failed"},
           Return(p, res) \/ Abort(p)
    PROVE  ProcOK'
<1>1. PICK end \in {"ok", "failed", "crashed"} : Set(p, [Idle EXCEPT !.result = end])
  BY DEF Return, Abort
<1> QED
  BY <1>1, IdleSound, Kept

LEMMA GivesUp ==
    ASSUME ProcOK, NEW p \in Process, GiveUp(p)
    PROVE  ProcOK'
BY Ends DEF GiveUp

LEMMA FileSet ==
    ASSUME DiskOK, NEW f \in File, NEW c \in AnyContent, WellPlaced(f, c),
           disk' = [disk EXCEPT ![f] = c]
    PROVE  DiskOK'
<1>1. disk' \in [File -> AnyContent]
  BY DEF DiskOK
<1>2. \A g \in File : disk'[g] = IF g = f THEN c ELSE disk[g]
  BY DEF DiskOK
<1>3. \A g \in File : WellPlaced(g, disk'[g])
  BY <1>2 DEF DiskOK
<1> QED
  BY <1>1, <1>3 DEF DiskOK

\* A file that a process has begun to write is no member and no decrypted data.
LEMMA PartialSet ==
    ASSUME DiskOK, NEW f \in File, NEW p \in Process, disk' = [disk EXCEPT ![f] = Partial(p)]
    PROVE  DiskOK'
<1>1. Partial(p) \in AnyContent /\ Partial(p).is \notin {"archive", "firmware", "decrypted"}
  BY PlainContent
<1>2. Partial(p) # Freed /\ Partial(p) # Decompressed
  BY DEF Partial, Freed, Decompressed
<1>3. WellPlaced(f, Partial(p))
  BY <1>1, <1>2 DEF WellPlaced
<1> QED
  BY <1>1, <1>3, FileSet

LEMMA SameDisk ==
    ASSUME DiskOK, UNCHANGED disk
    PROVE  DiskOK'
BY DEF DiskOK

LEMMA SameBounds ==
    ASSUME Bounds, NEW p \in Process, Calm \/ Fault(p), UNCHANGED <<runs, crashes>>
    PROVE  Bounds'
BY CommandsAssumption DEF Bounds, Calm, Fault

-----------------------------------------------------------------------------
(* The initial state, and each action. *)

LEMMA InitInv == Init => Inv
<1> SUFFICES ASSUME Init PROVE Inv
  OBVIOUS
<1>1. ProcOK
  <2>1. Idle = [Idle EXCEPT !.result = "none"]
    BY DEF Idle
  <2>2. Idle \in State /\ Sound(Idle)
    BY <2>1, IdleSound
  <2> QED
    BY <2>2 DEF Init, ProcOK
<1>2. DiskOK
  <2>1. \A f \in File : \/ disk[f] \in {None, BrokenArchive, Compressed}
                        \/ disk[f] = Archive /\ f[1] \in DOMAIN Member
    BY DEF Init
  <2>2. \A f \in File : /\ disk[f] \in AnyContent
                        /\ disk[f].is \notin {"firmware", "decrypted"}
                        /\ disk[f].is = "archive" => f[1] \in DOMAIN Member
                        /\ disk[f] # Freed /\ disk[f] # Decompressed
                        /\ f[2] # "" => disk[f] = None
    <3>1. \A c \in {None, BrokenArchive, Compressed, Archive} : c # Freed /\ c # Decompressed
      BY DEF None, BrokenArchive, Compressed, Archive, Freed, Decompressed
    <3>2. \A f \in File : f[2] # "" => disk[f] = None
      BY DEF Init
    <3>3. \A f \in File : disk[f] # Freed /\ disk[f] # Decompressed
      BY <2>1, <3>1
    <3>4. \A f \in File : /\ disk[f] \in AnyContent
                          /\ disk[f].is \notin {"firmware", "decrypted"}
                          /\ disk[f].is = "archive" => f[1] \in DOMAIN Member
      BY <2>1, PlainContent DEF Archive
    <3> QED
      BY <3>2, <3>3, <3>4
  <2>3. disk \in [File -> AnyContent]
    BY <2>2 DEF Init
  <2> QED
    BY <2>2, <2>3 DEF DiskOK, WellPlaced
<1>3. Bounds
  <2>1. MaxRuns \in Nat /\ MaxFaults \in Nat /\ MaxCrashes \in Nat
    BY CommandsAssumption
  <2>2. disturbed = {} /\ runs = 0 /\ faults = 0 /\ crashes = 0
    BY DEF Init
  <2> QED
    BY <2>1, <2>2 DEF Bounds
<1> QED
  BY <1>1, <1>2, <1>3 DEF Inv

LEMMA StartInv ==
    ASSUME Inv, NEW p \in Process, NEW r \in Run, Start(p, r)
    PROVE  Inv'
<1> USE DEF Inv
<1> DEFINE from == IF r.command \in {"parse", "decompress"} THEN "map" ELSE "analyze"
           queue == IF from = "map" THEN <<r.base>> ELSE <<>>
           s == [Idle EXCEPT !.pc = from, !.run = r, !.files = queue]
<1>1. Set(p, s)
  BY DEF Start
<1> HIDE DEF from, queue
<1>2. /\ s.pc = from /\ s.run = r /\ s.files = queue
      /\ s.mapped = None /\ s.buffer = None
  BY DEF Idle
<1>3. r.base \in Base /\ r # NoRun
  BY DEF Run, NoRun
<1>4. /\ queue \in Seq(Allowed(r)) /\ queue \in Seq(Base \cup {NoName})
      /\ from = "map" => queue # <<>>
  <2>1. r.base \in Allowed(r)
    BY DEF Allowed
  <2>2. CASE from = "map"
    BY <2>1, <2>2, <1>3 DEF queue
  <2>3. CASE from # "map"
    BY <2>3, EmptySeq DEF queue
  <2> QED
    BY <2>2, <2>3
<1>6. None \in AnyContent /\ None.is = "none"
  BY PlainContent DEF None
<1>7. from \in {"map", "analyze"} /\ (from = "map" <=> r.command \in {"parse", "decompress"})
  BY DEF from
<1>8. s \in State
  BY <1>4, <1>6, <1>7 DEF State, Idle
<1>9. Sound(s)
  BY <1>2, <1>3, <1>4, <1>6, <1>7 DEF Sound
<1>10. ProcOK'
  BY <1>1, <1>8, <1>9, Kept
<1>11. DiskOK'
  BY SameDisk DEF Start
<1>12. Bounds'
  BY CommandsAssumption DEF Start, Bounds
<1> QED
  BY <1>10, <1>11, <1>12

\* Up to the point where a file is mapped, nothing is mapped and nothing held.
LEMMA EmptyHanded ==
    ASSUME ProcOK, NEW p \in Process,
           proc[p].pc \in {"analyze", "extract", "unzip", "next", "open", "map"}
    PROVE  /\ proc[p].mapped = None /\ proc[p].buffer = None
           /\ None.is = "none"
           /\ proc[p].run \in Run
           /\ proc[p].run # NoRun
           /\ proc[p].run.base \in Base
           /\ proc[p].run.base \in Allowed(proc[p].run)
<1>1. Sound(proc[p])
  BY DEF ProcOK
<1>2. proc[p].run \in Run /\ proc[p].run # NoRun
  BY <1>1 DEF Sound
<1> QED
  BY <1>1, <1>2, FileFacts DEF Sound, None, Allowed

\* A command's archive is one, as long as the file is.
LEMMA ArchiveFacts ==
    ASSUME DiskOK, NEW n \in Base, disk[<<n, "">>] = Archive
    PROVE  n \in DOMAIN Member
<1>1. WellPlaced(<<n, "">>, Archive)
  BY FileFacts DEF DiskOK
<1> QED
  BY <1>1 DEF WellPlaced, Archive

LEMMA MatchFacts ==
    ASSUME NEW n \in DOMAIN Member, NEW area
    PROVE  /\ Matches(n, area) \subseteq DOMAIN Member[n]
           /\ Matches(n, area) \subseteq Nat
<1>1. Matches(n, area) \subseteq DOMAIN Member[n]
  BY DEF Matches
<1>2. \A i \in DOMAIN Member[n] : i \in Nat
  BY MemberFacts
<1> QED
  BY <1>1, <1>2

LEMMA AnalyzeFileInv ==
    ASSUME Inv, NEW p \in Process, AnalyzeFile(p)
    PROVE  Inv'
<1> USE DEF Inv
<1> DEFINE r == proc[p].run
           e == [proc[p] EXCEPT !.pc = "extract", !.todo = Matches(r.base, r.area)]
           n == [proc[p] EXCEPT !.pc = "next", !.files = <<r.base>>]
<1>1. proc[p].pc = "analyze" /\ proc[p] \in State /\ Sound(proc[p])
  BY DEF AnalyzeFile, At, ProcOK
<1>2. /\ proc[p].mapped = None /\ proc[p].buffer = None /\ None.is = "none"
      /\ r \in Run /\ r # NoRun /\ r.base \in Base /\ r.base \in Allowed(r)
      /\ r.command \in {"list", "extract", "decrypt", "patch"}
      /\ proc[p].files \in Seq(Allowed(r))
  <2>1. r.command \notin {"parse", "decompress"} /\ proc[p].files \in Seq(Allowed(r))
    BY <1>1 DEF Sound
  <2> QED
    BY <2>1, <1>1, EmptyHanded DEF Run
<1>3. ASSUME disk[Input(p)] = Archive, r.command # "list", Set(p, e)
      PROVE  ProcOK'
  <2>1. r.base \in DOMAIN Member
    BY <1>2, <1>3, ArchiveFacts DEF Input
  <2>2. Matches(r.base, r.area) \subseteq Nat
    BY <2>1, MatchFacts
  <2>3. e \in State
    BY <1>1, <2>2 DEF State
  <2>4. /\ e.pc = "extract" /\ e.run = r /\ e.files = proc[p].files
        /\ e.todo = Matches(r.base, r.area) /\ e.mapped = None /\ e.buffer = None
    BY <1>1, <1>2 DEF State
  <2> HIDE DEF e, r
  <2>5. Sound(e)
    BY <1>2, <1>3, <2>1, <2>4 DEF Sound
  <2> QED
    BY <1>3, <2>3, <2>5, Kept
<1>4. ASSUME r.command \in {"decrypt", "patch"}, Set(p, n)
      PROVE  ProcOK'
  <2>1. <<r.base>> \in Seq(Allowed(r)) /\ <<r.base>> \in Seq(Base \cup {NoName})
    BY <1>2
  <2>2. n \in State
    BY <1>1, <2>1 DEF State
  <2>3. /\ n.pc = "next" /\ n.run = r /\ n.files = <<r.base>>
        /\ n.mapped = None /\ n.buffer = None
    BY <1>1, <1>2 DEF State
  <2> HIDE DEF n, r
  <2>4. Sound(n)
    BY <1>2, <1>4, <2>1, <2>3 DEF Sound
  <2> QED
    BY <1>4, <2>2, <2>4, Kept
<1>5. ProcOK'
  BY <1>3, <1>4, Ends, GivesUp DEF AnalyzeFile, Command
<1>6. DiskOK'
  BY SameDisk DEF AnalyzeFile
<1>7. Bounds'
  BY SameBounds DEF AnalyzeFile
<1> QED
  BY <1>5, <1>6, <1>7

\* A step that changes nothing but the place in the command.
LEMMA GotoFacts ==
    ASSUME ProcOK, NEW p \in Process,
           NEW step \in {"idle", "analyze", "extract", "unzip", "next", "open", "map", "parse",
                         "decrypt", "write", "writing", "release"}
    PROVE  LET s == [proc[p] EXCEPT !.pc = step] IN
           /\ s \in State
           /\ s.pc = step
           /\ s.run = proc[p].run /\ s.todo = proc[p].todo /\ s.files = proc[p].files
           /\ s.mapped = proc[p].mapped /\ s.buffer = proc[p].buffer
BY DEF ProcOK, State

\* The member at hand is one of the archive's that match.
LEMMA CurrentFacts ==
    ASSUME ProcOK, NEW p \in Process,
           proc[p].pc \in {"extract", "unzip"}, proc[p].todo # {}
    PROVE  /\ Place(p) \in File
           /\ Place(p)[1] \in Base
           /\ Place(p)[1] \in Allowed(proc[p].run)
           /\ Current(p) \in AnyContent
           /\ WellPlaced(Place(p), Current(p))
<1> DEFINE r == proc[p].run
           i == Min(proc[p].todo)
<1>1. r.base \in DOMAIN Member /\ proc[p].todo \subseteq Matches(r.base, r.area)
  BY DEF ProcOK, Sound
<1>2. i \in proc[p].todo
  BY <1>1, MatchFacts, MinIn
<1>3. i \in Matches(r.base, r.area) /\ i \in DOMAIN Member[r.base]
  BY <1>1, <1>2, MatchFacts
<1> HIDE DEF i
<1>4. Current(p) = Firmware(r.base, i)
  BY DEF Current, i
<1>5. /\ Member[r.base][i].name \in Base
      /\ Firmware(r.base, i) \in Content
      /\ Firmware(r.base, i).is = "firmware"
      /\ MemberIn(Firmware(r.base, i)) = Member[r.base][i]
  BY <1>1, <1>3, MemberFacts
<1>6. Place(p) = <<Member[r.base][i].name, "">>
  BY <1>4, <1>5 DEF Place
<1>7. Place(p)[1] = Member[r.base][i].name
  <2>1. \A n, m : <<n, m>>[1] = n
    OBVIOUS
  <2> QED
    BY <2>1, <1>6
<1>8. Member[r.base][i].name \in Allowed(r)
  BY <1>1, <1>3 DEF Allowed
<1>9. Current(p) \in AnyContent
  BY <1>4, <1>5 DEF AnyContent
<1>10. WellPlaced(Place(p), Current(p))
  <2>1. Place(p)[2] = ""
    <3>1. <<Member[r.base][i].name, "">>[2] = ""
      OBVIOUS
    <3> QED
      BY ONLY <3>1, <1>6
  <2>2. Current(p).is = "firmware" /\ MemberIn(Current(p)) = Member[r.base][i]
    BY <1>4, <1>5
  <2>3. Freed.is = "freed" /\ Decompressed.is = "decompressed"
    BY DEF Freed, Decompressed
  <2>4. Current(p) # Freed /\ Current(p) # Decompressed
    BY <2>2, <2>3
  <2>5. Place(p) = <<MemberIn(Current(p)).name, "">>
    BY <1>6, <2>2
  <2> QED
    BY <2>1, <2>2, <2>4, <2>5 DEF WellPlaced
<1>11. Place(p) \in File
  BY <1>5, <1>6, FileFacts
<1> QED
  BY <1>5, <1>7, <1>9, <1>10, <1>8, <1>11

\* A file that counts as extracted has a name the command may meet.
LEMMA ExtractedOK ==
    ASSUME ProcOK, NEW p \in Process,
           proc[p].pc \in {"extract", "unzip"}, proc[p].todo # {},
           NEW name \in {Place(p)[1], NoName}, Extracted(p, name)
    PROVE  ProcOK'
<1> DEFINE t == proc[p]
           files == IF OfArea(p) THEN Append(t.files, name) ELSE t.files
           s == [t EXCEPT !.pc = "extract", !.todo = @ \ {Min(@)}, !.files = files]
<1>1. t \in State /\ Sound(t)
  BY DEF ProcOK
<1>2. Set(p, s)
  BY DEF Extracted
<1>3. name \in Allowed(t.run) /\ name \in Base \cup {NoName}
  BY CurrentFacts DEF Allowed
<1>4. t.files \in Seq(Allowed(t.run)) /\ t.files \in Seq(Base \cup {NoName})
  BY <1>1 DEF Sound, State
<1>5. files \in Seq(Allowed(t.run)) /\ files \in Seq(Base \cup {NoName})
  <2>1. CASE OfArea(p)
    BY <2>1, <1>3, <1>4, AppendProperties
  <2>2. CASE ~OfArea(p)
    BY <2>2, <1>4
  <2> QED
    BY <2>1, <2>2
<1>6. /\ t.mapped = None /\ t.buffer = None /\ None.is = "none"
      /\ t.run \in Run /\ t.run # NoRun
  BY EmptyHanded
<1> HIDE DEF files
<1>7. s \in State
  BY <1>1, <1>5 DEF State
<1>8. /\ s.pc = "extract" /\ s.run = t.run /\ s.files = files
      /\ s.todo \subseteq t.todo /\ s.mapped = None /\ s.buffer = None
  BY <1>1, <1>6 DEF State
<1> HIDE DEF s
<1>9. Sound(s)
  BY <1>1, <1>5, <1>6, <1>8 DEF Sound
<1> QED
  BY <1>2, <1>7, <1>9, Kept

\* What is said of a command that extracts, once it unzips a member or is past the last.
LEMMA StaysSound ==
    ASSUME NEW t, NEW s, Sound(t), t.pc = "extract",
           s.run = t.run, s.todo = t.todo, s.files = t.files, s.mapped = t.mapped, s.buffer = t.buffer,
           \/ s.pc = "unzip" /\ t.todo # {}
           \/ s.pc = "next" /\ t.run.command # "extract"
    PROVE  Sound(s)
<1>1. /\ t.mapped = None /\ t.buffer = None /\ t.run # NoRun
      /\ t.run \in Run /\ t.files \in Seq(Allowed(t.run))
      /\ t.run.command \in {"extract", "decrypt", "patch"}
      /\ t.run.base \in DOMAIN Member /\ t.todo \subseteq Matches(t.run.base, t.run.area)
      /\ t.buffer.is = "decrypted" =>
            /\ t.run.command = "decrypt" /\ t.buffer.from.is = "firmware"
            /\ t.buffer.key = Key(t.run) /\ NamedFor(t.buffer.from, t.buffer.key)
  BY DEF Sound
<1>2. CASE s.pc = "unzip" /\ t.todo # {}
  BY <1>1, <1>2 DEF Sound
<1>3. CASE s.pc = "next" /\ t.run.command # "extract"
  BY <1>1, <1>3 DEF Sound
<1> QED
  BY <1>2, <1>3

LEMMA UnzipBeginInv ==
    ASSUME Inv, NEW p \in Process, UnzipBegin(p)
    PROVE  Inv'
<1> USE DEF Inv
<1>1. proc[p].pc = "extract" /\ proc[p].todo # {} /\ Sound(proc[p])
  BY DEF UnzipBegin, At, ProcOK
<1>2. CASE Goto(p, "unzip") /\ disk' = [disk EXCEPT ![Place(p)] = Partial(p)]
  <2> DEFINE s == [proc[p] EXCEPT !.pc = "unzip"]
  <2>1. /\ s \in State /\ s.pc = "unzip" /\ s.run = proc[p].run /\ s.todo = proc[p].todo
        /\ s.files = proc[p].files /\ s.mapped = proc[p].mapped /\ s.buffer = proc[p].buffer
    BY GotoFacts, ZenonT(60)
  <2>2. Set(p, s)
    BY <1>2 DEF Goto
  <2> HIDE DEF s
  <2>3. Sound(s)
    <3>1. PICK t : t = proc[p]
      OBVIOUS
    <3>2. /\ Sound(t) /\ t.pc = "extract" /\ t.todo # {}
          /\ s.run = t.run /\ s.todo = t.todo /\ s.files = t.files /\ s.mapped = t.mapped /\ s.buffer = t.buffer
      BY <1>1, <2>1, <3>1, Zenon
    <3> QED
      BY <2>1, <3>2, StaysSound, Zenon
  <2>4. ProcOK'
    BY <2>1, <2>2, <2>3, Kept
  <2>5. DiskOK'
    BY <1>1, <1>2, CurrentFacts, PartialSet
  <2> QED
    BY <2>4, <2>5, SameBounds DEF UnzipBegin
<1>3. CASE UNCHANGED disk /\ \E name \in {Place(p)[1], NoName} : Extracted(p, name)
  <2>1. ProcOK'
    BY <1>1, <1>3, ExtractedOK
  <2>2. DiskOK'
    BY <1>3, SameDisk
  <2> QED
    BY <2>1, <2>2, SameBounds DEF UnzipBegin
<1> QED
  BY <1>2, <1>3 DEF UnzipBegin

LEMMA UnzipEndInv ==
    ASSUME Inv, NEW p \in Process, UnzipEnd(p)
    PROVE  Inv'
<1> USE DEF Inv
<1>1. proc[p].pc = "unzip" /\ proc[p].todo # {}
  BY DEF UnzipEnd, At, ProcOK, Sound
<1>2. ProcOK'
  BY <1>1, ExtractedOK DEF UnzipEnd
<1>3. DiskOK'
  <2>1. CASE disk' = [disk EXCEPT ![Place(p)] = Current(p)]
    BY <2>1, <1>1, CurrentFacts, FileSet
  <2>2. CASE UNCHANGED disk
    BY <2>2, SameDisk
  <2> QED
    BY <2>1, <2>2 DEF UnzipEnd
<1>4. Bounds'
  BY SameBounds DEF UnzipEnd
<1> QED
  BY <1>2, <1>3, <1>4

LEMMA ForkFailsInv ==
    ASSUME Inv, NEW p \in Process, ForkFails(p)
    PROVE  Inv'
<1>1. ProcOK'
  BY Ends DEF Inv, ForkFails
<1> QED
  BY <1>1, SameDisk, SameBounds DEF Inv, ForkFails

LEMMA ExtractDoneInv ==
    ASSUME Inv, NEW p \in Process, ExtractDone(p)
    PROVE  Inv'
<1> USE DEF Inv
<1>1. proc[p].pc = "extract" /\ Sound(proc[p])
  BY DEF ExtractDone, At, ProcOK
<1>2. CASE Command(p) = "extract"
  <2>1. ProcOK'
    BY <1>2, Ends DEF ExtractDone
  <2> QED
    BY <1>2, <2>1, SameDisk, SameBounds DEF ExtractDone
<1>3. CASE Command(p) # "extract"
  <2> DEFINE s == [proc[p] EXCEPT !.pc = "next"]
  <2>1. /\ s \in State /\ s.pc = "next" /\ s.run = proc[p].run /\ s.todo = proc[p].todo
        /\ s.files = proc[p].files /\ s.mapped = proc[p].mapped /\ s.buffer = proc[p].buffer
    BY GotoFacts
  <2>2. Set(p, s)
    BY <1>3 DEF ExtractDone, Goto
  <2> HIDE DEF s
  <2>3. Sound(s)
    BY <1>1, <1>3, <2>1, StaysSound, Zenon DEF Command
  <2>4. ProcOK'
    BY <2>1, <2>2, <2>3, Kept
  <2> QED
    BY <2>4, SameDisk, SameBounds DEF ExtractDone
<1> QED
  BY <1>2, <1>3

LEMMA NextFileInv ==
    ASSUME Inv, NEW p \in Process, NextFile(p)
    PROVE  Inv'
<1> USE DEF Inv
<1>1. proc[p].pc = "next" /\ Sound(proc[p])
  BY DEF NextFile, At, ProcOK
<1>2. CASE proc[p].files = <<>>
  BY <1>2, Ends, SameDisk, SameBounds DEF NextFile
<1>3. CASE proc[p].files # <<>>
  <2>1. PICK step \in {"open", "map"} :
           /\ Set(p, [proc[p] EXCEPT !.pc = step])
           /\ step = "open" <=> Command(p) = "patch"
    BY <1>3 DEF NextFile, Goto
  <2> DEFINE s == [proc[p] EXCEPT !.pc = step]
  <2>2. /\ s \in State /\ s.pc = step /\ s.run = proc[p].run /\ s.todo = proc[p].todo
        /\ s.files = proc[p].files /\ s.mapped = proc[p].mapped /\ s.buffer = proc[p].buffer
    BY DEF ProcOK, State
  <2>3. Set(p, s)
    BY <2>1
  <2> HIDE DEF s
  <2>4. Sound(s)
    BY <1>1, <1>3, <2>1, <2>2 DEF Sound, Command
  <2>5. ProcOK'
    BY <2>2, <2>3, <2>4, Kept
  <2> QED
    BY <2>5, SameDisk, SameBounds DEF NextFile
<1> QED
  BY <1>2, <1>3

LEMMA OpenPatchInv ==
    ASSUME Inv, NEW p \in Process, OpenPatch(p)
    PROVE  Inv'
<1> USE DEF Inv
<1>1. proc[p].pc = "open" /\ Sound(proc[p]) /\ Output(proc[p].run) \in File
  BY FileFacts DEF OpenPatch, At, ProcOK, Sound
<1>2. DiskOK'
  BY <1>1, PartialSet, SameDisk DEF OpenPatch
<1>3. CASE Goto(p, "map")
  <2> DEFINE s == [proc[p] EXCEPT !.pc = "map"]
  <2>1. /\ s \in State /\ s.pc = "map" /\ s.run = proc[p].run /\ s.todo = proc[p].todo
        /\ s.files = proc[p].files /\ s.mapped = proc[p].mapped /\ s.buffer = proc[p].buffer
    BY GotoFacts
  <2>2. Set(p, s)
    BY <1>3 DEF Goto
  <2> HIDE DEF s
  <2>3. Sound(s)
    BY <1>1, <2>1 DEF Sound
  <2>4. ProcOK'
    BY <2>1, <2>2, <2>3, Kept
  <2> QED
    BY <1>2, <2>4, SameBounds DEF OpenPatch
<1>4. CASE Return(p, "failed")
  BY <1>2, <1>4, Ends, SameBounds DEF OpenPatch
<1> QED
  BY <1>3, <1>4 DEF OpenPatch

\* What is mapped when it is firmware is a member of a name the command may take.
LEMMA MappedFacts ==
    ASSUME ProcOK, DiskOK, NEW p \in Process, proc[p].pc = "map",
           NEW name \in Base, name \in Allowed(proc[p].run), name # NoName
    PROVE  /\ disk[<<name, "">>] \in AnyContent
           /\ /\ proc[p].run.command = "decrypt"
              /\ disk[<<name, "">>].is = "firmware"
              => NamedFor(disk[<<name, "">>], Key(proc[p].run))
<1> DEFINE r == proc[p].run
           c == disk[<<name, "">>]
<1>1. c \in AnyContent /\ WellPlaced(<<name, "">>, c)
  BY FileFacts DEF DiskOK
<1>2. ASSUME r.command = "decrypt", c.is = "firmware"
      PROVE  NamedFor(c, Key(r))
  <2>1. MemberIn(c).name = name
    <3>1. <<name, "">> = <<MemberIn(c).name, "">>
      BY <1>1, <1>2 DEF WellPlaced
    <3> QED
      BY <3>1
  <2>2. r.area \in Area /\ r.area # All
    <3>1. r \in Run
      BY EmptyHanded
    <3> QED
      BY <3>1, <1>2, FileFacts, CommandsAssumption
  <2>3. Key(r).base = r.base /\ Key(r).area = r.area
    BY DEF Key
  <2>4. CASE name = r.base
    BY <2>1, <2>3, <2>4 DEF NamedFor
  <2>5. CASE name \in {Member[r.base][i].name :
                       i \in IF r.base \in DOMAIN Member THEN Matches(r.base, r.area) ELSE {}}
    BY <2>1, <2>2, <2>3, <2>5 DEF NamedFor, Matches
  <2> QED
    BY <2>4, <2>5 DEF Allowed
<1> QED
  BY <1>1, <1>2

LEMMA MapInv ==
    ASSUME Inv, NEW p \in Process, Map(p)
    PROVE  Inv'
<1> USE DEF Inv
<1> DEFINE t == proc[p]
           name == Head(t.files)
           content == IF name = NoName THEN None ELSE disk[<<name, "">>]
           s == [t EXCEPT !.pc = "parse", !.mapped = content]
<1>1. t.pc = "map" /\ t \in State /\ Sound(t)
  BY DEF Map, At, ProcOK
<1>2. /\ t.buffer = None /\ None.is = "none" /\ None \in AnyContent
      /\ t.run \in Run /\ t.run # NoRun
  BY <1>1, EmptyHanded, PlainContent
<1>3. name \in Allowed(t.run) /\ name \in Base \cup {NoName}
  <2>1. t.files \in Seq(Allowed(t.run)) /\ t.files \in Seq(Base \cup {NoName}) /\ t.files # <<>>
    BY <1>1 DEF Sound, State
  <2> QED
    BY <2>1, HeadTailProperties
<1>4. /\ content \in AnyContent
      /\ t.run.command = "decrypt" /\ content.is = "firmware" => NamedFor(content, Key(t.run))
  <2>1. CASE name = NoName
    BY <2>1, <1>2
  <2>2. CASE name # NoName
    BY <2>2, <1>1, <1>3, MappedFacts
  <2> QED
    BY <2>1, <2>2
<1>5. CASE Set(p, s)
  <2> HIDE DEF content
  <2>1. s \in State
    BY <1>1, <1>4 DEF State
  <2>2. /\ s.pc = "parse" /\ s.run = t.run /\ s.files = t.files
        /\ s.mapped = content /\ s.buffer = None
    BY <1>1, <1>2 DEF State
  <2> HIDE DEF s
  <2>3. Sound(s)
    BY <1>1, <1>2, <1>4, <2>2 DEF Sound
  <2>4. ProcOK'
    BY <1>5, <2>1, <2>3, Kept
  <2> QED
    BY <2>4, SameDisk, SameBounds DEF Map
<1>6. CASE Return(p, "failed")
  BY <1>6, Ends, SameDisk, SameBounds DEF Map
<1> QED
  BY <1>5, <1>6 DEF Map

LEMMA ParseInv ==
    ASSUME Inv, NEW p \in Process, Parse(p)
    PROVE  Inv'
<1> USE DEF Inv
<1> DEFINE t == proc[p]
           d == [t EXCEPT !.pc = "decrypt"]
           w == [t EXCEPT !.pc = "write", !.buffer = Decompressed]
<1>1. t.pc = "parse" /\ t \in State /\ Sound(t)
  BY DEF Parse, At, ProcOK
<1>2. /\ t.buffer = None /\ t.run \in Run /\ t.run # NoRun /\ t.files \in Seq(Allowed(t.run))
      /\ t.files # <<>>
      /\ t.run.command \in {"decrypt", "patch", "parse", "decompress"}
      /\ None.is = "none"
  BY <1>1 DEF Sound, Run, NoRun, None
<1>3. CASE Command(p) = "decrypt" /\ Parsable(t.mapped) /\ Set(p, d)
  <2>1. d \in State
    BY <1>1 DEF State
  <2>2. /\ d.pc = "decrypt" /\ d.run = t.run /\ d.files = t.files
        /\ d.mapped = t.mapped /\ d.buffer = None
    BY <1>1, <1>2 DEF State
  <2>3. t.run.command = "decrypt" /\ t.mapped.is = "firmware" /\ NamedFor(t.mapped, Key(t.run))
    BY <1>1, <1>3 DEF Sound, Command, Parsable
  <2> HIDE DEF d
  <2>4. Sound(d)
    BY <1>2, <2>2, <2>3 DEF Sound
  <2> QED
    BY <1>3, <2>1, <2>4, Kept, SameDisk, SameBounds DEF Parse
<1>4. CASE Command(p) = "decompress" /\ Set(p, w)
  <2>1. /\ Decompressed \in AnyContent /\ Decompressed # None
        /\ Decompressed.is \notin {"firmware", "decrypted"}
    BY PlainContent DEF Decompressed, None
  <2>2. w \in State
    BY <1>1, <2>1 DEF State
  <2>3. /\ w.pc = "write" /\ w.run = t.run /\ w.files = t.files
        /\ w.mapped = t.mapped /\ w.buffer = Decompressed
    BY <1>1 DEF State
  <2> HIDE DEF w
  <2>4. Sound(w)
    BY <1>2, <1>4, <2>1, <2>3 DEF Sound, Command
  <2> QED
    BY <1>4, <2>2, <2>4, Kept, SameDisk, SameBounds DEF Parse
<1>5. CASE \E res \in {"ok", "failed"} : Return(p, res)
  BY <1>5, Ends, SameDisk, SameBounds DEF Parse
<1> QED
  <2>1. Command(p) \in {"decrypt", "patch", "parse", "decompress"}
    BY <1>2 DEF Command
  <2> QED
    BY <2>1, <1>3, <1>4, <1>5 DEF Parse, Goto

LEMMA DecryptInv ==
    ASSUME Inv, NEW p \in Process, Decrypt(p)
    PROVE  Inv'
<1> USE DEF Inv
<1> DEFINE t == proc[p]
           key == Key(t.run)
           data == IF KindOf(t.mapped) = "short" THEN Freed ELSE Decrypted(t.mapped, key)
           s == [t EXCEPT !.pc = "write", !.buffer = data]
<1>1. t.pc = "decrypt" /\ t \in State /\ Sound(t)
  BY DEF Decrypt, At, ProcOK
<1>2. /\ t.run \in Run /\ t.run # NoRun /\ t.run.command = "decrypt"
      /\ t.files \in Seq(Allowed(t.run)) /\ t.files # <<>>
      /\ t.mapped.is = "firmware" /\ NamedFor(t.mapped, key)
  BY <1>1 DEF Sound, Run, NoRun
<1>3. t.mapped \in Content /\ key \in [base: Base, area: Area]
  BY <1>1, <1>2, ContentFacts, FileFacts DEF State
<1>4. /\ data \in AnyContent /\ data # None
      /\ data.is = "decrypted" => data.from = t.mapped /\ data.key = key
      /\ data.is = "decrypted" \/ (data = Freed /\ HasShort(t.run.base))
  <2>1. Freed \in AnyContent /\ Freed # None /\ Freed.is \notin {"archive", "firmware", "decrypted"}
    BY PlainContent DEF Freed, None
  <2>2. Decrypted(t.mapped, key) \in AnyContent
    BY <1>3 DEF AnyContent
  <2>3. /\ Decrypted(t.mapped, key) # None /\ Decrypted(t.mapped, key).is = "decrypted"
        /\ Decrypted(t.mapped, key).from = t.mapped /\ Decrypted(t.mapped, key).key = key
    BY DEF Decrypted, None
  <2>4. ASSUME KindOf(t.mapped) = "short" PROVE HasShort(t.run.base)
    <3>1. PICK a \in DOMAIN Member : \E i \in DOMAIN Member[a] : t.mapped = Firmware(a, i)
      BY <1>2, <1>3 DEF Content, None, Archive, BrokenArchive, Compressed, Decompressed, Mixed,
                        Freed, Partial
    <3>2. PICK i \in DOMAIN Member[a] : t.mapped = Firmware(a, i)
      BY <3>1
    <3>3. Member[a][i].kind = "short"
      BY <1>2, <2>4, <3>2, MemberFacts DEF KindOf
    <3>4. t.run.area \in Area /\ key = [base |-> t.run.base, area |-> t.run.area]
      BY <1>2, FileFacts DEF Key
    <3>5. Whole(Firmware(a, i), [base |-> t.run.base, area |-> t.run.area])
      BY <1>2, <3>2, <3>4 DEF Whole
    <3> QED
      BY <3>3, <3>4, <3>5 DEF HasShort
  <2> QED
    BY <2>1, <2>2, <2>3, <2>4
<1>5. CASE Set(p, s)
  <2> HIDE DEF data
  <2>1. s \in State
    BY <1>1, <1>4 DEF State
  <2>2. /\ s.pc = "write" /\ s.run = t.run /\ s.files = t.files
        /\ s.mapped = t.mapped /\ s.buffer = data
    BY <1>1 DEF State
  <2> HIDE DEF s
  <2>3. Sound(s)
    BY <1>2, <1>4, <2>2 DEF Sound
  <2> QED
    BY <1>5, <2>1, <2>3, Kept, SameDisk, SameBounds DEF Decrypt
<1>6. CASE Return(p, "failed")
  BY <1>6, Ends, SameDisk, SameBounds DEF Decrypt
<1> QED
  BY <1>5, <1>6 DEF Decrypt

\* From "write" on, a step to the next place, the output being written or not.
LEMMA OnwardOK ==
    ASSUME ProcOK, NEW p \in Process, proc[p].pc \in {"write", "writing"},
           NEW step \in {"writing", "release"}, Goto(p, step)
    PROVE  ProcOK'
<1> DEFINE t == proc[p]
           s == [t EXCEPT !.pc = step]
<1>1. t \in State /\ Sound(t)
  BY DEF ProcOK
<1>2. /\ s \in State /\ s.pc = step /\ s.run = t.run /\ s.files = t.files
      /\ s.mapped = t.mapped /\ s.buffer = t.buffer
  BY <1>1 DEF State
<1>3. Set(p, s)
  BY DEF Goto
<1> HIDE DEF s
<1>4. Sound(s)
  BY <1>1, <1>2 DEF Sound
<1> QED
  BY <1>2, <1>3, <1>4, Kept

LEMMA WriteBeginInv ==
    ASSUME Inv, NEW p \in Process, WriteBegin(p)
    PROVE  Inv'
<1> USE DEF Inv
<1>1. proc[p].pc = "write" /\ Output(proc[p].run) \in File
  BY FileFacts DEF WriteBegin, At, ProcOK, Sound
<1>2. ProcOK'
  BY <1>1, OnwardOK DEF WriteBegin
<1>3. DiskOK'
  BY <1>1, PartialSet, SameDisk DEF WriteBegin
<1>4. Bounds'
  BY SameBounds DEF WriteBegin
<1> QED
  BY <1>2, <1>3, <1>4

\* What a process that writes may leave in its output belongs there.
LEMMA LeavesOK ==
    ASSUME Inv, NEW p \in Process, proc[p].pc = "writing",
           NEW content \in {proc[p].buffer, disk[Output(proc[p].run)]}, Leaves(p, content)
    PROVE  /\ DiskOK'
           /\ \E c \in {content, Mixed} : disk' = [disk EXCEPT ![Output(proc[p].run)] = c]
<1> USE DEF Inv
<1> DEFINE t == proc[p]
           out == Output(t.run)
<1>1. t \in State /\ Sound(t)
  BY DEF ProcOK
<1>2. t.run \in Run /\ out \in File /\ t.buffer \in AnyContent /\ disk[out] \in AnyContent
  BY <1>1, FileFacts DEF Sound, State, DiskOK
<1>3. WellPlaced(out, disk[out])
  BY <1>2 DEF DiskOK
<1>4. WellPlaced(out, t.buffer)
  <2>1. /\ t.run.command \in {"decrypt", "decompress"}
        /\ \/ t.buffer.is = "decrypted"
           \/ t.buffer = Freed /\ t.run.command = "decrypt" /\ HasShort(t.run.base)
           \/ t.buffer = Decompressed /\ t.run.command = "decompress"
    BY <1>1 DEF Sound
  <2>2. CASE t.buffer.is = "decrypted"
    <3>1. /\ t.run.command = "decrypt" /\ t.buffer.from.is = "firmware"
          /\ t.buffer.key = Key(t.run) /\ NamedFor(t.buffer.from, t.buffer.key)
      BY <1>1, <2>2 DEF Sound
    <3>2. out = <<t.run.base, "_decrypted">>
      BY <1>2, <3>1, FileFacts
    <3>3. Key(t.run).base = t.run.base
      BY DEF Key
    <3>4. t.buffer # Freed /\ t.buffer # Decompressed
      BY <2>2 DEF Freed, Decompressed
    <3> QED
      BY <2>2, <3>1, <3>2, <3>3, <3>4 DEF WellPlaced, Whole
  <2>3. CASE t.buffer = Freed /\ t.run.command = "decrypt" /\ HasShort(t.run.base)
    <3>1. out = <<t.run.base, "_decrypted">>
      BY <1>2, <2>3, FileFacts
    <3>2. Freed.is = "freed" /\ Freed # Decompressed
      BY DEF Freed, Decompressed
    <3> QED
      BY <2>3, <3>1, <3>2 DEF WellPlaced
  <2>4. CASE t.buffer = Decompressed /\ t.run.command = "decompress"
    <3>1. out = <<t.run.base, "_decompressed">>
      BY <2>4 DEF Output
    <3>2. Decompressed.is = "decompressed" /\ Freed # Decompressed
      BY DEF Freed, Decompressed
    <3> QED
      BY <2>4, <3>1, <3>2 DEF WellPlaced
  <2> QED
    BY <2>1, <2>2, <2>3, <2>4
<1>5. Mixed \in AnyContent /\ WellPlaced(out, Mixed)
  <2>1. Mixed.is = "mixed" /\ Mixed # Freed /\ Mixed # Decompressed
    BY DEF Mixed, Freed, Decompressed
  <2> QED
    BY <2>1, PlainContent DEF WellPlaced
<1>6. PICK c \in {content, Mixed} : disk' = [disk EXCEPT ![out] = c]
  BY DEF Leaves
<1>7. c \in AnyContent /\ WellPlaced(out, c)
  BY <1>2, <1>3, <1>4, <1>5
<1> QED
  BY <1>2, <1>6, <1>7, FileSet

LEMMA WriteEndInv ==
    ASSUME Inv, NEW p \in Process, WriteEnd(p)
    PROVE  Inv'
<1> USE DEF Inv
<1>1. proc[p].pc = "writing"
  BY DEF WriteEnd, At
<1>2. ProcOK'
  BY <1>1, OnwardOK DEF WriteEnd
<1>3. DiskOK'
  BY <1>1, LeavesOK DEF WriteEnd
<1>4. Bounds'
  BY SameBounds DEF WriteEnd
<1> QED
  BY <1>2, <1>3, <1>4

LEMMA ReleaseInv ==
    ASSUME Inv, NEW p \in Process, Release(p)
    PROVE  Inv'
<1> USE DEF Inv
<1> DEFINE t == proc[p]
           s == [t EXCEPT !.pc = "next", !.files = Tail(@), !.mapped = None, !.buffer = None]
<1>1. t.pc = "release" /\ t \in State /\ Sound(t)
  BY DEF Release, At, ProcOK
<1>2. /\ t.run \in Run /\ t.run # NoRun /\ t.run.command \in {"decrypt", "decompress"}
      /\ t.files \in Seq(Allowed(t.run)) /\ t.files # <<>>
      /\ t.files \in Seq(Base \cup {NoName})
      /\ None \in AnyContent /\ None.is = "none"
  BY <1>1, PlainContent DEF Sound, Run, NoRun, None, State
<1>3. CASE Command(p) # "decompress" /\ Set(p, s)
  <2>1. Tail(t.files) \in Seq(Allowed(t.run)) /\ Tail(t.files) \in Seq(Base \cup {NoName})
    BY <1>2, HeadTailProperties
  <2>2. s \in State
    BY <1>1, <1>2, <2>1 DEF State
  <2>3. /\ s.pc = "next" /\ s.run = t.run /\ s.files = Tail(t.files)
        /\ s.mapped = None /\ s.buffer = None
    BY <1>1 DEF State
  <2> HIDE DEF s
  <2>4. Sound(s)
    BY <1>2, <1>3, <2>1, <2>3 DEF Sound, Command
  <2> QED
    BY <1>3, <2>2, <2>4, Kept, SameDisk, SameBounds DEF Release
<1>4. CASE Return(p, "ok") \/ Abort(p)
  BY <1>4, Ends, SameDisk, SameBounds DEF Release
<1> QED
  BY <1>3, <1>4 DEF Release

LEMMA CrashInv ==
    ASSUME Inv, NEW p \in Process, Crash(p)
    PROVE  Inv'
<1> USE DEF Inv
<1>1. ProcOK'
  BY IdleSound, Kept DEF Crash
<1>2. DiskOK'
  BY SameDisk, LeavesOK DEF Crash, At
<1>3. Bounds'
  BY CommandsAssumption DEF Bounds, Crash
<1> QED
  BY <1>1, <1>2, <1>3

\* Whatever step a process takes.
LEMMA NextInv == Inv /\ [Next]_vars => Inv'
<1> SUFFICES ASSUME Inv, [Next]_vars PROVE Inv'
  OBVIOUS
<1>1. ASSUME NEW p \in Process, Step(p) PROVE Inv'
  BY <1>1, AnalyzeFileInv, UnzipBeginInv, UnzipEndInv, ForkFailsInv, ExtractDoneInv,
     NextFileInv, OpenPatchInv, MapInv, ParseInv, DecryptInv, WriteBeginInv, WriteEndInv,
     ReleaseInv DEF Step
<1>2. CASE UNCHANGED vars
  BY <1>2 DEF vars, Inv, ProcOK, DiskOK, Bounds
<1> QED
  BY <1>1, <1>2, StartInv, CrashInv DEF Next

-----------------------------------------------------------------------------
(* The theorems. *)

\* The inductive invariant holds in every reachable state: each process is where its
\* command can be, and each file holds only what may stand under its name.
THEOREM InvAlways == Spec => []Inv
BY InitInv, NextInv, PTL DEF Spec

\* Every variable keeps its type; a file is mapped, and a buffer held, exactly where
\* the code goes on to use or release them.
THEOREM TypeCorrect == Spec => []TypeOK
<1>1. Inv => TypeOK
  BY DEF Inv, ProcOK, DiskOK, Bounds, Sound, TypeOK, At
<1> QED
  BY <1>1, InvAlways, PTL

-----------------------------------------------------------------------------
(* What a command that nothing disturbs has done.                          *)

\* The members that a command asks for, by their places in its archive.
Asks(r) == IF r.base \in DOMAIN Member THEN Matches(r.base, r.area) ELSE {}
NameOf(r, i) == Member[r.base][i].name

\* LastAsked and its name, for a command r and the contents d of the files.
LastOf(r, d) ==
    IF r.base \in DOMAIN Member THEN Firmware(r.base, Max(Asks(r))) ELSE d[<<r.base, "">>]
LastName(r) ==
    IF r.base \in DOMAIN Member THEN NameOf(r, Max(Asks(r))) ELSE r.base

InPlace(r, S, d) == \A i \in S : d[<<NameOf(r, i), "">>] = Firmware(r.base, i)
EndsWith(files, name) == files # <<>> /\ files[Len(files)] = name
IsOutput(r, d, c) == KindOf(LastOf(r, d)) # "short" => c = Decrypted(LastOf(r, d), Key(r))

\* The members that are done are in place, come before those left, and the list of
\* files ends with the last of them.
Extracting(s, d) ==
    LET r == s.run
        done == Asks(r) \ s.todo
    IN  /\ InPlace(r, done, d)
        /\ \A i \in done, j \in s.todo : i < j
        /\ IF done = {} THEN s.files = <<>> ELSE EndsWith(s.files, NameOf(r, Max(done)))

\* All members are in place, and what is left of the list ends with the last.
GoingThrough(s, d) ==
    LET r == s.run IN
    /\ InPlace(r, Asks(r), d)
    /\ s.files # <<>> =>
          EndsWith(s.files, LastName(r)) /\ (r.base \in DOMAIN Member => Asks(r) # {})

\* Process p in state s, undisturbed, has done what it should have with the files d.
InOrder(p, s, d) ==
    LET r == s.run IN
    /\ s.pc = "analyze" => s.files = <<>>
    /\ s.pc \in {"extract", "unzip"} => Extracting(s, d)
    /\ s.pc = "unzip" => d[<<NameOf(r, Min(s.todo)), "">>] = Partial(p)
    /\ s.pc \in {"next", "map", "parse", "decrypt", "write", "writing", "release"} =>
          GoingThrough(s, d)
    /\ s.pc = "next" /\ s.files = <<>> /\ (r.base \in DOMAIN Member => Asks(r) # {}) =>
          IsOutput(r, d, d[Output(r)])
    /\ s.pc \in {"parse", "decrypt"} /\ Len(s.files) = 1 => s.mapped = LastOf(r, d)
    /\ s.pc \in {"write", "writing", "release"} /\ Len(s.files) = 1 => IsOutput(r, d, s.buffer)
    /\ s.pc = "writing" => d[Output(r)] = Partial(p)
    /\ s.pc = "release" /\ Len(s.files) = 1 => IsOutput(r, d, d[Output(r)])

\* The commands that SuccessIsDone is about.
Concerned(r) == r \in Run /\ (r.command = "decrypt" \/ (r.command = "extract" /\ r.area # All))

ArchivesStay == \A n \in DOMAIN Member : disk[<<n, "">>] = Archive

\* No other process disturbs an undisturbed one.
Alone ==
    \A p, q \in Process :
        p # q /\ ~At(p, "idle") /\ ~At(q, "idle") /\ p \notin disturbed =>
            ~Disturbs(proc[q].run, proc[p].run)

UndisturbedInOrder ==
    \A p \in Process :
        ~At(p, "idle") /\ p \notin disturbed /\ Concerned(proc[p].run) =>
            InOrder(p, proc[p], disk)

OrderInv == ArchivesStay /\ Alone /\ UndisturbedInOrder

-----------------------------------------------------------------------------
(* Which files a step writes.                                              *)

\* A member of an archive has a name of its own, that of no archive.
LEMMA NameFacts ==
    ASSUME NEW n \in DOMAIN Member, NEW i \in DOMAIN Member[n]
    PROVE  /\ Member[n][i].name \in Base
           /\ Member[n][i].name \notin DOMAIN Member
           /\ <<Member[n][i].name, "">> \in File
           /\ \A j \in DOMAIN Member[n] :
                 <<Member[n][i].name, "">> = <<Member[n][j].name, "">> => i = j
<1>1. \A j \in DOMAIN Member[n] : Member[n][i].name = Member[n][j].name => i = j
  BY CommandsAssumption
<1>2. Member[n][i].name \notin DOMAIN Member
  BY CommandsAssumption
<1> QED
  BY <1>1, <1>2, MemberFacts, FileFacts

LEMMA WritesFacts ==
    ASSUME NEW r \in Run
    PROVE  /\ Writes(r) \subseteq File
           /\ \A n \in DOMAIN Member : <<n, "">> \notin Writes(r)
           /\ r.command \in {"decrypt", "patch", "decompress"} => Output(r) \in Writes(r)
           /\ r.command \in {"decrypt", "patch", "extract"} /\ r.base \in DOMAIN Member =>
                 \A i \in DOMAIN Member[r.base] : <<NameOf(r, i), "">> \in Writes(r)
           /\ \A n : Output(r) # <<n, "">>
<1>1. \A f \in Writes(r) :
         \/ f = Output(r) /\ r.command \in {"decrypt", "patch", "decompress"}
         \/ /\ r.base \in DOMAIN Member
            /\ \E i \in DOMAIN Member[r.base] : f = <<Member[r.base][i].name, "">>
  BY DEF Writes
<1>2. Output(r) \in File
  BY FileFacts
<1>3. \A n : Output(r) # <<n, "">>
  BY DEF Output
<1>4. \A f \in Writes(r) : f \in File /\ \A n \in DOMAIN Member : f # <<n, "">>
  <2> SUFFICES ASSUME NEW f \in Writes(r), f # Output(r)
               PROVE  f \in File /\ \A n \in DOMAIN Member : f # <<n, "">>
    BY <1>2, <1>3
  <2>1. PICK i \in DOMAIN Member[r.base] : f = <<Member[r.base][i].name, "">> /\ r.base \in DOMAIN Member
    BY <1>1
  <2>2. /\ Member[r.base][i].name \notin DOMAIN Member
        /\ <<Member[r.base][i].name, "">> \in File
    BY <2>1, NameFacts
  <2> DEFINE name == Member[r.base][i].name
  <2>3. name \notin DOMAIN Member /\ <<name, "">> \in File /\ f = <<name, "">>
    BY <2>1, <2>2
  <2> HIDE DEF name
  <2> QED
    BY <2>3
<1> QED
  BY <1>3, <1>4 DEF Writes, NameOf

\* The member at hand, as the proofs below speak of it.
LEMMA PlaceFacts ==
    ASSUME ProcOK, NEW p \in Process, proc[p].pc \in {"extract", "unzip"}, proc[p].todo # {}
    PROVE  /\ Min(proc[p].todo) \in proc[p].todo
           /\ \A j \in proc[p].todo : Min(proc[p].todo) <= j
           /\ Min(proc[p].todo) \in DOMAIN Member[proc[p].run.base]
           /\ proc[p].run.base \in DOMAIN Member
           /\ Place(p) = <<NameOf(proc[p].run, Min(proc[p].todo)), "">>
           /\ Place(p)[1] = NameOf(proc[p].run, Min(proc[p].todo))
           /\ Current(p) = Firmware(proc[p].run.base, Min(proc[p].todo))
           /\ Place(p) \in Writes(proc[p].run)
<1> DEFINE r == proc[p].run
           i == Min(proc[p].todo)
<1>1. /\ r.base \in DOMAIN Member /\ proc[p].todo \subseteq Matches(r.base, r.area)
      /\ r \in Run /\ r.command \in {"extract", "decrypt", "patch"}
  BY DEF ProcOK, Sound
<1>2. i \in proc[p].todo /\ \A j \in proc[p].todo : i <= j
  BY <1>1, MatchFacts, MinIn
<1>3. i \in DOMAIN Member[r.base]
  BY <1>1, <1>2, MatchFacts
<1> HIDE DEF i
<1>4. Current(p) = Firmware(r.base, i)
  BY DEF Current, i
<1>5. Place(p) = <<NameOf(r, i), "">>
  BY <1>1, <1>3, <1>4, MemberFacts DEF Place, NameOf
<1>6. Place(p)[1] = NameOf(r, i)
  <2>1. \A n, m : <<n, m>>[1] = n
    OBVIOUS
  <2> QED
    BY <2>1, <1>5
<1>7. Place(p) \in Writes(r)
  BY <1>1, <1>3, <1>5, WritesFacts
<1> QED
  BY <1>1, <1>2, <1>3, <1>4, <1>5, <1>6, <1>7 DEF i

\* A step of p writes only what its command may write.
LEMMA StepWrites ==
    ASSUME Inv, NEW p \in Process, Step(p)
    PROVE  \A f \in File : f \notin Writes(proc[p].run) => disk'[f] = disk[f]
<1>1. \/ UNCHANGED disk
      \/ proc[p].pc = "extract" /\ proc[p].todo # {} /\ disk' = [disk EXCEPT ![Place(p)] = Partial(p)]
      \/ proc[p].pc = "unzip" /\ disk' = [disk EXCEPT ![Place(p)] = Current(p)]
      \/ /\ proc[p].pc \in {"open", "write", "writing"}
         /\ \E c : disk' = [disk EXCEPT ![Output(proc[p].run)] = c]
  <2>1. ASSUME WriteEnd(p) PROVE \/ UNCHANGED disk
                                 \/ /\ proc[p].pc = "writing"
                                    /\ \E c : disk' = [disk EXCEPT ![Output(proc[p].run)] = c]
    BY <2>1 DEF WriteEnd, At, Leaves
  <2>2. ASSUME UnzipEnd(p) PROVE \/ UNCHANGED disk
                                 \/ /\ proc[p].pc = "unzip"
                                    /\ disk' = [disk EXCEPT ![Place(p)] = Current(p)]
    BY <2>2 DEF UnzipEnd, At
  <2>3. ASSUME UnzipBegin(p) PROVE \/ UNCHANGED disk
                                   \/ /\ proc[p].pc = "extract" /\ proc[p].todo # {}
                                      /\ disk' = [disk EXCEPT ![Place(p)] = Partial(p)]
    BY <2>3 DEF UnzipBegin, At
  <2>4. ASSUME OpenPatch(p) \/ WriteBegin(p)
        PROVE  \/ UNCHANGED disk
               \/ /\ proc[p].pc \in {"open", "write"}
                  /\ disk' = [disk EXCEPT ![Output(proc[p].run)] = Partial(p)]
    BY <2>4 DEF OpenPatch, WriteBegin, At
  <2>5. ASSUME \/ AnalyzeFile(p) \/ ForkFails(p) \/ ExtractDone(p) \/ NextFile(p) \/ Map(p)
               \/ Parse(p) \/ Decrypt(p) \/ Release(p)
        PROVE  UNCHANGED disk
    BY <2>5 DEF AnalyzeFile, ForkFails, ExtractDone, NextFile, Map, Parse, Decrypt, Release
  <2> QED
    BY <2>1, <2>2, <2>3, <2>4, <2>5 DEF Step
<1>2. DOMAIN disk = File
  BY DEF Inv, DiskOK
<1>3. Sound(proc[p])
  BY DEF Inv, ProcOK
<1>4. CASE proc[p].pc = "extract" /\ proc[p].todo # {} /\ disk' = [disk EXCEPT ![Place(p)] = Partial(p)]
  BY <1>2, <1>4, PlaceFacts DEF Inv
<1>5. CASE proc[p].pc = "unzip" /\ disk' = [disk EXCEPT ![Place(p)] = Current(p)]
  BY <1>2, <1>3, <1>5, PlaceFacts DEF Inv, Sound
<1>6. CASE /\ proc[p].pc \in {"open", "write", "writing"}
           /\ \E c : disk' = [disk EXCEPT ![Output(proc[p].run)] = c]
  <2>1. proc[p].run \in Run /\ proc[p].run.command \in {"decrypt", "patch", "decompress"}
    BY <1>3, <1>6 DEF Sound
  <2>2. Output(proc[p].run) \in Writes(proc[p].run)
    BY <2>1, WritesFacts
  <2> QED
    BY <1>2, <1>6, <2>2
<1> QED
  BY <1>1, <1>4, <1>5, <1>6

\* The process that takes a step is at a command; it keeps it or ends it, and the
\* other processes stay where they are.
LEMMA StepRuns ==
    ASSUME Inv, NEW p \in Process, Step(p)
    PROVE  /\ ~At(p, "idle")
           /\ proc'[p].pc = "idle" \/ proc'[p].run = proc[p].run
           /\ \A q \in Process : q # p => proc'[q] = proc[q]
           /\ disturbed \subseteq disturbed'
<1>1. proc \in [Process -> State] /\ proc[p] \in State
  BY DEF Inv, ProcOK
<1>2. ASSUME NEW s, Set(p, s), s.pc = "idle" \/ s.run = proc[p].run
      PROVE  /\ proc'[p].pc = "idle" \/ proc'[p].run = proc[p].run
             /\ \A q \in Process : q # p => proc'[q] = proc[q]
  BY <1>1, <1>2 DEF Set
<1>3. /\ \A step : [proc[p] EXCEPT !.pc = step].run = proc[p].run
      /\ \A res : [Idle EXCEPT !.result = res].pc = "idle"
  BY <1>1 DEF State, Idle
<1>4. ASSUME \/ \E step : Goto(p, step)
             \/ \E res : Return(p, res)
             \/ Abort(p) \/ GiveUp(p)
             \/ \E name : Extracted(p, name)
      PROVE  /\ proc'[p].pc = "idle" \/ proc'[p].run = proc[p].run
             /\ \A q \in Process : q # p => proc'[q] = proc[q]
  <2>1. CASE \E step : Goto(p, step)
    BY <1>2, <1>3, <2>1 DEF Goto
  <2>2. CASE (\E res : Return(p, res)) \/ Abort(p) \/ GiveUp(p)
    <3>1. PICK end : Set(p, [Idle EXCEPT !.result = end])
      BY <2>2 DEF Return, Abort, GiveUp
    <3> QED
      BY <1>2, <1>3, <3>1
  <2>3. CASE \E name : Extracted(p, name)
    <3>1. PICK name : Extracted(p, name)
      BY <2>3
    <3> DEFINE s == [proc[p] EXCEPT !.pc = "extract", !.todo = @ \ {Min(@)},
                                    !.files = IF OfArea(p) THEN Append(@, name) ELSE @]
    <3>2. s.run = proc[p].run
      BY <1>1 DEF State
    <3>3. Set(p, s)
      BY <3>1 DEF Extracted
    <3> HIDE DEF s
    <3> QED
      BY <1>2, <3>2, <3>3
  <2> QED
    BY <1>4, <2>1, <2>2, <2>3
<1>5. /\ ~At(p, "idle")
      /\ disturbed \subseteq disturbed'
  <2>1. ASSUME Calm \/ Fault(p) PROVE disturbed \subseteq disturbed'
    BY <2>1 DEF Calm, Fault
  <2>2. CASE AnalyzeFile(p) \/ UnzipBegin(p) \/ UnzipEnd(p) \/ ForkFails(p)
    BY <2>1, <2>2 DEF AnalyzeFile, UnzipBegin, UnzipEnd, ForkFails, At
  <2>3. CASE ExtractDone(p) \/ NextFile(p) \/ OpenPatch(p) \/ Map(p) \/ Parse(p)
    BY <2>1, <2>3 DEF ExtractDone, NextFile, OpenPatch, Map, Parse, At
  <2>4. CASE Decrypt(p) \/ WriteBegin(p) \/ WriteEnd(p) \/ Release(p)
    BY <2>1, <2>4 DEF Decrypt, WriteBegin, WriteEnd, Release, At
  <2> QED
    BY <2>2, <2>3, <2>4 DEF Step
<1>6. /\ proc'[p].pc = "idle" \/ proc'[p].run = proc[p].run
      /\ \A q \in Process : q # p => proc'[q] = proc[q]
  <2>1. CASE UnzipBegin(p) \/ UnzipEnd(p) \/ ForkFails(p) \/ ExtractDone(p) \/ NextFile(p)
    BY <1>4, <2>1 DEF UnzipBegin, UnzipEnd, ForkFails, ExtractDone, NextFile
  <2>2. CASE OpenPatch(p) \/ WriteBegin(p) \/ WriteEnd(p)
    BY <1>4, <2>2 DEF OpenPatch, WriteBegin, WriteEnd
  <2>3. CASE AnalyzeFile(p)
    <3>1. \/ \E res : Return(p, res)
          \/ GiveUp(p) \/ Abort(p)
          \/ Set(p, [proc[p] EXCEPT !.pc = "extract", !.todo = Matches(proc[p].run.base, proc[p].run.area)])
          \/ Set(p, [proc[p] EXCEPT !.pc = "next", !.files = <<proc[p].run.base>>])
      BY <2>3 DEF AnalyzeFile
    <3>2. [proc[p] EXCEPT !.pc = "extract", !.todo = Matches(proc[p].run.base, proc[p].run.area)].run
          = proc[p].run
      BY <1>1 DEF State
    <3>3. [proc[p] EXCEPT !.pc = "next", !.files = <<proc[p].run.base>>].run = proc[p].run
      BY <1>1 DEF State
    <3> QED
      BY <1>2, <1>4, <3>1, <3>2, <3>3
  <2>4. CASE Map(p) \/ Parse(p) \/ Decrypt(p)
    <3>1. \/ \E res : Return(p, res)
          \/ \E step : Goto(p, step)
          \/ \E c : Set(p, [proc[p] EXCEPT !.pc = "parse", !.mapped = c])
          \/ \E c : Set(p, [proc[p] EXCEPT !.pc = "write", !.buffer = c])
      <4>1. CASE Map(p)
        BY <4>1 DEF Map
      <4>2. CASE Parse(p)
        <5>1. Command(p) \in {"decrypt", "patch", "parse", "decompress"}
          BY <4>2 DEF Parse, At, Inv, ProcOK, Sound, Command
        <5> QED
          BY <4>2, <5>1 DEF Parse
      <4>3. CASE Decrypt(p)
        BY <4>3 DEF Decrypt
      <4> QED
        BY <2>4, <4>1, <4>2, <4>3
    <3>2. \A c : /\ [proc[p] EXCEPT !.pc = "parse", !.mapped = c].run = proc[p].run
                 /\ [proc[p] EXCEPT !.pc = "write", !.buffer = c].run = proc[p].run
      BY <1>1 DEF State
    <3> QED
      BY <1>2, <1>4, <3>1, <3>2
  <2>5. CASE Release(p)
    <3>1. \/ \E res : Return(p, res)
          \/ Abort(p)
          \/ \E l : Set(p, [proc[p] EXCEPT !.pc = "next", !.files = l, !.mapped = None, !.buffer = None])
      BY <2>5 DEF Release
    <3>2. \A l : [proc[p] EXCEPT !.pc = "next", !.files = l, !.mapped = None, !.buffer = None].run
                 = proc[p].run
      BY <1>1 DEF State
    <3> QED
      BY <1>2, <1>4, <3>1, <3>2
  <2> QED
    BY <2>1, <2>2, <2>3, <2>4, <2>5 DEF Step
<1> QED
  BY <1>5, <1>6

\* What the frame lemma and the disturbances of SuccessIsDone speak about.
Touches(r) == Writes(r) \cup {<<r.base, "">>}

\* What stands in files that a command has nothing to do with is all the same to it.
LEMMA InOrderKept ==
    ASSUME NEW p, NEW s \in State, Sound(s), s.pc # "idle", Concerned(s.run), NEW d, NEW e,
           InOrder(p, s, d), \A f \in Touches(s.run) : e[f] = d[f]
    PROVE  InOrder(p, s, e)
<1> DEFINE r == s.run
<1>1. /\ r \in Run /\ r.command \in {"decrypt", "extract"}
      /\ s.todo \subseteq Asks(r) \/ s.pc \notin {"extract", "unzip"}
  BY DEF Concerned, Sound, Asks
<1>2. /\ r.base \in DOMAIN Member => \A i \in Asks(r) : e[<<NameOf(r, i), "">>] = d[<<NameOf(r, i), "">>]
      /\ r.base \notin DOMAIN Member => Asks(r) = {}
  <2>1. ASSUME r.base \in DOMAIN Member, NEW i \in Asks(r)
        PROVE  <<NameOf(r, i), "">> \in Touches(r)
    <3>1. i \in DOMAIN Member[r.base]
      BY <2>1 DEF Asks, Matches
    <3> QED
      BY <1>1, <2>1, <3>1, WritesFacts DEF Touches
  <2> QED
    BY <2>1 DEF Asks
<1>3. \A S \in SUBSET Asks(r) : InPlace(r, S, d) => InPlace(r, S, e)
  BY <1>2 DEF InPlace
<1>4. LastOf(r, e) = LastOf(r, d)
  <2>1. <<r.base, "">> \in Touches(r)
    BY DEF Touches
  <2> QED
    BY <2>1 DEF LastOf
<1>5. r.command = "decrypt" => e[Output(r)] = d[Output(r)]
  BY <1>1, WritesFacts DEF Touches
<1>6. \A c : IsOutput(r, d, c) => IsOutput(r, e, c)
  BY <1>4 DEF IsOutput
<1>7. s.pc \in {"next", "parse", "decrypt", "write", "writing", "release"} => r.command = "decrypt"
  BY <1>1 DEF Sound
<1>8. Extracting(s, d) => Extracting(s, e)
  BY <1>3 DEF Extracting
<1>9. GoingThrough(s, d) => GoingThrough(s, e)
  BY <1>3 DEF GoingThrough
<1>10. s.pc = "unzip" => e[<<NameOf(r, Min(s.todo)), "">>] = d[<<NameOf(r, Min(s.todo)), "">>]
  <2> SUFFICES ASSUME s.pc = "unzip"
               PROVE  e[<<NameOf(r, Min(s.todo)), "">>] = d[<<NameOf(r, Min(s.todo)), "">>]
    OBVIOUS
  <2>1. s.todo # {} /\ r.base \in DOMAIN Member /\ s.todo \subseteq Matches(r.base, r.area)
    BY DEF Sound
  <2>2. Min(s.todo) \in s.todo
    BY <2>1, MatchFacts, MinIn
  <2> QED
    BY <1>2, <2>1, <2>2 DEF Asks
<1> HIDE DEF r
<1> QED
  BY <1>4, <1>5, <1>6, <1>7, <1>8, <1>9, <1>10 DEF InOrder, r

LEMMA CrashFacts ==
    ASSUME Inv, NEW p \in Process, Crash(p)
    PROVE  /\ UNCHANGED disturbed /\ ~At(p, "idle")
           /\ proc'[p].pc = "idle" /\ proc'[p].result = "killed"
           /\ \A q \in Process : q # p => proc'[q] = proc[q]
           /\ \A f \in File : f \notin Writes(proc[p].run) => disk'[f] = disk[f]
<1> DEFINE s == [Idle EXCEPT !.result = "killed"]
<1>1. Set(p, s) /\ UNCHANGED disturbed /\ ~At(p, "idle")
  BY DEF Crash
<1>2. s.pc = "idle" /\ s.result = "killed"
  BY DEF Idle
<1> HIDE DEF s
<1>3. proc'[p].pc = "idle" /\ proc'[p].result = "killed" /\ \A q \in Process : q # p => proc'[q] = proc[q]
  BY <1>1, <1>2 DEF Set, Inv, ProcOK
<1>4. \A f \in File : f \notin Writes(proc[p].run) => disk'[f] = disk[f]
  <2>1. CASE UNCHANGED disk
    BY <2>1
  <2>2. CASE proc[p].pc = "writing" /\ Leaves(p, disk[Output(proc[p].run)])
    <3>1. \E c : disk' = [disk EXCEPT ![Output(proc[p].run)] = c]
      BY <2>2 DEF Leaves
    <3>2. proc[p].run \in Run /\ proc[p].run.command \in {"decrypt", "decompress"} /\ DOMAIN disk = File
      BY <2>2 DEF Inv, ProcOK, DiskOK, Sound
    <3>3. Output(proc[p].run) \in Writes(proc[p].run)
      BY <3>2, WritesFacts
    <3> QED
      BY <3>1, <3>2, <3>3
  <2> QED
    BY <2>1, <2>2 DEF Crash, At
<1> QED
  BY <1>1, <1>3, <1>4

\* The archives stay what they are.
LEMMA ArchivesKept ==
    ASSUME Inv, ArchivesStay, [Next]_vars
    PROVE  ArchivesStay'
<1>1. ASSUME NEW p \in Process, Step(p) PROVE ArchivesStay'
  <2>1. \A n \in DOMAIN Member : <<n, "">> \in File
    BY CommandsAssumption, FileFacts
  <2>2. proc[p].run \in Run
    BY <1>1, StepRuns DEF Inv, ProcOK, Sound, At
  <2> QED
    BY <1>1, <2>1, <2>2, StepWrites, WritesFacts DEF ArchivesStay
<1>2. ASSUME UNCHANGED disk PROVE ArchivesStay'
  BY <1>2 DEF ArchivesStay
<1>3. ASSUME NEW p \in Process, NEW r \in Run, Start(p, r) PROVE UNCHANGED disk
  BY <1>3 DEF Start
<1>4. ASSUME NEW p \in Process, Crash(p) PROVE ArchivesStay'
  <2>1. \A n \in DOMAIN Member : <<n, "">> \in File
    BY CommandsAssumption, FileFacts
  <2>2. proc[p].run \in Run
    BY <1>4 DEF Crash, Inv, ProcOK, Sound, At
  <2> QED
    BY <1>4, <2>1, <2>2, CrashFacts, WritesFacts DEF ArchivesStay
<1> QED
  BY <1>1, <1>2, <1>3, <1>4 DEF Next, vars

\* What Start does to the process it starts and to the others.
LEMMA StartFacts ==
    ASSUME Inv, NEW p \in Process, NEW r \in Run, Start(p, r)
    PROVE  /\ At(p, "idle") /\ UNCHANGED disk
           /\ \A q \in Process : q # p => proc'[q] = proc[q]
           /\ proc'[p].run = r
           /\ proc'[p].pc \in {"map", "analyze"}
           /\ r.command \notin {"parse", "decompress"} =>
                 proc'[p].pc = "analyze" /\ proc'[p].files = <<>>
           /\ \A q \in Process : q \notin disturbed' /\ q # p =>
                 q \notin disturbed /\ (~At(q, "idle") => ~Disturbs(r, proc[q].run))
           /\ p \notin disturbed' =>
                 \A q \in Process : ~At(q, "idle") => ~Disturbs(proc[q].run, r)
<1> DEFINE from == IF r.command \in {"parse", "decompress"} THEN "map" ELSE "analyze"
           queue == IF from = "map" THEN <<r.base>> ELSE <<>>
           s == [Idle EXCEPT !.pc = from, !.run = r, !.files = queue]
           others == {q \in Process : ~At(q, "idle")}
<1>1. /\ Set(p, s) /\ At(p, "idle") /\ UNCHANGED disk
      /\ disturbed' = (disturbed \ {p})
             \cup {q \in others : Disturbs(r, proc[q].run)}
             \cup (IF \E q \in others : Disturbs(proc[q].run, r) THEN {p} ELSE {})
  BY DEF Start
<1>2. s.pc = from /\ s.run = r /\ s.files = queue
  BY DEF Idle
<1>3. proc'[p] = s /\ \A q \in Process : q # p => proc'[q] = proc[q]
  BY <1>1 DEF Set, Inv, ProcOK
<1> HIDE DEF s
<1>4. \A q \in Process : q \notin disturbed' /\ q # p =>
         q \notin disturbed /\ (~At(q, "idle") => ~Disturbs(r, proc[q].run))
  BY <1>1
<1>5. p \notin disturbed' =>
         \A q \in Process : ~At(q, "idle") => ~Disturbs(proc[q].run, r)
  BY <1>1
<1> QED
  BY <1>1, <1>2, <1>3, <1>4, <1>5

\* No process that could disturb another begins unnoticed.
LEMMA AloneKept ==
    ASSUME Inv, Alone, [Next]_vars
    PROVE  Alone'
<1>1. ASSUME NEW p \in Process, NEW r \in Run, Start(p, r) PROVE Alone'
  <2> SUFFICES ASSUME NEW q \in Process, NEW o \in Process,
                      q # o, proc'[q].pc # "idle", proc'[o].pc # "idle", q \notin disturbed'
               PROVE  ~Disturbs(proc'[o].run, proc'[q].run)
    BY DEF Alone, At
  <2>1. CASE q = p
    BY <1>1, <2>1, StartFacts DEF At
  <2>2. CASE o = p
    BY <1>1, <2>2, StartFacts DEF At
  <2>3. CASE q # p /\ o # p
    BY <1>1, <2>3, StartFacts DEF At, Alone
  <2> QED
    BY <2>1, <2>2, <2>3
<1>2. ASSUME NEW p \in Process, Step(p) \/ Crash(p) PROVE Alone'
  <2>1. /\ ~At(p, "idle") /\ disturbed \subseteq disturbed'
        /\ proc'[p].pc = "idle" \/ proc'[p].run = proc[p].run
        /\ \A q \in Process : q # p => proc'[q] = proc[q]
    BY <1>2, StepRuns, CrashFacts DEF Crash
  <2> QED
    BY <2>1 DEF Alone, At
<1>3. CASE UNCHANGED vars
  BY <1>3 DEF vars, Alone, At
<1> QED
  BY <1>1, <1>2, <1>3 DEF Next

\* Nobody else writes to the output of an undisturbed process.
LEMMA NotShared ==
    ASSUME Inv, Alone, NEW p \in Process, proc[p].pc = "writing", p \notin disturbed,
           disk[Output(proc[p].run)] = Partial(p)
    PROVE  ~Shared(p)
<1> SUFFICES ASSUME NEW q \in Process \ {p}, proc[q].pc = "writing",
                    Output(proc[q].run) = Output(proc[p].run)
             PROVE  FALSE
  BY DEF Shared, At
<1>1. \A o \in {p, q} : /\ proc[o].run \in Run /\ proc[o].run.command \in {"decrypt", "decompress"}
                        /\ Output(proc[o].run) \in Writes(proc[o].run)
  BY WritesFacts DEF Inv, ProcOK, Sound
<1>2. Disturbs(proc[q].run, proc[p].run)
  BY <1>1 DEF Disturbs
<1> QED
  BY <1>2 DEF Alone, At

\* A command that goes on is still in order.
Onward(p) == proc'[p].pc # "idle" => InOrder(p, proc'[p], disk')

\* A command that reports success has done what it was asked for.
Succeeds(p) ==
    proc'[p].pc = "idle" /\ proc'[p].result = "ok" /\ Asked(p) # {} =>
        /\ Command(p) = "extract" /\ OfArea(p) =>
              \A c \in Asked(p) : disk'[<<MemberIn(c).name, "">>] = c
        /\ Command(p) = "decrypt" /\ KindOf(LastAsked(p)) # "short" =>
              disk'[Output(proc[p].run)] = Decrypted(LastAsked(p), Key(proc[p].run))

\* An undisturbed step of a command that SuccessIsDone is about.
OwnStep(p) ==
    /\ Inv /\ ArchivesStay /\ Alone
    /\ Step(p) /\ p \notin disturbed /\ p \notin disturbed'
    /\ Concerned(proc[p].run) /\ InOrder(p, proc[p], disk)

LEMMA OwnFacts ==
    ASSUME NEW p \in Process, OwnStep(p)
    PROVE  /\ proc \in [Process -> State] /\ proc[p] \in State /\ Sound(proc[p])
           /\ disk \in [File -> AnyContent]
           /\ proc[p].run \in Run /\ proc[p].run.base \in Base
           /\ proc[p].run.command \in {"decrypt", "extract"}
           /\ proc[p].run.command = Command(p)
           /\ OfArea(p)
           /\ ~Fault(p)
           /\ \A s : Set(p, s) => proc'[p] = s
<1>1. /\ proc \in [Process -> State] /\ Sound(proc[p]) /\ disk \in [File -> AnyContent]
  BY DEF OwnStep, Inv, ProcOK, DiskOK
<1>2. ~Fault(p)
  BY DEF OwnStep, Fault
<1>3. \A s : Set(p, s) => proc'[p] = s
  BY <1>1 DEF Set
<1>4. /\ proc[p].run \in Run /\ proc[p].run.command \in {"decrypt", "extract"}
      /\ proc[p].run.command = "decrypt" => proc[p].run.area \in Area
      /\ proc[p].run.base \in Base
  BY FileFacts DEF OwnStep, Concerned
<1>5. OfArea(p)
  BY <1>4, CommandsAssumption DEF OfArea, OwnStep, Concerned
<1> QED
  BY <1>1, <1>2, <1>3, <1>4, <1>5 DEF Command

\* A command that fails promises nothing.
LEMMA FailureFacts ==
    ASSUME NEW p \in Process, OwnStep(p), Return(p, "failed") \/ Abort(p) \/ GiveUp(p)
    PROVE  Onward(p) /\ Succeeds(p)
<1>1. PICK end \in {"failed", "crashed"} : Set(p, [Idle EXCEPT !.result = end])
  BY DEF Return, Abort, GiveUp
<1>2. proc'[p] = [Idle EXCEPT !.result = end]
  BY <1>1, OwnFacts
<1>3. proc'[p].pc = "idle" /\ proc'[p].result # "ok"
  BY <1>2 DEF Idle
<1> QED
  BY <1>3 DEF Onward, Succeeds

LEMMA SuccessFacts ==
    ASSUME NEW p \in Process, OwnStep(p), Return(p, "ok")
    PROVE  proc'[p].pc = "idle"
<1>1. PICK end : Set(p, [Idle EXCEPT !.result = end])
  BY DEF Return
<1> QED
  BY <1>1, OwnFacts DEF Idle

LEMMA GotoIs ==
    ASSUME NEW p \in Process, OwnStep(p),
           NEW step \in {"idle", "analyze", "extract", "unzip", "next", "open", "map", "parse",
                         "decrypt", "write", "writing", "release"},
           Goto(p, step)
    PROVE  /\ proc'[p].pc = step
           /\ proc'[p].run = proc[p].run /\ proc'[p].todo = proc[p].todo
           /\ proc'[p].files = proc[p].files
           /\ proc'[p].mapped = proc[p].mapped /\ proc'[p].buffer = proc[p].buffer
<1>1. proc'[p] = [proc[p] EXCEPT !.pc = step]
  BY OwnFacts DEF Goto
<1>2. ProcOK
  BY DEF OwnStep, Inv
<1> QED
  BY <1>1, <1>2, GotoFacts

\* The members asked for have a last one.
LEMMA LastFacts ==
    ASSUME NEW r, r.base \in DOMAIN Member, Asks(r) # {}
    PROVE  Max(Asks(r)) \in Asks(r)
<1>1. Asks(r) \subseteq DOMAIN Member[r.base]
  BY DEF Asks, Matches
<1> DEFINE m == Member[r.base]
           M == [name: Base, area: SUBSET Area, kind: Kind]
<1>2. m \in Seq(M)
  BY CommandsAssumption
<1> HIDE DEF m
<1>3. Len(m) \in Nat /\ DOMAIN m = 1..Len(m)
  BY <1>2, LenProperties
<1>4. Asks(r) \in SUBSET Int /\ Len(m) \in Int /\ \A x \in Asks(r) : x <= Len(m)
  BY <1>1, <1>3 DEF m
<1> QED
  BY <1>4, MaxIn

\* What is written to the output is no other of the command's files.
LEMMA OutputWritten ==
    ASSUME NEW r \in Run, disk \in [File -> AnyContent], NEW c, disk' = [disk EXCEPT ![Output(r)] = c]
    PROVE  /\ LastOf(r, disk') = LastOf(r, disk)
           /\ InPlace(r, Asks(r), disk) => InPlace(r, Asks(r), disk')
           /\ disk'[Output(r)] = c
<1>1. Output(r) \in File /\ \A n : Output(r) # <<n, "">>
  BY WritesFacts, FileFacts
<1>2. \A n : <<n, "">> \in File => disk'[<<n, "">>] = disk[<<n, "">>]
  BY <1>1
<1>3. <<r.base, "">> \in File
  BY FileFacts
<1>4. r.base \in DOMAIN Member => \A i \in Asks(r) : <<NameOf(r, i), "">> \in File
  BY NameFacts DEF Asks, Matches, NameOf
<1>5. r.base \notin DOMAIN Member => Asks(r) = {}
  BY DEF Asks
<1> QED
  BY <1>1, <1>2, <1>3, <1>4, <1>5 DEF LastOf, InPlace

LEMMA NameOfFacts ==
    ASSUME NEW r, r.base \in DOMAIN Member, NEW i \in DOMAIN Member[r.base]
    PROVE  /\ <<NameOf(r, i), "">> \in File
           /\ \A j \in DOMAIN Member[r.base] :
                 <<NameOf(r, i), "">> = <<NameOf(r, j), "">> => i = j
BY NameFacts DEF NameOf

LEMMA AnalyzeFileInOrder ==
    ASSUME NEW p \in Process, OwnStep(p), AnalyzeFile(p)
    PROVE  Onward(p) /\ Succeeds(p)
<1> DEFINE r == proc[p].run
           e == [proc[p] EXCEPT !.pc = "extract", !.todo = Matches(r.base, r.area)]
           n == [proc[p] EXCEPT !.pc = "next", !.files = <<r.base>>]
<1>1. /\ proc[p].pc = "analyze" /\ proc[p].files = <<>> /\ UNCHANGED disk
      /\ r.base \in Base /\ r \in Run /\ proc[p] \in State
  BY OwnFacts DEF AnalyzeFile, At, OwnStep, InOrder
<1>2. \/ disk[Input(p)] = Archive /\ Set(p, e)
      \/ GiveUp(p) \/ Abort(p)
      \/ disk[Input(p)] # Archive /\ Set(p, n)
  BY OwnFacts DEF AnalyzeFile
<1>3. CASE disk[Input(p)] = Archive /\ Set(p, e)
  <2>1. r.base \in DOMAIN Member
    BY <1>1, <1>3, ArchiveFacts DEF Input, OwnStep, Inv
  <2>2. proc'[p] = e
    BY <1>3, OwnFacts
  <2>3. /\ e.pc = "extract" /\ e.run = r /\ e.files = <<>> /\ e.todo = Asks(r)
    BY <1>1, <2>1 DEF State, Asks
  <2> HIDE DEF e, r
  <2>4. Extracting(e, disk')
    BY <2>3 DEF Extracting, InPlace
  <2>5. InOrder(p, e, disk')
    BY <2>3, <2>4 DEF InOrder
  <2> QED
    BY <2>2, <2>3, <2>5 DEF Onward, Succeeds
<1>4. CASE disk[Input(p)] # Archive /\ Set(p, n)
  <2>1. r.base \notin DOMAIN Member
    BY <1>4 DEF Input, OwnStep, ArchivesStay
  <2>2. proc'[p] = n
    BY <1>4, OwnFacts
  <2>3. n.pc = "next" /\ n.run = r /\ n.files = <<r.base>>
    BY <1>1 DEF State
  <2> HIDE DEF n, r
  <2>4. EndsWith(n.files, LastName(r)) /\ n.files # <<>>
    BY <2>1, <2>3 DEF EndsWith, LastName
  <2>5. GoingThrough(n, disk')
    BY <2>1, <2>3, <2>4 DEF GoingThrough, InPlace, Asks
  <2>6. InOrder(p, n, disk')
    BY <2>3, <2>4, <2>5 DEF InOrder
  <2> QED
    BY <2>2, <2>3, <2>6 DEF Onward, Succeeds
<1> QED
  BY <1>2, <1>3, <1>4, FailureFacts

LEMMA UnzipBeginInOrder ==
    ASSUME NEW p \in Process, OwnStep(p), UnzipBegin(p)
    PROVE  Onward(p) /\ Succeeds(p)
<1> DEFINE r == proc[p].run
           m == Min(proc[p].todo)
           done == Asks(r) \ proc[p].todo
<1>1. /\ proc[p].pc = "extract" /\ proc[p].todo # {}
      /\ disk' = [disk EXCEPT ![Place(p)] = Partial(p)] /\ Goto(p, "unzip")
  BY OwnFacts DEF UnzipBegin, At
<1>2. /\ proc'[p].pc = "unzip" /\ proc'[p].run = r /\ proc'[p].todo = proc[p].todo
      /\ proc'[p].files = proc[p].files
  BY <1>1, GotoIs
<1>3. /\ m \in proc[p].todo /\ m \in DOMAIN Member[r.base] /\ r.base \in DOMAIN Member
      /\ Place(p) = <<NameOf(r, m), "">>
  BY <1>1, PlaceFacts DEF OwnStep, Inv
<1>4. Extracting(proc[p], disk)
  BY <1>1 DEF OwnStep, InOrder
<1>5. \A i \in done : disk'[<<NameOf(r, i), "">>] = disk[<<NameOf(r, i), "">>]
  <2> SUFFICES ASSUME NEW i \in done
               PROVE  disk'[<<NameOf(r, i), "">>] = disk[<<NameOf(r, i), "">>]
    OBVIOUS
  <2>1. i \in DOMAIN Member[r.base] /\ i # m
    BY <1>3 DEF Asks, Matches
  <2>2. <<NameOf(r, i), "">> \in File /\ <<NameOf(r, i), "">> # Place(p)
    BY <1>3, <2>1, NameFacts DEF NameOf
  <2> QED
    BY <1>1, <2>2, OwnFacts
<1>6. disk'[Place(p)] = Partial(p)
  <2>1. Place(p) \in File
    BY <1>3, NameFacts DEF NameOf
  <2> QED
    BY <1>1, <2>1, OwnFacts
<1>7. Extracting(proc'[p], disk')
  BY <1>2, <1>4, <1>5 DEF Extracting, InPlace
<1>8. InOrder(p, proc'[p], disk')
  BY <1>2, <1>3, <1>6, <1>7 DEF InOrder
<1> QED
  BY <1>2, <1>8 DEF Onward, Succeeds

\* The least of the members left joins those done, and is the last of them.
LEMMA NextDone ==
    ASSUME NEW S \in SUBSET Nat, NEW T \in SUBSET S, NEW m \in T, \A j \in T : m <= j,
           \A i \in S \ T, j \in T : i < j
    PROVE  /\ S \ (T \ {m}) = (S \ T) \cup {m}
           /\ \A i \in (S \ T) \cup {m}, j \in T \ {m} : i < j
           /\ Max((S \ T) \cup {m}) = m
<1>1. \A y \in (S \ T) \cup {m} : y \in Int /\ m >= y
  OBVIOUS
<1>2. (S \ T) \cup {m} \in SUBSET Int /\ m \in (S \ T) \cup {m}
  BY <1>1
<1>3. Max((S \ T) \cup {m}) = m
  BY <1>1, <1>2, MaxIs
<1> QED
  BY <1>3

LEMMA UnzipEndInOrder ==
    ASSUME NEW p \in Process, OwnStep(p), UnzipEnd(p)
    PROVE  Onward(p) /\ Succeeds(p)
<1> DEFINE r == proc[p].run
           todo == proc[p].todo
           m == Min(todo)
           done == Asks(r) \ todo
           s == [proc[p] EXCEPT !.pc = "extract", !.todo = @ \ {Min(@)},
                                !.files = IF OfArea(p) THEN Append(@, Place(p)[1]) ELSE @]
<1>1. /\ proc[p].pc = "unzip" /\ Sound(proc[p]) /\ proc[p] \in State /\ OfArea(p)
      /\ proc[p].files \in Seq(Base \cup {NoName})
  BY OwnFacts DEF UnzipEnd, At, State
<1>2. /\ todo # {} /\ todo \subseteq Matches(r.base, r.area)
      /\ proc'[p] = s /\ disk[Place(p)] = Partial(p)
      /\ disk' = [disk EXCEPT ![Place(p)] = Current(p)]
  <2>1. todo # {} /\ todo \subseteq Matches(r.base, r.area)
    BY <1>1 DEF Sound
  <2>2. disk[Place(p)] = Partial(p)
    <3>1. Place(p) = <<NameOf(r, m), "">>
      BY <1>1, <2>1, PlaceFacts DEF OwnStep, Inv
    <3> QED
      BY <1>1, <3>1 DEF OwnStep, InOrder
  <2>3. proc'[p] = s
    BY OwnFacts DEF UnzipEnd, Extracted
  <2> QED
    BY <2>1, <2>2, <2>3, OwnFacts DEF UnzipEnd
<1>3. /\ m \in todo /\ \A j \in todo : m <= j
      /\ m \in DOMAIN Member[r.base] /\ r.base \in DOMAIN Member
      /\ Place(p) = <<NameOf(r, m), "">> /\ Place(p)[1] = NameOf(r, m)
      /\ Current(p) = Firmware(r.base, m)
  BY <1>1, <1>2, PlaceFacts DEF OwnStep, Inv
<1>4. /\ s.pc = "extract" /\ s.run = r /\ s.todo = todo \ {m}
      /\ s.files = Append(proc[p].files, NameOf(r, m))
  BY <1>1, <1>3 DEF State
<1>5. Extracting(proc[p], disk)
  BY <1>1 DEF OwnStep, InOrder
<1>6. Asks(r) \subseteq Nat /\ Asks(r) \subseteq DOMAIN Member[r.base] /\ todo \subseteq Asks(r)
  BY <1>2, <1>3, MatchFacts DEF Asks
<1> HIDE DEF s, m
<1>7. /\ Asks(r) \ (todo \ {m}) = done \cup {m}
      /\ \A i \in done \cup {m}, j \in todo \ {m} : i < j
      /\ Max(done \cup {m}) = m
  <2>1. \A i \in Asks(r) \ todo, j \in todo : i < j
    BY <1>5 DEF Extracting
  <2>2. Asks(r) \in SUBSET Nat /\ todo \in SUBSET Asks(r) /\ m \in todo /\ \A j \in todo : m <= j
    BY <1>3, <1>6
  <2> HIDE DEF todo, r
  <2> QED
    BY <2>1, <2>2, NextDone
<1>8. InPlace(r, done \cup {m}, disk')
  <2> SUFFICES ASSUME NEW i \in done \cup {m}
               PROVE  disk'[<<NameOf(r, i), "">>] = Firmware(r.base, i)
    BY DEF InPlace
  <2>1. i \in DOMAIN Member[r.base]
    BY <1>3, <1>6
  <2>2. <<NameOf(r, i), "">> \in File /\ Place(p) \in File
    BY <1>3, <2>1, NameOfFacts
  <2>3. CASE i = m
    BY <1>2, <1>3, <2>2, <2>3, OwnFacts
  <2>4. CASE i # m
    <3>1. <<NameOf(r, i), "">> # Place(p)
      BY <1>3, <2>1, <2>4, NameOfFacts
    <3>2. disk[<<NameOf(r, i), "">>] = Firmware(r.base, i)
      <4>1. i \in done
        BY <2>4
      <4> QED
        BY <1>5, <4>1 DEF Extracting, InPlace
    <3> QED
      BY <1>2, <2>2, <3>1, <3>2, OwnFacts
  <2> QED
    BY <2>3, <2>4
<1>9. EndsWith(s.files, NameOf(r, m))
  <2>1. NameOf(r, m) \in Base \cup {NoName}
    BY <1>3, MemberFacts DEF NameOf
  <2>2. /\ Append(proc[p].files, NameOf(r, m)) # <<>>
        /\ Append(proc[p].files, NameOf(r, m))[Len(Append(proc[p].files, NameOf(r, m)))] = NameOf(r, m)
    BY <1>1, <2>1, AppendProperties, LenProperties, EmptySeq
  <2> QED
    BY <1>4, <2>2 DEF EndsWith
<1>10. Extracting(s, disk')
  BY <1>4, <1>7, <1>8, <1>9 DEF Extracting
<1>11. InOrder(p, s, disk')
  BY <1>4, <1>10 DEF InOrder
<1> QED
  BY <1>2, <1>4, <1>11 DEF Onward, Succeeds

LEMMA ExtractDoneInOrder ==
    ASSUME NEW p \in Process, OwnStep(p), ExtractDone(p)
    PROVE  Onward(p) /\ Succeeds(p)
<1> DEFINE r == proc[p].run
<1>1. /\ proc[p].pc = "extract" /\ proc[p].todo = {} /\ UNCHANGED disk
      /\ r.base \in DOMAIN Member
  BY OwnFacts DEF ExtractDone, At, Sound
<1>2. Extracting(proc[p], disk)
  BY <1>1 DEF OwnStep, InOrder
<1>3. /\ InPlace(r, Asks(r), disk)
      /\ IF Asks(r) = {} THEN proc[p].files = <<>>
         ELSE EndsWith(proc[p].files, NameOf(r, Max(Asks(r))))
  <2>1. Asks(r) \ {} = Asks(r)
    OBVIOUS
  <2> QED
    BY <1>1, <1>2, <2>1 DEF Extracting
<1>4. CASE Command(p) = "extract"
  <2>1. proc'[p].pc = "idle"
    BY <1>4, SuccessFacts DEF ExtractDone
  <2>2. \A c \in Asked(p) : disk'[<<MemberIn(c).name, "">>] = c
    <3> SUFFICES ASSUME NEW c \in Asked(p) PROVE disk[<<MemberIn(c).name, "">>] = c
      BY <1>1
    <3>1. PICK i \in Asks(r) : c = Firmware(r.base, i)
      BY <1>1 DEF Asked, Asks
    <3>2. i \in DOMAIN Member[r.base]
      BY <1>1 DEF Asks, Matches
    <3>3. MemberIn(c).name = NameOf(r, i)
      BY <1>1, <3>1, <3>2, MemberFacts DEF NameOf
    <3> QED
      BY <1>3, <3>1, <3>3 DEF InPlace
  <2> QED
    BY <1>4, <2>1, <2>2 DEF Onward, Succeeds
<1>5. CASE Command(p) # "extract"
  <2>1. /\ proc'[p].pc = "next" /\ proc'[p].run = r /\ proc'[p].files = proc[p].files
    BY <1>5, GotoIs DEF ExtractDone
  <2>2. proc[p].files # <<>> => EndsWith(proc[p].files, LastName(r)) /\ Asks(r) # {}
    BY <1>1, <1>3 DEF LastName
  <2>3. proc[p].files = <<>> => Asks(r) = {}
    BY <1>3 DEF EndsWith
  <2>4. GoingThrough(proc'[p], disk')
    BY <1>1, <1>3, <2>1, <2>2 DEF GoingThrough
  <2>5. InOrder(p, proc'[p], disk')
    BY <1>1, <2>1, <2>3, <2>4 DEF InOrder
  <2> QED
    BY <2>1, <2>5 DEF Onward, Succeeds
<1> QED
  BY <1>4, <1>5

\* LastAsked is what LastOf is for the command of a process.
LEMMA LastAskedIs ==
    ASSUME NEW p \in Process
    PROVE  LastAsked(p) = LastOf(proc[p].run, disk)
BY DEF LastAsked, LastOf, Asks, Input

LEMMA NextFileInOrder ==
    ASSUME NEW p \in Process, OwnStep(p), NextFile(p)
    PROVE  Onward(p) /\ Succeeds(p)
<1> DEFINE r == proc[p].run
<1>1. /\ proc[p].pc = "next" /\ UNCHANGED disk /\ r.command = "decrypt" /\ Command(p) = "decrypt"
      /\ GoingThrough(proc[p], disk)
  BY OwnFacts DEF NextFile, At, Sound, OwnStep, InOrder
<1>2. CASE proc[p].files = <<>>
  <2>1. proc'[p].pc = "idle"
    BY <1>2, SuccessFacts DEF NextFile
  <2>2. Asked(p) # {} => (r.base \in DOMAIN Member => Asks(r) # {})
    BY DEF Asked, Asks
  <2>3. Asked(p) # {} => IsOutput(r, disk, disk[Output(r)])
    BY <1>1, <1>2, <2>2 DEF OwnStep, InOrder
  <2> QED
    BY <1>1, <2>1, <2>3, LastAskedIs DEF Onward, Succeeds, IsOutput
<1>3. CASE proc[p].files # <<>>
  <2>1. Goto(p, "map")
    BY <1>1, <1>3 DEF NextFile
  <2>2. /\ proc'[p].pc = "map" /\ proc'[p].run = r /\ proc'[p].files = proc[p].files
    BY <2>1, GotoIs
  <2>3. GoingThrough(proc'[p], disk')
    BY <1>1, <2>2 DEF GoingThrough
  <2>4. InOrder(p, proc'[p], disk')
    BY <2>2, <2>3 DEF InOrder
  <2> QED
    BY <2>2, <2>4 DEF Onward, Succeeds
<1> QED
  BY <1>2, <1>3

\* The file gone through last is the member asked for last, or the file itself.
LEMMA LastInPlace ==
    ASSUME NEW r, NEW d, InPlace(r, Asks(r), d), r.base \in DOMAIN Member => Asks(r) # {}
    PROVE  d[<<LastName(r), "">>] = LastOf(r, d)
BY LastFacts DEF InPlace, LastName, LastOf

LEMMA MapInOrder ==
    ASSUME NEW p \in Process, OwnStep(p), Map(p)
    PROVE  Onward(p) /\ Succeeds(p)
<1> DEFINE t == proc[p]
           r == t.run
           name == Head(t.files)
           content == IF name = NoName THEN None ELSE disk[<<name, "">>]
           s == [t EXCEPT !.pc = "parse", !.mapped = content]
<1>1. /\ t.pc = "map" /\ UNCHANGED disk /\ GoingThrough(t, disk) /\ t \in State
      /\ t.files # <<>> /\ t.files \in Seq(Base \cup {NoName})
  BY OwnFacts DEF Map, At, OwnStep, InOrder, Sound, State
<1>2. \/ content # None /\ Set(p, s)
      \/ Return(p, "failed")
  BY OwnFacts DEF Map
<1>3. CASE content # None /\ Set(p, s)
  <2>1. proc'[p] = s
    BY <1>3, OwnFacts
  <2>2. content = disk[<<name, "">>]
    BY <1>3
  <2>3. s.pc = "parse" /\ s.run = r /\ s.files = t.files /\ s.mapped = content
    BY <1>1 DEF State
  <2>4. Len(t.files) = 1 => name = LastName(r)
    <3>1. name = t.files[1]
      OBVIOUS
    <3>2. EndsWith(t.files, LastName(r))
      BY <1>1 DEF GoingThrough
    <3> QED
      BY <3>1, <3>2 DEF EndsWith
  <2> HIDE DEF content, s, r, t
  <2>5. Len(t.files) = 1 => content = LastOf(r, disk)
    <3>1. InPlace(r, Asks(r), disk) /\ (r.base \in DOMAIN Member => Asks(r) # {})
      BY <1>1 DEF GoingThrough, r
    <3> QED
      BY <2>2, <2>4, <3>1, LastInPlace
  <2>6. GoingThrough(s, disk)
    BY <1>1, <2>3 DEF GoingThrough, r
  <2>7. InOrder(p, s, disk)
    BY <2>3, <2>5, <2>6 DEF InOrder
  <2> QED
    BY <1>1, <2>1, <2>3, <2>7 DEF Onward, Succeeds
<1> QED
  BY <1>2, <1>3, FailureFacts

LEMMA ParseInOrder ==
    ASSUME NEW p \in Process, OwnStep(p), Parse(p)
    PROVE  Onward(p) /\ Succeeds(p)
<1>1. /\ proc[p].pc = "parse" /\ UNCHANGED disk /\ Command(p) = "decrypt"
      /\ InOrder(p, proc[p], disk)
  BY OwnFacts DEF Parse, At, OwnStep, Sound
<1>2. Goto(p, "decrypt") \/ Return(p, "failed")
  BY <1>1 DEF Parse
<1>3. CASE Goto(p, "decrypt")
  <2>1. /\ proc'[p].pc = "decrypt" /\ proc'[p].run = proc[p].run
        /\ proc'[p].files = proc[p].files /\ proc'[p].mapped = proc[p].mapped
    BY <1>3, GotoIs
  <2>2. GoingThrough(proc'[p], disk')
    BY <1>1, <2>1 DEF InOrder, GoingThrough
  <2>3. InOrder(p, proc'[p], disk')
    BY <1>1, <2>1, <2>2 DEF InOrder
  <2> QED
    BY <2>1, <2>3 DEF Onward, Succeeds
<1> QED
  BY <1>2, <1>3, FailureFacts

LEMMA DecryptInOrder ==
    ASSUME NEW p \in Process, OwnStep(p), Decrypt(p)
    PROVE  Onward(p) /\ Succeeds(p)
<1> DEFINE t == proc[p]
           r == t.run
           data == IF KindOf(t.mapped) = "short" THEN Freed ELSE Decrypted(t.mapped, Key(r))
           s == [t EXCEPT !.pc = "write", !.buffer = data]
<1>1. /\ t.pc = "decrypt" /\ UNCHANGED disk /\ InOrder(p, t, disk) /\ t \in State
  BY OwnFacts DEF Decrypt, At, OwnStep
<1>2. Set(p, s) \/ Return(p, "failed")
  BY DEF Decrypt
<1>3. CASE Set(p, s)
  <2>1. proc'[p] = s
    BY <1>3, OwnFacts
  <2>2. s.pc = "write" /\ s.run = r /\ s.files = t.files /\ s.buffer = data
    BY <1>1 DEF State
  <2>3. Len(t.files) = 1 => IsOutput(r, disk, data)
    <3>1. Len(t.files) = 1 => t.mapped = LastOf(r, disk)
      BY <1>1 DEF InOrder
    <3> QED
      BY <3>1 DEF IsOutput
  <2> HIDE DEF data, s
  <2>4. GoingThrough(s, disk)
    BY <1>1, <2>2 DEF InOrder, GoingThrough
  <2>5. InOrder(p, s, disk)
    BY <2>2, <2>3, <2>4 DEF InOrder
  <2> QED
    BY <1>1, <2>1, <2>2, <2>5 DEF Onward, Succeeds
<1> QED
  BY <1>2, <1>3, FailureFacts

LEMMA WriteBeginInOrder ==
    ASSUME NEW p \in Process, OwnStep(p), WriteBegin(p)
    PROVE  Onward(p) /\ Succeeds(p)
<1> DEFINE r == proc[p].run
<1>1. /\ proc[p].pc = "write" /\ Goto(p, "writing") /\ InOrder(p, proc[p], disk)
      /\ disk' = [disk EXCEPT ![Output(r)] = Partial(p)]
  BY OwnFacts DEF WriteBegin, At, OwnStep
<1>2. /\ proc'[p].pc = "writing" /\ proc'[p].run = r
      /\ proc'[p].files = proc[p].files /\ proc'[p].buffer = proc[p].buffer
  BY <1>1, GotoIs
<1>3. /\ LastOf(r, disk') = LastOf(r, disk)
      /\ InPlace(r, Asks(r), disk) => InPlace(r, Asks(r), disk')
      /\ disk'[Output(r)] = Partial(p)
  BY <1>1, OwnFacts, OutputWritten
<1>4. GoingThrough(proc'[p], disk')
  BY <1>1, <1>2, <1>3 DEF InOrder, GoingThrough
<1>5. InOrder(p, proc'[p], disk')
  BY <1>1, <1>2, <1>3, <1>4 DEF InOrder, IsOutput
<1> QED
  BY <1>2, <1>5 DEF Onward, Succeeds

LEMMA WriteEndInOrder ==
    ASSUME NEW p \in Process, OwnStep(p), WriteEnd(p)
    PROVE  Onward(p) /\ Succeeds(p)
<1> DEFINE r == proc[p].run
<1>1. proc[p].pc = "writing" /\ Goto(p, "release") /\ InOrder(p, proc[p], disk)
  BY DEF WriteEnd, At, OwnStep
<1>2. disk[Output(r)] = Partial(p)
  BY <1>1 DEF InOrder
<1>3. disk' = [disk EXCEPT ![Output(r)] = proc[p].buffer]
  <2>1. ~Shared(p)
    BY <1>1, <1>2, NotShared DEF OwnStep
  <2> QED
    BY <2>1, OwnFacts DEF WriteEnd, Leaves
<1>4. /\ proc'[p].pc = "release" /\ proc'[p].run = r
      /\ proc'[p].files = proc[p].files /\ proc'[p].buffer = proc[p].buffer
  BY <1>1, GotoIs
<1>5. /\ LastOf(r, disk') = LastOf(r, disk)
      /\ InPlace(r, Asks(r), disk) => InPlace(r, Asks(r), disk')
      /\ disk'[Output(r)] = proc[p].buffer
  BY <1>3, OwnFacts, OutputWritten
<1>6. GoingThrough(proc'[p], disk')
  BY <1>1, <1>4, <1>5 DEF InOrder, GoingThrough
<1>7. InOrder(p, proc'[p], disk')
  BY <1>1, <1>4, <1>5, <1>6 DEF InOrder, IsOutput
<1> QED
  BY <1>4, <1>7 DEF Onward, Succeeds

\* The end of a list stays when its head is taken off.
LEMMA TailEnds ==
    ASSUME NEW S, NEW l \in Seq(S), l # <<>>
    PROVE  /\ Tail(l) = <<>> => Len(l) = 1
           /\ Tail(l) # <<>> => Tail(l)[Len(Tail(l))] = l[Len(l)]
<1>1. /\ Len(l) \in Nat /\ Len(l) # 0 /\ Tail(l) \in Seq(S) /\ Len(Tail(l)) = Len(l) - 1
      /\ \A i \in 1..Len(Tail(l)) : Tail(l)[i] = l[i + 1]
  BY HeadTailProperties, EmptySeq, LenProperties
<1>2. CASE Tail(l) = <<>>
  <2>1. Len(Tail(l)) = 0
    BY <1>1, <1>2, EmptySeq, Zenon
  <2>2. PICK n, k : n = Len(l) /\ k = Len(Tail(l)) /\ n \in Nat /\ k = n - 1
    BY <1>1, Zenon
  <2>3. n = 1
    BY <2>1, <2>2
  <2> QED
    BY <1>2, <2>2, <2>3, Zenon
<1>3. CASE Tail(l) # <<>>
  <2>1. Len(Tail(l)) # 0
    BY <1>1, <1>3, EmptySeq
  <2>2. Len(Tail(l)) \in 1..Len(Tail(l)) /\ Len(Tail(l)) + 1 = Len(l)
    BY <1>1, <2>1
  <2> QED
    BY <1>1, <1>3, <2>2
<1> QED
  BY <1>2, <1>3

LEMMA ReleaseInOrder ==
    ASSUME NEW p \in Process, OwnStep(p), Release(p)
    PROVE  Onward(p) /\ Succeeds(p)
<1> DEFINE t == proc[p]
           r == t.run
           s == [t EXCEPT !.pc = "next", !.files = Tail(@), !.mapped = None, !.buffer = None]
<1>1. /\ t.pc = "release" /\ UNCHANGED disk /\ InOrder(p, t, disk) /\ t \in State
      /\ t.files # <<>> /\ t.files \in Seq(Base \cup {NoName})
      /\ Command(p) = "decrypt"
  BY OwnFacts DEF Release, At, OwnStep, Sound, State
<1>2. Set(p, s) \/ Abort(p)
  BY <1>1 DEF Release
<1>3. CASE Set(p, s)
  <2>1. proc'[p] = s
    BY <1>3, OwnFacts
  <2>2. s.pc = "next" /\ s.run = r /\ s.files = Tail(t.files)
    BY <1>1 DEF State
  <2>3. /\ Tail(t.files) = <<>> => Len(t.files) = 1
        /\ Tail(t.files) # <<>> =>
              Tail(t.files)[Len(Tail(t.files))] = t.files[Len(t.files)]
    BY <1>1, TailEnds
  <2> HIDE DEF s
  <2>4. GoingThrough(t, disk)
    BY <1>1 DEF InOrder
  <2>5. GoingThrough(s, disk)
    BY <1>1, <2>2, <2>3, <2>4 DEF GoingThrough, EndsWith
  <2>6. Len(t.files) = 1 => IsOutput(r, disk, disk[Output(r)])
    BY <1>1 DEF InOrder
  <2>7. InOrder(p, s, disk)
    BY <2>2, <2>3, <2>5, <2>6 DEF InOrder
  <2> QED
    BY <1>1, <2>1, <2>2, <2>7 DEF Onward, Succeeds
<1> QED
  BY <1>2, <1>3, FailureFacts

LEMMA OwnStepInOrder ==
    ASSUME NEW p \in Process, OwnStep(p)
    PROVE  Onward(p) /\ Succeeds(p)
<1>1. ~ForkFails(p)
  BY OwnFacts DEF ForkFails
<1>2. ~OpenPatch(p)
  BY OwnFacts DEF OpenPatch, At, Sound
<1>3. Step(p)
  BY DEF OwnStep
<1> QED
  BY <1>1, <1>2, <1>3, AnalyzeFileInOrder, UnzipBeginInOrder, UnzipEndInOrder,
     ExtractDoneInOrder, NextFileInOrder, MapInOrder, ParseInOrder, DecryptInOrder,
     WriteBeginInOrder, WriteEndInOrder, ReleaseInOrder DEF Step

\* A step of another process leaves an undisturbed one in order.
LEMMA OtherStepInOrder ==
    ASSUME Inv, Alone, NEW p \in Process, NEW q \in Process, p # q, ~At(q, "idle"),
           \A f \in File : f \notin Writes(proc[q].run) => disk'[f] = disk[f],
           ~At(p, "idle"), p \notin disturbed, Concerned(proc[p].run), InOrder(p, proc[p], disk)
    PROVE  InOrder(p, proc[p], disk')
<1> DEFINE r == proc[p].run
           s == proc[p]
<1>1. ~Disturbs(proc[q].run, r) /\ proc[q].run \in Run /\ r \in Run
  BY DEF Alone, Inv, ProcOK, Sound, At, Concerned
<1>2. Touches(r) \subseteq File
  BY <1>1, WritesFacts, FileFacts DEF Touches
<1>3. \A f \in Touches(r) : disk'[f] = disk[f]
  BY <1>1, <1>2 DEF Disturbs, Touches
<1>4. s \in State /\ Sound(s) /\ s.pc # "idle"
  BY DEF Inv, ProcOK, At
<1> HIDE DEF s
<1>5. \A d, e : InOrder(p, s, d) /\ (\A f \in Touches(s.run) : e[f] = d[f]) => InOrder(p, s, e)
  BY <1>4, InOrderKept DEF s
<1> QED
  BY <1>3, <1>5 DEF s

LEMMA UndisturbedKept ==
    ASSUME Inv, OrderInv, [Next]_vars
    PROVE  UndisturbedInOrder'
<1> SUFFICES ASSUME NEW p \in Process, proc'[p].pc # "idle", p \notin disturbed',
                    Concerned(proc'[p].run)
             PROVE  InOrder(p, proc'[p], disk')
  BY DEF UndisturbedInOrder, At
<1>1. ASSUME NEW q \in Process, NEW r \in Run, Start(q, r) PROVE InOrder(p, proc'[p], disk')
  <2>1. CASE p = q
    <3>1. r.command \notin {"parse", "decompress"}
      BY <1>1, <2>1, StartFacts DEF Concerned
    <3>2. proc'[p].pc = "analyze" /\ proc'[p].files = <<>>
      BY <1>1, <2>1, <3>1, StartFacts
    <3> QED
      BY <3>2 DEF InOrder
  <2>2. CASE p # q
    <3>1. proc'[p] = proc[p] /\ p \notin disturbed /\ disk' = disk
      BY <1>1, <2>2, StartFacts
    <3> QED
      BY <3>1 DEF OrderInv, UndisturbedInOrder, At
  <2> QED
    BY <2>1, <2>2
<1>2. ASSUME NEW q \in Process, Step(q) PROVE InOrder(p, proc'[p], disk')
  <2>1. p \notin disturbed
    BY <1>2, StepRuns
  <2>2. CASE p = q
    <3>1. proc'[p].run = proc[p].run /\ ~At(p, "idle")
      BY <1>2, <2>2, StepRuns
    <3>2. OwnStep(p)
      BY <1>2, <2>1, <2>2, <3>1 DEF OwnStep, OrderInv, UndisturbedInOrder
    <3> QED
      BY <3>2, OwnStepInOrder DEF Onward
  <2>3. CASE p # q
    <3>1. proc'[p] = proc[p]
      BY <1>2, <2>3, StepRuns
    <3>2. ~At(p, "idle") /\ Concerned(proc[p].run) /\ InOrder(p, proc[p], disk)
      BY <2>1, <3>1 DEF OrderInv, UndisturbedInOrder, At
    <3> QED
      BY <1>2, <2>1, <2>3, <3>1, <3>2, StepRuns, StepWrites, OtherStepInOrder DEF OrderInv
  <2> QED
    BY <2>2, <2>3
<1>3. ASSUME NEW q \in Process, Crash(q) PROVE InOrder(p, proc'[p], disk')
  <2>1. p # q /\ proc'[p] = proc[p] /\ p \notin disturbed /\ ~At(q, "idle")
    BY <1>3, CrashFacts
  <2>2. ~At(p, "idle") /\ Concerned(proc[p].run) /\ InOrder(p, proc[p], disk)
    BY <2>1 DEF OrderInv, UndisturbedInOrder, At
  <2> QED
    BY <1>3, <2>1, <2>2, CrashFacts, OtherStepInOrder DEF OrderInv
<1>4. CASE UNCHANGED vars
  BY <1>4 DEF vars, OrderInv, UndisturbedInOrder, At
<1> QED
  BY <1>1, <1>2, <1>3, <1>4 DEF Next

LEMMA OrderInvAlways == Spec => []OrderInv
<1>1. Init => OrderInv
  <2> SUFFICES ASSUME Init PROVE OrderInv
    OBVIOUS
  <2>1. \A p \in Process : At(p, "idle")
    BY DEF Init, At, Idle
  <2>2. \A n \in DOMAIN Member : disk[<<n, "">>] = Archive
    <3> SUFFICES ASSUME NEW n \in DOMAIN Member PROVE disk[<<n, "">>] = Archive
      OBVIOUS
    <3>1. <<n, "">> \in File
      BY CommandsAssumption, FileFacts
    <3> QED
      BY <3>1 DEF Init
  <2> QED
    BY <2>1, <2>2 DEF OrderInv, ArchivesStay, Alone, UndisturbedInOrder
<1>2. Inv /\ OrderInv /\ [Next]_vars => OrderInv'
  BY ArchivesKept, AloneKept, UndisturbedKept DEF OrderInv
<1> QED
  BY <1>1, <1>2, InvAlways, PTL DEF Spec

-----------------------------------------------------------------------------
(* What is in the outputs.                                                 *)

\* The output of an undisturbed process that writes is its own.
OwnOutput ==
    \A p \in Process :
        At(p, "writing") /\ p \notin disturbed => disk[Output(proc[p].run)] = Partial(p)

\* An output that is cut off is being written, or something has failed.
CutOff ==
    \A f \in File, p \in Process :
        f[2] \in {"_decrypted", "_decompressed"} /\ disk[f] = Partial(p) =>
            (At(p, "writing") /\ f = Output(proc[p].run)) \/ faults + crashes > 0

\* Only WriteBegin comes to "writing", and only WriteEnd goes on from there.
LEMMA WritingSteps ==
    ASSUME Inv, NEW p \in Process, Step(p)
    PROVE  /\ proc'[p].pc = "writing" =>
                 /\ proc[p].pc = "write" /\ proc'[p].run = proc[p].run
                 /\ disk' = [disk EXCEPT ![Output(proc[p].run)] = Partial(p)]
           /\ proc[p].pc = "writing" => WriteEnd(p)
<1>1. proc \in [Process -> State] /\ proc[p] \in State
  BY DEF Inv, ProcOK
<1>2. \A st : Set(p, st) => proc'[p] = st
  BY <1>1 DEF Set
<1>3. /\ \A step : Goto(p, step) => proc'[p].pc = step /\ proc'[p].run = proc[p].run
      /\ (\E res : Return(p, res)) \/ Abort(p) \/ GiveUp(p) => proc'[p].pc = "idle"
      /\ \A name : Extracted(p, name) => proc'[p].pc = "extract"
  <2>1. ASSUME NEW step, Goto(p, step) PROVE proc'[p].pc = step /\ proc'[p].run = proc[p].run
    BY <1>1, <1>2, <2>1 DEF Goto, State
  <2>2. ASSUME (\E res : Return(p, res)) \/ Abort(p) \/ GiveUp(p) PROVE proc'[p].pc = "idle"
    <3>1. PICK end : Set(p, [Idle EXCEPT !.result = end])
      BY <2>2 DEF Return, Abort, GiveUp
    <3> QED
      BY <1>2, <3>1 DEF Idle
  <2>3. ASSUME NEW name, Extracted(p, name) PROVE proc'[p].pc = "extract"
    <3>1. \E l : Set(p, [proc[p] EXCEPT !.pc = "extract", !.todo = @ \ {Min(@)}, !.files = l])
      BY <2>3 DEF Extracted
    <3> QED
      BY <1>1, <1>2, <3>1 DEF State
  <2> QED
    BY <2>1, <2>2, <2>3
<1>4. ASSUME WriteBegin(p), proc'[p].pc = "writing"
      PROVE  /\ proc[p].pc = "write" /\ proc'[p].run = proc[p].run
             /\ disk' = [disk EXCEPT ![Output(proc[p].run)] = Partial(p)]
  BY <1>3, <1>4 DEF WriteBegin, At
<1>5. ASSUME \/ AnalyzeFile(p) \/ UnzipBegin(p) \/ UnzipEnd(p) \/ ForkFails(p) \/ ExtractDone(p)
             \/ NextFile(p) \/ OpenPatch(p) \/ Map(p) \/ Parse(p) \/ Decrypt(p) \/ Release(p)
             \/ WriteEnd(p)
      PROVE  proc'[p].pc # "writing"
  <2>1. CASE AnalyzeFile(p)
    <3>1. \/ \E res : Return(p, res)
          \/ GiveUp(p) \/ Abort(p)
          \/ Set(p, [proc[p] EXCEPT !.pc = "extract", !.todo = Matches(proc[p].run.base, proc[p].run.area)])
          \/ Set(p, [proc[p] EXCEPT !.pc = "next", !.files = <<proc[p].run.base>>])
      BY <2>1 DEF AnalyzeFile
    <3> QED
      BY <1>1, <1>2, <1>3, <3>1 DEF State
  <2>2. CASE UnzipBegin(p) \/ UnzipEnd(p) \/ ForkFails(p) \/ ExtractDone(p)
    BY <1>3, <2>2 DEF UnzipBegin, UnzipEnd, ForkFails, ExtractDone
  <2>3. CASE NextFile(p) \/ OpenPatch(p) \/ WriteEnd(p)
    BY <1>3, <2>3 DEF NextFile, OpenPatch, WriteEnd
  <2>4. CASE Map(p) \/ Decrypt(p)
    <3>1. \/ \E res : Return(p, res)
          \/ \E c : Set(p, [proc[p] EXCEPT !.pc = "parse", !.mapped = c])
          \/ \E c : Set(p, [proc[p] EXCEPT !.pc = "write", !.buffer = c])
      BY <2>4 DEF Map, Decrypt
    <3> QED
      BY <1>1, <1>2, <1>3, <3>1 DEF State
  <2>5. CASE Parse(p)
    <3>1. Command(p) \in {"decrypt", "patch", "parse", "decompress"}
      BY <2>5 DEF Parse, At, Inv, ProcOK, Sound, Command
    <3>2. \/ \E res : Return(p, res)
          \/ Goto(p, "decrypt")
          \/ \E c : Set(p, [proc[p] EXCEPT !.pc = "write", !.buffer = c])
      BY <2>5, <3>1 DEF Parse
    <3>3. \A c : Set(p, [proc[p] EXCEPT !.pc = "write", !.buffer = c]) => proc'[p].pc = "write"
      BY <1>1, <1>2 DEF State
    <3>4. proc'[p].pc \in {"idle", "decrypt", "write"}
      BY <1>3, <3>2, <3>3
    <3> QED
      BY <3>4
  <2>6. CASE Release(p)
    <3>1. \/ \E res : Return(p, res)
          \/ Abort(p)
          \/ \E l : Set(p, [proc[p] EXCEPT !.pc = "next", !.files = l, !.mapped = None, !.buffer = None])
      BY <2>6 DEF Release
    <3> QED
      BY <1>1, <1>2, <1>3, <3>1 DEF State
  <2> QED
    BY <1>5, <2>1, <2>2, <2>3, <2>4, <2>5, <2>6
<1>6. proc[p].pc = "writing" => WriteEnd(p)
  BY DEF Step, AnalyzeFile, UnzipBegin, UnzipEnd, ForkFails, ExtractDone, NextFile, OpenPatch, Map,
         Parse, Decrypt, WriteBegin, Release, At
<1> QED
  BY <1>4, <1>5, <1>6 DEF Step

\* What a process writes from is finished data, and no other's.
LEMMA BufferFacts ==
    ASSUME Inv, NEW p \in Process, proc[p].pc = "writing"
    PROVE  /\ proc[p].run \in Run /\ proc[p].run.command \in {"decrypt", "decompress"}
           /\ Output(proc[p].run) \in File
           /\ proc[p].buffer # Mixed
           /\ \A q \in Process : proc[p].buffer # Partial(q) /\ Mixed # Partial(q)
<1>1. /\ proc[p].run \in Run /\ proc[p].run.command \in {"decrypt", "decompress"}
      /\ proc[p].buffer.is = "decrypted" \/ proc[p].buffer \in {Freed, Decompressed}
  BY DEF Inv, ProcOK, Sound
<1>2. /\ Freed.is = "freed" /\ Decompressed.is = "decompressed" /\ Mixed.is = "mixed"
      /\ \A q \in Process : Partial(q).is = "partial"
  BY DEF Freed, Decompressed, Mixed, Partial
<1>3. proc[p].buffer.is \in {"decrypted", "freed", "decompressed"}
  BY <1>1, <1>2
<1> QED
  BY <1>1, <1>2, <1>3, FileFacts

LEMMA OwnOutputKept ==
    ASSUME Inv, Alone, OwnOutput, [Next]_vars
    PROVE  OwnOutput'
<1> SUFFICES ASSUME NEW p \in Process, proc'[p].pc = "writing", p \notin disturbed'
             PROVE  disk'[Output(proc'[p].run)] = Partial(p)
  BY DEF OwnOutput, At
<1>1. ASSUME NEW q \in Process, q # p, ~At(q, "idle"), p \notin disturbed, proc'[p] = proc[p],
             \A f \in File : f \notin Writes(proc[q].run) => disk'[f] = disk[f]
      PROVE  disk'[Output(proc'[p].run)] = Partial(p)
  <2>1. proc[p].pc = "writing"
    BY <1>1
  <2>2. Output(proc[p].run) \in Writes(proc[p].run) /\ Output(proc[p].run) \in File
    BY <2>1, BufferFacts, WritesFacts
  <2>3. ~Disturbs(proc[q].run, proc[p].run)
    BY <1>1, <2>1 DEF Alone, At
  <2>4. Output(proc[p].run) \notin Writes(proc[q].run)
    BY <2>2, <2>3 DEF Disturbs
  <2> QED
    BY <1>1, <2>1, <2>2, <2>4 DEF OwnOutput, At
<1>2. ASSUME NEW q \in Process, NEW r \in Run, Start(q, r)
      PROVE  disk'[Output(proc'[p].run)] = Partial(p)
  <2>1. p # q /\ proc'[p] = proc[p] /\ p \notin disturbed /\ disk' = disk
    BY <1>2, StartFacts
  <2> QED
    BY <2>1 DEF OwnOutput, At
<1>3. ASSUME NEW q \in Process, Step(q) PROVE disk'[Output(proc'[p].run)] = Partial(p)
  <2>1. CASE q = p
    <3>1. /\ proc[p].pc = "write" /\ proc'[p].run = proc[p].run
          /\ disk' = [disk EXCEPT ![Output(proc[p].run)] = Partial(p)]
      BY <1>3, <2>1, WritingSteps
    <3>2. Output(proc[p].run) \in DOMAIN disk
      BY <3>1, FileFacts DEF Inv, ProcOK, DiskOK, Sound
    <3> QED
      BY <3>1, <3>2
  <2>2. CASE q # p
    BY <1>1, <1>3, <2>2, StepRuns, StepWrites
  <2> QED
    BY <2>1, <2>2
<1>4. ASSUME NEW q \in Process, Crash(q) PROVE disk'[Output(proc'[p].run)] = Partial(p)
  <2>1. p # q
    BY <1>4, CrashFacts
  <2> QED
    BY <1>1, <1>4, <2>1, CrashFacts
<1>5. CASE UNCHANGED vars
  BY <1>5 DEF vars, OwnOutput, At
<1> QED
  BY <1>2, <1>3, <1>4, <1>5 DEF Next

LEMMA CutOffKept ==
    ASSUME Inv, CutOff, [Next]_vars
    PROVE  CutOff'
<1> SUFFICES ASSUME NEW f \in File, NEW p \in Process, f[2] \in {"_decrypted", "_decompressed"},
                    disk'[f] = Partial(p), ~(faults' + crashes' > 0)
             PROVE  proc'[p].pc = "writing" /\ f = Output(proc'[p].run)
  BY DEF CutOff, At
<1>1. faults \in Nat /\ crashes \in Nat /\ DOMAIN disk = File
  BY CommandsAssumption DEF Inv, Bounds, DiskOK
<1>2. \A q \in Process : Partial(q) = Partial(p) => q = p
  BY DEF Partial
<1>3. ASSUME UNCHANGED <<faults, crashes>>, disk'[f] = disk[f], proc[p].pc = "writing" => proc'[p] = proc[p]
      PROVE  proc'[p].pc = "writing" /\ f = Output(proc'[p].run)
  <2>1. ~(faults + crashes > 0)
    BY <1>3
  <2>2. disk[f] = Partial(p)
    BY <1>3
  <2>3. proc[p].pc = "writing" /\ f = Output(proc[p].run)
    BY <2>1, <2>2 DEF CutOff, At
  <2> QED
    BY <1>3, <2>3
<1>4. ASSUME NEW q \in Process, NEW r \in Run, Start(q, r)
      PROVE  proc'[p].pc = "writing" /\ f = Output(proc'[p].run)
  <2>1. UNCHANGED disk /\ At(q, "idle") /\ (p # q => proc'[p] = proc[p])
    BY <1>4, StartFacts
  <2>2. UNCHANGED <<faults, crashes>>
    BY <1>4 DEF Start
  <2> QED
    BY <1>3, <2>1, <2>2 DEF At
<1>5. ASSUME NEW q \in Process, Step(q) PROVE proc'[p].pc = "writing" /\ f = Output(proc'[p].run)
  <2>1. UNCHANGED crashes /\ (Calm \/ Fault(q))
    BY <1>5 DEF Step, AnalyzeFile, UnzipBegin, UnzipEnd, ForkFails, ExtractDone, NextFile, OpenPatch,
                Map, Parse, Decrypt, WriteBegin, WriteEnd, Release
  <2>2. Calm /\ UNCHANGED <<faults, crashes>>
    BY <1>1, <2>1 DEF Fault, Calm
  <2>3. q # p => proc'[p] = proc[p]
    BY <1>5, StepRuns
  <2>4. CASE proc[q].pc = "writing"
    <3>1. PICK c \in {proc[q].buffer, Mixed} : disk' = [disk EXCEPT ![Output(proc[q].run)] = c]
      BY <1>1, <1>5, <2>2, <2>4, WritingSteps DEF WriteEnd, Fault, Calm, Leaves
    <3>2. f # Output(proc[q].run)
      BY <1>1, <2>4, <3>1, BufferFacts
    <3>3. disk'[f] = disk[f]
      BY <1>1, <3>1, <3>2
    <3>4. q = p => FALSE
      <4> SUFFICES ASSUME q = p PROVE FALSE
        OBVIOUS
      <4>1. f = Output(proc[p].run)
        BY <1>1, <2>2, <3>3 DEF CutOff
      <4> QED
        BY <3>2, <4>1
    <3> QED
      BY <1>3, <2>2, <2>3, <3>3, <3>4
  <2>5. CASE proc[q].pc # "writing" /\ disk'[f] = disk[f]
    BY <1>3, <2>2, <2>3, <2>5
  <2>6. CASE proc[q].pc # "writing" /\ disk'[f] # disk[f]
    <3>1. WriteBegin(q) /\ f = Output(proc[q].run) /\ disk'[f] = Partial(q)
      <4>1. CASE UnzipBegin(q) \/ UnzipEnd(q)
        <5>1. proc[q].pc \in {"extract", "unzip"} /\ proc[q].todo # {} /\ f = Place(q)
          BY <1>1, <2>6, <4>1 DEF UnzipBegin, UnzipEnd, At, Inv, ProcOK, Sound
        <5>2. f = <<NameOf(proc[q].run, Min(proc[q].todo)), "">>
          BY <5>1, PlaceFacts DEF Inv
        <5>3. \A m, n : <<m, n>>[2] = n
          OBVIOUS
        <5> QED
          BY <5>2, <5>3
      <4>2. CASE OpenPatch(q)
        <5>1. proc[q].run.command = "patch" /\ f = Output(proc[q].run)
          BY <1>1, <2>6, <4>2 DEF OpenPatch, At, Inv, ProcOK, Sound
        <5>2. f = <<proc[q].run.base, "_patched">>
          BY <5>1 DEF Output
        <5>3. \A m, n : <<m, n>>[2] = n
          OBVIOUS
        <5> QED
          BY <5>2, <5>3
      <4>3. CASE WriteBegin(q)
        BY <1>1, <2>6, <4>3 DEF WriteBegin
      <4>4. CASE WriteEnd(q)
        BY <2>6, <4>4 DEF WriteEnd, At
      <4>5. CASE \/ AnalyzeFile(q) \/ ForkFails(q) \/ ExtractDone(q) \/ NextFile(q) \/ Map(q)
                 \/ Parse(q) \/ Decrypt(q) \/ Release(q)
        BY <2>6, <4>5 DEF AnalyzeFile, ForkFails, ExtractDone, NextFile, Map, Parse, Decrypt, Release
      <4> QED
        BY <1>5, <4>1, <4>2, <4>3, <4>4, <4>5 DEF Step
    <3>2. q = p
      BY <1>2, <3>1
    <3>3. Goto(q, "writing")
      BY <1>1, <2>2, <2>6, <3>1 DEF WriteBegin, Fault, Calm
    <3>4. proc'[p].pc = "writing" /\ proc'[p].run = proc[p].run
      <4>1. proc \in [Process -> State] /\ proc[p] \in State
        BY DEF Inv, ProcOK
      <4> QED
        BY <3>2, <3>3, <4>1 DEF Goto, Set, State
    <3> QED
      BY <3>1, <3>2, <3>4
  <2> QED
    BY <2>4, <2>5, <2>6
<1>6. ASSUME NEW q \in Process, Crash(q) PROVE FALSE
  BY <1>1, <1>6 DEF Crash
<1>7. CASE UNCHANGED vars
  BY <1>3, <1>7 DEF vars
<1> QED
  BY <1>4, <1>5, <1>6, <1>7 DEF Next

LEMMA OutputInvAlways == Spec => [](OwnOutput /\ CutOff)
<1>1. Init => OwnOutput /\ CutOff
  <2> SUFFICES ASSUME Init PROVE OwnOutput /\ CutOff
    OBVIOUS
  <2>1. \A p \in Process : proc[p].pc = "idle"
    BY DEF Init, Idle
  <2>2. \A f \in File, p \in Process : f[2] # "" => disk[f] # Partial(p)
    BY DEF Init, None, Partial
  <2> QED
    BY <2>1, <2>2 DEF OwnOutput, CutOff, At
<1>2. Inv /\ OrderInv /\ OwnOutput /\ CutOff /\ [Next]_vars => (OwnOutput /\ CutOff)'
  BY OwnOutputKept, CutOffKept DEF OrderInv
<1> QED
  BY <1>1, <1>2, InvAlways, OrderInvAlways, PTL DEF Spec

\* With any number of processes that overlap, fail and are killed: decrypted data in a
\* file is that of one whole member of a right name, under the right name and by the
\* right key, freed memory is in the output of an archive with a short member only, and
\* a cut-off output is being written or something has failed.
THEOREM OutputsAlways == Spec => []OutputsAreWhole
<1>1. Inv /\ CutOff => OutputsAreWhole
  <2> SUFFICES ASSUME Inv, CutOff, NEW f \in File
               PROVE  LET c == disk[f] IN
                      /\ c.is = "decrypted" =>
                            Whole(c.from, c.key) /\ f = <<c.key.base, "_decrypted">>
                      /\ c = Decompressed => f[2] = "_decompressed"
                      /\ c = Freed => f[2] = "_decrypted" /\ HasShort(f[1])
                      /\ f[2] \in {"_decrypted", "_decompressed"} =>
                            \/ c \in {None, Decompressed, Freed, Mixed} \/ c.is = "decrypted"
                            \/ \E p \in Process :
                                  /\ c = Partial(p)
                                  /\ (At(p, "writing") /\ f = Output(proc[p].run)) \/ faults + crashes > 0
    BY DEF OutputsAreWhole
  <2>1. WellPlaced(f, disk[f])
    BY DEF Inv, DiskOK
  <2> QED
    BY <2>1 DEF WellPlaced, CutOff
<1> QED
  BY <1>1, InvAlways, OutputInvAlways, PTL

\* Data of two runs comes together only in the output of a run that was disturbed, with
\* any number of processes, failing calls and kills.
THEOREM OnlyOverlapsMixAlways == Spec => OnlyOverlapsMix
<1>1. ASSUME Inv, OrderInv, OwnOutput, [Next]_vars
      PROVE  [\A f \in File :
                disk'[f] = Mixed /\ disk[f] # Mixed =>
                    \E p \in disturbed : At(p, "writing") /\ Output(proc[p].run) = f]_vars
  <2> SUFFICES ASSUME Next, NEW f \in File, disk'[f] = Mixed, disk[f] # Mixed
               PROVE  \E p \in disturbed : At(p, "writing") /\ Output(proc[p].run) = f
    BY <1>1
  <2>1. DOMAIN disk = File
    BY <1>1 DEF Inv, DiskOK
  <2>2. PICK p \in Process : Step(p) \/ Crash(p)
    <3>1. ASSUME NEW p \in Process, NEW r \in Run, Start(p, r) PROVE FALSE
      BY <1>1, <3>1, StartFacts
    <3> QED
      BY <3>1 DEF Next
  <2>3. /\ At(p, "writing")
        /\ \E c \in {proc[p].buffer, disk[Output(proc[p].run)]} : Leaves(p, c)
    <3>1. CASE Crash(p)
      BY <3>1 DEF Crash
    <3>2. CASE WriteEnd(p)
      BY <3>2 DEF WriteEnd
    <3>3. CASE UnzipBegin(p) \/ OpenPatch(p) \/ WriteBegin(p)
      <4>1. Partial(p) # Mixed
        BY DEF Partial, Mixed
      <4> QED
        BY <2>1, <3>3, <4>1 DEF UnzipBegin, OpenPatch, WriteBegin
    <3>4. CASE UnzipEnd(p)
      <4>1. Current(p) # Mixed
        BY DEF Current, Firmware, Mixed
      <4> QED
        BY <2>1, <3>4, <4>1 DEF UnzipEnd
    <3>5. CASE \/ AnalyzeFile(p) \/ ForkFails(p) \/ ExtractDone(p) \/ NextFile(p) \/ Map(p)
               \/ Parse(p) \/ Decrypt(p) \/ Release(p)
      BY <3>5 DEF AnalyzeFile, ForkFails, ExtractDone, NextFile, Map, Parse, Decrypt, Release
    <3> QED
      BY <2>2, <3>1, <3>2, <3>3, <3>4, <3>5 DEF Step
  <2>4. PICK c \in {proc[p].buffer, disk[Output(proc[p].run)]} : Leaves(p, c)
    BY <2>3
  <2>5. proc[p].buffer # Mixed
    BY <1>1, <2>3, BufferFacts DEF At
  <2>6. Output(proc[p].run) = f
    BY <2>1, <2>4 DEF Leaves
  <2>7. Shared(p)
    BY <2>1, <2>4, <2>5, <2>6 DEF Leaves
  <2>8. p \in disturbed
    BY <1>1, <2>3, <2>7, NotShared DEF OwnOutput, OrderInv, At
  <2> QED
    BY <2>3, <2>6, <2>8
<1> QED
  BY <1>1, InvAlways, OrderInvAlways, OutputInvAlways, PTL DEF OnlyOverlapsMix, Spec

\* A command that met no fault, and no other command at its files, and reports
\* success has done what it was asked for, with any number of processes beside it and
\* whatever earlier ones, killed ones among them, have left in the directory.
THEOREM SuccessIsDoneAlways == Spec => SuccessIsDone
<1>1. ASSUME Inv, OrderInv, [Next]_vars
      PROVE  [\A p \in Process :
                /\ ~At(p, "idle") /\ proc'[p].pc = "idle" /\ proc'[p].result = "ok"
                /\ p \notin disturbed'
                /\ Asked(p) # {}
                =>
                /\ Command(p) = "extract" /\ OfArea(p) =>
                      \A c \in Asked(p) : disk'[<<MemberIn(c).name, "">>] = c
                /\ Command(p) = "decrypt" /\ KindOf(LastAsked(p)) # "short" =>
                      disk'[Output(proc[p].run)] = Decrypted(LastAsked(p), Key(proc[p].run))]_vars
  <2> SUFFICES ASSUME Next, NEW p \in Process,
                      ~At(p, "idle"), proc'[p].pc = "idle", proc'[p].result = "ok",
                      p \notin disturbed', Asked(p) # {}
               PROVE  /\ Command(p) = "extract" /\ OfArea(p) =>
                            \A c \in Asked(p) : disk'[<<MemberIn(c).name, "">>] = c
                      /\ Command(p) = "decrypt" /\ KindOf(LastAsked(p)) # "short" =>
                            disk'[Output(proc[p].run)] = Decrypted(LastAsked(p), Key(proc[p].run))
    BY <1>1
  <2>1. Step(p)
    <3>1. ASSUME NEW q \in Process, NEW r \in Run, Start(q, r) PROVE FALSE
      BY <1>1, <3>1, StartFacts DEF At
    <3>2. ASSUME NEW q \in Process, Crash(q) PROVE FALSE
      BY <1>1, <3>2, CrashFacts DEF At
    <3>3. ASSUME NEW q \in Process, Step(q), q # p PROVE FALSE
      BY <1>1, <3>3, StepRuns DEF At
    <3> QED
      BY <3>1, <3>2, <3>3 DEF Next
  <2>2. CASE Concerned(proc[p].run)
    <3>1. p \notin disturbed
      BY <1>1, <2>1, StepRuns
    <3>2. OwnStep(p)
      BY <1>1, <2>1, <2>2, <3>1 DEF OwnStep, OrderInv, UndisturbedInOrder
    <3> QED
      BY <3>2, OwnStepInOrder DEF Succeeds
  <2>3. CASE ~Concerned(proc[p].run)
    <3>1. proc[p].run \in Run
      BY <1>1 DEF Inv, ProcOK, Sound, At
    <3> QED
      BY <2>3, <3>1 DEF Concerned, Command, OfArea
  <2> QED
    BY <2>2, <2>3
<1> QED
  BY <1>1, InvAlways, OrderInvAlways, PTL DEF SuccessIsDone, Spec
=============================================================================
