------------------------------- MODULE Program ------------------------------
(***************************************************************************)
(* Runs of img3 one after the other, from the command line to the data     *)
(* that decrypt writes: main of IMG3_Main.cpp and, of IMG3_Functions.cpp,  *)
(* UpdateIMG3Database and DecryptIMG3File.  Only the database lasts from   *)
(* one run to the next: a map of the keys, as KeyStoreBook shows.          *)
(*                                                                         *)
(* Every call succeeds but for reads of an archive.  What list, extract    *)
(* and patch do with an archive that is listed, and what other processes   *)
(* and failing calls can disturb, is the subject of Commands.              *)
(***************************************************************************)
EXTENDS Arguments, ZipDirectory, Cipher

CONSTANTS
    Page,       \* page -> its entries, in order
    NeedsQuotes,\* devices whose name is a table name only between quotes
    Section,    \* <<archive, member>>, or <<file, file>> -> its DATA section
    Shows,      \* the name of a member -> the sections whose names it contains
    Line,       \* run -> the command lines it can have
    MaxRuns     \* bound: runs of the program

\* A text that goes on with other bytes behind its end, by which nothing is stored.
Garbled == "garbled"

Slot == [device: Argument, version: Argument, section: Argument]

\* What a page publishes for a section; it fits when no value is missing and a command of
\* MAX_SQL_COMMAND_LENGTH holds them all.
Entry == [section: Argument, pair: Stored, fits: BOOLEAN]

ASSUME ProgramAssumption ==
    /\ \A p \in DOMAIN Page : Page[p] \in Seq(Entry)
    /\ NeedsQuotes \subseteq Argument
    /\ \A f \in DOMAIN Section : IsSection(Section[f])
    /\ \A f \in DOMAIN Layout : \A r \in Range(Layout[f].records) : r.name \in DOMAIN Shows
    /\ Garbled \notin Argument
    /\ MaxRuns \in Nat
    /\ \A n \in 1..MaxRuns : \A l \in Line[n] :
          l.command \in Command \cup {"unknown"} /\ l.args \in Seq(Argument)

VARIABLES
    phase,      \* where main and its handler are; "idle" between two runs
    files,      \* extractedFiles, from the file at hand on
    slot,       \* what RetrieveKeyAndIV was last asked for
    entry,      \* listIt: the entry of the page to be stored next
    book,       \* the database: slot -> the key and IV stored for it
    updates,    \* history: the updates that were made, as their lines ask for them, and
                \* how many entries of the page were stored
    runs

handlerVars == <<phase, files, slot, entry>>
pastVars == <<book, updates, runs>>
vars == <<argVars, zipVars, cipher, handlerVars, pastVars>>

NoSlot == [device |-> "none"]

Init ==
    /\ ArgInit /\ ZipInit /\ CipherInit
    /\ phase = "idle" /\ files = <<>> /\ slot = NoSlot /\ entry = 0
    /\ book = <<>> /\ updates = <<>> /\ runs = 0

-----------------------------------------------------------------------------
\* The process ends, and everything is as before it began.
End ==
    /\ phase' = "idle" /\ files' = <<>> /\ slot' = NoSlot /\ entry' = 0
    /\ operation' = "none" /\ args' = <<>> /\ argPc' = "idle" /\ index' = 0
    /\ settings' = NoSettings
    /\ zip' = NoZip /\ cipher' = NoCipher

Enter(p) == phase' = p

Start(l) ==
    /\ phase = "idle"
    /\ Enter("arguments")
    /\ runs' = runs + 1
    /\ ParseArguments(l.command, l.args)
    /\ UNCHANGED <<zipVars, cipher, files, slot, entry, book, updates>>

InArguments ==
    /\ phase = "arguments"
    /\ ArgNext
    /\ UNCHANGED <<zipVars, cipher, handlerVars, pastVars>>

Refused ==
    /\ phase = "arguments" /\ argPc = "refused"
    /\ End
    /\ UNCHANGED <<zipFaults, pastVars>>

Archive == settings.archive.word
OpensArchive == operation \in {"decrypt", "list", "extract", "patch"}

\* A handler begins; parse and decompress, which have no settings but their file, are
\* at their end here.  DecryptIMG3File needs a section.
BeginHandler ==
    /\ phase = "arguments" /\ argPc = "accepted"
    /\ \/ /\ OpensArchive /\ ~(operation = "decrypt" /\ Missing("section"))
          /\ AnalyzeFile(Archive)
          /\ Enter("analyze")
          /\ UNCHANGED <<argVars, cipher, files, slot, entry>>
       \/ /\ operation = "update"
          /\ Enter("update")
          /\ UNCHANGED <<argVars, zipVars, cipher, files, slot, entry>>
       \/ /\ operation \in {"parse", "decompress"} \/ (operation = "decrypt" /\ Missing("section"))
          /\ End
          /\ UNCHANGED zipFaults
    /\ UNCHANGED pastVars

InAnalyze ==
    /\ phase = "analyze"
    /\ ZipNext
    /\ UNCHANGED <<argVars, cipher, handlerVars, pastVars>>

\* ExtractFiles takes the members whose names contain the section's.
Matching(nodes) ==
    LET taken[i \in 0..Len(nodes)] ==
            IF i = 0 THEN <<>>
            ELSE IF settings.section.word \in Shows[nodes[i]] THEN Append(taken[i - 1], nodes[i])
            ELSE taken[i - 1]
    IN  taken[Len(nodes)]

\* A file that is no archive, or is not taken for one, is decrypted as it is.
Analyzed ==
    /\ phase = "analyze" /\ zip.pc \in {"listed", "failed", "crashed"}
    /\ \/ /\ operation = "decrypt" /\ (zip.pc = "listed" \/ zip.error = "not a zip")
          /\ files' = IF zip.pc = "listed" THEN Matching(zip.nodes) ELSE <<Archive>>
          /\ Enter("next")
          /\ UNCHANGED <<argVars, zip, cipher, slot, entry>>
       \/ /\ ~(operation = "decrypt" /\ (zip.pc = "listed" \/ zip.error = "not a zip"))
          /\ End
    /\ UNCHANGED <<zipFaults, pastVars>>

At == <<Archive, Head(files)>>

\* A file without a section of data, an empty one included, ends the command.
NextFile ==
    /\ phase = "next"
    /\ IF files # <<>> /\ At \in DOMAIN Section /\ Section[At].length > 0
       THEN Enter("lookup") /\ UNCHANGED <<argVars, zip, cipher, files, slot, entry>>
       ELSE End
    /\ UNCHANGED <<zipFaults, pastVars>>

\* What is read where a text is expected: of one that is not ended, perhaps more.
Read(text) == {text.word} \cup (IF text.ended THEN {} ELSE {Garbled})

\* RetrieveKeyAndIV
Lookup ==
    /\ phase = "lookup"
    /\ \E d \in Read(settings.device), v \in Read(settings.version) :
          LET asked == [device |-> d, version |-> v, section |-> settings.section.word] IN
          \/ /\ asked \in DOMAIN book
             /\ slot' = asked
             /\ Prepare(Section[At], book[asked])
             /\ Enter("cipher")
             /\ UNCHANGED <<argVars, zip, files, entry>>
          \/ asked \notin DOMAIN book /\ End
    /\ UNCHANGED <<zipFaults, pastVars>>

InCipher ==
    /\ phase = "cipher"
    /\ CipherNext(Section[At])
    /\ UNCHANGED <<argVars, zipVars, handlerVars, pastVars>>

NoKeyOrIV ==
    /\ phase = "cipher" /\ cipher.pc = "failed"
    /\ End
    /\ UNCHANGED <<zipFaults, pastVars>>

\* Mutant: the file is not taken off the list.
Write_kept ==
    /\ phase = "cipher" /\ cipher.pc = "decrypted"
    /\ Enter("next") /\ slot' = NoSlot /\ cipher' = NoCipher
    /\ UNCHANGED <<argVars, zipVars, files, entry, pastVars>>

\* The data is written and released; data that was freed already may end the process.
Write ==
    /\ phase = "cipher" /\ cipher.pc = "decrypted"
    /\ \/ /\ files' = Tail(files)
          /\ Enter("next") /\ slot' = NoSlot /\ cipher' = NoCipher
          /\ UNCHANGED <<argVars, zip, entry>>
       \/ cipher.freed /\ End
    /\ UNCHANGED <<zipFaults, pastVars>>

\* What a line asks for.
SaidDevice == IF Given("-d") # {} THEN Value("-d").word ELSE ByName("device")
SaidVersion == IF Given("-v") # {} THEN Value("-v").word ELSE ByName("version")

\* The file is mapped and parsed; one that is no page ends the command.
ReadPage ==
    /\ phase = "update"
    /\ IF Archive \in DOMAIN Page
       THEN /\ Enter("store") /\ entry' = 1
            /\ updates' = Append(updates, [device |-> SaidDevice, version |-> SaidVersion,
                                           page |-> args[Len(args)], stored |-> 0])
            /\ UNCHANGED <<argVars, zip, cipher, files, slot>>
       ELSE End /\ UNCHANGED updates
    /\ UNCHANGED <<zipFaults, book, runs>>

AtHand == Page[Archive][entry]
SlotAtHand ==
    [device |-> settings.device.word, version |-> settings.version.word, section |-> AtHand.section]

\* There is another entry, and it can be stored: the UPDATE of a row that is there has no
\* quotes around the name of the table.
Storable ==
    /\ entry <= Len(Page[Archive])
    /\ AtHand.fits
    /\ settings.device.word \in NeedsQuotes => SlotAtHand \notin DOMAIN book

\* Mutant: what is stored already is kept.
Published_first == [s \in DOMAIN book \cup {SlotAtHand} |-> IF s \in DOMAIN book THEN book[s] ELSE AtHand.pair]

\* An entry replaces what is stored for the same version and section.
Published == [s \in DOMAIN book \cup {SlotAtHand} |-> IF s = SlotAtHand THEN AtHand.pair ELSE book[s]]

\* InsertDecryptionInfo, for one entry.
StoreEntry ==
    /\ phase = "store" /\ Storable
    /\ book' = Published
    /\ entry' = entry + 1
    /\ updates' = [updates EXCEPT ![Len(updates)].stored = entry]
    /\ UNCHANGED <<argVars, zipVars, cipher, phase, files, slot, runs>>

\* Mutant: the loop ends before the last entry.
EndUpdate_short ==
    /\ phase = "store"
    /\ ~(Storable /\ entry < Len(Page[Archive]))
    /\ End
    /\ UNCHANGED <<zipFaults, pastVars>>

\* UpdateDatabase stops at the first entry that fails, which makes no difference to its caller.
EndUpdate ==
    /\ phase = "store" /\ ~Storable
    /\ End
    /\ UNCHANGED <<zipFaults, pastVars>>

-----------------------------------------------------------------------------
Step ==
    \/ InArguments \/ Refused \/ BeginHandler
    \/ InAnalyze \/ Analyzed \/ NextFile \/ Lookup \/ InCipher \/ NoKeyOrIV \/ Write
    \/ ReadPage \/ StoreEntry \/ EndUpdate

StartNext == phase = "idle" /\ runs < MaxRuns /\ \E l \in Line[runs + 1] : Start(l)

Next == StartNext \/ Step

Spec == Init /\ [][Next]_vars

\* A process that runs goes on; nobody has to start one.
FairSpec == Spec /\ WF_vars(Step)

-----------------------------------------------------------------------------
\* The types; something is looked up, and the cipher at work, only between a lookup and
\* the writing of what was decrypted.
TypeOK ==
    /\ ArgTypeOK /\ ZipTypeOK /\ CipherTypeOK
    /\ phase \in {"idle", "arguments", "analyze", "update", "store", "next", "lookup", "cipher"}
    /\ argPc = "idle" <=> phase = "idle"
    /\ files \in Seq(DOMAIN Shows \cup Argument)
    /\ slot \in Slot <=> phase = "cipher"
    /\ cipher.pc # "idle" <=> phase = "cipher"
    /\ entry \in Nat /\ (entry > 0 <=> phase = "store")
    /\ DOMAIN book \subseteq Slot /\ \A s \in DOMAIN book : book[s] \in Stored
    /\ Len(updates) <= runs /\ runs \in 0..MaxRuns

(* ----- Properties ------------------------------------------------------ *)

\* A function behind a command works with everything it relies on: what the line left out
\* was found in the name of the file, or the line is refused.  One setting is not seen to
\* by ParseArguments: it accepts a line of decrypt without the section, which the usage
\* calls "NOT optional", and DecryptIMG3File begins and is at its end.
NothingMissing ==
    argPc = "accepted" =>
        \A s \in Needed(operation) : settings[s] # Null \/ (phase = "arguments" /\ s = "section")

\* The slot that entry j of update i is for.
For(i, j) ==
    [device |-> updates[i].device, version |-> updates[i].version,
     section |-> Page[updates[i].page][j].section]

Brings(i, j, s) == i \in DOMAIN updates /\ j \in 1..updates[i].stored /\ For(i, j) = s

\* Nothing was stored for a slot behind entry j of update i.
Last(i, j, s) ==
    \A k \in DOMAIN updates : \A l \in 1..updates[k].stored :
        Brings(k, l, s) => k < i \/ (k = i /\ l <= j)

\* The key that a file is decrypted with is that of the device, the version and the
\* section that the line of decrypt asks for, from the last entry that any update stored for
\* them.  When decrypt is given no version, the device may be one whose name is the
\* beginning of the right one.
KeyAsAsked ==
    phase = "cipher" =>
        /\ slot.version = SaidVersion /\ slot.section = Value("-s").word
        /\ slot.device \in IF Given("-v") # {} THEN {SaidDevice} ELSE Beginnings(SaidDevice)
        /\ \E i \in DOMAIN updates : \E j \in 1..updates[i].stored :
              /\ Brings(i, j, slot) /\ Last(i, j, slot)
              /\ cipher.stored = Page[updates[i].page][j].pair

\* Update i had to stop at entry j: it does not fit, or the device needs quotes and has an
\* entry for the same version and section from before.
HadToStop(i, j) ==
    \/ ~Page[updates[i].page][j].fits
    \/ /\ updates[i].device \in NeedsQuotes
       /\ \E k \in 1..i : \E l \in 1..updates[k].stored : Brings(k, l, For(i, j))

\* An update that has ended stored its page as far as it could: all of it, or all that is
\* before an entry at which it had to stop.
StoredAsFar ==
    \A i \in DOMAIN updates :
        \/ i = Len(updates) /\ phase = "store"
        \/ updates[i].stored = Len(Page[updates[i].page])
        \/ HadToStop(i, updates[i].stored + 1)

\* "Completed database update.": from then on a lookup returns what the page says.
KeyIsNewest ==
    phase = "cipher" =>
        LET at == {i \in DOMAIN updates : \E j \in DOMAIN Page[updates[i].page] : For(i, j) = slot} IN
        \E j \in DOMAIN Page[updates[Max(at)].page] :
            For(Max(at), j) = slot /\ cipher.stored = Page[updates[Max(at)].page][j].pair

\* A section, with the right key.
OutputIsContents == phase = "cipher" => DecryptsRight(Section[At])

\* Every run ends, whatever its line and its files.
EveryRunEnds == phase # "idle" ~> phase = "idle"
=============================================================================
