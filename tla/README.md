# Verification of img3

`img3` is a command-line program for the firmware of iOS devices. It stores the
decryption keys that a web page publishes in an SQLite database, and it lists,
extracts, parses, decrypts and patches the IMG3 containers inside a firmware
archive. This directory holds TLA+ modules for it, TLC configurations that check
them on small instances, and proofs checked by TLAPS for every value of the
constants.

Check one module with `tlc -config <run>.cfg <MC module>`, one proof with
`tlapm <module>.tla`. `PROJECT.json` lists the runs, the mutants that show each
property can fail, the source lines behind each definition, the hazards of the
code and the theorems.

## 1. The system

All paths are relative to `src/src/`.

| Component | Source | State | Operations | Modelled |
|---|---|---|---|---|
| Key database | `sqlite3/IMG3_Sqlite3.cpp` | one SQLite file: a table per device, a row per version and section with build, key and IV | `UpdateDatabase`, `InsertDecryptionInfo`, `DoesDeviceExist`, `DoesSectionExist`, `InsertTable`, `RetrieveKeyAndIV` | `KeyStore`, `KeyBook`, `KeyStoreBook` |
| HTML page parser | `html/IMG3_HtmlParser.cpp`, `IMG3_HtmlTag.cpp` | filters, lists of opening, closing and complete tags, the sorted list, the extracted entries | `AddFilter`, `ParseHtmlTags`, `CombineTags`, `RetrieveDataBetweenTags`, `SortTagsById`, `ExtractDecryptionInfo` | `HtmlParser` |
| LZSS compressor | `compression/IMG3_LzssInterface.cpp` | ring of text with a copy of its head, 256 search trees, the group being coded; the decoder's ring | `LzssCompress`, `Compress`, `InsertNode`, `DeleteNode`, `Decompress`, `LzssDecompress`, `IsFileCompressed` | `LzssTree`, `Lzss`; the header in `Cipher` |
| IMG3 container | `sections/IMG3_FileInterface.cpp`, `IMG3_FileSection.cpp` | the mapped file, the list of sections | `ParseFile`, `ParseSection`, `GetSectionData`, `GetSectionDataLength` | `Img3File` |
| Commands | `IMG3_Functions.cpp` | mapped files, decrypted and decompressed buffers, output files | `UpdateIMG3Database`, `DecryptIMG3File`, `PatchKernelFile`, `ParseIMG3File`, `DecompressLZSSFile`, list, extract | `Commands` |
| ZIP archives | `compression/IMG3_ZipInterface.cpp` | the list of central-directory records, the open file | `AnalyzeFile`, `ExtractFiles`, `ResetData` | `ZipDirectory` (the list), `Commands` (extraction) |
| Cipher | `openssl/IMG3_OpensslInterface.cpp` | key and IV | `SetKeyAndIV`, `DecryptData`, and `DecryptIMG3Data` around them | `Cipher` |
| Command line | `IMG3_Main.cpp` | `operation`, `deviceName`, `deviceBuild`, `deviceVersion`, `section`, the names of files | `ParseArguments`, `main` | `Arguments`; `Program` composes it with the others |
| SQLite itself | `sqlite3/sqlite3.c` | | | third-party: modelled by what the statements do |
| Build files, data | `Makefile`, `Resources/`, … | | | no behaviour |

### How the components interact

The program is one thread per process, and no process talks to another except
through the files they share: above all the database, which every run opens by
the same path.

* **update**: map the page; `AddFilter` for each tag name of interest;
  `ParseHtmlTags`; `UpdateDatabase` with the list of entries it extracted.
* **decrypt**: `AnalyzeFile` on the archive; `ExtractFiles` the members whose name
  matches; then for each: map, `ParseFile`, take the `DATA` section,
  `RetrieveKeyAndIV`, AES, `LzssDecompress` if the result is compressed, write.
* **patch**: the same as far as the decrypted and decompressed kernel, apply the
  patch, `LzssCompress`, encrypt, write.
* **list, extract, parse, decompress** each use one of the components alone.

### What is hard about it, and what makes each part correct

* *Key database.* No transaction is opened anywhere, so every SQL statement commits
  on its own. Updates and lookups of several processes interleave statement by
  statement; a process may be killed between two; a query that fails is taken for
  one that finds nothing. Correct means: a pair returned for a section is a pair
  that was published for that section, and an update that reports success is whole.
* *HTML parser.* Tags are paired after the scan, by comparing ids while the lists
  shrink, and the outer loop has no measure of progress. Correct means: tags are
  paired as they nest, no tag is lost or used twice, an entry gets the name, the
  IV and the key that belong together, and the parser ends on every good page.
* *LZSS.* The trees point into a ring that is overwritten while they are
  searched; the ring's head exists twice; lengths are clipped at the end of the
  text. Correct means: decompressing what was compressed gives the input back, the
  matches are the longest there are, and the output fits its buffer.
* *Container.* Sections nest and unknown ones are skipped bit by bit; one object
  parses several files one after the other. Correct means: the list holds main
  sections of this file only, and misses none that it looks for, whatever lengths the
  headers give; and a good file comes to an end.
* *ZIP archives.* The end of the directory is looked for in the last kilobyte of the
  file, and the records are found by adding up lengths; both can stand in comments
  and in members. Correct means: the list of a good archive is its directory, once
  and in order.
* *Cipher.* Lengths that are no multiple of a block are rounded up, keys of three
  lengths are taken by a cipher that knows one, and data is decompressed by a guess at
  its first bytes. Correct means: with the right key the output is what was encrypted;
  where the code fails to do so, it is known for which sections.
* *Command line.* An option takes the argument behind it whatever that is, the last
  argument is the file whatever is before it, and what is missing is read out of the
  file's name into buffers that are ended in the wrong place. Correct means: each
  setting is the one the line gives, and no handler goes on without one it needs.
* *All of it.* What one run stores, another decrypts with, and an update stops at the
  first entry that fails without telling. Correct means: an update stores its page as far
  as it can, and the key used is the last one stored for what the line asks for.
* *Commands.* A directory holds archives, what was extracted from them and what was
  made of that; several processes read and replace the files of one another, a
  process may be killed at any time, and most results of a call are ignored. Correct
  means: an output is the decryption of one whole file, under the right name and by
  the right key; it is cut off or a mixture only where a call failed, a process was killed
  or two wrote at once; a success that nobody disturbed did what was asked; every command
  ends.

`PROJECT.json` lists each hazard with its line and the properties that cover it.

## 2. The modules

### KeyStore: the database and the processes around it

| State | Code |
|---|---|
| `tables`, `rows` | the tables of the SQLite file, and their rows in rowid order |
| `pc`, `upd`, `item` | where an updater is in `UpdateDatabase` / `InsertDecryptionInfo`, and with which entry of its page |
| `want`, `ivRead`, `reply` | the arguments, the IV read so far and the result of `RetrieveKeyAndIV` |
| `published`, `fate` | history: the updates that were started, and how each ended |
| `faults`, `crashes` | counters for the bounds |

Each SQL statement is one action, since each commits on its own:
`DoesDeviceExist`, `InsertTable`, `DoesSectionExist`, `UpdateKey`, `UpdateIV` and
`InsertRow` for the updater, `SelectIV` and `SelectKey` for the lookup.
`StartUpdate` and `StartLookup` begin a command, `Crash` kills a process. Values
are fresh: the key and IV of entry *i* of update *n* are both `[job, item]`, so
the properties can tell whose key stands beside whose IV.

A statement can fail in two ways. While another process is in the middle of a
command it may hold a conflicting lock, and since no busy handler is installed the
statement then fails at once with `SQLITE_BUSY`. It may also fail for want of disk
or memory: at most `MaxFaults` times. Failure is taken as the code takes it, which
for `DoesDeviceExist` and `DoesSectionExist` means "no such row".

`KeyBook` is the abstract specification: a map from sections to pairs in which a
pair is stored and read whole. `KeyStoreBook` gives the refinement mapping. It is
an implementation only when one process uses the database at a time and nothing
fails; the runs `KeyStoreTorn` and `KeyStoreDuplicate` show why.

### HtmlParser: from a page to its entries

A page is a sequence of items (opening, closing and self-closed tags, comments, and
tags that are cut off), each followed by one of the texts the code tells apart. The
actions follow the phases of `ParseHtmlTags`: `AddFilters`, `ScanTag` / `EndScan`,
`BeginCombine` / `MatchClosing` / `EndCombine` (one call of `CombineTags` visits the
closing tags of one name), `RetrieveData` / `EndRetrieve`, `SortTagsById`,
`ExtractInfo` / `EndExtract`. `pc = "crashed"` is a read through a pointer the code
never set. Two outcomes that the code leaves open are choices: whether the copy of
a filter, which lacks its terminator, matches; and where the scan comes to rest
after a comment. Attributes are left out: nothing the program does with a page uses
them. What a pair *should* be is read off the page without an algorithm: `Partner` of an
opening tag is the first closing tag of its name behind it up to which there are as many
of the one as of the other. The properties compare the parser's lists with the page itself:
`TagsOfPage` is the tags of the filters' names on the part of it that was scanned, and
the entries a page has are computed from those. One thing cannot be read off the page: where
the scan comes to rest inside a comment, it may take a tag there for an opening one (a
comment's hidden tag is always an opening one here). `EntriesOfPage` is therefore about pages
without tags of interest in comments that are read with all their filters (`ReadsWell`); what
a lost filter does is in section 3.

### LzssTree and Lzss: the compressor and the decompressor

`LzssTree` is `encode_state` as a record of three arrays, with `InsertNode` and
`DeleteNode` as operators on it; loops are recursive functions. The sentinel cells
and cell `Nil`, which the code writes, exist as in the code. `Lzss` is the two
loops: `Refuse`, `Fill`, `SendUnit`, `ReadByte` / `Drain` and `EndAdvance` of
`Compress`, and `ReadFlags`, `ReadLiteral`, `ReadPair` and `EndStream` of
`Decompress`. A run takes one input through
the compressor and then the decompressor. A flag byte and its group are cells of
the stream; the code's constants (4096, 18, 2, 8) are parameters.

### Img3File: the sections of a container

A file is its length and the headers that stand in it, by offset, anywhere: main
sections, sections in sections, headers of unknown types. Offsets and lengths count
words where the code counts bytes, and headers begin on words. What a header gives as its lengths is any number
below `Wrap`, since the code checks none: a section can be shorter than its data, than its
own header, or of no length at all, and the sums are taken in 32 bits as the code takes
them. `RefuseEmpty`, `Refuse`, `RefuseCrash` and `BeginParse` are the ways into
`ParseFile`; `AddSection`, `SectionFails`, `SectionCrash`, `Skip` and `EndParse` the ways
round its loop. A crash is the copy of data that is not all in the file, when what is behind it is not
there to be read; when it is, the section is listed. The operators `GetSectionData` and
`GetSectionDataLength` return what the
commands ask for. `WriteSectionData` and `GetSection` have no callers and are left
out.

`MainSectionsOnly` needs that no section leads over the end of the 32 bits (`InWidth`), `ParseEnds`
that every section has a length and its data (`Readable`), `DataIsPayload` a file as they
are made (`WellFormed`); `NoTagMissed` and `OnlyThisFile` need nothing. `MaxSections` bounds the list that a section of length 0
makes endless; no other file of the runs comes to it (`MCMaxSections`).

### Commands: processes in one directory

| State | Code |
|---|---|
| `disk` | what each file of the directory holds, told apart by who wrote it |
| `proc[p].pc`, `.run` | where process `p` is, and in which command |
| `proc[p].todo` | the members of the archive that `ExtractFiles` has yet to extract |
| `proc[p].files` | `extractedFiles`, from the file at hand on |
| `proc[p].mapped`, `.buffer` | `data`, and `decryptedData` or `decompressedData` |
| `disturbed` | history: the processes whose run met a fault, or another run at its files |
| `runs`, `faults`, `crashes` | counters for the bounds |

Each call that another process can notice is an action, in the order of the source:
`AnalyzeFile`, `UnzipBegin` and `UnzipEnd` (a child process that replaces the file
by a new one), `ForkFails`, `ExtractDone`, `NextFile`, `OpenPatch`, `Map`, `Parse`,
`Decrypt`, `WriteBegin` (`fopen` empties the output) and `WriteEnd`, `Release`.
`Start` begins a command, `Crash` kills a process. Any call can fail, at most
`MaxFaults` times.

A container has a kind, by what `ParseFile`, the cipher and `LzssDecompress` do with
it. The name, device and version given to a command stand for one another: the key
that is looked up is `[base, area]`. Three things the code leaves to the platform
are choices: closing a file twice (`AnalyzeFile` closes the archive and keeps the
pointer, which `ResetData` closes again) may end the process; freeing
`decryptedData` twice may too, and what is written from it is `Freed`; and a name
that `strncpy` left without a terminator may be another name.

Two writers of one output are told apart from one: when two have it open at once, or one
has opened it since the other did (`Shared`), what either leaves there (`Leaves`) is its data, or a mixture,
`Mixed`; a write that fails, or whose process is killed, may have put some of its data
into what the other wrote, too. `unzip` is taken to be installed: an `execlp` that fails in the child of
`vfork` is not modelled.

### Arguments: the command line

The state is the program's own globals (`operation`, `settings`), the place `index`
of the loop over the options, and `argPc`, where `ParseArguments` is. One action is
one round of the loop (`TakeOption`, `OtherArgument`, `EndOptions`), or one of the
steps behind it: `TakeNames`, then for decrypt and patch `DeviceFromName`,
`VersionFromName`, `TakeSection`, and for update `DeviceOfPage`, `BuildOfPage` (the
user confirms it or types another) and `VersionOfPage`. A *text* in memory is a word and
whether it is ended; `Terminated` is a terminator written at a place of it. What a
name says when the code looks for commas, underscores and digits in it is the constant
`Says`; of which words one is the beginning, the constant `Cut`. A line of decrypt is
accepted without its section, as the code accepts it; it is the handler that does not go on.

`Given`, `Value` and `ByName` say what a line asks for without a loop: an option is
examined where an even number of options stands before it, since each takes the next.

### ZipDirectory: the list of an archive

A file is its length and, by offset, the end markers and the record headers in it,
meant or not. `AnalyzeFile` opens it, `FindCentralDirectoryEnd` takes the first end
marker in the last `Window` bytes, `OpenDirectory` reads the directory,
`ReadRecord` appends one record, and `TraversalError` or `EndRecords` ends the walk.
Where the file ends within the end of the directory, what stands in memory behind the
buffer is any of `Behind`. `IsDirectory` says, without a walk, which offsets are a
directory.

### Cipher: from an encrypted section to its contents

The state is one record: the data handed over, what was looked up, the output, and
whether it was freed. `Prepare` is the lookup's result and the padding,
`SetKeyAndIV`, `DecryptData` and `LzssDecompress` are the calls in their order. A cell of
data is known by what it is (cell *i* of the plain text, of its encryption, of what it
decompresses to, or junk), so AES is: a block is decrypted when all its cells are
encrypted cells of that block and the key and IV are the section's, of 256 and 128
bits. The bytes of the text of a key are left out but for their number.

### Program: run after run

`Program` extends the three and adds `main` and the handlers of update and decrypt:
`Start` (a process begins with a command line), `BeginHandler`, `Analyzed`,
`NextFile`, `Lookup`, `Write`, `ReadPage`, `StoreEntry`, `EndUpdate`, `End`. What one run leaves to the next is
`book`, the database, as the map that `KeyStoreBook` shows it to be for one process
and no failing statement. `UpdateDatabase` stores one entry of the page after the other and
stops at the first that it cannot store (`Storable`): one that is too long, or one that has a
row already when the name of the device is a table's name only between quotes (`NeedsQuotes`), which
the UPDATE template lacks. Its caller goes on as if nothing had happened. `updates` is the history of
updates by what their lines ask for, and how many entries each has stored. Only
reads of an archive fail here: `Commands` and `KeyStore` have the faults, the crashes
and the other processes. parse and decompress end where their handlers begin; list,
extract and patch end with the list of the archive.

A text that is not ended goes on with bytes that are not its own (`Garbled`), or
happens to end; that nothing is stored under such a name is an assumption.

## 3. The runs

| Run | Instance | Shows |
|---|---|---|
| `KeyStoreOneUpdater` | one updater, one reader, 3 updates, a fault and a crash | `Provenance`, `KeyNotOlderThanIV`, `SuccessIsWhole`, `NothingLost` |
| `KeyStoreTwoUpdaters` | two updaters, a reader, two devices (one whose name needs quotes), 2 updates, a crash | `Provenance`, `TableBeforeWrite`, and that every command ends |
| `KeyStoreSolo` | one process for everything, two versions, 3 updates, no failure | the refinement `BookSpec`, `SuccessMeansStored`, `UniqueRows` |
| `KeyStoreTorn` | two updaters, 3 updates | **violated**: two successful updates leave the key of one beside the IV of the other |
| `KeyStoreDuplicate` | one process, a failing query | **violated**: a second row is inserted for a section that has one |
| `HtmlPages` | every page of `MCPages`: nested, crossing, unbalanced, cut, commented; one filter may be damaged | `TagsConserved` from the scan to the end, `GenuinePairs`, `EntriesOfPage`, `PageIsParsed` |
| `LzssRoundTrip` | ring of 8, match limit 3, groups of 3, every input over three bytes up to length 6, and over two up to length 11 | `TreesOrdered`, `LongestMatch`, `Lossless`, `FitsBuffer` |
| `Img3Files` | two files in a row, from every small layout of sections, sections of unknown types, gaps and inner headers, and layouts with lengths that are too short, none, too long or wrap | `OnlyThisFile`, `MainSectionsOnly`, `NoTagMissed`, `DataIsPayload`, `ParseEnds` |
| `CommandsTogether` | two processes, two commands of any kind, a fault and a crash; two archives with members of the same names, a broken archive, a compressed file | `OutputsAreWhole`, `OnlyOverlapsMix`, `SuccessIsDone`, `EveryCommandEnds` |
| `CommandsUnzip` | one command, one fault | **violated**: a file that `unzip` has not extracted counts as extracted |
| `Program` | up to three runs in a row: first any of 259 lines of up to three arguments per command, and longer ones with options in every order; then updates; then decrypts, of good archives, archives that are cut, damaged, nested or have a long comment, and sections of every kind | `SettingsAsGiven`, `NothingMissing`, `ListIsDirectory`, `KeyAsAsked`, `StoredAsFar`, `OutputIsContents`, `EveryRunEnds` |
| `ProgramUpdate` | the same | **violated**: after an update that is reported as completed, decrypt uses an older key |

**Why the bounds are enough.** In `KeyStore`, a torn or stale pair needs two updates
of one section and a lookup between their statements; three updates also give a row
with a past. A page of two entries, a page that lists a section twice and a page
that fails in the middle are all there. In `HtmlParser`, the pairing rule depends on
one name at a time and on whether an opening tag of it comes later, so three
elements of a name and two names exercise every case; the theorems of section 4 cover all
other pages. In `Lzss` the longest input
goes once around the ring, so the head's copy is read and written, strings are
deleted from trees with two children, and a pair overlaps its own output; section 4 has
every property of it for a ring, a match limit and an input of any size. In
`Img3File`, two files show what the first leaves to the second, and each way in which a length can
be wrong stands before and behind a good section. In `Commands`, two runs are the least that can
disturb one another, at once or by what the first leaves behind, and the archives
have two members each, so that a list has a head and a rest. In `Program`, two updates
are the least of which one replaces what the other stored, and a third run decrypts;
an update whose device name is the beginning of another's is among them, as are one whose
device needs quotes, a page that lists a section twice and a page whose third entry cannot be stored; three options
with their values are in every order and with each given twice; and the theorems of section 4 say that
longer lines, larger archives and more runs bring nothing new.

**Fairness.** A command that has begun is a process the operating system keeps
running, so its own steps are weakly fair; nobody has to begin a command, and
`Crash` and faults need not happen. There is no lock to wait for: a statement that
meets one fails at once, so weak fairness is enough. The same holds for the commands:
`wait` returns because `unzip` ends, and nobody has to start a run. In `Program` the
steps of a process are fair, and starting one is not. The parser, the
compressor and `ParseFile` are one thread each.

**Deadlock** is checked in every `KeyStore` run and in `LzssRoundTrip` (where a
finished run stutters by an action of its own). A parser stops for good when it has
ended, and no command starts after the last of a bound, so the runs of `HtmlParser`,
`Img3File`, `Program` and `Commands` switch the check off; that
they end, and where, is what `PageIsParsed`, `ParseEnds`, `EveryCommandEnds` and
`EveryRunEnds` say.

### What the violations say

* `KeyStoreTorn`: the key and the IV of a row are written by two statements
  (`IMG3_Sqlite3.cpp:208-222`). Two updates of one section can interleave so that
  both report success over a mixed pair.
* `KeyStoreDuplicate`: `DoesSectionExist` returns -1 for a failed query as for a
  missing row, so an INSERT may repeat a row; lookups keep returning the first.
* `CommandsUnzip`: `ExtractFiles` waits for `unzip` and does not look at its status
  (`IMG3_ZipInterface.cpp:372`), so "Successfully extracted" is printed for a file
  that is missing, or that an earlier run left under that name.
* `ProgramUpdate`: `UpdateIMG3Database` ignores the result of `UpdateDatabase`
  (`IMG3_Functions.cpp:340`), which stops at the first entry that fails. For a device whose
  name needs quotes every second update of a version fails at once, for want of quotes in the UPDATE
  template (`IMG3_Sqlite3.cpp:185`); decrypt then uses the older key.

Noted while modelling, without a run. In `HtmlParser`: with different numbers of opening and
closing tags the comment says "we just abandon hope" (`IMG3_HtmlParser.cpp:607`), while the code goes on, and
entries are extracted; `AddFilter` copies a name without its terminator (87), so its tags may match
nothing, and when it is that of the lists, a page with entries yields none, and no error; the length of a
self-closed tag's data underflows, which ends `RetrieveDataBetweenTags` for all pairs behind it
(392), although "Extracted all data values" is printed. In `Img3File`: a section of length 0 is listed and not passed
(`IMG3_FileInterface.cpp:201`), so `ParseFile` lists it until memory ends. Elsewhere: an empty file is refused before the list of
the file before it is cleared; the data of a `DATA` section begins at a fixed
offset, that of others at "total − data"; headers inside a container of a type
that `ParseFile` does not know are listed as main sections; the compressor
inserts the blanks that the window begins with so that the oldest of equal strings
is kept, and a match with a blank string may be shorter than the longest there is
(`LongestMatch` says so precisely); `patch` never gets past
`IMG3_Functions.cpp:442`, since the call that would set `encryptedData` is commented
out, and leaves its output emptied; a command for an area without a matching member
reports success; of several matching members each overwrites the output of the one
before, so only the last is kept; `decrypt` goes through a NULL list when `vfork`
fails, and `patch` closes files that it has not opened; the Build of a row keeps
naming the build of the first update.

In `Arguments`: a line of decrypt without a section is accepted, although the usage calls it "NOT
optional" (`IMG3_Main.cpp:137`) and the handler asserts it (`IMG3_Functions.cpp:554`), where the command ends; patch wants five arguments although its options may be left out; a single
`-h` is not known to every command; the terminator of a version that is read out of a name
is written into the device (`IMG3_Main.cpp:373`), so that the version may be looked up
with bytes behind it, and a device as the beginning of its name, which may be
another device; the answer to the second question about a build is the line end behind
the build (`SettingsAsGiven` allows just these). In `ZipDirectory`: of several end markers in
the last 1024 bytes the first counts, so an archive that ends with a stored archive is listed
wrongly, and one with a longer comment is taken for no archive, and decrypted as a file;
a directory that breaks off leaves the names of its files behind. `ListIsDirectory` is about
archives with one end marker in the window, and promises nothing for those. In `Cipher`: the
last block of a section that is not of whole blocks is completed from behind a copy of the section
on the heap (`IMG3_FileSection.h:271`), and not, as the comment at
`IMG3_Functions.cpp:216` has it, from the file; `IsFileCompressed` joins two comparisons by `&&` where either
should be enough to refuse (`IMG3_LzssInterface.cpp:150`), so data with one of the two marks
is decompressed, to junk (`OutputIsContents` says for which sections what comes of both); keys of 128 and 192 bits are
accepted and used as keys of 256, and `OutputIsContents`, which is about keys of 256 bits, says
nothing of them; data too short for its header is freed, written and freed again
(`IMG3_Functions.cpp:245`), which `OutputIsContents` shows to happen for no other data.

## 4. The proofs

The modules `…Proofs` prove, for every value of the constants that
satisfies the modules' assumptions:

| Theorem | Says |
|---|---|
| `KeyStoreProofs!TypeCorrect` | `Spec => []TypeOK` |
| `KeyStoreProofs!TablesFirst` | `Spec => []TableBeforeWrite`: any number of updaters, whatever fails or crashes |
| `KeyStoreProofs!ProvenanceAlways` | `Spec => []Provenance`: no key or IV is ever stored for, or returned for, another section |
| `KeyStoreBookProofs!KeyNotOlderThanIVAlways` | `OneUpdater`: `Spec => []KeyNotOlderThanIV` |
| `KeyStoreBookProofs!SuccessIsWholeAlways` | `OneUpdater`: `Spec => []SuccessIsWhole` |
| `KeyStoreBookProofs!NothingLostAlways` | `OneUpdater`: `Spec => NothingLost` |
| `KeyStoreBookProofs!UniqueRowsAlways` | `Faultless`: `Spec => []UniqueRows` |
| `KeyStoreBookProofs!SuccessMeansStoredAlways` | `Faultless`: `Spec => SuccessMeansStored` |
| `KeyStoreBookProofs!ImplementsKeyBook` | `Solo`: `Spec => BookSpec`, the refinement of `KeyBook` |
| `HtmlParserProofs!TypeCorrect` | `Spec => []TypeOK` |
| `HtmlParserProofs!TagsConservedAlways` | `Spec => []TagsConserved`: pages of any length, whatever is unbalanced in them, and at every stage |
| `HtmlParserProofs!GenuinePairsAlways` | `Spec => []GenuinePairs` |
| `HtmlParserProofs!EntriesOfPageAlways` | `Spec => []EntriesOfPage`: the entries that the page has, computed from the page |
| `LzssProofs!TypeCorrect` | `Spec => []TypeOK` |
| `LzssProofs!LosslessAlways` | `Spec => []Lossless`: any input, ring, threshold and size of a group |
| `LzssProofs!FitsBufferAlways` | `Spec => []FitsBuffer` |
| `LzssProofs!TreesOrderedAlways` | `Spec => []TreesOrdered`: whatever is registered and dropped while the ring turns |
| `LzssProofs!LongestMatchAlways` | `Spec => []LongestMatch`: no string of the input in the window matches more bytes |
| `Img3FileProofs!TypeCorrect` | `Spec => []TypeOK` |
| `Img3FileProofs!OnlyThisFileAlways` | `Spec => []OnlyThisFile` |
| `Img3FileProofs!MainSectionsAlways` | `Spec => []MainSectionsOnly`: whatever lengths the headers give, within 32 bits |
| `Img3FileProofs!NoTagMissedAlways` | `Spec => []NoTagMissed`: whatever lengths they give |
| `Img3FileProofs!DataIsPayloadAlways` | `Spec => []DataIsPayload`: of every file that is `WellFormed` |
| `CommandsProofs!TypeCorrect` | `Spec => []TypeOK` |
| `ProgramProofs!TypeCorrect` | `Spec => []TypeOK`: the types of all parts, in any number of runs |
| `ProgramProofs!SettingsAreGiven` | `Spec => []SettingsAsGiven`: lines of any length, options in any order, any names |
| `ProgramProofs!NothingIsMissing` | `Spec => []NothingMissing`: no handler goes on without a setting it relies on |
| `ProgramProofs!ListsAreDirectories` | `Spec => []ListIsDirectory`: files of any layout |
| `ProgramProofs!KeysAreAsAsked` | `Spec => []KeyAsAsked`: any number of runs and updates, wherever these stopped |
| `ProgramProofs!PagesAreStored` | `Spec => []StoredAsFar`: pages of any length |
| `ProgramProofs!OutputsAreContents` | `Spec => []OutputIsContents`: sections and blocks of any size, with what becomes of a last block, of one mark and of a missing header |
| `CommandsProofs!OutputsAlways` | `Spec => []OutputsAreWhole`: any number of processes and commands, whatever fails or is killed |
| `CommandsProofs!OnlyOverlapsMixAlways` | `Spec => OnlyOverlapsMix`: only the output of a disturbed command is ever mixed |
| `CommandsProofs!SuccessIsDoneAlways` | `Spec => []SuccessIsDone`: the same |

Six theorems have a hypothesis on the constants, as the code needs one. `OneUpdater`
is that at most one process updates; `Faultless`, that besides no statement fails; `Solo`, that
one process does everything, no statement fails and it is not killed. Nothing else is
bounded: under `OneUpdater` there may be any number of lookups, failing statements and
kills. The constants of `KeyStoreOneUpdater` satisfy the first, those of `KeyStoreSolo`
all three, and `KeyStoreTorn` and `KeyStoreDuplicate` show what happens without
them. That the good containers of `Img3Files` are `WellFormed` and `Readable`, and that some of the others are
`Readable` only, are assumptions of its module, which TLC evaluates.

*KeyStore.* `TableBeforeWrite` is not inductive alone: that an updater is at a
statement says nothing about `upd` and `item` unless they point into `published`.
The invariant `Inv` adds `Running`: an updater inside a command has an update, and
an entry of its page, and its `fate` is "running". `Provenance` adds what a lookup
holds between its two SELECTs (`ivRead` was published for the slot it `want`s);
the lemmas say that `SetColumn` keeps versions and sections, and that a value
published for a slot stays so when `published` grows.

*KeyStore with one updater* (`KeyStoreBookProofs`). What the updater is about to store is
newer than all that is stored (`LatestRuns`), so what it overwrites is never lost. A row
has the IV of one entry beside the key of another only between the two UPDATEs of the
process that runs, or for ever after an update that did not succeed: `WriterInv` says which
of these a row is in. `KeyNotOlderThanIV` follows for the rows, and for lookups because the
IV is read before the key and keys only grow newer. Without failing statements, what
`DoesDeviceExist` and `DoesSectionExist` have seen is still so when the updater acts on it
(`SeenIsSo`), so no row is repeated, and the entries before the one at hand are stored
(`StoredSoFar`). For `Solo`, every row is whole but between the two UPDATEs (`SoloInv`),
and since the mapping of `KeyStoreBook` reads a slot by its IV, the second UPDATE, or the
INSERT, is the step of `KeyBook` that stores the entry, the second SELECT the one that
looks it up, and all else stutters.

*HtmlParser.* Four invariants, each resting on the one before. `TagsInv`: each list holds
tags of its kind, a pair is an opening tag and a later closing tag of its name, and no tag
is in two places (`Apart`). `KeptByScan`: the lists and pairs hold each tag of interest of the page
(`TagsOfPage`) that the scan has passed, until the parser is done. `NestingInv`: between the two halves of a pair no tag of its name is
left over, and pairs of one name do not cross. It is what makes `GenuinePairs` inductive:
a closing tag that `CombineTags` looks at is paired with the last opening tag left
before it, so what lies between the two of that name is in pairs, and in whole pairs; the
level there is 0. That it is 0 nowhere earlier is a comparison of sizes: each closing
tag up to there goes with a different opening tag that is also within. A closing tag that is
passed without a match (`Skipped`) must find no opening tag later either. `Extracted`: the
list sorted so far has the least openings in order (`SortedOK`), and the entries made so far
are those of the elements up to the place at hand. The elements are the page's: where
`ReadsWell`, the tags held are `TagsOfPage`, so what is computed from the one is what is computed
from the other.

*Lzss.* That what is decompressed is what was compressed needs less of the trees than
their order, and more than their types. `IInv` has these parts.

* `Look`, while the compressor runs. The ring holds the last `N` bytes of the text, and its
  copy what was read of the first of them (`Holds`), so up to `F` bytes are read from any
  place without a remainder. The trees are `Sound`: parents and children agree, each place
  is further down than its parent (`Ranked`, so that no descent goes in a circle and
  `Rightmost` ends), and a tree's strings begin with the byte of its root. Their places are
  in the window (`Window`), none of which is the one overwritten next (`Dropped`). And what
  `match` says is so: up to `len` bytes of the input, from the place on, are those of the
  look-ahead (`Matches`). `Fill` registers strings that begin in the blanks before the text.
* `Sent`. The stream so far, and the group being collected, take the text to a given offset.
  `Stream` says so by the state in which the decompressor will read each cell: the unit it is
  at, the flags, and the offset in the output. `UnitAdded` and `GroupSent` extend it.
* `Received`. The decompressor is in the state that its cell has in the stream, its ring
  holds the bytes before its offset (`Restored`), and what it has written is the
  beginning of the input. `CopiedIs` is the case of a pair that names bytes the copy itself
  writes.

The lemmas on the trees (`Attached`, `Replaced`, `Deleted`, `DescendIs`) say that `InsertNode`
and `DeleteNode` keep them `Sound`, whatever they find. A rank is what makes this provable
without an induction over trees: a place that is inserted, spliced out or moved gets a rank
between its neighbours'. `FitsBuffer` counts: a unit takes as many bytes of
the input as it has in the stream, and at least one.

That the match is the longest does need the order, and is a second invariant on top of the
first, `SInv`.

* `Ordered`. Something assigns to each registered place `p` a set `D[p]`, `p` and what is below
  it, such that what is below the left child comes before `p`, what is below the right one
  after (`Nested`), and what is below a root is all that begins with its byte (`Covers`).
  The set is part of the invariant, so no induction over a tree is needed: for each
  operation the new sets are given, `q` added to those that had its parent (`NestedWithLeaf`),
  `p` taken away from all (`NestedSpliced`), `p` exchanged for a string that
  comes before and after the same ones (`NestedMoved`; an equal string for `Replace`, the
  last of the left subtree for `DeleteNode`). `Less` is an order of strings whether they
  share F bytes or not (`LessOrder`); what is read over the ring's oldest byte is in
  no registered string (`StringsKept`), so the order survives it (`OrderedText`).
* `Stands`. For each string of the input that begins in the window there is one in the trees
  with the same bytes that is not older. `Replace` drops the older of two equal strings, and
  so the one left stays in the window for as long as the one it stands for (`StandsDropped`).
* `Longest`, what `LongestMatch` says. The descent is in `Searches`: all it has left
  aside shares no more bytes with the look-ahead than what it has found, since of three
  strings in order the outer two share no more than two neighbours (`Between`).

`TreesAre` goes from these sets to the function `Below` by which `TreesOrdered` collects them:
a string that is `h` links below another is there in `h` steps, and with `Ranked` no way is
longer than there are places. `LongestMatch` has to be confined to strings of the
input: of the blanks before the text the trees keep the oldest (section 3), and `Stands`
would not hold of them.

*Img3File.* The conjunction of the three properties and `Scanning` (while the loop
runs, the first section is the file's own header and the offset is behind it) is
inductive. Each property needs the others: a tag that is passed by `Skip` was not a
known one, and one that is passed by `AddSection` lies in the section just listed,
which begins at or after the end of the last. No length is assumed for a section: one that gives less than it has lets
the next begin within its data, but not within the length it gives. `DataIsPayload` needs the file to be well formed,
which `ParseFile` does not check: then the loop comes by each main section, so the
first one in the list of the type asked for is the first in the file.

*Commands.* `OutputsAreWhole` speaks of files; what a process is about to write is in
its memory, and what it has in memory came from a file whose name was on its list.
So `Inv` has two halves that need each other. `Sound`, for each process: the list
holds names it may take (`Allowed`), what is mapped when it is firmware is a member
of such a name, and what is in the buffer when it is decrypted data is that of such a
member by the command's own key. `WellPlaced`, for each file: an archive is one from
the start, a member stands under its own name, decrypted data where
`OutputsAreWhole` says, and in an output nothing but what the commands put there. `OwnOutput` and `CutOff` say
when it can be cut off, and that an output whose command nobody disturbed is its own while it is written,
which is `OnlyOverlapsMix`. No action of one process touches the state of another, so a
step is checked for one process and one file. `SuccessIsDone` needs, of a command that nobody
has disturbed, where it is in its work (`OrderInv`): which members it has extracted and that
these still stand as it left them, what is mapped is the member at hand, and the
output is the last one's. It rests on `Alone`: if another command's files met its own,
it would count as disturbed; so what a step writes, by whatever process, is none of the
files an undisturbed command goes by.

*Program.* Its invariant `Inv` has a part for each component, put together in
`ProgramProofs`.

* `ArgInv`. While the options are read, the place at hand is one that
  is examined (`OptionsBefore(index)` is even), and each setting is the argument
  behind the last option for it *below* that place; `OptionStep` is where the
  two meet. Behind the loop, `Parsed` says of each setting whether it is given, resolved by
  the name, or still missing; `VersionTaken` is when the device may have lost its end.
* `ZipInv`. Of an intact archive, the records read are the first
  of its directory, and the next begins where the last ends. That no record runs over
  the end of the directory (`RecordsInDirectory`) is an induction from behind, done by
  taking the last that would.
* `CipherInv`. Which cells the last block can spoil, and what comes of them by the marks that a section has. The
  lemmas are about division: the padded length is the size of the plain text
  (`PaddedIsSize`), and a block lies within any whole number of blocks that it begins in
  (`BlockWithin`).
* `BookInv`, `StoreInv` and `PhaseInv`. What is stored for a slot is what the last entry that
  was stored for it brought (`OneStored`), how far the page at hand is stored, and where the program has come in its
  line. `KeyAsAsked` needs all of them: what is looked up are the settings, the settings are what the line
  asks for, and what is found is what was stored last. `StoredAsFar` is inductive with them: where an update had
  to stop, it had to for what was stored before, and that stays so (`FarKept`).

* `TypeInv`, for `TypeOK`. What `Inv` has no use for: the nodes of an archive are names that
  `Shows` knows, `files` is not empty while one of them is at work, a `slot` is set just
  while the cipher is, and a run that is under way has yet to make its update or makes it.
  `MatchingIsList` is about the members that `ExtractFiles` takes, a recursive function.

`ExtremaProofs` has the facts about `Max` and `Min` that they share, and two about
numbers: a set that has 0 and, with each number below `n`, the next one has all of `0..n`
(`Upward`), and a recursive function on `0..n` whose values stay in a set exists (`Recursion`). They
stand in for the induction theorems of the library, whose operator parameter the provers cannot
instantiate. The
assumptions are those of the modules on their constants: an argument is its own beginning of
full length, headers and ends stand within their file, a section is as long as its
plain text but for less than a block.

Only model-checked:

* Liveness (`EveryRunEnds`, `PageIsParsed`, `ParseEnds`, `EveryCommandEnds`), which is out
  of the prover's reach.
* The violations of section 3, each of which is a run that TLC finds.

## 5. Not modelled

* SQLite's, OpenSSL's and `unzip`'s own code: third-party.
* The text of messages, the SQL text (a command that would be too long is the set
  `Oversized`), and the attributes of HTML tags.
* The value of the checksum of a compressed kernel, on which nothing depends, and the
  header that `LzssCompress` writes, which only patch would use.
* In the commands: `data_section.bin`, which `decrypt` writes and nothing reads; what
  `PatchKernelFile` and `EncryptIMG3Data`, with `EncryptData` and `LzssCompress`, would do
  behind line 442, where patch always ends.
* `WriteSectionData`, `WriteData` and `GetSection` of the container: no callers.
* Which bytes are copied for a section whose data is not all in its file.
* An `execlp` that fails (section 2, `Commands`), and a closing tag in a comment (section 2, `HtmlParser`).
* Which characters a name has: that `iPhone3,1_4.3.3_8J2_Restore.ipsw` says what it says
  is a constant.

By lines, nearly all of the repository is the SQLite amalgamation
(`sqlite3.c` and its headers, 130 000 of 135 000 lines), so the share of all lines that
the modules cover is small and cannot be otherwise; of the program's own sources the
modules leave out the usage texts, the printing and what is listed above.

## 6. Plan

Done, in this order, the most important behaviour first: `KeyStore` with `KeyBook`;
`HtmlParser`; `Lzss`; `Img3File`; `Commands`; `Arguments`, `ZipDirectory`, `Cipher` and
their composition `Program`; the proofs of `KeyStore`, `KeyStoreBook`,
`HtmlParser`, `Img3File`, `Commands`, `Program` and `Lzss`. Every invariant and every action
property that a passing run checks is a theorem.

What could follow: the refinement of `KeyBook` by any number of lookups beside the one
updater, which needs an abstract book with reads that overlap writes; and, once `patch` gets past
`IMG3_Functions.cpp:442` in the code, the commands behind that line.
