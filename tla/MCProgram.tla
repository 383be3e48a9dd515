------------------------------ MODULE MCProgram -----------------------------
(* Names, archives, pages and command lines for the runs of TLC. *)
EXTENDS Program, TLC

(* ----- Names ----------------------------------------------------------- *)

MCDevice == {"iPhone", "iPhone3", "iPhone_3GS", "iPhone2,1"}
MCVersion == {"4.3.3", "4.2.10"}
MCFile == {"gs.ipsw", "cdma.ipsw", "nested.ipsw", "commented.ipsw", "cut.ipsw",
           "damaged.ipsw", "empty", "raw", "page1", "page2", "page3", "page4",
           "missing"}
MCWord == MCDevice \cup MCVersion \cup MCFile
          \cup {"kernelcache", "KernelCache", "ramdisk", "iboot", "8J2", "8E200", "iPhone2", "patches", "stub"}

MCLength ==
    [a \in Argument |-> CASE a = "iPhone" -> 6 [] a = "iPhone3" -> 7 [] a = "iPhone_3GS" -> 10
                          [] a = "iPhone2,1" -> 9
                          [] a = "4.3.3" -> 5 [] a = "4.2.10" -> 6 [] a \in Option -> 2 [] OTHER -> 12]

MCCut ==
    [a \in Argument |-> [n \in 0..MCLength[a] |->
        IF n = MCLength[a] THEN a
        ELSE IF n = 6 /\ a \in MCDevice THEN "iPhone" ELSE "stub"]]

MCLower == [a \in Argument |-> IF a = "KernelCache" THEN "kernelcache" ELSE a]

\* What the names of files say: <device>,1_<version>_<build>_Restore.ipsw, of a device
\* that the program knows and of one it does not, and <build>_(<device>_(...).
Says_none == [model |-> Unsaid, prefix |-> Unsaid, version |-> Unsaid,
              pageDevice |-> Unsaid, build |-> Unsaid]
MCSays ==
    [a \in Argument |->
        CASE a = "cdma.ipsw" -> [Says_none EXCEPT !.prefix = "iPhone3", !.version = "4.2.10"]
          [] a \in {"raw", "missing", "empty"} -> Says_none
          [] a = "page1" -> [Says_none EXCEPT !.pageDevice = "iPhone_3GS", !.build = "8J2"]
          [] a = "page2" -> [Says_none EXCEPT !.pageDevice = "iPhone"]
          [] a \in MCFile \ {"page3", "page4"} ->
                [Says_none EXCEPT !.model = "iPhone_3GS", !.prefix = "iPhone2", !.version = "4.3.3"]
          [] OTHER -> Says_none]

(* ----- Archives -------------------------------------------------------- *)

Rec(n, extra, comment) ==
    [name |-> n, nameLength |-> 20, extraLength |-> extra, commentLength |-> comment]

\* Two kernels and a ramdisk; the comment of the first holds what looks like a record.
GsRecords ==
    100 :> Rec("kernel", 8, 90) @@ 190 :> Rec("decoy", 0, 0)
    @@ 264 :> Rec("ramdisk.dmg", 0, 0) @@ 330 :> Rec("kernel2", 28, 0)

MCLayout ==
    "gs.ipsw" :> [length |-> 446, records |-> GsRecords,
                  ends |-> 424 :> [total |-> 3, size |-> 324, offset |-> 100]]
    \* Longer than the window, with a comment on the archive.
    @@ "cdma.ipsw" :> [length |-> 3000, records |-> 2800 :> Rec("kernel", 0, 0),
                       ends |-> 2866 :> [total |-> 1, size |-> 66, offset |-> 2800]]
    \* The last member is an archive and not compressed.
    @@ "nested.ipsw" :> [length |-> 446, records |-> GsRecords,
                         ends |-> 50 :> [total |-> 1, size |-> 20, offset |-> 10]
                                  @@ 424 :> [total |-> 3, size |-> 324, offset |-> 100]]
    \* A comment that is longer than the window.
    @@ "commented.ipsw" :> [length |-> 3000, records |-> GsRecords,
                            ends |-> 424 :> [total |-> 3, size |-> 324, offset |-> 100]]
    @@ "cut.ipsw" :> [length |-> 434, records |-> GsRecords,
                      ends |-> 424 :> [total |-> 3, size |-> 324, offset |-> 100]]
    \* Fewer records than the end says.
    @@ "damaged.ipsw" :> [length |-> 446, records |-> GsRecords,
                          ends |-> 424 :> [total |-> 4, size |-> 324, offset |-> 100]]
    @@ [f \in {"raw", "page1", "page2", "page3", "page4"} |-> [length |-> 600, records |-> <<>>, ends |-> <<>>]]
    @@ "empty" :> [length |-> 0, records |-> <<>>, ends |-> <<>>]

\* What memory may hold behind an end that is cut off: zeros, or another end.
MCBehind == {NoEnd, [total |-> 2, size |-> 324, offset |-> 100], [total |-> 1, size |-> 100, offset |-> 100]}

MCShows ==
    [n \in {"kernel", "kernel2", "ramdisk.dmg", "decoy"} |->
        IF n = "ramdisk.dmg" THEN {"ramdisk"} ELSE {"kernelcache"}]

(* ----- Sections and keys ----------------------------------------------- *)

Sec(size, length, marks, stream, secret) ==
    [size |-> size, length |-> length, marks |-> marks, stream |-> stream, secret |-> secret]

\* Of whole blocks and not, compressed and not,
\* too short to be compressed, with one mark only, and without data.
MCSection ==
    <<"gs.ipsw", "kernel">> :> Sec(8, 8, 2, 3, "k1")
    @@ <<"gs.ipsw", "kernel2">> :> Sec(8, 7, 2, 4, "k1")
    @@ <<"gs.ipsw", "ramdisk.dmg">> :> Sec(6, 5, 0, 0, "k2")
    @@ <<"nested.ipsw", "nested.ipsw">> :> Sec(0, 0, 0, 0, "k1")
    @@ <<"commented.ipsw", "commented.ipsw">> :> Sec(0, 0, 0, 0, "k1")
    @@ <<"cut.ipsw", "kernel">> :> Sec(2, 1, 2, 0, "k1")
    @@ <<"cdma.ipsw", "kernel">> :> Sec(2, 2, 2, 0, "k2")
    @@ <<"raw", "raw">> :> Sec(6, 6, 1, 1, "k2")

Of(key, keyBits, iv, ivBits) == [key |-> key, keyBits |-> keyBits, iv |-> iv, ivBits |-> ivBits]

Ent(section, pair, fits) == [section |-> section, pair |-> pair, fits |-> fits]

\* The third lists a section twice, and one that cannot be stored.
MCPage ==
    "page1" :> <<Ent("kernelcache", Of("k1", 256, "k1", 128), TRUE),
                 Ent("ramdisk", Of("k2", 128, "k2", 128), TRUE)>>
    @@ "page2" :> <<Ent("kernelcache", Of("k2", 256, "k2", 128), TRUE),
                    Ent("ramdisk", Of("k2", 256, "k2", 128), TRUE)>>
    @@ "page3" :> <<Ent("ramdisk", Of("k2", 256, "k2", 64), TRUE),
                    Ent("ramdisk", Of("k2", 256, "k1", 128), TRUE),
                    Ent("iboot", Of("k1", 256, "k1", 128), FALSE),
                    Ent("kernelcache", Of("k1", 256, "k2", 128), TRUE)>>
    @@ "page4" :> <<Ent("kernelcache", Of("k1", 256, "k2", 128), TRUE)>>

(* ----- Command lines --------------------------------------------------- *)

Lines(c, sequences) == {[command |-> c, args |-> l] : l \in sequences}
Upto(n, S) == UNION {[1..m -> S] : m \in 0..n}

\* Every short line.
Short ==
    UNION {Lines(c, Upto(3, {"-d", "-v", "-s", "-h", "iPhone", "gs.ipsw"})) : c \in Command \cup {"unknown"}}

SomeUpdates ==
    Lines("update", {o \o <<f>> : o \in {<<"-d", "iPhone", "-b", "8J2", "-v", "4.3.3">>,
                                         <<"-b", "8J2", "-v", "4.2.10">>,
                                         <<"-d", "iPhone2,1", "-b", "8J2", "-v", "4.3.3">>},
                                  f \in {"page1", "page2", "page3", "page4"}})

SomeDecrypts ==
    Lines("decrypt", {d \o v \o s \o <<f>> :
        d \in {<<>>, <<"-d", "iPhone">>, <<"-d", "iPhone_3GS">>, <<"-d", "iPhone2,1">>},
        v \in {<<>>, <<"-v", "4.3.3">>, <<"-v", "4.2.10">>},
        s \in {<<"-s", "KernelCache">>, <<"-s", "ramdisk">>},
        f \in {"gs.ipsw", "cdma.ipsw"}})

\* Up to three options with their values, in every order, and then the files.
Options(choices, rest) ==
    {o[1] \o o[2] \o o[3] \o r : o \in [1..3 -> choices \cup {<<>>}], r \in rest}

Decrypts ==
    Lines("decrypt", Options({<<"-d", "iPhone">>, <<"-d", "iPhone_3GS">>, <<"-v", "4.3.3">>,
                                 <<"-v", "4.2.10">>, <<"-s", "KernelCache">>, <<"-s", "ramdisk">>},
                             {<<"gs.ipsw">>, <<"cdma.ipsw">>}))
Updates ==
    Lines("update", Options({<<"-d", "iPhone">>, <<"-d", "iPhone_3GS">>, <<"-b", "8J2">>,
                                <<"-v", "4.3.3">>, <<"-v", "4.2.10">>},
                            {<<"page1">>, <<"page2">>, <<"missing">>}))
    \cup Lines("update", {<<"-d", "iPhone", "-b", "8J2", "-v", "4.3.3", "-v", "4.2.10", "page1">>})
    \cup Lines("update", {<<"-d", "iPhone2,1", "-b", "8J2", "-v", "4.3.3", f>> : f \in {"page1", "page2", "page3"}})
Patches ==
    Lines("patch", Options({<<"-d", "iPhone">>, <<"-v", "4.3.3">>, <<"-b">>},
                           {<<"patches", "gs.ipsw">>}))
Others ==
    Lines("decrypt", {<<"-d", "iPhone_3GS", "-v", "4.3.3", "-s", s, f>> :
                         s \in {"kernelcache", "ramdisk"}, f \in MCFile})
    \cup UNION {Lines(c, {<<f>> : f \in MCFile}) : c \in {"list", "extract", "parse"}}

MCLine == <<Short \cup Updates \cup Decrypts \cup Patches \cup Others,
            SomeUpdates, SomeDecrypts \cup Others>>
=============================================================================
