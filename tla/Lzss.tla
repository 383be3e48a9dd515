-------------------------------- MODULE Lzss --------------------------------
(***************************************************************************)
(* Compression and decompression of kernel data:                           *)
(* compression/IMG3_LzssInterface.cpp.  The compressor of a run takes one  *)
(* input, and the decompressor takes what it wrote.                        *)
(*                                                                         *)
(* The stream is a sequence of cells: the byte of flags that begins a      *)
(* group, a byte sent as it is, or the two bytes of a position and length. *)
(***************************************************************************)
EXTENDS LzssTree, Sequences, SequencesExt

CONSTANTS
    Threshold,  \* matches of this length or less are not sent as pairs
    Group,      \* units in a group: the bits of the flags
    Input,      \* the inputs that can be compressed
    HeaderSize  \* sizeof(IMG3_LzssInterface_CompressionHeader)

ASSUME LzssAssumption ==
    /\ Threshold \in 1..(F - 1)
    /\ Group \in Nat \ {0}
    /\ Input \subseteq Seq(Byte)
    /\ HeaderSize \in Nat

VARIABLES
    input,          \* src
    pc,
    text, tree,     \* encode_state: text_buf and the search trees
    match,          \* encode_state: match_position and match_length
    src,            \* bytes of the input read
    len,            \* bytes of the look-ahead that are text
    s, r,           \* the place to overwrite next; where the look-ahead begins
    advance,        \* bytes of the last unit that have yet to be passed
    code, flags,    \* code_buf: the units of this group; which of them are bytes
    dst,            \* the stream written
    cell,           \* the cell of dst that Decompress reads next
    unit, bits,     \* its place in a group, and the group's flags
    ring, w,        \* its text_buf and where it writes next (there called r)
    out             \* the bytes it has written

encoder == <<text, tree, match, src, len, s, r, advance, code, flags, dst>>
decoder == <<cell, unit, bits, ring, w, out>>
vars == <<input, pc, encoder, decoder>>

NoByte == -1    \* a cell of the ring that nothing has been written to
Flags == [flags: SUBSET (1..Group)]
Literal == [byte: Byte]
Pair == [position: Place, length: Nat]

Advance(p) == (p + 1) % N

-----------------------------------------------------------------------------
Init ==
    /\ input \in Input
    /\ pc = "start"
    /\ text = [i \in 0..(N + F - 2) |-> IF i < N - F THEN Space ELSE 0]
    /\ tree = InitState
    /\ match = [position |-> 0, length |-> 0]
    /\ src = 0 /\ len = 0
    /\ s = 0 /\ r = N - F
    /\ advance = 0
    /\ code = <<>> /\ flags = {}
    /\ dst = <<>>
    /\ cell = 1
    /\ unit = Group /\ bits = {}
    /\ ring = [i \in Place |-> IF i < N - F THEN Space ELSE NoByte]
    /\ w = N - F
    /\ out = <<>>

(* ----- LzssCompress and Compress --------------------------------------- *)

\* LzssCompress refuses an input shorter than the header.
Refuse ==
    /\ pc = "start"
    /\ Len(input) < HeaderSize
    /\ pc' = "refused"
    /\ UNCHANGED <<input, encoder, decoder>>

\* Reads the look-ahead and registers the F strings before it, then its own.
Fill ==
    /\ pc = "start"
    /\ Len(input) >= HeaderSize
    /\ LET n == Min({F, Len(input)})
           filled == [i \in DOMAIN text |-> IF i \in r..(r + n - 1) THEN input[i - r + 1] ELSE text[i]]
           before[i \in 0..F] ==
               IF i = 0 THEN tree ELSE InsertNode(before[i - 1], filled, r - i).tree
           last == InsertNode(before[F], filled, r)
       IN  /\ len' = n
           /\ src' = n
           /\ text' = filled
           /\ tree' = last.tree
           /\ match' = [position |-> last.position, length |-> last.length]
           /\ pc' = IF n = 0 THEN "refused" ELSE "send"
    /\ UNCHANGED <<input, s, r, advance, code, flags, dst, decoder>>

\* Mutant: the length is not clipped to the text that is left.
MatchLength_unclipped == match.length

MatchLength == Min({match.length, len})

\* Mutant: the group is not emptied after it has been sent.
SendUnit_kept ==
    /\ pc = "send"
    /\ LET asByte == MatchLength <= Threshold
           u == IF asByte THEN [byte |-> text[r]]
                ELSE [position |-> match.position, length |-> MatchLength - (Threshold + 1)]
           group == Append(code, u)
           marks == IF asByte THEN flags \cup {Len(group)} ELSE flags
           full == Len(group) = Group
       IN  /\ advance' = IF asByte THEN 1 ELSE MatchLength
           /\ dst' = IF full THEN dst \o <<[flags |-> marks]>> \o group ELSE dst
           /\ code' = group
           /\ flags' = IF full THEN {} ELSE marks
    /\ pc' = "advance"
    /\ UNCHANGED <<input, text, tree, match, src, len, s, r, decoder>>

\* One unit joins the group; a full group is sent.
SendUnit ==
    /\ pc = "send"
    /\ LET asByte == MatchLength <= Threshold
           u == IF asByte THEN [byte |-> text[r]]
                ELSE [position |-> match.position, length |-> MatchLength - (Threshold + 1)]
           group == Append(code, u)
           marks == IF asByte THEN flags \cup {Len(group)} ELSE flags
           full == Len(group) = Group
       IN  /\ advance' = IF asByte THEN 1 ELSE MatchLength
           /\ dst' = IF full THEN dst \o <<[flags |-> marks]>> \o group ELSE dst
           /\ code' = IF full THEN <<>> ELSE group
           /\ flags' = IF full THEN {} ELSE marks
    /\ pc' = "advance"
    /\ UNCHANGED <<input, text, tree, match, src, len, s, r, decoder>>

\* Mutant: the copy of the first bytes behind the ring is not kept.
Written_once(p, c) == [text EXCEPT ![p] = c]

\* The ring with byte c written at place p, and its copy behind the ring.
Written(p, c) == [i \in DOMAIN text |-> IF i = p \/ (p < F - 1 /\ i = p + N) THEN c ELSE text[i]]

\* Passes one byte while there is input: the oldest string is dropped, a byte is
\* read over it, and the string that now begins the look-ahead is registered.
ReadByte ==
    /\ pc = "advance"
    /\ advance > 0
    /\ src < Len(input)
    /\ LET found == InsertNode(DeleteNode(tree, s), Written(s, input[src + 1]), Advance(r)) IN
       /\ tree' = found.tree
       /\ match' = [position |-> found.position, length |-> found.length]
    /\ text' = Written(s, input[src + 1])
    /\ src' = src + 1
    /\ s' = Advance(s)
    /\ r' = Advance(r)
    /\ advance' = advance - 1
    /\ UNCHANGED <<input, pc, len, code, flags, dst, decoder>>

\* Passes one byte after the end of the input: the look-ahead shrinks.
Drain ==
    /\ pc = "advance"
    /\ advance > 0
    /\ src = Len(input)
    /\ LET dropped == DeleteNode(tree, s)
           found == InsertNode(dropped, text, Advance(r))
       IN  IF len > 1
           THEN /\ tree' = found.tree
                /\ match' = [position |-> found.position, length |-> found.length]
           ELSE tree' = dropped /\ UNCHANGED match
    /\ len' = len - 1
    /\ s' = Advance(s)
    /\ r' = Advance(r)
    /\ advance' = advance - 1
    /\ UNCHANGED <<input, pc, text, src, code, flags, dst, decoder>>

\* The unit is passed; after the last one the rest of the group is sent.
EndAdvance ==
    /\ pc = "advance"
    /\ advance = 0
    /\ IF len > 0
       THEN pc' = "send" /\ UNCHANGED dst
       ELSE /\ pc' = "decompress"
            /\ dst' = IF code = <<>> THEN dst ELSE dst \o <<[flags |-> flags]>> \o code
    /\ UNCHANGED <<input, text, tree, match, src, len, s, r, advance, code, flags, decoder>>

(* ----- Decompress ------------------------------------------------------ *)

\* At the end of the stream, wherever in a group, the loop is left.
EndStream ==
    /\ pc = "decompress"
    /\ cell > Len(dst)
    /\ pc' = "decompressed"
    /\ UNCHANGED <<input, encoder, decoder>>

ReadFlags ==
    /\ pc = "decompress"
    /\ cell <= Len(dst)
    /\ unit = Group
    /\ bits' = dst[cell].flags
    /\ unit' = 0
    /\ cell' = cell + 1
    /\ UNCHANGED <<input, pc, encoder, ring, w, out>>

\* Appends the bytes of a sequence to the output and to the ring.
Emit(bytes) ==
    LET n == Len(bytes) IN
    /\ out' = out \o bytes
    /\ ring' = [i \in Place |->
                   IF (i - w) % N < n THEN bytes[((i - w) % N) + 1] ELSE ring[i]]
    /\ w' = (w + n) % N

ReadLiteral ==
    /\ pc = "decompress"
    /\ cell <= Len(dst)
    /\ unit < Group /\ (unit + 1) \in bits
    /\ Emit(<<dst[cell].byte>>)
    /\ unit' = unit + 1
    /\ cell' = cell + 1
    /\ UNCHANGED <<input, pc, encoder, bits>>

\* The n bytes from place p on, of which the copy itself may write some.
Copied(p, n) ==
    LET copy[k \in 1..n] ==
            LET distance == (w - p) % N IN
            IF distance > 0 /\ k > distance THEN copy[k - distance] ELSE ring[(p + k - 1) % N]
    IN  copy

ReadPair ==
    /\ pc = "decompress"
    /\ cell <= Len(dst)
    /\ unit < Group /\ (unit + 1) \notin bits
    /\ Emit(Copied(dst[cell].position, dst[cell].length + Threshold + 1))
    /\ unit' = unit + 1
    /\ cell' = cell + 1
    /\ UNCHANGED <<input, pc, encoder, bits>>

-----------------------------------------------------------------------------
Compress == Refuse \/ Fill \/ SendUnit \/ ReadByte \/ Drain \/ EndAdvance
Decompress == EndStream \/ ReadFlags \/ ReadLiteral \/ ReadPair

\* Both calls have returned.
Finished == pc \in {"refused", "decompressed"} /\ UNCHANGED vars

Next == Compress \/ Decompress \/ Finished

Spec == Init /\ [][Next]_vars

-----------------------------------------------------------------------------
TypeOK ==
    /\ input \in Seq(Byte)
    /\ pc \in {"start", "refused", "send", "advance", "decompress", "decompressed"}
    /\ text \in Text
    /\ tree \in Tree
    /\ match \in [position: Place, length: 0..F]
    /\ src \in 0..Len(input)
    /\ len \in 0..F /\ advance \in 0..F
    /\ s \in Place /\ r \in Place
    /\ code \in Seq(Literal \cup Pair)
    /\ flags \subseteq 1..Group
    /\ dst \in Seq(Literal \cup Pair \cup Flags)
    /\ cell \in 1..(Len(dst) + 1)
    /\ unit \in 0..Group /\ bits \subseteq 1..Group
    /\ ring \in [Place -> Byte \cup {NoByte}]
    /\ w \in Place
    /\ out \in Seq(Byte \cup {NoByte})

(* ----- Properties ------------------------------------------------------ *)

Registered == {p \in Place : InTree(tree, p)}

\* The nodes below p, p included; no path is longer than the number of places.
Below(p) ==
    LET grow[k \in 0..N] ==
            IF k = 0 THEN {p} \ {Nil}
            ELSE LET found == grow[k - 1]
                 IN  found \cup ((UNION {{tree.left[q], tree.right[q]} : q \in found}) \ {Nil})
    IN  grow[N]

\* After every InsertNode and DeleteNode, Replace and Detach included: children
\* and parents agree, every registered string hangs under its first byte, and the
\* trees are in the order of the strings, although the text under them is a ring
\* that is being overwritten.
TreesOrdered ==
    pc # "start" =>
    /\ UNION {Below(tree.right[Root(c)]) : c \in Byte} = Registered
    /\ \A c \in Byte : \A p \in Below(tree.right[Root(c)]) : text[p] = c
    /\ \A p \in Registered :
          /\ \/ tree.up[p] \in Roots /\ tree.right[tree.up[p]] = p
             \/ tree.up[p] \in Registered /\ p \in {tree.left[tree.up[p]], tree.right[tree.up[p]]}
          /\ tree.left[p] # Nil => \A q \in Below(tree.left[p]) : Compare(text, q, p) < 0
          /\ tree.right[p] # Nil => \A q \in Below(tree.right[p]) : Compare(text, q, p) > 0

\* The places up to d before the look-ahead.
Before(d) == {(r - k) % N : k \in 1..d}

\* The match that is sent is one, at a place whose bytes the decompressor still has,
\* and no string of the input that begins in the window shares more bytes with the
\* look-ahead: the trees, which keep only the youngest of equal strings, lose no
\* candidate.  (Of the blanks that fill the ring at first they keep the oldest, so
\* a match with these can be lost.)
LongestMatch ==
    pc = "send" =>
    /\ \A p \in Before(Min({N - F, src - len})) :
          text[p] = text[r] => Common(text, r, p) <= match.length
    /\ match.length > Threshold =>
          /\ match.position \in Before(N - F)
          /\ text[match.position] = text[r]
          /\ Common(text, r, match.position) = match.length

\* What Decompress has written is always a beginning of what was compressed, and
\* in the end all of it: no byte of the ring is read before it is written, no pair
\* or flag is taken for another, and the last, unfinished group is read in full.
Lossless ==
    /\ IsPrefix(out, input)
    /\ pc = "decompressed" => out = input

\* The output fits the buffer of twice the input that LzssCompress allocates, and
\* a group that is being collected fits code_buf.
Bytes(cells) == Len(cells) + Cardinality({i \in DOMAIN cells : "position" \in DOMAIN cells[i]})
FitsBuffer ==
    /\ Bytes(dst) <= 2 * Len(input)
    /\ 1 + Bytes(code) <= 2 * Group + 1
=============================================================================
