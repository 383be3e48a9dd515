------------------------------- MODULE Cipher -------------------------------
(***************************************************************************)
(* From an encrypted DATA section to what it holds: DecryptIMG3Data of     *)
(* IMG3_Functions.cpp behind the lookup of the key, with the wrapper of    *)
(* openssl/IMG3_OpensslInterface.cpp and LzssDecompress, which reads the   *)
(* header of compressed data.                                              *)
(*                                                                         *)
(* Bytes are counted in cells, and what a cell holds is a record: cell i   *)
(* of a plain text or of its encryption, of what it decompresses to, or    *)
(* nothing that means anything.  A section knows what was encrypted:       *)
(*   size     cells of the plain text, whole blocks                        *)
(*   length   cells the section says it has                                *)
(*   marks    how many of the two marks of compressed data it begins with  *)
(*   stream   cells of compressed data behind the header, when it has both *)
(*   secret   the key and the IV                                           *)
(***************************************************************************)
EXTENDS Integers, Sequences

CONSTANTS
    Secret,      \* pairs of a key and an IV
    Block,       \* cells of a block of the cipher
    HeaderSize   \* cells of the header of compressed data

ASSUME CipherAssumption ==
    /\ {Block, HeaderSize} \subseteq Nat \ {0}
    /\ HeaderSize > Block

\* A key and an IV as they are stored: their values, and the lengths of their texts.
Stored == [key: Secret, keyBits: Nat, iv: Secret, ivBits: Nat]

IsSection(s) ==
    /\ DOMAIN s = {"size", "length", "marks", "stream", "secret"}
    /\ s.size \in Nat /\ s.size % Block = 0
    /\ s.length \in Nat /\ s.length <= s.size /\ s.size < s.length + Block
    /\ s.marks \in 0..2 /\ (s.marks > 0 => s.length > 0) /\ s.secret \in Secret
    /\ s.stream \in Nat /\ (s.marks = 2 /\ s.size >= HeaderSize => HeaderSize + s.stream <= s.size)

VARIABLE cipher

Encrypted(i) == [is |-> "encrypted", at |-> i]
Plain(i) == [is |-> "plain", at |-> i]
Payload(i) == [is |-> "payload", at |-> i]
Junk == [is |-> "junk", at |-> 0]

NoData == <<>>
NoCipher == [pc |-> "idle", data |-> NoData, stored |-> <<>>, output |-> NoData, freed |-> FALSE]

CipherInit == cipher = NoCipher

-----------------------------------------------------------------------------
\* Mutant: the data is not padded.
Padded_not(s) == s.length

\* decryptedLength
Padded(s) == IF s.length % Block # 0 THEN s.length + (Block - (s.length % Block)) ELSE s.length

\* dataToDecrypt.  What the last block lacks is taken from behind the section; but what
\* is handed over is a copy of the section, made by ParseSection, and not the file: the
\* rest of the block may be anything, and only by chance what it is in the file.
DataToDecrypt(s, rest) ==
    [i \in 1..Padded(s) |-> IF i <= s.length THEN Encrypted(i) ELSE rest[i]]

\* What the lookup found is used on the section.
Prepare(s, stored) ==
    \E rest \in {[i \in 1..Padded(s) |-> Junk], [i \in 1..Padded(s) |-> Encrypted(i)]} :
        cipher' = [NoCipher EXCEPT !.pc = "key", !.data = DataToDecrypt(s, rest), !.stored = stored]

Usable(k) == k.keyBits \in {128, 192, 256} /\ k.ivBits = 128

SetKeyAndIV ==
    /\ cipher.pc = "key"
    /\ cipher' = IF Usable(cipher.stored) THEN [cipher EXCEPT !.pc = "decrypt"]
                 ELSE [cipher EXCEPT !.pc = "failed"]

\* AES-256 in CBC mode, whatever the length of the key: of a shorter one, what is behind
\* it in memory is part of the key.  A block that is not whole stays as the output was
\* made; a wrong IV spoils the first block.
BlockOf(i) == (i + Block - 1) \div Block
DecryptedCell(s, k, data, i) ==
    LET cells == {j \in DOMAIN data : BlockOf(j) = BlockOf(i)} IN
    IF /\ BlockOf(i) * Block \in cells
       /\ \A j \in cells : data[j] = Encrypted(j)
       /\ k.key = s.secret /\ k.keyBits = 256
       /\ BlockOf(i) > 1 \/ k.iv = s.secret
    THEN Plain(i) ELSE Junk

DecryptData(s) ==
    /\ cipher.pc = "decrypt"
    /\ cipher' = [cipher EXCEPT !.pc = "check",
           !.output = [i \in DOMAIN cipher.data |-> DecryptedCell(s, cipher.stored, cipher.data, i)]]

\* One of the two marks, which are in the first block, is enough.
IsFileCompressed(s) == cipher.output # NoData /\ cipher.output[1] = Plain(1) /\ s.marks > 0

\* Decompress goes on with whatever it finds, from the first cell that is damaged on.
Decompressed(s) ==
    [i \in 1..s.stream |->
        IF s.marks = 2 /\ \A j \in 1..i : cipher.output[HeaderSize + j] = Plain(HeaderSize + j)
        THEN Payload(i) ELSE Junk]

\* A checksum that does not match makes no difference.  Data shorter than the header is
\* refused; it is freed, and the caller goes on with it.
LzssDecompress(s) ==
    /\ cipher.pc = "check"
    /\ cipher' =
          IF ~IsFileCompressed(s) THEN [cipher EXCEPT !.pc = "decrypted"]
          ELSE IF Len(cipher.output) < HeaderSize
          THEN [cipher EXCEPT !.pc = "decrypted", !.freed = TRUE]
          ELSE [cipher EXCEPT !.pc = "decrypted", !.output = Decompressed(s)]

CipherNext(s) == SetKeyAndIV \/ DecryptData(s) \/ LzssDecompress(s)

-----------------------------------------------------------------------------
Cell == [is: {"plain", "payload", "encrypted", "junk"}, at: Nat]

CipherTypeOK ==
    /\ cipher.pc \in {"idle", "key", "decrypt", "check", "decrypted", "failed"}
    /\ cipher.data \in Seq(Cell) /\ cipher.output \in Seq(Cell)
    /\ cipher.freed => cipher.pc = "decrypted"

(* ----- What the section holds, apart from how it is decrypted ---------- *)

Contents(s) ==
    IF s.marks = 2 THEN [i \in 1..s.stream |-> Payload(i)] ELSE [i \in 1..s.size |-> Plain(i)]

\* The cells of a section's contents that its last block can spoil.
InLastBlock(s, i) == (IF s.marks = 2 THEN HeaderSize + i ELSE i) > s.size - Block

\* The right key and IV, of the only lengths that the cipher works with.
RightFor(s, k) == k = [key |-> s.secret, keyBits |-> 256, iv |-> s.secret, ivBits |-> 128]

\* The contents in full length: all of them when the section is of whole blocks, else
\* all but what comes of the last block.
IsContents(s, output) ==
    /\ Len(output) = Len(Contents(s))
    /\ \A i \in DOMAIN output :
          output[i] = Contents(s)[i] \/ (s.length < s.size /\ InLastBlock(s, i))

\* Nothing of the contents is left.
IsLost(s, output) == Len(output) = s.stream /\ \A i \in DOMAIN output : output[i] = Junk

\* With the right key and IV the output is what was encrypted and, where it was
\* compressed, what was compressed.  Three kinds of sections are the exception.  What comes
\* of a last block that is not whole may be lost.  A section that begins with one of the two
\* marks is taken for compressed, and junk is what it is decompressed to.  And one that is
\* shorter than the header it seems to have is freed, unless its one block is not whole and
\* the marks are lost with it; no other section is.
DecryptsRight(s) ==
    cipher.pc # "idle" /\ RightFor(s, cipher.stored) =>
        /\ cipher.pc # "failed"
        /\ cipher.pc = "decrypted" =>
              IF s.marks > 0 /\ s.size < HeaderSize
              THEN cipher.freed \/ (s.length < s.size /\ s.size <= Block)
              ELSE /\ ~cipher.freed
                   /\ IF s.marks = 1 THEN IsLost(s, cipher.output) ELSE IsContents(s, cipher.output)
=============================================================================
