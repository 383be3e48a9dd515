---------------------------- MODULE KeyStoreBook ----------------------------
(***************************************************************************)
(* The SQLite database of KeyStore, used by one process at a time and      *)
(* never interrupted, implements the map of KeyBook.  A slot holds the IV  *)
(* of the row a SELECT would return first: the second UPDATE is the step   *)
(* that stores the pair, and a lookup that mixed two pairs would be no     *)
(* answer of KeyBook's, since its answers have one value for key and IV.   *)
(***************************************************************************)
EXTENDS KeyStore

BookOf ==
    [s \in Slot |->
        IF Present(s.device, s.version, s.section)
        THEN LET v == FirstMatch(s.device, s.version, s.section).iv
             IN  [key |-> v, iv |-> v]
        ELSE NoValue]

AnswerOf ==
    [p \in Reader |->
        IF reply[p] = NoReply THEN [slot |-> NoValue]
        ELSE [slot |-> reply[p].slot, pair |-> [key |-> reply[p].key, iv |-> reply[p].iv]]]

\* The places an entry can have on a page.
Place == UNION {DOMAIN l : l \in Listing}

Book == INSTANCE KeyBook
    WITH Client <- Reader,
         Pair <- {[key |-> v, iv |-> v] : v \in [job: 1..MaxJobs, item: Place]},
         NoPair <- NoValue,
         book <- BookOf,
         answer <- AnswerOf

\* Used by one process at a time, a page is stored and a pair is looked up as if
\* UpdateDatabase stored each entry, and RetrieveKeyAndIV read it, in one step.
BookSpec == Book!Spec
=============================================================================
