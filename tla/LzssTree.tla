------------------------------ MODULE LzssTree ------------------------------
(***************************************************************************)
(* The encode_state of compression/IMG3_LzssInterface.cpp: a ring of text  *)
(* and a forest of binary search trees, one for each first byte, that      *)
(* holds the strings of F bytes which begin in the window.  A string is    *)
(* named by the place where it begins.                                     *)
(***************************************************************************)
EXTENDS Integers, FiniteSets, FiniteSetsExt

CONSTANTS
    N,      \* size of the ring, a power of two
    F,      \* upper limit for the length of a match
    Byte,   \* the values of a byte
    Space   \* ' '

ASSUME LzssTreeAssumption ==
    /\ F \in Nat /\ F >= 2
    /\ N \in Nat /\ N >= 2 * F
    /\ Byte \subseteq Nat /\ {0, Space} \subseteq Byte

Nil == N
Place == 0..(N - 1)
Root(c) == N + 1 + c
Roots == {Root(c) : c \in Byte}

\* The ring and, behind it, a copy of its first F - 1 bytes.
Text == [0..(N + F - 2) -> Byte]

(* Cell Nil of the child and parent arrays exists, and is written.         *)
Tree == [left: [0..N -> 0..N], right: [0..N \cup Roots -> 0..N], up: [0..N -> 0..N \cup Roots]]

InitState ==
    [left |-> [p \in 0..N |-> 0],
     right |-> [p \in 0..N \cup Roots |-> IF p \in Roots THEN Nil ELSE 0],
     up |-> [p \in 0..N |-> IF p = Nil THEN 0 ELSE Nil]]

InTree(t, p) == t.up[p] # Nil

\* The number of bytes that two strings with the same first byte share.
Common(text, a, b) == Min({i \in 1..(F - 1) : text[a + i] # text[b + i]} \cup {F})

\* The difference at the first byte that differs.
Compare(text, a, b) ==
    LET i == Common(text, a, b) IN IF i = F THEN 0 ELSE text[a + i] - text[b + i]

Child(t, p, side) == IF side >= 0 THEN t.right[p] ELSE t.left[p]

SetChild(t, p, side, q) ==
    IF side >= 0 THEN [t EXCEPT !.right[p] = q] ELSE [t EXCEPT !.left[p] = q]

\* Puts q where p hangs from its parent.
Rehang(t, p, q) == SetChild(t, t.up[p], IF t.right[t.up[p]] = p THEN 1 ELSE -1, q)

-----------------------------------------------------------------------------
(* InsertNode: the descent.  node is the tree node reached, side where to  *)
(* go on from it, and length and position the longest match so far.        *)

Descend(t, text, r) ==
    LET start == [node |-> Root(text[r]), side |-> 1, length |-> 0, position |-> 0, stop |-> FALSE]
        step(w) ==
            LET p == Child(t, w.node, w.side)
                i == Common(text, r, p)
            IN  IF p = Nil THEN [w EXCEPT !.stop = TRUE]
                ELSE [node |-> p,
                      side |-> Compare(text, r, p),
                      length |-> IF i > w.length THEN i ELSE w.length,
                      position |-> IF i > w.length THEN p ELSE w.position,
                      stop |-> i = F]
        walk[k \in 0..(N + 1)] ==
            IF k = 0 THEN start
            ELSE LET w == walk[k - 1] IN IF w.stop THEN w ELSE step(w)
    IN  walk[N + 1]

\* r becomes a leaf below the last node of the descent.
Attach(t, r, w) ==
    [SetChild(t, w.node, w.side, r) EXCEPT !.up[r] = w.node, !.left[r] = Nil, !.right[r] = Nil]

\* r takes the place of p, which has the same F bytes.
Replace(t, r, p) ==
    LET linked == [t EXCEPT !.up[r] = t.up[p], !.left[r] = t.left[p], !.right[r] = t.right[p]]
        below == [linked EXCEPT !.up = [@ EXCEPT ![t.left[p]] = r, ![t.right[p]] = r]]
    IN  [Rehang(below, p, r) EXCEPT !.up[p] = Nil]

\* Mutant: a string found in full is left where it is, and r is not inserted.
InsertNode_kept(t, text, r) ==
    LET w == Descend(t, text, r) IN
    [tree |-> IF w.length = F THEN t ELSE Attach(t, r, w),
     length |-> w.length, position |-> w.position]

InsertNode(t, text, r) ==
    LET w == Descend(t, text, r) IN
    [tree |-> IF w.length = F THEN Replace(t, r, w.node) ELSE Attach(t, r, w),
     length |-> w.length, position |-> w.position]

-----------------------------------------------------------------------------
(* DeleteNode. *)

Rightmost(t, q) ==
    LET go[k \in 0..N] ==
            IF k = 0 THEN q
            ELSE LET x == go[k - 1] IN IF t.right[x] = Nil THEN x ELSE t.right[x]
    IN  go[N]

\* The tree in which q, the node before p, is detached from below p's left child.
Detach(t, p, q) ==
    IF q = t.left[p] THEN t
    ELSE LET cut == [t EXCEPT !.right[t.up[q]] = t.left[q]]
             mended == [cut EXCEPT !.up[t.left[q]] = t.up[q]]
         IN  [mended EXCEPT !.left[q] = t.left[p], !.up[t.left[p]] = q]

\* Mutant: of two children the left one takes p's place, and its right subtree is lost.
DeleteNode_shallow(t, p) ==
    IF ~InTree(t, p) THEN t
    ELSE LET q == IF t.right[p] = Nil THEN t.left[p]
                  ELSE IF t.left[p] = Nil THEN t.right[p] ELSE t.left[p]
             joined == IF Nil \in {t.left[p], t.right[p]} THEN t
                       ELSE [t EXCEPT !.right[q] = t.right[p], !.up[t.right[p]] = q]
         IN  [Rehang([joined EXCEPT !.up[q] = t.up[p]], p, q) EXCEPT !.up[p] = Nil]

DeleteNode(t, p) ==
    IF ~InTree(t, p) THEN t
    ELSE LET both == Nil \notin {t.left[p], t.right[p]}
             q == IF both THEN Rightmost(t, t.left[p])
                  ELSE IF t.right[p] = Nil THEN t.left[p] ELSE t.right[p]
             moved == Detach(t, p, q)
             joined == IF both THEN [moved EXCEPT !.right[q] = moved.right[p],
                                                  !.up[moved.right[p]] = q]
                       ELSE t
         IN  [Rehang([joined EXCEPT !.up[q] = t.up[p]], p, q) EXCEPT !.up[p] = Nil]
=============================================================================
