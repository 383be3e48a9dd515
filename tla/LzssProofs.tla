----------------------------- MODULE LzssProofs -----------------------------
(***************************************************************************)
(* Theorems about compression and decompression, for every input, size of  *)
(* the ring and of the look-ahead, threshold and size of a group.          *)
(*                                                                         *)
(* Two invariants carry them.  IInv relates the ring, the stream and what  *)
(* Decompress has written to the input; it needs no order of the trees.    *)
(* SInv, on top of it, says that the trees are in order and stand for all  *)
(* strings of the window, so that the match found is the longest.          *)
(***************************************************************************)
EXTENDS Lzss, ExtremaProofs, FiniteSetTheorems, FunctionTheorems, TLAPS

-----------------------------------------------------------------------------
(* The trees: links, ranks and first bytes. *)

\* What the assumption says of the places of the ring, of Nil and of the roots.
LEMMA Places ==
    /\ N \in Nat \ {0} /\ F \in Nat /\ F >= 2 /\ N >= 2 * F
    /\ Nil \notin Place /\ Nil \in 0..N /\ Place \subseteq 0..N /\ Place \subseteq Nat
    /\ Roots \cap (0..N) = {} /\ Roots \subseteq Nat
    /\ \A c \in Byte : Root(c) \in Roots
    /\ \A c \in Byte, d \in Byte : Root(c) = Root(d) => c = d
BY LzssTreeAssumption DEF Nil, Place, Roots, Root

\* The places whose strings are in a tree.
Reg(t) == {p \in Place : InTree(t, p)}

\* l, m and u are the left and the right children and the parents of the places in R.
Forest(R, l, m, u) ==
    /\ \A p \in R :
          \/ u[p] \in R /\ (p = l[u[p]] \/ p = m[u[p]])
          \/ u[p] \in Roots /\ p = m[u[p]]
    /\ \A p \in R : l[p] # Nil => l[p] \in R /\ u[l[p]] = p
    /\ \A p \in R \cup Roots : m[p] # Nil => m[p] \in R /\ u[m[p]] = p
    /\ \A p \in R : l[p] = m[p] => l[p] = Nil

\* No path goes in a circle: each place is further down than its parent.
Ranked(R, u, f) == f \in [Place -> Nat] /\ \A p \in R : u[p] \in R => f[u[p]] < f[p]

\* In a tree all strings begin with the byte of its root.
SameByte(R, u, x) ==
    \A p \in R : IF u[p] \in Roots THEN u[p] = Root(x[p]) ELSE x[u[p]] = x[p]

\* The trees are such, and typed.
Sound(t, x) ==
    /\ t \in Tree /\ Forest(Reg(t), t.left, t.right, t.up)
    /\ SameByte(Reg(t), t.up, x) /\ \E f : Ranked(Reg(t), t.up, f)

\* The parts of a tree, and which strings are in one.
LEMMA TreeFields ==
    ASSUME NEW t \in Tree
    PROVE  /\ t.left \in [0..N -> 0..N] /\ t.right \in [0..N \cup Roots -> 0..N]
           /\ t.up \in [0..N -> 0..N \cup Roots]
           /\ t = [left |-> t.left, right |-> t.right, up |-> t.up]
           /\ Reg(t) = {p \in Place : t.up[p] # Nil}
BY DEF Tree, Reg, InTree

\* Tree c is t with q as the child of p on a side.
ChildIs(c, t, p, side, q) ==
    /\ c \in Tree /\ c.up = t.up
    /\ \A y \in 0..N : c.left[y] = IF y = p /\ ~(side >= 0) THEN q ELSE t.left[y]
    /\ \A y \in 0..N \cup Roots : c.right[y] = IF y = p /\ side >= 0 THEN q ELSE t.right[y]

\* What SetChild makes of a tree.
LEMMA ChildSet ==
    ASSUME NEW t \in Tree, NEW p \in 0..N \cup Roots, NEW side \in Int, NEW q \in 0..N,
           p \in Roots => side >= 0
    PROVE  ChildIs(SetChild(t, p, side, q), t, p, side, q)
<1> SUFFICES ASSUME NEW c, c = SetChild(t, p, side, q)
             PROVE  /\ c \in Tree /\ c.up = t.up
                    /\ \A y \in 0..N : c.left[y] = IF y = p /\ ~(side >= 0) THEN q ELSE t.left[y]
                    /\ \A y \in 0..N \cup Roots : c.right[y] = IF y = p /\ side >= 0 THEN q ELSE t.right[y]
  BY DEF ChildIs
<1>1. /\ t.left \in [0..N -> 0..N] /\ t.right \in [0..N \cup Roots -> 0..N]
      /\ t.up \in [0..N -> 0..N \cup Roots]
      /\ t = [left |-> t.left, right |-> t.right, up |-> t.up]
  BY TreeFields
<1>2. CASE side >= 0
  <2>1. c = [left |-> t.left, right |-> [t.right EXCEPT ![p] = q], up |-> t.up]
    BY <1>1, <1>2 DEF SetChild
  <2>2. [t.right EXCEPT ![p] = q] \in [0..N \cup Roots -> 0..N]
    BY <1>1
  <2>3. c \in Tree /\ c.up = t.up /\ c.left = t.left /\ c.right = [t.right EXCEPT ![p] = q]
    BY <1>1, <2>1, <2>2 DEF Tree
  <2> QED
    BY <1>1, <1>2, <2>3
<1>3. CASE ~(side >= 0)
  <2>1. c = [left |-> [t.left EXCEPT ![p] = q], right |-> t.right, up |-> t.up]
    BY <1>1, <1>3 DEF SetChild
  <2>2. [t.left EXCEPT ![p] = q] \in [0..N -> 0..N]
    BY <1>1
  <2>3. c \in Tree /\ c.up = t.up /\ c.left = [t.left EXCEPT ![p] = q] /\ c.right = t.right
    BY <1>1, <2>1, <2>2 DEF Tree
  <2> QED
    BY <1>1, <1>3, <2>3
<1> QED
  BY <1>2, <1>3

\* A place that is in no tree becomes a leaf.
LEMMA ForestWithLeaf ==
    ASSUME NEW R \in SUBSET Place, NEW l, NEW m, NEW u, NEW l2, NEW m2, NEW u2,
           Forest(R, l, m, u), NEW q \in Place \ R, NEW n \in R \cup Roots, NEW atLeft \in BOOLEAN,
           n \in Roots => ~atLeft, IF atLeft THEN l[n] = Nil ELSE m[n] = Nil,
           \A p \in Place : u2[p] = IF p = q THEN n ELSE u[p],
           \A p \in Place : l2[p] = IF p = q THEN Nil ELSE IF p = n /\ atLeft THEN q ELSE l[p],
           \A p \in Place \cup Roots :
              m2[p] = IF p = q THEN Nil ELSE IF p = n /\ ~atLeft THEN q ELSE m[p]
    PROVE  Forest(R \cup {q}, l2, m2, u2)
<1>1. /\ n # q /\ q # Nil /\ Nil \notin R /\ q \notin Roots /\ R \cap Roots = {}
      /\ n \in Place \cup Roots
  BY Places
<1>2. \A p \in R : p \in Place /\ p # q /\ p # Nil /\ u2[p] = u[p]
  BY <1>1
<1>3. ASSUME NEW p \in R \cup {q}
      PROVE  \/ u2[p] \in R \cup {q} /\ (p = l2[u2[p]] \/ p = m2[u2[p]])
             \/ u2[p] \in Roots /\ p = m2[u2[p]]
  <2>1. CASE p = q
    <3>1. u2[p] = n
      BY <2>1
    <3>2. CASE atLeft
      BY <1>1, <2>1, <3>1, <3>2
    <3>3. CASE ~atLeft
      BY <1>1, <2>1, <3>1, <3>3
    <3> QED
      BY <3>2, <3>3
  <2>2. CASE p # q
    <3>1. PICK k : k = u[p] /\ k = u2[p] /\ p \in R /\ p # Nil
      BY <1>2, <2>2
    <3>2. CASE k \in R /\ p = l[k]
      <4>1. k \in Place /\ k # q /\ ~(k = n /\ atLeft)
        BY <3>1, <3>2
      <4>2. l2[k] = p
        BY <3>2, <4>1
      <4> QED
        BY <3>1, <3>2, <4>2
    <3>3. CASE k \in R \cup Roots /\ p = m[k]
      <4>1. k \in Place \cup Roots /\ k # q /\ ~(k = n /\ ~atLeft)
        BY <1>1, <3>1, <3>3
      <4>2. m2[k] = p
        BY <3>3, <4>1
      <4> QED
        BY <3>1, <3>3, <4>2
    <3> QED
      BY <3>1, <3>2, <3>3 DEF Forest
  <2> QED
    BY <2>1, <2>2
<1>4. ASSUME NEW p \in R \cup {q}, l2[p] # Nil PROVE l2[p] \in R \cup {q} /\ u2[l2[p]] = p
  <2>1. p # q /\ p \in R /\ p \in Place
    BY <1>4
  <2>2. CASE p = n /\ atLeft
    BY <1>1, <2>1, <2>2
  <2>3. CASE ~(p = n /\ atLeft)
    <3>1. l2[p] = l[p]
      BY <2>1, <2>3
    <3>2. l[p] \in R /\ u[l[p]] = p
      BY <1>4, <2>1, <3>1 DEF Forest
    <3> QED
      BY <1>2, <3>1, <3>2
  <2> QED
    BY <2>2, <2>3
<1>5. ASSUME NEW p \in (R \cup {q}) \cup Roots, m2[p] # Nil PROVE m2[p] \in R \cup {q} /\ u2[m2[p]] = p
  <2>1. p # q /\ p \in R \cup Roots /\ p \in Place \cup Roots
    BY <1>1, <1>5
  <2>2. CASE p = n /\ ~atLeft
    BY <1>1, <2>1, <2>2
  <2>3. CASE ~(p = n /\ ~atLeft)
    <3>1. m2[p] = m[p]
      BY <2>1, <2>3
    <3>2. m[p] \in R /\ u[m[p]] = p
      BY <1>5, <2>1, <3>1 DEF Forest
    <3> QED
      BY <1>2, <3>1, <3>2
  <2> QED
    BY <2>2, <2>3
<1>6. ASSUME NEW p \in R \cup {q}, l2[p] = m2[p] PROVE l2[p] = Nil
  <2>1. CASE p = q
    BY <2>1
  <2>2. CASE p # q
    <3>1. p \in R /\ p \in Place
      BY <2>2
    <3>2. l[p] # q /\ m[p] # q
      BY <1>1, <3>1 DEF Forest
    <3> QED
      BY <1>6, <2>2, <3>1, <3>2 DEF Forest
  <2> QED
    BY <2>1, <2>2
<1> QED
  BY <1>3, <1>4, <1>5, <1>6 DEF Forest

\* A place with one child or none gives way to it.
GivesWay(R, l, m, u, p, q, l2, m2, u2) ==
    /\ \A y \in R \ {p} : u2[y] = IF y = q THEN u[p] ELSE u[y]
    /\ \A y \in R \ {p} : l2[y] = IF l[y] = p THEN q ELSE l[y]
    /\ \A y \in (R \ {p}) \cup Roots : m2[y] = IF m[y] = p THEN q ELSE m[y]

\* A place with at most one child is taken out.
LEMMA ForestSpliced ==
    ASSUME NEW R \in SUBSET Place, NEW l, NEW m, NEW u, NEW f, NEW x, NEW l2, NEW m2, NEW u2,
           Forest(R, l, m, u), Ranked(R, u, f), SameByte(R, u, x), NEW p \in R, NEW q,
           (q = l[p] /\ m[p] = Nil) \/ (q = m[p] /\ l[p] = Nil),
           GivesWay(R, l, m, u, p, q, l2, m2, u2)
    PROVE  Forest(R \ {p}, l2, m2, u2) /\ Ranked(R \ {p}, u2, f) /\ SameByte(R \ {p}, u2, x)
<1>0. /\ \A y \in R \ {p} : u2[y] = IF y = q THEN u[p] ELSE u[y]
      /\ \A y \in R \ {p} : l2[y] = IF l[y] = p THEN q ELSE l[y]
      /\ \A y \in (R \ {p}) \cup Roots : m2[y] = IF m[y] = p THEN q ELSE m[y]
  BY DEF GivesWay
<1>1. Nil \notin R /\ R \cap Roots = {} /\ p # Nil /\ p \notin Roots
  BY <1>0, Places
<1>2. \A y \in R : f[y] \in Nat /\ (u[y] \in R => f[u[y]] < f[y])
  BY <1>0 DEF Ranked
<1>3. \A y \in R : u[y] # y
  BY <1>0, <1>2
<1>4. q # Nil => q \in R \ {p} /\ u[q] = p
  BY <1>0, <1>3 DEF Forest
<1>5. ASSUME NEW y \in R \ {p}
      PROVE  \/ u2[y] \in R \ {p} /\ (y = l2[u2[y]] \/ y = m2[u2[y]])
             \/ u2[y] \in Roots /\ y = m2[u2[y]]
  <2>1. CASE y = q
    <3>1. PICK k : k = u[p] /\ k = u2[y] /\ k # p
      BY <1>0, <1>3, <2>1
    <3>2. CASE k \in R /\ p = l[k]
      BY <1>0, <2>1, <3>1, <3>2
    <3>3. CASE k \in R \cup Roots /\ p = m[k]
      BY <1>0, <2>1, <3>1, <3>3
    <3>4. (k \in R /\ p = l[k]) \/ (k \in R \cup Roots /\ p = m[k])
      <4>1. \/ u[p] \in R /\ (p = l[u[p]] \/ p = m[u[p]])
            \/ u[p] \in Roots /\ p = m[u[p]]
        BY DEF Forest
      <4> QED
        BY <3>1, <4>1
    <3> QED
      BY <3>2, <3>3, <3>4
  <2>2. CASE y # q
    <3>1. PICK k : k = u[y] /\ k = u2[y]
      BY <1>0, <2>2
    <3>2. k # p
      BY <1>0, <1>1, <2>2, <3>1 DEF Forest
    <3>3. CASE k \in R /\ y = l[k]
      BY <1>0, <3>1, <3>2, <3>3
    <3>4. CASE k \in R \cup Roots /\ y = m[k]
      BY <1>0, <3>1, <3>2, <3>4
    <3> QED
      BY <1>0, <3>1, <3>3, <3>4 DEF Forest
  <2> QED
    BY <1>0, <2>1, <2>2
<1>6. ASSUME NEW y \in R \ {p}, l2[y] # Nil PROVE l2[y] \in R \ {p} /\ u2[l2[y]] = y
  <2>1. CASE l[y] = p
    <3>1. l2[y] = q /\ u[p] = y
      BY <1>0, <1>1, <2>1 DEF Forest
    <3> QED
      BY <1>0, <1>4, <1>6, <3>1
  <2>2. CASE l[y] # p
    <3>1. l2[y] = l[y]
      BY <1>0, <2>2
    <3>2. l[y] \in R \ {p} /\ u[l[y]] = y
      BY <1>0, <1>6, <2>2, <3>1 DEF Forest
    <3>3. l[y] # q
      BY <1>0, <1>4, <3>2, <1>1
    <3> QED
      BY <1>0, <3>1, <3>2, <3>3
  <2> QED
    BY <1>0, <2>1, <2>2
<1>7. ASSUME NEW y \in (R \ {p}) \cup Roots, m2[y] # Nil PROVE m2[y] \in R \ {p} /\ u2[m2[y]] = y
  <2>1. CASE m[y] = p
    <3>1. m2[y] = q /\ u[p] = y
      BY <1>0, <1>1, <2>1 DEF Forest
    <3> QED
      BY <1>0, <1>4, <1>7, <3>1
  <2>2. CASE m[y] # p
    <3>1. m2[y] = m[y]
      BY <1>0, <2>2
    <3>2. m[y] \in R \ {p} /\ u[m[y]] = y
      BY <1>0, <1>7, <2>2, <3>1 DEF Forest
    <3>3. m[y] # q
      BY <1>0, <1>4, <3>2, <1>1
    <3> QED
      BY <1>0, <3>1, <3>2, <3>3
  <2> QED
    BY <1>0, <2>1, <2>2
<1>8. ASSUME NEW y \in R \ {p}, l2[y] = m2[y] PROVE l2[y] = Nil
  <2>1. l[y] = m[y] => l[y] = Nil
    BY <1>0 DEF Forest
  <2>2. l2[y] = (IF l[y] = p THEN q ELSE l[y]) /\ m2[y] = IF m[y] = p THEN q ELSE m[y]
    BY <1>0
  <2>3. q # Nil => l[y] # q /\ m[y] # q
    BY <1>0, <1>1, <1>4 DEF Forest
  <2> QED
    BY <1>0, <1>1, <1>8, <2>1, <2>2, <2>3
<1>9. Ranked(R \ {p}, u2, f)
  <2>1. ASSUME NEW y \in R \ {p}, u2[y] \in R \ {p} PROVE f[u2[y]] < f[y]
    <3>1. CASE y = q
      <4>1. u2[y] = u[p] /\ u[q] = p /\ u[p] \in R
        BY <1>0, <1>1, <1>4, <2>1, <3>1
      <4>2. f[u[p]] < f[p] /\ f[p] < f[q] /\ f[u[p]] \in Nat /\ f[p] \in Nat /\ f[q] \in Nat
        BY <1>0, <1>2, <3>1, <4>1
      <4> QED
        BY <1>0, <3>1, <4>1, <4>2
    <3>2. CASE y # q
      BY <1>0, <1>2, <2>1, <3>2
    <3> QED
      BY <1>0, <3>1, <3>2
  <2> QED
    BY <1>0, <2>1 DEF Ranked
<1>10. SameByte(R \ {p}, u2, x)
  <2>1. ASSUME NEW y \in R \ {p} PROVE IF u2[y] \in Roots THEN u2[y] = Root(x[y]) ELSE x[u2[y]] = x[y]
    <3>1. CASE y = q
      <4>1. u2[y] = u[p] /\ u[y] = p
        BY <1>0, <1>1, <1>4, <3>1
      <4>2. x[y] = x[p]
        BY <1>0, <1>1, <4>1 DEF SameByte
      <4> QED
        BY <1>0, <4>1, <4>2 DEF SameByte
    <3>2. CASE y # q
      BY <1>0, <3>2 DEF SameByte
    <3> QED
      BY <1>0, <3>1, <3>2
  <2> QED
    BY <1>0, <2>1 DEF SameByte
<1> QED
  BY <1>0, <1>5, <1>6, <1>7, <1>8, <1>9, <1>10 DEF Forest

\* One place takes another's.
TakesOver(R, l, m, u, p, q, l2, m2, u2) ==
    /\ \A y \in (R \ {p}) \cup {q} : u2[y] = IF y = q THEN u[p] ELSE IF y = l[p] \/ y = m[p] THEN q ELSE u[y]
    /\ \A y \in (R \ {p}) \cup {q} : l2[y] = IF y = q THEN l[p] ELSE IF l[y] = p THEN q ELSE l[y]
    /\ \A y \in ((R \ {p}) \cup {q}) \cup Roots : m2[y] = IF y = q THEN m[p] ELSE IF m[y] = p THEN q ELSE m[y]

\* A place takes over the links of another.
LEMMA ForestMoved ==
    ASSUME NEW R \in SUBSET Place, NEW l, NEW m, NEW u, NEW f, NEW x, NEW l2, NEW m2, NEW u2,
           Forest(R, l, m, u), Ranked(R, u, f), SameByte(R, u, x), NEW p \in R, NEW q \in Place \ R, x[q] = x[p],
           TakesOver(R, l, m, u, p, q, l2, m2, u2)
    PROVE  /\ Forest((R \ {p}) \cup {q}, l2, m2, u2) /\ SameByte((R \ {p}) \cup {q}, u2, x)
           /\ \E g : Ranked((R \ {p}) \cup {q}, u2, g)
<1>0. /\ \A y \in (R \ {p}) \cup {q} : u2[y] = IF y = q THEN u[p] ELSE IF y = l[p] \/ y = m[p] THEN q ELSE u[y]
      /\ \A y \in (R \ {p}) \cup {q} : l2[y] = IF y = q THEN l[p] ELSE IF l[y] = p THEN q ELSE l[y]
      /\ \A y \in ((R \ {p}) \cup {q}) \cup Roots : m2[y] = IF y = q THEN m[p] ELSE IF m[y] = p THEN q ELSE m[y]
  BY DEF TakesOver
<1>1. Nil \notin R /\ R \cap Roots = {} /\ p # Nil /\ p \notin Roots /\ q # Nil /\ q \notin Roots /\ q # p
  BY Places
<1>2. \A y \in R : f[y] \in Nat /\ (u[y] \in R => f[u[y]] < f[y])
  BY DEF Ranked
<1>3. \A y \in R : u[y] # y /\ u[y] \in R \cup Roots
  BY <1>2 DEF Forest
<1>4. \A y \in R : (y = l[p] \/ y = m[p]) <=> u[y] = p
  BY <1>1 DEF Forest
<1>11. \A y \in R : (u[y] \in R /\ y = l[u[y]]) \/ (u[y] \in R \cup Roots /\ y = m[u[y]])
  BY DEF Forest
<1> DEFINE S == (R \ {p}) \cup {q}
<1>5. ASSUME NEW y \in S
      PROVE  \/ u2[y] \in S /\ (y = l2[u2[y]] \/ y = m2[u2[y]])
             \/ u2[y] \in Roots /\ y = m2[u2[y]]
  <2>1. CASE y = q
    <3>1. PICK k : k = u[p] /\ k = u2[y] /\ k # p /\ k # q
      BY <1>0, <1>1, <1>3, <2>1
    <3>2. CASE k \in R /\ p = l[k]
      BY <1>0, <2>1, <3>1, <3>2
    <3>3. CASE k \in R \cup Roots /\ p = m[k]
      BY <1>0, <2>1, <3>1, <3>3
    <3>4. (k \in R /\ p = l[k]) \/ (k \in R \cup Roots /\ p = m[k])
      BY <1>0, <1>11, <3>1
    <3> QED
      BY <1>0, <3>2, <3>3, <3>4
  <2>2. CASE y # q /\ u[y] = p
    <3>1. u2[y] = q /\ (y = l[p] \/ y = m[p]) /\ l2[q] = l[p] /\ m2[q] = m[p]
      BY <1>0, <1>4, <2>2
    <3> QED
      BY <1>0, <3>1
  <2>3. CASE y # q /\ u[y] # p
    <3>1. PICK k : k = u[y] /\ k = u2[y] /\ k # p /\ k # q
      BY <1>0, <1>1, <1>3, <1>4, <2>3
    <3>3. CASE k \in R /\ y = l[k]
      BY <1>0, <2>3, <3>1, <3>3
    <3>4. CASE k \in R \cup Roots /\ y = m[k]
      BY <1>0, <2>3, <3>1, <3>4
    <3> QED
      BY <1>0, <2>3, <3>1, <3>3, <3>4 DEF Forest
  <2> QED
    BY <1>0, <2>1, <2>2, <2>3
<1>6. ASSUME NEW y \in S, l2[y] # Nil PROVE l2[y] \in S /\ u2[l2[y]] = y
  <2>1. CASE y = q
    <3>1. l2[y] = l[p] /\ l[p] \in R /\ u[l[p]] = p
      BY <1>0, <1>6, <2>1 DEF Forest
    <3>2. l[p] # p /\ l[p] # q
      BY <1>0, <1>3, <3>1
    <3> QED
      BY <1>0, <2>1, <3>1, <3>2
  <2>2. CASE y # q /\ l[y] = p
    <3>1. l2[y] = q /\ u[p] = y
      BY <1>0, <1>1, <2>2 DEF Forest
    <3> QED
      BY <1>0, <3>1
  <2>3. CASE y # q /\ l[y] # p
    <3>1. l2[y] = l[y] /\ y \in R /\ y # p
      BY <1>0, <2>3
    <3>2. l[y] \in R \ {p} /\ u[l[y]] = y
      BY <1>0, <1>6, <2>3, <3>1 DEF Forest
    <3>3. l[y] # q /\ u[l[y]] # p
      BY <1>0, <3>1, <3>2
    <3> QED
      BY <1>0, <1>4, <3>1, <3>2, <3>3
  <2> QED
    BY <1>0, <2>1, <2>2, <2>3
<1>7. ASSUME NEW y \in S \cup Roots, m2[y] # Nil PROVE m2[y] \in S /\ u2[m2[y]] = y
  <2>1. CASE y = q
    <3>1. m2[y] = m[p] /\ m[p] \in R /\ u[m[p]] = p
      BY <1>0, <1>7, <2>1 DEF Forest
    <3>2. m[p] # p /\ m[p] # q
      BY <1>0, <1>3, <3>1
    <3> QED
      BY <1>0, <2>1, <3>1, <3>2
  <2>2. CASE y # q /\ m[y] = p
    <3>1. m2[y] = q /\ u[p] = y
      BY <1>0, <1>1, <2>2 DEF Forest
    <3> QED
      BY <1>0, <3>1
  <2>3. CASE y # q /\ m[y] # p
    <3>1. m2[y] = m[y] /\ y \in R \cup Roots /\ y # p
      BY <1>0, <1>1, <2>3
    <3>2. m[y] \in R \ {p} /\ u[m[y]] = y
      BY <1>0, <1>7, <2>3, <3>1 DEF Forest
    <3>3. m[y] # q /\ u[m[y]] # p
      BY <1>0, <3>1, <3>2
    <3> QED
      BY <1>0, <1>4, <3>1, <3>2, <3>3
  <2> QED
    BY <1>0, <2>1, <2>2, <2>3
<1>8. ASSUME NEW y \in S, l2[y] = m2[y] PROVE l2[y] = Nil
  <2>1. CASE y = q
    BY <1>0, <1>8, <2>1 DEF Forest
  <2>2. CASE y # q
    <3>1. y \in R /\ (l[y] = m[y] => l[y] = Nil)
      BY <1>0, <2>2 DEF Forest
    <3>2. l2[y] = (IF l[y] = p THEN q ELSE l[y]) /\ m2[y] = IF m[y] = p THEN q ELSE m[y]
      BY <1>0, <2>2
    <3>3. l[y] # q /\ m[y] # q
      BY <1>0, <1>1, <3>1 DEF Forest
    <3> QED
      BY <1>0, <1>1, <1>8, <3>1, <3>2, <3>3
  <2> QED
    BY <1>0, <2>1, <2>2
<1>9. \E g : Ranked(S, u2, g)
  <2>1. PICK g : g = [f EXCEPT ![q] = f[p]]
    OBVIOUS
  <2>2. f \in [Place -> Nat] /\ f[p] \in Nat
    BY <1>0, <1>2 DEF Ranked
  <2>3. g \in [Place -> Nat] /\ \A y \in Place : g[y] = IF y = q THEN f[p] ELSE f[y]
    BY <1>0, <2>1, <2>2
  <2>4. ASSUME NEW y \in S, u2[y] \in S PROVE g[u2[y]] < g[y]
    <3>1. CASE y = q
      BY <1>0, <1>1, <1>2, <1>3, <2>3, <2>4, <3>1
    <3>2. CASE y # q /\ u[y] = p
      <4>1. u2[y] = q /\ f[p] < f[y]
        BY <1>0, <1>2, <1>4, <3>2
      <4> QED
        BY <1>0, <2>3, <3>2, <4>1
    <3>3. CASE y # q /\ u[y] # p
      <4>1. y \in R /\ u2[y] = u[y] /\ u[y] # q /\ u[y] \in R
        BY <1>0, <1>1, <1>3, <1>4, <2>4, <3>3
      <4> QED
        BY <1>0, <1>2, <2>3, <3>3, <4>1
    <3> QED
      BY <1>0, <3>1, <3>2, <3>3
  <2>5. Ranked(S, u2, g)
    BY <1>0, <2>3, <2>4 DEF Ranked
  <2> QED
    BY <1>0, <2>5
<1>10. SameByte(S, u2, x)
  <2>1. ASSUME NEW y \in S PROVE IF u2[y] \in Roots THEN u2[y] = Root(x[y]) ELSE x[u2[y]] = x[y]
    <3>1. CASE y = q
      BY <1>0, <3>1 DEF SameByte
    <3>2. CASE y # q /\ u[y] = p
      <4>1. u2[y] = q /\ x[p] = x[y]
        BY <1>0, <1>1, <1>4, <3>2 DEF SameByte
      <4> QED
        BY <1>0, <1>1, <4>1
    <3>3. CASE y # q /\ u[y] # p
      BY <1>0, <1>4, <3>3 DEF SameByte
    <3> QED
      BY <1>0, <3>1, <3>2, <3>3
  <2> QED
    BY <1>0, <2>1 DEF SameByte
<1> HIDE DEF S
<1> QED
  BY <1>0, <1>5, <1>6, <1>7, <1>8, <1>9, <1>10 DEF Forest, S

\* Tree a is t with q as a leaf below n.
LeafAt(t, q, n, atLeft, a) ==
    /\ \A p \in 0..N : a.up[p] = IF p = q THEN n ELSE t.up[p]
    /\ \A p \in 0..N : a.left[p] = IF p = q THEN Nil ELSE IF p = n /\ atLeft THEN q ELSE t.left[p]
    /\ \A p \in 0..N \cup Roots :
          a.right[p] = IF p = q THEN Nil ELSE IF p = n /\ ~atLeft THEN q ELSE t.right[p]

\* A new leaf.
LEMMA Attached ==
    ASSUME NEW t, NEW x, Sound(t, x), NEW q \in Place, q \notin Reg(t),
           NEW n \in Reg(t) \cup Roots, NEW side \in Int, NEW v, v.node = n, v.side = side,
           Child(t, n, side) = Nil,
           IF n \in Roots THEN n = Root(x[q]) /\ side >= 0 ELSE x[n] = x[q]
    PROVE  LET a == Attach(t, q, v) IN
           Sound(a, x) /\ Reg(a) = Reg(t) \cup {q} /\ LeafAt(t, q, n, ~(side >= 0), a)
<1> DEFINE a == Attach(t, q, v)
<1>1. /\ t.left \in [0..N -> 0..N] /\ t.right \in [0..N \cup Roots -> 0..N]
      /\ t.up \in [0..N -> 0..N \cup Roots]
      /\ Reg(t) = {p \in Place : t.up[p] # Nil} /\ t \in Tree
  BY TreeFields DEF Sound
<1>2. /\ n # q /\ n # Nil /\ q # Nil /\ q \in 0..N /\ n \in 0..N \cup Roots
      /\ n \in Roots => side >= 0
  BY <1>1, Places
<1>13. PICK c : c = SetChild(t, n, side, q)
  OBVIOUS
<1>3. /\ c \in Tree /\ c.up = t.up
      /\ \A y \in 0..N : c.left[y] = IF y = n /\ ~(side >= 0) THEN q ELSE t.left[y]
      /\ \A y \in 0..N \cup Roots : c.right[y] = IF y = n /\ side >= 0 THEN q ELSE t.right[y]
  <2>1. t \in Tree /\ n \in 0..N \cup Roots /\ q \in 0..N /\ (n \in Roots => side >= 0)
    BY <1>1, <1>2
  <2> HIDE DEF a
  <2>2. ChildIs(SetChild(t, n, side, q), t, n, side, q)
    BY <2>1, ChildSet
  <2>3. ChildIs(c, t, n, side, q)
    BY <1>13, <2>2
  <2> QED
    BY <2>3 DEF ChildIs
<1>4. /\ c.left \in [0..N -> 0..N] /\ c.right \in [0..N \cup Roots -> 0..N]
      /\ c.up \in [0..N -> 0..N \cup Roots]
      /\ c = [left |-> c.left, right |-> c.right, up |-> c.up]
  BY <1>3, TreeFields
<1>5. a = [left |-> [c.left EXCEPT ![q] = Nil], right |-> [c.right EXCEPT ![q] = Nil],
            up |-> [c.up EXCEPT ![q] = n]]
  <2>1. a = [c EXCEPT !.up[q] = n, !.left[q] = Nil, !.right[q] = Nil]
    BY <1>13 DEF Attach
  <2> HIDE DEF a
  <2> QED
    BY <1>4, <2>1
<1> HIDE DEF a
<1>6. a \in Tree
  <2>1. [c.up EXCEPT ![q] = n] \in [0..N -> 0..N \cup Roots]
    BY <1>4, <1>2
  <2>2. [c.left EXCEPT ![q] = Nil] \in [0..N -> 0..N]
    BY <1>4, <1>2, Places
  <2>3. [c.right EXCEPT ![q] = Nil] \in [0..N \cup Roots -> 0..N]
    BY <1>4, <1>2, Places
  <2> QED
    BY <1>5, <2>1, <2>2, <2>3 DEF Tree
<1>7. PICK R, atLeft : R = Reg(t) /\ atLeft \in BOOLEAN /\ (atLeft <=> ~(side >= 0))
  OBVIOUS
<1>8. /\ \A p \in 0..N : a.up[p] = IF p = q THEN n ELSE t.up[p]
      /\ \A p \in 0..N : a.left[p] = IF p = q THEN Nil ELSE IF p = n /\ atLeft THEN q ELSE t.left[p]
      /\ \A p \in 0..N \cup Roots :
            a.right[p] = IF p = q THEN Nil ELSE IF p = n /\ ~atLeft THEN q ELSE t.right[p]
  <2>1. \A p \in 0..N : a.up[p] = IF p = q THEN n ELSE t.up[p]
    BY <1>1, <1>3, <1>5
  <2>2. \A p \in 0..N : a.left[p] = IF p = q THEN Nil ELSE c.left[p]
    BY <1>4, <1>5
  <2>3. \A p \in 0..N \cup Roots : a.right[p] = IF p = q THEN Nil ELSE c.right[p]
    BY <1>4, <1>5
  <2> QED
    BY <1>3, <1>7, <2>1, <2>2, <2>3
<1>9. Reg(a) = R \cup {q}
  <2>1. Reg(a) = {p \in Place : a.up[p] # Nil}
    BY <1>6, TreeFields
  <2>2. \A p \in Place : a.up[p] = IF p = q THEN n ELSE t.up[p]
    BY <1>8, Places
  <2> QED
    BY <1>1, <1>2, <1>7, <2>1, <2>2
<1>10. Forest(R \cup {q}, a.left, a.right, a.up)
  <2>1. PICK l, m, u, l2, m2, u2 : l = t.left /\ m = t.right /\ u = t.up
                               /\ l2 = a.left /\ m2 = a.right /\ u2 = a.up
    OBVIOUS
  <2>2. Forest(R, l, m, u) /\ R \in SUBSET Place /\ q \in Place \ R /\ n \in R \cup Roots
    BY <1>1, <1>7, <2>1 DEF Sound
  <2>3. IF atLeft THEN l[n] = Nil ELSE m[n] = Nil
    BY <1>7, <2>1 DEF Child
  <2>4. /\ \A p \in Place : u2[p] = IF p = q THEN n ELSE u[p]
        /\ \A p \in Place : l2[p] = IF p = q THEN Nil ELSE IF p = n /\ atLeft THEN q ELSE l[p]
        /\ \A p \in Place \cup Roots : m2[p] = IF p = q THEN Nil ELSE IF p = n /\ ~atLeft THEN q ELSE m[p]
    BY <1>8, <2>1, Places
  <2>5. n \in Roots => ~atLeft
    BY <1>2, <1>7
  <2>6. Forest(R \cup {q}, l2, m2, u2)
    BY <1>7, <2>2, <2>3, <2>4, <2>5, ForestWithLeaf
  <2> QED
    BY <2>1, <2>6
<1>11. \E f : Ranked(R \cup {q}, a.up, f)
  <2>1. PICK f : Ranked(R, t.up, f)
    BY <1>7 DEF Sound
  <2>2. PICK g : g = [f EXCEPT ![q] = IF n \in Roots THEN 0 ELSE f[n] + 1]
    OBVIOUS
  <2>3. f \in [Place -> Nat] /\ (n \in R => f[n] + 1 \in Nat) /\ n \in R \cup Roots /\ R \cap Roots = {}
        /\ R \subseteq Place /\ q \in Place \ R
    <3>1. f \in [Place -> Nat]
      BY <2>1 DEF Ranked
    <3>2. n \in R \cup Roots /\ R \subseteq Place /\ q \in Place \ R
      BY <1>1, <1>7
    <3>3. n \in R => f[n] \in Nat
      BY <3>1, <3>2
    <3> QED
      BY <3>1, <3>2, <3>3, Places
  <2>4. g \in [Place -> Nat]
    BY <2>2, <2>3
  <2>5. \A p \in Place : g[p] = IF p = q THEN IF n \in Roots THEN 0 ELSE f[n] + 1 ELSE f[p]
    BY <2>2, <2>3
  <2>6. ASSUME NEW p \in R \cup {q}, a.up[p] \in R \cup {q} PROVE g[a.up[p]] < g[p]
    <3>1. CASE p = q
      <4>1. a.up[p] = n /\ n \in R /\ n # q /\ n \notin Roots
        BY <1>2, <1>8, <2>3, <2>6, <3>1, Places
      <4>2. g[n] = f[n] /\ g[q] = f[n] + 1 /\ f[n] \in Nat
        BY <2>3, <2>5, <4>1
      <4> QED
        BY <3>1, <4>1, <4>2
    <3>2. CASE p # q
      <4>1. p \in R /\ a.up[p] = t.up[p]
        BY <1>8, <2>3, <3>2, Places
      <4>2. t.up[p] \in R
        BY <1>7, <2>3, <2>6, <4>1, Places DEF Sound, Forest
      <4>3. f[t.up[p]] < f[p]
        BY <2>1, <4>1, <4>2 DEF Ranked
      <4> QED
        BY <2>3, <2>5, <3>2, <4>1, <4>2, <4>3
    <3> QED
      BY <3>1, <3>2
  <2>7. Ranked(R \cup {q}, a.up, g)
    BY <2>4, <2>6 DEF Ranked
  <2> QED
    BY <2>7
<1>12. SameByte(R \cup {q}, a.up, x)
  <2>1. ASSUME NEW p \in R \cup {q}
        PROVE  IF a.up[p] \in Roots THEN a.up[p] = Root(x[p]) ELSE x[a.up[p]] = x[p]
    <3>1. CASE p = q
      BY <1>2, <1>8, <3>1
    <3>2. CASE p # q
      <4>1. p \in R /\ p \in 0..N
        BY <1>1, <1>7, <3>2, Places
      <4>2. a.up[p] = t.up[p]
        BY <1>8, <3>2, <4>1
      <4> QED
        BY <1>7, <4>1, <4>2 DEF Sound, SameByte
    <3> QED
      BY <3>1, <3>2
  <2> QED
    BY <2>1 DEF SameByte
<1>14. LeafAt(t, q, n, ~(side >= 0), a)
  BY <1>7, <1>8 DEF LeafAt
<1> QED
  BY <1>6, <1>7, <1>9, <1>10, <1>11, <1>12, <1>14 DEF Sound, a

-----------------------------------------------------------------------------
(* SetChild, Replace and InsertNode. *)

\* Tree c is t but that q hangs below k where p did.
RehungIs(c, t, p, q, k) ==
    /\ c \in Tree /\ c.up = t.up
    /\ \A y \in 0..N : c.left[y] = IF y = k /\ t.right[k] # p THEN q ELSE t.left[y]
    /\ \A y \in 0..N \cup Roots : c.right[y] = IF y = k /\ t.right[k] = p THEN q ELSE t.right[y]

\* What Rehang makes of a tree.
LEMMA Rehung ==
    ASSUME NEW t \in Tree, NEW p \in Place, NEW q \in 0..N
    PROVE  \A k, c :
               k = t.up[p] /\ (k \in Roots => t.right[k] = p) /\ c = Rehang(t, p, q) => RehungIs(c, t, p, q, k)
<1>1. SUFFICES ASSUME NEW k, NEW c, k = t.up[p], k \in Roots => t.right[k] = p, c = Rehang(t, p, q)
               PROVE  RehungIs(c, t, p, q, k)
  OBVIOUS
<1>2. k \in 0..N \cup Roots
  BY <1>1, TreeFields, Places
<1>3. PICK side : side \in Int /\ (side >= 0 <=> t.right[k] = p) /\ c = SetChild(t, k, side, q)
  BY <1>1 DEF Rehang
<1>4. side \in Int /\ c = SetChild(t, k, side, q) /\ (side >= 0 <=> t.right[k] = p)
  BY <1>3
<1>5. k \in Roots => side >= 0
  BY <1>1, <1>3
<1>6. ChildIs(c, t, k, side, q)
  BY <1>2, <1>4, <1>5, ChildSet
<1> QED
  BY <1>4, <1>6 DEF ChildIs, RehungIs

\* What is known of a registered place.
LEMMA Around ==
    ASSUME NEW t, NEW x, Sound(t, x), NEW p \in Reg(t)
    PROVE  /\ t \in Tree /\ p \in Place /\ p # Nil /\ p \notin Roots /\ Reg(t) \in SUBSET Place
           /\ t.up[p] \in Reg(t) \cup Roots /\ t.up[p] # p /\ t.left[p] # p /\ t.right[p] # p
           /\ t.left[p] \in Reg(t) \cup {Nil} /\ t.right[p] \in Reg(t) \cup {Nil}
           /\ t.up[p] \in Roots => t.right[t.up[p]] = p
           /\ t.right[t.up[p]] # p => t.up[p] \in Reg(t) /\ t.left[t.up[p]] = p
           /\ \A y \in Reg(t) : t.left[y] = p <=> y = t.up[p] /\ t.right[t.up[p]] # p
           /\ \A y \in Reg(t) \cup Roots : t.right[y] = p <=> y = t.up[p] /\ t.right[t.up[p]] = p
<1>1. PICK R, l, m, u, f : R = Reg(t) /\ l = t.left /\ m = t.right /\ u = t.up /\ Ranked(R, u, f)
  BY DEF Sound
<1>2. Forest(R, l, m, u) /\ t \in Tree
  BY <1>1 DEF Sound
<1>3. R \in SUBSET Place /\ p \in R
  BY <1>1, <1>2, TreeFields
<1>4. \A y \in R : y # Nil /\ y \notin Roots /\ y \in Place
  BY <1>3, Places
<1>5. \A y \in R : u[y] # y
  BY <1>1, <1>3 DEF Ranked
<1>6. u[p] \in R \cup Roots /\ (u[p] \in Roots => m[u[p]] = p)
  BY <1>2, <1>3, <1>4 DEF Forest
<1>7. l[p] \in R \cup {Nil} /\ m[p] \in R \cup {Nil} /\ l[p] # p /\ m[p] # p
  BY <1>2, <1>3, <1>4, <1>5 DEF Forest
<1>8. m[u[p]] # p => u[p] \in R /\ l[u[p]] = p
  BY <1>2, <1>3 DEF Forest
<1>9. \A y \in R : l[y] = p <=> y = u[p] /\ m[u[p]] # p
  BY <1>2, <1>3, <1>4, <1>8 DEF Forest
<1>10. \A y \in R \cup Roots : m[y] = p <=> y = u[p] /\ m[u[p]] = p
  BY <1>2, <1>3, <1>4 DEF Forest
<1> QED
  BY <1>1, <1>2, <1>3, <1>4, <1>5, <1>6, <1>7, <1>8, <1>9, <1>10

\* A place is taken by another with the same string.
LEMMA Replaced ==
    ASSUME NEW t, NEW x, Sound(t, x), NEW p \in Reg(t), NEW q \in Place, q \notin Reg(t), x[q] = x[p]
    PROVE  LET a == Replace(t, q, p) IN
           /\ Sound(a, x) /\ Reg(a) = (Reg(t) \ {p}) \cup {q}
           /\ TakesOver(Reg(t), t.left, t.right, t.up, p, q, a.left, a.right, a.up)
<1>1. /\ t.left \in [0..N -> 0..N] /\ t.right \in [0..N \cup Roots -> 0..N]
      /\ t.up \in [0..N -> 0..N \cup Roots]
      /\ t = [left |-> t.left, right |-> t.right, up |-> t.up]
      /\ Reg(t) = {y \in Place : t.up[y] # Nil} /\ t \in Tree
  BY TreeFields DEF Sound
<1>2. PICK k, lp, mp, R : k = t.up[p] /\ lp = t.left[p] /\ mp = t.right[p] /\ R = Reg(t)
  OBVIOUS
<1>3. /\ p \in Place /\ p # Nil /\ p \notin Roots /\ R \in SUBSET Place /\ p \in R
      /\ k \in R \cup Roots /\ k # p /\ lp # p /\ mp # p
      /\ lp \in R \cup {Nil} /\ mp \in R \cup {Nil}
      /\ k \in Roots => t.right[k] = p
      /\ \A y \in R : t.left[y] = p <=> y = k /\ t.right[k] # p
      /\ \A y \in R \cup Roots : t.right[y] = p <=> y = k /\ t.right[k] = p
  BY <1>2, Around
<1>4. /\ p \in 0..N /\ q \in 0..N /\ lp \in 0..N /\ mp \in 0..N /\ k \in 0..N \cup Roots
      /\ q # p /\ q # k /\ q # Nil /\ q \notin Roots /\ q \in Place \ R /\ q # lp /\ q # mp
  BY <1>2, <1>3, Places
<1>5. PICK b : b = [left |-> [t.left EXCEPT ![q] = lp], right |-> [t.right EXCEPT ![q] = mp],
                    up |-> [[t.up EXCEPT ![q] = k] EXCEPT ![lp] = q, ![mp] = q]]
  OBVIOUS
<1>6. Replace(t, q, p) = [Rehang(b, p, q) EXCEPT !.up[p] = Nil]
  <2>1. PICK a : a = [t EXCEPT !.up[q] = t.up[p], !.left[q] = t.left[p], !.right[q] = t.right[p]]
    OBVIOUS
  <2>2. a = [left |-> [t.left EXCEPT ![q] = lp], right |-> [t.right EXCEPT ![q] = mp],
             up |-> [t.up EXCEPT ![q] = k]]
    BY <1>1, <1>2, <2>1
  <2>3. [a EXCEPT !.up = [@ EXCEPT ![t.left[p]] = q, ![t.right[p]] = q]] = b
    BY <1>2, <1>5, <2>2
  <2> QED
    BY <2>1, <2>3 DEF Replace
<1>7. b \in Tree
  <2>1. [t.left EXCEPT ![q] = lp] \in [0..N -> 0..N]
    BY <1>1, <1>4
  <2>2. [t.right EXCEPT ![q] = mp] \in [0..N \cup Roots -> 0..N]
    BY <1>1, <1>4
  <2>3. [[t.up EXCEPT ![q] = k] EXCEPT ![lp] = q, ![mp] = q] \in [0..N -> 0..N \cup Roots]
    <3>1. PICK g : g = [t.up EXCEPT ![q] = k]
      OBVIOUS
    <3>2. g \in [0..N -> 0..N \cup Roots]
      BY <1>1, <1>4, <3>1
    <3> QED
      BY <1>4, <3>1, <3>2
  <2> QED
    BY <1>5, <2>1, <2>2, <2>3 DEF Tree
<1>8. /\ \A y \in 0..N : b.left[y] = IF y = q THEN lp ELSE t.left[y]
      /\ \A y \in 0..N \cup Roots : b.right[y] = IF y = q THEN mp ELSE t.right[y]
      /\ \A y \in 0..N : b.up[y] = IF y = lp \/ y = mp THEN q ELSE IF y = q THEN k ELSE t.up[y]
  <2>1. \A y \in 0..N : b.left[y] = IF y = q THEN lp ELSE t.left[y]
    BY <1>1, <1>5
  <2>2. \A y \in 0..N \cup Roots : b.right[y] = IF y = q THEN mp ELSE t.right[y]
    BY <1>1, <1>5
  <2>3. \A y \in 0..N : b.up[y] = IF y = lp \/ y = mp THEN q ELSE IF y = q THEN k ELSE t.up[y]
    BY <1>1, <1>5
  <2> QED
    BY <2>1, <2>2, <2>3
<1>9. b.up[p] = k /\ b.right[k] = t.right[k]
  BY <1>2, <1>3, <1>4, <1>8
<1>10. PICK c : c = Rehang(b, p, q)
  OBVIOUS
<1>11. /\ c \in Tree /\ c.up = b.up
       /\ \A y \in 0..N : c.left[y] = IF y = k /\ t.right[k] # p THEN q ELSE b.left[y]
       /\ \A y \in 0..N \cup Roots : c.right[y] = IF y = k /\ t.right[k] = p THEN q ELSE b.right[y]
  BY <1>3, <1>4, <1>7, <1>9, <1>10, Rehung DEF RehungIs
<1>12. PICK a : a = [c EXCEPT !.up[p] = Nil]
  OBVIOUS
<1>13. /\ a \in Tree /\ a.left = c.left /\ a.right = c.right
       /\ \A y \in 0..N : a.up[y] = IF y = p THEN Nil ELSE c.up[y]
  <2>1. c = [left |-> c.left, right |-> c.right, up |-> c.up] /\ c.up \in [0..N -> 0..N \cup Roots]
        /\ c.left \in [0..N -> 0..N] /\ c.right \in [0..N \cup Roots -> 0..N]
    BY <1>11, TreeFields
  <2>2. a = [left |-> c.left, right |-> c.right, up |-> [c.up EXCEPT ![p] = Nil]]
    BY <1>12, <2>1
  <2>3. [c.up EXCEPT ![p] = Nil] \in [0..N -> 0..N \cup Roots]
    BY <2>1, Places
  <2> QED
    BY <2>1, <2>2, <2>3 DEF Tree
<1>14. Reg(a) = (R \ {p}) \cup {q}
  <2>1. Reg(a) = {y \in Place : a.up[y] # Nil}
    BY <1>13, TreeFields
  <2>2. \A y \in Place : a.up[y] = IF y = p THEN Nil ELSE IF y = lp \/ y = mp THEN q ELSE IF y = q THEN k ELSE t.up[y]
    BY <1>8, <1>11, <1>13, Places
  <2>3. \A y \in Place : (y = lp \/ y = mp) => y \in R
    BY <1>3, Places
  <2>4. k # Nil
    BY <1>3, Places
  <2>5. R = {y \in Place : t.up[y] # Nil}
    BY <1>1, <1>2
  <2> QED
    BY <1>3, <1>4, <2>1, <2>2, <2>3, <2>4, <2>5
<1>15. PICK l, m, u, l2, m2, u2 : l = t.left /\ m = t.right /\ u = t.up /\ l2 = a.left /\ m2 = a.right /\ u2 = a.up
  OBVIOUS
<1>16. PICK f : Ranked(R, u, f)
  BY <1>2, <1>15 DEF Sound
<1>17. Forest(R, l, m, u) /\ SameByte(R, u, x)
  BY <1>2, <1>15 DEF Sound
<1>18. \A y \in (R \ {p}) \cup {q} : y \in 0..N /\ y # p /\ (y # q => y \in R)
  BY <1>3, <1>4, Places
<1>19. \A y \in (R \ {p}) \cup {q} :
           u2[y] = IF y = q THEN u[p] ELSE IF y = l[p] \/ y = m[p] THEN q ELSE u[y]
  BY <1>2, <1>4, <1>8, <1>11, <1>13, <1>15, <1>18
<1>20. \A y \in (R \ {p}) \cup {q} : l2[y] = IF y = q THEN l[p] ELSE IF l[y] = p THEN q ELSE l[y]
  BY <1>2, <1>3, <1>4, <1>8, <1>11, <1>13, <1>15, <1>18
<1>21. \A y \in ((R \ {p}) \cup {q}) \cup Roots :
           m2[y] = IF y = q THEN m[p] ELSE IF m[y] = p THEN q ELSE m[y]
  BY <1>2, <1>3, <1>4, <1>8, <1>11, <1>13, <1>15, <1>18
<1>22. /\ Forest((R \ {p}) \cup {q}, l2, m2, u2) /\ SameByte((R \ {p}) \cup {q}, u2, x)
       /\ \E g : Ranked((R \ {p}) \cup {q}, u2, g)
       /\ TakesOver(R, l, m, u, p, q, l2, m2, u2)
  <2>1. R \in SUBSET Place /\ p \in R /\ q \in Place \ R /\ x[q] = x[p]
    BY <1>2, <1>3, <1>4
  <2>2. TakesOver(R, l, m, u, p, q, l2, m2, u2)
    BY <1>19, <1>20, <1>21 DEF TakesOver
  <2> QED
    BY <1>16, <1>17, <2>1, <2>2, ForestMoved
<1>23. a = Replace(t, q, p)
  BY <1>6, <1>10, <1>12
<1> QED
  BY <1>2, <1>13, <1>14, <1>15, <1>22, <1>23 DEF Sound

-----------------------------------------------------------------------------
(* Rightmost and DeleteNode. *)

\* How many places of R are further down than p.
Under(R, f, p) == Cardinality({y \in R : f[y] > f[p]})

\* A parent is above what is under it.
LEMMA Deeper ==
    ASSUME NEW R \in SUBSET Place, NEW f \in [Place -> Nat]
    PROVE  /\ \A p \in R : Under(R, f, p) \in 0..(N - 1)
           /\ \A p \in R, y \in R : f[p] < f[y] => Under(R, f, y) < Under(R, f, p)
<1>1. IsFiniteSet(Place) /\ Cardinality(Place) = N
  BY FS_Interval, Places DEF Place
<1>2. \A p \in R : f[p] \in Nat
  OBVIOUS
<1>3. ASSUME NEW p \in R PROVE Under(R, f, p) \in 0..(N - 1)
  <2> DEFINE S == {y \in R : f[y] > f[p]}
  <2>1. S \in SUBSET Place /\ p \in Place /\ p \notin S
    BY <1>2
  <2> HIDE DEF S
  <2>2. IsFiniteSet(S) /\ Cardinality(S) <= Cardinality(Place) /\ (Cardinality(S) = Cardinality(Place) => Place = S)
    BY <1>1, <2>1, FS_Subset
  <2>3. Cardinality(S) \in Nat /\ Cardinality(S) <= N /\ Cardinality(S) # N /\ N \in Nat
    BY <1>1, <2>1, <2>2, FS_CardinalityType, Places
  <2>4. Cardinality(S) \in 0..(N - 1)
    BY <2>3
  <2> QED
    BY <2>4 DEF Under, S
<1>4. ASSUME NEW p \in R, NEW y \in R, f[p] < f[y] PROVE Under(R, f, y) < Under(R, f, p)
  <2> DEFINE S == {z \in R : f[z] > f[p]}
             T == {z \in R : f[z] > f[y]}
  <2>1. S \in SUBSET Place /\ T \in SUBSET S /\ y \in S /\ y \notin T
    BY <1>2, <1>4
  <2> HIDE DEF S, T
  <2>2. IsFiniteSet(S)
    BY <1>1, <2>1, FS_Subset
  <2>3. IsFiniteSet(T) /\ Cardinality(T) <= Cardinality(S) /\ Cardinality(T) # Cardinality(S)
    BY <2>1, <2>2, FS_Subset
  <2>4. Cardinality(T) \in Nat /\ Cardinality(S) \in Nat
    BY <2>2, <2>3, FS_CardinalityType
  <2>5. Cardinality(T) < Cardinality(S)
    BY <2>3, <2>4
  <2> QED
    BY <2>5 DEF Under, S, T
<1> QED
  BY <1>3, <1>4

\* The last node of a subtree: the way there ends, and it leaves no set that is
\* closed under going to the right.
LEMMA RightmostIn ==
    ASSUME NEW t, NEW x, Sound(t, x), NEW G \in SUBSET Reg(t), NEW c \in G,
           \A y \in G : t.right[y] # Nil => t.right[y] \in G
    PROVE  Rightmost(t, c) \in G /\ t.right[Rightmost(t, c)] = Nil
<1>1. PICK R, m, u, f : R = Reg(t) /\ m = t.right /\ u = t.up /\ Ranked(R, u, f)
  BY DEF Sound
<1>2. Forest(R, t.left, m, u) /\ R \in SUBSET Place
  BY <1>1, TreeFields DEF Sound
<1>3. \A y \in R : f[y] \in Nat /\ y # Nil /\ y \notin Roots /\ (u[y] \in R => f[u[y]] < f[y])
  BY <1>1, <1>2, Places DEF Ranked
<1> DEFINE On(y) == IF m[y] = Nil THEN y ELSE m[y]
           step == [k \in 1..N |-> [y \in G |-> On(y)]]
           go == CHOOSE g : g = [k \in 0..N |-> IF k = 0 THEN c ELSE On(g[k - 1])]
<1>4. c \in G
  OBVIOUS
<1>5. ASSUME NEW y \in G PROVE On(y) \in G /\ (m[y] # Nil => f[y] < f[On(y)])
  <2>1. CASE m[y] = Nil
    BY <2>1
  <2>2. CASE m[y] # Nil
    <3>1. PICK z : z = m[y]
      OBVIOUS
    <3>2. z \in G /\ z \in R /\ u[z] = y /\ y \in R
      BY <1>1, <1>2, <2>2, <3>1 DEF Forest
    <3>3. f[y] < f[z]
      BY <1>3, <3>2
    <3> QED
      BY <2>2, <3>1, <3>2, <3>3
  <2> QED
    BY <2>1, <2>2
<1>6. N \in Nat
  BY Places
<1>7. step \in [1..N -> [G -> G]]
  BY <1>5
<1>8. \A y \in G, k \in 1..N : step[k][y] = On(y)
  OBVIOUS
<1>9. Rightmost(t, c) = go[N]
  BY <1>1 DEF Rightmost
<1>10. G \subseteq R
  BY <1>1
<1> HIDE DEF On, step
<1>11. PICK g : Iterates(g, N, G, c, step)
  BY <1>4, <1>6, <1>7, Recursion
<1>12. g = [k \in 0..N |-> IF k = 0 THEN c ELSE On(g[k - 1])]
  <2>1. ASSUME NEW k \in 0..N PROVE g[k] = IF k = 0 THEN c ELSE On(g[k - 1])
    <3>1. k = 0 \/ (k \in 1..N /\ k - 1 \in 0..N)
      BY <1>6
    <3>2. ASSUME k \in 1..N PROVE g[k] = On(g[k - 1])
      <4>1. g[k - 1] \in G
        BY <1>6, <1>11, <3>2 DEF Iterates
      <4> QED
        BY <1>8, <1>11, <3>2, <4>1 DEF Iterates
    <3> QED
      BY <1>6, <1>11, <3>1, <3>2 DEF Iterates
  <2> QED
    BY <1>11, <2>1 DEF Iterates
<1>13. go = [k \in 0..N |-> IF k = 0 THEN c ELSE On(go[k - 1])]
  BY <1>12
<1> HIDE DEF go
<1>14. \A k \in 0..N : go[k] \in G
  <2> DEFINE P == {k \in 0..N : go[k] \in G}
  <2>1. 0 \in P
    BY <1>4, <1>6, <1>13
  <2>2. ASSUME NEW k \in 0..(N - 1), k \in P PROVE k + 1 \in P
    <3>1. k + 1 \in 0..N /\ k + 1 # 0 /\ (k + 1) - 1 = k
      BY <1>6
    <3>2. go[k + 1] = On(go[k])
      BY <1>13, <3>1
    <3> QED
      BY <1>5, <2>2, <3>1, <3>2
  <2> HIDE DEF P
  <2>3. 0..N \subseteq P
    BY <1>6, <2>1, <2>2, Upward
  <2> QED
    BY <2>3 DEF P
<1>15. /\ \A y \in R : Under(R, f, y) \in 0..(N - 1)
       /\ \A y \in R, z \in R : f[y] < f[z] => Under(R, f, z) < Under(R, f, y)
  BY <1>1, <1>2, Deeper DEF Ranked
<1>16. m[go[N]] = Nil
  <2> DEFINE P == {k \in 0..N : m[go[k]] = Nil \/ Under(R, f, go[k]) <= (N - 1) - k}
  <2>1. 0 \in P
    BY <1>6, <1>10, <1>14, <1>15
  <2>2. ASSUME NEW k \in 0..(N - 1), k \in P PROVE k + 1 \in P
    <3>1. k + 1 \in 0..N /\ k + 1 # 0 /\ (k + 1) - 1 = k /\ k \in 0..N
      BY <1>6
    <3>2. PICK y : y = go[k] /\ y \in G /\ y \in R
      BY <1>10, <1>14, <3>1
    <3>3. go[k + 1] = On(y)
      BY <1>13, <3>1, <3>2
    <3>4. CASE m[y] = Nil
      BY <3>1, <3>3, <3>4 DEF On
    <3>5. CASE m[y] # Nil
      <4>1. f[y] < f[On(y)] /\ On(y) \in R
        BY <1>5, <1>10, <3>2, <3>5
      <4>2. Under(R, f, On(y)) < Under(R, f, y) /\ Under(R, f, y) <= (N - 1) - k
        BY <1>15, <2>2, <3>2, <3>5, <4>1
      <4>3. Under(R, f, On(y)) \in Int /\ Under(R, f, y) \in Int
        BY <1>15, <3>2, <4>1
      <4>4. Under(R, f, On(y)) <= (N - 1) - (k + 1)
        BY <1>6, <4>2, <4>3
      <4> QED
        BY <3>1, <3>3, <4>4
    <3> QED
      BY <3>4, <3>5
  <2> HIDE DEF P
  <2>3. 0..N \subseteq P
    BY <1>6, <2>1, <2>2, Upward
  <2>4. N \in P /\ N \in 0..N
    BY <1>6, <2>3
  <2>5. Under(R, f, go[N]) \in 0..(N - 1)
    BY <1>10, <1>14, <1>15, <2>4
  <2>6. ~(Under(R, f, go[N]) <= (N - 1) - N)
    BY <1>6, <2>5
  <2> QED
    BY <2>4, <2>6 DEF P
<1>17. go[N] \in G /\ go[N] \in R
  BY <1>6, <1>10, <1>14
<1> QED
  BY <1>1, <1>9, <1>16, <1>17

\* The last node of the left subtree: q hangs on the right of another node of that
\* subtree if it is not its root.
LEMMA RightmostIs ==
    ASSUME NEW t, NEW x, Sound(t, x), NEW p \in Reg(t), t.left[p] # Nil
    PROVE  \A q : q = Rightmost(t, t.left[p]) =>
           /\ q \in Reg(t) /\ q # p /\ t.right[q] = Nil /\ x[q] = x[p]
           /\ t.up[p] # q
           /\ q # t.left[p] =>
                 t.up[q] \in Reg(t) /\ t.up[q] # p /\ t.up[q] # t.up[p] /\ t.right[t.up[q]] = q
<1>1. PICK R, l, m, u, f, c : R = Reg(t) /\ l = t.left /\ m = t.right /\ u = t.up /\ Ranked(R, u, f) /\ c = l[p]
  BY DEF Sound
<1>2. Forest(R, l, m, u) /\ SameByte(R, u, x) /\ R \in SUBSET Place /\ p \in R /\ c # Nil
  BY <1>1, TreeFields DEF Sound
<1>3. \A y \in R : f[y] \in Nat /\ y # Nil /\ y \notin Roots /\ (u[y] \in R => f[u[y]] < f[y])
  BY <1>1, <1>2, Places DEF Ranked
<1> DEFINE G == {y \in R : /\ f[p] < f[y] /\ x[y] = x[p]
                           /\ y = c \/ (u[y] \in R /\ f[p] < f[u[y]] /\ m[u[y]] = y)}
<1>4. c \in G
  <2>1. c \in R /\ u[c] = p
    BY <1>1, <1>2 DEF Forest
  <2>2. x[c] = x[p] /\ f[p] < f[c]
    BY <1>2, <1>3, <2>1 DEF SameByte
  <2> QED
    BY <2>1, <2>2
<1>5. ASSUME NEW y \in G, m[y] # Nil PROVE m[y] \in G
  <2>1. PICK z : z = m[y]
    OBVIOUS
  <2>2. z \in R /\ u[z] = y
    BY <1>2, <1>5, <2>1 DEF Forest
  <2>3. x[z] = x[y] /\ f[y] < f[z] /\ f[p] < f[y] /\ f[p] \in Nat /\ f[y] \in Nat /\ f[z] \in Nat
    BY <1>2, <1>3, <2>2 DEF SameByte
  <2>4. f[p] < f[z] /\ x[z] = x[p]
    BY <2>3
  <2> QED
    BY <1>5, <2>1, <2>2, <2>3, <2>4
<1>6. G \in SUBSET R
  OBVIOUS
<1>7. \A y \in G : x[y] = x[p] /\ (y = c \/ (u[y] \in R /\ f[p] < f[u[y]] /\ m[u[y]] = y)) /\ f[p] < f[y]
  OBVIOUS
<1> HIDE DEF G
<1>8. PICK q : q = Rightmost(t, c) /\ q \in G /\ q \in R /\ m[q] = Nil
  BY <1>1, <1>4, <1>5, <1>6, RightmostIn
<1>9. f[p] \in Nat /\ f[q] \in Nat /\ f[p] < f[q] /\ q # p /\ u[p] # q
  BY <1>2, <1>3, <1>7, <1>8
<1>10. q # c => u[q] \in R /\ u[q] # p /\ u[q] # u[p] /\ m[u[q]] = q
  <2>1. SUFFICES ASSUME q # c PROVE u[q] \in R /\ u[q] # p /\ u[q] # u[p] /\ m[u[q]] = q
    OBVIOUS
  <2>2. u[q] \in R /\ f[p] < f[u[q]] /\ m[u[q]] = q
    BY <1>7, <1>8, <2>1
  <2>3. f[u[q]] \in Nat
    BY <1>3, <2>2
  <2>4. u[q] # p /\ u[q] # u[p]
    BY <1>2, <1>3, <1>9, <2>2, <2>3
  <2> QED
    BY <2>2, <2>4
<1>11. x[q] = x[p]
  BY <1>7, <1>8
<1> QED
  BY <1>1, <1>8, <1>9, <1>10, <1>11

\* The last step of DeleteNode: q hangs where p hung, and p is in no tree.
Hangs(j, p, q, k) == [Rehang([j EXCEPT !.up[q] = k], p, q) EXCEPT !.up[p] = Nil]

\* The links of tree a, in which q hangs below k where p did, and p is in no tree.
Hung(j, p, q, k, a) ==
    /\ a \in Tree
    /\ \A y \in 0..N : a.up[y] = IF y = p THEN Nil ELSE IF y = q THEN k ELSE j.up[y]
    /\ \A y \in 0..N : a.left[y] = IF y = k /\ j.right[k] # p THEN q ELSE j.left[y]
    /\ \A y \in 0..N \cup Roots : a.right[y] = IF y = k /\ j.right[k] = p THEN q ELSE j.right[y]

\* What SetChild and the later writes of DeleteNode leave of the links.
LEMMA HangsIs ==
    ASSUME NEW j \in Tree, NEW p \in Place, NEW q \in 0..N, q # p
    PROVE  \A k : k = j.up[p] /\ (k \in Roots => j.right[k] = p) => Hung(j, p, q, k, Hangs(j, p, q, k))
<1> SUFFICES ASSUME NEW k, k = j.up[p] /\ (k \in Roots => j.right[k] = p)
             PROVE  Hung(j, p, q, k, Hangs(j, p, q, k))
  OBVIOUS
<1>1. PICK a : a = Hangs(j, p, q, k) /\ k = j.up[p] /\ (k \in Roots => j.right[k] = p)
  OBVIOUS
<1>2. /\ j.left \in [0..N -> 0..N] /\ j.right \in [0..N \cup Roots -> 0..N]
      /\ j.up \in [0..N -> 0..N \cup Roots]
      /\ j = [left |-> j.left, right |-> j.right, up |-> j.up]
  BY TreeFields
<1>3. p \in 0..N /\ Nil \in 0..N
  BY Places
<1>4. k \in 0..N \cup Roots
  BY <1>1, <1>2, <1>3
<1>5. PICK b : b = [j EXCEPT !.up[q] = k]
  OBVIOUS
<1>6. /\ b \in Tree /\ b.left = j.left /\ b.right = j.right
      /\ \A y \in 0..N : b.up[y] = IF y = q THEN k ELSE j.up[y]
  <2>1. b = [left |-> j.left, right |-> j.right, up |-> [j.up EXCEPT ![q] = k]]
    BY <1>2, <1>5
  <2>2. [j.up EXCEPT ![q] = k] \in [0..N -> 0..N \cup Roots]
    BY <1>2, <1>4
  <2> QED
    BY <1>2, <2>1, <2>2 DEF Tree
<1>7. b.up[p] = k
  BY <1>1, <1>3, <1>6
<1>8. PICK c : c = Rehang(b, p, q)
  OBVIOUS
<1>9. /\ c \in Tree /\ c.up = b.up
      /\ \A y \in 0..N : c.left[y] = IF y = k /\ b.right[k] # p THEN q ELSE b.left[y]
      /\ \A y \in 0..N \cup Roots : c.right[y] = IF y = k /\ b.right[k] = p THEN q ELSE b.right[y]
  <2>1. b \in Tree
    BY <1>6
  <2>2. k = b.up[p] /\ (k \in Roots => b.right[k] = p)
    BY <1>1, <1>6, <1>7
  <2> QED
    BY <1>8, <2>1, <2>2, Rehung DEF RehungIs
<1>10. /\ c.left \in [0..N -> 0..N] /\ c.right \in [0..N \cup Roots -> 0..N]
       /\ c.up \in [0..N -> 0..N \cup Roots]
       /\ c = [left |-> c.left, right |-> c.right, up |-> c.up]
  BY <1>9, TreeFields
<1>11. a = [left |-> c.left, right |-> c.right, up |-> [c.up EXCEPT ![p] = Nil]]
  <2>1. a = [c EXCEPT !.up[p] = Nil]
    BY <1>1, <1>5, <1>8 DEF Hangs
  <2> QED
    BY <1>10, <2>1
<1>12. [c.up EXCEPT ![p] = Nil] \in [0..N -> 0..N \cup Roots]
  BY <1>3, <1>10
<1>13. a \in Tree
  BY <1>10, <1>11, <1>12 DEF Tree
<1>14. \A y \in 0..N : a.up[y] = IF y = p THEN Nil ELSE c.up[y]
  BY <1>10, <1>11
<1>15. a.left = c.left /\ a.right = c.right
  BY <1>11
<1>16. \A y \in 0..N : a.up[y] = IF y = p THEN Nil ELSE IF y = q THEN k ELSE j.up[y]
  BY <1>6, <1>9, <1>14
<1>17. /\ \A y \in 0..N : a.left[y] = IF y = k /\ j.right[k] # p THEN q ELSE j.left[y]
       /\ \A y \in 0..N \cup Roots : a.right[y] = IF y = k /\ j.right[k] = p THEN q ELSE j.right[y]
  BY <1>6, <1>9, <1>15
<1> QED
  BY <1>1, <1>13, <1>16, <1>17 DEF Hung

\* In tree a the only child of p, if there is one, is where p is in t.
Spliced(t, p, a) ==
    \E q : /\ (q = t.left[p] /\ t.right[p] = Nil) \/ (q = t.right[p] /\ t.left[p] = Nil)
           /\ GivesWay(Reg(t), t.left, t.right, t.up, p, q, a.left, a.right, a.up)

\* A place without one of two children.
LEMMA DeletedTop ==
    ASSUME NEW t, NEW x, Sound(t, x), NEW p \in Reg(t), Nil \in {t.left[p], t.right[p]}
    PROVE  /\ Sound(DeleteNode(t, p), x) /\ Reg(DeleteNode(t, p)) = Reg(t) \ {p}
           /\ Spliced(t, p, DeleteNode(t, p))
<1>1. PICK k, q, R, a : /\ k = t.up[p] /\ q = (IF t.right[p] = Nil THEN t.left[p] ELSE t.right[p])
                        /\ R = Reg(t) /\ a = DeleteNode(t, p)
  OBVIOUS
<1>2. /\ t \in Tree /\ p \in Place /\ p # Nil /\ p \notin Roots /\ R \in SUBSET Place /\ p \in R
      /\ k \in R \cup Roots /\ k # p /\ t.left[p] # p /\ t.right[p] # p
      /\ t.left[p] \in R \cup {Nil} /\ t.right[p] \in R \cup {Nil}
      /\ k \in Roots => t.right[k] = p
      /\ \A y \in R : t.left[y] = p <=> y = k /\ t.right[k] # p
      /\ \A y \in R \cup Roots : t.right[y] = p <=> y = k /\ t.right[k] = p
  BY <1>1, Around
<1>3. /\ q \in R \cup {Nil} /\ q # p /\ q \in 0..N
      /\ (q = t.left[p] /\ t.right[p] = Nil) \/ (q = t.right[p] /\ t.left[p] = Nil)
  BY <1>1, <1>2, Places
<1>4. a = Hangs(t, p, q, k)
  <2>1. InTree(t, p) /\ ~(Nil \notin {t.left[p], t.right[p]})
    BY DEF Reg
  <2> QED
    BY <1>1, <2>1 DEF DeleteNode, Hangs
<1>5. /\ a \in Tree
      /\ \A y \in 0..N : a.up[y] = IF y = p THEN Nil ELSE IF y = q THEN k ELSE t.up[y]
      /\ \A y \in 0..N : a.left[y] = IF y = k /\ t.right[k] # p THEN q ELSE t.left[y]
      /\ \A y \in 0..N \cup Roots : a.right[y] = IF y = k /\ t.right[k] = p THEN q ELSE t.right[y]
  <2>1. t \in Tree /\ p \in Place /\ q \in 0..N /\ q # p
    BY <1>2, <1>3
  <2>2. Hung(t, p, q, k, a)
    BY <1>1, <1>2, <1>4, <2>1, HangsIs
  <2> QED
    BY <2>2 DEF Hung
<1>6. Reg(a) = R \ {p}
  <2>1. Reg(a) = {y \in Place : a.up[y] # Nil} /\ R = {y \in Place : t.up[y] # Nil}
    BY <1>1, <1>2, <1>5, TreeFields
  <2>2. k # Nil /\ Place \subseteq 0..N /\ Nil \notin Place
    BY <1>2, Places
  <2>3. \A y \in Place : a.up[y] # Nil <=> y # p /\ t.up[y] # Nil
    BY <1>3, <1>5, <2>1, <2>2
  <2> QED
    BY <1>2, <2>1, <2>3
<1>7. PICK l, m, u, l2, m2, u2 : l = t.left /\ m = t.right /\ u = t.up /\ l2 = a.left /\ m2 = a.right /\ u2 = a.up
  OBVIOUS
<1>8. PICK f : Ranked(R, u, f)
  BY <1>1, <1>7 DEF Sound
<1>9. Forest(R, l, m, u) /\ SameByte(R, u, x)
  BY <1>1, <1>7 DEF Sound
<1>10. GivesWay(R, l, m, u, p, q, l2, m2, u2)
  <2>1. \A y \in R \ {p} : y \in 0..N /\ y # p
    BY <1>2, Places
  <2>2. \A y \in R \ {p} : u2[y] = IF y = q THEN u[p] ELSE u[y]
    BY <1>1, <1>5, <1>7, <2>1
  <2>3. \A y \in R \ {p} : l2[y] = IF l[y] = p THEN q ELSE l[y]
    BY <1>2, <1>5, <1>7, <2>1
  <2>4. \A y \in (R \ {p}) \cup Roots : m2[y] = IF m[y] = p THEN q ELSE m[y]
    BY <1>2, <1>5, <1>7, <2>1
  <2> QED
    BY <2>2, <2>3, <2>4 DEF GivesWay
<1>11. (q = l[p] /\ m[p] = Nil) \/ (q = m[p] /\ l[p] = Nil)
  BY <1>3, <1>7
<1>12. Forest(R \ {p}, l2, m2, u2) /\ Ranked(R \ {p}, u2, f) /\ SameByte(R \ {p}, u2, x)
  <2>1. R \in SUBSET Place /\ p \in R
    BY <1>2
  <2> QED
    BY <1>8, <1>9, <1>10, <1>11, <2>1, ForestSpliced
<1>13. Sound(a, x)
  BY <1>5, <1>6, <1>7, <1>12 DEF Sound
<1>14. Spliced(t, p, a)
  BY <1>1, <1>7, <1>10, <1>11 DEF Spliced
<1> QED
  BY <1>1, <1>6, <1>13, <1>14

\* In tree a the last node below the left child of p is where p is in t: first it
\* gave way to its own child.
Lifted(t, p, a) ==
    \E q, l1, m1, u1 :
       /\ q = Rightmost(t, t.left[p]) /\ Forest(Reg(t) \ {q}, l1, m1, u1)
       /\ GivesWay(Reg(t), t.left, t.right, t.up, q, t.left[q], l1, m1, u1)
       /\ TakesOver(Reg(t) \ {q}, l1, m1, u1, p, q, a.left, a.right, a.up)

\* A place with two children, for which the last node of the left subtree is put.
LEMMA DeletedBoth ==
    ASSUME NEW t, NEW x, Sound(t, x), NEW p \in Reg(t), Nil \notin {t.left[p], t.right[p]}
    PROVE  /\ Sound(DeleteNode(t, p), x) /\ Reg(DeleteNode(t, p)) = Reg(t) \ {p}
           /\ Lifted(t, p, DeleteNode(t, p))
<1>1. PICK k, c, d, q, R, a : /\ k = t.up[p] /\ c = t.left[p] /\ d = t.right[p]
                              /\ q = Rightmost(t, t.left[p])
                              /\ R = Reg(t) /\ a = DeleteNode(t, p)
  OBVIOUS
<1>2. PICK z, e : z = t.up[q] /\ e = t.left[q]
  OBVIOUS
<1>3. /\ t \in Tree /\ p \in Place /\ p # Nil /\ p \notin Roots /\ R \in SUBSET Place /\ p \in R
      /\ k \in R \cup Roots /\ k # p /\ c # p /\ d # p
      /\ c \in R /\ d \in R
      /\ k \in Roots => t.right[k] = p
      /\ \A y \in R : t.left[y] = p <=> y = k /\ t.right[k] # p
      /\ \A y \in R \cup Roots : t.right[y] = p <=> y = k /\ t.right[k] = p
  BY <1>1, Around
<1>4. /\ q \in R /\ q # p /\ t.right[q] = Nil /\ x[q] = x[p] /\ k # q
      /\ q # c => z \in R /\ z # p /\ z # k /\ t.right[z] = q
  BY <1>1, <1>2, RightmostIs
<1>5. /\ q \in Place /\ q # Nil /\ q \notin Roots /\ z \in R \cup Roots /\ z # q /\ e # q
      /\ e \in R \cup {Nil}
      /\ \A y \in R : t.left[y] = q <=> y = z /\ t.right[z] # q
      /\ \A y \in R \cup Roots : t.right[y] = q <=> y = z /\ t.right[z] = q
  BY <1>1, <1>2, <1>4, Around
<1>6. PICK l, m, u : l = t.left /\ m = t.right /\ u = t.up
  OBVIOUS
<1>7. Forest(R, l, m, u) /\ SameByte(R, u, x)
  BY <1>1, <1>6 DEF Sound
<1>8. PICK f : Ranked(R, u, f)
  BY <1>1, <1>6 DEF Sound
<1>9. /\ u[c] = p /\ u[d] = p /\ c # d /\ (e # Nil => u[e] = q) /\ c # Nil /\ d # Nil
      /\ e # c /\ e # d /\ d # q /\ e # p
  <2>1. u[c] = p /\ u[d] = p /\ (e # Nil => u[e] = q) /\ c # Nil /\ d # Nil /\ Nil \notin R
    BY <1>1, <1>2, <1>3, <1>4, <1>6, <1>7, Places DEF Forest
  <2>2. c # d
    BY <1>1, <1>3, <1>6, <1>7, <2>1 DEF Forest
  <2>3. d # q
    BY <1>1, <1>2, <1>4, <1>6, <2>1, <2>2
  <2>4. e # p
    BY <1>1, <1>3, <1>4, <1>6, <2>1
  <2> QED
    BY <1>4, <2>1, <2>2, <2>3, <2>4
<1>10. R \subseteq 0..N /\ p \in 0..N /\ q \in 0..N /\ c \in 0..N /\ d \in 0..N /\ e \in 0..N
       /\ R \cap Roots = {} /\ Nil \notin R /\ z \in 0..N \cup Roots
  BY <1>3, <1>4, <1>5, Places
<1>11. /\ l \in [0..N -> 0..N] /\ m \in [0..N \cup Roots -> 0..N] /\ u \in [0..N -> 0..N \cup Roots]
       /\ t = [left |-> l, right |-> m, up |-> u]
  BY <1>3, <1>6, TreeFields
<1>12. PICK v : v = Detach(t, p, q)
  OBVIOUS
<1>13. /\ v \in Tree
       /\ \A y \in 0..N : v.left[y] = IF y = q /\ q # c THEN c ELSE l[y]
       /\ \A y \in 0..N \cup Roots : v.right[y] = IF y = z /\ q # c THEN e ELSE m[y]
       /\ \A y \in 0..N : v.up[y] = IF y = c /\ q # c THEN q ELSE IF y = e /\ q # c THEN z ELSE u[y]
  <2>1. CASE q = c
    BY <1>1, <1>3, <1>6, <1>12, <2>1 DEF Detach
  <2>2. CASE q # c
    <3>1. PICK b : b = [t EXCEPT !.right[t.up[q]] = t.left[q]]
      OBVIOUS
    <3>2. b = [left |-> l, right |-> [m EXCEPT ![z] = e], up |-> u]
      BY <1>2, <1>11, <3>1
    <3>3. PICK g : g = [b EXCEPT !.up[t.left[q]] = t.up[q]]
      OBVIOUS
    <3>4. g = [left |-> l, right |-> [m EXCEPT ![z] = e], up |-> [u EXCEPT ![e] = z]]
      BY <1>2, <3>2, <3>3
    <3>5. v = [g EXCEPT !.left[q] = t.left[p], !.up[t.left[p]] = q]
      BY <1>1, <1>12, <2>2, <3>1, <3>3 DEF Detach
    <3>6. v = [left |-> [l EXCEPT ![q] = c], right |-> [m EXCEPT ![z] = e],
               up |-> [[u EXCEPT ![e] = z] EXCEPT ![c] = q]]
      BY <1>1, <3>4, <3>5
    <3>7. [l EXCEPT ![q] = c] \in [0..N -> 0..N] /\ [m EXCEPT ![z] = e] \in [0..N \cup Roots -> 0..N]
      BY <1>10, <1>11
    <3>8. PICK h : h = [u EXCEPT ![e] = z]
      OBVIOUS
    <3>9. h \in [0..N -> 0..N \cup Roots] /\ \A y \in 0..N : h[y] = IF y = e THEN z ELSE u[y]
      BY <1>10, <1>11, <3>8
    <3>10. [h EXCEPT ![c] = q] \in [0..N -> 0..N \cup Roots]
      BY <1>10, <3>9
    <3>11. v \in Tree
      BY <3>6, <3>7, <3>8, <3>10 DEF Tree
    <3>12. \A y \in 0..N : v.left[y] = IF y = q /\ q # c THEN c ELSE l[y]
      BY <1>11, <2>2, <3>6
    <3>13. \A y \in 0..N \cup Roots : v.right[y] = IF y = z /\ q # c THEN e ELSE m[y]
      BY <1>11, <2>2, <3>6
    <3>14. v.up = [h EXCEPT ![c] = q]
      BY <3>6, <3>8
    <3>15. \A y \in 0..N : v.up[y] = IF y = c /\ q # c THEN q ELSE IF y = e /\ q # c THEN z ELSE u[y]
      BY <2>2, <3>9, <3>14
    <3> QED
      BY <3>11, <3>12, <3>13, <3>15
  <2> QED
    BY <2>1, <2>2
<1>14. v.right[p] = d
  BY <1>1, <1>4, <1>6, <1>10, <1>13
<1>15. PICK j : j = [v EXCEPT !.right[q] = v.right[p], !.up[v.right[p]] = q]
  OBVIOUS
<1>16. /\ j \in Tree
       /\ \A y \in 0..N : j.left[y] = IF y = q /\ q # c THEN c ELSE l[y]
       /\ \A y \in 0..N \cup Roots : j.right[y] = IF y = q THEN d ELSE IF y = z /\ q # c THEN e ELSE m[y]
       /\ \A y \in 0..N : j.up[y] = IF y = d THEN q ELSE IF y = c /\ q # c THEN q
                                    ELSE IF y = e /\ q # c THEN z ELSE u[y]
  <2>1. /\ v.left \in [0..N -> 0..N] /\ v.right \in [0..N \cup Roots -> 0..N] /\ v.up \in [0..N -> 0..N \cup Roots]
        /\ v = [left |-> v.left, right |-> v.right, up |-> v.up]
    BY <1>13, TreeFields
  <2>2. j = [left |-> v.left, right |-> [v.right EXCEPT ![q] = d], up |-> [v.up EXCEPT ![d] = q]]
    BY <1>14, <1>15, <2>1
  <2>3. [v.right EXCEPT ![q] = d] \in [0..N \cup Roots -> 0..N] /\ [v.up EXCEPT ![d] = q] \in [0..N -> 0..N \cup Roots]
    BY <1>10, <2>1
  <2>4. j \in Tree
    BY <2>1, <2>2, <2>3 DEF Tree
  <2>5. j.left = v.left /\ \A y \in 0..N \cup Roots : j.right[y] = IF y = q THEN d ELSE v.right[y]
    BY <2>1, <2>2
  <2>6. \A y \in 0..N : j.up[y] = IF y = d THEN q ELSE v.up[y]
    BY <2>1, <2>2
  <2> QED
    BY <1>13, <2>4, <2>5, <2>6
<1>17. j.up[p] = k /\ j.right[k] = m[k] /\ k \in 0..N \cup Roots
  BY <1>1, <1>3, <1>4, <1>6, <1>9, <1>10, <1>16
<1>18. a = Hangs(j, p, q, k)
  <2>1. InTree(t, p) /\ Nil \notin {t.left[p], t.right[p]}
    BY DEF Reg
  <2> QED
    BY <1>1, <1>12, <1>15, <2>1 DEF DeleteNode, Hangs
<1>19. Hung(j, p, q, k, a)
  <2>1. j \in Tree /\ p \in Place /\ q \in 0..N /\ q # p
    BY <1>3, <1>4, <1>10, <1>16
  <2>2. k = j.up[p] /\ (k \in Roots => j.right[k] = p)
    BY <1>3, <1>6, <1>17
  <2> QED
    BY <1>18, <2>1, <2>2, HangsIs
<1>20. /\ a \in Tree
       /\ \A y \in 0..N : a.up[y] = IF y = p THEN Nil ELSE IF y = q THEN k ELSE j.up[y]
       /\ \A y \in 0..N : a.left[y] = IF y = k /\ m[k] # p THEN q ELSE j.left[y]
       /\ \A y \in 0..N \cup Roots : a.right[y] = IF y = k /\ m[k] = p THEN q ELSE j.right[y]
  BY <1>17, <1>19 DEF Hung
<1>21. PICK S : S = R \ {p}
  OBVIOUS
<1>22. Reg(a) = S
  <2>1. Reg(a) = {y \in Place : a.up[y] # Nil} /\ R = {y \in Place : u[y] # Nil}
    BY <1>1, <1>3, <1>6, <1>20, TreeFields
  <2>2. k # Nil /\ Place \subseteq 0..N /\ Nil \notin Place
    BY <1>3, Places
  <2>3. z # Nil
    BY <1>5, <1>10, Places
  <2>4. \A y \in Place : j.up[y] # Nil <=> u[y] # Nil
    BY <1>3, <1>4, <1>5, <1>16, <2>1, <2>2, <2>3
  <2>5. \A y \in Place : a.up[y] # Nil <=> y # p /\ u[y] # Nil
    BY <1>4, <1>20, <2>1, <2>2, <2>4
  <2> QED
    BY <1>3, <1>21, <2>1, <2>5
<1>23. PICK Q, l1, m1, u1, l2, m2, u2 :
          /\ Q = R \ {q}
          /\ l1 = [y \in R |-> IF l[y] = q THEN e ELSE l[y]]
          /\ m1 = [y \in R \cup Roots |-> IF m[y] = q THEN e ELSE m[y]]
          /\ u1 = [y \in R |-> IF y = e THEN z ELSE u[y]]
          /\ l2 = a.left /\ m2 = a.right /\ u2 = a.up
  OBVIOUS
<1>24. GivesWay(R, l, m, u, q, e, l1, m1, u1)
  BY <1>2, <1>6, <1>23 DEF GivesWay
<1>25. Forest(Q, l1, m1, u1) /\ Ranked(Q, u1, f) /\ SameByte(Q, u1, x)
  <2>1. R \in SUBSET Place /\ q \in R /\ ((e = l[q] /\ m[q] = Nil) \/ (e = m[q] /\ l[q] = Nil))
    BY <1>2, <1>3, <1>4, <1>6
  <2> QED
    BY <1>7, <1>8, <1>23, <1>24, <2>1, ForestSpliced
<1>26. (Q \ {p}) \cup {q} = S /\ Q \in SUBSET Place /\ p \in Q /\ q \in Place \ Q
  BY <1>3, <1>4, <1>5, <1>21, <1>23
<1>27. TakesOver(Q, l1, m1, u1, p, q, l2, m2, u2)
  <2>1. \A y \in R : l1[y] = IF y = z /\ m[z] # q THEN e ELSE l[y]
    BY <1>5, <1>6, <1>23
  <2>2. \A y \in R \cup Roots : m1[y] = IF y = z /\ m[z] = q THEN e ELSE m[y]
    BY <1>5, <1>6, <1>23
  <2>3. \A y \in R : u1[y] = IF y = e THEN z ELSE u[y]
    BY <1>23
  <2>4. q = c => z = p /\ m[z] # q
    BY <1>1, <1>2, <1>3, <1>6, <1>9
  <2>5. q # c => z # p /\ m[z] = q
    BY <1>4, <1>6
  <2>6. l1[p] = (IF q = c THEN e ELSE c) /\ m1[p] = d /\ u1[p] = k
    BY <1>1, <1>3, <1>6, <1>9, <2>1, <2>2, <2>3, <2>4, <2>5
  <2>7. \A y \in S : u2[y] = IF y = q THEN u1[p] ELSE IF y = l1[p] \/ y = m1[p] THEN q ELSE u1[y]
    <3>1. SUFFICES ASSUME NEW y \in S
                   PROVE  u2[y] = IF y = q THEN u1[p] ELSE IF y = l1[p] \/ y = m1[p] THEN q ELSE u1[y]
      OBVIOUS
    <3>2. y \in R /\ y \in 0..N /\ y # p
      BY <1>10, <1>21, <3>1
    <3>3. u2[y] = IF y = q THEN k ELSE j.up[y]
      BY <1>20, <1>23, <3>2
    <3>4. CASE q = c
      <4>1. e = y => u[y] = q
        BY <1>9, <1>10, <3>2
      <4> QED
        BY <1>16, <2>3, <2>6, <3>2, <3>3, <3>4, <4>1
    <3>5. CASE q # c
      BY <1>9, <1>16, <2>3, <2>6, <3>2, <3>3, <3>5
    <3> QED
      BY <3>4, <3>5
  <2>8. \A y \in S : l2[y] = IF y = q THEN l1[p] ELSE IF l1[y] = p THEN q ELSE l1[y]
    <3>1. SUFFICES ASSUME NEW y \in S
                   PROVE  l2[y] = IF y = q THEN l1[p] ELSE IF l1[y] = p THEN q ELSE l1[y]
      OBVIOUS
    <3>2. y \in R /\ y \in 0..N /\ y # p
      BY <1>10, <1>21, <3>1
    <3>3. l2[y] = IF y = k /\ m[k] # p THEN q ELSE IF y = q /\ q # c THEN c ELSE l[y]
      BY <1>16, <1>20, <1>23, <3>2
    <3>4. l[y] = p <=> y = k /\ m[k] # p
      BY <1>3, <1>6, <3>2
    <3>5. l1[y] = l[y]
      BY <2>1, <2>4, <2>5, <3>2
    <3> QED
      BY <1>2, <1>4, <1>6, <2>6, <3>3, <3>4, <3>5
  <2>9. \A y \in S \cup Roots : m2[y] = IF y = q THEN m1[p] ELSE IF m1[y] = p THEN q ELSE m1[y]
    <3>1. SUFFICES ASSUME NEW y \in S \cup Roots
                   PROVE  m2[y] = IF y = q THEN m1[p] ELSE IF m1[y] = p THEN q ELSE m1[y]
      OBVIOUS
    <3>2. y \in R \cup Roots /\ y \in 0..N \cup Roots /\ y # p
      BY <1>3, <1>10, <1>21, <3>1
    <3>3. m2[y] = IF y = k /\ m[k] = p THEN q ELSE IF y = q THEN d ELSE IF y = z /\ q # c THEN e ELSE m[y]
      BY <1>16, <1>20, <1>23, <3>2
    <3>4. m[y] = p <=> y = k /\ m[k] = p
      BY <1>3, <1>6, <3>2
    <3>5. m1[y] = IF y = z /\ q # c THEN e ELSE m[y]
      BY <2>2, <2>4, <2>5, <3>2
    <3> QED
      BY <1>4, <1>9, <2>6, <3>3, <3>4, <3>5
  <2> QED
    BY <1>26, <2>7, <2>8, <2>9 DEF TakesOver
<1>28. Forest(S, l2, m2, u2) /\ SameByte(S, u2, x) /\ \E g : Ranked(S, u2, g)
  <2>1. x[q] = x[p]
    BY <1>4
  <2> QED
    BY <1>25, <1>26, <1>27, <2>1, ForestMoved
<1>29. Sound(a, x)
  BY <1>20, <1>22, <1>23, <1>28 DEF Sound
<1>30. Lifted(t, p, a)
  <2>1. Q = Reg(t) \ {q} /\ e = t.left[q] /\ q = Rightmost(t, t.left[p])
    BY <1>1, <1>2, <1>23
  <2>2. Forest(Reg(t) \ {q}, l1, m1, u1) /\ TakesOver(Reg(t) \ {q}, l1, m1, u1, p, q, a.left, a.right, a.up)
    BY <1>23, <1>25, <1>27, <2>1
  <2>3. GivesWay(Reg(t), t.left, t.right, t.up, q, t.left[q], l1, m1, u1)
    BY <1>1, <1>6, <1>24, <2>1
  <2> QED
    BY <2>1, <2>2, <2>3 DEF Lifted
<1> QED
  BY <1>1, <1>21, <1>22, <1>29, <1>30

\* DeleteNode takes a string out of the trees, and no other.
LEMMA Deleted ==
    ASSUME NEW t, NEW x, Sound(t, x), NEW p \in Place
    PROVE  Sound(DeleteNode(t, p), x) /\ Reg(DeleteNode(t, p)) = Reg(t) \ {p}
<1>1. CASE p \notin Reg(t)
  <2>1. DeleteNode(t, p) = t
    BY <1>1 DEF DeleteNode, Reg
  <2> QED
    BY <1>1, <2>1
<1>2. CASE p \in Reg(t)
  BY <1>2, DeletedTop, DeletedBoth
<1> QED
  BY <1>1, <1>2

\* What two strings share.
LEMMA CommonIs ==
    ASSUME NEW x, NEW a \in Int, NEW b \in Int, x[a] = x[b]
    PROVE  /\ Common(x, a, b) \in 1..F
           /\ \A i \in 0..(Common(x, a, b) - 1) : x[a + i] = x[b + i]
<1> DEFINE S == {i \in 1..(F - 1) : x[a + i] # x[b + i]} \cup {F}
<1>1. S \in SUBSET Nat /\ S # {} /\ S \subseteq 1..F /\ F \in S
  BY Places
<1>2. Common(x, a, b) = Min(S)
  BY DEF Common
<1>3. \A i \in 1..(F - 1) : x[a + i] # x[b + i] => i \in S
  OBVIOUS
<1> HIDE DEF S
<1>4. PICK n : n = Min(S) /\ n \in S /\ \A i \in S : n <= i
  BY <1>1, MinIn
<1>5. n \in 1..F
  BY <1>1, <1>4
<1>6. ASSUME NEW i \in 1..(n - 1) PROVE x[a + i] = x[b + i]
  <2>1. i \in 1..(F - 1) /\ i \in Nat /\ ~(n <= i)
    BY <1>5, Places
  <2> QED
    BY <1>3, <1>4, <2>1
<1>7. ASSUME NEW i \in 0..(n - 1) PROVE x[a + i] = x[b + i]
  <2>1. CASE i = 0
    <3>1. a + i = a /\ b + i = b
      BY <2>1
    <3> QED
      BY <3>1
  <2>2. CASE i # 0
    <3>1. i \in 1..(n - 1)
      BY <1>5, <2>2
    <3> QED
      BY <1>6, <3>1
  <2> QED
    BY <2>1, <2>2
<1> QED
  BY <1>2, <1>4, <1>5, <1>7

\* What Compare and Common say of two strings.
LEMMA CompareIs ==
    ASSUME NEW x \in Text, NEW a \in Place, NEW b \in Place, x[a] = x[b]
    PROVE  Compare(x, a, b) \in Int
<1>1. PICK i : i = Common(x, a, b) /\ i \in 1..F
  BY CommonIs DEF Place
<1>2. CASE i = F
  BY <1>1, <1>2 DEF Compare
<1>3. CASE i # F
  <2>1. a + i \in 0..(N + F - 2) /\ b + i \in 0..(N + F - 2)
    BY <1>1, <1>3, Places DEF Place
  <2>2. \A j \in 0..(N + F - 2) : x[j] \in Byte
    BY DEF Text
  <2>3. x[a + i] \in Int /\ x[b + i] \in Int
    <3>1. x[a + i] \in Byte /\ x[b + i] \in Byte
      BY <2>1, <2>2
    <3>2. \A c \in Byte : c \in Int
      BY LzssTreeAssumption
    <3> QED
      BY <3>1, <3>2
  <2> QED
    BY <1>1, <1>3, <2>3 DEF Compare
<1> QED
  BY <1>2, <1>3

-----------------------------------------------------------------------------
(* The descent, and InsertNode. *)

\* Where a descent for q can be.
Walk(t, x, q) ==
    {v \in [node: Reg(t) \cup Roots, side: Int, length: 0..F, position: Place, stop: BOOLEAN] :
        /\ IF v.node \in Roots THEN v.node = Root(x[q]) /\ v.side >= 0 ELSE x[v.node] = x[q]
        /\ v.length > 0 => /\ v.position \in Reg(t) /\ x[v.position] = x[q]
                           /\ Common(x, q, v.position) = v.length
        /\ v.length = F => v.stop /\ v.node = v.position
        /\ v.stop => v.length = F \/ Child(t, v.node, v.side) = Nil}

\* The descent before its first step, and a step of it.
Start(x, q) == [node |-> Root(x[q]), side |-> 1, length |-> 0, position |-> 0, stop |-> FALSE]

Down(t, x, q, v) ==
    LET p == Child(t, v.node, v.side)
        i == Common(x, q, p)
    IN  IF p = Nil THEN [v EXCEPT !.stop = TRUE]
        ELSE [node |-> p,
              side |-> Compare(x, q, p),
              length |-> IF i > v.length THEN i ELSE v.length,
              position |-> IF i > v.length THEN p ELSE v.position,
              stop |-> i = F]

\* Each step of the descent keeps what Walk says.
LEMMA DownWalks ==
    ASSUME NEW t, NEW x \in Text, Sound(t, x), NEW q \in Place, NEW v \in Walk(t, x, q), ~v.stop,
           NEW f, Ranked(Reg(t), t.up, f)
    PROVE  \A w2 : w2 = Down(t, x, q, v) =>
           /\ w2 \in Walk(t, x, q)
           /\ w2.stop \/ (w2.node \in Reg(t) /\ (v.node \in Reg(t) => f[v.node] < f[w2.node]))
<1>1. SUFFICES ASSUME NEW w2, w2 = Down(t, x, q, v)
               PROVE  /\ w2 \in Walk(t, x, q)
                      /\ w2.stop \/ (w2.node \in Reg(t) /\ (v.node \in Reg(t) => f[v.node] < f[w2.node]))
  OBVIOUS
<1>2. PICK p, n, R : p = Child(t, v.node, v.side) /\ n = v.node /\ R = Reg(t)
  OBVIOUS
<1>3. /\ v \in [node: R \cup Roots, side: Int, length: 0..F, position: Place, stop: BOOLEAN]
      /\ IF n \in Roots THEN n = Root(x[q]) /\ v.side >= 0 ELSE x[n] = x[q]
      /\ v.length > 0 => v.position \in R /\ x[v.position] = x[q] /\ Common(x, q, v.position) = v.length
      /\ v.length # F
      /\ n \in R \cup Roots
  BY <1>2 DEF Walk
<1>4. CASE p = Nil
  <2>1. w2 = [v EXCEPT !.stop = TRUE]
    BY <1>1, <1>2, <1>4 DEF Down
  <2>2. /\ w2 \in [node: R \cup Roots, side: Int, length: 0..F, position: Place, stop: BOOLEAN]
        /\ w2.node = n /\ w2.side = v.side /\ w2.length = v.length /\ w2.position = v.position /\ w2.stop
    BY <1>2, <1>3, <2>1
  <2> QED
    BY <1>2, <1>3, <1>4, <2>2 DEF Walk
<1>5. CASE p # Nil
  <2>1. PICK i : i = Common(x, q, p)
    OBVIOUS
  <2>2. w2 = [node |-> p, side |-> Compare(x, q, p),
              length |-> IF i > v.length THEN i ELSE v.length,
              position |-> IF i > v.length THEN p ELSE v.position,
              stop |-> i = F]
    BY <1>1, <1>2, <1>5, <2>1 DEF Down
  <2>3. p \in R /\ t.up[p] = n
    BY <1>2, <1>3, <1>5, Places DEF Sound, Forest, Child
  <2>4. R \in SUBSET Place /\ p \in Place /\ p \notin Roots
    BY <1>2, <2>3, TreeFields, Places DEF Sound
  <2>5. x[p] \in Byte /\ x[q] \in Byte
    BY <2>4, Places DEF Text, Place
  <2>6. x[p] = x[q]
    <3>1. IF n \in Roots THEN n = Root(x[p]) ELSE x[n] = x[p]
      BY <1>2, <2>3 DEF Sound, SameByte
    <3> QED
      BY <1>3, <2>5, <3>1, Places
  <2>7. i \in 1..F /\ Compare(x, q, p) \in Int
    BY <2>1, <2>4, <2>6, CommonIs, CompareIs, Places
  <2>8. n \in R => f[n] < f[p]
    BY <1>2, <2>3 DEF Ranked
  <2>9. F \in Nat /\ v.length \in 0..F /\ v.position \in Place
    BY <1>3, Places
  <2>10. w2 \in [node: R \cup Roots, side: Int, length: 0..F, position: Place, stop: BOOLEAN]
    BY <2>2, <2>3, <2>4, <2>7, <2>9
  <2>11. /\ w2.node = p /\ w2.length = (IF i > v.length THEN i ELSE v.length)
         /\ w2.position = (IF i > v.length THEN p ELSE v.position) /\ (w2.stop <=> i = F)
    BY <2>2
  <2>12. w2.length > 0 => w2.position \in R /\ x[w2.position] = x[q] /\ Common(x, q, w2.position) = w2.length
    BY <1>3, <2>1, <2>3, <2>6, <2>7, <2>9, <2>11
  <2>13. w2.length = F => w2.stop /\ w2.node = w2.position
    BY <1>3, <2>7, <2>9, <2>11
  <2>14. w2.stop => w2.length = F
    BY <1>3, <2>7, <2>9, <2>11
  <2>15. w2 \in Walk(t, x, q)
    BY <1>2, <2>4, <2>6, <2>10, <2>11, <2>12, <2>13, <2>14 DEF Walk
  <2> QED
    BY <1>2, <2>3, <2>8, <2>11, <2>15
<1> QED
  BY <1>4, <1>5

\* The descent begins at a root.
LEMMA StartWalks ==
    ASSUME NEW t, NEW x \in Text, NEW q \in Place
    PROVE  Start(x, q) \in Walk(t, x, q)
<1> DEFINE c == Start(x, q)
<1>1. q \in 0..(N + F - 2)
  BY Places DEF Place
<1>2. x[q] \in Byte /\ 0 \in Place /\ 0 \in 0..F /\ F # 0
  BY <1>1, Places DEF Text, Place
<1>3. Root(x[q]) \in Roots
  BY <1>2, Places
<1>4. c = [node |-> Root(x[q]), side |-> 1, length |-> 0, position |-> 0, stop |-> FALSE]
  BY DEF Start
<1> HIDE DEF c
<1>5. c \in [node: Reg(t) \cup Roots, side: Int, length: 0..F, position: Place, stop: BOOLEAN]
  BY <1>2, <1>3, <1>4
<1>6. c.node = Root(x[q]) /\ c.side = 1 /\ c.length = 0 /\ ~c.stop
  BY <1>4
<1>7. c \in Walk(t, x, q)
  BY <1>2, <1>3, <1>5, <1>6 DEF Walk
<1> QED
  BY <1>7 DEF c

\* The descent ends: at a place with the same F bytes, or where q can hang.  It
\* leaves no set that is closed under its steps.
LEMMA DescendIn ==
    ASSUME NEW t, NEW x \in Text, Sound(t, x), NEW q \in Place, NEW G \in SUBSET Walk(t, x, q),
           Start(x, q) \in G, \A v \in G : ~v.stop => Down(t, x, q, v) \in G
    PROVE  Descend(t, x, q) \in G /\ Descend(t, x, q).stop
<1>1. PICK R, f : R = Reg(t) /\ Ranked(R, t.up, f)
  BY DEF Sound
<1> DEFINE c == Start(x, q)
           On(v) == IF v.stop THEN v ELSE Down(t, x, q, v)
           step == [k \in 1..(N + 1) |-> [v \in G |-> On(v)]]
           walk == CHOOSE g : g = [k \in 0..(N + 1) |-> IF k = 0 THEN c ELSE On(g[k - 1])]
<1>2. N \in Nat /\ N + 1 \in Nat
  BY Places
<1>3. c \in G
  OBVIOUS
<1>4. ASSUME NEW v \in G
      PROVE  /\ On(v) \in G
             /\ On(v).stop \/ (On(v).node \in R /\ (v.node \in R => f[v.node] < f[On(v).node]))
  <2>1. CASE v.stop
    BY <2>1
  <2>2. CASE ~v.stop
    <3>1. PICK w2 : w2 = Down(t, x, q, v)
      OBVIOUS
    <3>2. w2 \in G /\ (w2.stop \/ (w2.node \in R /\ (v.node \in R => f[v.node] < f[w2.node])))
      BY <1>1, <2>2, <3>1, DownWalks
    <3> QED
      BY <2>2, <3>1, <3>2
  <2> QED
    BY <2>1, <2>2
<1>5. step \in [1..(N + 1) -> [G -> G]]
  BY <1>4
<1>6. \A v \in G, k \in 1..(N + 1) : step[k][v] = On(v)
  OBVIOUS
<1>7. Descend(t, x, q) = walk[N + 1]
  BY DEF Descend, Start, Down
<1>8. \A v \in G : v.stop => On(v) = v
  OBVIOUS
<1> HIDE DEF On, step, c
<1>9. PICK g : Iterates(g, N + 1, G, c, step)
  BY <1>2, <1>3, <1>5, Recursion
<1>10. g = [k \in 0..(N + 1) |-> IF k = 0 THEN c ELSE On(g[k - 1])]
  <2>1. ASSUME NEW k \in 0..(N + 1) PROVE g[k] = IF k = 0 THEN c ELSE On(g[k - 1])
    <3>1. k = 0 \/ (k \in 1..(N + 1) /\ k - 1 \in 0..(N + 1))
      BY <1>2
    <3>2. ASSUME k \in 1..(N + 1) PROVE g[k] = On(g[k - 1])
      <4>1. g[k - 1] \in G
        BY <1>2, <1>9, <3>2 DEF Iterates
      <4> QED
        BY <1>6, <1>9, <3>2, <4>1 DEF Iterates
    <3> QED
      BY <1>2, <1>9, <3>1, <3>2 DEF Iterates
  <2> QED
    BY <1>9, <2>1 DEF Iterates
<1>11. walk = [k \in 0..(N + 1) |-> IF k = 0 THEN c ELSE On(walk[k - 1])]
  BY <1>10
<1> HIDE DEF walk
<1>12. walk[0] = c /\ \A k \in 0..N : walk[k + 1] = On(walk[k])
  <2>1. \A k \in 0..N : k + 1 \in 0..(N + 1) /\ k + 1 # 0 /\ (k + 1) - 1 = k
    BY <1>2
  <2> QED
    BY <1>2, <1>11, <2>1
<1>13. \A k \in 0..(N + 1) : walk[k] \in G
  <2> DEFINE P == {k \in 0..(N + 1) : walk[k] \in G}
  <2>1. 0 \in P
    BY <1>2, <1>3, <1>12
  <2>2. ASSUME NEW k \in 0..((N + 1) - 1), k \in P PROVE k + 1 \in P
    BY <1>2, <1>4, <1>12, <2>2
  <2> HIDE DEF P
  <2>3. 0..(N + 1) \subseteq P
    BY <1>2, <2>1, <2>2, Upward
  <2> QED
    BY <2>3 DEF P
<1>14. /\ \A y \in R : Under(R, f, y) \in 0..(N - 1)
       /\ \A y \in R, z \in R : f[y] < f[z] => Under(R, f, z) < Under(R, f, y)
  <2>1. R \in SUBSET Place /\ f \in [Place -> Nat]
    BY <1>1, TreeFields DEF Sound, Ranked
  <2> QED
    BY <2>1, Deeper
<1>15. walk[N + 1].stop
  <2> DEFINE P == {k \in 0..(N + 1) : \/ k = 0 \/ walk[k].stop
                                      \/ walk[k].node \in R /\ Under(R, f, walk[k].node) <= N - k}
  <2>1. 0 \in P
    BY <1>2
  <2>2. ASSUME NEW k \in 0..((N + 1) - 1), k \in P PROVE k + 1 \in P
    <3>1. k + 1 \in 0..(N + 1) /\ k \in 0..N /\ k \in 0..(N + 1)
      BY <1>2
    <3>2. PICK v, v2 : v = walk[k] /\ v \in G /\ v2 = walk[k + 1] /\ v2 = On(v)
      BY <1>12, <1>13, <3>1
    <3>3. CASE v2.stop
      BY <3>1, <3>2, <3>3
    <3>4. CASE ~v2.stop
      <4>1. v2.node \in R /\ (v.node \in R => f[v.node] < f[v2.node]) /\ ~v.stop
        BY <1>4, <1>8, <3>2, <3>4
      <4>2. Under(R, f, v2.node) \in 0..(N - 1)
        BY <1>14, <4>1
      <4>3. CASE k = 0
        <5>1. Under(R, f, v2.node) <= N - (k + 1)
          BY <1>2, <4>2, <4>3
        <5> QED
          BY <3>1, <3>2, <4>1, <5>1
      <4>4. CASE k # 0
        <5>1. v.node \in R /\ Under(R, f, v.node) <= N - k
          BY <2>2, <3>2, <4>1, <4>4
        <5>2. Under(R, f, v2.node) < Under(R, f, v.node) /\ Under(R, f, v.node) \in 0..(N - 1)
          BY <1>14, <4>1, <5>1
        <5>3. Under(R, f, v2.node) <= N - (k + 1)
          BY <1>2, <4>2, <5>1, <5>2
        <5> QED
          BY <3>1, <3>2, <4>1, <5>3
      <4> QED
        BY <4>3, <4>4
    <3> QED
      BY <3>3, <3>4
  <2> HIDE DEF P
  <2>3. 0..(N + 1) \subseteq P
    BY <1>2, <2>1, <2>2, Upward
  <2>4. N + 1 \in P /\ N + 1 # 0
    BY <1>2, <2>3
  <2>5. ASSUME walk[N + 1].node \in R PROVE ~(Under(R, f, walk[N + 1].node) <= N - (N + 1))
    <3>1. Under(R, f, walk[N + 1].node) \in 0..(N - 1)
      BY <1>14, <2>5
    <3> QED
      BY <1>2, <3>1
  <2> QED
    BY <2>4, <2>5 DEF P
<1>16. walk[N + 1] \in G
  BY <1>2, <1>13
<1> QED
  BY <1>7, <1>15, <1>16

\* The descent ends in a state that Walk describes.
LEMMA DescendIs ==
    ASSUME NEW t, NEW x \in Text, Sound(t, x), NEW q \in Place
    PROVE  Descend(t, x, q) \in Walk(t, x, q) /\ Descend(t, x, q).stop
<1>1. ASSUME NEW v \in Walk(t, x, q), ~v.stop PROVE Down(t, x, q, v) \in Walk(t, x, q)
  <2>1. PICK f : Ranked(Reg(t), t.up, f)
    BY DEF Sound
  <2> QED
    BY <1>1, <2>1, DownWalks
<1> QED
  BY <1>1, StartWalks, DescendIn

\* InsertNode adds a string, perhaps in the place of an equal one, and returns a
\* place whose string shares the first bytes with it.
LEMMA Inserted ==
    ASSUME NEW t, NEW x \in Text, Sound(t, x), NEW q \in Place, q \notin Reg(t)
    PROVE  \A found : found = InsertNode(t, x, q) =>
           /\ Sound(found.tree, x) /\ Reg(found.tree) \subseteq Reg(t) \cup {q}
           /\ found.length \in 0..F /\ found.position \in Place
           /\ found.length > 0 =>
                 /\ found.position \in Reg(t)
                 /\ \A i \in 0..(found.length - 1) : x[q + i] = x[found.position + i]
<1>1. PICK v : v = Descend(t, x, q) /\ v \in Walk(t, x, q) /\ v.stop
  BY DescendIs
<1>2. /\ v.node \in Reg(t) \cup Roots /\ v.side \in Int /\ v.length \in 0..F /\ v.position \in Place
      /\ IF v.node \in Roots THEN v.node = Root(x[q]) /\ v.side >= 0 ELSE x[v.node] = x[q]
      /\ v.length > 0 => /\ v.position \in Reg(t) /\ x[v.position] = x[q]
                         /\ Common(x, q, v.position) = v.length
      /\ v.length = F => v.node = v.position
      /\ v.length = F \/ Child(t, v.node, v.side) = Nil
  BY <1>1 DEF Walk
<1>3. PICK a : a = IF v.length = F THEN Replace(t, q, v.node) ELSE Attach(t, q, v)
  OBVIOUS
<1>4. InsertNode(t, x, q) = [tree |-> a, length |-> v.length, position |-> v.position]
  BY <1>1, <1>3 DEF InsertNode
<1>5. Sound(a, x) /\ Reg(a) \subseteq Reg(t) \cup {q}
  <2>1. CASE v.length = F
    <3>1. v.node \in Reg(t) /\ x[q] = x[v.node]
      BY <1>2, <2>1, Places
    <3>2. Sound(Replace(t, q, v.node), x) /\ Reg(Replace(t, q, v.node)) = (Reg(t) \ {v.node}) \cup {q}
      BY <3>1, Replaced
    <3> QED
      BY <1>3, <2>1, <3>2
  <2>2. CASE v.length # F
    <3>1. PICK n, side : n = v.node /\ side = v.side
      OBVIOUS
    <3>2. /\ n \in Reg(t) \cup Roots /\ side \in Int /\ Child(t, n, side) = Nil
          /\ IF n \in Roots THEN n = Root(x[q]) /\ side >= 0 ELSE x[n] = x[q]
      BY <1>2, <2>2, <3>1
    <3>3. Sound(Attach(t, q, v), x) /\ Reg(Attach(t, q, v)) = Reg(t) \cup {q}
      BY <3>1, <3>2, Attached
    <3> QED
      BY <1>3, <2>2, <3>3
  <2> QED
    BY <2>1, <2>2
<1>6. v.length > 0 => \A i \in 0..(v.length - 1) : x[q + i] = x[v.position + i]
  <2>1. SUFFICES ASSUME v.length > 0
                 PROVE  \A i \in 0..(v.length - 1) : x[q + i] = x[v.position + i]
    OBVIOUS
  <2>2. PICK p : p = v.position /\ p \in Int /\ q \in Int /\ x[q] = x[p] /\ Common(x, q, p) = v.length
    BY <1>2, <2>1 DEF Place
  <2>3. \A i \in 0..(Common(x, q, p) - 1) : x[q + i] = x[p + i]
    BY <2>2, CommonIs
  <2> QED
    BY <2>2, <2>3
<1> QED
  BY <1>2, <1>4, <1>5, <1>6

-----------------------------------------------------------------------------
(* The order of strings. *)

\* At the first byte that differs, a has the smaller one.
Less(x, a, b) ==
    \E i \in 0..(F - 1) : (\A j \in 0..(i - 1) : x[a + j] = x[b + j]) /\ x[a + i] < x[b + i]

\* Two strings share their first k bytes.
Shared(x, a, b, k) == \A j \in 0..(k - 1) : x[a + j] = x[b + j]

\* The bytes of a string are bytes.
LEMMA StringBytes ==
    ASSUME NEW x \in Text, NEW a \in Place
    PROVE  \A j \in 0..(F - 1) : x[a + j] \in Byte /\ x[a + j] \in Int
<1>1. \A j \in 0..(F - 1) : a + j \in 0..(N + F - 2)
  BY Places DEF Place
<1>2. \A j \in 0..(N + F - 2) : x[j] \in Byte
  BY DEF Text
<1>3. \A c \in Byte : c \in Int
  BY LzssTreeAssumption
<1> QED
  BY <1>1, <1>2, <1>3

\* Which string is the smaller is seen at the first byte that differs.
LEMMA LessAt ==
    ASSUME NEW x \in Text, NEW a \in Place, NEW b \in Place, NEW k \in 0..(F - 1), Shared(x, a, b, k), x[a + k] # x[b + k]
    PROVE  Less(x, a, b) <=> x[a + k] < x[b + k]
<1>1. F \in Nat /\ \A j \in 0..(F - 1) : x[a + j] \in Int /\ x[b + j] \in Int
  BY StringBytes, Places
<1>2. ASSUME x[a + k] < x[b + k] PROVE Less(x, a, b)
  BY <1>2 DEF Less, Shared
<1>3. ASSUME Less(x, a, b) PROVE x[a + k] < x[b + k]
  <2>1. PICK i \in 0..(F - 1) : (\A j \in 0..(i - 1) : x[a + j] = x[b + j]) /\ x[a + i] < x[b + i]
    BY <1>3 DEF Less
  <2>2. ~(i < k)
    <3>1. i < k => i \in 0..(k - 1)
      BY <1>1
    <3>2. i \in 0..(k - 1) => x[a + i] = x[b + i]
      BY DEF Shared
    <3> QED
      BY <1>1, <2>1, <3>1, <3>2
  <2>3. ~(k < i)
    <3>1. k < i => k \in 0..(i - 1)
      BY <1>1
    <3> QED
      BY <2>1, <3>1
  <2>4. i = k
    BY <1>1, <2>2, <2>3
  <2> QED
    BY <2>1, <2>4
<1> QED
  BY <1>2, <1>3

\* No string is less than itself, nor is one between two in the wrong order.
LEMMA LessOrder ==
    ASSUME NEW x \in Text, NEW a \in Place, NEW b \in Place, NEW c \in Place
    PROVE  ~Less(x, a, a) /\ (Less(x, a, b) /\ Less(x, b, c) => Less(x, a, c))
<1>1. F \in Nat /\ \A j \in 0..(F - 1) : x[a + j] \in Int /\ x[b + j] \in Int /\ x[c + j] \in Int
  BY StringBytes, Places
<1>2. ~Less(x, a, a)
  BY <1>1 DEF Less
<1>3. ASSUME Less(x, a, b), Less(x, b, c) PROVE Less(x, a, c)
  <2>1. PICK i \in 0..(F - 1) : (\A j \in 0..(i - 1) : x[a + j] = x[b + j]) /\ x[a + i] < x[b + i]
    BY <1>3 DEF Less
  <2>2. PICK k \in 0..(F - 1) : (\A j \in 0..(k - 1) : x[b + j] = x[c + j]) /\ x[b + k] < x[c + k]
    BY <1>3 DEF Less
  <2>3. CASE i < k
    <3>1. i \in 0..(k - 1) /\ \A j \in 0..(i - 1) : j \in 0..(k - 1)
      BY <1>1, <2>3
    <3>2. x[b + i] = x[c + i] /\ \A j \in 0..(i - 1) : x[a + j] = x[c + j]
      BY <2>1, <2>2, <3>1
    <3>3. x[a + i] < x[c + i]
      BY <2>1, <3>2
    <3> QED
      BY <3>2, <3>3 DEF Less
  <2>4. CASE k < i
    <3>1. k \in 0..(i - 1) /\ \A j \in 0..(k - 1) : j \in 0..(i - 1)
      BY <1>1, <2>4
    <3>2. x[a + k] = x[b + k] /\ \A j \in 0..(k - 1) : x[a + j] = x[c + j]
      BY <2>1, <2>2, <3>1
    <3>3. x[a + k] < x[c + k]
      BY <2>2, <3>2
    <3> QED
      BY <3>2, <3>3 DEF Less
  <2>5. CASE i = k
    <3>1. \A j \in 0..(i - 1) : x[a + j] = x[c + j]
      BY <2>1, <2>2, <2>5
    <3>2. x[a + i] < x[c + i]
      BY <1>1, <2>1, <2>2, <2>5
    <3> QED
      BY <3>1, <3>2 DEF Less
  <2>6. i < k \/ k < i \/ i = k
    BY <1>1
  <2> QED
    BY <2>3, <2>4, <2>5, <2>6
<1> QED
  BY <1>2, <1>3

\* The number of bytes that two strings share, and the byte after them.
LEMMA CommonShared ==
    ASSUME NEW x, NEW a \in Place, NEW b \in Place, x[a] = x[b], NEW k, k = Common(x, a, b)
    PROVE  /\ k \in 1..F /\ Shared(x, a, b, k) /\ (k # F => k \in 0..(F - 1) /\ x[a + k] # x[b + k])
           /\ \A i \in 0..F : Shared(x, a, b, i) => i <= k
<1> DEFINE S == {i \in 1..(F - 1) : x[a + i] # x[b + i]} \cup {F}
<1>1. k \in 1..F /\ Shared(x, a, b, k) /\ F \in Nat
  BY CommonIs, Places DEF Shared, Place
<1>2. S \in SUBSET Nat /\ S # {}
  BY Places
<1>3. k = Min(S)
  BY DEF Common
<1>4. \A i \in S : i = F \/ x[a + i] # x[b + i]
  OBVIOUS
<1> HIDE DEF S
<1>5. k \in S
  BY <1>2, <1>3, MinIn
<1>6. k # F => k \in 0..(F - 1) /\ x[a + k] # x[b + k]
  BY <1>1, <1>4, <1>5
<1>7. ASSUME NEW i \in 0..F, Shared(x, a, b, i) PROVE i <= k
  <2>1. k < i => k \in 0..(i - 1) /\ k # F
    BY <1>1
  <2>2. k \in 0..(i - 1) => x[a + k] = x[b + k]
    BY <1>7 DEF Shared
  <2> QED
    BY <1>1, <1>6, <2>1, <2>2
<1> QED
  BY <1>1, <1>6, <1>7

\* Compare and the order.
LEMMA CompareLess ==
    ASSUME NEW x \in Text, NEW a \in Place, NEW b \in Place, x[a] = x[b]
    PROVE  /\ Compare(x, a, b) \in Int
           /\ Compare(x, a, b) < 0 <=> Less(x, a, b)
           /\ Compare(x, a, b) > 0 <=> Less(x, b, a)
           /\ Common(x, a, b) # F => Less(x, a, b) \/ Less(x, b, a)
<1>1. PICK k : k = Common(x, a, b)
  OBVIOUS
<1>2. /\ k \in 1..F /\ Shared(x, a, b, k) /\ (k # F => k \in 0..(F - 1) /\ x[a + k] # x[b + k])
  BY <1>1, CommonShared
<1>3. F \in Nat /\ \A j \in 0..(F - 1) : x[a + j] \in Int /\ x[b + j] \in Int
  BY StringBytes, Places
<1>4. Shared(x, b, a, k)
  BY <1>2 DEF Shared
<1>5. CASE k = F
  <2>1. Compare(x, a, b) = 0
    BY <1>1, <1>5 DEF Compare
  <2>2. \A i \in 0..(F - 1) : x[a + i] = x[b + i]
    BY <1>2, <1>5 DEF Shared
  <2>3. ~Less(x, a, b) /\ ~Less(x, b, a)
    BY <1>3, <2>2 DEF Less
  <2> QED
    BY <1>1, <1>5, <2>1, <2>3
<1>6. CASE k # F
  <2>1. Compare(x, a, b) = x[a + k] - x[b + k]
    BY <1>1, <1>6 DEF Compare
  <2>2. k \in 0..(F - 1) /\ x[a + k] # x[b + k] /\ x[a + k] \in Int /\ x[b + k] \in Int
    BY <1>2, <1>3, <1>6
  <2>3. Less(x, a, b) <=> x[a + k] < x[b + k]
    BY <1>2, <2>2, LessAt
  <2>4. Less(x, b, a) <=> x[b + k] < x[a + k]
    BY <1>4, <2>2, LessAt
  <2> QED
    BY <2>1, <2>2, <2>3, <2>4
<1> QED
  BY <1>5, <1>6

\* Of three strings in order the first and the last share no more than the first two.
LEMMA Between ==
    ASSUME NEW x \in Text, NEW q \in Place, NEW p \in Place, NEW y \in Place, x[q] = x[p], x[q] = x[y],
           (Less(x, q, p) /\ Less(x, p, y)) \/ (Less(x, y, p) /\ Less(x, p, q))
    PROVE  Common(x, q, y) <= Common(x, q, p)
<1>1. PICK k, i : k = Common(x, q, p) /\ i = Common(x, q, y)
  OBVIOUS
<1>2. k \in 1..F /\ Shared(x, q, p, k)
  BY <1>1, CommonShared
<1>6. k # F => k \in 0..(F - 1) /\ x[q + k] # x[p + k]
  BY <1>1, CommonShared, ZenonT(30)
<1>3. i \in 1..F /\ Shared(x, q, y, i)
  BY <1>1, CommonShared
<1>4. F \in Nat /\ \A j \in 0..(F - 1) : x[q + j] \in Int /\ x[p + j] \in Int /\ x[y + j] \in Int
  BY StringBytes, Places
<1>5. ASSUME k < i PROVE FALSE
  <2>1. k # F /\ k \in 0..(F - 1) /\ x[q + k] # x[p + k] /\ k \in 0..(i - 1) /\ \A j \in 0..(k - 1) : j \in 0..(i - 1)
    BY <1>2, <1>3, <1>4, <1>5, <1>6
  <2>2. x[q + k] = x[y + k] /\ \A j \in 0..(k - 1) : x[q + j] = x[y + j]
    BY <1>3, <2>1 DEF Shared
  <2>3. Shared(x, p, y, k) /\ Shared(x, y, p, k) /\ Shared(x, p, q, k) /\ x[p + k] # x[y + k]
    BY <1>2, <2>1, <2>2 DEF Shared
  <2>4. (Less(x, q, p) <=> x[q + k] < x[p + k]) /\ (Less(x, p, q) <=> x[p + k] < x[q + k])
    BY <1>2, <2>1, <2>3, LessAt
  <2>5. (Less(x, p, y) <=> x[p + k] < x[y + k]) /\ (Less(x, y, p) <=> x[y + k] < x[p + k])
    BY <2>1, <2>3, LessAt
  <2> QED
    BY <1>4, <2>1, <2>2, <2>4, <2>5
<1> QED
  BY <1>1, <1>2, <1>3, <1>4, <1>5

\* Strings with the same bytes have the same place in the order.
LEMMA LessSame ==
    ASSUME NEW x, NEW x2, NEW a, NEW b, NEW a2, NEW b2,
           \A j \in 0..(F - 1) : x[a + j] = x2[a2 + j], \A j \in 0..(F - 1) : x[b + j] = x2[b2 + j]
    PROVE  Less(x, a, b) <=> Less(x2, a2, b2)
<1>1. F \in Nat
  BY Places
<1>2. \A i \in 0..(F - 1) : \A j \in 0..(i - 1) : j \in 0..(F - 1)
  BY <1>1
<1> QED
  BY <1>2 DEF Less

-----------------------------------------------------------------------------
(* The order of the trees.  D[p] is p and what is below it; L is the order. *)

\* What is below a child, or nothing.
Sub(D, c) == IF c = Nil THEN {} ELSE D[c]

\* What is to the left of a place comes before it, what is to the right after it.
Nested(R, l, m, u, L, D) ==
    /\ D \in [R -> SUBSET R]
    /\ \A p \in R : D[p] = {p} \cup Sub(D, l[p]) \cup Sub(D, m[p])
    /\ \A p \in R : \A y \in Sub(D, l[p]) : <<y, p>> \in L
    /\ \A p \in R : \A y \in Sub(D, m[p]) : <<p, y>> \in L
    /\ \A p \in R : \A y \in D[p] : D[y] \subseteq D[p] /\ (y = p \/ u[y] \in D[p])

\* Below a root are all strings that begin with its byte.
Covers(R, m, x, D) == \A c \in Byte : Sub(D, m[Root(c)]) = {p \in R : x[p] = c}

\* The trees are in order, and each holds the strings of its byte.
InOrder(R, l, m, u, L, x) == \E D : Nested(R, l, m, u, L, D) /\ Covers(R, m, x, D)

\* A forest in order.
Trees(R, l, m, u, L, D, x) == Forest(R, l, m, u) /\ Nested(R, l, m, u, L, D) /\ Covers(R, m, x, D)

\* What is below the places other than p, once p is in no tree.
Without(R, D, p) == [y \in R \ {p} |-> D[y] \ {p}]

\* A string goes where the order wants it: below n, on the left or not.
Belongs(R, l, m, L, D, q, n, atLeft) ==
    /\ IF atLeft THEN <<q, n>> \in L ELSE <<n, q>> \in L
    /\ \A z \in R : n \in Sub(D, l[z]) => <<q, z>> \in L
    /\ \A z \in R : n \in Sub(D, m[z]) => <<z, q>> \in L

\* There is room for q below n, and it belongs there.
Room(R, l, m, L, D, x, q, n, atLeft) ==
    /\ n \in R \cup Roots /\ IF atLeft THEN l[n] = Nil ELSE m[n] = Nil
    /\ n \in Roots => ~atLeft /\ n = Root(x[q])
    /\ n \in R => x[n] = x[q] /\ Belongs(R, l, m, L, D, q, n, atLeft)

\* The links once q is a leaf below n.
Grafted(l, m, u, q, n, atLeft, l2, m2, u2) ==
    /\ \A p \in Place : u2[p] = IF p = q THEN n ELSE u[p]
    /\ \A p \in Place : l2[p] = IF p = q THEN Nil ELSE IF p = n /\ atLeft THEN q ELSE l[p]
    /\ \A p \in Place \cup Roots : m2[p] = IF p = q THEN Nil ELSE IF p = n /\ ~atLeft THEN q ELSE m[p]

\* A string can be where p is: it comes before and after the same ones.
Succeeds(R, l, m, L, D, p, q) ==
    /\ \A y \in Sub(D, l[p]) : <<y, q>> \in L
    /\ \A y \in Sub(D, m[p]) : <<q, y>> \in L
    /\ \A z \in R : /\ p \in Sub(D, l[z]) => <<q, z>> \in L
                    /\ p \in Sub(D, m[z]) => <<z, q>> \in L

\* A new leaf keeps the order.
LEMMA NestedWithLeaf ==
    ASSUME NEW R \in SUBSET Place, NEW l, NEW m, NEW u, NEW l2, NEW m2, NEW u2, NEW L, NEW D, NEW x,
           Trees(R, l, m, u, L, D, x), NEW q \in Place \ R, x[q] \in Byte, \A p \in R : <<p, p>> \notin L,
           NEW n, NEW atLeft \in BOOLEAN, Room(R, l, m, L, D, x, q, n, atLeft),
           Grafted(l, m, u, q, n, atLeft, l2, m2, u2)
    PROVE  InOrder(R \cup {q}, l2, m2, u2, L, x)
<1> DEFINE Grown(S) == IF n \in S THEN S \cup {q} ELSE S
<1>1. /\ n # q /\ q # Nil /\ Nil \notin R /\ q \notin Roots /\ R \cap Roots = {} /\ q \notin R
      /\ n \in Place \cup Roots /\ n \in R \cup Roots /\ \A p \in R : p \in Place /\ p # q /\ p # Nil /\ p \in Place \cup Roots
  BY Places DEF Room
<1>2. PICK E : E = [y \in R \cup {q} |-> IF y = q THEN {q} ELSE Grown(D[y])]
  OBVIOUS
<1>3. /\ D \in [R -> SUBSET R]
      /\ \A p \in R : D[p] = {p} \cup Sub(D, l[p]) \cup Sub(D, m[p])
      /\ \A p \in R : \A y \in Sub(D, l[p]) : <<y, p>> \in L
      /\ \A p \in R : \A y \in Sub(D, m[p]) : <<p, y>> \in L
      /\ \A p \in R : \A y \in D[p] : D[y] \subseteq D[p] /\ (y = p \/ u[y] \in D[p])
  BY DEF Trees, Nested
<1>4. E[q] = {q} /\ \A y \in R : E[y] = Grown(D[y])
  BY <1>1, <1>2
<1>5. \A c \in R \cup {Nil} : Sub(E, c) = Grown(Sub(D, c))
  BY <1>1, <1>4 DEF Sub
<1>6. Sub(E, q) = {q} /\ Sub(E, Nil) = {} /\ Sub(D, Nil) = {}
  BY <1>1, <1>4 DEF Sub
<1>7. \A p \in R : l[p] \in R \cup {Nil} /\ m[p] \in R \cup {Nil}
  BY DEF Trees, Forest
<1>8. \A c \in Roots : m[c] \in R \cup {Nil}
  BY DEF Trees, Forest
<1>9. \A S : S \subseteq Grown(S) /\ Grown(S) \subseteq S \cup {q} /\ (q \in Grown(S) => q \in S \/ n \in S)
  OBVIOUS
<1>10. E \in [R \cup {q} -> SUBSET (R \cup {q})]
  <2>1. \A y \in R : Grown(D[y]) \in SUBSET (R \cup {q})
    BY <1>3
  <2> HIDE DEF Grown
  <2> QED
    BY <1>2, <2>1
<1>11. /\ l2[q] = Nil /\ m2[q] = Nil /\ u2[q] = n
       /\ \A y \in R : y # n => l2[y] = l[y] /\ m2[y] = m[y] /\ u2[y] = u[y]
       /\ \A y \in R : u2[y] = u[y]
  BY <1>1 DEF Grafted
<1>12. ASSUME n \in R
       PROVE  /\ n \notin Sub(D, l[n]) /\ n \notin Sub(D, m[n])
              /\ IF atLeft THEN l2[n] = q /\ l[n] = Nil /\ m2[n] = m[n] ELSE m2[n] = q /\ m[n] = Nil /\ l2[n] = l[n]
              /\ n \in D[n] /\ x[n] = x[q] /\ n \notin Roots
  BY <1>1, <1>3, <1>12 DEF Room, Grafted
<1>13. ASSUME NEW y \in R \cup {q}
       PROVE  /\ E[y] = {y} \cup Sub(E, l2[y]) \cup Sub(E, m2[y])
              /\ \A z \in Sub(E, l2[y]) : <<z, y>> \in L
              /\ \A z \in Sub(E, m2[y]) : <<y, z>> \in L
  <2>1. CASE y = q
    BY <1>4, <1>6, <1>11, <2>1
  <2>2. CASE y # q /\ y # n
    <3>1. y \in R /\ l2[y] = l[y] /\ m2[y] = m[y]
      BY <1>11, <2>2
    <3>2. Sub(E, l2[y]) = Grown(Sub(D, l[y])) /\ Sub(E, m2[y]) = Grown(Sub(D, m[y]))
      BY <1>5, <1>7, <3>1
    <3>3. E[y] = Grown(D[y]) /\ D[y] = {y} \cup Sub(D, l[y]) \cup Sub(D, m[y])
      BY <1>3, <1>4, <3>1
    <3>4. n \in Sub(D, l[y]) => n \in R
      BY <1>3, <3>1, <3>3
    <3>5. n \in Sub(D, m[y]) => n \in R
      BY <1>3, <3>1, <3>3
    <3>6. (n \in Sub(D, l[y]) => <<q, y>> \in L) /\ (n \in Sub(D, m[y]) => <<y, q>> \in L)
      BY <3>1, <3>4, <3>5 DEF Room, Belongs
    <3> QED
      BY <1>3, <2>2, <3>1, <3>2, <3>3, <3>6
  <2>3. CASE y = n
    <3>1. y \in R /\ E[y] = D[y] \cup {q} /\ D[y] = {y} \cup Sub(D, l[y]) \cup Sub(D, m[y])
      BY <1>1, <1>3, <1>4, <1>12, <2>3
    <3>2. IF atLeft THEN <<q, n>> \in L ELSE <<n, q>> \in L
      BY <2>3, <3>1 DEF Room, Belongs
    <3>3. CASE atLeft
      <4>1. Sub(E, l2[y]) = {q} /\ Sub(D, l[y]) = {} /\ Sub(E, m2[y]) = Sub(D, m[y])
        BY <1>5, <1>6, <1>7, <1>12, <2>3, <3>1, <3>3
      <4> QED
        BY <1>3, <2>3, <3>1, <3>2, <3>3, <4>1
    <3>4. CASE ~atLeft
      <4>1. Sub(E, m2[y]) = {q} /\ Sub(D, m[y]) = {} /\ Sub(E, l2[y]) = Sub(D, l[y])
        BY <1>5, <1>6, <1>7, <1>12, <2>3, <3>1, <3>4
      <4> QED
        BY <1>3, <2>3, <3>1, <3>2, <3>4, <4>1
    <3> QED
      BY <3>3, <3>4
  <2> QED
    BY <2>1, <2>2, <2>3
<1>14. ASSUME NEW p \in R \cup {q}, NEW y \in E[p]
       PROVE  E[y] \subseteq E[p] /\ (y = p \/ u2[y] \in E[p])
  <2>1. CASE p = q
    BY <1>4, <1>14, <2>1
  <2>2. CASE p # q /\ y = q
    <3>1. p \in R /\ E[p] = Grown(D[p]) /\ q \notin D[p]
      BY <1>1, <1>3, <1>4, <2>2
    <3>2. n \in D[p]
      BY <1>9, <1>14, <2>2, <3>1
    <3> QED
      BY <1>4, <1>11, <1>14, <2>2, <3>1, <3>2
  <2>3. CASE p # q /\ y # q
    <3>1. p \in R /\ E[p] = Grown(D[p])
      BY <1>4, <2>3
    <3>2. y \in D[p] /\ y \in R
      BY <1>3, <1>9, <1>14, <2>3, <3>1
    <3>3. D[y] \subseteq D[p] /\ (y = p \/ u[y] \in D[p]) /\ E[y] = Grown(D[y]) /\ u2[y] = u[y]
      BY <1>3, <1>4, <1>11, <3>1, <3>2
    <3> QED
      BY <1>9, <3>1, <3>3
  <2> QED
    BY <2>1, <2>2, <2>3
<1>15. Covers(R \cup {q}, m2, x, E)
  <2> SUFFICES ASSUME NEW c \in Byte PROVE Sub(E, m2[Root(c)]) = {p \in R \cup {q} : x[p] = c}
    BY DEF Covers
  <2>1. Root(c) \in Roots /\ Root(c) # q /\ Root(c) \notin R /\ Sub(D, m[Root(c)]) = {p \in R : x[p] = c}
    <3>1. Root(c) \in Roots
      BY Places
    <3>2. Sub(D, m[Root(c)]) = {p \in R : x[p] = c}
      BY DEF Trees, Covers
    <3> QED
      BY <1>1, <3>1, <3>2
  <2>2. CASE n = Root(c)
    <3>1. x[q] = c /\ ~atLeft /\ m[n] = Nil
      BY <2>1, <2>2, Places DEF Room
    <3>2. m2[n] = q /\ {p \in R : x[p] = c} = {}
      BY <1>1, <1>6, <2>1, <2>2, <3>1 DEF Grafted
    <3> QED
      BY <1>6, <2>2, <3>1, <3>2
  <2>3. CASE n # Root(c)
    <3>1. m2[Root(c)] = m[Root(c)]
      BY <2>1, <2>3 DEF Grafted
    <3>2. Sub(E, m2[Root(c)]) = Grown({p \in R : x[p] = c})
      BY <1>5, <1>8, <2>1, <3>1
    <3>3. n \in {p \in R : x[p] = c} <=> x[q] = c
      BY <1>1, <1>12, <2>3 DEF Room
    <3> QED
      BY <1>1, <3>2, <3>3
  <2> QED
    BY <2>2, <2>3
<1> HIDE DEF Grown
<1> QED
  BY <1>10, <1>13, <1>14, <1>15 DEF Nested, InOrder

\* Without a place that gives way to its only child, the rest is in order.
LEMMA NestedSpliced ==
    ASSUME NEW R \in SUBSET Place, NEW l, NEW m, NEW u, NEW l2, NEW m2, NEW u2, NEW L, NEW D, NEW x,
           Trees(R, l, m, u, L, D, x), NEW p \in R, <<p, p>> \notin L, u[p] # p, NEW q,
           (q = l[p] /\ m[p] = Nil) \/ (q = m[p] /\ l[p] = Nil),
           GivesWay(R, l, m, u, p, q, l2, m2, u2)
    PROVE  /\ Nested(R \ {p}, l2, m2, u2, L, Without(R, D, p))
           /\ Covers(R \ {p}, m2, x, Without(R, D, p))
<1>1. PICK E : E = Without(R, D, p)
  OBVIOUS
<1>2. Forest(R, l, m, u) /\ Covers(R, m, x, D)
  BY DEF Trees
<1>3. /\ Nil \notin R /\ R \cap Roots = {} /\ p # Nil /\ p \notin Roots
      /\ q \in R \cup {Nil}
  BY <1>2, Places DEF Forest
<1>4. /\ D \in [R -> SUBSET R]
      /\ \A y \in R : D[y] = {y} \cup Sub(D, l[y]) \cup Sub(D, m[y])
      /\ \A y \in R : \A z \in Sub(D, l[y]) : <<z, y>> \in L
      /\ \A y \in R : \A z \in Sub(D, m[y]) : <<y, z>> \in L
      /\ \A y \in R : \A z \in D[y] : D[z] \subseteq D[y] /\ (z = y \/ u[z] \in D[y])
  BY DEF Trees, Nested
<1>5. \A y \in R \ {p} : E[y] = D[y] \ {p}
  BY <1>1 DEF Without
<1>6. Sub(D, Nil) = {} /\ Sub(E, Nil) = {}
  BY DEF Sub
<1>7. D[p] = {p} \cup Sub(D, q) /\ p \notin Sub(D, q)
  <2>1. p \notin Sub(D, l[p]) /\ p \notin Sub(D, m[p])
    BY <1>4
  <2> QED
    BY <1>4, <1>6, <2>1
<1>8. q # p
  <2>1. p \in D[p]
    BY <1>7
  <2> QED
    BY <1>3, <1>7, <2>1 DEF Sub
<1>9. \A c \in (R \cup {Nil}) \ {p} : Sub(E, c) = Sub(D, c) \ {p}
  BY <1>3, <1>5 DEF Sub
<1>10. \A c \in R \cup {Nil} : Sub(E, IF c = p THEN q ELSE c) = Sub(D, c) \ {p}
  <2>1. SUFFICES ASSUME NEW c \in R \cup {Nil} PROVE Sub(E, IF c = p THEN q ELSE c) = Sub(D, c) \ {p}
    OBVIOUS
  <2>2. CASE c = p
    <3>1. Sub(E, q) = Sub(D, q) \ {p} /\ Sub(D, c) = D[p]
      BY <1>3, <1>8, <1>9, <2>2 DEF Sub
    <3> QED
      BY <1>7, <2>2, <3>1
  <2>3. CASE c # p
    BY <1>9, <2>3
  <2> QED
    BY <2>2, <2>3
<1>11. \A y \in R : l[y] \in R \cup {Nil} /\ m[y] \in R \cup {Nil}
  BY <1>2 DEF Forest
<1>12. \A y \in R \ {p} : Sub(E, l2[y]) = Sub(D, l[y]) \ {p} /\ Sub(E, m2[y]) = Sub(D, m[y]) \ {p}
  <2>1. SUFFICES ASSUME NEW y \in R \ {p}
                 PROVE  Sub(E, l2[y]) = Sub(D, l[y]) \ {p} /\ Sub(E, m2[y]) = Sub(D, m[y]) \ {p}
    OBVIOUS
  <2>2. l2[y] = (IF l[y] = p THEN q ELSE l[y]) /\ m2[y] = (IF m[y] = p THEN q ELSE m[y])
    BY DEF GivesWay
  <2> QED
    BY <1>10, <1>11, <2>2
<1>13. E \in [R \ {p} -> SUBSET (R \ {p})]
  BY <1>4, <1>1 DEF Without
<1>14. ASSUME NEW y \in R \ {p}, NEW z \in E[y]
       PROVE  E[z] \subseteq E[y] /\ (z = y \/ u2[z] \in E[y])
  <2>1. z \in D[y] /\ z # p /\ z \in R \ {p} /\ E[z] = D[z] \ {p} /\ E[y] = D[y] \ {p}
    BY <1>4, <1>5, <1>14
  <2>2. D[z] \subseteq D[y] /\ (z = y \/ u[z] \in D[y])
    BY <1>4, <2>1
  <2>3. u2[z] = IF z = q THEN u[p] ELSE u[z]
    BY <2>1 DEF GivesWay
  <2>4. ASSUME z # y PROVE u2[z] \in E[y]
    <3>1. CASE z = q
      <4>1. u[z] = p
        BY <1>3, <1>2, <2>1, <3>1 DEF Forest
      <4>2. p \in D[y] /\ p # y
        BY <2>2, <2>4, <4>1
      <4>3. u[p] \in D[y]
        BY <1>4, <4>2
      <4> QED
        BY <2>1, <2>3, <3>1, <4>3
    <3>2. CASE z # q
      <4>1. u[z] # p
        <5>1. u[z] = p => z = l[p] \/ z = m[p]
          BY <1>3, <1>2, <2>1 DEF Forest
        <5>2. z # Nil
          BY <1>3, <2>1
        <5> QED
          BY <3>2, <5>1, <5>2
      <4> QED
        BY <2>1, <2>2, <2>3, <2>4, <3>2, <4>1
    <3> QED
      BY <3>1, <3>2
  <2> QED
    BY <2>1, <2>2, <2>4
<1>15. Nested(R \ {p}, l2, m2, u2, L, E)
  <2>1. \A y \in R \ {p} : E[y] = {y} \cup Sub(E, l2[y]) \cup Sub(E, m2[y])
    BY <1>4, <1>5, <1>12
  <2>2. \A y \in R \ {p} : \A z \in Sub(E, l2[y]) : <<z, y>> \in L
    BY <1>4, <1>12
  <2>3. \A y \in R \ {p} : \A z \in Sub(E, m2[y]) : <<y, z>> \in L
    BY <1>4, <1>12
  <2> QED
    BY <1>13, <1>14, <2>1, <2>2, <2>3 DEF Nested
<1>16. Covers(R \ {p}, m2, x, E)
  <2>1. SUFFICES ASSUME NEW c \in Byte PROVE Sub(E, m2[Root(c)]) = {y \in R \ {p} : x[y] = c}
    BY <1>2 DEF Covers
  <2>2. Root(c) \in Roots
    BY Places
  <2>3. m[Root(c)] \in R \cup {Nil} /\ m2[Root(c)] = IF m[Root(c)] = p THEN q ELSE m[Root(c)]
    BY <1>2, <2>2 DEF Forest, GivesWay
  <2>4. Sub(E, m2[Root(c)]) = Sub(D, m[Root(c)]) \ {p}
    BY <1>10, <2>3
  <2>5. Sub(D, m[Root(c)]) = {y \in R : x[y] = c}
    BY <1>2 DEF Covers
  <2> QED
    BY <2>4, <2>5
<1> QED
  BY <1>15, <1>16, <1>1

\* A place that takes over another's links is in order where the other was, if it
\* comes before and after what the other does.
LEMMA NestedMoved ==
    ASSUME NEW R \in SUBSET Place, NEW l, NEW m, NEW u, NEW l2, NEW m2, NEW u2, NEW L, NEW D, NEW x,
           Trees(R, l, m, u, L, D, x), NEW p \in R, <<p, p>> \notin L, NEW q \in Place \ R, x[q] = x[p],
           Succeeds(R, l, m, L, D, p, q),
           TakesOver(R, l, m, u, p, q, l2, m2, u2)
    PROVE  InOrder((R \ {p}) \cup {q}, l2, m2, u2, L, x)
<1> DEFINE Old(y) == IF y = q THEN p ELSE y
<1>1. PICK S : S = (R \ {p}) \cup {q}
  OBVIOUS
<1>2. PICK E : E = [y \in S |-> {z \in S : Old(z) \in D[Old(y)]}]
  OBVIOUS
<1>3. /\ Nil \notin R /\ R \cap Roots = {} /\ p # Nil /\ p \notin Roots /\ q # Nil /\ q \notin Roots /\ q \notin R /\ p # q
  BY Places
<1>4. /\ D \in [R -> SUBSET R]
      /\ \A y \in R : D[y] = {y} \cup Sub(D, l[y]) \cup Sub(D, m[y])
      /\ \A y \in R : \A z \in Sub(D, l[y]) : <<z, y>> \in L
      /\ \A y \in R : \A z \in Sub(D, m[y]) : <<y, z>> \in L
      /\ \A y \in R : \A z \in D[y] : D[z] \subseteq D[y] /\ (z = y \/ u[z] \in D[y])
  BY DEF Trees, Nested
<1>5. /\ \A y \in S : Old(y) \in R /\ (y # q => Old(y) = y /\ y \in R /\ y # p)
      /\ \A y \in S, z \in S : Old(y) = Old(z) => y = z
      /\ Old(q) = p /\ Old(Nil) = Nil /\ (\A c \in Roots : Old(c) = c)
      /\ q \in S /\ \A y \in R : y # p => y \in S /\ Old(y) = y
  BY <1>1, <1>3
<1>6. Sub(D, Nil) = {} /\ Sub(E, Nil) = {}
  BY DEF Sub
<1> HIDE DEF Old
<1>7. \A y \in S : E[y] = {z \in S : Old(z) \in D[Old(y)]}
  BY <1>2
<1>8. \A c \in S \cup {Nil} : Sub(E, c) = {z \in S : Old(z) \in Sub(D, Old(c))}
  <2>1. SUFFICES ASSUME NEW c \in S \cup {Nil} PROVE Sub(E, c) = {z \in S : Old(z) \in Sub(D, Old(c))}
    OBVIOUS
  <2>2. CASE c = Nil
    BY <1>5, <1>6, <2>2
  <2>3. CASE c # Nil
    <3>1. Old(c) # Nil /\ c \in S
      BY <1>3, <1>5, <2>3
    <3> QED
      BY <1>7, <2>3, <3>1 DEF Sub
  <2> QED
    BY <2>2, <2>3
<1>9. /\ \A y \in R : l[y] \in R \cup {Nil} /\ m[y] \in R \cup {Nil}
      /\ \A c \in Roots : m[c] \in R \cup {Nil}
  BY DEF Trees, Forest
<1>10. l[p] # p /\ m[p] # p
  <2>1. p \in D[p]
    BY <1>4
  <2>2. p \notin Sub(D, l[p]) /\ p \notin Sub(D, m[p])
    BY <1>4
  <2> QED
    BY <1>3, <2>1, <2>2 DEF Sub
<1>11. \A y \in S : l2[y] \in S \cup {Nil} /\ Old(l2[y]) = l[Old(y)] /\ m2[y] \in S \cup {Nil} /\ Old(m2[y]) = m[Old(y)]
  <2>1. SUFFICES ASSUME NEW y \in S
                 PROVE  l2[y] \in S \cup {Nil} /\ Old(l2[y]) = l[Old(y)] /\ m2[y] \in S \cup {Nil} /\ Old(m2[y]) = m[Old(y)]
    OBVIOUS
  <2>2. /\ l2[y] = IF y = q THEN l[p] ELSE IF l[y] = p THEN q ELSE l[y]
        /\ m2[y] = IF y = q THEN m[p] ELSE IF m[y] = p THEN q ELSE m[y]
    BY <1>1 DEF TakesOver
  <2>3. CASE y = q
    BY <1>3, <1>5, <1>9, <1>10, <2>2, <2>3
  <2>4. CASE y # q
    BY <1>3, <1>5, <1>9, <2>2, <2>4
  <2> QED
    BY <2>3, <2>4
<1>12. \A y \in S : /\ Sub(E, l2[y]) = {z \in S : Old(z) \in Sub(D, l[Old(y)])}
                    /\ Sub(E, m2[y]) = {z \in S : Old(z) \in Sub(D, m[Old(y)])}
  BY <1>8, <1>11
<1>13. E \in [S -> SUBSET S]
  BY <1>2
<1>14. ASSUME NEW y \in S
       PROVE  /\ E[y] = {y} \cup Sub(E, l2[y]) \cup Sub(E, m2[y])
              /\ \A z \in Sub(E, l2[y]) : <<z, y>> \in L
              /\ \A z \in Sub(E, m2[y]) : <<y, z>> \in L
  <2>1. Old(y) \in R /\ D[Old(y)] = {Old(y)} \cup Sub(D, l[Old(y)]) \cup Sub(D, m[Old(y)])
    BY <1>4, <1>5
  <2>2. E[y] = {y} \cup Sub(E, l2[y]) \cup Sub(E, m2[y])
    <3>1. \A z \in S : Old(z) = Old(y) <=> z = y
      BY <1>5
    <3> QED
      BY <1>7, <1>12, <2>1, <3>1
  <2>3. CASE y = q
    <3>1. Old(y) = p /\ p \notin Sub(D, l[p]) /\ p \notin Sub(D, m[p])
      BY <1>4, <1>5, <2>3
    <3>2. \A z \in S : Old(z) # p => Old(z) = z
      BY <1>5
    <3> QED
      BY <1>12, <2>2, <2>3, <3>1, <3>2 DEF Succeeds
  <2>4. CASE y # q
    <3>1. Old(y) = y /\ y \in R
      BY <1>5, <2>4
    <3>2. /\ \A z \in Sub(D, l[y]) : <<z, y>> \in L
          /\ \A z \in Sub(D, m[y]) : <<y, z>> \in L
          /\ p \in Sub(D, l[y]) => <<q, y>> \in L
          /\ p \in Sub(D, m[y]) => <<y, q>> \in L
      BY <1>4, <3>1 DEF Succeeds
    <3>3. \A z \in S : (z = q /\ Old(z) = p) \/ Old(z) = z
      BY <1>5
    <3> QED
      BY <1>12, <2>2, <3>1, <3>2, <3>3
  <2> QED
    BY <2>3, <2>4
<1>15. ASSUME NEW y \in S, NEW z \in E[y]
       PROVE  E[z] \subseteq E[y] /\ (z = y \/ u2[z] \in E[y])
  <2>1. z \in S /\ Old(z) \in D[Old(y)] /\ Old(y) \in R /\ Old(z) \in R
    BY <1>5, <1>7, <1>15
  <2>2. D[Old(z)] \subseteq D[Old(y)] /\ (Old(z) = Old(y) \/ u[Old(z)] \in D[Old(y)])
    BY <1>4, <2>1
  <2>3. E[z] \subseteq E[y]
    BY <1>7, <2>1, <2>2
  <2>4. ASSUME z # y PROVE u2[z] \in E[y]
    <3>1. u[Old(z)] \in D[Old(y)] /\ u[Old(z)] \in R
      BY <1>4, <1>5, <2>1, <2>2, <2>4
    <3>2. u2[z] = IF z = q THEN u[p] ELSE IF z = l[p] \/ z = m[p] THEN q ELSE u[z]
      BY <1>1, <2>1 DEF TakesOver
    <3>3. u2[z] \in S /\ Old(u2[z]) = u[Old(z)]
      <4>1. CASE z = q
        <5>1. Old(z) = p /\ u2[z] = u[p] /\ u[p] \in R
          BY <1>5, <3>1, <3>2, <4>1
        <5>2. u[p] # p
          <6>1. u[p] = p => p = l[p] \/ p = m[p]
            BY <5>1, <1>3 DEF Trees, Forest
          <6> QED
            BY <1>10, <6>1
        <5> QED
          BY <1>5, <5>1, <5>2
      <4>2. CASE z # q
        <5>1. z \in R /\ Old(z) = z /\ u[z] \in R
          BY <1>5, <2>1, <3>1, <4>2
        <5>2. u[z] = p <=> z = l[p] \/ z = m[p]
          BY <1>3, <5>1 DEF Trees, Forest
        <5> QED
          BY <1>5, <3>2, <4>2, <5>1, <5>2
      <4> QED
        BY <4>1, <4>2
    <3> QED
      BY <1>7, <3>1, <3>3
  <2> QED
    BY <2>3, <2>4
<1>16. Nested(S, l2, m2, u2, L, E)
  BY <1>13, <1>14, <1>15 DEF Nested
<1>17. Covers(S, m2, x, E)
  <2>1. SUFFICES ASSUME NEW c \in Byte PROVE Sub(E, m2[Root(c)]) = {y \in S : x[y] = c}
    BY DEF Covers
  <2>2. Root(c) \in Roots /\ Root(c) # q
    BY <1>3, Places
  <2>3. m2[Root(c)] = IF m[Root(c)] = p THEN q ELSE m[Root(c)]
    BY <2>2 DEF TakesOver
  <2>4. m2[Root(c)] \in S \cup {Nil} /\ Old(m2[Root(c)]) = m[Root(c)]
    BY <1>5, <1>9, <2>2, <2>3
  <2>5. Sub(E, m2[Root(c)]) = {y \in S : Old(y) \in Sub(D, m[Root(c)])}
    BY <1>8, <2>4
  <2>6. Sub(D, m[Root(c)]) = {y \in R : x[y] = c}
    BY DEF Trees, Covers
  <2>7. \A y \in S : x[Old(y)] = x[y] /\ Old(y) \in R
    BY <1>5
  <2> QED
    BY <2>5, <2>6, <2>7
<1> QED
  BY <1>1, <1>16, <1>17 DEF InOrder

-----------------------------------------------------------------------------
(* The order, and what DeleteNode and InsertNode make of it. *)

\* The pairs of strings of which the first is the smaller.
Order(x) == {e \in Place \X Place : Less(x, e[1], e[2])}

\* The trees are in order, and each holds the strings of its byte.
Ordered(t, x) == InOrder(Reg(t), t.left, t.right, t.up, Order(x), x)

\* What Less says of the pairs.
LEMMA OrderIs ==
    ASSUME NEW x \in Text
    PROVE  /\ \A a \in Place, b \in Place : <<a, b>> \in Order(x) <=> Less(x, a, b)
           /\ \A a \in Place : <<a, a>> \notin Order(x)
           /\ \A a \in Place, b \in Place, c \in Place :
                 <<a, b>> \in Order(x) /\ <<b, c>> \in Order(x) => <<a, c>> \in Order(x)
<1>1. \A a \in Place, b \in Place : <<a, b>> \in Order(x) <=> Less(x, a, b)
  BY DEF Order
<1>2. \A a \in Place : ~Less(x, a, a)
  BY LessOrder
<1>3. \A a \in Place, b \in Place, c \in Place : Less(x, a, b) /\ Less(x, b, c) => Less(x, a, c)
  BY LessOrder
<1> QED
  BY <1>1, <1>2, <1>3

\* The last place of a left subtree comes after all others of it.
LEMMA LastOfLeft ==
    ASSUME NEW t, NEW x \in Text, Sound(t, x), NEW p \in Reg(t), t.left[p] # Nil, NEW D,
           Nested(Reg(t), t.left, t.right, t.up, Order(x), D)
    PROVE  \A q : q = Rightmost(t, t.left[p]) =>
              q \in Sub(D, t.left[p]) /\ \A y \in Sub(D, t.left[p]) : y = q \/ <<y, q>> \in Order(x)
<1>1. PICK R, l, m, u, L, c : R = Reg(t) /\ l = t.left /\ m = t.right /\ u = t.up /\ L = Order(x) /\ c = l[p]
  OBVIOUS
<1>2. Forest(R, l, m, u) /\ R \in SUBSET Place /\ p \in R /\ c # Nil /\ c \in R
  BY <1>1, TreeFields DEF Sound, Forest
<1>3. /\ D \in [R -> SUBSET R]
      /\ \A y \in R : D[y] = {y} \cup Sub(D, l[y]) \cup Sub(D, m[y])
      /\ \A y \in R : \A z \in Sub(D, l[y]) : <<z, y>> \in L
      /\ \A y \in R : \A z \in Sub(D, m[y]) : <<y, z>> \in L
      /\ \A y \in R : \A z \in D[y] : D[z] \subseteq D[y]
  BY <1>1 DEF Nested
<1>4. \A a \in R, b \in R, d \in R : <<a, b>> \in L /\ <<b, d>> \in L => <<a, d>> \in L
  BY <1>1, <1>2, OrderIs
<1> DEFINE G == {h \in D[c] : \A y \in D[c] : y \in D[h] \/ <<y, h>> \in L}
<1>5. G \in SUBSET R /\ c \in G
  BY <1>2, <1>3
<1>6. ASSUME NEW h \in G, m[h] # Nil PROVE m[h] \in G
  <2>1. h \in R /\ h \in D[c]
    BY <1>2, <1>3
  <2>2. PICK v : v = m[h]
    OBVIOUS
  <2>3. v \in R /\ v # Nil
    BY <1>2, <1>6, <2>1, <2>2 DEF Forest
  <2>4. Sub(D, m[h]) = D[v] /\ v \in D[v]
    BY <1>3, <2>2, <2>3 DEF Sub
  <2>5. v \in D[h] /\ v \in D[c] /\ <<h, v>> \in L
    BY <1>2, <1>3, <2>1, <2>4
  <2>6. ASSUME NEW y \in D[c], y \notin D[v] PROVE <<y, v>> \in L
    <3>1. y \in R
      BY <1>2, <1>3
    <3>2. y = h \/ <<y, h>> \in L
      <4>1. CASE y \in D[h]
        BY <1>3, <2>1, <2>4, <2>6, <4>1
      <4>2. CASE y \notin D[h]
        BY <4>2
      <4> QED
        BY <4>1, <4>2
    <3> QED
      BY <1>4, <2>1, <2>3, <2>5, <3>1, <3>2
  <2> QED
    BY <2>2, <2>5, <2>6
<1>7. \A h \in G : h \in D[c] /\ \A y \in D[c] : y \in D[h] \/ <<y, h>> \in L
  OBVIOUS
<1> HIDE DEF G
<1>8. PICK q : q = Rightmost(t, c) /\ q \in G /\ m[q] = Nil
  BY <1>1, <1>5, <1>6, RightmostIn
<1>9. D[q] = {q} \cup Sub(D, l[q]) /\ q \in R
  BY <1>3, <1>5, <1>8 DEF Sub
<1>10. q \in D[c] /\ \A y \in D[c] : y = q \/ <<y, q>> \in L
  BY <1>3, <1>7, <1>8, <1>9
<1>11. Sub(D, c) = D[c]
  BY <1>2 DEF Sub
<1> QED
  BY <1>1, <1>8, <1>10, <1>11

\* DeleteNode keeps the order.
LEMMA DeletedOrdered ==
    ASSUME NEW t, NEW x \in Text, Sound(t, x), Ordered(t, x), NEW p \in Place
    PROVE  Ordered(DeleteNode(t, p), x)
<1>1. PICK a : a = DeleteNode(t, p)
  OBVIOUS
<1>2. PICK R, l, m, u, l2, m2, u2, L : /\ R = Reg(t) /\ l = t.left /\ m = t.right /\ u = t.up
                                       /\ l2 = a.left /\ m2 = a.right /\ u2 = a.up /\ L = Order(x)
  OBVIOUS
<1>3. PICK D : Nested(R, l, m, u, L, D) /\ Covers(R, m, x, D)
  BY <1>2 DEF Ordered, InOrder
<1>4. Forest(R, l, m, u) /\ R \in SUBSET Place /\ Trees(R, l, m, u, L, D, x)
  BY <1>2, <1>3, TreeFields DEF Sound, Trees
<1>5. CASE p \notin R
  <2>1. a = t
    BY <1>1, <1>2, <1>5 DEF DeleteNode, Reg
  <2> QED
    BY <1>1, <2>1
<1>6. Reg(a) = R \ {p}
  BY <1>1, <1>2, Deleted
<1>7. CASE p \in R /\ Nil \in {l[p], m[p]}
  <2>1. Spliced(t, p, a)
    BY <1>1, <1>2, <1>7, DeletedTop
  <2>2. PICK q : /\ (q = l[p] /\ m[p] = Nil) \/ (q = m[p] /\ l[p] = Nil)
                 /\ GivesWay(R, l, m, u, p, q, l2, m2, u2)
    BY <1>2, <2>1 DEF Spliced
  <2>3. u[p] # p /\ <<p, p>> \notin L
    BY <1>2, <1>7, Around, OrderIs
  <2>4. Nested(R \ {p}, l2, m2, u2, L, Without(R, D, p)) /\ Covers(R \ {p}, m2, x, Without(R, D, p))
    BY <1>4, <1>7, <2>2, <2>3, NestedSpliced
  <2> QED
    BY <1>1, <1>2, <1>6, <2>4 DEF Ordered, InOrder
<1>8. CASE p \in R /\ Nil \notin {l[p], m[p]}
  <2>1. Lifted(t, p, a)
    BY <1>1, <1>2, <1>8, DeletedBoth
  <2>2. PICK q, l1, m1, u1 :
           /\ q = Rightmost(t, l[p]) /\ Forest(R \ {q}, l1, m1, u1)
           /\ GivesWay(R, l, m, u, q, l[q], l1, m1, u1)
           /\ TakesOver(R \ {q}, l1, m1, u1, p, q, l2, m2, u2)
    BY <1>2, <2>1 DEF Lifted
  <2>3. q \in R /\ q # p /\ m[q] = Nil /\ x[q] = x[p]
    BY <1>2, <1>8, <2>2, RightmostIs
  <2>4. q \in Sub(D, l[p]) /\ \A y \in Sub(D, l[p]) : y = q \/ <<y, q>> \in L
    BY <1>2, <1>3, <1>8, <2>2, LastOfLeft
  <2>5. u[q] # q /\ <<q, q>> \notin L /\ <<p, p>> \notin L
    BY <1>2, <1>4, <1>8, <2>3, Around, OrderIs
  <2>6. \A y \in R, z \in R, h \in R : <<y, z>> \in L /\ <<z, h>> \in L => <<y, h>> \in L
    BY <1>2, <1>4, OrderIs
  <2>7. PICK Q, E : Q = R \ {q} /\ E = [y \in Q |-> D[y] \ {q}]
    OBVIOUS
  <2>8. Nested(Q, l1, m1, u1, L, E) /\ Covers(Q, m1, x, E)
    <3>1. (l[q] = l[q] /\ m[q] = Nil) \/ (l[q] = m[q] /\ l[q] = Nil)
      BY <2>3
    <3>2. Nested(R \ {q}, l1, m1, u1, L, Without(R, D, q)) /\ Covers(R \ {q}, m1, x, Without(R, D, q))
      BY <1>4, <2>2, <2>3, <2>5, <3>1, NestedSpliced
    <3> QED
      BY <2>7, <3>2 DEF Without
  <2>9. /\ D \in [R -> SUBSET R]
        /\ \A y \in R : D[y] = {y} \cup Sub(D, l[y]) \cup Sub(D, m[y])
        /\ \A y \in R : \A z \in Sub(D, l[y]) : <<z, y>> \in L
        /\ \A y \in R : \A z \in Sub(D, m[y]) : <<y, z>> \in L
        /\ \A y \in R : \A z \in D[y] : D[z] \subseteq D[y]
    BY <1>3 DEF Nested
  <2>10. \A y \in Q : Sub(E, l1[y]) \subseteq Sub(D, l[y]) /\ Sub(E, m1[y]) \subseteq Sub(D, m[y])
    <3>1. SUFFICES ASSUME NEW y \in Q
                   PROVE  Sub(E, l1[y]) \subseteq Sub(D, l[y]) /\ Sub(E, m1[y]) \subseteq Sub(D, m[y])
      OBVIOUS
    <3>2. /\ l1[y] = (IF l[y] = q THEN l[q] ELSE l[y]) /\ m1[y] = (IF m[y] = q THEN l[q] ELSE m[y])
      BY <2>2, <2>7 DEF GivesWay
    <3>3. Nil \notin R /\ y \in R /\ l[y] \in R \cup {Nil} /\ m[y] \in R \cup {Nil} /\ l[q] \in R \cup {Nil}
      BY <1>4, <2>3, <2>7, Places DEF Forest
    <3>4. \A d \in R \cup {Nil} : d # q => Sub(E, d) \subseteq Sub(D, d)
      BY <2>7 DEF Sub
    <3>5. l[q] # q
      BY <1>2, <2>3, Around
    <3>6. Sub(D, l[q]) \subseteq D[q] /\ Sub(D, q) = D[q]
      BY <2>3, <2>9, <3>3 DEF Sub
    <3> QED
      BY <3>2, <3>3, <3>4, <3>5, <3>6
  <2>11. p \in Q /\ q \in Place \ Q /\ Q \in SUBSET Place /\ (Q \ {p}) \cup {q} = R \ {p}
    BY <1>4, <1>8, <2>3, <2>7
  <2>12. <<q, p>> \in L
    BY <1>8, <2>4, <2>9
  <2>13. \A y \in Sub(E, l1[p]) : <<y, q>> \in L
    <3>1. q \notin Sub(E, l1[p])
      BY <2>7, <2>8, <2>11 DEF Nested
    <3> QED
      BY <2>4, <2>10, <2>11, <3>1
  <2>14. \A y \in Sub(E, m1[p]) : <<q, y>> \in L
    <3>1. \A y \in Sub(D, m[p]) : <<p, y>> \in L /\ y \in R
      BY <1>8, <2>9
    <3> QED
      BY <1>8, <2>3, <2>6, <2>10, <2>11, <2>12, <3>1
  <2>15. q \in D[p]
    BY <1>8, <2>4, <2>9
  <2>16. \A z \in R : /\ p \in Sub(D, l[z]) => q \in Sub(D, l[z])
                      /\ p \in Sub(D, m[z]) => q \in Sub(D, m[z])
    <3>1. \A z \in R : l[z] \in R \cup {Nil} /\ m[z] \in R \cup {Nil}
      BY <1>4 DEF Forest
    <3>2. \A c \in R \cup {Nil} : p \in Sub(D, c) => q \in Sub(D, c)
      BY <2>9, <2>15 DEF Sub
    <3> QED
      BY <3>1, <3>2
  <2>17. \A z \in Q : /\ p \in Sub(E, l1[z]) => <<q, z>> \in L
                      /\ p \in Sub(E, m1[z]) => <<z, q>> \in L
    <3>1. \A z \in Q : z \in R
      BY <2>7
    <3> QED
      BY <2>9, <2>10, <2>16, <3>1
  <2>18. TakesOver(Q, l1, m1, u1, p, q, l2, m2, u2) /\ Trees(Q, l1, m1, u1, L, E, x)
    BY <2>2, <2>7, <2>8 DEF Trees
  <2>19. InOrder((Q \ {p}) \cup {q}, l2, m2, u2, L, x)
    <3>1. p \in Q /\ <<p, p>> \notin L /\ q \in Place \ Q /\ x[q] = x[p] /\ Q \in SUBSET Place
      BY <2>3, <2>5, <2>11
    <3>2. Succeeds(Q, l1, m1, L, E, p, q)
      BY <2>13, <2>14, <2>17 DEF Succeeds
    <3> QED
      BY <2>18, <3>1, <3>2, NestedMoved
  <2> QED
    BY <1>1, <1>2, <1>6, <2>11, <2>19 DEF Ordered
<1> QED
  BY <1>5, <1>7, <1>8

\* Where a descent for q can be in trees that are in order: the strings that are not
\* below where it goes share no more bytes with q than it has found.
Searches(t, x, q, D) ==
    {v \in Walk(t, x, q) :
        /\ \A y \in Reg(t) : x[y] = x[q] /\ y \notin Sub(D, Child(t, v.node, v.side)) => Common(x, q, y) <= v.length
        /\ v.node \in Reg(t) /\ v.length # F =>
              Belongs(Reg(t), t.left, t.right, Order(x), D, q, v.node, ~(v.side >= 0))}

\* What is known of the trees in terms of the links.
LEMMA Sorted ==
    ASSUME NEW t, NEW x \in Text, Sound(t, x), NEW D, Nested(Reg(t), t.left, t.right, t.up, Order(x), D)
    PROVE  \A y \in Reg(t) :
              /\ D[y] = {y} \cup Sub(D, t.left[y]) \cup Sub(D, t.right[y])
              /\ \A z \in Sub(D, t.left[y]) : z \in Reg(t) /\ Less(x, z, y)
              /\ \A z \in Sub(D, t.right[y]) : z \in Reg(t) /\ Less(x, y, z)
              /\ \A z \in D[y] : D[z] \subseteq D[y] /\ (z = y \/ t.up[z] \in D[y])
<1>1. /\ D \in [Reg(t) -> SUBSET Reg(t)] /\ Reg(t) \in SUBSET Place
      /\ \A y \in Reg(t) : D[y] = {y} \cup Sub(D, t.left[y]) \cup Sub(D, t.right[y])
      /\ \A y \in Reg(t) : \A z \in Sub(D, t.left[y]) : <<z, y>> \in Order(x)
      /\ \A y \in Reg(t) : \A z \in Sub(D, t.right[y]) : <<y, z>> \in Order(x)
      /\ \A y \in Reg(t) : \A z \in D[y] : D[z] \subseteq D[y] /\ (z = y \/ t.up[z] \in D[y])
  BY TreeFields DEF Sound, Nested
<1>2. \A y \in Reg(t) : \A z \in Sub(D, t.left[y]) : z \in Reg(t)
  BY <1>1
<1>3. \A y \in Reg(t) : \A z \in Sub(D, t.right[y]) : z \in Reg(t)
  BY <1>1
<1>4. \A y \in Reg(t) : y \in Place
  BY <1>1
<1>5. \A y \in Place, z \in Place : <<y, z>> \in Order(x) <=> Less(x, y, z)
  BY OrderIs
<1> QED
  BY <1>1, <1>2, <1>3, <1>4, <1>5

\* A place that is a child belongs below the ancestors of its parent, and below it.
LEMMA ChildBelongs ==
    ASSUME NEW t, NEW x \in Text, Sound(t, x), NEW D, Nested(Reg(t), t.left, t.right, t.up, Order(x), D),
           NEW q \in Place, NEW n \in Reg(t) \cup Roots, NEW side \in Int, n \in Roots => side >= 0,
           n \in Reg(t) => Belongs(Reg(t), t.left, t.right, Order(x), D, q, n, ~(side >= 0)),
           NEW p, p = Child(t, n, side), p # Nil, NEW z \in Reg(t)
    PROVE  /\ p \in Sub(D, t.left[z]) => <<q, z>> \in Order(x)
           /\ p \in Sub(D, t.right[z]) => <<z, q>> \in Order(x)
<1>1. PICK R, L : R = Reg(t) /\ L = Order(x)
  OBVIOUS
<1>2. /\ R \in SUBSET Place /\ Nil \notin R /\ R \cap Roots = {} /\ Forest(R, t.left, t.right, t.up)
  BY <1>1, TreeFields, Places DEF Sound
<1>3. p \in R /\ t.up[p] = n /\ p = (IF side >= 0 THEN t.right[n] ELSE t.left[n])
  BY <1>1, <1>2 DEF Child, Forest
<1>4. \A y \in R : /\ D[y] = {y} \cup Sub(D, t.left[y]) \cup Sub(D, t.right[y])
                   /\ \A h \in Sub(D, t.left[y]) : h \in R /\ Less(x, h, y)
                   /\ \A h \in Sub(D, t.right[y]) : h \in R /\ Less(x, y, h)
                   /\ \A h \in D[y] : D[h] \subseteq D[y] /\ (h = y \/ t.up[h] \in D[y])
  BY <1>1, Sorted
<1>5. \A y \in R, h \in R : ~Less(x, y, y) /\ (Less(x, y, h) => ~Less(x, h, y))
  BY <1>2, LessOrder
<1>6. \A y \in R : y \in D[y] /\ (y # Nil => Sub(D, y) = D[y])
  BY <1>4 DEF Sub
<1>7. \A y \in R : /\ t.left[y] = Nil \/ t.left[y] \in R
                   /\ t.right[y] = Nil \/ t.right[y] \in R
  BY <1>2 DEF Forest
<1>8. ASSUME p \in Sub(D, t.left[z]) \/ p \in Sub(D, t.right[z])
      PROVE  n \in R /\ (n = z \/ n \in Sub(D, t.left[z]) \/ n \in Sub(D, t.right[z]))
  <2>1. z \in R /\ p \in D[z] /\ p # z
    BY <1>1, <1>4, <1>5, <1>8
  <2>2. n \in D[z]
    BY <1>3, <1>4, <2>1
  <2>3. n \in R
    BY <1>1, <2>1, <2>2 DEF Nested
  <2> QED
    BY <1>4, <2>1, <2>2, <2>3
<1>9. \A y \in R, c \in R \cup {Nil} : y \in Sub(D, c) => D[y] \subseteq Sub(D, c)
  BY <1>2, <1>4, <1>6 DEF Sub
<1>10. n \in R => p \in D[n]
  BY <1>3, <1>4, <1>6, <1>2
<1>11. ASSUME p \in Sub(D, t.left[z]) PROVE <<q, z>> \in L
  <2>1. n \in R /\ (n = z \/ n \in Sub(D, t.left[z]) \/ n \in Sub(D, t.right[z])) /\ z \in R
    BY <1>1, <1>8, <1>11
  <2>2. Less(x, p, z)
    BY <1>4, <1>11, <2>1
  <2>3. n \notin Sub(D, t.right[z])
    <3>1. n \in Sub(D, t.right[z]) => p \in Sub(D, t.right[z])
      BY <1>7, <1>9, <1>10, <2>1
    <3>2. p \in Sub(D, t.right[z]) => Less(x, z, p)
      BY <1>4, <2>1
    <3> QED
      BY <1>3, <1>5, <2>1, <2>2, <3>1, <3>2
  <2>4. n = z => ~(side >= 0)
    <3>1. n = z /\ side >= 0 => p \in Sub(D, t.right[z])
      BY <1>2, <1>3, <1>6
    <3>2. p \in Sub(D, t.right[z]) => Less(x, z, p)
      BY <1>4, <2>1
    <3> QED
      BY <1>3, <1>5, <2>1, <2>2, <3>1, <3>2
  <2> QED
    BY <1>1, <2>1, <2>3, <2>4 DEF Belongs
<1>12. ASSUME p \in Sub(D, t.right[z]) PROVE <<z, q>> \in L
  <2>1. n \in R /\ (n = z \/ n \in Sub(D, t.left[z]) \/ n \in Sub(D, t.right[z])) /\ z \in R
    BY <1>1, <1>8, <1>12
  <2>2. Less(x, z, p)
    BY <1>4, <1>12, <2>1
  <2>3. n \notin Sub(D, t.left[z])
    <3>1. n \in Sub(D, t.left[z]) => p \in Sub(D, t.left[z])
      BY <1>7, <1>9, <1>10, <2>1
    <3>2. p \in Sub(D, t.left[z]) => Less(x, p, z)
      BY <1>4, <2>1
    <3> QED
      BY <1>3, <1>5, <2>1, <2>2, <3>1, <3>2
  <2>4. n = z => side >= 0
    <3>1. n = z /\ ~(side >= 0) => p \in Sub(D, t.left[z])
      BY <1>2, <1>3, <1>6
    <3>2. p \in Sub(D, t.left[z]) => Less(x, p, z)
      BY <1>4, <2>1
    <3> QED
      BY <1>3, <1>5, <2>1, <2>2, <3>1, <3>2
  <2> QED
    BY <1>1, <2>1, <2>3, <2>4 DEF Belongs
<1> QED
  BY <1>1, <1>11, <1>12

\* Each step of the descent keeps what Searches says.
LEMMA DownSearches ==
    ASSUME NEW t, NEW x \in Text, Sound(t, x), NEW D, Nested(Reg(t), t.left, t.right, t.up, Order(x), D),
           NEW q \in Place, NEW v \in Searches(t, x, q, D), ~v.stop
    PROVE  Down(t, x, q, v) \in Searches(t, x, q, D)
<1>1. PICK v2, p, n, R : v2 = Down(t, x, q, v) /\ p = Child(t, v.node, v.side) /\ n = v.node /\ R = Reg(t)
  OBVIOUS
<1>2. v \in Walk(t, x, q) /\ v2 \in Walk(t, x, q)
  <2>1. v \in Walk(t, x, q)
    BY DEF Searches
  <2>2. PICK f : Ranked(Reg(t), t.up, f)
    BY DEF Sound
  <2> QED
    BY <1>1, <2>1, <2>2, DownWalks
<1>3. /\ v \in [node: R \cup Roots, side: Int, length: 0..F, position: Place, stop: BOOLEAN]
      /\ v.length # F /\ v.length \in 0..F /\ n \in R \cup Roots /\ v.side \in Int
      /\ n \in Roots => v.side >= 0
      /\ F \in Nat
  BY <1>1, <1>2, Places DEF Walk
<1>4. /\ \A y \in R : x[y] = x[q] /\ y \notin Sub(D, p) => Common(x, q, y) <= v.length
      /\ n \in R => Belongs(Reg(t), t.left, t.right, Order(x), D, q, n, ~(v.side >= 0))
  BY <1>1, <1>3 DEF Searches
<1>5. CASE p = Nil
  <2>1. v2 = [v EXCEPT !.stop = TRUE]
    BY <1>1, <1>5 DEF Down
  <2>2. v2.node = n /\ v2.side = v.side /\ v2.length = v.length
    BY <1>1, <1>3, <2>1
  <2> QED
    BY <1>1, <1>2, <1>4, <2>2 DEF Searches
<1>6. CASE p # Nil
  <2>1. PICK i : i = Common(x, q, p)
    OBVIOUS
  <2>2. v2 = [node |-> p, side |-> Compare(x, q, p),
             length |-> IF i > v.length THEN i ELSE v.length,
             position |-> IF i > v.length THEN p ELSE v.position,
             stop |-> i = F]
    BY <1>1, <1>6, <2>1 DEF Down
  <2>3. v2.node = p /\ v2.side = Compare(x, q, p) /\ v2.length = (IF i > v.length THEN i ELSE v.length)
    BY <2>2
  <2>4. R \in SUBSET Place /\ R \cap Roots = {}
    BY <1>1, TreeFields, Places DEF Sound
  <2>5. p \in R
    BY <1>1, <1>3, <1>6 DEF Sound, Forest, Child
  <2>6. p \in Place /\ x[p] = x[q] /\ p \notin Roots
    BY <1>2, <2>3, <2>4, <2>5 DEF Walk
  <2>7. i \in 1..F /\ v.length <= v2.length /\ i <= v2.length /\ v2.length \in 0..F
    <3>1. i \in 1..F
      BY <2>1, <2>6, CommonShared
    <3> QED
      BY <1>3, <2>3, <3>1
  <2>8. /\ v2.side \in Int
        /\ v2.side < 0 <=> Less(x, q, p)
        /\ v2.side > 0 <=> Less(x, p, q)
        /\ i # F => Less(x, q, p) \/ Less(x, p, q)
    BY <2>1, <2>3, <2>6, CompareLess
  <2>9. ~(Less(x, q, p) /\ Less(x, p, q))
    BY <2>6, LessOrder
  <2>10. /\ D[p] = {p} \cup Sub(D, t.left[p]) \cup Sub(D, t.right[p])
         /\ \A z \in Sub(D, t.left[p]) : z \in R /\ Less(x, z, p)
         /\ \A z \in Sub(D, t.right[p]) : z \in R /\ Less(x, p, z)
    BY <1>1, <2>5, Sorted
  <2>11. ASSUME NEW y \in R, x[y] = x[q], y \notin Sub(D, Child(t, p, v2.side)) PROVE Common(x, q, y) <= v2.length
    <3>1. PICK k : k = Common(x, q, y) /\ k \in 1..F
      BY <2>4, <2>11, CommonShared
    <3>2. CASE y \notin D[p]
      <4>1. k <= v.length
        BY <1>4, <1>6, <2>11, <3>1, <3>2 DEF Sub
      <4> QED
        BY <1>3, <2>7, <3>1, <4>1
    <3>3. CASE y = p
      BY <2>1, <2>7, <3>3
    <3>4. CASE y \in D[p] /\ y # p /\ i = F
      <4>1. k <= i
        BY <3>1, <3>4
      <4> QED
        BY <1>3, <2>7, <3>1, <4>1
    <3>5. CASE y \in D[p] /\ y # p /\ i # F
      <4>1. CASE v2.side >= 0
        <5>1. y \in Sub(D, t.left[p]) /\ Less(x, y, p) /\ Less(x, p, q)
          BY <2>8, <2>10, <2>11, <3>5, <4>1 DEF Child
        <5>2. k <= i
          BY <2>1, <2>4, <2>6, <2>11, <3>1, <5>1, Between
        <5> QED
          BY <1>3, <2>7, <3>1, <5>2
      <4>2. CASE ~(v2.side >= 0)
        <5>1. y \in Sub(D, t.right[p]) /\ Less(x, p, y) /\ Less(x, q, p)
          BY <2>8, <2>9, <2>10, <2>11, <3>5, <4>2 DEF Child
        <5>2. k <= i
          BY <2>1, <2>4, <2>6, <2>11, <3>1, <5>1, Between
        <5> QED
          BY <1>3, <2>7, <3>1, <5>2
      <4> QED
        BY <4>1, <4>2
    <3> QED
      BY <3>2, <3>3, <3>4, <3>5
  <2>12. ASSUME v2.length # F PROVE Belongs(Reg(t), t.left, t.right, Order(x), D, q, p, ~(v2.side >= 0))
    <3>1. i # F
      BY <1>3, <2>3, <2>7, <2>12
    <3>2. IF ~(v2.side >= 0) THEN <<q, p>> \in Order(x) ELSE <<p, q>> \in Order(x)
      BY <2>6, <2>8, <3>1, OrderIs
    <3>3. \A z \in Reg(t) : /\ p \in Sub(D, t.left[z]) => <<q, z>> \in Order(x)
                            /\ p \in Sub(D, t.right[z]) => <<z, q>> \in Order(x)
      <4>1. PICK side : side = v.side
        OBVIOUS
      <4>2. /\ n \in Reg(t) \cup Roots /\ side \in Int /\ (n \in Roots => side >= 0) /\ p = Child(t, n, side)
            /\ n \in Reg(t) => Belongs(Reg(t), t.left, t.right, Order(x), D, q, n, ~(side >= 0))
        BY <1>1, <1>3, <1>4, <4>1
      <4> QED
        BY <1>6, <4>2, ChildBelongs
    <3> QED
      BY <3>2, <3>3 DEF Belongs
  <2> QED
    BY <1>1, <1>2, <2>3, <2>11, <2>12 DEF Searches
<1> QED
  BY <1>1, <1>5, <1>6

\* The descent finds the most bytes that a string of the trees shares with q, and
\* where q belongs.
LEMMA DescendSearches ==
    ASSUME NEW t, NEW x \in Text, Sound(t, x), NEW D, Trees(Reg(t), t.left, t.right, t.up, Order(x), D, x),
           NEW q \in Place
    PROVE  /\ Descend(t, x, q) \in Searches(t, x, q, D) /\ Descend(t, x, q).stop
           /\ \A y \in Reg(t) : x[y] = x[q] => Common(x, q, y) <= Descend(t, x, q).length
<1>1. Nested(Reg(t), t.left, t.right, t.up, Order(x), D) /\ Covers(Reg(t), t.right, x, D)
  BY DEF Trees
<1>2. \A v \in Searches(t, x, q, D) : ~v.stop => Down(t, x, q, v) \in Searches(t, x, q, D)
  BY <1>1, DownSearches
<1>3. Start(x, q) \in Searches(t, x, q, D)
  <2>1. PICK c : c = Start(x, q)
    OBVIOUS
  <2>2. c \in Walk(t, x, q) /\ c.node = Root(x[q]) /\ c.side = 1
    BY <2>1, StartWalks DEF Start
  <2>3. x[q] \in Byte /\ Root(x[q]) \in Roots /\ Root(x[q]) \notin Reg(t)
    <3>1. x[q] \in Byte
      BY Places DEF Text, Place
    <3> QED
      BY <3>1, TreeFields, Places DEF Sound
  <2>4. Sub(D, Child(t, c.node, c.side)) = {y \in Reg(t) : x[y] = x[q]}
    BY <1>1, <2>2, <2>3 DEF Covers, Child
  <2> QED
    BY <2>1, <2>2, <2>3, <2>4 DEF Searches
<1>4. Searches(t, x, q, D) \in SUBSET Walk(t, x, q)
  BY DEF Searches
<1>5. PICK v : v = Descend(t, x, q) /\ v \in Searches(t, x, q, D) /\ v.stop
  BY <1>2, <1>3, <1>4, DescendIn
<1>6. ASSUME NEW y \in Reg(t), x[y] = x[q] PROVE Common(x, q, y) <= v.length
  <2>1. v.length = F \/ Child(t, v.node, v.side) = Nil
    BY <1>4, <1>5 DEF Walk
  <2>2. CASE v.length = F
    <3>1. y \in Place
      BY TreeFields DEF Sound
    <3>2. Common(x, q, y) \in 1..F
      BY <1>6, <3>1, CommonShared
    <3> QED
      BY <2>2, <3>2, Places
  <2>3. CASE Child(t, v.node, v.side) = Nil
    BY <1>5, <1>6, <2>3 DEF Searches, Sub
  <2> QED
    BY <2>1, <2>2, <2>3
<1> QED
  BY <1>5, <1>6

\* InsertNode keeps the order, drops no string but for an equal one, and finds the
\* longest match that the trees have.
LEMMA InsertedOrdered ==
    ASSUME NEW t, NEW x \in Text, Sound(t, x), Ordered(t, x), NEW q \in Place, q \notin Reg(t)
    PROVE  \A found : found = InsertNode(t, x, q) =>
           /\ Ordered(found.tree, x)
           /\ q \in Reg(found.tree) /\ \A y \in Reg(t) : y \in Reg(found.tree) \/ Shared(x, q, y, F)
           /\ \A y \in Reg(t) : x[y] = x[q] => Common(x, q, y) <= found.length
           /\ found.length > 0 => /\ found.position \in Reg(t) /\ x[found.position] = x[q]
                                  /\ Common(x, q, found.position) = found.length
<1>1. PICK R, l, m, u, L : R = Reg(t) /\ l = t.left /\ m = t.right /\ u = t.up /\ L = Order(x)
  OBVIOUS
<1>2. PICK D : Trees(R, l, m, u, L, D, x)
  BY <1>1 DEF Ordered, InOrder, Sound, Trees
<1>3. R \in SUBSET Place /\ q \in Place \ R /\ R \cap Roots = {} /\ Nested(R, l, m, u, L, D) /\ Roots \cap Place = {}
  BY <1>1, <1>2, TreeFields, Places DEF Sound, Trees
<1>4. PICK v : /\ v = Descend(t, x, q) /\ v \in Searches(t, x, q, D) /\ v.stop
               /\ \A y \in R : x[y] = x[q] => Common(x, q, y) <= v.length
  BY <1>1, <1>2, DescendSearches
<1>5. v \in Walk(t, x, q)
  BY <1>4 DEF Searches
<1>6. /\ v.node \in R \cup Roots /\ v.side \in Int /\ v.length \in 0..F /\ v.position \in Place
      /\ IF v.node \in Roots THEN v.node = Root(x[q]) /\ v.side >= 0 ELSE x[v.node] = x[q]
      /\ v.length > 0 => v.position \in R /\ x[v.position] = x[q] /\ Common(x, q, v.position) = v.length
      /\ v.length = F => v.node = v.position
      /\ v.length = F \/ Child(t, v.node, v.side) = Nil
  BY <1>1, <1>4, <1>5 DEF Walk
<1>7. PICK a : a = IF v.length = F THEN Replace(t, q, v.node) ELSE Attach(t, q, v)
  OBVIOUS
<1>8. InsertNode(t, x, q) = [tree |-> a, length |-> v.length, position |-> v.position]
  BY <1>4, <1>7 DEF InsertNode
<1>9. \A y \in Place : <<y, y>> \notin L
  BY <1>1, OrderIs
<1>10. Ordered(a, x) /\ q \in Reg(a) /\ \A y \in R : y \in Reg(a) \/ Shared(x, q, y, F)
  <2>1. CASE v.length = F
    <3>1. PICK p : p = v.node /\ p \in R /\ p \in Place /\ x[q] = x[p] /\ Common(x, q, p) = F
      BY <1>3, <1>6, <2>1, Places
    <3>2. Shared(x, q, p, F)
      BY <3>1, CommonShared
    <3>3. /\ Reg(a) = (R \ {p}) \cup {q}
          /\ TakesOver(R, l, m, u, p, q, a.left, a.right, a.up)
      BY <1>1, <1>3, <1>7, <2>1, <3>1, Replaced
    <3>4. \A y \in Place : (<<y, q>> \in L <=> <<y, p>> \in L) /\ (<<q, y>> \in L <=> <<p, y>> \in L)
      <4>1. \A y \in Place : (Less(x, y, q) <=> Less(x, y, p)) /\ (Less(x, q, y) <=> Less(x, p, y))
        BY <3>2, LessSame DEF Shared
      <4> QED
        BY <1>1, <3>1, <4>1, OrderIs
    <3>5. Succeeds(R, l, m, L, D, p, q)
      <4>1. \A y \in Sub(D, l[p]) : <<y, p>> \in L /\ y \in Place
        BY <1>1, <1>3, <3>1, Sorted DEF Nested
      <4>2. \A y \in Sub(D, m[p]) : <<p, y>> \in L /\ y \in Place
        BY <1>1, <1>3, <3>1, Sorted DEF Nested
      <4>3. \A z \in R : /\ p \in Sub(D, l[z]) => <<p, z>> \in L
                         /\ p \in Sub(D, m[z]) => <<z, p>> \in L
        BY <1>3 DEF Nested
      <4> QED
        BY <1>3, <3>4, <4>1, <4>2, <4>3 DEF Succeeds
    <3>6. InOrder((R \ {p}) \cup {q}, a.left, a.right, a.up, L, x)
      BY <1>2, <1>3, <1>9, <3>1, <3>3, <3>5, NestedMoved
    <3>7. Ordered(a, x)
      BY <1>1, <3>3, <3>6 DEF Ordered
    <3> QED
      BY <3>2, <3>3, <3>7
  <2>2. CASE v.length # F
    <3>1. PICK n, side, atLeft : n = v.node /\ side = v.side /\ atLeft \in BOOLEAN /\ (atLeft <=> ~(side >= 0))
      OBVIOUS
    <3>2. /\ n \in R \cup Roots /\ side \in Int /\ Child(t, n, side) = Nil
          /\ IF n \in Roots THEN n = Root(x[q]) /\ side >= 0 ELSE x[n] = x[q]
      BY <1>6, <2>2, <3>1
    <3>3. Reg(a) = R \cup {q} /\ LeafAt(t, q, n, ~(side >= 0), a)
      BY <1>1, <1>7, <2>2, <3>1, <3>2, Attached
    <3>4. n \in R => Belongs(R, l, m, L, D, q, n, atLeft)
      <4>1. n \in R => Belongs(R, l, m, L, D, q, n, ~(side >= 0))
        BY <1>1, <1>4, <2>2, <3>1 DEF Searches
      <4> QED
        BY <3>1, <4>1 DEF Belongs
    <3>5. PICK l2, m2, u2 : l2 = a.left /\ m2 = a.right /\ u2 = a.up
      OBVIOUS
    <3>6. Grafted(l, m, u, q, n, atLeft, l2, m2, u2)
      BY <1>1, <3>1, <3>3, <3>5, Places DEF LeafAt, Grafted
    <3>7. Room(R, l, m, L, D, x, q, n, atLeft)
      BY <1>1, <1>3, <3>1, <3>2, <3>4 DEF Child, Room
    <3>8. x[q] \in Byte /\ \A p \in R : <<p, p>> \notin L
      BY <1>3, <1>9, Places DEF Text, Place
    <3>9. InOrder(R \cup {q}, l2, m2, u2, L, x)
      BY <1>2, <1>3, <3>1, <3>6, <3>7, <3>8, NestedWithLeaf
    <3> QED
      BY <1>1, <3>3, <3>5, <3>9 DEF Ordered
  <2> QED
    BY <2>1, <2>2
<1> QED
  BY <1>1, <1>4, <1>6, <1>8, <1>10

\* The order is one of the bytes of the strings in the trees.
LEMMA OrderedText ==
    ASSUME NEW t, NEW x \in Text, NEW x2 \in Text, Sound(t, x), Ordered(t, x),
           \A p \in Reg(t) : \A j \in 0..(F - 1) : x2[p + j] = x[p + j]
    PROVE  Ordered(t, x2)
<1>1. PICK R, l, m, u, L, L2 : /\ R = Reg(t) /\ l = t.left /\ m = t.right /\ u = t.up
                               /\ L = Order(x) /\ L2 = Order(x2)
  OBVIOUS
<1>2. PICK D : Nested(R, l, m, u, L, D) /\ Covers(R, m, x, D)
  BY <1>1 DEF Ordered, InOrder
<1>3. R \in SUBSET Place
  BY <1>1, TreeFields DEF Sound
<1>4. \A a \in R, b \in R : <<a, b>> \in L => <<a, b>> \in L2
  <2>1. \A a \in R, b \in R : Less(x, a, b) <=> Less(x2, a, b)
    BY <1>1, LessSame
  <2> QED
    BY <1>1, <1>3, <2>1, OrderIs
<1>5. \A p \in R : x2[p] = x[p]
  <2>1. 0 \in 0..(F - 1) /\ \A p \in R : p + 0 = p
    BY <1>3, Places DEF Place
  <2> QED
    BY <1>1, <2>1
<1>6. Nested(R, l, m, u, L2, D)
  <2>1. /\ D \in [R -> SUBSET R]
        /\ \A p \in R : D[p] = {p} \cup Sub(D, l[p]) \cup Sub(D, m[p])
        /\ \A p \in R : \A y \in Sub(D, l[p]) : <<y, p>> \in L
        /\ \A p \in R : \A y \in Sub(D, m[p]) : <<p, y>> \in L
        /\ \A p \in R : \A y \in D[p] : D[y] \subseteq D[p] /\ (y = p \/ u[y] \in D[p])
    BY <1>2 DEF Nested
  <2>2. \A p \in R : \A y \in Sub(D, l[p]) : y \in R
    BY <2>1
  <2>3. \A p \in R : \A y \in Sub(D, m[p]) : y \in R
    BY <2>1
  <2> QED
    BY <1>4, <2>1, <2>2, <2>3 DEF Nested
<1>7. Covers(R, m, x2, D)
  BY <1>2, <1>5 DEF Covers
<1> QED
  BY <1>1, <1>6, <1>7 DEF Ordered, InOrder

-----------------------------------------------------------------------------
(* The ring: offsets of the input and their places. *)

\* Division with a remainder, the quotient named.
LEMMA Remainder ==
    ASSUME NEW b \in Nat \ {0}, NEW x \in Int
    PROVE  \E q \in Int, d \in 0..(b - 1) : x = b * q + d /\ x % b = d
<1>1. x % b \in 0..(b - 1) /\ x \div b \in Int /\ x = b * (x \div b) + (x % b)
  OBVIOUS
<1> QED
  BY <1>1

\* Multiples of one number.
LEMMA Multiples ==
    ASSUME NEW b \in Nat \ {0}, NEW m \in Int, NEW n \in Int
    PROVE  /\ b * m \in Int /\ b * n \in Int /\ b * (m + n) = b * m + b * n /\ b * (m - n) = b * m - b * n
           /\ m < n => b * m + b <= b * n
<1>1. b * m \in Int /\ b * n \in Int /\ b * (m + n) = b * m + b * n /\ b * (m - n) = b * m - b * n
  OBVIOUS
<1>2. ASSUME m < n PROVE b * m + b <= b * n
  <2>1. \A u, v \in Nat : u * v \in Nat
    OBVIOUS
  <2>2. b * (n - m - 1) \in Nat
    <3>1. n - m - 1 \in Nat /\ b \in Nat
      BY <1>2
    <3> QED
      BY <2>1, <3>1
  <2>3. b * (n - m - 1) = b * n - b * m - b
    OBVIOUS
  <2> QED
    BY <2>2, <2>3
<1> QED
  BY <1>1, <1>2

\* The remainder is the only one.
LEMMA RemainderIs ==
    ASSUME NEW b \in Nat \ {0}, NEW x \in Int, NEW q \in Int, NEW d \in 0..(b - 1), x = b * q + d
    PROVE  x % b = d
<1>1. PICK p \in Int, e \in 0..(b - 1) : x = b * p + e /\ x % b = e
  BY Remainder
<1>2. e \in 0..(b - 1) /\ p \in Int /\ x = b * p + e
  BY <1>1
<1>3. b * q \in Int /\ b * p \in Int /\ (q < p => b * q + b <= b * p) /\ (p < q => b * p + b <= b * q)
  BY <1>2, Multiples
<1>4. ~(q < p) /\ ~(p < q)
  BY <1>2, <1>3
<1>5. p = q
  BY <1>2, <1>4
<1> QED
  BY <1>1, <1>2, <1>3, <1>5

\* The remainder of a sum, of which one part is a remainder.
LEMMA RemainderSum ==
    ASSUME NEW b \in Nat \ {0}, NEW x \in Int, NEW k \in Int
    PROVE  ((x % b) + k) % b = (x + k) % b
<1>1. PICK q \in Int, d \in 0..(b - 1) : x = b * q + d /\ x % b = d
  BY Remainder
<1>2. d + k \in Int
  BY <1>1
<1>3. PICK p \in Int, e \in 0..(b - 1) : d + k = b * p + e /\ (d + k) % b = e
  BY <1>2, Remainder
<1>6. b * (q + p) = b * q + b * p /\ b * q \in Int /\ b * p \in Int
  BY Multiples
<1>4. x + k = b * (q + p) + e /\ q + p \in Int /\ x + k \in Int
  BY <1>1, <1>3, <1>6
<1>5. (x + k) % b = e
  BY <1>3, <1>4, RemainderIs
<1> QED
  BY <1>1, <1>3, <1>5

-----------------------------------------------------------------------------
\* The place in the ring of the byte at offset j of the input; the bytes before the
\* input are blanks.
At(j) == ((N - F) + j) % N

\* An offset has a place in the ring.
LEMMA AtPlace ==
    ASSUME NEW j \in Int
    PROVE  At(j) \in Place /\ At(j) \in 0..(N - 1)
<1>1. N \in Nat \ {0} /\ (N - F) + j \in Int
  BY Places
<1>2. PICK q \in Int, d \in 0..(N - 1) : (N - F) + j = N * q + d /\ ((N - F) + j) % N = d
  BY <1>1, Remainder
<1> QED
  BY <1>2 DEF At, Place

\* Steps round the ring.
LEMMA AtSum ==
    ASSUME NEW j \in Int, NEW k \in Int
    PROVE  (At(j) + k) % N = At(j + k)
<1>1. N \in Nat \ {0} /\ (N - F) + j \in Int /\ ((N - F) + j) + k = (N - F) + (j + k)
  BY Places
<1> QED
  BY <1>1, RemainderSum DEF At

\* The distance between two places.
LEMMA AtDistance ==
    ASSUME NEW i \in Int, NEW j \in Int
    PROVE  (At(j) - At(i)) % N = (j - i) % N
<1>1. N \in Nat \ {0}
  BY Places
<1>2. PICK x, y : x = (N - F) + i /\ y = (N - F) + j /\ x \in Int /\ y \in Int /\ y - x = j - i
  BY <1>1, Places
<1>3. PICK q \in Int, d \in 0..(N - 1) : x = N * q + d /\ x % N = d
  BY <1>1, <1>2, Remainder
<1>4. PICK p \in Int, e \in 0..(N - 1) : y = N * p + e /\ y % N = e
  BY <1>1, <1>2, Remainder
<1>5. PICK h \in Int, g \in 0..(N - 1) : e - d = N * h + g /\ (e - d) % N = g
  <2>1. e - d \in Int
    BY <1>1, <1>3, <1>4
  <2> QED
    BY <1>1, <2>1, Remainder
<1>6. y - x = N * ((p - q) + h) + g
  <2>1. N * (p - q) = N * p - N * q /\ N * p \in Int /\ N * q \in Int
    BY <1>1, <1>3, <1>4, Multiples
  <2>2. p - q \in Int
    BY <1>3, <1>4
  <2>3. N * ((p - q) + h) = N * (p - q) + N * h /\ N * h \in Int
    BY <1>1, <1>5, <2>2, Multiples
  <2>4. PICK u, v, z : u = N * p /\ v = N * q /\ z = N * h /\ u \in Int /\ v \in Int /\ z \in Int
    BY <2>1, <2>3
  <2>5. N * ((p - q) + h) = (u - v) + z
    BY <2>1, <2>3, <2>4
  <2>6. y - x = ((u - v) + z) + g
    BY <1>3, <1>4, <1>5, <2>4
  <2> QED
    BY <2>5, <2>6
<1>7. (y - x) % N = g
  <2>1. (p - q) + h \in Int /\ y - x \in Int
    BY <1>2, <1>3, <1>4, <1>5
  <2> QED
    BY <1>1, <1>5, <1>6, <2>1, RemainderIs
<1> QED
  BY <1>2, <1>3, <1>4, <1>5, <1>7 DEF At

\* Offsets less than N apart are as far apart as their places.
LEMMA AtNear ==
    ASSUME NEW i \in Int, NEW j \in Int, i <= j, j < i + N
    PROVE  (At(j) - At(i)) % N = j - i
<1>1. N \in Nat \ {0} /\ j - i \in 0..(N - 1) /\ j - i \in Int /\ j - i = N * 0 + (j - i)
  BY Places
<1>2. (j - i) % N = j - i
  BY <1>1, RemainderIs
<1> QED
  BY <1>2, AtDistance

\* Offsets less than N apart have places of their own.
LEMMA AtApart ==
    ASSUME NEW i \in Int, NEW j \in Int, At(i) = At(j), i <= j, j < i + N
    PROVE  i = j
<1>1. (At(j) - At(i)) % N = j - i
  BY AtNear
<1>2. PICK p : p = At(i) /\ p \in Int
  BY AtPlace
<1>3. p - p = 0 /\ 0 \in 0..(N - 1) /\ 0 = N * 0 + 0 /\ N \in Nat \ {0}
  BY <1>2, Places
<1>4. 0 % N = 0
  BY <1>3, RemainderIs
<1> QED
  BY <1>1, <1>2, <1>3, <1>4

\* Once round the ring.
LEMMA AtAround ==
    ASSUME NEW j \in Int
    PROVE  At(j + N) = At(j)
<1>5. N \in Nat \ {0} /\ (N - F) + j \in Int
  BY Places
<1>1. PICK q \in Int, d \in 0..(N - 1) : (N - F) + j = N * q + d /\ ((N - F) + j) % N = d
  BY <1>5, Remainder
<1>2. N * (q + 1) = N * q + N * 1 /\ N * q \in Int
  BY <1>1, Multiples, Places
<1>3. (N - F) + (j + N) = N * (q + 1) + d /\ q + 1 \in Int /\ (N - F) + (j + N) \in Int
  BY <1>1, <1>2, Places
<1>4. ((N - F) + (j + N)) % N = d
  BY <1>1, <1>3, RemainderIs, Places
<1> QED
  BY <1>1, <1>4 DEF At

\* Without a remainder the sum goes on behind the ring.
LEMMA AtBehind ==
    ASSUME NEW j \in Int, NEW i \in 0..(N - 1)
    PROVE  At(j) + i = At(j + i) \/ (At(j) + i = At(j + i) + N /\ At(j + i) < i)
<1>1. (At(j) + i) % N = At(j + i)
  BY AtSum, Places
<1>2. PICK p : p = At(j) /\ p \in 0..(N - 1)
  BY AtPlace
<1>3. N \in Nat \ {0}
  BY Places
<1>4. CASE p + i < N
  <2>1. p + i \in 0..(N - 1) /\ p + i = N * 0 + (p + i) /\ p + i \in Int
    BY <1>2, <1>3, <1>4
  <2>2. (p + i) % N = p + i
    BY <1>3, <2>1, RemainderIs
  <2> QED
    BY <1>1, <1>2, <2>2
<1>5. CASE ~(p + i < N)
  <2>3. PICK d : d = (p + i) - N
    OBVIOUS
  <2>1. d \in 0..(N - 1) /\ p + i = N * 1 + d /\ p + i \in Int /\ 1 \in Int
    BY <1>2, <1>3, <1>5, <2>3
  <2>2. (p + i) % N = (p + i) - N
    BY <1>3, <2>1, <2>3, RemainderIs
  <2> QED
    BY <1>1, <1>2, <1>3, <2>1, <2>2, <2>3
<1> QED
  BY <1>4, <1>5

\* The offsets that have a place without a remainder.
LEMMA AtBlank ==
    ASSUME NEW j \in Int, F - N <= j, j < F
    PROVE  At(j) = (N - F) + j
<1>1. PICK d : d = (N - F) + j
  OBVIOUS
<1>2. N \in Nat \ {0} /\ d \in 0..(N - 1) /\ d \in Int /\ d = N * 0 + d /\ 0 \in Int
  BY <1>1, Places
<1>3. d % N = d
  BY <1>2, RemainderIs
<1> QED
  BY <1>1, <1>3 DEF At

\* The text: blanks, and then the bytes of d.
Origin(d, j) == IF j < 0 THEN Space ELSE d[j + 1]

\* The ring x holds the N bytes before offset m, and the copy behind it what was
\* read of them.
Holds(x, d, m) ==
    \A j \in Int : m - N <= j /\ j < m /\ F - N <= j =>
        /\ x[At(j)] = Origin(d, j)
        /\ 0 <= j /\ At(j) < F - 1 => x[At(j) + N] = Origin(d, j)

\* Up to F bytes from a place in the ring on are read without a remainder.
LEMMA HoldsRead ==
    ASSUME NEW x, NEW d, NEW m \in Int, Holds(x, d, m), NEW j \in Int, NEW i \in 0..(F - 1),
           m - N <= j, F - N <= j, j + i < m
    PROVE  x[At(j) + i] = Origin(d, j + i)
<1>1. PICK g : g = j + i
  OBVIOUS
<1>2. g \in Int /\ m - N <= g /\ F - N <= g /\ g < m /\ i \in 0..(N - 1) /\ i < F
  BY <1>1, Places
<1>3. /\ x[At(g)] = Origin(d, g)
      /\ 0 <= g /\ At(g) < F - 1 => x[At(g) + N] = Origin(d, g)
  BY <1>2 DEF Holds
<1>4. At(j) + i = At(g) \/ (At(j) + i = At(g) + N /\ At(g) < i)
  BY <1>1, <1>2, AtBehind
<1>5. PICK p, q : p = At(j) /\ q = At(g) /\ p \in 0..(N - 1) /\ q \in 0..(N - 1)
  BY <1>2, AtPlace
<1>6. CASE p + i = q
  BY <1>1, <1>3, <1>5, <1>6
<1>7. CASE p + i = q + N /\ q < i
  <2>1. q < F - 1
    BY <1>2, <1>5, <1>7, Places
  <2>2. 0 <= g
    <3>1. SUFFICES ASSUME g < 0 PROVE FALSE
      BY <1>2
    <3>2. p = (N - F) + j /\ q = (N - F) + g
      BY <1>1, <1>2, <1>5, <3>1, AtBlank, Places
    <3> QED
      BY <1>1, <1>7, <3>2, Places
  <2> QED
    BY <1>1, <1>3, <1>5, <1>7, <2>1, <2>2
<1> QED
  BY <1>4, <1>5, <1>6, <1>7

\* The next byte is written where the byte N before it was.
LEMMA HoldsNext ==
    ASSUME NEW x \in Text, NEW d \in Seq(Byte), NEW m \in 0..(Len(d) - 1), Holds(x, d, m),
           NEW x2, x2 = [i \in DOMAIN x |-> IF i = At(m) \/ (At(m) < F - 1 /\ i = At(m) + N) THEN d[m + 1] ELSE x[i]]
    PROVE  /\ x2 \in Text /\ Holds(x2, d, m + 1)
           /\ \A p \in Place : p # At(m) => x2[p] = x[p]
<1>9. m \in Int /\ m + 1 \in 1..Len(d) /\ d[m + 1] \in Byte
  OBVIOUS
<1>1. PICK q, c : q = At(m) /\ c = d[m + 1] /\ q \in 0..(N - 1) /\ c \in Byte
  BY <1>9, AtPlace
<1>2. DOMAIN x = 0..(N + F - 2) /\ \A i \in 0..(N + F - 2) : x[i] \in Byte
  BY DEF Text
<1>3. x2 = [i \in 0..(N + F - 2) |-> IF i = q \/ (q < F - 1 /\ i = q + N) THEN c ELSE x[i]]
  BY <1>1, <1>2
<1>4. x2 \in Text
  BY <1>1, <1>2, <1>3 DEF Text
<1>5. \A i \in 0..(N + F - 2) : x2[i] = IF i = q \/ (q < F - 1 /\ i = q + N) THEN c ELSE x[i]
  BY <1>3
<1>6. \A p \in 0..(N - 1) : p \in 0..(N + F - 2) /\ (p < F - 1 => p + N \in 0..(N + F - 2))
  BY Places
<1>7. \A p \in Place : p # q => x2[p] = x[p]
  <2>1. \A p \in Place : p \in 0..(N + F - 2) /\ p # q + N
    BY <1>1, <1>6, Places DEF Place
  <2> QED
    BY <1>5, <2>1
<1>8. ASSUME NEW j \in Int, (m + 1) - N <= j, j < m + 1, F - N <= j
      PROVE  /\ x2[At(j)] = Origin(d, j)
             /\ 0 <= j /\ At(j) < F - 1 => x2[At(j) + N] = Origin(d, j)
  <2>1. PICK p : p = At(j) /\ p \in 0..(N - 1)
    BY AtPlace
  <2>2. CASE j = m
    <3>1. Origin(d, j) = c /\ p = q
      BY <1>1, <2>1, <2>2 DEF Origin
    <3> QED
      BY <1>5, <1>6, <2>1, <3>1
  <2>3. CASE j # m
    <3>1. j < m /\ m - N <= j /\ j <= m /\ m < j + N /\ m \in Int
      BY <1>8, <2>3, Places
    <3>2. p # q
      BY <1>1, <2>1, <2>3, <3>1, AtApart
    <3>3. /\ x[p] = Origin(d, j)
          /\ 0 <= j /\ p < F - 1 => x[p + N] = Origin(d, j)
      BY <1>8, <2>1, <3>1 DEF Holds
    <3>4. p # q + N /\ p + N # q /\ p + N # q + N
      BY <1>1, <2>1, <3>2, Places
    <3>5. x2[p] = x[p] /\ (p < F - 1 => x2[p + N] = x[p + N])
      BY <1>5, <1>6, <2>1, <3>2, <3>4
    <3> QED
      BY <2>1, <3>3, <3>5
  <2> QED
    BY <2>2, <2>3
<1> QED
  BY <1>1, <1>4, <1>7, <1>8 DEF Holds

-----------------------------------------------------------------------------
(* The window, and matches in it. *)

\* The n bytes from a place p in the window on are those at offset o.
Matches(d, o, p, n) ==
    \E k \in 1..(N - F) : p = At(o - k) /\ \A i \in 0..(n - 1) : Origin(d, (o - k) + i) = Origin(d, o + i)

\* The strings in the trees begin in the window before offset o, or at o.
Window(t, o) == \A p \in Reg(t) : \E j \in (o - (N - F))..o : p = At(j)
Behind(t, o) == \A p \in Reg(t) : \E j \in (o - (N - F))..(o - 1) : p = At(j)

\* Once the oldest string is dropped, the rest begins before the next offset.
LEMMA Dropped ==
    ASSUME NEW t, NEW x, Sound(t, x), NEW o \in Int, Window(t, o)
    PROVE  \A a : a = DeleteNode(t, At(o + F)) => /\ Sound(a, x) /\ Behind(a, o + 1) /\ Window(a, o + 1)
                                               /\ At(o + F) \notin Reg(a)
<1>1. PICK a, p : a = DeleteNode(t, p) /\ p = At(o + F)
  OBVIOUS
<1>2. o + F \in Int /\ o - (N - F) \in Int /\ (o - (N - F)) + N = o + F
  BY Places
<1>3. p \in Place /\ At(o - (N - F)) = p
  BY <1>1, <1>2, AtPlace, AtAround
<1>4. Sound(a, x) /\ Reg(a) = Reg(t) \ {p}
  BY <1>1, <1>3, Deleted
<1>5. Behind(a, o + 1)
  <2>1. SUFFICES ASSUME NEW y \in Reg(a) PROVE \E j \in ((o + 1) - (N - F))..((o + 1) - 1) : y = At(j)
    BY DEF Behind
  <2>2. PICK j \in (o - (N - F))..o : y = At(j)
    BY <1>4, <2>1 DEF Window
  <2>3. j # o - (N - F)
    BY <1>3, <1>4, <2>1, <2>2
  <2>4. j \in ((o + 1) - (N - F))..((o + 1) - 1)
    BY <2>2, <2>3, Places
  <2> QED
    BY <2>2, <2>4
<1>6. Window(a, o + 1)
  <2>1. \A j : j \in ((o + 1) - (N - F))..((o + 1) - 1) => j \in ((o + 1) - (N - F))..(o + 1)
    BY Places
  <2> QED
    BY <1>5, <2>1 DEF Behind, Window
<1> QED
  BY <1>1, <1>4, <1>5, <1>6

\* The string at o is none of those before it.
LEMMA NotBehind ==
    ASSUME NEW t, NEW o \in Nat, Behind(t, o)
    PROVE  At(o) \in Place /\ At(o) \notin Reg(t)
<1>1. At(o) \in Place
  BY AtPlace
<1>2. ASSUME At(o) \in Reg(t) PROVE FALSE
  <2>1. PICK j \in (o - (N - F))..(o - 1) : At(o) = At(j)
    BY <1>2 DEF Behind
  <2>2. j \in Int /\ o \in Int /\ j <= o /\ o < j + N /\ j # o /\ At(j) = At(o)
    BY <2>1, Places
  <2> QED
    BY <2>2, AtApart
<1> QED
  BY <1>1, <1>2

\* The string that begins the look-ahead is registered, and what is found matches it.
LEMMA Registers ==
    ASSUME NEW t, NEW x \in Text, Sound(t, x), NEW d, NEW o \in Nat, NEW n \in 0..F, Behind(t, o), Holds(x, d, o + n)
    PROVE  \A found : found = InsertNode(t, x, At(o)) =>
           /\ Sound(found.tree, x) /\ Window(found.tree, o)
           /\ found.length \in 0..F /\ found.position \in Place
           /\ \A e \in 1..n : e <= found.length => Matches(d, o, found.position, e)
<1>1. PICK found, q : found = InsertNode(t, x, q) /\ q = At(o)
  OBVIOUS
<1>2. q \in Place /\ q \notin Reg(t)
  BY <1>1, NotBehind
<1>4. /\ Sound(found.tree, x) /\ Reg(found.tree) \subseteq Reg(t) \cup {q}
      /\ found.length \in 0..F /\ found.position \in Place
      /\ found.length > 0 => /\ found.position \in Reg(t)
                             /\ \A i \in 0..(found.length - 1) : x[q + i] = x[found.position + i]
  BY <1>1, <1>2, Inserted
<1>5. Window(found.tree, o)
  <2>1. SUFFICES ASSUME NEW y \in Reg(found.tree) PROVE \E j \in (o - (N - F))..o : y = At(j)
    BY DEF Window
  <2>2. CASE y = q
    <3>1. o \in (o - (N - F))..o
      BY Places
    <3> QED
      BY <1>1, <2>2, <3>1
  <2>3. CASE y # q
    <3>1. PICK j \in (o - (N - F))..(o - 1) : y = At(j)
      BY <1>4, <2>1, <2>3 DEF Behind
    <3>2. j \in (o - (N - F))..o
      BY <3>1, Places
    <3> QED
      BY <3>1, <3>2
  <2> QED
    BY <2>2, <2>3
<1>6. ASSUME NEW e \in 1..n, e <= found.length PROVE Matches(d, o, found.position, e)
  <2>1. found.length > 0 /\ n \in Nat /\ e \in Nat /\ found.length \in Nat /\ e <= F
    BY <1>4, <1>6, Places
  <2>2. PICK j \in (o - (N - F))..(o - 1) : found.position = At(j)
    BY <1>4, <2>1 DEF Behind
  <2>3. PICK k : k = o - j /\ k \in 1..(N - F) /\ j = o - k /\ j \in Int
    BY <2>2, Places
  <2>4. ASSUME NEW i \in 0..(e - 1) PROVE Origin(d, (o - k) + i) = Origin(d, o + i)
    <3>1. i \in 0..(F - 1) /\ i \in 0..(found.length - 1) /\ o + i < o + n
      BY <1>4, <1>6, <2>1, Places
    <3>2. x[At(o) + i] = x[At(j) + i]
      BY <1>1, <1>4, <2>1, <2>2, <3>1
    <3>3. o + n \in Int /\ (o + n) - N <= o /\ F - N <= o /\ (o + n) - N <= j /\ F - N <= j /\ j + i < o + n
      BY <2>2, <3>1, Places
    <3>4. x[At(o) + i] = Origin(d, o + i)
      BY <3>1, <3>3, HoldsRead
    <3>5. x[At(j) + i] = Origin(d, j + i)
      BY <2>3, <3>1, <3>3, HoldsRead
    <3> QED
      BY <2>3, <3>2, <3>4, <3>5
  <2> QED
    BY <2>2, <2>3, <2>4 DEF Matches
<1> QED
  BY <1>1, <1>4, <1>5, <1>6

\* The trees see only the bytes of the strings in them.
LEMMA SoundText ==
    ASSUME NEW t, NEW x, NEW x2, Sound(t, x), \A p \in Reg(t) : x2[p] = x[p]
    PROVE  Sound(t, x2)
<1>1. SameByte(Reg(t), t.up, x2)
  <2>1. SUFFICES ASSUME NEW p \in Reg(t)
                 PROVE  IF t.up[p] \in Roots THEN t.up[p] = Root(x2[p]) ELSE x2[t.up[p]] = x2[p]
    BY DEF SameByte
  <2>2. t.up[p] \in Reg(t) \cup Roots
    BY <2>1 DEF Sound, Forest
  <2> QED
    BY <2>1, <2>2 DEF Sound, SameByte
<1> QED
  BY <1>1 DEF Sound

\* InitState registers nothing.
LEMMA FirstTree ==
    ASSUME NEW x
    PROVE  Sound(InitState, x) /\ Reg(InitState) = {}
<1>1. PICK t : t = InitState
  OBVIOUS
<1>2. /\ t.left = [p \in 0..N |-> 0] /\ t.right = [p \in 0..N \cup Roots |-> IF p \in Roots THEN Nil ELSE 0]
      /\ t.up = [p \in 0..N |-> IF p = Nil THEN 0 ELSE Nil]
      /\ t = [left |-> t.left, right |-> t.right, up |-> t.up]
  BY <1>1 DEF InitState
<1>3. t \in Tree
  <2>1. 0 \in 0..N /\ Nil \in 0..N
    BY Places
  <2>2. t.left \in [0..N -> 0..N] /\ t.right \in [0..N \cup Roots -> 0..N] /\ t.up \in [0..N -> 0..N \cup Roots]
    BY <1>2, <2>1
  <2> QED
    BY <1>2, <2>2 DEF Tree
<1>4. Reg(t) = {}
  BY <1>2, <1>3, Places, TreeFields
<1>5. Forest({}, t.left, t.right, t.up)
  <2>1. \A p \in Roots : t.right[p] = Nil
    BY <1>2
  <2> QED
    BY <2>1 DEF Forest
<1>6. SameByte({}, t.up, x)
  BY DEF SameByte
<1>7. \E f : Ranked({}, t.up, f)
  <2>1. [p \in Place |-> 0] \in [Place -> Nat]
    OBVIOUS
  <2> QED
    BY <2>1 DEF Ranked
<1> QED
  BY <1>1, <1>3, <1>4, <1>5, <1>6, <1>7 DEF Sound

\* Nothing is out of order in trees that hold nothing.
LEMMA FirstOrdered ==
    ASSUME NEW x
    PROVE  Ordered(InitState, x)
<1>1. PICK t, D : t = InitState /\ D = [y \in {} |-> {}]
  OBVIOUS
<1>2. Reg(t) = {}
  BY <1>1, FirstTree
<1>3. Nested({}, t.left, t.right, t.up, Order(x), D)
  BY <1>1 DEF Nested
<1>4. \A c \in Byte : t.right[Root(c)] = Nil
  <2>1. \A p \in Roots : t.right[p] = Nil
    BY <1>1 DEF InitState
  <2> QED
    BY <2>1, Places
<1>5. Covers({}, t.right, x, D)
  BY <1>4 DEF Covers, Sub
<1> QED
  BY <1>1, <1>2, <1>3, <1>5 DEF Ordered, InOrder

\* The text after Compress has read the first bytes.
FirstText == [i \in 0..(N + F - 2) |-> IF i < N - F THEN Space ELSE 0]

\* The first bytes of the input join the blanks.
LEMMA FirstHolds ==
    ASSUME NEW d \in Seq(Byte), NEW n \in 0..F, n <= Len(d), NEW x,
           x = [i \in DOMAIN FirstText |-> IF i \in (N - F)..((N - F) + n - 1) THEN d[i - (N - F) + 1] ELSE FirstText[i]]
    PROVE  x \in Text /\ Holds(x, d, n)
<1>1. N \in Nat /\ F \in Nat /\ n \in Nat /\ Len(d) \in Nat /\ F >= 2 /\ N >= 2 * F
  BY Places
<1>2. 0 \in Byte /\ Space \in Byte
  BY LzssTreeAssumption
<1>3. \A i \in 0..(N + F - 2) : x[i] = IF i \in (N - F)..((N - F) + n - 1) THEN d[i - (N - F) + 1]
                                       ELSE IF i < N - F THEN Space ELSE 0
  BY DEF FirstText
<1>4. \A i \in (N - F)..((N - F) + n - 1) : d[i - (N - F) + 1] \in Byte
  <2>1. \A i \in (N - F)..((N - F) + n - 1) : i - (N - F) + 1 \in 1..Len(d)
    BY <1>1
  <2>2. \A i \in 1..Len(d) : d[i] \in Byte
    OBVIOUS
  <2> QED
    BY <2>1, <2>2
<1>5. x \in Text
  <2>1. DOMAIN FirstText = 0..(N + F - 2)
    BY DEF FirstText
  <2>2. \A i \in 0..(N + F - 2) : x[i] \in Byte
    BY <1>2, <1>3, <1>4
  <2> QED
    BY <2>1, <2>2 DEF Text
<1>6. ASSUME NEW j \in Int, n - N <= j, j < n, F - N <= j
      PROVE  /\ x[At(j)] = Origin(d, j)
             /\ 0 <= j /\ At(j) < F - 1 => x[At(j) + N] = Origin(d, j)
  <2>1. j < F
    BY <1>1, <1>6
  <2>2. At(j) = (N - F) + j
    BY <1>6, <2>1, AtBlank
  <2>3. PICK i : i = (N - F) + j /\ i \in 0..(N + F - 2) /\ i < N
    BY <1>1, <1>6, <2>1
  <2>4. CASE j < 0
    BY <1>1, <1>3, <2>2, <2>3, <2>4 DEF Origin
  <2>5. CASE ~(j < 0)
    <3>1. i \in (N - F)..((N - F) + n - 1) /\ i - (N - F) + 1 = j + 1 /\ ~(i < F - 1)
      BY <1>1, <1>6, <2>3, <2>5
    <3> QED
      BY <1>3, <2>2, <2>3, <2>5, <3>1 DEF Origin
  <2> QED
    BY <2>4, <2>5
<1> QED
  BY <1>5, <1>6 DEF Holds

\* The strings before the look-ahead are registered one after the other.
IsBefore(b, x) ==
    b = [i \in 0..F |-> IF i = 0 THEN InitState ELSE InsertNode(b[i - 1], x, (N - F) - i).tree]

\* The strings in the trees are among the i before the text.
Preceding(t, i) == \A p \in Reg(t) : \E j \in 1..i : p = At(0 - j)

\* One of the F strings before the text is registered.
LEMMA OneBefore ==
    ASSUME NEW t, NEW x \in Text, Sound(t, x), NEW i \in 1..F, Preceding(t, i - 1)
    PROVE  LET q == (N - F) - i IN
           /\ q \in Place /\ q \notin Reg(t)
           /\ Sound(InsertNode(t, x, q).tree, x) /\ Preceding(InsertNode(t, x, q).tree, i)
           /\ Ordered(t, x) => Ordered(InsertNode(t, x, q).tree, x)
<1>1. PICK q : q = (N - F) - i
  OBVIOUS
<1>2. i \in Int /\ 0 - i \in Int /\ F - N <= 0 - i /\ 0 - i < F /\ (N - F) + (0 - i) = q
  BY <1>1, Places
<1>3. q = At(0 - i) /\ q \in Place
  BY <1>2, AtBlank, AtPlace
<1>4. q \notin Reg(t)
  <2>1. SUFFICES ASSUME q \in Reg(t) PROVE FALSE
    OBVIOUS
  <2>2. PICK j \in 1..(i - 1) : q = At(0 - j)
    BY <2>1 DEF Preceding
  <2>3. 0 - j \in Int /\ 0 - i <= 0 - j /\ 0 - j < (0 - i) + N /\ 0 - i # 0 - j
    BY <1>2, <2>2, Places
  <2> QED
    BY <1>2, <1>3, <2>2, <2>3, AtApart
<1>5. PICK found : found = InsertNode(t, x, q)
  OBVIOUS
<1>6. Sound(found.tree, x) /\ Reg(found.tree) \subseteq Reg(t) \cup {q}
  BY <1>3, <1>4, <1>5, Inserted
<1>7. Preceding(found.tree, i)
  <2>1. SUFFICES ASSUME NEW y \in Reg(found.tree) PROVE \E j \in 1..i : y = At(0 - j)
    BY DEF Preceding
  <2>2. CASE y = q
    <3>1. i \in 1..i
      OBVIOUS
    <3> QED
      BY <1>3, <2>2, <3>1
  <2>3. CASE y # q
    <3>1. PICK j \in 1..(i - 1) : y = At(0 - j)
      BY <1>6, <2>1, <2>3 DEF Preceding
    <3>2. j \in 1..i
      BY <3>1
    <3> QED
      BY <3>1, <3>2
  <2> QED
    BY <2>2, <2>3
<1>8. Ordered(t, x) => Ordered(found.tree, x)
  BY <1>3, <1>4, <1>5, InsertedOrdered
<1> QED
  BY <1>1, <1>3, <1>4, <1>5, <1>6, <1>7, <1>8

\* The function that Fill declares exists.
LEMMA BeforeExists ==
    ASSUME NEW x \in Text
    PROVE  \E b : IsBefore(b, x)
<1> DEFINE S == {t \in Tree : Sound(t, x)}
           On(i, t) == InsertNode(t, x, (N - F) - i).tree
           Kept(i, t) == IF Preceding(t, i - 1) THEN On(i, t) ELSE t
           step == [i \in 1..F |-> [t \in S |-> Kept(i, t)]]
<1>1. F \in Nat
  BY Places
<1>2. InitState \in S /\ Preceding(InitState, 0)
  BY FirstTree DEF Sound, Preceding
<1>3. ASSUME NEW t \in S, NEW i \in 1..F, Preceding(t, i - 1)
      PROVE  On(i, t) \in S /\ Preceding(On(i, t), i)
  <2>1. Sound(t, x)
    OBVIOUS
  <2>2. PICK a : a = On(i, t)
    OBVIOUS
  <2>3. Sound(a, x) /\ Preceding(a, i)
    BY <1>3, <2>1, <2>2, OneBefore
  <2> QED
    BY <2>2, <2>3 DEF Sound
<1>4. \A t \in S, i \in 1..F : Kept(i, t) \in S
  BY <1>3
<1>5. step \in [1..F -> [S -> S]]
  BY <1>4
<1>6. \A t \in S, i \in 1..F : step[i][t] = Kept(i, t)
  OBVIOUS
<1>7. \A t \in S, i \in 1..F : Preceding(t, i - 1) => Kept(i, t) = On(i, t)
  OBVIOUS
<1> HIDE DEF S, On, Kept, step
<1>8. PICK g : Iterates(g, F, S, InitState, step)
  BY <1>1, <1>2, <1>5, Recursion
<1>9. g \in [0..F -> S] /\ g[0] = InitState /\ \A i \in 1..F : g[i] = Kept(i, g[i - 1])
  <2>1. g \in [0..F -> S] /\ g[0] = InitState /\ \A i \in 1..F : g[i] = step[i][g[i - 1]]
    BY <1>8 DEF Iterates
  <2>2. \A i \in 1..F : i - 1 \in 0..F
    BY <1>1
  <2> QED
    BY <1>6, <2>1, <2>2
<1>10. \A i \in 0..F : Preceding(g[i], i)
  <2> DEFINE P == {i \in 0..F : Preceding(g[i], i)}
  <2>1. 0 \in P
    BY <1>1, <1>2, <1>9
  <2>2. ASSUME NEW i \in 0..(F - 1), i \in P PROVE i + 1 \in P
    <3>1. i + 1 \in 1..F /\ i + 1 \in 0..F /\ (i + 1) - 1 = i /\ i \in 0..F
      BY <1>1
    <3>2. PICK t, k : t = g[i] /\ t \in S /\ k = i + 1 /\ Preceding(t, k - 1) /\ k \in 1..F
      BY <1>9, <2>2, <3>1
    <3>3. g[k] = On(k, t) /\ Preceding(On(k, t), k)
      BY <1>3, <1>7, <1>9, <3>1, <3>2
    <3> QED
      BY <3>1, <3>2, <3>3
  <2> HIDE DEF P
  <2>3. 0..F \subseteq P
    BY <1>1, <2>1, <2>2, Upward
  <2> QED
    BY <2>3 DEF P
<1>11. ASSUME NEW i \in 0..F PROVE g[i] = IF i = 0 THEN InitState ELSE On(i, g[i - 1])
  <2>1. CASE i = 0
    BY <1>9, <2>1
  <2>2. CASE i # 0
    <3>1. i \in 1..F /\ i - 1 \in 0..F
      BY <1>1, <2>2
    <3>2. g[i - 1] \in S /\ Preceding(g[i - 1], i - 1)
      BY <1>9, <1>10, <3>1
    <3> QED
      BY <1>7, <1>9, <2>2, <3>1, <3>2
  <2> QED
    BY <2>1, <2>2
<1>12. g = [i \in 0..F |-> IF i = 0 THEN InitState ELSE On(i, g[i - 1])]
  BY <1>9, <1>11
<1> QED
  BY <1>12 DEF IsBefore, On

\* The strings before the text, all registered.
LEMMA BeforeIs ==
    ASSUME NEW x \in Text, NEW b, IsBefore(b, x)
    PROVE  Sound(b[F], x) /\ Behind(b[F], 0) /\ Ordered(b[F], x)
<1>1. F \in Nat
  BY Places
<1>2. b[0] = InitState /\ \A i \in 0..(F - 1) : b[i + 1] = InsertNode(b[i], x, (N - F) - (i + 1)).tree
  <2>1. \A i \in 0..F : b[i] = IF i = 0 THEN InitState ELSE InsertNode(b[i - 1], x, (N - F) - i).tree
    BY DEF IsBefore
  <2>2. 0 \in 0..F /\ \A i \in 0..(F - 1) : i + 1 \in 0..F /\ i + 1 # 0 /\ (i + 1) - 1 = i
    BY <1>1
  <2> QED
    BY <2>1, <2>2
<1> DEFINE P == {i \in 0..F : Sound(b[i], x) /\ Preceding(b[i], i) /\ Ordered(b[i], x)}
<1>3. 0 \in P
  BY <1>1, <1>2, FirstTree, FirstOrdered DEF Preceding
<1>4. ASSUME NEW i \in 0..(F - 1), i \in P PROVE i + 1 \in P
  <2>1. PICK t, k : t = b[i] /\ k = i + 1 /\ k \in 1..F /\ k \in 0..F /\ k - 1 = i
    BY <1>1
  <2>2. Sound(t, x) /\ Preceding(t, k - 1) /\ Ordered(t, x)
    BY <1>4, <2>1
  <2>3. b[k] = InsertNode(t, x, (N - F) - k).tree
    BY <1>2, <2>1
  <2>4. Sound(b[k], x) /\ Preceding(b[k], k) /\ Ordered(b[k], x)
    BY <2>1, <2>2, <2>3, OneBefore
  <2> QED
    BY <2>1, <2>4
<1> HIDE DEF P
<1>5. 0..F \subseteq P
  BY <1>1, <1>3, <1>4, Upward
<1>6. F \in P
  BY <1>1, <1>5
<1>7. Sound(b[F], x) /\ Preceding(b[F], F) /\ Ordered(b[F], x)
  BY <1>6 DEF P
<1>8. Behind(b[F], 0)
  <2>1. SUFFICES ASSUME NEW p \in Reg(b[F]) PROVE \E j \in (0 - (N - F))..(0 - 1) : p = At(j)
    BY DEF Behind
  <2>2. PICK j \in 1..F : p = At(0 - j)
    BY <1>7, <2>1 DEF Preceding
  <2>3. 0 - j \in (0 - (N - F))..(0 - 1)
    BY <2>2, Places
  <2> QED
    BY <2>2, <2>3
<1> QED
  BY <1>7, <1>8

-----------------------------------------------------------------------------
(* The longest match.  The trees keep the youngest of equal strings; what  *)
(* they find is as long as any match in the window.                        *)

\* For each string that begins in the window before o, and not after e, there is one
\* in the trees that has its bytes and is not older.
Stands(t, x, o, e) ==
    \A j \in 0..e : o - (N - F) <= j => \E k \in j..e : At(k) \in Reg(t) /\ Shared(x, At(j), At(k), F)

\* No string of the window shares more bytes with the one at o, and one shares as many.
Longest(x, o, h) ==
    /\ \A j \in 0..(o - 1) : o - (N - F) <= j /\ x[At(j)] = x[At(o)] => Common(x, At(o), At(j)) <= h.length
    /\ h.length > 0 => \E j \in (o - (N - F))..(o - 1) :
                          h.position = At(j) /\ x[At(j)] = x[At(o)] /\ Common(x, At(o), At(j)) = h.length

\* Strings with the same bytes share as many with any other.
LEMMA CommonSame ==
    ASSUME NEW x, NEW q \in Place, NEW a \in Place, NEW b \in Place, Shared(x, a, b, F)
    PROVE  x[a] = x[b] /\ Common(x, q, a) = Common(x, q, b)
<1>1. F \in Nat /\ F >= 2 /\ a \in Int /\ b \in Int
  BY Places DEF Place
<1>2. \A i \in 0..(F - 1) : x[a + i] = x[b + i]
  BY DEF Shared
<1>3. x[a] = x[b]
  <2>1. 0 \in 0..(F - 1) /\ a + 0 = a /\ b + 0 = b
    BY <1>1
  <2> QED
    BY <1>2, <2>1
<1>4. \A i \in 1..(F - 1) : i \in 0..(F - 1)
  BY <1>1
<1>5. {i \in 1..(F - 1) : x[q + i] # x[a + i]} = {i \in 1..(F - 1) : x[q + i] # x[b + i]}
  BY <1>2, <1>4
<1> QED
  BY <1>3, <1>5 DEF Common

\* What is dropped is no string of the window of the next offset.
LEMMA StandsDropped ==
    ASSUME NEW t, NEW x, Sound(t, x), NEW o \in Nat, Stands(t, x, o, o)
    PROVE  \A a : a = DeleteNode(t, At(o + F)) => Stands(a, x, o + 1, o)
<1>1. PICK a, p : a = DeleteNode(t, p) /\ p = At(o + F)
  OBVIOUS
<1>2. o \in Int /\ o + F \in Int /\ o - (N - F) \in Int /\ (o - (N - F)) + N = o + F
  BY Places
<1>3. p \in Place /\ At(o - (N - F)) = p
  BY <1>1, <1>2, AtPlace, AtAround
<1>4. Reg(a) = Reg(t) \ {p}
  BY <1>1, <1>3, Deleted
<1>5. ASSUME NEW j \in 0..o, (o + 1) - (N - F) <= j
      PROVE  \E k \in j..o : At(k) \in Reg(a) /\ Shared(x, At(j), At(k), F)
  <2>1. o - (N - F) <= j
    BY <1>5, Places
  <2>2. PICK k \in j..o : At(k) \in Reg(t) /\ Shared(x, At(j), At(k), F)
    BY <2>1 DEF Stands
  <2>3. k \in Int /\ o - (N - F) <= k /\ k < (o - (N - F)) + N /\ o - (N - F) # k
    BY <1>2, <1>5, <2>2, Places
  <2>4. At(k) # p
    BY <1>2, <1>3, <2>3, AtApart
  <2> QED
    BY <1>4, <2>2, <2>4
<1> QED
  BY <1>1, <1>5 DEF Stands

\* The byte that is read is in no string of the window before it.
LEMMA StringsKept ==
    ASSUME NEW x \in Text, NEW x2, NEW o \in Nat, NEW q, q = At(o + F),
           \A i \in DOMAIN x : i # q /\ i # q + N => x2[i] = x[i],
           NEW j \in ((o + 1) - (N - F))..o
    PROVE  \A i \in 0..(F - 1) : x2[At(j) + i] = x[At(j) + i]
<1>1. SUFFICES ASSUME NEW i \in 0..(F - 1) PROVE x2[At(j) + i] = x[At(j) + i]
  OBVIOUS
<1>2. N \in Nat /\ F \in Nat /\ F >= 2 /\ N >= 2 * F
  BY Places
<1>3. j \in Int /\ o + F \in Int /\ i \in 0..(N - 1) /\ j + i \in Int
  BY <1>2
<1>4. PICK p, e : p = At(j) /\ e = At(j + i) /\ p \in 0..(N - 1) /\ q \in 0..(N - 1) /\ e \in 0..(N - 1)
  BY <1>3, AtPlace
<1>5. e # q
  <2>1. j + i <= o + F /\ o + F < (j + i) + N /\ j + i # o + F
    BY <1>2, <1>3
  <2> QED
    BY <1>3, <1>4, <2>1, AtApart
<1>6. p + i = e \/ p + i = e + N
  BY <1>3, <1>4, AtBehind
<1>7. p + i # q /\ p + i # q + N
  BY <1>2, <1>4, <1>5, <1>6
<1>8. p + i \in DOMAIN x
  BY <1>2, <1>4 DEF Text
<1> QED
  BY <1>4, <1>7, <1>8

\* The strings of a window that is not written to keep what they share.
LEMMA StandsText ==
    ASSUME NEW t, NEW x, NEW x2, NEW o \in Nat, NEW e \in Nat, Stands(t, x, o, e),
           \A j \in (o - (N - F))..e : \A i \in 0..(F - 1) : x2[At(j) + i] = x[At(j) + i]
    PROVE  Stands(t, x2, o, e)
<1>1. SUFFICES ASSUME NEW j \in 0..e, o - (N - F) <= j
               PROVE  \E k \in j..e : At(k) \in Reg(t) /\ Shared(x2, At(j), At(k), F)
  BY DEF Stands
<1>2. PICK k \in j..e : At(k) \in Reg(t) /\ Shared(x, At(j), At(k), F)
  BY <1>1 DEF Stands
<1>3. j \in (o - (N - F))..e /\ k \in (o - (N - F))..e
  BY <1>1, <1>2, Places
<1> QED
  BY <1>2, <1>3 DEF Shared

\* The search finds the longest match of the window.
LEMMA Finds ==
    ASSUME NEW t, NEW x \in Text, Sound(t, x), Ordered(t, x), NEW o \in Nat, Behind(t, o), Stands(t, x, o, o - 1)
    PROVE  \A found : found = InsertNode(t, x, At(o)) =>
              Ordered(found.tree, x) /\ Stands(found.tree, x, o, o) /\ Longest(x, o, found)
<1>1. PICK found, q : found = InsertNode(t, x, q) /\ q = At(o)
  OBVIOUS
<1>2. q \in Place /\ q \notin Reg(t)
  BY <1>1, NotBehind
<1>3. /\ Ordered(found.tree, x)
      /\ q \in Reg(found.tree) /\ \A y \in Reg(t) : y \in Reg(found.tree) \/ Shared(x, q, y, F)
      /\ \A y \in Reg(t) : x[y] = x[q] => Common(x, q, y) <= found.length
      /\ found.length > 0 => /\ found.position \in Reg(t) /\ x[found.position] = x[q]
                             /\ Common(x, q, found.position) = found.length
  BY <1>1, <1>2, InsertedOrdered
<1>4. Stands(found.tree, x, o, o)
  <2>1. SUFFICES ASSUME NEW j \in 0..o, o - (N - F) <= j
                 PROVE  \E k \in j..o : At(k) \in Reg(found.tree) /\ Shared(x, At(j), At(k), F)
    BY DEF Stands
  <2>2. o \in j..o
    OBVIOUS
  <2>3. CASE j = o
    BY <1>1, <1>3, <2>2, <2>3 DEF Shared
  <2>4. CASE j # o
    <3>1. j \in 0..(o - 1)
      BY <2>4
    <3>2. PICK k \in j..(o - 1) : At(k) \in Reg(t) /\ Shared(x, At(j), At(k), F)
      BY <2>1, <3>1 DEF Stands
    <3>3. k \in j..o
      BY <3>2
    <3>4. CASE At(k) \in Reg(found.tree)
      BY <3>2, <3>3, <3>4
    <3>5. CASE Shared(x, q, At(k), F)
      <4>1. Shared(x, At(j), q, F)
        BY <3>2, <3>5 DEF Shared
      <4> QED
        BY <1>1, <1>3, <2>2, <4>1
    <3> QED
      BY <1>3, <3>2, <3>4, <3>5
  <2> QED
    BY <2>3, <2>4
<1>5. ASSUME NEW j \in 0..(o - 1), o - (N - F) <= j, x[At(j)] = x[q]
      PROVE  Common(x, q, At(j)) <= found.length
  <2>1. PICK k \in j..(o - 1) : At(k) \in Reg(t) /\ Shared(x, At(j), At(k), F)
    BY <1>5 DEF Stands
  <2>2. j \in Int /\ k \in Int
    OBVIOUS
  <2>3. At(j) \in Place /\ At(k) \in Place
    BY <2>2, AtPlace
  <2>4. x[At(j)] = x[At(k)] /\ Common(x, q, At(j)) = Common(x, q, At(k))
    BY <1>2, <2>1, <2>3, CommonSame
  <2> QED
    BY <1>3, <1>5, <2>1, <2>4
<1>6. ASSUME found.length > 0
      PROVE  \E j \in (o - (N - F))..(o - 1) :
                found.position = At(j) /\ x[At(j)] = x[q] /\ Common(x, q, At(j)) = found.length
  <2>1. PICK j \in (o - (N - F))..(o - 1) : found.position = At(j)
    BY <1>3, <1>6 DEF Behind
  <2> QED
    BY <1>3, <1>6, <2>1
<1> QED
  BY <1>1, <1>3, <1>4, <1>5, <1>6 DEF Longest

-----------------------------------------------------------------------------
(* The stream. *)

\* A unit takes the text d from offset o to o2: a byte, or a pair that names bytes in
\* the window.
Fits(d, c, asByte, o, o2) ==
    /\ o2 \in Nat /\ o2 <= Len(d)
    /\ IF asByte
       THEN c = [byte |-> d[o + 1]] /\ o2 = o + 1
       ELSE /\ c \in Pair /\ o2 = o + (c.length + Threshold + 1)
            /\ c.length + Threshold + 1 <= F /\ Matches(d, o, c.position, c.length + Threshold + 1)

\* The units of a group do so one after the other.
Units(d, cells, marks, o) ==
    /\ o \in [1..(Len(cells) + 1) -> Nat]
    /\ \A i \in 1..Len(cells) : Fits(d, cells[i], i \in marks, o[i], o[i + 1])

\* They take the text from offset o1 to o2.
Collected(d, cells, marks, o1, o2) ==
    \E o : Units(d, cells, marks, o) /\ o[1] = o1 /\ o[Len(cells) + 1] = o2

\* Where Decompress is before a cell and after it: the unit, the flags and the offset.
Follows(d, c, a, b) ==
    IF a.unit = Group
    THEN /\ c \in Flags /\ b.unit = 0 /\ b.bits = c.flags /\ b.offset = a.offset
    ELSE /\ b.unit = a.unit + 1 /\ b.bits = a.bits
         /\ Fits(d, c, a.unit + 1 \in a.bits, a.offset, b.offset)

\* The state in which Decompress reads a cell, and one for each cell of a stream.
Reading == [unit: 0..Group, bits: SUBSET (1..Group), offset: Nat]

Stream(d, cells, h) ==
    /\ h \in [1..(Len(cells) + 1) -> Reading]
    /\ h[1] = [unit |-> Group, bits |-> {}, offset |-> 0]
    /\ \A i \in 1..Len(cells) : Follows(d, cells[i], h[i], h[i + 1])

\* The stream takes the text up to offset o, and does so with full groups.
StreamTo(d, cells, o) == \E h : Stream(d, cells, h) /\ h[Len(cells) + 1].offset = o
Groups(d, cells, o) ==
    \E h : Stream(d, cells, h) /\ h[Len(cells) + 1].offset = o /\ h[Len(cells) + 1].unit = Group

Cells == Literal \cup Pair \cup Flags

\* A group without units.
LEMMA NoUnits ==
    ASSUME NEW d, NEW o \in Nat
    PROVE  Collected(d, <<>>, {}, o, o)
<1>1. PICK h : h = [i \in 1..(Len(<<>>) + 1) |-> o]
  OBVIOUS
<1>2. Len(<<>>) = 0 /\ h \in [1..(Len(<<>>) + 1) -> Nat] /\ h[1] = o /\ 1..0 = {} /\ h[Len(<<>>) + 1] = o
  BY <1>1
<1>3. Units(d, <<>>, {}, h)
  BY <1>2 DEF Units
<1> QED
  BY <1>2, <1>3 DEF Collected

\* A stream without groups.
LEMMA NoGroups ==
    ASSUME NEW d
    PROVE  Groups(d, <<>>, 0)
<1>1. PICK a : a = [unit |-> Group, bits |-> {}, offset |-> 0]
  OBVIOUS
<1>2. a \in Reading /\ a.unit = Group /\ a.offset = 0
  <2>1. Group \in 0..Group
    BY LzssAssumption
  <2> QED
    BY <1>1, <2>1 DEF Reading
<1>3. PICK h : h = [i \in 1..(Len(<<>>) + 1) |-> a]
  OBVIOUS
<1>4. Len(<<>>) = 0 /\ h \in [1..(Len(<<>>) + 1) -> Reading] /\ h[1] = a /\ 1..0 = {} /\ h[Len(<<>>) + 1] = a
  BY <1>2, <1>3
<1>5. Stream(d, <<>>, h)
  BY <1>1, <1>4 DEF Stream
<1> QED
  BY <1>2, <1>4, <1>5 DEF Groups

\* A unit joins the group.
LEMMA UnitAdded ==
    ASSUME NEW d, NEW cells \in Seq(Cells), NEW marks \in SUBSET (1..Len(cells)), NEW o1, NEW o2, NEW o3,
           Collected(d, cells, marks, o1, o2), NEW c \in Cells, NEW asByte \in BOOLEAN, Fits(d, c, asByte, o2, o3)
    PROVE  Collected(d, Append(cells, c), IF asByte THEN marks \cup {Len(cells) + 1} ELSE marks, o1, o3)
<1>1. PICK o : Units(d, cells, marks, o) /\ o[1] = o1 /\ o[Len(cells) + 1] = o2
  BY DEF Collected
<1>2. PICK n, all, m2 : /\ n = Len(cells) /\ all = Append(cells, c)
                        /\ m2 = IF asByte THEN marks \cup {Len(cells) + 1} ELSE marks
  OBVIOUS
<1>3. /\ n \in Nat /\ Len(all) = n + 1 /\ all[n + 1] = c /\ \A i \in 1..n : all[i] = cells[i]
  BY <1>2
<1>4. \A i \in 1..n : i \in m2 <=> i \in marks
  BY <1>2, <1>3
<1>5. n + 1 \in m2 <=> asByte
  BY <1>2, <1>3
<1>6. PICK g : g = [i \in 1..(n + 2) |-> IF i = n + 2 THEN o3 ELSE o[i]]
  OBVIOUS
<1>7. o \in [1..(n + 1) -> Nat] /\ o3 \in Nat
  BY <1>1, <1>2 DEF Units, Fits
<1>8. g \in [1..(n + 2) -> Nat] /\ g[n + 2] = o3 /\ \A i \in 1..(n + 1) : g[i] = o[i]
  BY <1>3, <1>6, <1>7
<1>9. ASSUME NEW i \in 1..(n + 1) PROVE Fits(d, all[i], i \in m2, g[i], g[i + 1])
  <2>1. CASE i = n + 1
    <3>1. g[i] = o2 /\ g[i + 1] = o3 /\ all[i] = c /\ n + 1 \in 1..(n + 1) /\ (n + 1) + 1 = n + 2
      BY <1>1, <1>2, <1>3, <1>8, <2>1
    <3>2. (i \in m2) = asByte
      BY <1>5, <2>1
    <3> QED
      BY <3>1, <3>2
  <2>2. CASE i # n + 1
    <3>1. i \in 1..n /\ i + 1 \in 1..(n + 1)
      BY <1>3, <2>2
    <3>2. g[i] = o[i] /\ g[i + 1] = o[i + 1] /\ all[i] = cells[i] /\ (i \in m2) = (i \in marks)
      BY <1>3, <1>4, <1>8, <3>1
    <3>3. Fits(d, cells[i], i \in marks, o[i], o[i + 1])
      BY <1>1, <1>2, <3>1 DEF Units
    <3> QED
      BY <3>2, <3>3
  <2> QED
    BY <2>1, <2>2
<1>10. Units(d, all, m2, g)
  <2>1. Len(all) + 1 = n + 2 /\ Len(all) = n + 1
    BY <1>3
  <2> QED
    BY <1>8, <1>9, <2>1 DEF Units
<1>11. g[1] = o1 /\ g[Len(all) + 1] = o3
  BY <1>1, <1>3, <1>8
<1> QED
  BY <1>2, <1>10, <1>11 DEF Collected

\* A group joins the stream.
LEMMA GroupSent ==
    ASSUME NEW d, NEW cells \in Seq(Cells), NEW o1, Groups(d, cells, o1),
           NEW group \in Seq(Cells), NEW marks \in SUBSET (1..Group), NEW o2,
           Len(group) <= Group, Collected(d, group, marks, o1, o2)
    PROVE  \A all : all = cells \o <<[flags |-> marks]>> \o group =>
                /\ StreamTo(d, all, o2)
                /\ Len(group) = Group => Groups(d, all, o2)
<1>1. PICK h : Stream(d, cells, h) /\ h[Len(cells) + 1].offset = o1 /\ h[Len(cells) + 1].unit = Group
  BY DEF Groups
<1>2. PICK o : Units(d, group, marks, o) /\ o[1] = o1 /\ o[Len(group) + 1] = o2
  BY DEF Collected
<1>3. PICK n, e, c, all : /\ n = Len(cells) /\ e = Len(group) /\ c = [flags |-> marks]
                          /\ all = cells \o <<c>> \o group
  OBVIOUS
<1>4. n \in Nat /\ e \in Nat /\ e <= Group /\ Group \in Nat /\ Group # 0
  BY <1>3, LzssAssumption
<1>5. c \in Flags /\ c.flags = marks
  BY <1>3 DEF Flags
<1>6. Len(all) = n + 1 + e
  BY <1>3
<1>7. /\ \A i \in 1..n : all[i] = cells[i]
      /\ all[n + 1] = c
      /\ \A i \in 1..e : all[(n + 1) + i] = group[i]
  <2>1. PICK b : b = cells \o <<c>>
    OBVIOUS
  <2>2. b \in Seq(Cells) /\ Len(b) = n + 1 /\ (\A i \in 1..n : b[i] = cells[i]) /\ b[n + 1] = c
    BY <1>3, <1>5, <2>1 DEF Cells
  <2>3. all = b \o group
    BY <1>3, <2>1
  <2>4. \A i \in 1..(n + 1) : all[i] = b[i]
    BY <1>3, <1>4, <2>2, <2>3
  <2>5. \A i \in 1..e : all[(n + 1) + i] = group[i]
    BY <1>3, <1>4, <2>2, <2>3
  <2> QED
    BY <1>4, <2>2, <2>4, <2>5
<1>8. PICK g : g = [i \in 1..(n + e + 2) |->
                       IF i <= n + 1 THEN h[i] ELSE [unit |-> i - (n + 2), bits |-> marks, offset |-> o[i - (n + 1)]]]
  OBVIOUS
<1>9. h \in [1..(n + 1) -> Reading] /\ o \in [1..(e + 1) -> Nat]
  BY <1>1, <1>2, <1>3 DEF Stream, Units
<1>10. \A i \in 1..(n + 1) : g[i] = h[i] /\ g[i] \in Reading
  BY <1>4, <1>8, <1>9
<1>11. \A k \in 0..e : g[(n + 2) + k] = [unit |-> k, bits |-> marks, offset |-> o[k + 1]]
  <2>1. SUFFICES ASSUME NEW k \in 0..e
                 PROVE  g[(n + 2) + k] = [unit |-> k, bits |-> marks, offset |-> o[k + 1]]
    OBVIOUS
  <2>2. PICK i : i = (n + 2) + k /\ i \in 1..(n + e + 2) /\ ~(i <= n + 1) /\ i - (n + 2) = k /\ i - (n + 1) = k + 1
    BY <1>4, <2>1
  <2> QED
    BY <1>8, <2>2
<1>12. \A k \in 0..e : /\ g[(n + 2) + k].unit = k /\ g[(n + 2) + k].bits = marks /\ g[(n + 2) + k].offset = o[k + 1]
                       /\ g[(n + 2) + k] \in Reading
  <2>1. SUFFICES ASSUME NEW k \in 0..e
                 PROVE  /\ g[(n + 2) + k].unit = k /\ g[(n + 2) + k].bits = marks /\ g[(n + 2) + k].offset = o[k + 1]
                        /\ g[(n + 2) + k] \in Reading
    OBVIOUS
  <2>2. k \in 0..Group /\ o[k + 1] \in Nat /\ marks \in SUBSET (1..Group)
    BY <1>4, <1>9, <2>1
  <2>3. PICK y, v : y = g[(n + 2) + k] /\ v = o[k + 1] /\ y = [unit |-> k, bits |-> marks, offset |-> v]
    BY <1>11, <2>1
  <2>4. y.unit = k /\ y.bits = marks /\ y.offset = v /\ v \in Nat
    BY <2>2, <2>3
  <2>5. y \in Reading
    BY <2>2, <2>3, <2>4 DEF Reading
  <2> QED
    BY <2>3, <2>4, <2>5
<1>13. g \in [1..(Len(all) + 1) -> Reading]
  <2>1. SUFFICES ASSUME NEW i \in 1..(n + e + 2) PROVE g[i] \in Reading
    <3>1. Len(all) + 1 = n + e + 2
      BY <1>4, <1>6
    <3> QED
      BY <1>8, <3>1
  <2>2. CASE i <= n + 1
    BY <1>4, <1>10, <2>2
  <2>3. CASE ~(i <= n + 1)
    <3>1. i - (n + 2) \in 0..e /\ i = (n + 2) + (i - (n + 2))
      BY <1>4, <2>3
    <3> QED
      BY <1>12, <3>1
  <2> QED
    BY <2>2, <2>3
<1>14. g[1] = [unit |-> Group, bits |-> {}, offset |-> 0]
  <2>1. 1 \in 1..(n + 1)
    BY <1>4
  <2> QED
    BY <1>1, <1>10, <2>1 DEF Stream
<1>15. ASSUME NEW i \in 1..Len(all) PROVE Follows(d, all[i], g[i], g[i + 1])
  <2>1. CASE i \in 1..n
    <3>1. i \in 1..(n + 1) /\ i + 1 \in 1..(n + 1)
      BY <1>4, <2>1
    <3>2. Follows(d, cells[i], h[i], h[i + 1])
      BY <1>1, <1>3, <2>1 DEF Stream
    <3> QED
      BY <1>7, <1>10, <2>1, <3>1, <3>2
  <2>2. CASE i = n + 1
    <3>1. PICK a, b : a = g[i] /\ b = g[i + 1]
      OBVIOUS
    <3>2. a = h[n + 1] /\ a.unit = Group /\ a.offset = o1
      <4>1. n + 1 \in 1..(n + 1)
        BY <1>4
      <4> QED
        BY <1>1, <1>3, <1>10, <2>2, <3>1, <4>1
    <3>3. b.unit = 0 /\ b.bits = marks /\ b.offset = o1
      <4>1. i + 1 = (n + 2) + 0 /\ 0 \in 0..e /\ 0 + 1 = 1
        BY <1>4, <2>2
      <4> QED
        BY <1>2, <1>12, <3>1, <4>1
    <3>4. Follows(d, c, a, b)
      BY <1>5, <3>2, <3>3 DEF Follows
    <3> QED
      BY <1>7, <2>2, <3>1, <3>4
  <2>3. CASE i > n + 1
    <3>1. PICK k : k = i - (n + 1) /\ k \in 1..e /\ i = (n + 1) + k /\ i = (n + 2) + (k - 1) /\ i + 1 = (n + 2) + k
                   /\ k - 1 \in 0..e /\ k \in 0..e /\ (k - 1) + 1 = k
      BY <1>4, <1>6, <2>3
    <3>2. PICK a, b : a = g[i] /\ b = g[i + 1]
      OBVIOUS
    <3>3. a.unit = k - 1 /\ a.bits = marks /\ a.offset = o[k]
      BY <1>12, <3>1, <3>2
    <3>4. b.unit = k /\ b.bits = marks /\ b.offset = o[k + 1]
      BY <1>12, <3>1, <3>2
    <3>5. a.unit # Group /\ a.unit + 1 = k
      <4>1. k - 1 # Group /\ (k - 1) + 1 = k
        BY <1>4, <3>1
      <4> QED
        BY <3>3, <4>1
    <3>6. Fits(d, group[k], k \in marks, o[k], o[k + 1])
      BY <1>2, <1>3, <3>1 DEF Units
    <3>7. Follows(d, group[k], a, b)
      BY <3>3, <3>4, <3>5, <3>6 DEF Follows
    <3>8. all[i] = group[k]
      BY <1>7, <3>1
    <3> QED
      BY <3>2, <3>7, <3>8
  <2> QED
    BY <1>4, <1>6, <2>1, <2>2, <2>3
<1>16. Stream(d, all, g)
  BY <1>13, <1>14, <1>15 DEF Stream
<1>17. g[Len(all) + 1].offset = o2 /\ g[Len(all) + 1].unit = e
  <2>1. Len(all) + 1 = (n + 2) + e /\ e \in 0..e
    BY <1>4, <1>6
  <2> QED
    BY <1>2, <1>3, <1>12, <2>1
<1> QED
  BY <1>3, <1>16, <1>17 DEF StreamTo, Groups

-----------------------------------------------------------------------------
(* How many bytes a stream has. *)

\* A cell is a byte in the stream, a pair two.
Pairs(cells) == {i \in DOMAIN cells : "position" \in DOMAIN cells[i]}

\* Only a pair has a position.
LEMMA CellIs ==
    /\ \A c \in Literal : "position" \notin DOMAIN c
    /\ \A c \in Flags : "position" \notin DOMAIN c
BY DEF Literal, Flags

\* The number of pairs and of bytes.
LEMMA PairsFinite ==
    ASSUME NEW cells \in Seq(Cells)
    PROVE  /\ IsFiniteSet(Pairs(cells)) /\ Cardinality(Pairs(cells)) \in Nat
           /\ Cardinality(Pairs(cells)) <= Len(cells)
           /\ Bytes(cells) = Len(cells) + Cardinality(Pairs(cells)) /\ Bytes(cells) \in Nat
<1>0. Len(cells) \in Nat /\ DOMAIN cells = 1..Len(cells)
  OBVIOUS
<1>1. PICK P, n : P = Pairs(cells) /\ n = Len(cells) /\ n \in Nat
  BY <1>0
<1>2. P \in SUBSET (1..n) /\ IsFiniteSet(1..n) /\ Cardinality(1..n) = n
  <2>1. P \in SUBSET (1..n)
    BY <1>0, <1>1 DEF Pairs
  <2>2. 1 \in Int /\ n \in Int /\ (IF 1 > n THEN 0 ELSE n - 1 + 1) = n
    BY <1>1
  <2> QED
    BY <2>1, <2>2, FS_Interval
<1>3. IsFiniteSet(P) /\ Cardinality(P) <= n
  BY <1>2, FS_Subset
<1>4. Cardinality(P) \in Nat
  BY <1>3, FS_CardinalityType
<1>5. Bytes(cells) = n + Cardinality(P)
  BY <1>1 DEF Bytes, Pairs
<1> QED
  BY <1>1, <1>3, <1>4, <1>5

\* A cell more.
LEMMA BytesAppended ==
    ASSUME NEW cells \in Seq(Cells), NEW c \in Cells
    PROVE  /\ Bytes(Append(cells, c)) <= Bytes(cells) + 2
           /\ "position" \notin DOMAIN c => Bytes(Append(cells, c)) = Bytes(cells) + 1
<1>1. PICK P, n, all, Q : P = Pairs(cells) /\ n = Len(cells) /\ n \in Nat /\ all = Append(cells, c) /\ Q = Pairs(all)
  <2>1. Len(cells) \in Nat
    OBVIOUS
  <2> QED
    BY <2>1
<1>2. all \in Seq(Cells) /\ Len(all) = n + 1 /\ all[n + 1] = c /\ \A i \in 1..n : all[i] = cells[i]
  BY <1>1
<1>3. Q = IF "position" \in DOMAIN c THEN P \cup {n + 1} ELSE P
  <2>1. DOMAIN all = 1..(n + 1) /\ DOMAIN cells = 1..n
    BY <1>1, <1>2
  <2>2. Q = {i \in 1..(n + 1) : "position" \in DOMAIN all[i]} /\ P = {i \in 1..n : "position" \in DOMAIN cells[i]}
    BY <1>1, <2>1 DEF Pairs
  <2>3. \A i \in 1..(n + 1) : i \in 1..n \/ i = n + 1
    BY <1>1
  <2>4. \A i \in 1..n : i \in 1..(n + 1)
    BY <1>1
  <2>5. n + 1 \in 1..(n + 1)
    BY <1>1
  <2> QED
    BY <1>2, <2>2, <2>3, <2>4, <2>5
<1>4. /\ IsFiniteSet(P) /\ Cardinality(P) \in Nat /\ Bytes(cells) = n + Cardinality(P)
      /\ Bytes(all) = (n + 1) + Cardinality(Q)
  BY <1>1, <1>2, PairsFinite
<1>5. Cardinality(P \cup {n + 1}) \in {Cardinality(P), Cardinality(P) + 1}
  BY <1>4, FS_AddElement
<1> QED
  BY <1>1, <1>3, <1>4, <1>5

\* Two sequences of cells in one.
LEMMA BytesJoined ==
    ASSUME NEW a \in Seq(Cells), NEW b \in Seq(Cells)
    PROVE  Bytes(a \o b) <= Bytes(a) + Bytes(b)
<1>1. PICK P, Q, n, e, all : /\ P = Pairs(a) /\ Q = Pairs(b) /\ n = Len(a) /\ e = Len(b) /\ all = a \o b
                             /\ n \in Nat /\ e \in Nat
  <2>1. Len(a) \in Nat /\ Len(b) \in Nat
    OBVIOUS
  <2> QED
    BY <2>1
<1>2. /\ all \in Seq(Cells) /\ Len(all) = n + e /\ (\A i \in 1..n : all[i] = a[i])
      /\ \A i \in 1..e : all[n + i] = b[i]
  BY <1>1
<1>3. PICK g : g = [i \in Q |-> n + i]
  OBVIOUS
<1>4. PICK T : T = {i \in Pairs(all) : i > n}
  OBVIOUS
<1>5. P = {i \in 1..n : "position" \in DOMAIN a[i]} /\ Q = {i \in 1..e : "position" \in DOMAIN b[i]}
      /\ Pairs(all) = {i \in 1..(n + e) : "position" \in DOMAIN all[i]}
  BY <1>1, <1>2 DEF Pairs
<1>6. Pairs(all) = P \cup T
  <2>1. \A i \in 1..(n + e) : i \in 1..n \/ i > n
    BY <1>1
  <2>2. \A i \in 1..n : i \in 1..(n + e) /\ ~(i > n)
    BY <1>1
  <2> QED
    BY <1>2, <1>4, <1>5, <2>1, <2>2
<1>7. g \in Surjection(Q, T)
  <2>1. ASSUME NEW i \in Q PROVE g[i] \in T
    <3>1. i \in 1..e /\ n + i \in 1..(n + e) /\ n + i > n
      BY <1>1, <1>5
    <3>2. "position" \in DOMAIN all[n + i]
      BY <1>2, <1>5, <3>1
    <3> QED
      BY <1>3, <1>4, <1>5, <3>1, <3>2
  <2>2. ASSUME NEW y \in T PROVE \E i \in Q : g[i] = y
    <3>1. y \in 1..(n + e) /\ y > n /\ "position" \in DOMAIN all[y]
      BY <1>4, <1>5
    <3>2. y - n \in 1..e /\ n + (y - n) = y
      BY <1>1, <3>1
    <3>3. y - n \in Q
      BY <1>2, <1>5, <3>1, <3>2
    <3> QED
      BY <1>3, <3>2, <3>3
  <2>3. g \in [Q -> T]
    BY <1>3, <2>1
  <2> QED
    BY <2>2, <2>3, Fun_IsSurj
<1>8. /\ IsFiniteSet(P) /\ Cardinality(P) \in Nat /\ Bytes(a) = n + Cardinality(P)
      /\ IsFiniteSet(Q) /\ Cardinality(Q) \in Nat /\ Bytes(b) = e + Cardinality(Q)
      /\ Bytes(all) = (n + e) + Cardinality(Pairs(all))
  BY <1>1, <1>2, PairsFinite
<1>9. IsFiniteSet(T) /\ Cardinality(T) <= Cardinality(Q)
  BY <1>7, <1>8, FS_Surjection
<1>10. Cardinality(T) \in Nat /\ Cardinality(P \cap T) \in Nat
  <2>1. IsFiniteSet(P \cap T)
    BY <1>8, FS_Subset
  <2> QED
    BY <1>9, <2>1, FS_CardinalityType
<1>11. Cardinality(P \cup T) = Cardinality(P) + Cardinality(T) - Cardinality(P \cap T)
  BY <1>8, <1>9, FS_Union
<1> QED
  BY <1>1, <1>6, <1>8, <1>9, <1>10, <1>11

-----------------------------------------------------------------------------
(* The ring of Decompress. *)

\* The ring of the decompressor holds the N bytes before offset o.
Restored(g, d, o) == \A j \in Int : o - N <= j /\ j < o /\ F - N <= j => g[At(j)] = Origin(d, j)

\* The bytes are the m of d from offset o on.
Reads(bytes, d, o, m) == bytes \in Seq(Byte) /\ Len(bytes) = m /\ \A k \in 1..m : bytes[k] = d[o + k]

\* The ring after the m bytes are written from offset o on.
Rewritten(g, bytes, o, m) ==
    [i \in Place |-> IF (i - At(o)) % N < m THEN bytes[((i - At(o)) % N) + 1] ELSE g[i]]

\* The ring once the bytes at offset o have been written to it.
LEMMA RestoredNext ==
    ASSUME NEW d \in Seq(Byte), NEW o \in Nat, NEW m \in 1..F, o + m <= Len(d),
           NEW g \in [Place -> Byte \cup {NoByte}], Restored(g, d, o), NEW bytes, Reads(bytes, d, o, m)
    PROVE  \A g2 : g2 = Rewritten(g, bytes, o, m) => g2 \in [Place -> Byte \cup {NoByte}] /\ Restored(g2, d, o + m)
<1> SUFFICES ASSUME bytes \in Seq(Byte), Len(bytes) = m, \A k \in 1..m : bytes[k] = d[o + k]
             PROVE  \A g2 : g2 = Rewritten(g, bytes, o, m) =>
                         g2 \in [Place -> Byte \cup {NoByte}] /\ Restored(g2, d, o + m)
  BY DEF Reads
<1>1. PICK g2 : g2 = Rewritten(g, bytes, o, m) /\ g2 = [i \in Place |-> IF (i - At(o)) % N < m THEN bytes[((i - At(o)) % N) + 1] ELSE g[i]]
  BY DEF Rewritten
<1>2. N \in Nat \ {0} /\ F \in Nat /\ F < N /\ m \in Nat /\ m <= F /\ o \in Int
  BY Places
<1>3. g2 \in [Place -> Byte \cup {NoByte}]
  <2>1. SUFFICES ASSUME NEW i \in Place
                 PROVE  (IF (i - At(o)) % N < m THEN bytes[((i - At(o)) % N) + 1] ELSE g[i]) \in Byte \cup {NoByte}
    BY <1>1
  <2>2. i - At(o) \in Int
    <3>1. At(o) \in 0..(N - 1)
      BY <1>2, AtPlace
    <3> QED
      BY <3>1 DEF Place
  <2>3. PICK e : e = (i - At(o)) % N /\ e \in 0..(N - 1)
    BY <1>2, <2>2, Remainder
  <2>4. CASE e < m
    <3>1. e + 1 \in 1..Len(bytes)
      BY <1>2, <2>3, <2>4
    <3>2. bytes[e + 1] \in Byte
      BY <3>1
    <3> QED
      BY <2>3, <2>4, <3>2
  <2>5. CASE ~(e < m)
    BY <2>3, <2>5
  <2> QED
    BY <2>4, <2>5
<1>4. ASSUME NEW j \in Int, (o + m) - N <= j, j < o + m, F - N <= j
      PROVE  g2[At(j)] = Origin(d, j)
  <2>1. PICK p, e : p = At(j) /\ p \in Place /\ e = (p - At(o)) % N
    BY AtPlace
  <2>2. g2[p] = IF e < m THEN bytes[e + 1] ELSE g[p]
    BY <1>1, <2>1
  <2>3. CASE o <= j
    <3>1. e = j - o
      <4>1. j < o + N
        BY <1>2, <1>4
      <4> QED
        BY <1>2, <2>1, <2>3, <4>1, AtNear
    <3>2. e < m /\ e + 1 \in 1..m /\ o + (e + 1) = j + 1 /\ ~(j < 0)
      BY <1>2, <1>4, <2>3, <3>1
    <3>3. bytes[e + 1] = d[j + 1]
      BY <3>2
    <3> QED
      BY <2>1, <2>2, <3>2, <3>3 DEF Origin
  <2>4. CASE j < o
    <3>1. e = (j + N) - o
      <4>1. o <= j + N /\ j + N < o + N /\ j + N \in Int
        BY <1>2, <1>4, <2>4
      <4>2. At(j + N) = p
        BY <2>1, AtAround
      <4>3. (At(j + N) - At(o)) % N = (j + N) - o
        BY <1>2, <4>1, AtNear
      <4> QED
        BY <2>1, <4>2, <4>3
    <3>2. ~(e < m) /\ o - N <= j
      BY <1>2, <1>4, <3>1
    <3>3. g[p] = Origin(d, j)
      BY <1>4, <2>1, <2>4, <3>2 DEF Restored
    <3> QED
      BY <2>1, <2>2, <3>2, <3>3
  <2> QED
    BY <1>2, <2>3, <2>4
<1>5. Restored(g2, d, o + m)
  BY <1>4 DEF Restored
<1> QED
  BY <1>1, <1>3, <1>5

\* A copy reads what it has written.
LEMMA CopiedIs ==
    ASSUME NEW d \in Seq(Byte), NEW o \in Nat, NEW n \in 1..F, o + n <= Len(d),
           w = At(o), Restored(ring, d, o), NEW p, Matches(d, o, p, n)
    PROVE  Reads(Copied(p, n), d, o, n)
<1>1. PICK x \in 1..(N - F) : /\ p = At(o - x)
                              /\ \A i \in 0..(n - 1) : Origin(d, (o - x) + i) = Origin(d, o + i)
  BY DEF Matches
<1>2. N \in Nat \ {0} /\ F \in Nat /\ F >= 2 /\ N >= 2 * F /\ x \in Nat /\ x # 0 /\ x <= N - F /\ n \in Nat /\ n # 0 /\ o \in Int
  BY Places
<1>3. (w - p) % N = x
  <2>1. o - x \in Int /\ o - x <= o /\ o < (o - x) + N /\ o - (o - x) = x
    BY <1>2
  <2> QED
    BY <1>1, <1>2, <2>1, AtNear
<1> DEFINE On(f, k) == IF x > 0 /\ k > x THEN f[k - x] ELSE ring[(p + k - 1) % N]
           copy == CHOOSE f : f = [k \in 1..n |-> On(f, k)]
<1>4. Copied(p, n) = copy
  BY <1>3 DEF Copied
<1>5. \A k \in 1..n : Origin(d, o + (k - 1)) = d[o + k] /\ d[o + k] \in Byte
  <2>1. SUFFICES ASSUME NEW k \in 1..n PROVE Origin(d, o + (k - 1)) = d[o + k] /\ d[o + k] \in Byte
    OBVIOUS
  <2>2. ~(o + (k - 1) < 0) /\ (o + (k - 1)) + 1 = o + k /\ o + k \in 1..Len(d)
    BY <1>2
  <2> QED
    BY <2>2 DEF Origin
<1>6. ASSUME NEW k \in 1..n PROVE Origin(d, (o - x) + (k - 1)) = d[o + k]
  <2>1. k - 1 \in 0..(n - 1)
    BY <1>2
  <2> QED
    BY <1>1, <1>5, <2>1
<1>7. ASSUME NEW k \in 1..n, ~(k > x) PROVE ring[(p + k - 1) % N] = d[o + k]
  <2>1. PICK j : j = (o - x) + (k - 1) /\ j \in Int /\ o - N <= j /\ j < o /\ F - N <= j
    BY <1>2, <1>7
  <2>2. (p + k - 1) % N = At(j)
    <3>1. PICK q : q = p /\ q \in Int
      BY <1>1, <1>2, AtPlace
    <3>2. q + k - 1 = q + (k - 1) /\ k - 1 \in Int /\ o - x \in Int
      BY <1>2, <3>1
    <3>3. (At(o - x) + (k - 1)) % N = At((o - x) + (k - 1))
      BY <3>2, AtSum
    <3> QED
      BY <1>1, <2>1, <3>1, <3>2, <3>3
  <2>3. ring[At(j)] = Origin(d, j)
    BY <2>1 DEF Restored
  <2> QED
    BY <1>6, <2>1, <2>2, <2>3
<1>8. PICK g : g = [k \in 1..n |-> d[o + k]]
  OBVIOUS
<1>9. g = [k \in 1..n |-> On(g, k)]
  <2>1. SUFFICES ASSUME NEW k \in 1..n PROVE g[k] = On(g, k)
    BY <1>8
  <2>2. CASE k > x
    <3>1. k - x \in 1..n /\ k - x - 1 \in 0..(n - 1) /\ (o - x) + (k - 1) = o + (k - x - 1)
      BY <1>2, <2>2
    <3>2. Origin(d, o + (k - x - 1)) = d[o + (k - x)]
      BY <1>5, <3>1
    <3>3. d[o + (k - x)] = d[o + k]
      BY <1>6, <3>1, <3>2
    <3> QED
      BY <1>2, <1>8, <2>2, <3>1, <3>3
  <2>3. CASE ~(k > x)
    BY <1>7, <1>8, <2>3
  <2> QED
    BY <2>2, <2>3
<1>10. copy = [k \in 1..n |-> On(copy, k)]
  BY <1>9
<1> HIDE DEF copy
<1>11. \A k \in 1..n : copy[k] = d[o + k]
  <2> DEFINE P == {k \in 0..n : \A i \in 1..k : copy[i] = d[o + i]}
  <2>1. 0 \in P
    BY <1>2
  <2>2. ASSUME NEW k \in 0..(n - 1), k \in P PROVE k + 1 \in P
    <3>1. k + 1 \in 1..n /\ k + 1 \in 0..n
      BY <1>2
    <3>2. copy[k + 1] = On(copy, k + 1)
      BY <1>10, <3>1
    <3>3. copy[k + 1] = d[o + (k + 1)]
      <4>1. CASE k + 1 > x
        <5>1. (k + 1) - x \in 1..k
          BY <1>2, <4>1
        <5>2. copy[(k + 1) - x] = d[o + ((k + 1) - x)]
          BY <2>2, <5>1
        <5>3. g[k + 1] = g[(k + 1) - x] /\ g[k + 1] = d[o + (k + 1)] /\ g[(k + 1) - x] = d[o + ((k + 1) - x)]
          <6>1. (k + 1) - x \in 1..n
            BY <1>2, <5>1
          <6>2. g[k + 1] = On(g, k + 1)
            BY <1>9, <3>1
          <6> QED
            BY <1>2, <1>8, <3>1, <4>1, <6>1, <6>2
        <5>4. copy[k + 1] = copy[(k + 1) - x]
          BY <1>2, <3>2, <4>1
        <5> QED
          BY <5>2, <5>3, <5>4
      <4>2. CASE ~(k + 1 > x)
        BY <1>7, <3>1, <3>2, <4>2
      <4> QED
        BY <4>1, <4>2
    <3>4. \A i \in 1..(k + 1) : i \in 1..k \/ i = k + 1
      BY <3>1
    <3> QED
      BY <2>2, <3>1, <3>3, <3>4
  <2> HIDE DEF P
  <2>3. 0..n \subseteq P
    BY <1>2, <2>1, <2>2, Upward
  <2>4. n \in P
    BY <1>2, <2>3
  <2> QED
    BY <2>4 DEF P
<1>12. copy = g
  BY <1>8, <1>10, <1>11
<1>13. g \in Seq(Byte) /\ Len(g) = n
  BY <1>2, <1>5, <1>8
<1> QED
  BY <1>4, <1>11, <1>12, <1>13 DEF Reads

-----------------------------------------------------------------------------
(* The inductive invariant. *)

\* The offset at which the look-ahead begins.
Pos == src - len

\* The types of what Compress keeps, tighter than in TypeOK for the group.
EncoderTypes ==
    /\ input \in Seq(Byte)
    /\ pc \in {"start", "refused", "send", "advance", "decompress", "decompressed"}
    /\ text \in Text /\ tree \in Tree
    /\ match \in [position: Place, length: 0..F]
    /\ src \in 0..Len(input) /\ len \in 0..F /\ advance \in 0..F
    /\ s \in Place /\ r \in Place
    /\ code \in Seq(Literal \cup Pair) /\ Len(code) < Group /\ flags \subseteq 1..Len(code)
    /\ dst \in Seq(Cells)

\* Compress has yet to begin, Decompress has yet to begin.
Fresh ==
    /\ text = FirstText /\ tree = InitState
    /\ s = 0 /\ r = N - F /\ advance = 0
    /\ code = <<>> /\ flags = {} /\ dst = <<>>

Unread ==
    /\ cell = 1 /\ unit = Group /\ bits = {}
    /\ ring = [i \in Place |-> IF i < N - F THEN Space ELSE NoByte] /\ w = N - F
    /\ out = <<>>

\* Compress: the ring holds the text, the trees its window, and the match is one.
Look ==
    /\ Sound(tree, text) /\ Window(tree, Pos) /\ Holds(text, input, src)
    /\ r = At(Pos) /\ s = At(Pos + F)
    /\ len <= src /\ (src < Len(input) => len = F) /\ advance <= len
    /\ \A e \in 1..len : e <= match.length => Matches(input, Pos, match.position, e)
    /\ pc = "send" => len > 0 /\ advance = 0

\* What was sent takes the text up to base, and the group up to the end of the last unit.
Sent(base) ==
    /\ Groups(input, dst, base) /\ Collected(input, code, flags, base, Pos + advance)
    /\ Bytes(dst) <= 2 * base /\ Bytes(code) <= (Pos + advance) - base

\* Decompress: it is where the stream says, with what the stream says.
Received ==
    /\ \E h : /\ Stream(input, dst, h) /\ h[Len(dst) + 1].offset = Len(input)
              /\ h[cell] = [unit |-> unit, bits |-> bits, offset |-> Len(out)]
    /\ cell \in 1..(Len(dst) + 1)
    /\ ring \in [Place -> Byte \cup {NoByte}] /\ Restored(ring, input, Len(out)) /\ w = At(Len(out))
    /\ out \in Seq(Byte) /\ Len(out) <= Len(input) /\ \A i \in 1..Len(out) : out[i] = input[i]
    /\ Bytes(dst) <= 2 * Len(input)
    /\ pc = "decompressed" => cell = Len(dst) + 1

\* Which part holds when.
IInv ==
    /\ EncoderTypes
    /\ pc = "start" => Fresh
    /\ pc \in {"start", "refused"} => dst = <<>>
    /\ pc \in {"start", "refused", "send", "advance"} => Unread
    /\ pc \in {"send", "advance"} => Look /\ \E base \in Nat : Sent(base)
    /\ pc \in {"decompress", "decompressed"} => Received

\* The search: the trees are in order and stand for the window, and the match is the
\* longest.  Only this part needs the order: whatever string the search finds, it is
\* one in the window, and the bytes compared are those of the input.
SInv ==
    /\ pc # "start" => Sound(tree, text) /\ Ordered(tree, text)
    /\ pc \in {"send", "advance"} /\ len > 0 => Stands(tree, text, Pos, Pos) /\ Longest(text, Pos, match)

\* The invariant holds at first.
LEMMA InitIInv == Init => IInv
<1> SUFFICES ASSUME Init PROVE IInv
  OBVIOUS
<1>1. text = FirstText /\ FirstText \in Text
  <2>1. text = FirstText
    BY DEF Init, FirstText
  <2>2. 0 \in Byte /\ Space \in Byte
    BY LzssTreeAssumption
  <2> QED
    BY <2>1, <2>2 DEF FirstText, Text
<1>2. tree \in Tree
  BY FirstTree DEF Init, Sound
<1>3. input \in Seq(Byte)
  BY LzssAssumption DEF Init
<1>4. /\ match \in [position: Place, length: 0..F] /\ s \in Place /\ r \in Place
      /\ src \in 0..Len(input) /\ len \in 0..F /\ advance \in 0..F
  <2>1. 0 \in Place /\ 0 \in 0..F /\ N - F \in Place /\ 0 \in 0..Len(input)
    BY <1>3, Places DEF Place
  <2> QED
    BY <2>1 DEF Init
<1>5. code \in Seq(Literal \cup Pair) /\ Len(code) < Group /\ flags \subseteq 1..Len(code) /\ dst \in Seq(Cells)
  BY LzssAssumption DEF Init
<1>6. EncoderTypes
  BY <1>1, <1>2, <1>3, <1>4, <1>5 DEF EncoderTypes, Init
<1>7. Fresh /\ Unread
  BY <1>1 DEF Fresh, Unread, Init
<1> QED
  BY <1>6, <1>7 DEF IInv, Init

-----------------------------------------------------------------------------
\* Fill keeps the invariant, and begins the search.
LEMMA FillStep ==
    ASSUME IInv, Fill
    PROVE  IInv' /\ SInv'
<1>1. pc = "start" /\ Fresh /\ Unread /\ EncoderTypes
  BY DEF IInv, Fill
<1>2. PICK n, x, b, last :
         /\ n = Min({F, Len(input)})
         /\ x = [i \in DOMAIN text |-> IF i \in r..(r + n - 1) THEN input[i - r + 1] ELSE text[i]]
         /\ b = CHOOSE g : g = [i \in 0..F |-> IF i = 0 THEN tree ELSE InsertNode(g[i - 1], x, r - i).tree]
         /\ last = InsertNode(b[F], x, r)
  OBVIOUS
<1>3. /\ len' = n /\ src' = n /\ text' = x /\ tree' = last.tree
      /\ match' = [position |-> last.position, length |-> last.length]
      /\ pc' = IF n = 0 THEN "refused" ELSE "send"
      /\ UNCHANGED <<input, s, r, advance, code, flags, dst, decoder>>
  BY <1>2 DEF Fill
<1>4. input \in Seq(Byte) /\ Len(input) \in Nat /\ F \in Nat /\ N \in Nat /\ N >= 2 * F /\ F >= 2
  BY <1>1, Places DEF EncoderTypes
<1>5. n \in 0..F /\ n <= Len(input) /\ (n < Len(input) => n = F)
  <2>1. PICK z : z = Len(input) /\ z \in Nat
    BY <1>4
  <2>2. n = Min({F, z}) /\ F \in Int /\ z \in Int
    BY <1>2, <1>4, <2>1
  <2>3. n \in {F, z} /\ n <= F /\ n <= z
    BY <2>2, MinTwo
  <2> QED
    BY <1>4, <2>1, <2>3
<1>6. x \in Text /\ Holds(x, input, n)
  <2>1. x = [i \in DOMAIN FirstText |->
                IF i \in (N - F)..((N - F) + n - 1) THEN input[i - (N - F) + 1] ELSE FirstText[i]]
    BY <1>1, <1>2 DEF Fresh
  <2> QED
    BY <1>4, <1>5, <2>1, FirstHolds
<1>7. IsBefore(b, x)
  <2>1. b = CHOOSE g : IsBefore(g, x)
    BY <1>1, <1>2 DEF Fresh, IsBefore
  <2> QED
    BY <1>6, <2>1, BeforeExists
<1>8. PICK t : t = b[F] /\ Sound(t, x) /\ Behind(t, 0) /\ Ordered(t, x)
  BY <1>6, <1>7, BeforeIs
<1>9. r = At(0) /\ s = At(F)
  <2>1. At(0) = N - F
    BY <1>4, AtBlank
  <2>2. At(F - N) = 0 /\ (F - N) + N = F /\ F - N \in Int
    BY <1>4, AtBlank
  <2> QED
    BY <1>1, <2>1, <2>2, AtAround DEF Fresh
<1>17. last = InsertNode(t, x, At(0))
  <2>1. last = InsertNode(b[F], x, r)
    BY <1>2
  <2> QED
    BY <1>8, <1>9, <2>1
<1>10. /\ Sound(last.tree, x) /\ Window(last.tree, 0)
       /\ last.length \in 0..F /\ last.position \in Place
       /\ \A e \in 1..n : e <= last.length => Matches(input, 0, last.position, e)
  <2>1. 0 \in Nat /\ 0 + n = n
    BY <1>4, <1>5
  <2> QED
    BY <1>5, <1>6, <1>8, <1>17, <2>1, Registers
<1>11. EncoderTypes'
  <2>1. tree' \in Tree
    BY <1>3, <1>10 DEF Sound
  <2>2. match' \in [position: Place, length: 0..F]
    BY <1>3, <1>10
  <2>3. src' \in 0..Len(input) /\ len' \in 0..F
    BY <1>3, <1>4, <1>5
  <2>4. pc' \in {"start", "refused", "send", "advance", "decompress", "decompressed"}
    BY <1>3
  <2> QED
    BY <1>1, <1>3, <1>6, <2>1, <2>2, <2>3, <2>4 DEF EncoderTypes
<1>12. Unread'
  BY <1>1, <1>3 DEF Unread, decoder
<1>13. pc' \in {"refused", "send"} /\ dst' = <<>>
  BY <1>1, <1>3 DEF Fresh
<1>14. Pos' = 0
  BY <1>3, <1>5 DEF Pos
<1>15. ASSUME pc' = "send" PROVE Look' /\ \E base \in Nat : Sent(base)'
  <2>1. n > 0
    BY <1>3, <1>5, <1>15
  <2>2. Look'
    <3>1. n < Len(input) => n = F
      BY <1>5
    <3>2. Pos' + F = F
      BY <1>4, <1>14
    <3>3. advance' = 0 /\ r' = At(Pos') /\ s' = At(Pos' + F)
      BY <1>1, <1>3, <1>9, <1>14, <3>2 DEF Fresh
    <3>4. Sound(tree', text') /\ Window(tree', Pos') /\ Holds(text', input', src')
      BY <1>3, <1>6, <1>10, <1>14
    <3>5. \A e \in 1..len' : e <= match'.length => Matches(input', Pos', match'.position, e)
      BY <1>3, <1>10, <1>14
    <3>6. len' <= src' /\ (src' < Len(input') => len' = F) /\ advance' <= len' /\ len' > 0
      BY <1>3, <1>5, <2>1, <3>1, <3>3
    <3> QED
      BY <3>3, <3>4, <3>5, <3>6 DEF Look
  <2>3. Sent(0)'
    <3>1. code' = <<>> /\ flags' = {} /\ dst' = <<>> /\ advance' = 0
      BY <1>1, <1>3 DEF Fresh
    <3>2. Pos' + advance' = 0
      BY <1>14, <3>1
    <3>3. Bytes(<<>>) = 0
      <4>1. {i \in DOMAIN <<>> : "position" \in DOMAIN <<>>[i]} = {} /\ Len(<<>>) = 0
        OBVIOUS
      <4> QED
        BY <4>1, FS_EmptySet DEF Bytes
    <3>4. Groups(input', <<>>, 0) /\ Collected(input', <<>>, {}, 0, 0)
      BY NoGroups, NoUnits
    <3> QED
      BY <3>1, <3>2, <3>3, <3>4 DEF Sent
  <2> QED
    BY <2>2, <2>3
<1>16. SInv'
  <2>1. 0 \in Nat /\ Stands(t, x, 0, 0 - 1)
    BY DEF Stands
  <2>2. Ordered(last.tree, x) /\ Stands(last.tree, x, 0, 0) /\ Longest(x, 0, last)
    BY <1>6, <1>8, <1>17, <2>1, Finds
  <2>3. Longest(x, 0, match')
    BY <1>3, <2>2 DEF Longest
  <2> QED
    BY <1>3, <1>10, <1>14, <2>2, <2>3 DEF SInv
<1> QED
  BY <1>11, <1>12, <1>13, <1>15, <1>16 DEF IInv

-----------------------------------------------------------------------------
\* The unit that is sent, and what it does to the stream.
LEMMA SendStep ==
    ASSUME IInv, SendUnit
    PROVE  IInv'
<1>1. pc = "send" /\ Look /\ Unread /\ EncoderTypes /\ len > 0 /\ advance = 0
  BY DEF IInv, SendUnit, Look
<1>2. PICK base \in Nat : Sent(base)
  BY <1>1 DEF IInv
<1>3a. PICK asByte \in BOOLEAN : asByte <=> MatchLength <= Threshold
  <2>1. CASE MatchLength <= Threshold
    BY <2>1
  <2>2. CASE ~(MatchLength <= Threshold)
    BY <2>2
  <2> QED
    BY <2>1, <2>2
<1>3b. PICK d, o, m, n : d = input /\ o = Pos /\ m = MatchLength /\ n = Len(code)
  OBVIOUS
<1>3c. PICK u : u = (IF asByte THEN [byte |-> text[r]]
                     ELSE [position |-> match.position, length |-> m - (Threshold + 1)])
  OBVIOUS
<1>3d. PICK group : group = Append(code, u)
  OBVIOUS
<1>3e. PICK marks : marks = IF asByte THEN flags \cup {Len(group)} ELSE flags
  OBVIOUS
<1>3. /\ d = input /\ o = Pos /\ m = MatchLength /\ n = Len(code)
      /\ asByte <=> m <= Threshold
      /\ u = (IF asByte THEN [byte |-> text[r]]
              ELSE [position |-> match.position, length |-> m - (Threshold + 1)])
      /\ group = Append(code, u)
      /\ marks = IF asByte THEN flags \cup {Len(group)} ELSE flags
  BY <1>3a, <1>3b, <1>3c, <1>3d, <1>3e
<1>4. /\ advance' = IF asByte THEN 1 ELSE m
      /\ dst' = IF Len(group) = Group THEN dst \o <<[flags |-> marks]>> \o group ELSE dst
      /\ code' = IF Len(group) = Group THEN <<>> ELSE group
      /\ flags' = IF Len(group) = Group THEN {} ELSE marks
      /\ pc' = "advance"
      /\ UNCHANGED <<input, text, tree, match, src, len, s, r, decoder>>
  BY <1>3 DEF SendUnit
<1>5. /\ d \in Seq(Byte) /\ src \in 0..Len(d) /\ len \in 0..F /\ match.length \in 0..F /\ match.position \in Place
      /\ Len(d) \in Nat /\ F \in Nat /\ Threshold \in Nat /\ Threshold >= 1 /\ Threshold < F
      /\ len <= src /\ len > 0 /\ o = src - len /\ o \in Nat /\ o + len <= Len(d)
      /\ Group \in Nat /\ Group # 0 /\ n \in Nat /\ n < Group
  <2>1. Group \in Nat /\ Group # 0 /\ Threshold \in 1..(F - 1) /\ F \in Nat
    BY LzssAssumption, Places
  <2>2. input \in Seq(Byte) /\ src \in 0..Len(input) /\ len \in 0..F /\ match \in [position: Place, length: 0..F]
        /\ Len(code) < Group /\ code \in Seq(Literal \cup Pair) /\ len <= src
    BY <1>1 DEF EncoderTypes, Look
  <2> QED
    BY <1>1, <1>3, <2>1, <2>2 DEF Pos
<1>6. m \in 0..F /\ m <= len /\ m <= match.length
  <2>1. PICK y, z : y = match.length /\ z = len /\ y \in Int /\ z \in Int
    BY <1>5
  <2>2. m = Min({y, z})
    BY <1>3, <2>1 DEF MatchLength
  <2>3. m \in {y, z} /\ m <= y /\ m <= z
    BY <2>1, <2>2, MinTwo
  <2> QED
    BY <1>5, <2>1, <2>3
<1>7. PICK o2 : o2 = o + advance' /\ o2 = o + (IF asByte THEN 1 ELSE m)
  BY <1>4
<1>8. Fits(d, u, asByte, o, o2) /\ u \in Cells /\ u \in Literal \cup Pair
      /\ (asByte => "position" \notin DOMAIN u) /\ o2 \in Nat /\ o2 > o /\ (~asByte => o2 >= o + 2)
      /\ advance' \in 0..F /\ advance' <= len
  <2>1. CASE asByte
    <3>1. u = [byte |-> d[o + 1]] /\ d[o + 1] \in Byte
      <4>1. text[At(o) + 0] = Origin(d, o + 0)
        <5>1. PICK i : i = 0
          OBVIOUS
        <5>2. Holds(text, d, src)
          BY <1>1, <1>3 DEF Look
        <5>3. src \in Int /\ o \in Int /\ i \in 0..(F - 1) /\ src - N <= o /\ F - N <= o /\ o + i < src
          BY <1>5, <5>1, Places
        <5>4. text[At(o) + i] = Origin(d, o + i)
          BY <5>2, <5>3, HoldsRead
        <5> QED
          BY <5>1, <5>4
      <4>2. At(o) + 0 = At(o) /\ o + 0 = o /\ ~(o < 0) /\ o + 1 \in 1..Len(d)
        <5>1. o \in Int /\ o + 0 = o /\ ~(o < 0) /\ o + 1 \in 1..Len(d)
          BY <1>5
        <5>2. PICK q : q = At(o) /\ q \in 0..(N - 1)
          BY <5>1, AtPlace
        <5> QED
          BY <5>1, <5>2
      <4>3. text[r] = d[o + 1]
        BY <1>1, <1>3, <4>1, <4>2 DEF Look, Origin
      <4> QED
        BY <1>3, <1>5, <2>1, <4>2, <4>3
    <3>2. o2 = o + 1 /\ o2 \in Nat /\ o2 <= Len(d) /\ advance' = 1 /\ 1 \in 0..F
      BY <1>4, <1>5, <1>7, <2>1
    <3>3. u \in Literal
      BY <3>1 DEF Literal
    <3>4. Fits(d, u, asByte, o, o2)
      BY <2>1, <3>1, <3>2 DEF Fits
    <3>5. "position" \notin DOMAIN u /\ u \in Cells
      BY <3>3, CellIs DEF Cells
    <3>6. o2 > o /\ advance' \in 0..F /\ advance' <= len
      BY <1>5, <3>2
    <3> QED
      BY <2>1, <3>2, <3>3, <3>4, <3>5, <3>6
  <2>2. CASE ~asByte
    <3>1. m > Threshold /\ m \in 1..len /\ m >= 2
      BY <1>3, <1>5, <1>6, <2>2
    <3>2. PICK p, e : p = match.position /\ e = m - (Threshold + 1) /\ p \in Place /\ e \in Nat
                      /\ e + Threshold + 1 = m
      BY <1>5, <1>6, <3>1
    <3>3. u = [position |-> p, length |-> e]
      BY <1>3, <2>2, <3>2
    <3>4. u \in Pair /\ u.position = p /\ u.length = e
      BY <3>2, <3>3 DEF Pair
    <3>5. Matches(d, o, p, m)
      BY <1>1, <1>3, <1>6, <3>1, <3>2 DEF Look
    <3>6. o2 = o + m /\ o2 \in Nat /\ o2 <= Len(d) /\ advance' = m
      BY <1>4, <1>5, <1>6, <1>7, <2>2
    <3>7. Fits(d, u, asByte, o, o2)
      BY <1>6, <2>2, <3>2, <3>4, <3>5, <3>6 DEF Fits
    <3> QED
      BY <1>5, <1>6, <2>2, <3>1, <3>4, <3>6, <3>7 DEF Cells
  <2> QED
    BY <2>1, <2>2
<1>9. /\ code \in Seq(Cells) /\ flags \in SUBSET (1..n) /\ group \in Seq(Cells) /\ group \in Seq(Literal \cup Pair)
      /\ Len(group) = n + 1 /\ dst \in Seq(Cells)
  <2>1. code \in Seq(Literal \cup Pair) /\ flags \subseteq 1..n /\ dst \in Seq(Cells)
    BY <1>1, <1>3 DEF EncoderTypes
  <2>2. \A c \in Literal \cup Pair : c \in Cells
    BY DEF Cells
  <2>3. group \in Seq(Literal \cup Pair) /\ Len(group) = n + 1
    BY <1>3, <1>8, <2>1
  <2> HIDE DEF Cells
  <2> QED
    BY <2>1, <2>2, <2>3
<1>10. marks \in SUBSET (1..(n + 1)) /\ n + 1 <= Group /\ marks \in SUBSET (1..Group)
  <2>1. n + 1 <= Group /\ n + 1 \in 1..(n + 1) /\ (\A i \in 1..n : i \in 1..(n + 1))
        /\ \A i \in 1..(n + 1) : i \in 1..Group
    BY <1>5
  <2>2. marks \subseteq flags \cup {n + 1}
    BY <1>3, <1>9
  <2> QED
    BY <1>9, <2>1, <2>2
<1>11. /\ Groups(d, dst, base) /\ Collected(d, code, flags, base, o) /\ Bytes(dst) <= 2 * base /\ Bytes(code) <= o - base
  <2>1. Pos + advance = o
    BY <1>1, <1>3, <1>5
  <2> QED
    BY <1>2, <1>3, <2>1 DEF Sent
<1>12. Collected(d, group, marks, base, o2)
  <2>1. marks = IF asByte THEN flags \cup {Len(code) + 1} ELSE flags
    BY <1>3, <1>9
  <2> QED
    <3>1. \A o1, q2, o3 : Collected(d, code, flags, o1, q2) /\ Fits(d, u, asByte, q2, o3)
             => Collected(d, Append(code, u), IF asByte THEN flags \cup {Len(code) + 1} ELSE flags, o1, o3)
      <4>1. code \in Seq(Cells) /\ u \in Cells /\ asByte \in BOOLEAN
        BY <1>8, <1>9, <1>3a
      <4>2. flags \in SUBSET (1..Len(code))
        BY <1>3, <1>9
      <4> HIDE DEF Cells
      <4> QED
        BY <4>1, <4>2, UnitAdded
    <3>2. Collected(d, Append(code, u), IF asByte THEN flags \cup {Len(code) + 1} ELSE flags, base, o2)
      BY <1>8, <1>11, <3>1
    <3> QED
      BY <1>3, <2>1, <3>2
<1>13. Bytes(group) <= o2 - base /\ Bytes(group) \in Nat /\ Bytes(code) \in Nat /\ Bytes(dst) \in Nat
  <2>1. Bytes(group) \in Nat /\ Bytes(code) \in Nat /\ Bytes(dst) \in Nat
    BY <1>9, PairsFinite
  <2>2. Bytes(group) <= Bytes(code) + 2 /\ (asByte => Bytes(group) = Bytes(code) + 1)
    BY <1>3, <1>8, <1>9, BytesAppended
  <2> QED
    <3>1. PICK a, b, c : a = Bytes(group) /\ b = Bytes(code) /\ c = Bytes(dst) /\ a \in Nat /\ b \in Nat /\ c \in Nat
      BY <2>1
    <3>2. a <= o2 - base
      <4>1. CASE asByte
        <5>1. a = b + 1 /\ b <= o - base /\ o2 = o + 1
          BY <1>7, <1>11, <2>2, <3>1, <4>1
        <5> QED
          BY <1>5, <3>1, <5>1
      <4>2. CASE ~asByte
        <5>1. o2 >= o + 2 /\ a <= b + 2 /\ b <= o - base
          BY <1>8, <1>11, <2>2, <3>1, <4>2
        <5> QED
          BY <1>5, <1>8, <3>1, <5>1
      <4> QED
        BY <4>1, <4>2
    <3> QED
      BY <2>1, <3>1, <3>2
<1>14. Pos' = o /\ Pos' + advance' = o2 /\ input' = d
  BY <1>3, <1>4, <1>7 DEF Pos
<1>15. Look'
  BY <1>1, <1>4, <1>8, <1>14, <1>3 DEF Look
<1>16. Unread'
  BY <1>1, <1>4 DEF Unread, decoder
<1>17. CASE Len(group) # Group
  <2>1. dst' = dst /\ code' = group /\ flags' = marks /\ Len(code') < Group
    BY <1>4, <1>5, <1>9, <1>10, <1>17
  <2>2. Sent(base)'
    BY <1>11, <1>12, <1>13, <1>14, <2>1 DEF Sent
  <2>3. EncoderTypes'
    BY <1>1, <1>4, <1>8, <1>9, <1>10, <2>1 DEF EncoderTypes
  <2> QED
    BY <1>4, <1>15, <1>16, <2>2, <2>3 DEF IInv
<1>18. CASE Len(group) = Group
  <2>1. code' = <<>> /\ flags' = {} /\ dst' = dst \o <<[flags |-> marks]>> \o group
    BY <1>4, <1>18
  <2>2. Groups(d, dst', o2)
    BY <1>9, <1>10, <1>11, <1>12, <1>18, <2>1, GroupSent
  <2>3. Collected(d, <<>>, {}, o2, o2)
    BY <1>8, NoUnits
  <2>4. dst' \in Seq(Cells) /\ Bytes(dst') <= Bytes(dst) + 1 + Bytes(group)
    <3>0. [flags |-> marks] \in Flags
      BY <1>10 DEF Flags
    <3>1. PICK c : c = [flags |-> marks] /\ c \in Flags /\ c \in Cells /\ "position" \notin DOMAIN c
      BY <3>0, CellIs DEF Cells
    <3>2. PICK all : all = Append(dst, c) /\ all = dst \o <<c>> /\ all \in Seq(Cells)
      <4> HIDE DEF Cells
      <4>1. Append(dst, c) = dst \o <<c>> /\ Append(dst, c) \in Seq(Cells)
        BY <1>9, <3>1
      <4> QED
        BY <4>1
    <3>3. Bytes(all) = Bytes(dst) + 1
      BY <1>9, <3>1, <3>2, BytesAppended
    <3>4. Bytes(all \o group) <= Bytes(all) + Bytes(group)
      BY <1>9, <3>2, BytesJoined
    <3>5. dst' = all \o group
      BY <2>1, <3>1, <3>2
    <3>6. dst' \in Seq(Cells)
      BY <1>9, <3>2, <3>5
    <3> QED
      BY <3>3, <3>4, <3>5, <3>6
  <2>5. Bytes(dst') <= 2 * o2
    <3>1. Bytes(dst') \in Nat
      BY <2>4, PairsFinite
    <3>2. base <= o
      BY <1>5, <1>11, <1>13
    <3> QED
      BY <1>5, <1>8, <1>11, <1>13, <2>4, <3>1, <3>2
  <2>6. Bytes(<<>>) = 0 /\ Len(<<>>) = 0
    <3>1. {i \in DOMAIN <<>> : "position" \in DOMAIN <<>>[i]} = {} /\ Len(<<>>) = 0
      OBVIOUS
    <3> QED
      BY <3>1, FS_EmptySet DEF Bytes
  <2>7. Sent(o2)'
    BY <1>8, <1>14, <2>1, <2>2, <2>3, <2>5, <2>6 DEF Sent
  <2>8. EncoderTypes'
    <3>1. code' \in Seq(Literal \cup Pair) /\ Len(code') < Group /\ flags' \subseteq 1..Len(code')
      BY <1>5, <2>1, <2>6
    <3> QED
      BY <1>1, <1>4, <1>8, <2>4, <3>1 DEF EncoderTypes
  <2> QED
    BY <1>4, <1>8, <1>15, <1>16, <2>7, <2>8 DEF IInv
<1> QED
  BY <1>17, <1>18

-----------------------------------------------------------------------------
\* Refuse keeps the invariant.
LEMMA RefuseStep ==
    ASSUME IInv, Refuse
    PROVE  IInv'
<1>1. pc = "start" /\ pc' = "refused" /\ UNCHANGED <<input, encoder, decoder>>
  BY DEF Refuse
<1>2. EncoderTypes /\ dst = <<>> /\ Unread
  BY <1>1 DEF IInv
<1>3. EncoderTypes'
  BY <1>1, <1>2 DEF EncoderTypes, encoder
<1>4. Unread' /\ dst' = <<>>
  BY <1>1, <1>2 DEF Unread, encoder, decoder
<1> QED
  BY <1>1, <1>3, <1>4 DEF IInv

-----------------------------------------------------------------------------
\* A byte is passed: the look-ahead begins one byte further on.
LEMMA Passing ==
    ASSUME IInv, pc = "advance", advance > 0
    PROVE  /\ Look /\ EncoderTypes /\ Unread /\ Pos \in Nat /\ len \in 1..F /\ advance \in 1..F /\ len <= src
           /\ advance <= len /\ src \in 0..Len(input) /\ Len(input) \in Nat /\ F \in Nat /\ Pos + len = src
           /\ advance - 1 \in 0..F
           /\ Advance(r) = At(Pos + 1) /\ Advance(s) = At((Pos + 1) + F) /\ Advance(r) \in Place /\ Advance(s) \in Place
           /\ \A a : a = DeleteNode(tree, s) =>
                 /\ Sound(a, text) /\ Behind(a, Pos + 1) /\ Window(a, Pos + 1) /\ At(Pos + F) \notin Reg(a)
           /\ s = At(Pos + F) /\ s \in Place
<1>1. Look /\ EncoderTypes /\ Unread
  BY DEF IInv
<1>2. /\ input \in Seq(Byte) /\ src \in 0..Len(input) /\ len \in 0..F /\ advance \in 0..F
      /\ len <= src /\ advance <= len
  BY <1>1 DEF EncoderTypes, Look
<1>3. Len(input) \in Nat /\ F \in Nat
  BY <1>2, Places
<1>4. PICK o : o = Pos /\ o = src - len
  BY DEF Pos
<1>5. o \in Nat /\ len \in 1..F /\ advance \in 1..F /\ o + len = src /\ advance - 1 \in 0..F
  BY <1>2, <1>3, <1>4
<1>6. o \in Int /\ o + 1 \in Int /\ o + F \in Int /\ 1 \in Int /\ (o + F) + 1 = (o + 1) + F /\ (o + F) + 1 \in Int
  BY <1>3, <1>5
<1>7. r = At(o) /\ s = At(o + F) /\ s \in Place /\ Sound(tree, text) /\ Window(tree, o)
  BY <1>1, <1>4 DEF Look, EncoderTypes
<1>8. Advance(r) = At(o + 1) /\ Advance(s) = At((o + F) + 1)
  BY <1>6, <1>7, AtSum DEF Advance
<1>9. At(o + 1) \in Place /\ At((o + F) + 1) \in Place
  BY <1>6, AtPlace
<1>10. \A a : a = DeleteNode(tree, At(o + F)) =>
                 /\ Sound(a, text) /\ Behind(a, o + 1) /\ Window(a, o + 1) /\ At(o + F) \notin Reg(a)
  BY <1>6, <1>7, Dropped
<1> QED
  BY <1>1, <1>2, <1>3, <1>4, <1>5, <1>6, <1>7, <1>8, <1>9, <1>10

\* What was sent stays sent.
LEMMA SentStays ==
    ASSUME EncoderTypes, UNCHANGED <<input, code, flags, dst>>, (Pos + advance)' = Pos + advance,
           NEW base \in Nat, Sent(base)
    PROVE  Sent(base)'
BY DEF Sent

\* ReadByte keeps the invariant.
LEMMA ReadStep ==
    ASSUME IInv, ReadByte
    PROVE  IInv' /\ (SInv => SInv')
<1>1. pc = "advance" /\ advance > 0 /\ src < Len(input)
  BY DEF ReadByte
<1>2. PICK o, d, q : o = Pos /\ d = input /\ q = Advance(r)
  OBVIOUS
<1>3. /\ Look /\ EncoderTypes /\ Unread /\ o \in Nat /\ len \in 1..F /\ advance \in 1..F /\ len <= src
      /\ advance <= len /\ src \in 0..Len(d) /\ Len(d) \in Nat /\ F \in Nat /\ o + len = src
      /\ advance - 1 \in 0..F
      /\ q = At(o + 1) /\ Advance(s) = At((o + 1) + F) /\ q \in Place /\ Advance(s) \in Place
      /\ s = At(o + F) /\ s \in Place
  BY <1>1, <1>2, Passing
<1>4. len = F /\ o + F = src /\ src \in 0..(Len(d) - 1) /\ src + 1 \in 0..Len(d) /\ (o + 1) + F = src + 1 /\ (src + 1) - F = o + 1
      /\ F <= src + 1
  <2>1. len = F
    BY <1>1, <1>3 DEF Look
  <2> QED
    BY <1>1, <1>2, <1>3, <2>1
<1>5. PICK x, a, found : /\ x = Written(s, input[src + 1]) /\ a = DeleteNode(tree, s) /\ found = InsertNode(a, x, q)
  OBVIOUS
<1>6. /\ text' = x /\ tree' = found.tree /\ match' = [position |-> found.position, length |-> found.length]
      /\ src' = src + 1 /\ s' = Advance(s) /\ r' = q /\ advance' = advance - 1
      /\ UNCHANGED <<input, pc, len, code, flags, dst, decoder>>
  BY <1>2, <1>5 DEF ReadByte
<1>7. d \in Seq(Byte) /\ text \in Text /\ Holds(text, d, src)
  BY <1>2, <1>3 DEF EncoderTypes, Look
<1>17. x = [i \in DOMAIN text |-> IF i = At(src) \/ (At(src) < F - 1 /\ i = At(src) + N) THEN d[src + 1] ELSE text[i]]
  BY <1>2, <1>3, <1>4, <1>5 DEF Written
<1>8. x \in Text /\ Holds(x, d, src + 1) /\ \A p \in Place : p # At(src) => x[p] = text[p]
  BY <1>4, <1>7, <1>17, HoldsNext
<1>9. Sound(a, text) /\ Behind(a, o + 1) /\ At(o + F) \notin Reg(a)
  BY <1>1, <1>2, <1>5, Passing
<1>10. Sound(a, x)
  <2>1. \A p \in Reg(a) : p \in Place /\ p # At(src)
    BY <1>4, <1>9 DEF Reg
  <2> QED
    BY <1>8, <1>9, <2>1, SoundText
<1>11. /\ Sound(found.tree, x) /\ Window(found.tree, o + 1)
       /\ found.length \in 0..F /\ found.position \in Place
       /\ \A e \in 1..F : e <= found.length => Matches(d, o + 1, found.position, e)
  <2>1. o + 1 \in Nat /\ F \in 0..F
    BY <1>3
  <2>2. Holds(x, d, (o + 1) + F) /\ found = InsertNode(a, x, At(o + 1))
    BY <1>3, <1>4, <1>5, <1>8
  <2> QED
    BY <1>8, <1>9, <1>10, <2>1, <2>2, Registers
<1>12. Pos' = o + 1 /\ (Pos + advance)' = Pos + advance
  <2>1. Pos' = (src + 1) - F
    BY <1>4, <1>6 DEF Pos
  <2> QED
    BY <1>2, <1>3, <1>4, <1>6, <2>1
<1>13. Look'
  <2>1. Sound(tree', text') /\ Window(tree', Pos') /\ Holds(text', input', src')
    BY <1>2, <1>6, <1>8, <1>11, <1>12
  <2>2. r' = At(Pos') /\ s' = At(Pos' + F)
    BY <1>3, <1>6, <1>12
  <2>3. len' = F /\ len' <= src' /\ advance' <= len'
    BY <1>3, <1>4, <1>6
  <2>4. \A e \in 1..len' : e <= match'.length => Matches(input', Pos', match'.position, e)
    BY <1>2, <1>6, <1>11, <1>12, <2>3
  <2> QED
    BY <1>1, <1>6, <2>1, <2>2, <2>3, <2>4 DEF Look
<1>14. EncoderTypes'
  <2>1. tree' \in Tree /\ text' \in Text
    BY <1>6, <1>8, <1>11 DEF Sound
  <2>2. match' \in [position: Place, length: 0..F]
    BY <1>6, <1>11
  <2>3. src' \in 0..Len(input') /\ advance' \in 0..F /\ s' \in Place /\ r' \in Place
    BY <1>2, <1>3, <1>4, <1>6
  <2> QED
    BY <1>3, <1>6, <2>1, <2>2, <2>3 DEF EncoderTypes
<1>15. \E base \in Nat : Sent(base)'
  <2>1. PICK base \in Nat : Sent(base)
    BY <1>1 DEF IInv
  <2> QED
    BY <1>3, <1>6, <1>12, <2>1, SentStays
<1>16. Unread'
  BY <1>3, <1>6 DEF Unread, decoder
<1>18. ASSUME SInv PROVE SInv'
  <2>1. Sound(tree, text) /\ Ordered(tree, text) /\ Stands(tree, text, o, o)
    BY <1>1, <1>2, <1>3, <1>18 DEF SInv
  <2>2. a = DeleteNode(tree, At(o + F)) /\ o + 1 \in Nat /\ (o + 1) - 1 = o
    BY <1>3, <1>5
  <2>3. Ordered(a, text) /\ Stands(a, text, o + 1, o)
    BY <1>3, <1>7, <2>1, <2>2, DeletedOrdered, StandsDropped
  <2>4. \A j \in ((o + 1) - (N - F))..o : \A i \in 0..(F - 1) : x[At(j) + i] = text[At(j) + i]
    <3>1. \A i \in DOMAIN text : i # s /\ i # s + N => x[i] = text[i]
      BY <1>3, <1>4, <1>17
    <3> QED
      BY <1>3, <1>7, <3>1, StringsKept
  <2>5. Stands(a, x, o + 1, o)
    BY <1>3, <2>2, <2>3, <2>4, StandsText
  <2>6. \A p \in Reg(a) : \A i \in 0..(F - 1) : x[p + i] = text[p + i]
    BY <1>9, <2>2, <2>4 DEF Behind
  <2>7. Ordered(a, x)
    BY <1>7, <1>8, <1>9, <2>3, <2>6, OrderedText
  <2>8. found = InsertNode(a, x, At(o + 1)) /\ Stands(a, x, o + 1, (o + 1) - 1)
    BY <1>3, <1>5, <2>2, <2>5
  <2>9. Ordered(found.tree, x) /\ Stands(found.tree, x, o + 1, o + 1) /\ Longest(x, o + 1, found)
    BY <1>8, <1>9, <1>10, <2>2, <2>7, <2>8, Finds
  <2>10. Longest(x, o + 1, match')
    BY <1>6, <2>9 DEF Longest
  <2> QED
    BY <1>6, <1>11, <1>12, <2>9, <2>10 DEF SInv
<1> QED
  BY <1>1, <1>6, <1>13, <1>14, <1>15, <1>16, <1>18 DEF IInv

\* Drain keeps the invariant.
LEMMA DrainStep ==
    ASSUME IInv, Drain
    PROVE  IInv' /\ (SInv => SInv')
<1>1. pc = "advance" /\ advance > 0 /\ src = Len(input)
  BY DEF Drain
<1>2. PICK o, d, q : o = Pos /\ d = input /\ q = Advance(r)
  OBVIOUS
<1>3. /\ Look /\ EncoderTypes /\ Unread /\ o \in Nat /\ len \in 1..F /\ advance \in 1..F /\ len <= src
      /\ advance <= len /\ src \in 0..Len(d) /\ Len(d) \in Nat /\ F \in Nat /\ o + len = src
      /\ advance - 1 \in 0..F
      /\ q = At(o + 1) /\ Advance(s) = At((o + 1) + F) /\ q \in Place /\ Advance(s) \in Place
      /\ s = At(o + F) /\ s \in Place
  BY <1>1, <1>2, Passing
<1>4. len - 1 \in 0..F /\ (o + 1) + (len - 1) = src /\ src - (len - 1) = o + 1 /\ advance - 1 <= len - 1 /\ len - 1 <= src
      /\ (len > 1 \/ len - 1 = 0) /\ o + 1 \in Nat
  BY <1>3
<1>5. PICK a, found : a = DeleteNode(tree, s) /\ found = InsertNode(a, text, q)
  OBVIOUS
<1>6. /\ IF len > 1 THEN tree' = found.tree /\ match' = [position |-> found.position, length |-> found.length]
         ELSE tree' = a /\ match' = match
      /\ len' = len - 1 /\ s' = Advance(s) /\ r' = q /\ advance' = advance - 1
      /\ UNCHANGED <<input, pc, text, src, code, flags, dst, decoder>>
  BY <1>2, <1>5 DEF Drain
<1>7. d \in Seq(Byte) /\ text \in Text /\ Holds(text, d, src) /\ match \in [position: Place, length: 0..F]
  BY <1>2, <1>3 DEF EncoderTypes, Look
<1>8. Sound(a, text) /\ Behind(a, o + 1) /\ Window(a, o + 1)
  BY <1>1, <1>2, <1>5, Passing
<1>9. /\ Sound(found.tree, text) /\ Window(found.tree, o + 1)
      /\ found.length \in 0..F /\ found.position \in Place
      /\ \A e \in 1..(len - 1) : e <= found.length => Matches(d, o + 1, found.position, e)
  <2>1. Holds(text, d, (o + 1) + (len - 1)) /\ found = InsertNode(a, text, At(o + 1))
    BY <1>3, <1>4, <1>5, <1>7
  <2> QED
    BY <1>4, <1>7, <1>8, <2>1, Registers
<1>10. /\ Sound(tree', text) /\ Window(tree', o + 1) /\ match' \in [position: Place, length: 0..F]
       /\ \A e \in 1..(len - 1) : e <= match'.length => Matches(d, o + 1, match'.position, e)
  <2>1. CASE len > 1
    BY <1>6, <1>9, <2>1
  <2>2. CASE ~(len > 1)
    <3>1. \A e : e \notin 1..(len - 1)
      BY <1>4, <2>2
    <3> QED
      BY <1>6, <1>7, <1>8, <2>2, <3>1
  <2> QED
    BY <2>1, <2>2
<1>12. Pos' = o + 1 /\ (Pos + advance)' = Pos + advance
  <2>1. Pos' = src - (len - 1)
    BY <1>6 DEF Pos
  <2> QED
    BY <1>2, <1>3, <1>4, <1>6, <2>1
<1>13. Look'
  <2>1. Sound(tree', text') /\ Window(tree', Pos') /\ Holds(text', input', src')
    BY <1>2, <1>6, <1>7, <1>10, <1>12
  <2>2. r' = At(Pos') /\ s' = At(Pos' + F)
    BY <1>3, <1>6, <1>12
  <2>3. len' <= src' /\ advance' <= len' /\ ~(src' < Len(input'))
    BY <1>1, <1>2, <1>3, <1>4, <1>6
  <2>4. \A e \in 1..len' : e <= match'.length => Matches(input', Pos', match'.position, e)
    BY <1>2, <1>6, <1>10, <1>12
  <2> QED
    BY <1>1, <1>6, <2>1, <2>2, <2>3, <2>4 DEF Look
<1>14. EncoderTypes'
  <2>1. tree' \in Tree
    BY <1>10 DEF Sound
  <2> QED
    BY <1>3, <1>4, <1>6, <1>10, <2>1 DEF EncoderTypes
<1>15. \E base \in Nat : Sent(base)'
  <2>1. PICK base \in Nat : Sent(base)
    BY <1>1 DEF IInv
  <2> QED
    BY <1>3, <1>6, <1>12, <2>1, SentStays
<1>16. Unread'
  BY <1>3, <1>6 DEF Unread, decoder
<1>18. ASSUME SInv PROVE SInv'
  <2>1. Sound(tree, text) /\ Ordered(tree, text) /\ Stands(tree, text, o, o)
    BY <1>1, <1>2, <1>3, <1>18 DEF SInv
  <2>2. a = DeleteNode(tree, At(o + F)) /\ found = InsertNode(a, text, At(o + 1)) /\ o + 1 \in Nat /\ (o + 1) - 1 = o
    BY <1>3, <1>5
  <2>3. Ordered(a, text) /\ Stands(a, text, o + 1, o)
    BY <1>3, <1>7, <2>1, <2>2, DeletedOrdered, StandsDropped
  <2>4. CASE len > 1
    <3>1. Stands(a, text, o + 1, (o + 1) - 1)
      BY <2>2, <2>3
    <3>2. Ordered(found.tree, text) /\ Stands(found.tree, text, o + 1, o + 1) /\ Longest(text, o + 1, found)
      BY <1>7, <1>8, <2>2, <2>3, <3>1, Finds
    <3>3. Longest(text, o + 1, match')
      BY <1>6, <2>4, <3>2 DEF Longest
    <3> QED
      BY <1>6, <1>9, <1>12, <2>4, <3>2, <3>3 DEF SInv
  <2>5. CASE ~(len > 1)
    <3>1. ~(len' > 0)
      BY <1>3, <1>6, <2>5
    <3> QED
      BY <1>6, <1>8, <2>3, <2>5, <3>1 DEF SInv
  <2> QED
    BY <2>4, <2>5
<1> QED
  BY <1>1, <1>6, <1>13, <1>14, <1>15, <1>16, <1>18 DEF IInv

-----------------------------------------------------------------------------
\* The ring that nothing has been written to holds the blanks before the text.
LEMMA FirstRing ==
    ASSUME Unread, NEW d
    PROVE  ring \in [Place -> Byte \cup {NoByte}] /\ Restored(ring, d, 0) /\ w = At(0)
<1>1. ring = [i \in Place |-> IF i < N - F THEN Space ELSE NoByte] /\ w = N - F
  BY DEF Unread
<1>2. N \in Nat /\ F \in Nat /\ F >= 2 /\ N >= 2 * F
  BY Places
<1>3. ring \in [Place -> Byte \cup {NoByte}]
  BY <1>1, LzssTreeAssumption
<1>4. w = At(0)
  <2>1. F - N <= 0 /\ 0 < F /\ 0 \in Int /\ (N - F) + 0 = N - F
    BY <1>2
  <2> QED
    BY <1>1, <2>1, AtBlank
<1>5. ASSUME NEW j \in Int, 0 - N <= j, j < 0, F - N <= j PROVE ring[At(j)] = Origin(d, j)
  <2>1. j < F /\ (N - F) + j < N - F
    BY <1>2, <1>5
  <2>2. PICK p : p = At(j) /\ p \in Place /\ p = (N - F) + j
    BY <1>5, <2>1, AtBlank, AtPlace
  <2>3. ring[p] = Space
    BY <1>1, <2>1, <2>2
  <2> QED
    BY <1>5, <2>2, <2>3 DEF Origin
<1> QED
  BY <1>3, <1>4, <1>5 DEF Restored

\* Decompress begins.
LEMMA Begun ==
    ASSUME Unread, input \in Seq(Byte), dst \in Seq(Cells), StreamTo(input, dst, Len(input)),
           Bytes(dst) <= 2 * Len(input), pc = "decompress"
    PROVE  Received
<1>1. ring \in [Place -> Byte \cup {NoByte}] /\ Restored(ring, input, 0) /\ w = At(0)
  BY FirstRing
<1>2. cell = 1 /\ unit = Group /\ bits = {} /\ out = <<>>
  BY DEF Unread
<1>3. Len(out) = 0 /\ out \in Seq(Byte) /\ 1..0 = {} /\ 0 <= Len(input) /\ 1 \in 1..(Len(dst) + 1)
  <2>1. Len(input) \in Nat /\ Len(dst) \in Nat
    OBVIOUS
  <2> QED
    BY <1>2, <2>1
<1>4. PICK h : Stream(input, dst, h) /\ h[Len(dst) + 1].offset = Len(input)
  BY DEF StreamTo
<1>5. h[cell] = [unit |-> unit, bits |-> bits, offset |-> Len(out)]
  BY <1>2, <1>3, <1>4 DEF Stream
<1> QED
  BY <1>1, <1>2, <1>3, <1>4, <1>5 DEF Received

\* EndAdvance keeps the invariant.
LEMMA EndAdvanceStep ==
    ASSUME IInv, EndAdvance
    PROVE  IInv'
<1>1. pc = "advance" /\ advance = 0 /\ UNCHANGED <<input, text, tree, match, src, len, s, r, advance, code, flags, decoder>>
  BY DEF EndAdvance
<1>2. Look /\ Unread /\ EncoderTypes
  BY <1>1 DEF IInv
<1>3. PICK base \in Nat : Sent(base)
  BY <1>1 DEF IInv
<1>4. Unread'
  BY <1>1, <1>2 DEF Unread, decoder
<1>5. CASE len > 0
  <2>1. pc' = "send" /\ dst' = dst
    BY <1>1, <1>5 DEF EndAdvance
  <2>2. EncoderTypes'
    BY <1>1, <1>2, <2>1 DEF EncoderTypes
  <2>3. Look'
    <3>1. Pos' = Pos
      BY <1>1 DEF Pos
    <3> QED
      BY <1>1, <1>2, <1>5, <2>1, <3>1 DEF Look
  <2>4. Sent(base)'
    <3>1. (Pos + advance)' = Pos + advance
      BY <1>1 DEF Pos
    <3> QED
      BY <1>1, <1>2, <1>3, <2>1, <3>1, SentStays
  <2> QED
    BY <1>4, <2>1, <2>2, <2>3, <2>4 DEF IInv
<1>6. CASE ~(len > 0)
  <2>1. pc' = "decompress" /\ dst' = IF code = <<>> THEN dst ELSE dst \o <<[flags |-> flags]>> \o code
    BY <1>6 DEF EndAdvance
  <2>2. /\ input \in Seq(Byte) /\ src \in 0..Len(input) /\ len \in 0..F /\ dst \in Seq(Cells)
        /\ code \in Seq(Literal \cup Pair) /\ Len(code) < Group /\ flags \subseteq 1..Len(code)
    BY <1>2 DEF EncoderTypes
  <2>3. PICK d, m : d = input /\ m = Len(input) /\ m \in Nat
    <3>1. Len(input) \in Nat
      BY <2>2
    <3> QED
      BY <3>1
  <2>4. src = m /\ Pos + advance = m
    <3>1. len = 0 /\ F >= 2 /\ F \in Nat
      BY <1>6, <2>2, Places
    <3>2. ~(src < Len(input))
      BY <1>2, <3>1 DEF Look
    <3> QED
      BY <1>1, <2>2, <2>3, <3>1, <3>2 DEF Pos
  <2>5. /\ Groups(d, dst, base) /\ Collected(d, code, flags, base, m) /\ Bytes(dst) <= 2 * base
        /\ Bytes(code) <= m - base
    BY <1>3, <2>3, <2>4 DEF Sent
  <2>6. code \in Seq(Cells)
    <3>1. \A c \in Literal \cup Pair : c \in Cells
      BY DEF Cells
    <3> HIDE DEF Cells
    <3> QED
      BY <2>2, <3>1
  <2>7. Group \in Nat /\ Len(code) \in Nat /\ Len(code) <= Group /\ flags \in SUBSET (1..Group)
    <3>1. Group \in Nat /\ Len(code) \in Nat
      BY <2>2, LzssAssumption
    <3>2. \A i \in 1..Len(code) : i \in 1..Group
      BY <2>2, <3>1
    <3> QED
      BY <2>2, <3>1, <3>2
  <2>8. Bytes(code) \in Nat /\ Bytes(dst) \in Nat /\ Len(code) <= Bytes(code)
    <3>1. /\ Cardinality(Pairs(code)) \in Nat /\ Bytes(code) = Len(code) + Cardinality(Pairs(code))
          /\ Bytes(code) \in Nat /\ Bytes(dst) \in Nat
      BY <2>2, <2>6, PairsFinite
    <3> QED
      BY <2>7, <3>1
  <2>9. dst' \in Seq(Cells) /\ StreamTo(d, dst', m) /\ Bytes(dst') <= 2 * m
    <3>1. CASE code = <<>>
      <4>1. base = m
        <5>1. PICK o : Units(d, code, flags, o) /\ o[1] = base /\ o[Len(code) + 1] = m
          BY <2>5 DEF Collected
        <5>2. Len(code) + 1 = 1
          BY <3>1
        <5> QED
          BY <5>1, <5>2
      <4>2. StreamTo(d, dst, m)
        BY <2>5, <4>1 DEF Groups, StreamTo
      <4> QED
        BY <2>1, <2>2, <2>5, <3>1, <4>1, <4>2
    <3>2. CASE code # <<>>
      <4>1. PICK c : c = [flags |-> flags]
        OBVIOUS
      <4>2. c \in Flags
        BY <2>7, <4>1 DEF Flags
      <4>3. c \in Cells /\ "position" \notin DOMAIN c
        BY <4>2, CellIs DEF Cells
      <4>4. PICK all : all = Append(dst, c) /\ all = dst \o <<c>> /\ all \in Seq(Cells)
        <5> HIDE DEF Cells
        <5>1. Append(dst, c) = dst \o <<c>> /\ Append(dst, c) \in Seq(Cells)
          BY <2>2, <4>3
        <5> QED
          BY <5>1
      <4>5. dst' = all \o code /\ dst' = dst \o <<[flags |-> flags]>> \o code
        BY <2>1, <3>2, <4>1, <4>4
      <4>6. StreamTo(d, dst', m)
        BY <2>2, <2>5, <2>6, <2>7, <4>5, GroupSent
      <4>7. dst' \in Seq(Cells)
        <5> HIDE DEF Cells
        <5> QED
          BY <2>6, <4>4, <4>5
      <4>8. Bytes(all) = Bytes(dst) + 1
        BY <2>2, <4>3, <4>4, BytesAppended
      <4>9. Bytes(all \o code) <= Bytes(all) + Bytes(code)
        BY <2>6, <4>4, BytesJoined
      <4>10. Len(code) >= 1
        <5>1. Len(code) # 0
          BY <2>2, <3>2
        <5> QED
          BY <2>7, <5>1
      <4>11. PICK x, y, z : x = Bytes(dst') /\ y = Bytes(dst) /\ z = Bytes(code) /\ x \in Nat /\ y \in Nat /\ z \in Nat
        <5>1. Bytes(dst') \in Nat
          BY <4>7, PairsFinite
        <5> QED
          BY <2>8, <5>1
      <4>12. x <= y + 1 + z /\ y <= 2 * base /\ z <= m - base /\ z >= 1
        BY <2>5, <2>7, <2>8, <4>5, <4>8, <4>9, <4>10, <4>11
      <4>13. x <= 2 * m
        BY <2>3, <4>11, <4>12
      <4> QED
        BY <4>6, <4>7, <4>11, <4>13
    <3> QED
      BY <3>1, <3>2
  <2>10. EncoderTypes'
    BY <1>1, <1>2, <2>1, <2>9 DEF EncoderTypes
  <2>11. Received'
    <3>1. StreamTo(input, dst, Len(input))' /\ (Bytes(dst) <= 2 * Len(input))'
      BY <1>1, <2>3, <2>9
    <3>2. (input \in Seq(Byte))' /\ (dst \in Seq(Cells))' /\ (pc = "decompress")'
      BY <1>1, <2>1, <2>2, <2>9
    <3> QED
      BY <1>4, <3>1, <3>2, Begun, PTL
  <2> QED
    BY <1>4, <2>1, <2>10, <2>11 DEF IInv
<1> QED
  BY <1>5, <1>6

-----------------------------------------------------------------------------
\* What Received says of the next cell.
LEMMA NextCell ==
    ASSUME IInv, pc = "decompress", NEW h, Stream(input, dst, h),
           h[cell] = [unit |-> unit, bits |-> bits, offset |-> Len(out)], cell \in 1..(Len(dst) + 1), cell <= Len(dst)
    PROVE  \E b \in Reading : /\ b = h[cell + 1] /\ cell + 1 \in 1..(Len(dst) + 1) /\ cell + 1 \in Nat
                              /\ b = [unit |-> b.unit, bits |-> b.bits, offset |-> b.offset]
                              /\ IF unit = Group
                                 THEN dst[cell] \in Flags /\ b.unit = 0 /\ b.bits = dst[cell].flags /\ b.offset = Len(out)
                                 ELSE /\ b.unit = unit + 1 /\ b.bits = bits
                                      /\ Fits(input, dst[cell], unit + 1 \in bits, Len(out), b.offset)
<1>1. dst \in Seq(Cells) /\ Len(dst) \in Nat
  <2>1. dst \in Seq(Cells)
    BY DEF IInv, EncoderTypes
  <2> QED
    BY <2>1
<1>2. cell \in 1..Len(dst) /\ cell + 1 \in 1..(Len(dst) + 1) /\ cell + 1 \in Nat
  BY <1>1
<1>3. PICK a, b, c : a = h[cell] /\ b = h[cell + 1] /\ c = dst[cell]
  OBVIOUS
<1>4. Follows(input, c, a, b) /\ b \in Reading
  BY <1>2, <1>3 DEF Stream
<1>5. a.unit = unit /\ a.bits = bits /\ a.offset = Len(out)
  BY <1>3
<1>6. b = [unit |-> b.unit, bits |-> b.bits, offset |-> b.offset]
  BY <1>4 DEF Reading
<1>7. CASE unit = Group
  BY <1>2, <1>3, <1>4, <1>5, <1>6, <1>7 DEF Follows
<1>8. CASE unit # Group
  BY <1>2, <1>3, <1>4, <1>5, <1>6, <1>8 DEF Follows
<1> QED
  BY <1>7, <1>8

\* EndStream keeps the invariant.
LEMMA EndStreamStep ==
    ASSUME IInv, EndStream
    PROVE  IInv'
<1>1. pc = "decompress" /\ pc' = "decompressed" /\ cell > Len(dst) /\ UNCHANGED <<input, encoder, decoder>>
  BY DEF EndStream
<1>2. EncoderTypes /\ Received
  BY <1>1 DEF IInv
<1>3. EncoderTypes'
  BY <1>1, <1>2 DEF EncoderTypes, encoder
<1>4. cell = Len(dst) + 1
  <2>1. dst \in Seq(Cells) /\ cell \in 1..(Len(dst) + 1)
    BY <1>2 DEF EncoderTypes, Received
  <2>2. Len(dst) \in Nat
    BY <2>1
  <2> QED
    BY <1>1, <2>1, <2>2
<1>5. Received'
  BY <1>1, <1>2, <1>4 DEF Received, encoder, decoder
<1> QED
  BY <1>1, <1>3, <1>5 DEF IInv

\* ReadFlags keeps the invariant.
LEMMA ReadFlagsStep ==
    ASSUME IInv, ReadFlags
    PROVE  IInv'
<1>1. /\ pc = "decompress" /\ cell <= Len(dst) /\ unit = Group
      /\ bits' = dst[cell].flags /\ unit' = 0 /\ cell' = cell + 1 /\ UNCHANGED <<input, pc, encoder, ring, w, out>>
  BY DEF ReadFlags
<1>2. EncoderTypes /\ Received
  BY <1>1 DEF IInv
<1>3. EncoderTypes' /\ dst' = dst
  BY <1>1, <1>2 DEF EncoderTypes, encoder
<1>4. PICK h : /\ Stream(input, dst, h) /\ h[Len(dst) + 1].offset = Len(input)
               /\ h[cell] = [unit |-> unit, bits |-> bits, offset |-> Len(out)]
  BY <1>2 DEF Received
<1>5. PICK b \in Reading : /\ b = h[cell + 1] /\ cell + 1 \in 1..(Len(dst) + 1)
                           /\ b = [unit |-> b.unit, bits |-> b.bits, offset |-> b.offset]
                           /\ b.unit = 0 /\ b.bits = dst[cell].flags /\ b.offset = Len(out)
  <2>1. cell \in 1..(Len(dst) + 1)
    BY <1>2 DEF Received
  <2> QED
    BY <1>1, <1>4, <2>1, NextCell
<1>6. h[cell'] = [unit |-> unit', bits |-> bits', offset |-> Len(out')]
  BY <1>1, <1>5
<1>7. (\E g : /\ Stream(input, dst, g) /\ g[Len(dst) + 1].offset = Len(input)
              /\ g[cell] = [unit |-> unit, bits |-> bits, offset |-> Len(out)])'
  BY <1>1, <1>3, <1>4, <1>6
<1>8. Received'
  BY <1>1, <1>2, <1>3, <1>5, <1>7 DEF Received
<1> QED
  BY <1>1, <1>3, <1>8 DEF IInv

-----------------------------------------------------------------------------
\* Two sequences of bytes in one.
LEMMA Joined ==
    ASSUME NEW a \in Seq(Byte), NEW b \in Seq(Byte)
    PROVE  /\ a \o b \in Seq(Byte) /\ Len(a \o b) = Len(a) + Len(b)
           /\ \A i \in 1..Len(a) : (a \o b)[i] = a[i]
           /\ \A k \in 1..Len(b) : (a \o b)[Len(a) + k] = b[k]
OBVIOUS

\* Writing the next bytes of the input keeps the invariant.
LEMMA EmitStep ==
    ASSUME IInv, pc = "decompress", UNCHANGED <<input, pc, encoder, bits>>, cell <= Len(dst), unit # Group,
           unit' = unit + 1, cell' = cell + 1,
           NEW h, Stream(input, dst, h), h[Len(dst) + 1].offset = Len(input),
           h[cell] = [unit |-> unit, bits |-> bits, offset |-> Len(out)],
           NEW m \in 1..F, Len(out) + m <= Len(input), h[cell + 1].offset = Len(out) + m,
           NEW bytes, Reads(bytes, input, Len(out), m), Emit(bytes)
    PROVE  IInv'
<1>1. EncoderTypes /\ Received
  BY DEF IInv
<1>2. EncoderTypes' /\ dst' = dst
  BY <1>1 DEF EncoderTypes, encoder
<1>3. /\ input \in Seq(Byte) /\ ring \in [Place -> Byte \cup {NoByte}] /\ Restored(ring, input, Len(out))
      /\ w = At(Len(out)) /\ out \in Seq(Byte) /\ \A i \in 1..Len(out) : out[i] = input[i]
      /\ cell \in 1..(Len(dst) + 1)
  BY <1>1 DEF EncoderTypes, Received
<1>4. PICK o, d : o = Len(out) /\ d = input /\ o \in Nat
  <2>1. Len(out) \in Nat
    BY <1>3
  <2> QED
    BY <2>1
<1>5. m \in Nat /\ o \in Int /\ m \in Int
  BY <1>4, Places
<1>0. bytes \in Seq(Byte) /\ Len(bytes) = m /\ \A k \in 1..m : bytes[k] = d[o + k]
  BY <1>4 DEF Reads
<1>6. /\ out' = out \o bytes /\ w' = (w + m) % N
      /\ ring' = Rewritten(ring, bytes, o, m)
  BY <1>0, <1>3, <1>4 DEF Emit, Rewritten
<1>7. ring' \in [Place -> Byte \cup {NoByte}] /\ Restored(ring', d, o + m)
  <2>1. o + m <= Len(d) /\ Reads(bytes, d, o, m)
    BY <1>4
  <2>2. d \in Seq(Byte) /\ Restored(ring, d, o)
    BY <1>3, <1>4
  <2> QED
    <3>1. o \in Nat
      BY <1>4
    <3>2. \A g2 : g2 = Rewritten(ring, bytes, o, m) => g2 \in [Place -> Byte \cup {NoByte}] /\ Restored(g2, d, o + m)
      BY <1>3, <2>1, <2>2, <3>1, RestoredNext
    <3> QED
      BY <1>6, <3>2
<1>8. w' = At(o + m)
  BY <1>3, <1>4, <1>5, <1>6, AtSum
<1>9. out' \in Seq(Byte) /\ Len(out') = o + m /\ \A i \in 1..(o + m) : out'[i] = d[i]
  <2>1. out' \in Seq(Byte) /\ Len(out') = o + m /\ (\A i \in 1..o : out'[i] = out[i])
        /\ \A k \in 1..m : out'[o + k] = bytes[k]
    BY <1>0, <1>3, <1>4, <1>6, Joined
  <2>2. ASSUME NEW i \in 1..(o + m) PROVE out'[i] = d[i]
    <3>1. CASE i <= o
      <4>1. i \in 1..o
        BY <1>4, <3>1
      <4> QED
        BY <1>3, <1>4, <2>1, <4>1
    <3>2. CASE ~(i <= o)
      <4>1. PICK k : k = i - o /\ k \in 1..m /\ o + k = i
        BY <1>4, <1>5, <3>2
      <4>2. out'[o + k] = bytes[k] /\ bytes[k] = d[o + k]
        BY <1>0, <2>1, <4>1
      <4> QED
        BY <4>1, <4>2
    <3> QED
      BY <3>1, <3>2
  <2> QED
    BY <2>1, <2>2
<1>10. PICK b \in Reading : /\ b = h[cell + 1] /\ cell + 1 \in 1..(Len(dst) + 1)
                            /\ b = [unit |-> b.unit, bits |-> b.bits, offset |-> b.offset]
                            /\ b.unit = unit + 1 /\ b.bits = bits
  BY <1>3, NextCell
<1>11. h[cell'] = [unit |-> unit', bits |-> bits', offset |-> Len(out')]
  BY <1>4, <1>9, <1>10
<1>12. (\E g : /\ Stream(input, dst, g) /\ g[Len(dst) + 1].offset = Len(input)
               /\ g[cell] = [unit |-> unit, bits |-> bits, offset |-> Len(out)])'
  BY <1>2, <1>11
<1>13. Received'
  <2>1. Restored(ring', input', Len(out')) /\ w' = At(Len(out')) /\ Len(out') <= Len(input')
        /\ \A i \in 1..Len(out') : out'[i] = input'[i]
    BY <1>4, <1>7, <1>8, <1>9
  <2>2. cell' \in 1..(Len(dst') + 1) /\ Bytes(dst') <= 2 * Len(input') /\ pc' # "decompressed"
    BY <1>1, <1>2, <1>10 DEF Received
  <2> QED
    BY <1>7, <1>9, <1>12, <2>1, <2>2 DEF Received
<1> QED
  BY <1>2, <1>13 DEF IInv

\* ReadLiteral keeps the invariant: the byte is the next one of the input.
LEMMA ReadLiteralStep ==
    ASSUME IInv, ReadLiteral
    PROVE  IInv'
<1>1. /\ pc = "decompress" /\ cell <= Len(dst) /\ unit < Group /\ (unit + 1) \in bits
      /\ Emit(<<dst[cell].byte>>) /\ unit' = unit + 1 /\ cell' = cell + 1 /\ UNCHANGED <<input, pc, encoder, bits>>
  BY DEF ReadLiteral
<1>2. EncoderTypes /\ Received
  BY <1>1 DEF IInv
<1>3. PICK h : /\ Stream(input, dst, h) /\ h[Len(dst) + 1].offset = Len(input)
               /\ h[cell] = [unit |-> unit, bits |-> bits, offset |-> Len(out)]
  BY <1>2 DEF Received
<1>4. input \in Seq(Byte) /\ out \in Seq(Byte) /\ cell \in 1..(Len(dst) + 1)
  BY <1>2 DEF EncoderTypes, Received
<1>5. unit # Group
  <2>1. unit \in 0..Group /\ Group \in Nat
    <3>1. h[cell] \in Reading /\ h[cell].unit = unit
      BY <1>3, <1>4 DEF Stream
    <3> QED
      BY <3>1, LzssAssumption DEF Reading
  <2> QED
    BY <1>1, <2>1
<1>6. PICK b \in Reading : b = h[cell + 1] /\ Fits(input, dst[cell], unit + 1 \in bits, Len(out), b.offset)
  BY <1>1, <1>3, <1>4, <1>5, NextCell
<1>7. PICK o : o = Len(out) /\ o \in Nat
  <2>1. Len(out) \in Nat
    BY <1>4
  <2> QED
    BY <2>1
<1>8. dst[cell] = [byte |-> input[o + 1]] /\ b.offset = o + 1 /\ o + 1 <= Len(input)
  BY <1>1, <1>6, <1>7 DEF Fits
<1>9. PICK c : c = input[o + 1] /\ c \in Byte /\ dst[cell].byte = c
  <2>1. o + 1 \in 1..Len(input)
    <3>1. Len(input) \in Nat
      BY <1>4
    <3> QED
      BY <1>7, <1>8, <3>1
  <2> QED
    BY <1>4, <1>8, <2>1
<1>10. <<c>> \in Seq(Byte) /\ Len(<<c>>) = 1 /\ 1 \in 1..F /\ \A k \in 1..1 : <<c>>[k] = input[o + k]
  <2>1. \A k \in 1..1 : k = 1
    OBVIOUS
  <2>2. 1 \in 1..F
    BY Places
  <2> QED
    BY <1>9, <2>1, <2>2
<1>11. Emit(<<c>>)
  BY <1>1, <1>9
<1> QED
  <2>1. Reads(<<c>>, input, Len(out), 1)
    BY <1>7, <1>10 DEF Reads
  <2> QED
    BY <1>1, <1>3, <1>5, <1>6, <1>7, <1>8, <1>10, <1>11, <2>1, EmitStep

\* ReadPair keeps the invariant: the bytes copied are the next ones of the input.
LEMMA ReadPairStep ==
    ASSUME IInv, ReadPair
    PROVE  IInv'
<1>1. /\ pc = "decompress" /\ cell <= Len(dst) /\ unit < Group /\ (unit + 1) \notin bits
      /\ Emit(Copied(dst[cell].position, dst[cell].length + Threshold + 1))
      /\ unit' = unit + 1 /\ cell' = cell + 1 /\ UNCHANGED <<input, pc, encoder, bits>>
  BY DEF ReadPair
<1>2. EncoderTypes /\ Received
  BY <1>1 DEF IInv
<1>3. PICK h : /\ Stream(input, dst, h) /\ h[Len(dst) + 1].offset = Len(input)
               /\ h[cell] = [unit |-> unit, bits |-> bits, offset |-> Len(out)]
  BY <1>2 DEF Received
<1>4. /\ input \in Seq(Byte) /\ out \in Seq(Byte) /\ cell \in 1..(Len(dst) + 1)
      /\ w = At(Len(out)) /\ Restored(ring, input, Len(out))
  BY <1>2 DEF EncoderTypes, Received
<1>5. unit # Group
  <2>1. unit \in 0..Group /\ Group \in Nat
    <3>1. h[cell] \in Reading /\ h[cell].unit = unit
      BY <1>3, <1>4 DEF Stream
    <3> QED
      BY <3>1, LzssAssumption DEF Reading
  <2> QED
    BY <1>1, <2>1
<1>6. PICK b \in Reading : b = h[cell + 1] /\ Fits(input, dst[cell], unit + 1 \in bits, Len(out), b.offset)
  BY <1>1, <1>3, <1>4, <1>5, NextCell
<1>7. PICK o, p, m : o = Len(out) /\ o \in Nat /\ p = dst[cell].position /\ m = dst[cell].length + Threshold + 1
  <2>1. Len(out) \in Nat
    BY <1>4
  <2> QED
    BY <2>1
<1>8. b.offset = o + m /\ o + m <= Len(input) /\ m \in 1..F /\ Matches(input, o, p, m)
  <2>1. /\ dst[cell] \in Pair /\ b.offset = o + (dst[cell].length + Threshold + 1) /\ b.offset <= Len(input)
        /\ dst[cell].length + Threshold + 1 <= F
        /\ Matches(input, o, dst[cell].position, dst[cell].length + Threshold + 1)
    BY <1>1, <1>6, <1>7 DEF Fits
  <2>2. dst[cell].length \in Nat /\ Threshold \in Nat /\ F \in Nat
    BY <2>1, LzssAssumption, Places DEF Pair
  <2> QED
    BY <1>7, <2>1, <2>2
<1>9. PICK bytes : bytes = Copied(p, m)
  OBVIOUS
<1>10. Reads(bytes, input, Len(out), m)
  <2>1. w = At(o) /\ Restored(ring, input, o)
    BY <1>4, <1>7
  <2>2. Reads(Copied(p, m), input, o, m)
    BY <1>4, <1>7, <1>8, <2>1, CopiedIs
  <2> QED
    BY <1>7, <1>9, <2>2
<1>11. Emit(bytes)
  BY <1>1, <1>7, <1>9
<1> QED
  BY <1>1, <1>3, <1>5, <1>6, <1>7, <1>8, <1>10, <1>11, EmitStep

-----------------------------------------------------------------------------
\* Every step keeps the invariant.
LEMMA StepIInv ==
    ASSUME IInv, [Next]_vars
    PROVE  IInv'
<1>1. CASE Refuse
  BY <1>1, RefuseStep
<1>2. CASE Fill
  BY <1>2, FillStep
<1>3. CASE SendUnit
  BY <1>3, SendStep
<1>4. CASE ReadByte
  BY <1>4, ReadStep
<1>5. CASE Drain
  BY <1>5, DrainStep
<1>6. CASE EndAdvance
  BY <1>6, EndAdvanceStep
<1>7. CASE EndStream
  BY <1>7, EndStreamStep
<1>8. CASE ReadFlags
  BY <1>8, ReadFlagsStep
<1>9. CASE ReadLiteral
  BY <1>9, ReadLiteralStep
<1>10. CASE ReadPair
  BY <1>10, ReadPairStep
<1>11. CASE UNCHANGED vars
  <2>1. UNCHANGED <<input, pc, text, tree, match, src, len, s, r, advance, code, flags, dst>> /\ UNCHANGED decoder
    BY <1>11 DEF vars, encoder
  <2>2. EncoderTypes' <=> EncoderTypes
    BY <2>1 DEF EncoderTypes
  <2>3. (Fresh' <=> Fresh) /\ (Look' <=> Look)
    BY <2>1 DEF Fresh, Look, Pos
  <2>4. (Unread' <=> Unread) /\ (Received' <=> Received)
    BY <2>1 DEF Unread, Received, decoder
  <2>5. \A base : Sent(base)' <=> Sent(base)
    BY <2>1 DEF Sent, Pos
  <2> QED
    BY <2>1, <2>2, <2>3, <2>4, <2>5 DEF IInv
<1> QED
  BY <1>1, <1>2, <1>3, <1>4, <1>5, <1>6, <1>7, <1>8, <1>9, <1>10, <1>11 DEF Next, Compress, Decompress, Finished

\* The invariant holds in every state of every behaviour.
LEMMA Always == Spec => []IInv
BY InitIInv, StepIInv, PTL DEF Spec

\* The steps that leave the search alone keep its invariant.
LEMMA SearchStays ==
    ASSUME SInv, UNCHANGED <<text, tree, match, src, len>>, pc # "start", pc' # "start",
           pc' \in {"send", "advance"} => pc \in {"send", "advance"}
    PROVE  SInv'
<1>1. Pos' = Pos
  BY DEF Pos
<1> QED
  BY <1>1 DEF SInv

\* Every step keeps the invariant of the search.
LEMMA StepSInv ==
    ASSUME IInv, SInv, [Next]_vars
    PROVE  SInv'
<1>1. CASE Refuse
  <2>1. pc' = "refused" /\ text' = text /\ tree' = InitState
    BY <1>1 DEF Refuse, encoder, IInv, Fresh
  <2> QED
    BY <2>1, FirstTree, FirstOrdered DEF SInv
<1>2. CASE Fill
  BY <1>2, FillStep
<1>3. CASE ReadByte
  BY <1>3, ReadStep
<1>4. CASE Drain
  BY <1>4, DrainStep
<1>5. CASE SendUnit \/ EndAdvance
  <2>1. UNCHANGED <<text, tree, match, src, len>> /\ pc \in {"send", "advance"} /\ pc' # "start"
    BY <1>5 DEF SendUnit, EndAdvance
  <2> QED
    BY <2>1, SearchStays
<1>6. CASE EndStream \/ ReadFlags \/ ReadLiteral \/ ReadPair
  <2>1. UNCHANGED <<text, tree, match, src, len>> /\ pc = "decompress" /\ pc' \in {"decompress", "decompressed"}
    BY <1>6 DEF EndStream, ReadFlags, ReadLiteral, ReadPair, encoder
  <2> QED
    BY <2>1, SearchStays
<1>7. CASE UNCHANGED vars
  <2>1. UNCHANGED <<pc, text, tree, match, src, len>>
    BY <1>7 DEF vars, encoder
  <2>2. Pos' = Pos
    BY <2>1 DEF Pos
  <2> QED
    BY <2>1, <2>2 DEF SInv
<1> QED
  BY <1>1, <1>2, <1>3, <1>4, <1>5, <1>6, <1>7 DEF Next, Compress, Decompress, Finished

\* The search keeps its invariant in every behaviour.
LEMMA SearchAlways == Spec => []SInv
<1>1. Init => SInv
  BY DEF Init, SInv
<1> QED
  BY <1>1, StepSInv, Always, PTL DEF Spec

-----------------------------------------------------------------------------
(* What the invariant implies. *)

\* The invariant implies each of the properties.
LEMMA IInvTypeOK == IInv => TypeOK
<1> SUFFICES ASSUME IInv PROVE TypeOK
  OBVIOUS
<1>1. EncoderTypes
  BY DEF IInv
<1>2. Group \in Nat /\ Group # 0
  BY LzssAssumption
<1>3. flags \subseteq 1..Group
  <2>1. flags \subseteq 1..Len(code) /\ Len(code) < Group /\ code \in Seq(Literal \cup Pair)
    BY <1>1 DEF EncoderTypes
  <2>2. Len(code) \in Nat
    BY <2>1
  <2> QED
    BY <1>2, <2>1, <2>2
<1>4. dst \in Seq(Literal \cup Pair \cup Flags)
  BY <1>1 DEF EncoderTypes, Cells
<1>5. /\ cell \in 1..(Len(dst) + 1) /\ unit \in 0..Group /\ bits \subseteq 1..Group
      /\ ring \in [Place -> Byte \cup {NoByte}] /\ w \in Place /\ out \in Seq(Byte \cup {NoByte})
  <2>1. CASE Unread
    <3>1. ring \in [Place -> Byte \cup {NoByte}] /\ w = At(0)
      BY <2>1, FirstRing
    <3>2. w \in Place
      BY <3>1, AtPlace
    <3>3. 1 \in 1..(Len(dst) + 1)
      <4>1. Len(dst) \in Nat
        BY <1>4
      <4> QED
        BY <4>1
    <3>4. out \in Seq(Byte \cup {NoByte})
      BY <2>1 DEF Unread
    <3> QED
      BY <1>2, <2>1, <3>1, <3>2, <3>3, <3>4 DEF Unread
  <2>2. CASE Received
    <3>1. /\ cell \in 1..(Len(dst) + 1) /\ ring \in [Place -> Byte \cup {NoByte}] /\ w = At(Len(out))
          /\ out \in Seq(Byte)
      BY <2>2 DEF Received
    <3>2. PICK h : h \in [1..(Len(dst) + 1) -> Reading] /\ h[cell] = [unit |-> unit, bits |-> bits, offset |-> Len(out)]
      BY <2>2 DEF Received, Stream
    <3>3. [unit |-> unit, bits |-> bits, offset |-> Len(out)] \in Reading
      BY <3>1, <3>2
    <3>4. unit \in 0..Group /\ bits \subseteq 1..Group
      BY <3>3 DEF Reading
    <3>5. w \in Place
      <4>1. Len(out) \in Int
        BY <3>1
      <4> QED
        BY <3>1, <4>1, AtPlace
    <3>6. out \in Seq(Byte \cup {NoByte})
      BY <3>1
    <3> QED
      BY <3>1, <3>4, <3>5, <3>6
  <2> QED
    BY <1>1, <2>1, <2>2 DEF IInv, EncoderTypes
<1> QED
  BY <1>1, <1>3, <1>4, <1>5 DEF TypeOK, EncoderTypes

\* The output is a beginning of the input, and ends where the stream does.
LEMMA IInvLossless == IInv => Lossless
<1> SUFFICES ASSUME IInv PROVE Lossless
  OBVIOUS
<1>1. EncoderTypes
  BY DEF IInv
<1>2. input \in Seq(Byte) /\ Len(input) \in Nat
  <2>1. input \in Seq(Byte)
    BY <1>1 DEF EncoderTypes
  <2> QED
    BY <2>1
<1>3. CASE Unread /\ pc # "decompressed"
  <2>1. out = <<>> /\ Len(<<>>) = 0
    BY <1>3 DEF Unread
  <2>2. SubSeq(<<>>, 1, 0) = <<>> /\ SubSeq(input, 1, 0) = <<>> /\ 0 <= Len(input)
    BY <1>2
  <2> QED
    BY <1>3, <2>1, <2>2 DEF Lossless, IsPrefix
<1>4. CASE Received
  <2>1. /\ out \in Seq(Byte) /\ Len(out) <= Len(input) /\ (\A i \in 1..Len(out) : out[i] = input[i])
        /\ cell \in 1..(Len(dst) + 1) /\ (pc = "decompressed" => cell = Len(dst) + 1)
    BY <1>4 DEF Received
  <2>2. PICK a, d, n : a = out /\ d = input /\ n = Len(out) /\ a \in Seq(Byte) /\ Len(a) = n /\ n \in Nat
    <3>1. Len(out) \in Nat
      BY <2>1
    <3> QED
      BY <2>1, <3>1
  <2>3. d \in Seq(Byte) /\ n <= Len(d) /\ Len(d) \in Nat /\ \A i \in 1..n : a[i] = d[i]
    BY <1>2, <2>1, <2>2
  <2>4. SubSeq(a, 1, n) = SubSeq(d, 1, n)
    <3>1. SubSeq(a, 1, n) \in Seq(Byte) /\ SubSeq(d, 1, n) \in Seq(Byte)
          /\ Len(SubSeq(a, 1, n)) = n /\ Len(SubSeq(d, 1, n)) = n
      BY <2>2, <2>3
    <3>2. \A i \in 1..n : SubSeq(a, 1, n)[i] = a[i] /\ SubSeq(d, 1, n)[i] = d[i]
      BY <2>2, <2>3
    <3> QED
      BY <2>3, <3>1, <3>2
  <2>5. IsPrefix(out, input)
    BY <2>1, <2>2, <2>4 DEF IsPrefix
  <2>6. ASSUME pc = "decompressed" PROVE out = input
    <3>1. PICK h : h[Len(dst) + 1].offset = Len(input) /\ h[cell] = [unit |-> unit, bits |-> bits, offset |-> Len(out)]
      BY <1>4 DEF Received
    <3>2. h[cell].offset = Len(out)
      BY <3>1
    <3>3. n = Len(d)
      BY <2>1, <2>2, <2>6, <3>1, <3>2
    <3>4. a = d
      <4>1. a \in Seq(Byte) /\ d \in Seq(Byte) /\ Len(a) = n /\ Len(d) = n /\ \A i \in 1..n : a[i] = d[i]
        BY <2>2, <2>3, <3>3
      <4> HIDE DEF IInv
      <4>2. DOMAIN a = 1..n /\ DOMAIN d = 1..n /\ a = [i \in DOMAIN a |-> a[i]] /\ d = [i \in DOMAIN d |-> d[i]]
        BY <4>1
      <4> QED
        BY <4>1, <4>2
    <3> QED
      BY <2>2, <3>4
  <2> QED
    BY <2>5, <2>6 DEF Lossless
<1> QED
  BY <1>1, <1>3, <1>4 DEF IInv, EncoderTypes

\* Each unit is at most two bytes long and takes one byte of input, or two and takes two.
LEMMA IInvFitsBuffer == IInv => FitsBuffer
<1> SUFFICES ASSUME IInv PROVE FitsBuffer
  OBVIOUS
<1>1. EncoderTypes
  BY DEF IInv
<1>2. /\ input \in Seq(Byte) /\ code \in Seq(Literal \cup Pair) /\ Len(code) < Group
      /\ src \in 0..Len(input) /\ len \in 0..F /\ advance \in 0..F /\ dst \in Seq(Cells)
  BY <1>1 DEF EncoderTypes
<1>3. Len(input) \in Nat /\ Len(code) \in Nat /\ Group \in Nat /\ F \in Nat
  BY <1>2, LzssAssumption, Places
<1>4. code \in Seq(Cells)
  <2>1. \A c \in Literal \cup Pair : c \in Cells
    BY DEF Cells
  <2> HIDE DEF Cells
  <2> QED
    BY <1>2, <2>1
<1>5. PICK x, y : x = Bytes(code) /\ y = Bytes(dst) /\ x \in Nat /\ y \in Nat /\ x <= 2 * Len(code)
  <2>1. /\ Cardinality(Pairs(code)) \in Nat /\ Cardinality(Pairs(code)) <= Len(code)
        /\ Bytes(code) = Len(code) + Cardinality(Pairs(code)) /\ Bytes(code) \in Nat /\ Bytes(dst) \in Nat
    BY <1>2, <1>4, PairsFinite
  <2> QED
    BY <1>3, <2>1
<1>6. 1 + x <= 2 * Group + 1
  BY <1>2, <1>3, <1>5
<1>7. y <= 2 * Len(input)
  <2>1. CASE dst = <<>>
    <3>1. {i \in DOMAIN <<>> : "position" \in DOMAIN <<>>[i]} = {} /\ Len(<<>>) = 0
      OBVIOUS
    <3>2. Bytes(<<>>) = 0
      BY <3>1, FS_EmptySet DEF Bytes
    <3> QED
      BY <1>3, <1>5, <2>1, <3>2
  <2>2. CASE pc \in {"send", "advance"}
    <3>1. PICK base \in Nat : Sent(base)
      BY <2>2 DEF IInv
    <3>2. y <= 2 * base /\ x <= (Pos + advance) - base /\ len <= src /\ advance <= len
      BY <1>5, <2>2, <3>1 DEF Sent, Look, IInv
    <3> QED
      BY <1>2, <1>3, <1>5, <3>2 DEF Pos
  <2>3. CASE Received
    BY <1>5, <2>3 DEF Received
  <2> QED
    BY <1>1, <2>1, <2>2, <2>3 DEF IInv, EncoderTypes
<1> QED
  BY <1>5, <1>6, <1>7 DEF FitsBuffer

-----------------------------------------------------------------------------
(* What the order implies for the trees of the program. *)

\* Below collects what is below a place, however deep.
LEMMA BelowIs ==
    ASSUME NEW x, Sound(tree, x), NEW L, NEW D, Nested(Reg(tree), tree.left, tree.right, tree.up, L, D),
           NEW p \in Reg(tree) \cup {Nil}
    PROVE  Below(p) = Sub(D, p)
<1>1. PICK R, l, m, u, f : R = Reg(tree) /\ l = tree.left /\ m = tree.right /\ u = tree.up /\ Ranked(R, u, f)
  BY DEF Sound
<1>2. Forest(R, l, m, u) /\ R \in SUBSET Place /\ Nil \notin R /\ R \cap Roots = {}
  BY <1>1, TreeFields, Places DEF Sound
<1>3. /\ D \in [R -> SUBSET R]
      /\ \A y \in R : D[y] = {y} \cup Sub(D, l[y]) \cup Sub(D, m[y])
      /\ \A y \in R : \A z \in D[y] : D[z] \subseteq D[y] /\ (z = y \/ u[z] \in D[y])
  BY <1>1 DEF Nested
<1> DEFINE first == {p} \ {Nil}
           On(found) == found \cup ((UNION {{l[q], m[q]} : q \in found}) \ {Nil})
           step == [k \in 1..N |-> [found \in SUBSET R |-> On(found)]]
           grow == CHOOSE g : g = [k \in 0..N |-> IF k = 0 THEN first ELSE On(g[k - 1])]
<1>4. N \in Nat
  BY Places
<1>5. first \in SUBSET R
  BY <1>1
<1>6. ASSUME NEW S \in SUBSET R
      PROVE  On(S) \in SUBSET R /\ S \subseteq On(S) /\ \A y \in S : \A z \in {l[y], m[y]} : z # Nil => z \in On(S)
  <2>1. \A y \in S : \A z \in {l[y], m[y]} : z # Nil => z \in R
    BY <1>2 DEF Forest
  <2> QED
    BY <2>1
<1>7. \A S : \A z \in On(S) : z \in S \/ (z # Nil /\ \E y \in S : z \in {l[y], m[y]})
  OBVIOUS
<1>8. step \in [1..N -> [SUBSET R -> SUBSET R]]
  BY <1>6
<1>9. \A S \in SUBSET R, k \in 1..N : step[k][S] = On(S)
  OBVIOUS
<1>10. Below(p) = grow[N]
  BY <1>1 DEF Below
<1>11. first = IF p = Nil THEN {} ELSE {p}
  OBVIOUS
<1> HIDE DEF first, On, step
<1>12. PICK g : Iterates(g, N, SUBSET R, first, step)
  BY <1>4, <1>5, <1>8, Recursion
<1>13. g = [k \in 0..N |-> IF k = 0 THEN first ELSE On(g[k - 1])]
  <2>1. ASSUME NEW k \in 0..N PROVE g[k] = IF k = 0 THEN first ELSE On(g[k - 1])
    <3>1. k = 0 \/ (k \in 1..N /\ k - 1 \in 0..N)
      BY <1>4
    <3>2. ASSUME k \in 1..N PROVE g[k] = On(g[k - 1])
      <4>1. g[k - 1] \in SUBSET R
        BY <1>4, <1>12, <3>2 DEF Iterates
      <4> QED
        BY <1>9, <1>12, <3>2, <4>1 DEF Iterates
    <3> QED
      BY <1>4, <1>12, <3>1, <3>2 DEF Iterates
  <2> QED
    BY <1>12, <2>1 DEF Iterates
<1>14. grow = [k \in 0..N |-> IF k = 0 THEN first ELSE On(grow[k - 1])]
  BY <1>13
<1> HIDE DEF grow
<1>15. grow[0] = first /\ \A k \in 0..(N - 1) : grow[k + 1] = On(grow[k])
  <2>1. \A k \in 0..(N - 1) : k + 1 \in 0..N /\ k + 1 # 0 /\ (k + 1) - 1 = k
    BY <1>4
  <2> QED
    BY <1>4, <1>14, <2>1
<1>16. \A y \in R : y # Nil /\ Sub(D, y) = D[y] /\ y \in D[y]
  BY <1>2, <1>3 DEF Sub
<1>17. Sub(D, p) \in SUBSET R /\ first \subseteq Sub(D, p)
  BY <1>1, <1>3, <1>11, <1>16 DEF Sub
<1>18. ASSUME NEW y \in Sub(D, p) PROVE y \in R /\ l[y] \in Sub(D, p) \cup {Nil} /\ m[y] \in Sub(D, p) \cup {Nil}
  <2>1. y \in R /\ p \in R /\ Sub(D, p) = D[p] /\ D[y] \subseteq D[p]
    BY <1>1, <1>3, <1>17, <1>18 DEF Sub
  <2>2. l[y] \in R \cup {Nil} /\ m[y] \in R \cup {Nil}
    BY <1>2, <2>1 DEF Forest
  <2>3. l[y] \in D[y] \cup {Nil} /\ m[y] \in D[y] \cup {Nil}
    BY <1>3, <1>16, <2>1, <2>2
  <2> QED
    BY <2>1, <2>3
<1>19. \A k \in 0..N : grow[k] \in SUBSET Sub(D, p)
  <2> DEFINE P == {k \in 0..N : grow[k] \in SUBSET Sub(D, p)}
  <2>1. 0 \in P
    BY <1>4, <1>15, <1>17
  <2>2. ASSUME NEW k \in 0..(N - 1), k \in P PROVE k + 1 \in P
    <3>1. k + 1 \in 0..N /\ grow[k + 1] = On(grow[k]) /\ grow[k] \in SUBSET Sub(D, p)
      BY <1>4, <1>15, <2>2
    <3>2. ASSUME NEW z \in On(grow[k]) PROVE z \in Sub(D, p)
      BY <1>7, <1>18, <3>1
    <3> QED
      BY <3>1, <3>2
  <2> HIDE DEF P
  <2>3. 0..N \subseteq P
    BY <1>4, <2>1, <2>2, Upward
  <2> QED
    BY <2>3 DEF P
<1>20. PICK h : h = [y \in R |-> (N - 1) - Under(R, f, y)]
  OBVIOUS
<1>21. (\A y \in R : h[y] \in 0..(N - 1)) /\ \A y \in R : u[y] \in R => h[u[y]] < h[y]
  <2>1. /\ \A y \in R : Under(R, f, y) \in 0..(N - 1)
        /\ \A y \in R, z \in R : f[y] < f[z] => Under(R, f, z) < Under(R, f, y)
    BY <1>1, <1>2, Deeper DEF Ranked
  <2>2. \A y \in R : u[y] \in R => f[u[y]] < f[y]
    BY <1>1 DEF Ranked
  <2>3. \A y \in R : h[y] = (N - 1) - Under(R, f, y)
    BY <1>20
  <2>4. ASSUME NEW y \in R PROVE h[y] \in 0..(N - 1)
    <3>1. PICK i : i = Under(R, f, y) /\ i \in 0..(N - 1) /\ h[y] = (N - 1) - i
      BY <2>1, <2>3
    <3> QED
      BY <1>4, <3>1
  <2>5. ASSUME NEW y \in R, u[y] \in R PROVE h[u[y]] < h[y]
    <3>1. PICK i, j : /\ i = Under(R, f, y) /\ i \in 0..(N - 1) /\ h[y] = (N - 1) - i
                      /\ j = Under(R, f, u[y]) /\ j \in 0..(N - 1) /\ h[u[y]] = (N - 1) - j
      BY <2>1, <2>3, <2>5
    <3>2. i < j
      BY <2>1, <2>2, <2>5, <3>1
    <3> QED
      BY <1>4, <3>1, <3>2
  <2> QED
    BY <2>4, <2>5
<1>22. ASSUME NEW y \in Sub(D, p), y # p
       PROVE  u[y] \in Sub(D, p) /\ u[y] \in R /\ y \in {l[u[y]], m[u[y]]} /\ y \in R /\ y # Nil
  <2>1. y \in R /\ p \in R /\ Sub(D, p) = D[p]
    BY <1>1, <1>17, <1>22 DEF Sub
  <2>2. u[y] \in D[p] /\ u[y] \in R
    BY <1>3, <1>22, <2>1
  <2>3. y \in {l[u[y]], m[u[y]]}
    BY <1>2, <2>1, <2>2 DEF Forest
  <2> QED
    BY <1>2, <2>1, <2>2, <2>3
<1>23. \A k \in 0..N : \A y \in Sub(D, p) : y = p \/ h[y] <= k => y \in grow[k]
  <2> DEFINE P == {k \in 0..N : \A y \in Sub(D, p) : y = p \/ h[y] <= k => y \in grow[k]}
  <2>1. 0 \in P
    <3>1. ASSUME NEW y \in Sub(D, p), y = p \/ h[y] <= 0 PROVE y \in grow[0]
      <4>1. CASE y = p
        BY <1>11, <1>15, <1>17, <3>1, <4>1 DEF Sub
      <4>2. CASE y # p
        <5>1. u[y] \in R /\ y \in R
          BY <1>22, <3>1, <4>2
        <5>2. h[u[y]] \in 0..(N - 1) /\ h[y] \in 0..(N - 1) /\ h[u[y]] < h[y]
          BY <1>21, <5>1
        <5> QED
          BY <1>4, <3>1, <4>2, <5>2
      <4> QED
        BY <4>1, <4>2
    <3> QED
      BY <1>4, <3>1
  <2>2. ASSUME NEW k \in 0..(N - 1), k \in P PROVE k + 1 \in P
    <3>1. /\ k + 1 \in 0..N /\ k \in 0..N /\ grow[k + 1] = On(grow[k])
          /\ \A y \in Sub(D, p) : y = p \/ h[y] <= k => y \in grow[k]
          /\ grow[k] \in SUBSET R
      BY <1>4, <1>15, <1>17, <1>19, <2>2
    <3>2. ASSUME NEW y \in Sub(D, p), y = p \/ h[y] <= k + 1 PROVE y \in grow[k + 1]
      <4>1. CASE y = p
        BY <1>6, <3>1, <4>1
      <4>2. CASE y # p
        <5>1. u[y] \in Sub(D, p) /\ u[y] \in R /\ y \in {l[u[y]], m[u[y]]} /\ y \in R /\ y # Nil
          BY <1>22, <4>2
        <5>2. h[u[y]] \in 0..(N - 1) /\ h[y] \in 0..(N - 1) /\ h[u[y]] < h[y]
          BY <1>21, <5>1
        <5>3. h[u[y]] <= k
          BY <1>4, <3>2, <4>2, <5>2
        <5>4. u[y] \in grow[k]
          BY <3>1, <5>1, <5>3
        <5> QED
          BY <1>6, <3>1, <5>1, <5>4
      <4> QED
        BY <4>1, <4>2
    <3> QED
      BY <3>1, <3>2
  <2> HIDE DEF P
  <2>3. 0..N \subseteq P
    BY <1>4, <2>1, <2>2, Upward
  <2> QED
    BY <2>3 DEF P
<1>24. \A y \in Sub(D, p) : y \in grow[N]
  <2>1. N \in 0..N /\ \A y \in R : h[y] <= N
    BY <1>4, <1>21
  <2> QED
    BY <1>17, <1>23, <2>1
<1> QED
  BY <1>4, <1>10, <1>19, <1>24

\* The trees of the program are as TreesOrdered says.
LEMMA TreesAre ==
    ASSUME Sound(tree, text), Ordered(tree, text), text \in Text
    PROVE  TreesOrdered
<1>1. PICK R, l, m, u, L : R = Reg(tree) /\ l = tree.left /\ m = tree.right /\ u = tree.up /\ L = Order(text)
  OBVIOUS
<1>2. PICK D : Nested(R, l, m, u, L, D) /\ Covers(R, m, text, D)
  BY <1>1 DEF Ordered, InOrder
<1>3. Forest(R, l, m, u) /\ R \in SUBSET Place /\ R \cap Roots = {} /\ Nil \notin R
  BY <1>1, TreeFields, Places DEF Sound
<1>4. \A p \in R \cup {Nil} : Below(p) = Sub(D, p)
  BY <1>1, <1>2, BelowIs
<1>5. \A c \in Byte : m[Root(c)] \in R \cup {Nil} /\ Sub(D, m[Root(c)]) = {p \in R : text[p] = c}
  <2>1. \A c \in Byte : Root(c) \in Roots
    BY Places
  <2> QED
    BY <1>2, <1>3, <2>1 DEF Forest, Covers
<1>6. \A c \in Byte : Below(m[Root(c)]) = {p \in R : text[p] = c}
  BY <1>4, <1>5
<1>7. \A p \in R : p \in Place /\ text[p] \in Byte
  BY <1>3, Places DEF Text, Place
<1>8. UNION {Below(m[Root(c)]) : c \in Byte} = R
  BY <1>6, <1>7
<1>9. Registered = R
  BY <1>1 DEF Registered, Reg
<1>10. ASSUME NEW p \in R, NEW q \in R, q \in Sub(D, l[p]) \/ q \in Sub(D, m[p])
       PROVE  text[q] = text[p]
  <2>1. PICK c : c = m[Root(text[p])] /\ c \in R \cup {Nil} /\ Sub(D, c) = {y \in R : text[y] = text[p]}
    BY <1>5, <1>7
  <2>2. p \in Sub(D, c) /\ c \in R /\ p \in D[c]
    BY <2>1 DEF Sub
  <2>3. D[p] \subseteq D[c] /\ q \in D[p]
    BY <1>2, <1>10, <2>2 DEF Nested
  <2> QED
    BY <1>3, <2>1, <2>2, <2>3 DEF Sub
<1>11. ASSUME NEW p \in R
       PROVE  /\ l[p] # Nil => \A q \in Below(l[p]) : Compare(text, q, p) < 0
              /\ m[p] # Nil => \A q \in Below(m[p]) : Compare(text, q, p) > 0
  <2>1. l[p] \in R \cup {Nil} /\ m[p] \in R \cup {Nil}
    BY <1>3 DEF Forest
  <2>2. Below(l[p]) = Sub(D, l[p]) /\ Below(m[p]) = Sub(D, m[p])
    BY <1>4, <2>1
  <2>3. /\ \A q \in Sub(D, l[p]) : q \in R /\ Less(text, q, p)
        /\ \A q \in Sub(D, m[p]) : q \in R /\ Less(text, p, q)
    BY <1>1, <1>2, Sorted
  <2>4. \A q \in Sub(D, l[p]) : Compare(text, q, p) < 0
    BY <1>7, <1>10, <2>3, CompareLess
  <2>5. \A q \in Sub(D, m[p]) : Compare(text, q, p) > 0
    BY <1>7, <1>10, <2>3, CompareLess
  <2> QED
    BY <2>2, <2>4, <2>5
<1>12. \A p \in R : \/ u[p] \in Roots /\ m[u[p]] = p
                    \/ u[p] \in R /\ p \in {l[u[p]], m[u[p]]}
  BY <1>3 DEF Forest
<1> QED
  BY <1>1, <1>6, <1>8, <1>9, <1>11, <1>12 DEF TreesOrdered

\* The match of the program is as LongestMatch says.
LEMMA MatchIs ==
    ASSUME IInv, pc = "send", Longest(text, Pos, match)
    PROVE  LongestMatch
<1>1. Look /\ EncoderTypes /\ len > 0
  BY DEF IInv, Look
<1>2. PICK o : o = Pos /\ o = src - len
  BY DEF Pos
<1>3. N \in Nat /\ F \in Nat /\ N >= 2 * F /\ Threshold >= 1 /\ Threshold \in Int
  BY Places, LzssAssumption
<1>4. o \in Nat /\ r = At(o) /\ match.length \in Int
  <2>1. /\ input \in Seq(Byte) /\ src \in 0..Len(input) /\ len \in 0..F /\ len <= src
        /\ match \in [position: Place, length: 0..F]
    BY <1>1 DEF EncoderTypes, Look
  <2>2. Len(input) \in Nat
    BY <2>1
  <2> QED
    BY <1>1, <1>2, <1>3, <2>1, <2>2 DEF Look
<1>5. \A k \in Int : (r - k) % N = At(o - k)
  <2>1. SUFFICES ASSUME NEW k \in Int PROVE (r - k) % N = At(o - k)
    OBVIOUS
  <2>2. PICK q, i : q = At(o) /\ q \in Int /\ i = 0 - k /\ i \in Int
    BY <1>4, AtPlace
  <2>3. (q + i) % N = At(o + i)
    BY <1>4, <2>2, AtSum
  <2>4. q - k = q + i /\ o - k = o + i
    BY <1>4, <2>2
  <2> QED
    BY <1>4, <2>2, <2>3, <2>4
<1>6. ASSUME NEW p \in Before(Min({N - F, src - len})), text[p] = text[r]
      PROVE  Common(text, r, p) <= match.length
  <2>1. PICK d : d = Min({N - F, o}) /\ d \in Int /\ d <= N - F /\ d <= o
    <3>1. PICK e : e = N - F /\ e \in Int /\ o \in Int
      BY <1>3, <1>4
    <3>2. Min({e, o}) \in {e, o} /\ Min({e, o}) <= e /\ Min({e, o}) <= o
      BY <3>1, MinTwo
    <3> QED
      BY <3>1, <3>2
  <2>2. PICK k \in 1..d : p = (r - k) % N
    BY <1>2, <1>6, <2>1 DEF Before
  <2>3. PICK j : j = o - k /\ j \in 0..(o - 1) /\ o - (N - F) <= j
    BY <1>3, <1>4, <2>1, <2>2
  <2>4. p = At(j)
    BY <1>5, <2>1, <2>2, <2>3
  <2> QED
    BY <1>2, <1>4, <1>6, <2>3, <2>4 DEF Longest
<1>7. ASSUME match.length > Threshold
      PROVE  /\ match.position \in Before(N - F)
             /\ text[match.position] = text[r]
             /\ Common(text, r, match.position) = match.length
  <2>1. match.length > 0
    BY <1>3, <1>4, <1>7
  <2>2. PICK j \in (o - (N - F))..(o - 1) :
           match.position = At(j) /\ text[At(j)] = text[At(o)] /\ Common(text, At(o), At(j)) = match.length
    BY <1>2, <2>1 DEF Longest
  <2>3. PICK k : k = o - j /\ k \in 1..(N - F) /\ j = o - k /\ k \in Int
    BY <1>3, <1>4, <2>2
  <2>4. match.position = (r - k) % N
    BY <1>5, <2>2, <2>3
  <2> QED
    BY <1>4, <2>2, <2>3, <2>4 DEF Before
<1> QED
  BY <1>6, <1>7 DEF LongestMatch

\* The invariant of the search implies its properties.
LEMMA SInvSearch == IInv /\ SInv => TreesOrdered /\ LongestMatch
<1> SUFFICES ASSUME IInv, SInv PROVE TreesOrdered /\ LongestMatch
  OBVIOUS
<1>1. TreesOrdered
  <2>1. CASE pc = "start"
    BY <2>1 DEF TreesOrdered
  <2>2. CASE pc # "start"
    BY <2>2, TreesAre DEF SInv, IInv, EncoderTypes
  <2> QED
    BY <2>1, <2>2
<1>2. LongestMatch
  <2>1. CASE pc # "send"
    BY <2>1 DEF LongestMatch
  <2>2. CASE pc = "send"
    <3>1. len > 0
      BY <2>2 DEF IInv, Look
    <3> QED
      BY <2>2, <3>1, MatchIs DEF SInv
  <2> QED
    BY <2>1, <2>2
<1> QED
  BY <1>1, <1>2

-----------------------------------------------------------------------------
(* The theorems. *)

\* Every variable of compression and decompression keeps its type: no place outside
\* the ring, no match longer than the look-ahead, no more than Group units collected,
\* and links only to places, roots and Nil.
THEOREM TypeCorrect == Spec => []TypeOK
BY Always, IInvTypeOK, PTL

\* Whatever the window, the threshold and the size of a group, and for every input,
\* Decompress writes back a beginning of what Compress read, and in the end all of it.
THEOREM LosslessAlways == Spec => []Lossless
BY Always, IInvLossless, PTL

\* The stream never outgrows the buffer of twice the input, nor a group code_buf.
THEOREM FitsBufferAlways == Spec => []FitsBuffer
BY Always, IInvFitsBuffer, PTL

\* Whatever is registered and dropped while the ring is overwritten, the trees stay
\* linked, hold the strings of their first byte, and are in the order of the strings.
THEOREM TreesOrderedAlways == Spec => []TreesOrdered
BY Always, SearchAlways, SInvSearch, PTL

\* The match that Compress uses is in the window, is as long as it says, and no string
\* of the input that begins in the window would have given a longer one.
THEOREM LongestMatchAlways == Spec => []LongestMatch
BY Always, SearchAlways, SInvSearch, PTL
=============================================================================
