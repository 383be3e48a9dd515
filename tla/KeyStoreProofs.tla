--------------------------- MODULE KeyStoreProofs ---------------------------
(***************************************************************************)
(* Theorems about the key database, for any number of processes, devices,  *)
(* versions, sections, updates, failures and crashes.                      *)
(***************************************************************************)
EXTENDS KeyStore, TLAPS, SequenceTheorems, WellFoundedInduction

Fates == {"running", "ok", "failed", "killed"}

(* Where a process is in its command: an updater has an entry of its own   *)
(* page before it, a reader knows what it wants and, between its two       *)
(* SELECTs, holds an IV.                                                   *)
Running ==
    /\ \A p \in Process :
          /\ pc[p] \in UpdaterStep =>
                /\ p \in Updater
                /\ upd[p] \in 1..Len(published)
                /\ item[p] \in 1..Len(Job(p).listing)
          /\ pc[p] \in ReaderStep =>
                /\ p \in Reader
                /\ want[p] \in Slot
          /\ pc[p] = "selectKey" => ivRead[p] \in Value

Inv == TypeOK /\ Running /\ TableBeforeWrite

-----------------------------------------------------------------------------
(* Facts about the statements. *)

\* Appending or replacing an element keeps a sequence of its type.
LEMMA ReplaceInSeq ==
    ASSUME NEW S, NEW s \in Seq(S), NEW n, NEW e \in S
    PROVE  /\ [s EXCEPT ![n] = e] \in Seq(S)
           /\ Len([s EXCEPT ![n] = e]) = Len(s)
<1>1. CASE n \in 1..Len(s)
  BY <1>1, ExceptSeq
<1>2. CASE n \notin 1..Len(s)
  <2>1. DOMAIN s = 1..Len(s)
    BY LenProperties
  <2>2. s \in [1..Len(s) -> S]
    BY LenProperties
  <2>3. [s EXCEPT ![n] = e] = s
    BY <1>2, <2>1, <2>2
  <2> QED
    BY <2>3
<1> QED
  BY <1>1, <1>2

\* What an UPDATE of one column does to the rows of every device.
ColumnSet(d, v, s, column, x) ==
    \A e \in Device :
        /\ Len(rows'[e]) = Len(rows[e])
        /\ DOMAIN rows'[e] = DOMAIN rows[e]
        /\ \A i \in DOMAIN rows[e] :
              LET hit == e = d /\ i \in Matching(d, v, s) IN
              /\ rows'[e][i].version = rows[e][i].version
              /\ rows'[e][i].section = rows[e][i].section
              /\ rows'[e][i].key = IF hit /\ column = "key" THEN x ELSE rows[e][i].key
              /\ rows'[e][i].iv = IF hit /\ column = "iv" THEN x ELSE rows[e][i].iv

LEMMA SetColumnEffect ==
    ASSUME TypeOK, NEW d \in Device, NEW v, NEW s, NEW column \in {"key", "iv"},
           NEW x \in Value, SetColumn(d, v, s, column, x)
    PROVE  /\ rows' \in [Device -> Seq(Row)]
           /\ ColumnSet(d, v, s, column, x)
<1> DEFINE new == [i \in 1..Len(rows[d]) |->
                      IF i \in Matching(d, v, s)
                      THEN [rows[d][i] EXCEPT ![column] = x]
                      ELSE rows[d][i]]
<1>1. /\ rows \in [Device -> Seq(Row)]
      /\ rows' = [rows EXCEPT ![d] = new]
  BY DEF TypeOK, SetColumn
<1>2. /\ rows[d] \in Seq(Row)
      /\ Len(rows[d]) \in Nat
      /\ DOMAIN rows[d] = 1..Len(rows[d])
  BY <1>1, LenProperties
<1>3. ASSUME NEW i \in 1..Len(rows[d])
      PROVE  new[i] \in Row
  <2>1. rows[d][i] \in Row
    BY <1>2, ElementOfSeq
  <2>2. [rows[d][i] EXCEPT !["key"] = x] \in Row /\ [rows[d][i] EXCEPT !["iv"] = x] \in Row
    BY <2>1 DEF Row
  <2> QED
    BY <2>1, <2>2
<1>4. new \in [1..Len(rows[d]) -> Row]
  BY <1>3
<1>5. /\ new \in Seq(Row)
      /\ DOMAIN new = 1..Len(rows[d])
      /\ Len(new) = Len(rows[d])
  <2>1. new \in Seq(Row)
    BY <1>2, <1>4, SeqDef
  <2>2. DOMAIN new = 1..Len(rows[d])
    OBVIOUS
  <2>3. Len(new) \in Nat /\ DOMAIN new = 1..Len(new)
    BY <2>1, LenProperties
  <2> HIDE DEF new
  <2> QED
    BY <2>1, <2>2, <2>3, <1>2
<1>6. ASSUME NEW i \in DOMAIN rows[d]
      PROVE  LET hit == i \in Matching(d, v, s) IN
             /\ new[i].version = rows[d][i].version
             /\ new[i].section = rows[d][i].section
             /\ new[i].key = IF hit /\ column = "key" THEN x ELSE rows[d][i].key
             /\ new[i].iv = IF hit /\ column = "iv" THEN x ELSE rows[d][i].iv
  <2> DEFINE r == rows[d][i]
  <2>1. r \in Row /\ i \in 1..Len(rows[d])
    BY <1>2, ElementOfSeq
  <2>2. new[i] = IF i \in Matching(d, v, s) THEN [r EXCEPT ![column] = x] ELSE r
    BY <2>1
  <2> HIDE DEF new
  <2>3. CASE column = "key"
    <3>1. new[i] = IF i \in Matching(d, v, s) THEN [r EXCEPT !.key = x] ELSE r
      BY <2>2, <2>3
    <3> QED
      BY <2>1, <2>3, <3>1 DEF Row
  <2>4. CASE column = "iv"
    <3>1. new[i] = IF i \in Matching(d, v, s) THEN [r EXCEPT !.iv = x] ELSE r
      BY <2>2, <2>4
    <3> QED
      BY <2>1, <2>4, <3>1 DEF Row
  <2> QED
    BY <2>3, <2>4
<1> HIDE DEF new
<1>7. \A e \in Device : rows'[e] = IF e = d THEN new ELSE rows[e]
  BY <1>1
<1>8. rows' \in [Device -> Seq(Row)]
  BY <1>1, <1>5
<1> QED
  BY <1>2, <1>5, <1>6, <1>7, <1>8 DEF ColumnSet

\* What an INSERT does to the rows of every device.
LEMMA InsertEffect ==
    ASSUME TypeOK, NEW d \in Device, NEW r \in Row,
           rows' = [rows EXCEPT ![d] = Append(@, r)]
    PROVE  /\ rows' \in [Device -> Seq(Row)]
           /\ \A e \in Device \ {d} : rows'[e] = rows[e]
           /\ Len(rows'[d]) = Len(rows[d]) + 1
           /\ DOMAIN rows'[d] = DOMAIN rows[d] \cup {Len(rows[d]) + 1}
           /\ \A i \in DOMAIN rows[d] : rows'[d][i] = rows[d][i]
           /\ rows'[d][Len(rows[d]) + 1] = r
<1>1. rows \in [Device -> Seq(Row)] /\ rows[d] \in Seq(Row)
  BY DEF TypeOK
<1>2. rows'[d] = Append(rows[d], r)
  BY <1>1
<1>3. /\ Append(rows[d], r) \in Seq(Row)
      /\ Len(Append(rows[d], r)) = Len(rows[d]) + 1
      /\ \A i \in 1..Len(rows[d]) : Append(rows[d], r)[i] = rows[d][i]
      /\ Append(rows[d], r)[Len(rows[d]) + 1] = r
  BY <1>1, AppendProperties
<1>4. /\ Len(rows[d]) \in Nat
      /\ DOMAIN rows[d] = 1..Len(rows[d])
      /\ DOMAIN rows'[d] = 1..(Len(rows[d]) + 1)
  BY <1>1, <1>2, <1>3, LenProperties
<1> QED
  BY <1>1, <1>2, <1>3, <1>4

\* A SELECT that finds a row returns the matching row of least rowid.
LEMMA FirstMatchIsFirst ==
    ASSUME TypeOK, NEW d \in Device, NEW v, NEW s, Matching(d, v, s) # {}
    PROVE  \E i \in Matching(d, v, s) :
              /\ FirstMatch(d, v, s) = rows[d][i]
              /\ \A j \in Matching(d, v, s) : i <= j
<1> DEFINE M == Matching(d, v, s)
           Below == OpToRel(<, Nat)
<1>1. M \subseteq Nat
  <2>1. rows[d] \in Seq(Row)
    BY DEF TypeOK
  <2> QED
    BY <2>1, LenProperties DEF Matching
<1>2. \E i \in M : \A j \in M : i <= j
  <2>1. \E i \in M : \A j \in M : ~(<<j, i>> \in Below)
    <3>1. IsWellFoundedOn(Below, Nat)
      BY NatLessThanWellFounded
    <3> HIDE DEF Below
    <3> QED
      BY <1>1, <3>1, WFMin
  <2>2. \A i, j \in Nat : ~(<<j, i>> \in Below) => i <= j
    BY DEF OpToRel
  <2> QED
    BY <1>1, <2>1, <2>2
<1> QED
  BY <1>2 DEF FirstMatch

-----------------------------------------------------------------------------
(* The inductive invariant. *)

LEMMA InitInv == Init => Inv
<1> SUFFICES ASSUME Init PROVE Inv
  OBVIOUS
<1>1. TypeOK
  <2>1. <<>> \in Seq(Row) /\ <<>> \in Seq(Update) /\ <<>> \in Seq(Fates) /\ Len(<<>>) = 0
    BY EmptySeq
  <2> QED
    BY <2>1, KeyStoreAssumption DEF Init, TypeOK, Fates
<1>2. Running /\ TableBeforeWrite
  BY DEF Init, Running, TableBeforeWrite, UpdaterStep, ReaderStep, Process
<1> QED
  BY <1>1, <1>2 DEF Inv

\* What the loop of UpdateDatabase does to its own variables.
LEMMA EndUpdateEffect ==
    ASSUME Inv, NEW p \in Updater, NEW result \in Fates, EndUpdate(p, result)
    PROVE  /\ fate' \in Seq(Fates)
           /\ Len(fate') = Len(fate)
           /\ item' = item
           /\ pc' = [pc EXCEPT ![p] = "idle"]
<1>1. fate \in Seq(Fates)
  BY DEF Inv, TypeOK, Fates
<1>2. fate' = [fate EXCEPT ![upd[p]] = result] /\ item' = item
      /\ pc' = [pc EXCEPT ![p] = "idle"]
  BY DEF EndUpdate, Goto
<1>3. \A n : /\ [fate EXCEPT ![n] = result] \in Seq(Fates)
             /\ Len([fate EXCEPT ![n] = result]) = Len(fate)
  <2> HIDE DEF Fates
  <2> QED
    BY <1>1, ReplaceInSeq
<1> QED
  BY <1>2, <1>3

LEMMA NextEntryEffect ==
    ASSUME Inv, NEW p \in Updater, pc[p] \in UpdaterStep, NextEntry(p)
    PROVE  /\ fate' \in Seq(Fates)
           /\ Len(fate') = Len(fate)
           /\ item' \in [Updater -> Nat]
           /\ \A q \in Updater \ {p} : item'[q] = item[q]
           /\ \/ /\ pc' = [pc EXCEPT ![p] = "device"]
                 /\ item'[p] \in 1..Len(Job(p).listing)
              \/ pc' = [pc EXCEPT ![p] = "idle"]
<1>1. /\ fate \in Seq(Fates)
      /\ item \in [Updater -> Nat]
  BY DEF Inv, TypeOK, Fates
<1>2. p \in Process /\ upd[p] \in 1..Len(published) /\ item[p] \in 1..Len(Job(p).listing)
  BY DEF Inv, Running, Process
<1>3. Len(Job(p).listing) \in Nat
  <2>1. Job(p) \in Update
    BY <1>2, ElementOfSeq DEF Inv, TypeOK, Job
  <2>2. Job(p).listing \in Seq(Section)
    BY <2>1, KeyStoreAssumption DEF Update
  <2> QED
    BY <2>2, LenProperties
<1>4. CASE item[p] < Len(Job(p).listing) /\ item' = [item EXCEPT ![p] = @ + 1]
           /\ Goto(p, "device") /\ UNCHANGED fate
  BY <1>1, <1>2, <1>3, <1>4 DEF Goto
<1>5. CASE EndUpdate(p, "ok")
  BY <1>1, <1>5, EndUpdateEffect DEF Fates
<1> QED
  BY <1>4, <1>5 DEF NextEntry

\* The entry an updater has reached, and what it is about to store.
LEMMA EntryType ==
    ASSUME Inv, NEW p \in Updater, pc[p] \in UpdaterStep
    PROVE  /\ Job(p) \in Update
           /\ Dev(p) \in Device
           /\ Ver(p) \in Version
           /\ Sec(p) \in Section
           /\ Fresh(p) \in Value
           /\ NewRow(p) \in Row
<1>1. upd[p] \in 1..Len(published) /\ item[p] \in 1..Len(Job(p).listing)
  BY DEF Inv, Running, Process
<1>2. Job(p) \in Update
  BY <1>1, ElementOfSeq DEF Inv, TypeOK, Job
<1>3. /\ Job(p).listing \in Seq(Section)
      /\ Job(p).device \in Device
      /\ Job(p).version \in Version
      /\ Job(p).build \in Build
  BY <1>2, KeyStoreAssumption DEF Update
<1>4. Sec(p) \in Section
  BY <1>1, <1>3, ElementOfSeq DEF Sec
<1>5. Fresh(p) \in Value
  <2>1. upd[p] \in 1..MaxJobs /\ item[p] \in Nat
    BY <1>1 DEF Inv, TypeOK
  <2> QED
    BY <2>1 DEF Fresh, Value
<1> QED
  BY <1>2, <1>3, <1>4, <1>5 DEF Dev, Ver, NewRow, Row

\* What a lookup finds.
LEMMA FoundRowType ==
    ASSUME Inv, NEW p \in Reader, pc[p] \in ReaderStep
    PROVE  /\ want[p] \in Slot
           /\ Found(p) => FoundRow(p) \in Row /\ FoundRow(p).iv \in Value /\ FoundRow(p).key \in Value
<1>1. want[p] \in Slot
  BY DEF Inv, Running, Process
<1>2. ASSUME Found(p)
      PROVE  FoundRow(p) \in Row
  <2> DEFINE d == want[p].device
             M == Matching(d, want[p].version, want[p].section)
  <2>1. d \in Device /\ M # {}
    BY <1>1, <1>2 DEF Slot, Found, Present
  <2>2. \E i \in M : FoundRow(p) = rows[d][i]
    BY <2>1, FirstMatchIsFirst DEF FoundRow, Inv
  <2>3. rows[d] \in Seq(Row) /\ M \subseteq 1..Len(rows[d])
    BY <2>1, LenProperties DEF Inv, TypeOK, Matching
  <2> QED
    BY <2>2, <2>3, ElementOfSeq
<1> QED
  BY <1>1, <1>2 DEF Row

\* The counters stay within their bounds.
LEMMA Bounds == MaxJobs \in Nat /\ MaxFaults \in Nat /\ MaxCrashes \in Nat
BY KeyStoreAssumption

LEMMA FailsEffect ==
    ASSUME Inv, NEW p, NEW rivals, Fails(p, rivals)
    PROVE  faults' \in 0..MaxFaults
BY Bounds DEF Fails, Inv, TypeOK

\* Every step of an updater, of a reader, and every crash keeps the invariant.
LEMMA InvNext == Inv /\ [Next]_vars => Inv'
<1> SUFFICES ASSUME Inv, [Next]_vars PROVE Inv'
  OBVIOUS
<1> USE DEF Process, UpdaterStep, ReaderStep
<1>1. ASSUME NEW p \in Updater, NEW u \in Update, StartUpdate(p, u)
      PROVE  Inv'
  <2>1. /\ published \in Seq(Update) /\ Len(published) \in Nat
        /\ fate \in Seq(Fates)
    BY LenProperties DEF Inv, TypeOK, Fates
  <2>2. /\ published' \in Seq(Update)
        /\ Len(published') = Len(published) + 1
        /\ published'[Len(published) + 1] = u
        /\ \A i \in 1..Len(published) : published'[i] = published[i]
    BY <1>1, <2>1, AppendProperties DEF StartUpdate
  <2>3. \A f \in Fates : Append(fate, f) \in Seq(Fates) /\ Len(Append(fate, f)) = Len(fate) + 1
    BY <2>1, AppendProperties
  <2>4. fate' \in Seq(Fates) /\ Len(fate') = Len(published')
    BY <1>1, <2>2, <2>3 DEF StartUpdate, Fates, Inv, TypeOK
  <2>5. u.listing \in Seq(Section) /\ Len(u.listing) \in Nat
    BY KeyStoreAssumption, LenProperties DEF Update
  <2>6. u.listing # <<>> => 1 \in 1..Len(u.listing)
    BY <2>5, EmptySeq
  <2>7. TypeOK'
    <3>1. Len(published') <= MaxJobs /\ upd' \in [Updater -> 0..MaxJobs]
      <4>1. Len(published) < MaxJobs /\ upd' = [upd EXCEPT ![p] = Len(published) + 1]
        BY <1>1 DEF StartUpdate
      <4>2. upd \in [Updater -> 0..MaxJobs]
        BY DEF Inv, TypeOK
      <4> QED
        BY <2>1, <2>2, <4>1, <4>2, Bounds
    <3>2. item' \in [Updater -> Nat] /\ faults' \in 0..MaxFaults
      <4>1. item \in [Updater -> Nat] /\ faults \in 0..MaxFaults
        BY DEF Inv, TypeOK
      <4>2. \/ item' = [item EXCEPT ![p] = 1]
            \/ item' = [item EXCEPT ![p] = 0]
        BY <1>1 DEF StartUpdate
      <4>3. faults' = faults \/ (faults < MaxFaults /\ faults' = faults + 1)
        BY <1>1 DEF StartUpdate
      <4> QED
        BY <4>1, <4>2, <4>3, Bounds
    <3>3. pc' \in [Process -> {"idle"} \cup UpdaterStep \cup ReaderStep]
      BY <1>1 DEF StartUpdate, Inv, TypeOK, Goto
    <3>4. UNCHANGED <<tables, rows, want, ivRead, reply, crashes>>
      BY <1>1 DEF StartUpdate, store
    <3> QED
      BY <2>2, <2>4, <3>1, <3>2, <3>3, <3>4 DEF Inv, TypeOK, Fates
  <2>8. Running'
    BY <1>1, <2>1, <2>2, <2>6 DEF StartUpdate, Inv, TypeOK, Running, Goto, Job
  <2>9. TableBeforeWrite'
    BY <1>1, <2>1, <2>2 DEF StartUpdate, Inv, TypeOK, Running, TableBeforeWrite, Goto, Dev, Job, store
  <2> QED
    BY <2>7, <2>8, <2>9 DEF Inv
<1>2. ASSUME NEW p \in Updater, DoesDeviceExist(p)
      PROVE  Inv'
  <2>1. /\ fate' \in Seq(Fates) /\ Len(fate') = Len(fate) /\ item' = item
        /\ \/ pc' = [pc EXCEPT ![p] = "idle"]
           \/ pc' = [pc EXCEPT ![p] = "section"] /\ Dev(p) \in tables
           \/ pc' = [pc EXCEPT ![p] = "create"]
    BY <1>2, EndUpdateEffect DEF DoesDeviceExist, Fates, Goto, Inv, TypeOK
  <2>2. TypeOK'
    <3>1. faults' \in 0..MaxFaults
      BY <1>2, FailsEffect DEF DoesDeviceExist, SelectFails, Inv, TypeOK
    <3>2. UNCHANGED <<tables, rows, published, upd, want, ivRead, reply, crashes>>
      BY <1>2 DEF DoesDeviceExist, store
    <3> QED
      BY <2>1, <3>1, <3>2 DEF Inv, TypeOK, Fates
  <2>3. Running'
    BY <1>2, <2>1 DEF DoesDeviceExist, Inv, TypeOK, Running, Job
  <2>4. TableBeforeWrite'
    BY <1>2, <2>1 DEF DoesDeviceExist, Inv, TypeOK, TableBeforeWrite, Dev, Job, store
  <2> QED
    BY <2>2, <2>3, <2>4 DEF Inv
<1>3. ASSUME NEW p \in Updater, InsertTable(p)
      PROVE  Inv'
  <2>1. /\ fate' \in Seq(Fates) /\ Len(fate') = Len(fate) /\ item' = item
        /\ tables \subseteq tables' /\ tables' \subseteq tables \cup {Dev(p)}
        /\ \/ pc' = [pc EXCEPT ![p] = "idle"]
           \/ pc' = [pc EXCEPT ![p] = "insert"] /\ Dev(p) \in tables'
    BY <1>3, EndUpdateEffect DEF InsertTable, Fates, Goto, Inv, TypeOK
  <2>2. TypeOK'
    <3>1. faults' \in 0..MaxFaults
      BY <1>3, FailsEffect DEF InsertTable, WriteFails, Inv, TypeOK
    <3>2. UNCHANGED <<rows, published, upd, want, ivRead, reply, crashes>>
      BY <1>3 DEF InsertTable
    <3>3. tables' \subseteq Device
      BY <1>3, <2>1, EntryType DEF InsertTable, Inv, TypeOK
    <3> QED
      BY <2>1, <3>1, <3>2, <3>3 DEF Inv, TypeOK, Fates
  <2>3. Running'
    BY <1>3, <2>1 DEF InsertTable, Inv, TypeOK, Running, Job
  <2>4. TableBeforeWrite'
    BY <1>3, <2>1 DEF InsertTable, Inv, TypeOK, TableBeforeWrite, Dev, Job
  <2> QED
    BY <2>2, <2>3, <2>4 DEF Inv
<1>4. ASSUME NEW p \in Updater, DoesSectionExist(p)
      PROVE  Inv'
  <2>1. \/ pc' = [pc EXCEPT ![p] = "updateKey"]
        \/ pc' = [pc EXCEPT ![p] = "insert"]
    BY <1>4 DEF DoesSectionExist, Goto
  <2>2. TypeOK'
    <3>1. faults' \in 0..MaxFaults
      BY <1>4, FailsEffect DEF DoesSectionExist, SelectFails, Inv, TypeOK
    <3>2. UNCHANGED <<tables, rows, published, fate, upd, item, want, ivRead, reply, crashes>>
      BY <1>4 DEF DoesSectionExist, store
    <3> QED
      BY <2>1, <3>1, <3>2 DEF Inv, TypeOK
  <2>3. Running'
    BY <1>4, <2>1 DEF DoesSectionExist, Inv, TypeOK, Running, Job
  <2>4. TableBeforeWrite'
    BY <1>4, <2>1 DEF DoesSectionExist, Inv, TypeOK, TableBeforeWrite, Dev, Job, store
  <2> QED
    BY <2>2, <2>3, <2>4 DEF Inv
<1>5. ASSUME NEW p \in Updater, UpdateKey(p)
      PROVE  Inv'
  <2>1. /\ fate' \in Seq(Fates) /\ Len(fate') = Len(fate) /\ item' = item
        /\ \/ pc' = [pc EXCEPT ![p] = "idle"]
           \/ pc' = [pc EXCEPT ![p] = "updateIV"]
    BY <1>5, EndUpdateEffect DEF UpdateKey, Fates, Goto, Inv, TypeOK
  <2>2. TypeOK'
    <3>1. faults' \in 0..MaxFaults
      BY <1>5, FailsEffect DEF UpdateKey, WriteFails, Inv, TypeOK
    <3>2. UNCHANGED <<tables, published, upd, want, ivRead, reply, crashes>>
      BY <1>5 DEF UpdateKey
    <3>3. rows' \in [Device -> Seq(Row)]
      BY <1>5, EntryType, SetColumnEffect DEF UpdateKey, Inv, TypeOK
    <3> QED
      BY <2>1, <3>1, <3>2, <3>3 DEF Inv, TypeOK, Fates
  <2>3. Running'
    BY <1>5, <2>1 DEF UpdateKey, Inv, TypeOK, Running, Job
  <2>4. TableBeforeWrite'
    BY <1>5, <2>1 DEF UpdateKey, Inv, TypeOK, TableBeforeWrite, Dev, Job
  <2> QED
    BY <2>2, <2>3, <2>4 DEF Inv
<1>6. ASSUME NEW p \in Updater, UpdateIV(p) \/ InsertRow(p)
      PROVE  Inv'
  <2>1. /\ fate' \in Seq(Fates) /\ Len(fate') = Len(fate)
        /\ item' \in [Updater -> Nat]
        /\ \A q \in Updater \ {p} : item'[q] = item[q]
        /\ \/ pc' = [pc EXCEPT ![p] = "idle"]
           \/ pc' = [pc EXCEPT ![p] = "device"] /\ item'[p] \in 1..Len(Job(p).listing)
    BY <1>6, EndUpdateEffect, NextEntryEffect DEF UpdateIV, InsertRow, Fates, Inv, TypeOK
  <2>2. TypeOK'
    <3>1. faults' \in 0..MaxFaults
      BY <1>6, FailsEffect DEF UpdateIV, InsertRow, WriteFails, Inv, TypeOK
    <3>2. UNCHANGED <<tables, published, upd, want, ivRead, reply, crashes>>
      BY <1>6 DEF UpdateIV, InsertRow
    <3>3. rows' \in [Device -> Seq(Row)]
      BY <1>6, EntryType, SetColumnEffect, InsertEffect DEF UpdateIV, InsertRow, Inv, TypeOK
    <3> QED
      BY <2>1, <3>1, <3>2, <3>3 DEF Inv, TypeOK, Fates
  <2>3. Running'
    BY <1>6, <2>1 DEF UpdateIV, InsertRow, Inv, TypeOK, Running, Job
  <2>4. TableBeforeWrite'
    BY <1>6, <2>1 DEF UpdateIV, InsertRow, Inv, TypeOK, TableBeforeWrite, Dev, Job
  <2> QED
    BY <2>2, <2>3, <2>4 DEF Inv
<1>7. ASSUME NEW p \in Reader, NEW slot \in Slot, StartLookup(p, slot)
      PROVE  Inv'
  <2>1. TypeOK'
    BY <1>7 DEF StartLookup, Goto, Inv, TypeOK, store
  <2>2. Running'
    BY <1>7 DEF StartLookup, Goto, Inv, TypeOK, Running, Job, store
  <2>3. TableBeforeWrite'
    BY <1>7 DEF StartLookup, Goto, Inv, TypeOK, TableBeforeWrite, Dev, Job, store
  <2> QED
    BY <2>1, <2>2, <2>3 DEF Inv
<1>8. ASSUME NEW p \in Reader, SelectIV(p)
      PROVE  Inv'
  <2>1. /\ want[p] \in Slot
        /\ Found(p) => FoundRow(p).iv \in Value
    BY <1>8, FoundRowType DEF SelectIV
  <2>2. /\ ivRead' \in [Reader -> Value \cup {NoValue}]
        /\ \A q \in Reader \ {p} : ivRead'[q] = ivRead[q]
        /\ \/ pc' = [pc EXCEPT ![p] = "idle"]
           \/ pc' = [pc EXCEPT ![p] = "selectKey"] /\ ivRead'[p] \in Value
    BY <1>8, <2>1 DEF SelectIV, Goto, Inv, TypeOK
  <2>3. UNCHANGED <<tables, rows, published, fate, upd, item, want, reply, crashes>>
    BY <1>8 DEF SelectIV, store
  <2>4. TypeOK'
    <3>1. faults' \in 0..MaxFaults
      BY <1>8, FailsEffect DEF SelectIV, SelectFails, Inv, TypeOK
    <3> QED
      BY <2>2, <2>3, <3>1 DEF Inv, TypeOK
  <2>5. Running'
    BY <1>8, <2>1, <2>2, <2>3 DEF Inv, TypeOK, Running, Job
  <2>6. TableBeforeWrite'
    BY <2>2, <2>3 DEF Inv, TypeOK, TableBeforeWrite, Dev, Job
  <2> QED
    BY <2>4, <2>5, <2>6 DEF Inv
<1>9. ASSUME NEW p \in Reader, SelectKey(p)
      PROVE  Inv'
  <2>1. /\ want[p] \in Slot /\ ivRead[p] \in Value
        /\ Found(p) => FoundRow(p).key \in Value
    BY <1>9, FoundRowType DEF SelectKey, Inv, Running
  <2>2. /\ reply' \in [Reader -> Reply \cup {NoReply}]
        /\ pc' = [pc EXCEPT ![p] = "idle"]
    <3>1. reply \in [Reader -> Reply \cup {NoReply}]
      BY DEF Inv, TypeOK
    <3>2. Found(p) => [slot |-> want[p], key |-> FoundRow(p).key, iv |-> ivRead[p]] \in Reply
      BY <2>1 DEF Reply
    <3>3. pc' = [pc EXCEPT ![p] = "idle"]
      BY <1>9 DEF SelectKey, Goto
    <3>4. \/ Found(p) /\ reply' = [reply EXCEPT ![p] =
                            [slot |-> want[p], key |-> FoundRow(p).key, iv |-> ivRead[p]]]
          \/ reply' = reply
      BY <1>9 DEF SelectKey
    <3> QED
      BY <3>1, <3>2, <3>3, <3>4, Zenon
  <2>3. UNCHANGED <<tables, rows, published, fate, upd, item, want, ivRead, crashes>>
    BY <1>9 DEF SelectKey, store
  <2>4. TypeOK'
    <3>1. faults' \in 0..MaxFaults
      BY <1>9, FailsEffect DEF SelectKey, SelectFails, Inv, TypeOK
    <3> QED
      BY <2>2, <2>3, <3>1 DEF Inv, TypeOK
  <2>5. Running'
    BY <2>2, <2>3 DEF Inv, TypeOK, Running, Job
  <2>6. TableBeforeWrite'
    BY <2>2, <2>3 DEF Inv, TypeOK, TableBeforeWrite, Dev, Job
  <2> QED
    BY <2>4, <2>5, <2>6 DEF Inv
<1>10. ASSUME NEW p \in Process, Crash(p)
       PROVE  Inv'
  <2>1. fate' \in Seq(Fates) /\ Len(fate') = Len(fate)
    <3>1. fate \in Seq(Fates) /\ "killed" \in Fates
      BY DEF Inv, TypeOK, Fates
    <3>2. \A n : /\ [fate EXCEPT ![n] = "killed"] \in Seq(Fates)
                 /\ Len([fate EXCEPT ![n] = "killed"]) = Len(fate)
      <4> HIDE DEF Fates
      <4> QED
        BY <3>1, ReplaceInSeq
    <3> QED
      BY <1>10, <3>1, <3>2 DEF Crash
  <2>2. /\ pc' = [pc EXCEPT ![p] = "idle"]
        /\ UNCHANGED <<tables, rows, published, upd, item, want, ivRead, reply, faults>>
    BY <1>10 DEF Crash, Goto, store
  <2>3. TypeOK'
    <3>1. crashes' \in 0..MaxCrashes
      BY <1>10, Bounds DEF Crash, Inv, TypeOK
    <3> QED
      BY <2>1, <2>2, <3>1 DEF Inv, TypeOK, Fates
  <2>4. Running'
    BY <2>2 DEF Inv, TypeOK, Running, Job
  <2>5. TableBeforeWrite'
    BY <2>2 DEF Inv, TypeOK, TableBeforeWrite, Dev, Job
  <2> QED
    BY <2>3, <2>4, <2>5 DEF Inv
<1>11. CASE UNCHANGED vars
  BY <1>11 DEF vars, Inv, TypeOK, Running, TableBeforeWrite, Job, Dev
<1> QED
  BY <1>1, <1>2, <1>3, <1>4, <1>5, <1>6, <1>7, <1>8, <1>9, <1>10, <1>11
     DEF Next, UpdateStep, LookupStep

\* Whatever interleaves, fails or is killed: every variable keeps its type, every
\* process is at an entry of its own page or at a lookup of its own, and writes
\* only to a table that InsertTable or an earlier update has created.
THEOREM InvAlways == Spec => []Inv
<1>1. Init => Inv
  BY InitInv
<1>2. Inv /\ [Next]_vars => Inv'
  BY InvNext
<1> QED
  BY <1>1, <1>2, PTL DEF Spec

\* Type correctness: every variable of the database, of the updaters and of the
\* lookups stays within its type, so no statement is ever built from an entry
\* outside its page and no lookup returns a value it did not read.
THEOREM TypeCorrect == Spec => []TypeOK
<1>1. Inv => TypeOK
  BY DEF Inv
<1> QED
  BY <1>1, InvAlways, PTL

\* No INSERT or UPDATE is executed before its table exists, with any number of
\* concurrent updaters, failed statements and crashes.
THEOREM TablesFirst == Spec => []TableBeforeWrite
<1>1. Inv => TableBeforeWrite
  BY DEF Inv
<1> QED
  BY <1>1, InvAlways, PTL

-----------------------------------------------------------------------------
(* Provenance.  Between its SELECTs a lookup holds an IV, which must be one *)
(* published for the slot it wants.                                         *)

RowsProvenance ==
    \A d \in Device : \A i \in DOMAIN rows[d] :
        /\ PublishedFor(rows[d][i].key, d, rows[d][i].version, rows[d][i].section)
        /\ PublishedFor(rows[d][i].iv, d, rows[d][i].version, rows[d][i].section)

IVProvenance ==
    \A p \in Reader : pc[p] = "selectKey" =>
        PublishedFor(ivRead[p], want[p].device, want[p].version, want[p].section)

ReplyProvenance ==
    \A p \in Reader : reply[p] # NoReply =>
        /\ PublishedFor(reply[p].key, reply[p].slot.device, reply[p].slot.version, reply[p].slot.section)
        /\ PublishedFor(reply[p].iv, reply[p].slot.device, reply[p].slot.version, reply[p].slot.section)

ProvenanceInv == RowsProvenance /\ IVProvenance /\ ReplyProvenance

\* The same entry, looked up among the updates of the next state.
StillPublished(v, d, ver, s) ==
    /\ v.job \in DOMAIN published'
    /\ published'[v.job].device = d
    /\ published'[v.job].version = ver
    /\ v.item \in DOMAIN published'[v.job].listing
    /\ published'[v.job].listing[v.item] = s

\* What was published stays published.
LEMMA PublishedForever ==
    ASSUME Inv, [Next]_vars, NEW v, NEW d, NEW ver, NEW s, PublishedFor(v, d, ver, s)
    PROVE  StillPublished(v, d, ver, s)
<1>1. published \in Seq(Update)
  BY DEF Inv, TypeOK
<1>2. CASE UNCHANGED published
  BY <1>2 DEF PublishedFor, StillPublished
<1>3. CASE \E p \in Updater : \E u \in Update : StartUpdate(p, u)
  <2>1. PICK u \in Update : published' = Append(published, u)
    BY <1>3 DEF StartUpdate
  <2>2. /\ DOMAIN published = 1..Len(published) /\ Len(published) \in Nat
        /\ DOMAIN published' = 1..(Len(published) + 1)
        /\ \A i \in 1..Len(published) : published'[i] = published[i]
    <3>1. Append(published, u) \in Seq(Update)
      BY <1>1, AppendProperties
    <3> QED
      BY <1>1, <2>1, <3>1, AppendProperties, LenProperties
  <2> QED
    BY <2>2 DEF PublishedFor, StillPublished
<1> QED
  BY <1>2, <1>3
     DEF Next, UpdateStep, LookupStep, DoesDeviceExist, InsertTable, DoesSectionExist,
         UpdateKey, UpdateIV, InsertRow, StartLookup, SelectIV, SelectKey, Crash, vars

\* The entry an updater has reached is on its page.
LEMMA FreshPublished ==
    ASSUME Inv, NEW p \in Updater, pc[p] \in UpdaterStep
    PROVE  PublishedFor(Fresh(p), Dev(p), Ver(p), Sec(p))
<1>1. upd[p] \in 1..Len(published) /\ item[p] \in 1..Len(Job(p).listing)
  BY DEF Inv, Running, Process
<1>2. published \in Seq(Update) /\ Job(p).listing \in Seq(Section)
  BY EntryType, KeyStoreAssumption DEF Inv, TypeOK, Update
<1>3. DOMAIN published = 1..Len(published) /\ DOMAIN Job(p).listing = 1..Len(Job(p).listing)
  BY <1>2, LenProperties
<1> QED
  BY <1>1, <1>3 DEF PublishedFor, Fresh, Dev, Ver, Sec, Job

\* What a lookup finds was published for what it wants.
LEMMA FoundRowPublished ==
    ASSUME Inv, RowsProvenance, NEW p \in Reader, pc[p] \in ReaderStep, Found(p)
    PROVE  /\ PublishedFor(FoundRow(p).key, want[p].device, want[p].version, want[p].section)
           /\ PublishedFor(FoundRow(p).iv, want[p].device, want[p].version, want[p].section)
<1> DEFINE d == want[p].device
           M == Matching(d, want[p].version, want[p].section)
<1>1. d \in Device /\ M # {}
  BY FoundRowType DEF Slot, Found, Present
<1>2. PICK i \in M : FoundRow(p) = rows[d][i]
  BY <1>1, FirstMatchIsFirst DEF FoundRow, Inv
<1>3. /\ i \in DOMAIN rows[d]
      /\ rows[d][i].version = want[p].version
      /\ rows[d][i].section = want[p].section
  BY DEF Matching
<1> QED
  BY <1>1, <1>2, <1>3 DEF RowsProvenance

\* The rows of the database after each kind of write.
LEMMA RowsProvenanceNext ==
    ASSUME Inv, [Next]_vars, RowsProvenance
    PROVE  RowsProvenance'
<1> DEFINE Good(e, r) == /\ StillPublished(r.key, e, r.version, r.section)
                         /\ StillPublished(r.iv, e, r.version, r.section)
<1>1. SUFFICES \A e \in Device : \A i \in DOMAIN rows'[e] : Good(e, rows'[e][i])
  BY DEF RowsProvenance, PublishedFor, StillPublished
<1>2. \A e \in Device : \A i \in DOMAIN rows[e] : Good(e, rows[e][i])
  BY PublishedForever DEF RowsProvenance
<1>3. CASE UNCHANGED rows
  BY <1>2, <1>3
<1>4. ASSUME NEW p \in Updater, pc[p] \in UpdaterStep,
             \/ SetColumn(Dev(p), Ver(p), Sec(p), "key", Fresh(p))
             \/ SetColumn(Dev(p), Ver(p), Sec(p), "iv", Fresh(p))
      PROVE  \A e \in Device : \A i \in DOMAIN rows'[e] : Good(e, rows'[e][i])
  <2> DEFINE M == Matching(Dev(p), Ver(p), Sec(p))
  <2>1. StillPublished(Fresh(p), Dev(p), Ver(p), Sec(p))
    BY <1>4, FreshPublished, PublishedForever
  <2>2. \A e \in Device :
           /\ DOMAIN rows'[e] = DOMAIN rows[e]
           /\ \A i \in DOMAIN rows[e] :
                 /\ rows'[e][i].version = rows[e][i].version
                 /\ rows'[e][i].section = rows[e][i].section
                 /\ rows'[e][i].key # rows[e][i].key =>
                       e = Dev(p) /\ i \in M /\ rows'[e][i].key = Fresh(p)
                 /\ rows'[e][i].iv # rows[e][i].iv =>
                       e = Dev(p) /\ i \in M /\ rows'[e][i].iv = Fresh(p)
    <3>1. TypeOK /\ Dev(p) \in Device /\ Fresh(p) \in Value
      BY <1>4, EntryType DEF Inv
    <3> QED
      <4>1. \/ ColumnSet(Dev(p), Ver(p), Sec(p), "key", Fresh(p))
            \/ ColumnSet(Dev(p), Ver(p), Sec(p), "iv", Fresh(p))
        BY <1>4, <3>1, SetColumnEffect
      <4> QED
        BY <4>1 DEF ColumnSet
  <2>3. \A i \in M : rows[Dev(p)][i].version = Ver(p) /\ rows[Dev(p)][i].section = Sec(p)
    BY DEF Matching
  <2> HIDE DEF M
  <2> QED
    BY <1>2, <2>1, <2>2, <2>3
<1>5. ASSUME NEW p \in Updater, pc[p] \in UpdaterStep,
             rows' = [rows EXCEPT ![Dev(p)] = Append(@, NewRow(p))]
      PROVE  \A e \in Device : \A i \in DOMAIN rows'[e] : Good(e, rows'[e][i])
  <2>1. Good(Dev(p), NewRow(p))
    BY <1>5, FreshPublished, PublishedForever DEF NewRow
  <2>2. Dev(p) \in Device /\ NewRow(p) \in Row
    BY <1>5, EntryType
  <2>3. /\ \A e \in Device \ {Dev(p)} : rows'[e] = rows[e]
        /\ DOMAIN rows'[Dev(p)] = DOMAIN rows[Dev(p)] \cup {Len(rows[Dev(p)]) + 1}
        /\ \A i \in DOMAIN rows[Dev(p)] : rows'[Dev(p)][i] = rows[Dev(p)][i]
        /\ rows'[Dev(p)][Len(rows[Dev(p)]) + 1] = NewRow(p)
    BY <1>5, <2>2, InsertEffect DEF Inv
  <2> HIDE DEF Good
  <2> QED
    BY <1>2, <2>1, <2>2, <2>3
<1> QED
  BY <1>3, <1>4, <1>5
     DEF Next, UpdateStep, LookupStep, StartUpdate, DoesDeviceExist, InsertTable,
         DoesSectionExist, UpdateKey, UpdateIV, InsertRow, StartLookup, SelectIV, SelectKey,
         Crash, vars, store, UpdaterStep

LEMMA ProvenanceNext ==
    ASSUME Inv, [Next]_vars, ProvenanceInv
    PROVE  ProvenanceInv'
<1>1. RowsProvenance'
  BY RowsProvenanceNext DEF ProvenanceInv
<1> DEFINE IVGood(q) == StillPublished(ivRead'[q], want'[q].device, want'[q].version, want'[q].section)
           ReplyGood(q) == LET a == reply'[q] IN
               /\ StillPublished(a.key, a.slot.device, a.slot.version, a.slot.section)
               /\ StillPublished(a.iv, a.slot.device, a.slot.version, a.slot.section)
<1>2. SUFFICES ASSUME NEW q \in Reader
               PROVE  /\ pc'[q] = "selectKey" => IVGood(q)
                      /\ reply'[q] # NoReply => ReplyGood(q)
  BY <1>1 DEF ProvenanceInv, IVProvenance, ReplyProvenance, PublishedFor, StillPublished
<1>3. CASE UNCHANGED <<pc, want, ivRead, reply>>
  <2>1. pc'[q] = "selectKey" => IVGood(q)
    BY <1>3, PublishedForever DEF ProvenanceInv, IVProvenance
  <2>2. reply'[q] # NoReply => ReplyGood(q)
    BY <1>3, PublishedForever DEF ProvenanceInv, ReplyProvenance
  <2> QED
    BY <2>1, <2>2
<1>4. CASE /\ UNCHANGED <<want, ivRead, reply>>
           /\ \A p \in Process : pc'[p] = "selectKey" => pc[p] = "selectKey"
  <2>1. pc'[q] = "selectKey" => IVGood(q)
    BY <1>4, PublishedForever DEF ProvenanceInv, IVProvenance, Process
  <2>2. reply'[q] # NoReply => ReplyGood(q)
    BY <1>4, PublishedForever DEF ProvenanceInv, ReplyProvenance
  <2> QED
    BY <2>1, <2>2
<1>5. ASSUME NEW p \in Reader, NEW slot \in Slot, StartLookup(p, slot)
      PROVE  (pc'[q] = "selectKey" => IVGood(q)) /\ (reply'[q] # NoReply => ReplyGood(q))
  <2>1. pc'[q] = "selectKey" => pc[q] = "selectKey" /\ want'[q] = want[q] /\ ivRead'[q] = ivRead[q]
    BY <1>5 DEF StartLookup, Goto, Inv, TypeOK, Process
  <2>2. reply'[q] # NoReply => reply'[q] = reply[q] /\ reply[q] # NoReply
    BY <1>5 DEF StartLookup, Inv, TypeOK
  <2>3. pc'[q] = "selectKey" => IVGood(q)
    BY <2>1, PublishedForever DEF ProvenanceInv, IVProvenance
  <2>4. reply'[q] # NoReply => ReplyGood(q)
    BY <2>2, PublishedForever DEF ProvenanceInv, ReplyProvenance
  <2> QED
    BY <2>3, <2>4
<1>6. ASSUME NEW p \in Reader, SelectIV(p)
      PROVE  (pc'[q] = "selectKey" => IVGood(q)) /\ (reply'[q] # NoReply => ReplyGood(q))
  <2>1. CASE q # p
    <3>1. pc'[q] = pc[q] /\ want'[q] = want[q] /\ ivRead'[q] = ivRead[q] /\ reply'[q] = reply[q]
      BY <1>6, <2>1 DEF SelectIV, Goto, Inv, TypeOK, Process
    <3>2. pc'[q] = "selectKey" => IVGood(q)
      BY <3>1, PublishedForever DEF ProvenanceInv, IVProvenance
    <3>3. reply'[q] # NoReply => ReplyGood(q)
      BY <3>1, PublishedForever DEF ProvenanceInv, ReplyProvenance
    <3> QED
      BY <3>2, <3>3
  <2>2. CASE q = p
    <3>1. pc[q] \in ReaderStep /\ want'[q] = want[q] /\ reply'[q] = reply[q]
      BY <1>6, <2>2 DEF SelectIV, ReaderStep
    <3>2. pc'[q] = "selectKey" => Found(q) /\ ivRead'[q] = FoundRow(q).iv
      BY <1>6, <2>2 DEF SelectIV, Goto, Inv, TypeOK, Process
    <3>3. pc'[q] = "selectKey" => IVGood(q)
      BY <3>1, <3>2, FoundRowPublished, PublishedForever DEF ProvenanceInv
    <3>4. reply'[q] # NoReply => ReplyGood(q)
      BY <3>1, PublishedForever DEF ProvenanceInv, ReplyProvenance
    <3> QED
      BY <3>3, <3>4
  <2> QED
    BY <2>1, <2>2
<1>7. ASSUME NEW p \in Reader, SelectKey(p)
      PROVE  (pc'[q] = "selectKey" => IVGood(q)) /\ (reply'[q] # NoReply => ReplyGood(q))
  <2>1. want'[q] = want[q] /\ ivRead'[q] = ivRead[q] /\ (q # p => pc'[q] = pc[q]) /\ pc'[p] = "idle"
    BY <1>7 DEF SelectKey, Goto, Inv, TypeOK, Process
  <2>2. pc'[q] = "selectKey" => IVGood(q)
    BY <2>1, PublishedForever DEF ProvenanceInv, IVProvenance
  <2>3. \/ reply'[q] = reply[q]
        \/ /\ q = p /\ Found(q) /\ pc[q] = "selectKey"
           /\ reply'[q] = [slot |-> want[q], key |-> FoundRow(q).key, iv |-> ivRead[q]]
    BY <1>7 DEF SelectKey, Inv, TypeOK
  <2>4. CASE reply'[q] = reply[q]
    BY <2>2, <2>4, PublishedForever DEF ProvenanceInv, ReplyProvenance
  <2>5. CASE q = p /\ Found(q) /\ pc[q] = "selectKey"
             /\ reply'[q] = [slot |-> want[q], key |-> FoundRow(q).key, iv |-> ivRead[q]]
    <3>1. /\ PublishedFor(FoundRow(q).key, want[q].device, want[q].version, want[q].section)
          /\ PublishedFor(ivRead[q], want[q].device, want[q].version, want[q].section)
      BY <2>5, FoundRowPublished DEF ProvenanceInv, IVProvenance, ReaderStep
    <3>2. ReplyGood(q)
      BY <2>5, <3>1, PublishedForever
    <3> QED
      BY <2>2, <3>2
  <2> QED
    BY <2>3, <2>4, <2>5
<1>8. ASSUME NEW p \in Updater, \/ \E u \in Update : StartUpdate(p, u)
                                \/ UpdateStep(p)
      PROVE  /\ UNCHANGED <<want, ivRead, reply>>
             /\ \A r \in Process : pc'[r] = "selectKey" => pc[r] = "selectKey"
  BY <1>8 DEF StartUpdate, UpdateStep, DoesDeviceExist, InsertTable, DoesSectionExist,
       UpdateKey, UpdateIV, InsertRow, NextEntry, EndUpdate, Goto, Inv, TypeOK, Process
<1>9. ASSUME NEW p \in Process, Crash(p)
      PROVE  /\ UNCHANGED <<want, ivRead, reply>>
             /\ \A r \in Process : pc'[r] = "selectKey" => pc[r] = "selectKey"
  BY <1>9 DEF Crash, Goto, Inv, TypeOK, Process
<1> HIDE DEF IVGood, ReplyGood
<1> QED
  BY <1>3, <1>4, <1>5, <1>6, <1>7, <1>8, <1>9 DEF Next, LookupStep, vars

\* What a lookup holds between its SELECTs was published for the slot it wants, as
\* was what is stored and returned.
LEMMA ProvenanceInvAlways == Spec => []ProvenanceInv
<1>1. Init => ProvenanceInv
  BY DEF Init, ProvenanceInv, RowsProvenance, IVProvenance, ReplyProvenance, Process
<1>2. Inv /\ ProvenanceInv /\ [Next]_vars => ProvenanceInv'
  BY ProvenanceNext
<1> QED
  BY <1>1, <1>2, InvAlways, PTL DEF Spec

\* Every key and IV stored, and every one returned, was published for its slot.
THEOREM ProvenanceAlways == Spec => []Provenance
<1>1. ProvenanceInv => Provenance
  BY DEF ProvenanceInv, RowsProvenance, ReplyProvenance, Provenance
<1> QED
  BY <1>1, ProvenanceInvAlways, PTL
=============================================================================
