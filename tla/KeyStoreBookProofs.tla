------------------------- MODULE KeyStoreBookProofs -------------------------
(***************************************************************************)
(* Theorems about the key database under the restrictions it needs: with   *)
(* one updater, what is stored and returned goes together and nothing is   *)
(* lost; when moreover no statement fails, each row is unique and success  *)
(* means stored; and used by one process that is never killed, it          *)
(* implements the map of KeyBook.                                          *)
(***************************************************************************)
EXTENDS KeyStoreBook, KeyStoreProofs

-----------------------------------------------------------------------------
(* One updater.  What its run of the program is about to store is newer    *)
(* than all that is stored, so what it overwrites is never lost, and the   *)
(* only half-written rows are those between its two UPDATEs and those that *)
(* an update which did not succeed left behind.                            *)

OneUpdater == \A p, q \in Updater : p = q

LatestRuns ==
    \A p \in Updater : pc[p] \in UpdaterStep =>
        upd[p] = Len(published) /\ fate[upd[p]] = "running"

NothingAhead ==
    \A p \in Updater : pc[p] \in UpdaterStep =>
        \A d \in Device : \A i \in DOMAIN rows[d] :
            NotNewer(rows[d][i].key, Fresh(p)) /\ NotNewer(rows[d][i].iv, Fresh(p))

KeyIsSet ==
    \A p \in Updater : pc[p] = "updateIV" =>
        \A i \in Matching(Dev(p), Ver(p), Sec(p)) : rows[Dev(p)][i].key = Fresh(p)

\* The row is between the two UPDATEs of updater p.
HalfWritten(p, d, i) ==
    /\ pc[p] = "updateIV"
    /\ d = Dev(p)
    /\ i \in Matching(Dev(p), Ver(p), Sec(p))

TornRows ==
    \A d \in Device : \A i \in DOMAIN rows[d] :
        \/ rows[d][i].iv = rows[d][i].key
        \/ fate[rows[d][i].key.job] \in {"failed", "killed"}
        \/ \E p \in Updater : HalfWritten(p, d, i)

RowsKeyLeads ==
    \A d \in Device : \A i \in DOMAIN rows[d] : NotNewer(rows[d][i].iv, rows[d][i].key)

WriterInv == LatestRuns /\ NothingAhead /\ KeyIsSet /\ TornRows /\ RowsKeyLeads

\* The row a lookup will read its key from, when it has the IV.
LookupKeyLeads ==
    \A p \in Reader : pc[p] = "selectKey" =>
        \E i \in Matching(want[p].device, want[p].version, want[p].section) :
            /\ \A j \in Matching(want[p].device, want[p].version, want[p].section) : i <= j
            /\ NotNewer(ivRead[p], rows[want[p].device][i].key)

ReplyKeyLeads ==
    \A p \in Reader : reply[p] # NoReply => NotNewer(reply[p].iv, reply[p].key)

\* The kinds of step, by what they do to the updater and to the rows.
MovesOn(p) ==
    /\ pc[p] \in UpdaterStep \ {"updateIV"}
    /\ \E step \in UpdaterStep \ {"updateIV", "device"} : pc' = [pc EXCEPT ![p] = step]
    /\ DoesDeviceExist(p) \/ InsertTable(p) \/ DoesSectionExist(p)
    /\ UNCHANGED <<rows, published, fate, upd, item>>

GivesUp(p) ==
    /\ pc[p] \in UpdaterStep
    /\ pc' = [pc EXCEPT ![p] = "idle"]
    /\ \E f \in {"failed", "killed"} : fate' = [fate EXCEPT ![upd[p]] = f]
    /\ pc[p] = "updateIV" => WriteFails(p) \/ crashes < MaxCrashes
    /\ UNCHANGED <<tables, rows, published, upd, item>>

SetsKey(p) ==
    /\ pc[p] = "updateKey"
    /\ ColumnSet(Dev(p), Ver(p), Sec(p), "key", Fresh(p))
    /\ pc' = [pc EXCEPT ![p] = "updateIV"]
    /\ UNCHANGED <<tables, published, fate, upd, item>>

SetsIV(p) ==
    /\ pc[p] = "updateIV"
    /\ ColumnSet(Dev(p), Ver(p), Sec(p), "iv", Fresh(p))
    /\ NextEntry(p)
    /\ UNCHANGED <<tables, published, upd>>

RowAdded(d, r) ==
    /\ \A e \in Device \ {d} : rows'[e] = rows[e]
    /\ DOMAIN rows'[d] = DOMAIN rows[d] \cup {Len(rows[d]) + 1}
    /\ \A i \in DOMAIN rows[d] : rows'[d][i] = rows[d][i]
    /\ rows'[d][Len(rows[d]) + 1] = r

AddsRow(p) ==
    /\ pc[p] = "insert"
    /\ RowAdded(Dev(p), NewRow(p))
    /\ NextEntry(p)
    /\ UNCHANGED <<tables, published, upd>>

NoUpdaterMoves ==
    /\ UNCHANGED <<tables, rows, published, fate, upd, item>>
    /\ \A p \in Updater : pc[p] \in UpdaterStep \/ pc'[p] \in UpdaterStep => pc'[p] = pc[p]

\* Every step is of one of these kinds.
LEMMA StepKinds ==
    ASSUME Inv, [Next]_vars
    PROVE  \/ NoUpdaterMoves
           \/ \E p \in Updater : \/ \E u \in Update : StartUpdate(p, u)
                                 \/ MovesOn(p) \/ GivesUp(p)
                                 \/ SetsKey(p) \/ SetsIV(p) \/ AddsRow(p)
<1> USE DEF Process, UpdaterStep, ReaderStep
<1>1. ASSUME NEW p \in Updater, DoesDeviceExist(p)
      PROVE  MovesOn(p) \/ GivesUp(p)
  BY <1>1 DEF DoesDeviceExist, EndUpdate, MovesOn, GivesUp, Goto, store
<1>2. ASSUME NEW p \in Updater, InsertTable(p)
      PROVE  MovesOn(p) \/ GivesUp(p)
  BY <1>2 DEF InsertTable, EndUpdate, MovesOn, GivesUp, Goto
<1>3. ASSUME NEW p \in Updater, DoesSectionExist(p)
      PROVE  MovesOn(p)
  BY <1>3 DEF DoesSectionExist, MovesOn, Goto, store
<1>4. ASSUME NEW p \in Updater, UpdateKey(p)
      PROVE  SetsKey(p) \/ GivesUp(p)
  <2>1. CASE SetColumn(Dev(p), Ver(p), Sec(p), "key", Fresh(p)) /\ UNCHANGED <<item, fate>>
             /\ Goto(p, "updateIV")
    <3>1. ColumnSet(Dev(p), Ver(p), Sec(p), "key", Fresh(p))
      BY <1>4, <2>1, EntryType, SetColumnEffect DEF UpdateKey, Inv
    <3> QED
      BY <1>4, <2>1, <3>1 DEF UpdateKey, SetsKey, Goto
  <2>2. CASE EndUpdate(p, "failed") /\ UNCHANGED rows
    BY <1>4, <2>2 DEF UpdateKey, EndUpdate, GivesUp, Goto
  <2> QED
    BY <1>4, <2>1, <2>2 DEF UpdateKey
<1>5. ASSUME NEW p \in Updater, UpdateIV(p)
      PROVE  SetsIV(p) \/ GivesUp(p)
  <2>1. CASE SetColumn(Dev(p), Ver(p), Sec(p), "iv", Fresh(p)) /\ NextEntry(p)
    <3>1. ColumnSet(Dev(p), Ver(p), Sec(p), "iv", Fresh(p))
      BY <1>5, <2>1, EntryType, SetColumnEffect DEF UpdateIV, Inv
    <3> QED
      BY <1>5, <2>1, <3>1 DEF UpdateIV, SetsIV
  <2>2. CASE WriteFails(p) /\ EndUpdate(p, "failed") /\ UNCHANGED rows
    BY <1>5, <2>2 DEF UpdateIV, EndUpdate, GivesUp, Goto
  <2> QED
    BY <1>5, <2>1, <2>2 DEF UpdateIV
<1>6. ASSUME NEW p \in Updater, InsertRow(p)
      PROVE  AddsRow(p) \/ GivesUp(p)
  <2>1. CASE rows' = [rows EXCEPT ![Dev(p)] = Append(@, NewRow(p))] /\ NextEntry(p)
    <3>1. RowAdded(Dev(p), NewRow(p))
      BY <1>6, <2>1, EntryType, InsertEffect DEF InsertRow, RowAdded, Inv
    <3> QED
      BY <1>6, <2>1, <3>1 DEF InsertRow, AddsRow
  <2>2. CASE EndUpdate(p, "failed") /\ UNCHANGED rows
    BY <1>6, <2>2 DEF InsertRow, EndUpdate, GivesUp, Goto
  <2> QED
    BY <1>6, <2>1, <2>2 DEF InsertRow
<1>7. ASSUME NEW p \in Reader, (\E slot \in Slot : StartLookup(p, slot)) \/ LookupStep(p)
      PROVE  NoUpdaterMoves
  <2>1. PICK step \in {"idle"} \cup ReaderStep : pc' = [pc EXCEPT ![p] = step]
    BY <1>7 DEF StartLookup, LookupStep, SelectIV, SelectKey, Goto
  <2>2. pc[p] \notin UpdaterStep /\ UNCHANGED <<tables, rows, published, fate, upd, item>>
    BY <1>7 DEF StartLookup, LookupStep, SelectIV, SelectKey, store
  <2> QED
    BY <2>1, <2>2 DEF NoUpdaterMoves, Inv, TypeOK
<1>8. ASSUME NEW p \in Process, Crash(p)
      PROVE  NoUpdaterMoves \/ (p \in Updater /\ GivesUp(p))
  <2>1. pc' = [pc EXCEPT ![p] = "idle"] /\ UNCHANGED <<tables, rows, published, upd, item>>
    BY <1>8 DEF Crash, Goto, store
  <2>2. CASE pc[p] \in UpdaterStep
    <3>1. p \in Updater /\ fate' = [fate EXCEPT ![upd[p]] = "killed"]
      BY <1>8, <2>2 DEF Crash, Inv, Running
    <3> QED
      BY <1>8, <2>1, <2>2, <3>1 DEF GivesUp, Crash
  <2>3. CASE pc[p] \notin UpdaterStep
    <3>1. fate' = fate
      BY <1>8, <2>3 DEF Crash
    <3>2. pc \in [Process -> {"idle"} \cup UpdaterStep \cup ReaderStep]
      BY DEF Inv, TypeOK
    <3>3. \A q \in Process : q # p => pc'[q] = pc[q]
      BY <2>1, <3>2
    <3>4. pc'[p] = "idle"
      BY <2>1, <3>2
    <3> QED
      BY <2>1, <2>3, <3>1, <3>3, <3>4 DEF NoUpdaterMoves
  <2> QED
    BY <2>2, <2>3
<1>9. CASE UNCHANGED vars
  BY <1>9 DEF vars, NoUpdaterMoves
<1> QED
  BY <1>1, <1>2, <1>3, <1>4, <1>5, <1>6, <1>7, <1>8, <1>9 DEF Next, UpdateStep

\* The order in which entries were published.
LEMMA NotNewerOrder ==
    ASSUME NEW a \in Value, NEW b \in Value, NEW c \in Value
    PROVE  /\ NotNewer(a, a)
           /\ NotNewer(a, b) /\ NotNewer(b, c) => NotNewer(a, c)
BY Bounds DEF Value, NotNewer

\* A row, its key and its IV are of their types.
LEMMA RowType ==
    ASSUME TypeOK, NEW d \in Device, NEW i \in DOMAIN rows[d]
    PROVE  /\ rows[d][i] \in Row
           /\ rows[d][i].key \in Value
           /\ rows[d][i].iv \in Value
<1>1. rows[d] \in Seq(Row)
  BY DEF TypeOK
<1>2. rows[d][i] \in Row
  BY <1>1, LenProperties, ElementOfSeq
<1> QED
  BY <1>2 DEF Row

\* Every value stored is of an update that was started.
LEMMA StoredJobs ==
    ASSUME Inv, RowsProvenance, NEW d \in Device, NEW i \in DOMAIN rows[d]
    PROVE  /\ rows[d][i].key.job \in 1..Len(published)
           /\ rows[d][i].iv.job \in 1..Len(published)
<1>1. DOMAIN published = 1..Len(published)
  BY LenProperties DEF Inv, TypeOK
<1> QED
  BY <1>1 DEF RowsProvenance, PublishedFor

\* A run that begins has an update newer than all before.
LEMMA WriterInvStart ==
    ASSUME OneUpdater, Inv, RowsProvenance, WriterInv,
           NEW p \in Updater, NEW u \in Update, StartUpdate(p, u)
    PROVE  WriterInv'
<1> USE DEF Process, UpdaterStep, ReaderStep
<1>1. /\ Len(published) \in Nat
      /\ Len(published') = Len(published) + 1
      /\ \A i \in 1..Len(published) : published'[i] = published[i]
  BY LenProperties, AppendProperties DEF StartUpdate, Inv, TypeOK
<1>2. /\ \A n \in 1..Len(published) : fate'[n] = fate[n]
      /\ pc'[p] # "idle" => fate'[Len(published) + 1] = "running"
  <2>1. fate \in Seq(Fates) /\ Len(fate) = Len(published)
    BY DEF Inv, TypeOK, Fates
  <2>2. PICK f \in Fates : fate' = Append(fate, f) /\ (pc'[p] # "idle" => f = "running")
    BY DEF StartUpdate, Fates, Goto, Inv, TypeOK
  <2> QED
    BY <2>1, <2>2, AppendProperties
<1>3. /\ UNCHANGED rows
      /\ pc'[p] \in {"idle", "device"}
      /\ upd'[p] = Len(published) + 1
      /\ \A q \in Updater : q = p
  BY DEF StartUpdate, store, Goto, Inv, TypeOK, OneUpdater
<1>4. LatestRuns'
  BY <1>1, <1>2, <1>3 DEF LatestRuns
<1>5. NothingAhead'
  <2>1. \A d \in Device : \A i \in DOMAIN rows[d] :
           rows[d][i].key.job \in 1..Len(published) /\ rows[d][i].iv.job \in 1..Len(published)
    BY StoredJobs
  <2>2. Fresh(p)'.job = Len(published) + 1
    BY <1>3 DEF Fresh
  <2> QED
    BY <1>1, <1>3, <2>1, <2>2 DEF NothingAhead, NotNewer
<1>6. KeyIsSet'
  BY <1>3 DEF KeyIsSet
<1>7. TornRows'
  <2>1. \A d \in Device : \A i \in DOMAIN rows[d] : rows[d][i].key.job \in 1..Len(published)
    BY StoredJobs
  <2>2. pc[p] = "idle"
    BY DEF StartUpdate
  <2> QED
    BY <1>1, <1>2, <1>3, <2>1, <2>2 DEF TornRows, HalfWritten, WriterInv
<1>8. RowsKeyLeads'
  BY <1>3 DEF RowsKeyLeads, NotNewer, WriterInv
<1> QED
  BY <1>4, <1>5, <1>6, <1>7, <1>8 DEF WriterInv

\* Steps that leave the rows alone.
LEMMA WriterInvQuiet ==
    ASSUME OneUpdater, Inv, RowsProvenance, WriterInv,
           NoUpdaterMoves \/ \E p \in Updater : MovesOn(p) \/ GivesUp(p)
    PROVE  WriterInv'
<1> USE DEF Process, UpdaterStep, ReaderStep
<1>1. RowsKeyLeads'
  BY DEF RowsKeyLeads, NotNewer, WriterInv, NoUpdaterMoves, MovesOn, GivesUp
<1>2. CASE NoUpdaterMoves
  <2>1. LatestRuns' /\ NothingAhead' /\ KeyIsSet'
    BY <1>2, SMTT(30) DEF WriterInv, LatestRuns, NothingAhead, KeyIsSet, NotNewer, Fresh, NoUpdaterMoves,
                Matching, Dev, Ver, Sec, Job
  <2>2. \A p \in Updater : \A d \in Device : \A i \in DOMAIN rows[d] :
           HalfWritten(p, d, i) => HalfWritten(p, d, i)'
    BY <1>2 DEF HalfWritten, NoUpdaterMoves, Matching, Dev, Ver, Sec, Job
  <2>3. TornRows'
    BY <1>2, <2>2 DEF WriterInv, TornRows, NoUpdaterMoves
  <2> QED
    BY <1>1, <2>1, <2>3 DEF WriterInv
<1>3. ASSUME NEW p \in Updater, MovesOn(p)
      PROVE  WriterInv'
  <2>1. /\ pc'[p] # "updateIV" /\ pc[p] \in UpdaterStep /\ pc[p] # "updateIV"
        /\ \A q \in Updater : q = p
        /\ UNCHANGED <<rows, published, fate, upd, item>>
    BY <1>3 DEF MovesOn, OneUpdater, Inv, TypeOK
  <2>2. LatestRuns' /\ KeyIsSet'
    BY <2>1 DEF WriterInv, LatestRuns, KeyIsSet
  <2>3. NothingAhead'
    BY <2>1 DEF WriterInv, NothingAhead, NotNewer, Fresh
  <2>4. TornRows'
    BY <2>1 DEF WriterInv, TornRows, HalfWritten
  <2> QED
    BY <1>1, <2>2, <2>3, <2>4 DEF WriterInv
<1>4. ASSUME NEW p \in Updater, GivesUp(p)
      PROVE  WriterInv'
  <2>1. /\ pc'[p] = "idle" /\ pc[p] \in UpdaterStep
        /\ \A q \in Updater : q = p
        /\ UNCHANGED <<rows, published, upd, item>>
    BY <1>4 DEF GivesUp, OneUpdater, Inv, TypeOK
  <2>2. /\ \A n \in 1..Len(published) : fate'[n] = fate[n] \/ fate'[n] \in {"failed", "killed"}
        /\ fate'[upd[p]] \in {"failed", "killed"}
    <3>1. DOMAIN fate = 1..Len(published)
      BY LenProperties DEF Inv, TypeOK
    <3>2. upd[p] \in 1..Len(published)
      BY <2>1 DEF Inv, Running
    <3> QED
      BY <1>4, <3>1, <3>2 DEF GivesUp
  <2>3. LatestRuns' /\ NothingAhead' /\ KeyIsSet'
    BY <2>1 DEF LatestRuns, NothingAhead, KeyIsSet
  <2>4. TornRows'
    <3>1. SUFFICES ASSUME NEW d \in Device, NEW i \in DOMAIN rows[d], rows[d][i].iv # rows[d][i].key
                   PROVE  fate'[rows[d][i].key.job] \in {"failed", "killed"}
      BY <2>1 DEF TornRows
    <3>2. rows[d][i].key.job \in 1..Len(published)
      BY StoredJobs
    <3>3. CASE fate[rows[d][i].key.job] \in {"failed", "killed"}
      BY <2>2, <3>2, <3>3
    <3>4. CASE HalfWritten(p, d, i)
      <4>1. d = Dev(p) /\ rows[d][i].key = Fresh(p)
        BY <3>4 DEF HalfWritten, WriterInv, KeyIsSet
      <4>2. rows[d][i].key.job = upd[p]
        BY <4>1 DEF Fresh
      <4> QED
        BY <2>2, <4>2
    <3> QED
      BY <2>1, <3>1, <3>3, <3>4 DEF WriterInv, TornRows
  <2> QED
    BY <1>1, <2>1, <2>3, <2>4 DEF WriterInv
<1> QED
  BY <1>2, <1>3, <1>4

\* The first UPDATE makes rows half-written, those the second will complete.
LEMMA WriterInvKey ==
    ASSUME OneUpdater, Inv, RowsProvenance, WriterInv, NEW p \in Updater, SetsKey(p)
    PROVE  WriterInv'
<1> USE DEF Process, UpdaterStep, ReaderStep
<1> DEFINE M == Matching(Dev(p), Ver(p), Sec(p))
<1>1. /\ pc[p] = "updateKey" /\ pc'[p] = "updateIV"
      /\ \A q \in Updater : q = p
      /\ UNCHANGED <<published, fate, upd, item>>
      /\ Fresh(p)' = Fresh(p) /\ Dev(p)' = Dev(p) /\ Ver(p)' = Ver(p) /\ Sec(p)' = Sec(p)
  BY DEF SetsKey, OneUpdater, Inv, TypeOK, Fresh, Dev, Ver, Sec, Job
<1>2. Dev(p) \in Device /\ Fresh(p) \in Value
  BY <1>1, EntryType
<1>3. ASSUME NEW d \in Device
      PROVE  /\ DOMAIN rows'[d] = DOMAIN rows[d]
             /\ \A i \in DOMAIN rows[d] :
                   /\ rows'[d][i].version = rows[d][i].version
                   /\ rows'[d][i].section = rows[d][i].section
                   /\ rows'[d][i].iv = rows[d][i].iv
                   /\ rows'[d][i].key = IF d = Dev(p) /\ i \in M THEN Fresh(p) ELSE rows[d][i].key
  BY DEF SetsKey, ColumnSet
<1>4. Matching(Dev(p), Ver(p), Sec(p))' = M
  BY <1>1, <1>2, <1>3 DEF Matching
<1> HIDE DEF M
<1>5. LatestRuns'
  BY <1>1 DEF WriterInv, LatestRuns
<1>6. NothingAhead'
  <2>1. NotNewer(Fresh(p), Fresh(p))
    BY <1>2, NotNewerOrder
  <2> QED
    BY <1>1, <1>3, <2>1 DEF WriterInv, NothingAhead, NotNewer
<1>7. KeyIsSet'
  <2>1. M \subseteq DOMAIN rows[Dev(p)]
    BY DEF M, Matching
  <2> QED
    BY <1>1, <1>2, <1>3, <1>4, <2>1 DEF KeyIsSet
<1>8. TornRows'
  <2>1. \A d \in Device : \A i \in DOMAIN rows[d] : (d = Dev(p) /\ i \in M) => HalfWritten(p, d, i)'
    BY <1>1, <1>4 DEF HalfWritten
  <2>2. \A d \in Device : \A i \in DOMAIN rows[d] : ~HalfWritten(p, d, i)
    BY <1>1 DEF HalfWritten
  <2> QED
    BY <1>1, <1>3, <2>1, <2>2 DEF WriterInv, TornRows
<1>9. RowsKeyLeads'
  BY <1>1, <1>3 DEF WriterInv, RowsKeyLeads, NothingAhead, NotNewer
<1> QED
  BY <1>5, <1>6, <1>7, <1>8, <1>9 DEF WriterInv

\* What is common to the two steps that complete an entry.
LEMMA EntryDone ==
    ASSUME OneUpdater, Inv, RowsProvenance, WriterInv, NEW p \in Updater,
           pc[p] \in UpdaterStep, NextEntry(p), UNCHANGED <<published, upd>>
    PROVE  /\ \A q \in Updater : q = p
           /\ pc'[p] \in {"device", "idle"}
           /\ pc'[p] = "device" => item'[p] = item[p] + 1
           /\ LatestRuns'
           /\ \A n \in 1..Len(published) : n # upd[p] => fate'[n] = fate[n]
<1> USE DEF Process, UpdaterStep, ReaderStep
<1>1. /\ \A q \in Updater : q = p
      /\ pc'[p] \in {"device", "idle"}
      /\ pc'[p] = "device" => item'[p] = item[p] + 1 /\ fate' = fate
  BY DEF NextEntry, EndUpdate, Goto, OneUpdater, Inv, TypeOK
<1>2. \A n \in 1..Len(published) : n # upd[p] => fate'[n] = fate[n]
  <2>1. DOMAIN fate = 1..Len(published)
    BY LenProperties DEF Inv, TypeOK
  <2> QED
    BY <2>1 DEF NextEntry, EndUpdate
<1>3. LatestRuns'
  BY <1>1 DEF WriterInv, LatestRuns
<1> QED
  BY <1>1, <1>2, <1>3

\* The second UPDATE completes every row the first has written.
LEMMA WriterInvIV ==
    ASSUME OneUpdater, Inv, RowsProvenance, WriterInv, NEW p \in Updater, SetsIV(p)
    PROVE  WriterInv'
<1> USE DEF Process, UpdaterStep, ReaderStep
<1> DEFINE M == Matching(Dev(p), Ver(p), Sec(p))
<1>1. /\ pc[p] = "updateIV" /\ pc'[p] \in {"device", "idle"}
      /\ \A q \in Updater : q = p
      /\ UNCHANGED <<published, upd>>
      /\ pc'[p] = "device" => item'[p] = item[p] + 1
      /\ LatestRuns'
      /\ \A n \in 1..Len(published) : n # upd[p] => fate'[n] = fate[n]
  BY EntryDone DEF SetsIV
<1>2. Dev(p) \in Device /\ Fresh(p) \in Value
  BY <1>1, EntryType
<1>3. ASSUME NEW d \in Device
      PROVE  /\ DOMAIN rows'[d] = DOMAIN rows[d]
             /\ \A i \in DOMAIN rows[d] :
                   /\ rows'[d][i].key = rows[d][i].key
                   /\ rows'[d][i].iv = IF d = Dev(p) /\ i \in M THEN Fresh(p) ELSE rows[d][i].iv
  BY DEF SetsIV, ColumnSet
<1>4. \A i \in M : rows[Dev(p)][i].key = Fresh(p)
  BY <1>1 DEF WriterInv, KeyIsSet
<1> HIDE DEF M
<1>5. ASSUME pc'[p] = "device"
      PROVE  /\ NotNewer(Fresh(p), Fresh(p)')
             /\ \A v \in Value : NotNewer(v, Fresh(p)) => NotNewer(v, Fresh(p)')
  <2>1. Fresh(p)' = [job |-> upd[p], item |-> item[p] + 1]
    BY <1>1, <1>5 DEF Fresh
  <2>2. upd[p] \in Nat /\ item[p] \in Nat
    BY DEF Inv, TypeOK
  <2> QED
    BY <2>1, <2>2, Bounds DEF NotNewer, Fresh, Value
<1>6. NothingAhead'
  <2>1. SUFFICES ASSUME pc'[p] = "device", NEW d \in Device, NEW i \in DOMAIN rows[d]
                 PROVE  /\ NotNewer(rows'[d][i].key, Fresh(p)')
                        /\ NotNewer(rows'[d][i].iv, Fresh(p)')
    BY <1>1, <1>3 DEF NothingAhead, NotNewer
  <2>2. rows[d][i].key \in Value /\ rows[d][i].iv \in Value
    BY RowType DEF Inv
  <2>3. NotNewer(rows[d][i].key, Fresh(p)) /\ NotNewer(rows[d][i].iv, Fresh(p))
    BY <1>1 DEF WriterInv, NothingAhead
  <2> QED
    BY <1>3, <1>5, <2>1, <2>2, <2>3
<1>7. KeyIsSet'
  BY <1>1 DEF KeyIsSet
<1>8. TornRows'
  <2>1. SUFFICES ASSUME NEW d \in Device, NEW i \in DOMAIN rows[d], rows'[d][i].iv # rows'[d][i].key
                 PROVE  fate'[rows'[d][i].key.job] \in {"failed", "killed"}
    BY <1>3 DEF TornRows
  <2>2. ~(d = Dev(p) /\ i \in M)
    BY <1>3, <1>4, <2>1
  <2>3. fate[rows[d][i].key.job] \in {"failed", "killed"}
    BY <1>1, <1>3, <2>1, <2>2 DEF WriterInv, TornRows, HalfWritten, M
  <2>4. rows[d][i].key.job \in 1..Len(published) /\ rows[d][i].key.job # upd[p]
    BY <1>1, <2>3, StoredJobs DEF WriterInv, LatestRuns
  <2> QED
    BY <1>1, <1>3, <2>3, <2>4
<1>9. RowsKeyLeads'
  <2>1. NotNewer(Fresh(p), Fresh(p))
    BY <1>2, NotNewerOrder
  <2> QED
    BY <1>3, <1>4, <2>1 DEF WriterInv, RowsKeyLeads, NotNewer
<1> QED
  BY <1>1, <1>6, <1>7, <1>8, <1>9 DEF WriterInv

\* A row that is added is whole, and as new as what the updater holds.
LEMMA WriterInvRow ==
    ASSUME OneUpdater, Inv, RowsProvenance, WriterInv, NEW p \in Updater, AddsRow(p)
    PROVE  WriterInv'
<1> USE DEF Process, UpdaterStep, ReaderStep
<1>1. /\ pc[p] = "insert" /\ pc'[p] \in {"device", "idle"}
      /\ \A q \in Updater : q = p
      /\ UNCHANGED <<published, upd>>
      /\ pc'[p] = "device" => item'[p] = item[p] + 1
      /\ LatestRuns'
      /\ \A n \in 1..Len(published) : n # upd[p] => fate'[n] = fate[n]
  BY EntryDone DEF AddsRow
<1>2. Dev(p) \in Device /\ Fresh(p) \in Value
  BY <1>1, EntryType
<1>3. \A d \in Device : \A i \in DOMAIN rows'[d] :
         \/ i \in DOMAIN rows[d] /\ rows'[d][i] = rows[d][i]
         \/ rows'[d][i].key = Fresh(p) /\ rows'[d][i].iv = Fresh(p)
  BY <1>2 DEF AddsRow, RowAdded, NewRow
<1>4. NotNewer(Fresh(p), Fresh(p))
  BY <1>2, NotNewerOrder
<1>5. ASSUME pc'[p] = "device"
      PROVE  /\ NotNewer(Fresh(p), Fresh(p)')
             /\ \A v \in Value : NotNewer(v, Fresh(p)) => NotNewer(v, Fresh(p)')
  <2>1. Fresh(p)' = [job |-> upd[p], item |-> item[p] + 1]
    BY <1>1, <1>5 DEF Fresh
  <2>2. upd[p] \in Nat /\ item[p] \in Nat
    BY DEF Inv, TypeOK
  <2> QED
    BY <2>1, <2>2, Bounds DEF NotNewer, Fresh, Value
<1>6. NothingAhead'
  <2>1. SUFFICES ASSUME pc'[p] = "device", NEW d \in Device, NEW i \in DOMAIN rows'[d]
                 PROVE  /\ NotNewer(rows'[d][i].key, Fresh(p)')
                        /\ NotNewer(rows'[d][i].iv, Fresh(p)')
    BY <1>1 DEF NothingAhead, NotNewer
  <2>2. CASE i \in DOMAIN rows[d] /\ rows'[d][i] = rows[d][i]
    <3>1. rows[d][i].key \in Value /\ rows[d][i].iv \in Value
      BY <2>2, RowType DEF Inv
    <3>2. NotNewer(rows[d][i].key, Fresh(p)) /\ NotNewer(rows[d][i].iv, Fresh(p))
      BY <1>1, <2>2 DEF WriterInv, NothingAhead
    <3> QED
      BY <1>5, <2>1, <2>2, <3>1, <3>2
  <2>3. CASE rows'[d][i].key = Fresh(p) /\ rows'[d][i].iv = Fresh(p)
    BY <1>5, <2>1, <2>3
  <2> QED
    BY <1>3, <2>2, <2>3
<1>7. KeyIsSet'
  BY <1>1 DEF KeyIsSet
<1>8. TornRows'
  <2>1. SUFFICES ASSUME NEW d \in Device, NEW i \in DOMAIN rows'[d], rows'[d][i].iv # rows'[d][i].key
                 PROVE  fate'[rows'[d][i].key.job] \in {"failed", "killed"}
    BY DEF TornRows
  <2>2. i \in DOMAIN rows[d] /\ rows'[d][i] = rows[d][i]
    BY <1>3, <2>1
  <2>3. fate[rows[d][i].key.job] \in {"failed", "killed"}
    BY <1>1, <2>1, <2>2 DEF WriterInv, TornRows, HalfWritten
  <2>4. rows[d][i].key.job \in 1..Len(published) /\ rows[d][i].key.job # upd[p]
    BY <1>1, <2>2, <2>3, StoredJobs DEF WriterInv, LatestRuns
  <2> QED
    BY <1>1, <2>2, <2>3, <2>4
<1>9. RowsKeyLeads'
  BY <1>3, <1>4 DEF WriterInv, RowsKeyLeads, NotNewer
<1> QED
  BY <1>1, <1>6, <1>7, <1>8, <1>9 DEF WriterInv

\* Every step keeps the one updater's part of the invariant.
LEMMA WriterInvNext ==
    ASSUME OneUpdater, Inv, RowsProvenance, WriterInv, [Next]_vars
    PROVE  WriterInv'
BY StepKinds, WriterInvStart, WriterInvQuiet, WriterInvKey, WriterInvIV, WriterInvRow

\* The one updater's part of the invariant.
LEMMA WriterInvAlways ==
    ASSUME OneUpdater
    PROVE  Spec => []WriterInv
<1>1. Init => WriterInv
  BY DEF Init, WriterInv, LatestRuns, NothingAhead, KeyIsSet, TornRows, RowsKeyLeads, Process, UpdaterStep
<1>2. Inv /\ ProvenanceInv /\ WriterInv /\ [Next]_vars => WriterInv'
  BY OneUpdater, WriterInvNext DEF ProvenanceInv
<1> QED
  BY <1>1, <1>2, InvAlways, ProvenanceInvAlways, PTL DEF Spec

\* With one updater, a row whose key an update that reported success has brought
\* has the IV of the same entry: the two UPDATEs of UpdateDecryptionInfo are never
\* half done when UpdateDatabase returns success.
THEOREM SuccessIsWholeAlways ==
    ASSUME OneUpdater
    PROVE  Spec => []SuccessIsWhole
<1>1. WriterInv => SuccessIsWhole
  <2>1. SUFFICES ASSUME WriterInv, NEW d \in Device, NEW i \in DOMAIN rows[d],
                        fate[rows[d][i].key.job] = "ok"
                 PROVE  rows[d][i].iv = rows[d][i].key
    BY DEF SuccessIsWhole
  <2>2. ASSUME NEW p \in Updater, HalfWritten(p, d, i)
        PROVE  FALSE
    <3>1. d = Dev(p) /\ rows[d][i].key = Fresh(p)
      BY <2>1, <2>2 DEF HalfWritten, WriterInv, KeyIsSet
    <3>2. rows[d][i].key.job = upd[p]
      BY <3>1 DEF Fresh
    <3> QED
      BY <2>1, <2>2, <3>2 DEF HalfWritten, WriterInv, LatestRuns, UpdaterStep
  <2> QED
    BY <2>1, <2>2 DEF WriterInv, TornRows
<1> QED
  BY <1>1, WriterInvAlways, OneUpdater, PTL

\* What a step does to the rows of device d: none goes or moves to another slot,
\* none is taken back to an older value, and new ones come behind the others.
Grown(d) ==
    /\ \A i \in DOMAIN rows[d] :
          /\ i \in DOMAIN rows'[d]
          /\ rows'[d][i].version = rows[d][i].version
          /\ rows'[d][i].section = rows[d][i].section
          /\ NotNewer(rows[d][i].key, rows'[d][i].key)
          /\ NotNewer(rows[d][i].iv, rows'[d][i].iv)
    /\ \A i \in DOMAIN rows'[d] \ DOMAIN rows[d] : \A j \in DOMAIN rows[d] : j < i

\* With one updater, every step only adds rows and newer values.
LEMMA RowsGrow ==
    ASSUME OneUpdater, Inv, RowsProvenance, WriterInv, [Next]_vars, NEW d \in Device
    PROVE  Grown(d)
<1>1. \A i \in DOMAIN rows[d] : /\ NotNewer(rows[d][i].key, rows[d][i].key)
                                /\ NotNewer(rows[d][i].iv, rows[d][i].iv)
  BY RowType, NotNewerOrder DEF Inv
<1>2. CASE UNCHANGED rows
  BY <1>1, <1>2 DEF Grown
<1>3. ASSUME NEW p \in Updater, SetsKey(p) \/ SetsIV(p)
      PROVE  Grown(d)
  <2>1. \A i \in DOMAIN rows[d] : /\ NotNewer(rows[d][i].key, Fresh(p))
                                  /\ NotNewer(rows[d][i].iv, Fresh(p))
    BY <1>3 DEF SetsKey, SetsIV, WriterInv, NothingAhead, UpdaterStep
  <2>2. \/ ColumnSet(Dev(p), Ver(p), Sec(p), "key", Fresh(p))
        \/ ColumnSet(Dev(p), Ver(p), Sec(p), "iv", Fresh(p))
    BY <1>3 DEF SetsKey, SetsIV
  <2>3. /\ DOMAIN rows'[d] = DOMAIN rows[d]
        /\ \A i \in DOMAIN rows[d] :
              /\ rows'[d][i].version = rows[d][i].version
              /\ rows'[d][i].section = rows[d][i].section
              /\ rows'[d][i].key \in {rows[d][i].key, Fresh(p)}
              /\ rows'[d][i].iv \in {rows[d][i].iv, Fresh(p)}
    BY <2>2 DEF ColumnSet
  <2> QED
    BY <1>1, <2>1, <2>3 DEF Grown
<1>4. ASSUME NEW p \in Updater, AddsRow(p)
      PROVE  Grown(d)
  <2>1. DOMAIN rows[d] = 1..Len(rows[d]) /\ Len(rows[d]) \in Nat
    BY LenProperties DEF Inv, TypeOK
  <2> QED
    BY <1>1, <1>4, <2>1 DEF AddsRow, RowAdded, Grown
<1> QED
  BY <1>2, <1>3, <1>4, StepKinds DEF NoUpdaterMoves, StartUpdate, MovesOn, GivesUp, store

\* With one updater, whatever fails or is killed, no step of any process removes a
\* row, moves it to another slot, or takes a value back to an older one.
THEOREM NothingLostAlways ==
    ASSUME OneUpdater
    PROVE  Spec => NothingLost
<1> DEFINE Kept == \A d \in Device :
          /\ Len(rows'[d]) >= Len(rows[d])
          /\ \A i \in DOMAIN rows[d] :
                /\ rows'[d][i].version = rows[d][i].version
                /\ rows'[d][i].section = rows[d][i].section
                /\ NotNewer(rows[d][i].key, rows'[d][i].key)
                /\ NotNewer(rows[d][i].iv, rows'[d][i].iv)
<1>1. ASSUME Inv, Inv', RowsProvenance, WriterInv, [Next]_vars
      PROVE  Kept
  <2>1. SUFFICES ASSUME NEW d \in Device
                 PROVE  Len(rows'[d]) >= Len(rows[d])
    BY <1>1, RowsGrow DEF Grown
  <2>2. /\ DOMAIN rows[d] = 1..Len(rows[d]) /\ Len(rows[d]) \in Nat
        /\ DOMAIN rows'[d] = 1..Len(rows'[d]) /\ Len(rows'[d]) \in Nat
    BY <1>1, LenProperties DEF Inv, TypeOK
  <2>3. DOMAIN rows[d] \subseteq DOMAIN rows'[d]
    BY <1>1, RowsGrow DEF Grown
  <2> QED
    BY <2>2, <2>3
<1>2. Inv /\ Inv' /\ ProvenanceInv /\ WriterInv /\ [Next]_vars => [Kept]_vars
  BY <1>1 DEF ProvenanceInv
<1> QED
  BY <1>2, InvAlways, ProvenanceInvAlways, WriterInvAlways, OneUpdater, PTL DEF Spec, NothingLost

\* Where a lookup's IV, and its answer, come from.
IVNext(q) ==
    \/ pc[q] = "selectKey" /\ want'[q] = want[q] /\ ivRead'[q] = ivRead[q]
    \/ /\ pc[q] = "selectIV" /\ want'[q] = want[q] /\ Found(q)
       /\ ivRead'[q] = FoundRow(q).iv
       /\ UNCHANGED rows

ReplyNext(q) ==
    \/ reply'[q] = reply[q]
    \/ /\ pc[q] = "selectKey" /\ Found(q)
       /\ reply'[q] = [slot |-> want[q], key |-> FoundRow(q).key, iv |-> ivRead[q]]
       /\ UNCHANGED rows

LookupNext(q) ==
    /\ pc'[q] = "selectKey" => IVNext(q)
    /\ reply'[q] # NoReply => ReplyNext(q)

\* Every step does one of these to a lookup.
LEMMA LookupKinds ==
    ASSUME Inv, [Next]_vars, NEW q \in Reader
    PROVE  LookupNext(q)
<1> USE DEF Process
<1>1. CASE UNCHANGED vars
  BY <1>1 DEF LookupNext, IVNext, ReplyNext, vars
<1>2. ASSUME NEW p \in Reader, NEW slot \in Slot, StartLookup(p, slot)
      PROVE  LookupNext(q)
  BY <1>2 DEF LookupNext, IVNext, ReplyNext, StartLookup, Goto, Inv, TypeOK
<1>3. ASSUME NEW p \in Reader, SelectIV(p)
      PROVE  LookupNext(q)
  BY <1>3 DEF LookupNext, IVNext, ReplyNext, SelectIV, Goto, Inv, TypeOK, store
<1>4. ASSUME NEW p \in Reader, SelectKey(p)
      PROVE  LookupNext(q)
  BY <1>4 DEF LookupNext, IVNext, ReplyNext, SelectKey, Goto, Inv, TypeOK, store
<1>5. ASSUME NEW p \in Process, Crash(p)
      PROVE  LookupNext(q)
  BY <1>5 DEF LookupNext, IVNext, ReplyNext, Crash, Goto, Inv, TypeOK
<1>6. ASSUME NEW p \in Updater, (\E u \in Update : StartUpdate(p, u)) \/ UpdateStep(p)
      PROVE  LookupNext(q)
  <2>1. UNCHANGED <<want, ivRead, reply>> /\ (pc'[q] = "selectKey" => pc[q] = "selectKey")
    BY <1>6 DEF StartUpdate, UpdateStep, DoesDeviceExist, InsertTable, DoesSectionExist,
         UpdateKey, UpdateIV, InsertRow, NextEntry, EndUpdate, Goto, Inv, TypeOK
  <2> QED
    BY <2>1 DEF LookupNext, IVNext, ReplyNext
<1> QED
  BY <1>1, <1>2, <1>3, <1>4, <1>5, <1>6 DEF Next, LookupStep
\* The row a lookup will read its key from stays where it is, and its key gets
\* no older.
LEMMA LookupKeyLeadsNext ==
    ASSUME OneUpdater, Inv, RowsProvenance, WriterInv, LookupKeyLeads, [Next]_vars
    PROVE  LookupKeyLeads'
<1> SUFFICES ASSUME NEW q \in Reader, pc'[q] = "selectKey"
             PROVE  \E i \in Matching(want[q].device, want[q].version, want[q].section)' :
                       /\ \A j \in Matching(want[q].device, want[q].version, want[q].section)' : i <= j
                       /\ NotNewer(ivRead'[q], rows'[want'[q].device][i].key)
  BY DEF LookupKeyLeads, NotNewer
<1> DEFINE d == want[q].device
           M == Matching(d, want[q].version, want[q].section)
<1>1. IVNext(q)
  BY LookupKinds DEF LookupNext
<1>2. want'[q] = want[q] /\ d \in Device
  <2>1. pc[q] \in ReaderStep /\ want'[q] = want[q]
    BY <1>1 DEF IVNext, ReaderStep
  <2> QED
    BY <2>1, FoundRowType DEF Slot
<1>3. Grown(d)
  BY <1>2, RowsGrow
<1>4. /\ DOMAIN rows[d] = 1..Len(rows[d])
      /\ M \subseteq DOMAIN rows[d]
      /\ M \subseteq Matching(d, want[q].version, want[q].section)'
      /\ Matching(d, want[q].version, want[q].section)' \subseteq M \cup (DOMAIN rows'[d] \ DOMAIN rows[d])
  <2>1. DOMAIN rows[d] = 1..Len(rows[d])
    BY <1>2, LenProperties DEF Inv, TypeOK
  <2> QED
    BY <1>2, <1>3, <2>1 DEF Grown, Matching
<1>5. \E i \in M : (\A j \in M : i <= j) /\ NotNewer(ivRead'[q], rows[d][i].key)
  <2>1. CASE pc[q] = "selectKey" /\ ivRead'[q] = ivRead[q]
    BY <2>1 DEF LookupKeyLeads, NotNewer
  <2>2. CASE pc[q] = "selectIV" /\ Found(q) /\ ivRead'[q] = FoundRow(q).iv
    <3>1. M # {}
      BY <2>2 DEF Found, Present
    <3>2. PICK i \in M : FoundRow(q) = rows[d][i] /\ \A j \in M : i <= j
      BY <1>2, <3>1, FirstMatchIsFirst DEF FoundRow, Inv
    <3> QED
      BY <1>2, <1>4, <2>2, <3>2 DEF WriterInv, RowsKeyLeads
  <2> QED
    BY <1>1, <2>1, <2>2 DEF IVNext
<1>6. PICK i \in M : (\A j \in M : i <= j) /\ NotNewer(ivRead'[q], rows[d][i].key)
  BY <1>5
<1>7. NotNewer(ivRead'[q], rows'[d][i].key)
  <2>1. NotNewer(rows[d][i].key, rows'[d][i].key) /\ i \in DOMAIN rows'[d]
    BY <1>3, <1>4 DEF Grown
  <2>2. Inv'
    BY InvNext
  <2>3. ivRead'[q] \in Value
    BY <2>2 DEF Inv, Running, Process
  <2>4. rows[d][i].key \in Value
    BY <1>2, <1>4, RowType DEF Inv
  <2>5. rows'[d][i].key \in Value
    <3>1. rows'[d] \in Seq(Row)
      BY <1>2, <2>2 DEF Inv, TypeOK
    <3>2. rows'[d][i] \in Row
      BY <2>1, <3>1, LenProperties, ElementOfSeq
    <3> QED
      BY <3>2 DEF Row
  <2> QED
    BY <1>6, <2>1, <2>3, <2>4, <2>5, NotNewerOrder
<1>8. \A j \in Matching(d, want[q].version, want[q].section)' : i <= j
  <2>1. M \subseteq Nat
    BY <1>2, <1>4, LenProperties DEF Inv, TypeOK
  <2>2. \A j \in DOMAIN rows'[d] \ DOMAIN rows[d] : i < j
    BY <1>3, <1>4 DEF Grown
  <2>3. DOMAIN rows'[d] \subseteq Nat
    <3>1. Inv'
      BY InvNext
    <3>2. rows'[d] \in Seq(Row)
      BY <1>2, <3>1 DEF Inv, TypeOK
    <3> QED
      BY <3>2, LenProperties
  <2> QED
    BY <1>4, <1>6, <2>1, <2>2, <2>3
<1> QED
  BY <1>2, <1>4, <1>6, <1>7, <1>8

\* What is returned is what was read: the IV first, the key then.
LEMMA ReplyKeyLeadsNext ==
    ASSUME Inv, LookupKeyLeads, ReplyKeyLeads, [Next]_vars
    PROVE  ReplyKeyLeads'
<1> SUFFICES ASSUME NEW q \in Reader, reply'[q] # NoReply
             PROVE  NotNewer(reply'[q].iv, reply'[q].key)
  BY DEF ReplyKeyLeads, NotNewer
<1>1. ReplyNext(q)
  BY LookupKinds DEF LookupNext
<1>2. CASE reply'[q] = reply[q]
  BY <1>2 DEF ReplyKeyLeads
<1>3. CASE /\ pc[q] = "selectKey" /\ Found(q)
           /\ reply'[q] = [slot |-> want[q], key |-> FoundRow(q).key, iv |-> ivRead[q]]
  <2> DEFINE d == want[q].device
             M == Matching(d, want[q].version, want[q].section)
  <2>1. d \in Device /\ M # {}
    BY <1>3, FoundRowType DEF Slot, Found, Present, ReaderStep
  <2>2. M \subseteq Nat
    BY <2>1, LenProperties DEF Inv, TypeOK, Matching
  <2>3. PICK i \in M : FoundRow(q) = rows[d][i] /\ \A j \in M : i <= j
    BY <2>1, FirstMatchIsFirst DEF FoundRow, Inv
  <2>4. PICK k \in M : (\A j \in M : k <= j) /\ NotNewer(ivRead[q], rows[d][k].key)
    BY <1>3 DEF LookupKeyLeads
  <2>5. i = k
    BY <2>2, <2>3, <2>4
  <2> QED
    BY <1>3, <2>3, <2>4, <2>5
<1> QED
  BY <1>1, <1>2, <1>3 DEF ReplyNext

\* With one updater, however lookups overlap its run and whatever fails or is
\* killed, no IV is stored with, or returned with, a key older than itself: the
\* updater writes the key first and RetrieveKeyAndIV reads it last.
THEOREM KeyNotOlderThanIVAlways ==
    ASSUME OneUpdater
    PROVE  Spec => []KeyNotOlderThanIV
<1>1. Init => LookupKeyLeads /\ ReplyKeyLeads
  BY DEF Init, LookupKeyLeads, ReplyKeyLeads, Process
<1>2. /\ Inv /\ ProvenanceInv /\ WriterInv /\ LookupKeyLeads /\ ReplyKeyLeads
      /\ [Next]_vars
      => LookupKeyLeads' /\ ReplyKeyLeads'
  BY OneUpdater, LookupKeyLeadsNext, ReplyKeyLeadsNext DEF ProvenanceInv
<1>3. WriterInv /\ ReplyKeyLeads => KeyNotOlderThanIV
  BY DEF WriterInv, RowsKeyLeads, ReplyKeyLeads, KeyNotOlderThanIV
<1> QED
  BY <1>1, <1>2, <1>3, InvAlways, ProvenanceInvAlways, WriterInvAlways, OneUpdater, PTL DEF Spec

-----------------------------------------------------------------------------
(* One updater and no failing statements.  What the updater has seen of    *)
(* the database is still so when it acts on it, however many lookups run   *)
(* beside it and whenever it is killed.                                    *)

Faultless == OneUpdater /\ MaxFaults = 0

RowsHaveTable == \A d \in Device : d \notin tables => DOMAIN rows[d] = {}

SeenIsSo ==
    \A p \in Updater :
        /\ pc[p] = "create" => Dev(p) \notin tables
        /\ pc[p] = "insert" => Matching(Dev(p), Ver(p), Sec(p)) = {}
        /\ pc[p] \in {"updateKey", "updateIV"} => Matching(Dev(p), Ver(p), Sec(p)) # {}

\* The entries before the one at hand are stored.
StoredSoFar ==
    \A p \in Updater : pc[p] \in UpdaterStep =>
        \A k \in 1..(item[p] - 1) :
            \E i \in Matching(Dev(p), Ver(p), Job(p).listing[k]) :
                rows[Dev(p)][i].key.job = upd[p]

CheckedInv == RowsHaveTable /\ SeenIsSo /\ StoredSoFar /\ UniqueRows

\* No SELECT of the updater fails when no other process can write.
LEMMA SelectsSucceed ==
    ASSUME Faultless, Inv, NEW p \in Updater
    PROVE  ~SelectFails(p)
BY DEF Faultless, OneUpdater, SelectFails, Fails, Inv, TypeOK

\* Steps that leave the rows alone.
LEMMA CheckedInvQuiet ==
    ASSUME Faultless, Inv, CheckedInv, NEW p \in Updater,
           NoUpdaterMoves \/ (\E u \in Update : StartUpdate(p, u)) \/ MovesOn(p) \/ GivesUp(p)
    PROVE  CheckedInv'
<1> USE DEF Process, UpdaterStep, ReaderStep
<1>1. UNCHANGED rows /\ tables \subseteq tables' /\ \A q \in Updater : q = p
  BY DEF NoUpdaterMoves, StartUpdate, MovesOn, GivesUp, DoesDeviceExist, InsertTable,
         DoesSectionExist, store, Faultless, OneUpdater
<1>2. RowsHaveTable' /\ UniqueRows'
  BY <1>1 DEF CheckedInv, RowsHaveTable, UniqueRows
<1>3. CASE NoUpdaterMoves
  <2>1. SeenIsSo'
    BY <1>3, SMTT(30) DEF NoUpdaterMoves, CheckedInv, SeenIsSo, Matching, Dev, Ver, Sec, Job
  <2>2. StoredSoFar'
    BY <1>3, SMTT(30) DEF NoUpdaterMoves, CheckedInv, StoredSoFar, Matching, Dev, Ver, Job
  <2> QED
    BY <1>2, <2>1, <2>2 DEF CheckedInv
<1>4. CASE (\E u \in Update : StartUpdate(p, u)) \/ GivesUp(p)
  <2>1. pc'[p] \in {"idle", "device"} /\ (pc'[p] = "device" => item'[p] = 1)
    BY <1>4 DEF StartUpdate, GivesUp, Goto, Inv, TypeOK
  <2>2. SeenIsSo' /\ StoredSoFar'
    BY <1>1, <2>1 DEF SeenIsSo, StoredSoFar
  <2> QED
    BY <1>2, <2>2 DEF CheckedInv
<1>5. CASE MovesOn(p)
  <2>1. UNCHANGED <<rows, published, fate, upd, item>> /\ pc[p] \in UpdaterStep
    BY <1>5 DEF MovesOn
  <2>2. /\ Dev(p)' = Dev(p) /\ Ver(p)' = Ver(p) /\ Sec(p)' = Sec(p)
        /\ Matching(Dev(p), Ver(p), Sec(p))' = Matching(Dev(p), Ver(p), Sec(p))
    BY <2>1 DEF Matching, Dev, Ver, Sec, Job
  <2>3. StoredSoFar'
    BY <1>1, <2>1, SMTT(30) DEF CheckedInv, StoredSoFar, Matching, Dev, Ver, Job
  <2>4. SeenIsSo'
    <3>1. CASE DoesDeviceExist(p)
      <4>1. UNCHANGED tables /\ pc'[p] \in {"idle", "section", "create"}
            /\ (pc'[p] = "create" => Dev(p) \notin tables)
        BY <3>1, SelectsSucceed DEF DoesDeviceExist, EndUpdate, Goto, Inv, TypeOK, store
      <4> QED
        BY <1>1, <2>2, <4>1 DEF SeenIsSo
    <3>2. CASE InsertTable(p)
      <4>1. pc'[p] \in {"idle", "insert"} /\ Dev(p) \in Device
            /\ (pc'[p] = "insert" => Dev(p) \notin tables)
        BY <3>2, EntryType DEF InsertTable, EndUpdate, Goto, Inv, TypeOK
      <4>2. Dev(p) \notin tables => Matching(Dev(p), Ver(p), Sec(p)) = {}
        BY <4>1 DEF CheckedInv, RowsHaveTable, Matching
      <4> QED
        BY <1>1, <2>2, <4>1, <4>2 DEF SeenIsSo
    <3>3. CASE DoesSectionExist(p)
      <4>1. /\ pc'[p] \in {"insert", "updateKey"}
            /\ pc'[p] = "updateKey" <=> Present(Dev(p), Ver(p), Sec(p))
        BY <3>3, SelectsSucceed DEF DoesSectionExist, Goto, Inv, TypeOK
      <4>2. Dev(p) \in tables
        BY <3>3 DEF DoesSectionExist, Inv, TableBeforeWrite
      <4> QED
        BY <1>1, <2>2, <4>1, <4>2 DEF SeenIsSo, Present
    <3> QED
      BY <1>5, <3>1, <3>2, <3>3 DEF MovesOn
  <2> QED
    BY <1>2, <2>3, <2>4 DEF CheckedInv
<1> QED
  BY <1>3, <1>4, <1>5

\* The first UPDATE changes no row's slot, so what was seen stays so.
LEMMA CheckedInvKey ==
    ASSUME Faultless, Inv, CheckedInv, NEW p \in Updater, SetsKey(p)
    PROVE  CheckedInv'
<1> USE DEF Process, UpdaterStep, ReaderStep
<1>1. /\ pc[p] = "updateKey" /\ pc'[p] = "updateIV"
      /\ UNCHANGED <<tables, published, fate, upd, item>>
      /\ \A q \in Updater : q = p
  BY DEF SetsKey, Faultless, OneUpdater, Inv, TypeOK
<1>2. Dev(p) \in Device /\ Fresh(p).job = upd[p]
  BY <1>1, EntryType DEF Fresh
<1>3. ASSUME NEW d \in Device
      PROVE  /\ DOMAIN rows'[d] = DOMAIN rows[d]
             /\ \A i \in DOMAIN rows[d] :
                   /\ rows'[d][i].version = rows[d][i].version
                   /\ rows'[d][i].section = rows[d][i].section
                   /\ rows'[d][i].key \in {rows[d][i].key, Fresh(p)}
  BY DEF SetsKey, ColumnSet
<1>4. ASSUME NEW d \in Device, NEW v, NEW s
      PROVE  Matching(d, v, s)' = Matching(d, v, s)
  BY <1>3 DEF Matching
<1>5. RowsHaveTable' /\ UniqueRows'
  BY <1>1, <1>3 DEF CheckedInv, RowsHaveTable, UniqueRows
<1>6. SeenIsSo'
  <2>1. Matching(Dev(p), Ver(p), Sec(p))' # {}
    BY <1>1, <1>2, <1>3, SMTT(30) DEF CheckedInv, SeenIsSo, Matching, Dev, Ver, Sec, Job
  <2> QED
    BY <1>1, <2>1 DEF SeenIsSo
<1>7. StoredSoFar'
  <2>1. Dev(p)' = Dev(p) /\ Ver(p)' = Ver(p) /\ Job(p)' = Job(p)
    BY <1>1 DEF Dev, Ver, Job
  <2>2. SUFFICES ASSUME NEW k \in 1..(item[p] - 1)
                 PROVE  \E i \in Matching(Dev(p), Ver(p), Job(p).listing[k])' :
                           rows'[Dev(p)][i].key.job = upd[p]
    BY <1>1, <2>1 DEF StoredSoFar
  <2>3. PICK i \in Matching(Dev(p), Ver(p), Job(p).listing[k]) : rows[Dev(p)][i].key.job = upd[p]
    BY <1>1 DEF CheckedInv, StoredSoFar
  <2>4. i \in Matching(Dev(p), Ver(p), Job(p).listing[k])'
    BY <1>2, <1>3, <2>1 DEF Matching
  <2>5. rows'[Dev(p)][i].key.job = upd[p]
    BY <1>2, <1>3, <2>3 DEF Matching
  <2> QED
    BY <2>4, <2>5
<1> QED
  BY <1>5, <1>6, <1>7 DEF CheckedInv

\* Entry k of the page of p is stored in the next state.
StoredNext(p, k) ==
    \E i \in DOMAIN rows'[Dev(p)] :
        /\ rows'[Dev(p)][i].version = Ver(p)
        /\ rows'[Dev(p)][i].section = Job(p).listing[k]
        /\ rows'[Dev(p)][i].key.job = upd[p]

\* The two steps that complete an entry have then stored it and those before it.
LEMMA EntriesStored ==
    ASSUME Inv, WriterInv, CheckedInv, NEW p \in Updater, SetsIV(p) \/ AddsRow(p)
    PROVE  \A k \in 1..item[p] : StoredNext(p, k)
<1> USE DEF UpdaterStep
<1>1. /\ pc[p] \in UpdaterStep /\ item[p] \in Nat
      /\ Dev(p) \in Device /\ Fresh(p).job = upd[p]
  BY EntryType DEF SetsIV, AddsRow, Fresh, Inv, TypeOK
<1>2. \A i \in DOMAIN rows[Dev(p)] :
         /\ i \in DOMAIN rows'[Dev(p)]
         /\ rows'[Dev(p)][i].version = rows[Dev(p)][i].version
         /\ rows'[Dev(p)][i].section = rows[Dev(p)][i].section
         /\ rows'[Dev(p)][i].key = rows[Dev(p)][i].key
  BY <1>1 DEF SetsIV, AddsRow, ColumnSet, RowAdded
<1>3. ASSUME NEW k \in 1..(item[p] - 1)
      PROVE  StoredNext(p, k)
  <2>1. PICK i \in Matching(Dev(p), Ver(p), Job(p).listing[k]) : rows[Dev(p)][i].key.job = upd[p]
    BY <1>1 DEF CheckedInv, StoredSoFar
  <2> QED
    BY <1>2, <2>1 DEF StoredNext, Matching
<1>4. StoredNext(p, item[p])
  <2>1. CASE SetsIV(p)
    <3>1. PICK i \in Matching(Dev(p), Ver(p), Sec(p)) : rows[Dev(p)][i].key = Fresh(p)
      BY <2>1 DEF SetsIV, CheckedInv, SeenIsSo, WriterInv, KeyIsSet
    <3> QED
      BY <1>1, <1>2, <3>1 DEF StoredNext, Matching, Sec
  <2>2. CASE AddsRow(p)
    BY <1>1, <2>2 DEF AddsRow, RowAdded, NewRow, StoredNext, Sec
  <2> QED
    BY <2>1, <2>2
<1> QED
  BY <1>1, <1>3, <1>4

\* An INSERT adds the first row of its slot.
LEMMA CheckedInvEntry ==
    ASSUME Faultless, Inv, RowsProvenance, WriterInv, CheckedInv,
           NEW p \in Updater, SetsIV(p) \/ AddsRow(p)
    PROVE  CheckedInv'
<1> USE DEF Process, UpdaterStep, ReaderStep
<1>1. /\ pc[p] \in {"updateIV", "insert"}
      /\ pc'[p] \in {"device", "idle"}
      /\ UNCHANGED <<tables, published, upd>>
      /\ \A q \in Updater : q = p
      /\ pc'[p] = "device" => item'[p] = item[p] + 1
      /\ Dev(p) \in Device /\ Dev(p) \in tables
      /\ item[p] \in Nat
  BY EntryDone, EntryType DEF SetsIV, AddsRow, Faultless, Inv, TableBeforeWrite, TypeOK
<1>2. SeenIsSo'
  BY <1>1 DEF SeenIsSo
<1>3. StoredSoFar'
  <2>1. Dev(p)' = Dev(p) /\ Ver(p)' = Ver(p) /\ Job(p)' = Job(p)
    BY <1>1 DEF Dev, Ver, Job
  <2>2. SUFFICES ASSUME NEW k \in 1..item[p]
                 PROVE  \E i \in Matching(Dev(p), Ver(p), Job(p).listing[k])' :
                           rows'[Dev(p)][i].key.job = upd[p]
    BY <1>1, <2>1 DEF StoredSoFar
  <2>3. StoredNext(p, k)
    BY EntriesStored
  <2> QED
    BY <2>1, <2>3 DEF StoredNext, Matching
<1>4. RowsHaveTable'
  <2>1. \A d \in Device : d # Dev(p) => DOMAIN rows'[d] = DOMAIN rows[d]
    BY <1>1 DEF SetsIV, AddsRow, ColumnSet, RowAdded
  <2> QED
    BY <1>1, <2>1 DEF CheckedInv, RowsHaveTable
<1>5. UniqueRows'
  <2>1. CASE SetsIV(p)
    <3>1. \A d \in Device : /\ DOMAIN rows'[d] = DOMAIN rows[d]
                            /\ \A i \in DOMAIN rows[d] :
                                  /\ rows'[d][i].version = rows[d][i].version
                                  /\ rows'[d][i].section = rows[d][i].section
      BY <2>1 DEF SetsIV, ColumnSet
    <3> QED
      BY <3>1 DEF CheckedInv, UniqueRows
  <2>2. CASE AddsRow(p)
    <3>1. Matching(Dev(p), Ver(p), Sec(p)) = {}
      BY <2>2 DEF AddsRow, CheckedInv, SeenIsSo
    <3>2. \A d \in Device : \A i \in DOMAIN rows'[d] :
             \/ i \in DOMAIN rows[d] /\ rows'[d][i] = rows[d][i]
             \/ /\ d = Dev(p) /\ i = Len(rows[d]) + 1
                /\ rows'[d][i].version = Ver(p) /\ rows'[d][i].section = Sec(p)
      BY <1>1, <2>2 DEF AddsRow, RowAdded, NewRow
    <3>3. \A i \in DOMAIN rows[Dev(p)] : ~(/\ rows[Dev(p)][i].version = Ver(p)
                                           /\ rows[Dev(p)][i].section = Sec(p))
      BY <3>1 DEF Matching
    <3>4. SUFFICES ASSUME NEW d \in Device, NEW i \in DOMAIN rows'[d], NEW j \in DOMAIN rows'[d],
                          rows'[d][i].version = rows'[d][j].version,
                          rows'[d][i].section = rows'[d][j].section
                   PROVE  i = j
      BY DEF UniqueRows
    <3>5. CASE i \in DOMAIN rows[d] /\ j \in DOMAIN rows[d] /\ rows'[d][i] = rows[d][i]
               /\ rows'[d][j] = rows[d][j]
      BY <3>4, <3>5 DEF CheckedInv, UniqueRows
    <3> QED
      BY <3>2, <3>3, <3>4, <3>5
  <2> QED
    BY <2>1, <2>2
<1> QED
  BY <1>2, <1>3, <1>4, <1>5 DEF CheckedInv

\* Every step keeps what the updater has seen true.
LEMMA CheckedInvNext ==
    ASSUME Faultless, Inv, RowsProvenance, WriterInv, CheckedInv, [Next]_vars
    PROVE  CheckedInv'
<1>1. CASE \E p \in Updater : TRUE
  BY <1>1, StepKinds, CheckedInvQuiet, CheckedInvKey, CheckedInvEntry
<1>2. CASE NoUpdaterMoves /\ ~(\E p \in Updater : TRUE)
  BY <1>2 DEF NoUpdaterMoves, CheckedInv, RowsHaveTable, UniqueRows, SeenIsSo, StoredSoFar
<1> QED
  BY <1>1, <1>2, StepKinds

\* With one updater and no faults, what the updater has seen is so.
LEMMA CheckedInvAlways ==
    ASSUME Faultless
    PROVE  Spec => []CheckedInv
<1>1. Init => CheckedInv
  BY DEF Init, CheckedInv, RowsHaveTable, UniqueRows, SeenIsSo, StoredSoFar, Process, UpdaterStep
<1>2. Inv /\ ProvenanceInv /\ WriterInv /\ CheckedInv /\ [Next]_vars => CheckedInv'
  BY Faultless, CheckedInvNext DEF ProvenanceInv
<1>3. OneUpdater
  BY Faultless DEF Faultless
<1> QED
  BY <1>1, <1>2, <1>3, InvAlways, ProvenanceInvAlways, WriterInvAlways, PTL DEF Spec

\* With one updater and no failing statements, whatever lookups run beside it and
\* whenever it is killed, DoesSectionExist keeps the INSERT from repeating a row.
THEOREM UniqueRowsAlways ==
    ASSUME Faultless
    PROVE  Spec => []UniqueRows
<1>1. CheckedInv => UniqueRows
  BY DEF CheckedInv
<1> QED
  BY <1>1, CheckedInvAlways, Faultless, PTL

\* Of a set with one element, the least is that element.
LEMMA TheOnlyOne ==
    \A M, i : i \in M /\ i \in Nat /\ (\A j \in M : j = i)
              => (CHOOSE k \in M : \A j \in M : k <= j) = i
<1> SUFFICES ASSUME NEW M, NEW i \in M, i \in Nat, \A j \in M : j = i
             PROVE  (CHOOSE k \in M : \A j \in M : k <= j) = i
  OBVIOUS
<1>1. \E k \in M : \A j \in M : k <= j
  OBVIOUS
<1> QED
  BY <1>1

\* Success is the end of the last entry.
LEMMA SuccessStep ==
    ASSUME OneUpdater, Inv, [Next]_vars, NEW u \in DOMAIN fate, fate[u] = "running", fate'[u] = "ok"
    PROVE  \E p \in Updater : /\ SetsIV(p) \/ AddsRow(p)
                              /\ u = upd[p]
                              /\ item[p] = Len(Job(p).listing)
<1> USE DEF UpdaterStep
<1>1. fate \in Seq(Fates) /\ DOMAIN fate = 1..Len(fate) /\ Len(fate) \in Nat
  BY LenProperties DEF Inv, TypeOK, Fates
<1>2. ~NoUpdaterMoves
  BY DEF NoUpdaterMoves
<1>3. ASSUME NEW p \in Updater, NEW v \in Update, StartUpdate(p, v)
      PROVE  FALSE
  <2>1. PICK f \in Fates : fate' = Append(fate, f)
    BY <1>3 DEF StartUpdate, Fates
  <2> QED
    BY <1>1, <2>1, AppendProperties
<1>4. ASSUME NEW p \in Updater, MovesOn(p) \/ GivesUp(p) \/ SetsKey(p)
      PROVE  FALSE
  BY <1>4 DEF MovesOn, GivesUp, SetsKey
<1>5. PICK p \in Updater : SetsIV(p) \/ AddsRow(p)
  BY <1>2, <1>3, <1>4, StepKinds
<1>6. NextEntry(p)
  BY <1>5 DEF SetsIV, AddsRow
<1> QED
  BY <1>5, <1>6 DEF NextEntry, EndUpdate

\* With one updater and no failing statements, whatever lookups run beside it and
\* whoever is killed before: when UpdateDatabase returns success, each slot on its
\* page is there, with a key this update brought and the IV that goes with it.
THEOREM SuccessMeansStoredAlways ==
    ASSUME Faultless
    PROVE  Spec => SuccessMeansStored
<1> DEFINE Done == \A u \in DOMAIN fate : fate[u] = "running" /\ fate'[u] = "ok" => Stored(u)'
<1>1. ASSUME Inv, Inv', RowsProvenance, WriterInv, CheckedInv, CheckedInv', SuccessIsWhole', [Next]_vars
      PROVE  Done
  <2>1. SUFFICES ASSUME NEW u \in DOMAIN fate, fate[u] = "running", fate'[u] = "ok"
                 PROVE  Stored(u)'
    OBVIOUS
  <2>2. PICK p \in Updater : /\ SetsIV(p) \/ AddsRow(p)
                             /\ u = upd[p]
                             /\ item[p] = Len(Job(p).listing)
    BY <1>1, <2>1, SuccessStep DEF Faultless
  <2>3. /\ Dev(p) \in Device /\ Dev(p) \in tables' /\ published' = published
        /\ Job(p).listing \in Seq(Section)
        /\ DOMAIN Job(p).listing = 1..item[p]
    <3>1. pc[p] \in UpdaterStep /\ pc[p] \in {"updateIV", "insert"} /\ UNCHANGED <<tables, published>>
      BY <2>2 DEF SetsIV, AddsRow, UpdaterStep
    <3>2. Job(p) \in Update
      BY <1>1, <3>1, EntryType
    <3>3. Job(p).listing \in Seq(Section)
      BY <3>2, KeyStoreAssumption DEF Update
    <3>4. DOMAIN Job(p).listing = 1..Len(Job(p).listing)
      BY <3>3, LenProperties
    <3> QED
      BY <1>1, <2>2, <3>1, <3>3, <3>4, EntryType DEF Inv, TableBeforeWrite
  <2>4. published'[u] = Job(p) /\ Job(p).device = Dev(p) /\ Job(p).version = Ver(p)
    BY <2>2, <2>3 DEF Job, Dev, Ver
  <2>5. ASSUME NEW k \in DOMAIN published'[u].listing
        PROVE  LET job == published[u]
                   s == job.listing[k]
               IN  /\ Present(job.device, job.version, s)'
                   /\ (FirstMatch(job.device, job.version, s).key.job)' = u
                   /\ FirstMatch(job.device, job.version, s)'.iv = FirstMatch(job.device, job.version, s)'.key
    <3> DEFINE d == published[u].device
               v == published[u].version
               s == published[u].listing[k]
    <3>1. /\ k \in 1..item[p]
          /\ d' = Dev(p) /\ v' = Ver(p) /\ s' = Job(p).listing[k]
      BY <2>3, <2>4, <2>5
    <3> HIDE DEF d, v, s
    <3>2. PICK i \in DOMAIN rows'[d'] : /\ rows'[d'][i].version = v'
                                        /\ rows'[d'][i].section = s'
                                        /\ rows'[d'][i].key.job = u
      BY <1>1, <2>2, <3>1, EntriesStored DEF StoredNext
    <3>3. i \in Matching(d, v, s)' /\ \A j \in Matching(d, v, s)' : j = i
      BY <1>1, <2>3, <3>1, <3>2 DEF Matching, CheckedInv, UniqueRows
    <3>4. i \in Nat
      <4>1. rows'[d'] \in Seq(Row)
        BY <1>1, <2>3, <3>1 DEF Inv, TypeOK
      <4> QED
        BY <3>2, <4>1, LenProperties
    <3>5. FirstMatch(d, v, s)' = rows'[d'][i]
      BY <3>3, <3>4, TheOnlyOne DEF FirstMatch
    <3>6. rows'[d'][i].iv = rows'[d'][i].key
      BY <1>1, <2>1, <2>3, <3>1, <3>2 DEF SuccessIsWhole
    <3>7. /\ Present(d, v, s)'
          /\ FirstMatch(d, v, s)'.key.job = u
          /\ FirstMatch(d, v, s)'.iv = FirstMatch(d, v, s)'.key
      BY <2>3, <3>1, <3>2, <3>3, <3>5, <3>6 DEF Present
    <3> QED
      BY <3>7 DEF d, v, s
  <2> QED
    BY <2>5 DEF Stored
<1>2. /\ Inv /\ Inv' /\ ProvenanceInv /\ WriterInv /\ CheckedInv /\ CheckedInv' /\ SuccessIsWhole'
      /\ [Next]_vars
      => [Done]_vars
  BY <1>1 DEF ProvenanceInv
<1>3. OneUpdater
  BY Faultless DEF Faultless
<1> QED
  BY <1>2, <1>3, InvAlways, ProvenanceInvAlways, WriterInvAlways, CheckedInvAlways,
     SuccessIsWholeAlways, PTL DEF Spec, SuccessMeansStored

-----------------------------------------------------------------------------
(* One process, no failing statement, never killed.  Then every row is     *)
(* whole but between the two UPDATEs, nothing is written between the two   *)
(* SELECTs, and the database is the map of KeyBook.                        *)

Solo == (\A p, q \in Process : p = q) /\ MaxFaults = 0 /\ MaxCrashes = 0

WholeRows ==
    \A d \in Device : \A i \in DOMAIN rows[d] :
        rows[d][i].iv = rows[d][i].key \/ \E p \in Updater : HalfWritten(p, d, i)

IVIsStill ==
    \A p \in Reader : pc[p] = "selectKey" =>
        \A i \in Matching(want[p].device, want[p].version, want[p].section) :
            ivRead[p] = rows[want[p].device][i].iv

SoloInv == WholeRows /\ IVIsStill

\* One process is one updater.
LEMMA SoloIsFaultless == Solo => Faultless
BY DEF Solo, Faultless, OneUpdater, Process

\* Without faults and crashes no row stays half-written.
LEMMA WholeRowsNext ==
    ASSUME Solo, Inv, WriterInv, WholeRows, [Next]_vars
    PROVE  WholeRows'
<1> USE DEF Process, UpdaterStep, ReaderStep
<1>1. CASE NoUpdaterMoves
  <2>1. \A p \in Updater : \A d \in Device : \A i \in DOMAIN rows[d] :
           HalfWritten(p, d, i) => HalfWritten(p, d, i)'
    BY <1>1 DEF HalfWritten, NoUpdaterMoves, Matching, Dev, Ver, Sec, Job
  <2> QED
    BY <1>1, <2>1 DEF WholeRows, NoUpdaterMoves
<1>2. ASSUME NEW p \in Updater, (\E u \in Update : StartUpdate(p, u)) \/ MovesOn(p) \/ GivesUp(p)
      PROVE  WholeRows'
  <2>1. UNCHANGED rows /\ \A q \in Updater : q = p
    BY <1>2 DEF StartUpdate, MovesOn, GivesUp, store, Solo
  <2>2. pc[p] # "updateIV"
    <3>1. ~WriteFails(p) /\ ~(crashes < MaxCrashes)
      BY DEF Solo, WriteFails, Fails, Inv, TypeOK
    <3> QED
      BY <1>2, <3>1 DEF StartUpdate, MovesOn, GivesUp
  <2> QED
    BY <2>1, <2>2 DEF WholeRows, HalfWritten
<1>3. ASSUME NEW p \in Updater, SetsKey(p)
      PROVE  WholeRows'
  <2>1. /\ pc[p] = "updateKey" /\ pc'[p] = "updateIV"
        /\ UNCHANGED <<published, upd, item>>
        /\ \A q \in Updater : q = p
    BY <1>3 DEF SetsKey, Solo, Inv, TypeOK
  <2>2. Dev(p) \in Device
    BY <2>1, EntryType
  <2>3. ASSUME NEW d \in Device
        PROVE  /\ DOMAIN rows'[d] = DOMAIN rows[d]
               /\ \A i \in DOMAIN rows[d] :
                     /\ rows'[d][i].version = rows[d][i].version
                     /\ rows'[d][i].section = rows[d][i].section
                     /\ rows'[d][i].iv = rows[d][i].iv
                     /\ ~(d = Dev(p) /\ i \in Matching(Dev(p), Ver(p), Sec(p)))
                           => rows'[d][i].key = rows[d][i].key
    BY <1>3 DEF SetsKey, ColumnSet
  <2>4. \A d, i : d = Dev(p) /\ i \in Matching(Dev(p), Ver(p), Sec(p)) => HalfWritten(p, d, i)'
    BY <2>1, <2>2, <2>3 DEF HalfWritten, Matching, Dev, Ver, Sec, Job
  <2>5. \A d, i : ~HalfWritten(p, d, i)
    BY <2>1 DEF HalfWritten
  <2> QED
    BY <2>1, <2>3, <2>4, <2>5 DEF WholeRows
<1>4. ASSUME NEW p \in Updater, SetsIV(p)
      PROVE  WholeRows'
  <2>1. pc[p] = "updateIV" /\ \A q \in Updater : q = p
    BY <1>4 DEF SetsIV, Solo
  <2>2. ASSUME NEW d \in Device
        PROVE  /\ DOMAIN rows'[d] = DOMAIN rows[d]
               /\ \A i \in DOMAIN rows[d] :
                     /\ rows'[d][i].key = rows[d][i].key
                     /\ rows'[d][i].iv = IF HalfWritten(p, d, i) THEN Fresh(p) ELSE rows[d][i].iv
    BY <1>4, <2>1 DEF SetsIV, ColumnSet, HalfWritten
  <2>3. \A d \in Device : \A i : HalfWritten(p, d, i) => rows[d][i].key = Fresh(p)
    BY DEF HalfWritten, WriterInv, KeyIsSet
  <2> QED
    BY <2>1, <2>2, <2>3 DEF WholeRows
<1>5. ASSUME NEW p \in Updater, AddsRow(p)
      PROVE  WholeRows'
  <2>1. pc[p] = "insert" /\ (\A q \in Updater : q = p) /\ Dev(p) \in Device
    BY <1>5, EntryType DEF AddsRow, Solo
  <2>2. \A d \in Device : \A i \in DOMAIN rows'[d] :
           \/ i \in DOMAIN rows[d] /\ rows'[d][i] = rows[d][i]
           \/ rows'[d][i].iv = rows'[d][i].key
    BY <1>5, <2>1 DEF AddsRow, RowAdded, NewRow
  <2> QED
    BY <2>1, <2>2 DEF WholeRows, HalfWritten
<1> QED
  BY <1>1, <1>2, <1>3, <1>4, <1>5, StepKinds

\* Nothing is written while the only process is between its SELECTs.
LEMMA IVIsStillNext ==
    ASSUME Solo, Inv, UniqueRows, IVIsStill, [Next]_vars
    PROVE  IVIsStill'
<1> USE DEF Process, UpdaterStep, ReaderStep
<1> SUFFICES ASSUME NEW q \in Reader, pc'[q] = "selectKey",
                    NEW i \in Matching(want[q].device, want[q].version, want[q].section)'
             PROVE  ivRead'[q] = rows'[want'[q].device][i].iv
  BY DEF IVIsStill
<1>1. IVNext(q) /\ pc[q] \in ReaderStep /\ want'[q] = want[q]
  BY LookupKinds DEF LookupNext, IVNext
<1>2. UNCHANGED rows
  BY <1>1, StepKinds
     DEF Solo, NoUpdaterMoves, StartUpdate, MovesOn, GivesUp, SetsKey, SetsIV, AddsRow
<1>3. i \in Matching(want[q].device, want[q].version, want[q].section)
  BY <1>1, <1>2 DEF Matching
<1>4. CASE pc[q] = "selectKey" /\ ivRead'[q] = ivRead[q]
  BY <1>1, <1>2, <1>3, <1>4 DEF IVIsStill
<1>5. CASE Found(q) /\ ivRead'[q] = FoundRow(q).iv
  <2>1. want[q].device \in Device
    BY <1>1, FoundRowType DEF Slot
  <2>2. PICK j \in Matching(want[q].device, want[q].version, want[q].section) :
           FoundRow(q) = rows[want[q].device][j]
    BY <1>3, <2>1, FirstMatchIsFirst DEF FoundRow, Inv
  <2>3. i = j
    BY <1>3, <2>1 DEF Matching, UniqueRows
  <2> QED
    BY <1>1, <1>2, <1>5, <2>2, <2>3
<1> QED
  BY <1>1, <1>4, <1>5 DEF IVNext
\* With one process, no faults and no crashes, pairs are written and read whole.
LEMMA SoloInvAlways ==
    ASSUME Solo
    PROVE  Spec => []SoloInv
<1>1. Init => SoloInv
  BY DEF Init, SoloInv, WholeRows, IVIsStill, Process
<1>2. Inv /\ WriterInv /\ CheckedInv /\ SoloInv /\ [Next]_vars => SoloInv'
  BY Solo, WholeRowsNext, IVIsStillNext DEF SoloInv, CheckedInv
<1>3. Faultless /\ OneUpdater
  BY Solo, SoloIsFaultless DEF Faultless
<1> QED
  BY <1>1, <1>2, <1>3, InvAlways, WriterInvAlways, CheckedInvAlways, PTL DEF Spec

\* What the map holds for a slot is the IV of its only row.
BookRight ==
    \A s \in Slot :
        /\ \A i \in Matching(s.device, s.version, s.section) :
              BookOf[s] = [key |-> rows[s.device][i].iv, iv |-> rows[s.device][i].iv]
        /\ Matching(s.device, s.version, s.section) = {} => BookOf[s] = NoValue

\* Where rows are unique and tables hold them, BookOf is what the only row says.
LEMMA BookIsRight == Inv /\ RowsHaveTable /\ UniqueRows => BookRight
<1> SUFFICES ASSUME Inv, RowsHaveTable, UniqueRows, NEW s \in Slot
             PROVE  /\ \A i \in Matching(s.device, s.version, s.section) :
                          BookOf[s] = [key |-> rows[s.device][i].iv, iv |-> rows[s.device][i].iv]
                    /\ Matching(s.device, s.version, s.section) = {} => BookOf[s] = NoValue
  BY DEF BookRight
<1> DEFINE d == s.device
           M == Matching(s.device, s.version, s.section)
<1>1. d \in Device
  BY DEF Slot
<1>2. ASSUME NEW i \in M
      PROVE  BookOf[s] = [key |-> rows[d][i].iv, iv |-> rows[d][i].iv]
  <2>1. Present(s.device, s.version, s.section)
    BY <1>1, <1>2 DEF Present, RowsHaveTable, Matching
  <2>2. PICK j \in M : FirstMatch(s.device, s.version, s.section) = rows[d][j]
    BY <1>1, <1>2, FirstMatchIsFirst DEF Inv
  <2>3. i = j
    BY <1>1, <1>2 DEF Matching, UniqueRows
  <2> QED
    BY <2>1, <2>2, <2>3 DEF BookOf
<1>3. M = {} => BookOf[s] = NoValue
  BY DEF BookOf, Present
<1> QED
  BY <1>2, <1>3

\* The map is the same when every row has the same slot and IV.
LEMMA SameBook ==
    ASSUME Inv, BookRight, BookRight', NEW B \in SUBSET Slot,
           \A s \in B : /\ DOMAIN rows'[s.device] = DOMAIN rows[s.device]
                        /\ \A i \in DOMAIN rows[s.device] :
                              /\ rows'[s.device][i].version = rows[s.device][i].version
                              /\ rows'[s.device][i].section = rows[s.device][i].section
                              /\ i \in Matching(s.device, s.version, s.section)
                                    => rows'[s.device][i].iv = rows[s.device][i].iv
    PROVE  \A s \in B : BookOf'[s] = BookOf[s]
<1> SUFFICES ASSUME NEW s \in B
             PROVE  BookOf'[s] = BookOf[s]
  OBVIOUS
<1>1. Matching(s.device, s.version, s.section)' = Matching(s.device, s.version, s.section)
  BY DEF Matching
<1>2. CASE Matching(s.device, s.version, s.section) = {}
  BY <1>1, <1>2 DEF BookRight
<1>3. ASSUME NEW i \in Matching(s.device, s.version, s.section)
      PROVE  BookOf'[s] = BookOf[s]
  <2>1. rows'[s.device][i].iv = rows[s.device][i].iv
    BY <1>3 DEF Matching
  <2>2. BookOf[s] = [key |-> rows[s.device][i].iv, iv |-> rows[s.device][i].iv]
    BY <1>3 DEF BookRight
  <2>3. BookOf'[s] = [key |-> rows'[s.device][i].iv, iv |-> rows'[s.device][i].iv]
    BY <1>1, <1>3 DEF BookRight
  <2> QED
    BY <2>1, <2>2, <2>3
<1> QED
  BY <1>2, <1>3

\* BookOf is a function of slots, now and after the step.
LEMMA BookIsFunction ==
    /\ BookOf = [s \in Slot |-> BookOf[s]]
    /\ BookOf' = [s \in Slot |-> BookOf'[s]]
BY DEF BookOf

(* The refinement, step by step. *)

\* The empty database is the empty map.
LEMMA BookInit == Init => Book!Init
<1> SUFFICES ASSUME Init PROVE Book!Init
  OBVIOUS
<1>1. BookOf = [s \in Slot |-> NoValue]
  BY DEF Init, BookOf, Present
<1>2. AnswerOf = [c \in Reader |-> [slot |-> NoValue]]
  BY DEF Init, AnswerOf
<1> QED
  BY <1>1, <1>2 DEF Book!Init, Book!Nothing

\* What does not touch the rows' IVs does not touch the map.
LEMMA BookStays ==
    ASSUME Inv, BookRight, BookRight',
           \/ UNCHANGED rows
           \/ \E p \in Updater : SetsKey(p)
    PROVE  BookOf' = BookOf
<1>1. \A d \in Device :
         /\ DOMAIN rows'[d] = DOMAIN rows[d]
         /\ \A i \in DOMAIN rows[d] :
               /\ rows'[d][i].version = rows[d][i].version
               /\ rows'[d][i].section = rows[d][i].section
               /\ rows'[d][i].iv = rows[d][i].iv
  BY DEF SetsKey, ColumnSet
<1>2. \A s \in Slot : s.device \in Device
  BY DEF Slot
<1>3. \A s \in Slot : BookOf'[s] = BookOf[s]
  BY <1>1, <1>2, SameBook
<1> QED
  BY <1>3, BookIsFunction

\* The second UPDATE of an entry, or its INSERT, stores the pair.
LEMMA EntryIsPut ==
    ASSUME Solo, Inv, WriterInv, CheckedInv, BookRight, BookRight',
           NEW p \in Updater, SetsIV(p) \/ AddsRow(p)
    PROVE  \E s \in Slot : BookOf' = [BookOf EXCEPT ![s] = [key |-> Fresh(p), iv |-> Fresh(p)]]
<1> DEFINE d == Dev(p)
           M == Matching(Dev(p), Ver(p), Sec(p))
<1>1. /\ pc[p] \in {"updateIV", "insert"}
      /\ d \in Device /\ Ver(p) \in Version /\ Sec(p) \in Section
  BY EntryType DEF SetsIV, AddsRow, UpdaterStep
<1>2. PICK s \in Slot : s = [device |-> Dev(p), version |-> Ver(p), section |-> Sec(p)]
  BY <1>1 DEF Slot
<1>3. \A t \in Slot : t # s => ~(t.device = Dev(p) /\ t.version = Ver(p) /\ t.section = Sec(p))
  BY <1>2 DEF Slot
<1>4. BookOf'[s] = [key |-> Fresh(p), iv |-> Fresh(p)]
  <2>1. \E i \in DOMAIN rows'[d] : /\ rows'[d][i].version = Ver(p)
                                   /\ rows'[d][i].section = Sec(p)
                                   /\ rows'[d][i].iv = Fresh(p)
    <3>1. CASE SetsIV(p)
      <4>1. PICK i \in M : TRUE
        BY <3>1 DEF SetsIV, CheckedInv, SeenIsSo
      <4> QED
        BY <1>1, <3>1, <4>1 DEF SetsIV, ColumnSet, Matching
    <3>2. CASE AddsRow(p)
      BY <1>1, <3>2 DEF AddsRow, RowAdded, NewRow
    <3> QED
      BY <3>1, <3>2
  <2>2. PICK i \in DOMAIN rows'[d] : /\ rows'[d][i].version = Ver(p)
                                     /\ rows'[d][i].section = Sec(p)
                                     /\ rows'[d][i].iv = Fresh(p)
    BY <2>1
  <2>3. i \in Matching(s.device, s.version, s.section)'
    BY <1>2, <2>2 DEF Matching
  <2> QED
    BY <1>2, <2>2, <2>3 DEF BookRight
<1>5. \A t \in Slot \ {s} : BookOf'[t] = BookOf[t]
  <2>1. CASE SetsIV(p)
    <3>1. ASSUME NEW t \in Slot \ {s}
          PROVE  /\ DOMAIN rows'[t.device] = DOMAIN rows[t.device]
                 /\ \A i \in DOMAIN rows[t.device] :
                       /\ rows'[t.device][i].version = rows[t.device][i].version
                       /\ rows'[t.device][i].section = rows[t.device][i].section
                       /\ i \in Matching(t.device, t.version, t.section)
                             => rows'[t.device][i].iv = rows[t.device][i].iv
      <4>1. t.device \in Device
        BY DEF Slot
      <4>2. \A i : ~(t.device = Dev(p) /\ i \in M /\ i \in Matching(t.device, t.version, t.section))
        BY <1>3 DEF Matching
      <4> QED
        BY <2>1, <4>1, <4>2 DEF SetsIV, ColumnSet
    <3> QED
      BY <3>1, SameBook
  <2>2. CASE AddsRow(p)
    <3>1. SUFFICES ASSUME NEW t \in Slot \ {s}
                   PROVE  BookOf'[t] = BookOf[t]
      OBVIOUS
    <3>2. t.device \in Device
      BY DEF Slot
    <3>3. /\ \A i \in DOMAIN rows[t.device] :
                i \in DOMAIN rows'[t.device] /\ rows'[t.device][i] = rows[t.device][i]
          /\ \A i \in DOMAIN rows'[t.device] \ DOMAIN rows[t.device] :
                /\ t.device = Dev(p)
                /\ rows'[t.device][i].version = Ver(p)
                /\ rows'[t.device][i].section = Sec(p)
      BY <1>1, <2>2, <3>2 DEF AddsRow, RowAdded, NewRow
    <3>4. Matching(t.device, t.version, t.section)' = Matching(t.device, t.version, t.section)
      BY <1>3, <3>3 DEF Matching
    <3>5. CASE Matching(t.device, t.version, t.section) = {}
      BY <3>4, <3>5 DEF BookRight
    <3>6. ASSUME NEW i \in Matching(t.device, t.version, t.section)
          PROVE  BookOf'[t] = BookOf[t]
      <4>1. rows'[t.device][i].iv = rows[t.device][i].iv
        BY <3>3, <3>6 DEF Matching
      <4>2. BookOf[t] = [key |-> rows[t.device][i].iv, iv |-> rows[t.device][i].iv]
        BY <3>6 DEF BookRight
      <4>3. BookOf'[t] = [key |-> rows'[t.device][i].iv, iv |-> rows'[t.device][i].iv]
        BY <3>4, <3>6 DEF BookRight
      <4> QED
        BY <4>1, <4>2, <4>3
    <3> QED
      BY <3>5, <3>6
  <2> QED
    BY <2>1, <2>2
<1>6. BookOf' = [BookOf EXCEPT ![s] = [key |-> Fresh(p), iv |-> Fresh(p)]]
  BY <1>4, <1>5, BookIsFunction
<1> QED
  BY <1>6

\* What a lookup returns is the pair the map holds for the slot it was asked.
LEMMA AnswerIsGot ==
    ASSUME Solo, Inv, Inv', WriterInv, CheckedInv, SoloInv, BookRight, NEW p \in Reader,
           pc[p] = "selectKey", Found(p), UNCHANGED rows,
           reply' = [reply EXCEPT ![p] =
                        [slot |-> want[p], key |-> FoundRow(p).key, iv |-> ivRead[p]]]
    PROVE  /\ want[p] \in Slot
           /\ BookOf[want[p]] # NoValue
           /\ AnswerOf' = [AnswerOf EXCEPT ![p] = [slot |-> want[p], pair |-> BookOf[want[p]]]]
<1> DEFINE d == want[p].device
           M == Matching(d, want[p].version, want[p].section)
<1>1. want[p] \in Slot /\ d \in Device /\ M # {}
  BY FoundRowType DEF ReaderStep, Slot, Found, Present
<1>2. PICK i \in M : FoundRow(p) = rows[d][i]
  BY <1>1, FirstMatchIsFirst DEF FoundRow, Inv
<1>3. rows[d][i].iv = rows[d][i].key
  <2>1. \A q \in Updater : pc[q] # "updateIV"
    BY DEF Solo, Process
  <2> QED
    BY <1>1, <2>1 DEF SoloInv, WholeRows, HalfWritten, Matching
<1>4. ivRead[p] = rows[d][i].iv
  BY DEF SoloInv, IVIsStill
<1>5. BookOf[want[p]] = [key |-> rows[d][i].iv, iv |-> rows[d][i].iv]
  BY <1>1 DEF BookRight
<1>6. BookOf[want[p]] = [key |-> FoundRow(p).key, iv |-> ivRead[p]]
  BY <1>2, <1>3, <1>4, <1>5
<1>7. BookOf[want[p]] # NoValue
  <2>1. DOMAIN BookOf[want[p]] = {"key", "iv"} /\ DOMAIN NoValue = {"value"}
    BY <1>5 DEF NoValue
  <2> QED
    BY <2>1
<1>8. AnswerOf' = [AnswerOf EXCEPT ![p] = [slot |-> want[p], pair |-> BookOf[want[p]]]]
  <2>1. reply \in [Reader -> Reply \cup {NoReply}]
    BY DEF Inv, TypeOK
  <2>2. PICK a : a = [slot |-> want[p], key |-> FoundRow(p).key, iv |-> ivRead[p]]
    OBVIOUS
  <2>3. a # NoReply
    <3>1. DOMAIN a = {"slot", "key", "iv"} /\ DOMAIN NoReply = {"reply"}
      BY <2>2 DEF NoReply
    <3> QED
      BY <3>1
  <2>4. reply'[p] = a /\ \A q \in Reader \ {p} : reply'[q] = reply[q]
    BY <2>1, <2>2
  <2>5. [slot |-> a.slot, pair |-> [key |-> a.key, iv |-> a.iv]]
           = [slot |-> want[p], pair |-> BookOf[want[p]]]
    BY <1>6, <2>2
  <2>6. AnswerOf' = [q \in Reader |->
            IF reply'[q] = NoReply THEN [slot |-> NoValue]
            ELSE [slot |-> reply'[q].slot, pair |-> [key |-> reply'[q].key, iv |-> reply'[q].iv]]]
    BY DEF AnswerOf
  <2>7. AnswerOf'[p] = [slot |-> want[p], pair |-> BookOf[want[p]]]
    BY <2>3, <2>4, <2>5, <2>6
  <2>8. \A q \in Reader \ {p} : AnswerOf'[q] = AnswerOf[q]
    BY <2>4 DEF AnswerOf
  <2>9. AnswerOf = [q \in Reader |-> AnswerOf[q]] /\ AnswerOf' = [q \in Reader |-> AnswerOf'[q]]
    BY DEF AnswerOf
  <2> QED
    BY <2>7, <2>8, <2>9
<1> QED
  BY <1>1, <1>7, <1>8

\* A lookup that begins withdraws the answer of the last.
LEMMA LookupIsAsked ==
    ASSUME Inv, NEW p \in Reader, reply' = [reply EXCEPT ![p] = NoReply]
    PROVE  AnswerOf' = [AnswerOf EXCEPT ![p] = [slot |-> NoValue]]
<1>1. reply'[p] = NoReply /\ \A q \in Reader \ {p} : reply'[q] = reply[q]
  BY DEF Inv, TypeOK
<1>2. AnswerOf'[p] = [slot |-> NoValue] /\ \A q \in Reader \ {p} : AnswerOf'[q] = AnswerOf[q]
  BY <1>1 DEF AnswerOf
<1>3. AnswerOf = [q \in Reader |-> AnswerOf[q]] /\ AnswerOf' = [q \in Reader |-> AnswerOf'[q]]
  BY DEF AnswerOf
<1> QED
  BY <1>2, <1>3

\* The pairs an updater stores are pairs of the map.
LEMMA FreshIsPair ==
    ASSUME Inv, NEW p \in Updater, pc[p] \in UpdaterStep
    PROVE  Fresh(p) \in [job: 1..MaxJobs, item: Place]
<1>1. /\ upd[p] \in 1..MaxJobs
      /\ Job(p).listing \in Listing
      /\ item[p] \in 1..Len(Job(p).listing)
  <2>1. upd[p] \in 1..Len(published) /\ item[p] \in 1..Len(Job(p).listing)
    BY DEF Inv, Running, Process
  <2>2. Len(published) \in Nat /\ Len(published) <= MaxJobs
    BY LenProperties DEF Inv, TypeOK
  <2> QED
    BY <2>1, <2>2, EntryType, Bounds DEF Update
<1>2. DOMAIN Job(p).listing = 1..Len(Job(p).listing)
  BY <1>1, KeyStoreAssumption, LenProperties
<1> QED
  BY <1>1, <1>2 DEF Fresh, Place

\* Every step is a step of KeyBook, or none.
LEMMA BookStep ==
    ASSUME Solo, Inv, Inv', WriterInv, CheckedInv, SoloInv, BookRight, BookRight', [Next]_vars
    PROVE  Book!Next \/ UNCHANGED <<BookOf, AnswerOf>>
<1> USE DEF UpdaterStep, ReaderStep
<1>1. ASSUME UNCHANGED reply, UNCHANGED rows
      PROVE  UNCHANGED <<BookOf, AnswerOf>>
  <2>1. BookOf' = BookOf
    BY <1>1, BookStays
  <2>2. AnswerOf' = AnswerOf
    BY <1>1 DEF AnswerOf
  <2> QED
    BY <2>1, <2>2
<1>2. ASSUME NEW p \in Updater, UNCHANGED reply, SetsKey(p)
      PROVE  UNCHANGED <<BookOf, AnswerOf>>
  <2>1. BookOf' = BookOf
    BY <1>2, BookStays
  <2>2. AnswerOf' = AnswerOf
    BY <1>2 DEF AnswerOf
  <2> QED
    BY <2>1, <2>2
<1>3. ASSUME NEW p \in Updater, UNCHANGED reply, SetsIV(p) \/ AddsRow(p)
      PROVE  Book!Next
  <2>1. PICK s \in Slot : BookOf' = [BookOf EXCEPT ![s] = [key |-> Fresh(p), iv |-> Fresh(p)]]
    BY <1>3, EntryIsPut
  <2>2. AnswerOf' = AnswerOf
    BY <1>3 DEF AnswerOf
  <2>3. Fresh(p) \in [job: 1..MaxJobs, item: Place]
    BY <1>3, FreshIsPair DEF SetsIV, AddsRow
  <2>4. Book!Put(s, [key |-> Fresh(p), iv |-> Fresh(p)])
    BY <2>1, <2>2 DEF Book!Put
  <2>5. [key |-> Fresh(p), iv |-> Fresh(p)]
           \in {[key |-> v, iv |-> v] : v \in [job: 1..MaxJobs, item: Place]}
    BY <2>3
  <2> QED
    BY <2>4, <2>5 DEF Book!Next
<1>4. ASSUME NEW p \in Updater, UpdateStep(p) \/ \E u \in Update : StartUpdate(p, u)
      PROVE  Book!Next \/ UNCHANGED <<BookOf, AnswerOf>>
  <2>1. UNCHANGED reply
    BY <1>4 DEF UpdateStep, StartUpdate, DoesDeviceExist, InsertTable, DoesSectionExist,
         UpdateKey, UpdateIV, InsertRow
  <2> QED
    BY <1>1, <1>2, <1>3, <2>1, StepKinds DEF NoUpdaterMoves, StartUpdate, MovesOn, GivesUp, store
<1>5. ASSUME NEW p \in Reader, NEW slot \in Slot, StartLookup(p, slot)
      PROVE  Book!Next
  <2>1. BookOf' = BookOf
    BY <1>5, BookStays DEF StartLookup, store
  <2>2. AnswerOf' = [AnswerOf EXCEPT ![p] = [slot |-> NoValue]]
    BY <1>5, LookupIsAsked DEF StartLookup
  <2> QED
    BY <2>1, <2>2 DEF Book!Next, Book!Ask, Book!Nothing
<1>6. ASSUME NEW p \in Reader, SelectIV(p)
      PROVE  UNCHANGED <<BookOf, AnswerOf>>
  BY <1>1, <1>6 DEF SelectIV, store
<1>7. ASSUME NEW p \in Reader, SelectKey(p)
      PROVE  Book!Next \/ UNCHANGED <<BookOf, AnswerOf>>
  <2>1. pc[p] = "selectKey" /\ UNCHANGED rows
    BY <1>7 DEF SelectKey, store
  <2>2. CASE UNCHANGED reply
    BY <1>1, <2>1, <2>2
  <2>3. CASE Found(p) /\ reply' = [reply EXCEPT ![p] =
                 [slot |-> want[p], key |-> FoundRow(p).key, iv |-> ivRead[p]]]
    <3>1. /\ want[p] \in Slot
          /\ BookOf[want[p]] # NoValue
          /\ AnswerOf' = [AnswerOf EXCEPT ![p] = [slot |-> want[p], pair |-> BookOf[want[p]]]]
      BY <2>1, <2>3, AnswerIsGot
    <3>2. BookOf' = BookOf
      BY <2>1, BookStays
    <3>3. Book!Get(p, want[p])
      BY <3>1, <3>2 DEF Book!Get
    <3> QED
      BY <3>1, <3>3 DEF Book!Next
  <2> QED
    BY <1>7, <2>2, <2>3 DEF SelectKey
<1>8. ASSUME NEW p \in Process, Crash(p)
      PROVE  UNCHANGED <<BookOf, AnswerOf>>
  BY <1>1, <1>8 DEF Crash, store
<1>9. CASE UNCHANGED vars
  BY <1>1, <1>9 DEF vars
<1> QED
  BY <1>4, <1>5, <1>6, <1>7, <1>8, <1>9 DEF Next, LookupStep

\* Used by one process, when no statement fails and the process is not killed, the
\* database is KeyBook's map: UpdateDatabase stores each entry of a page, and
\* RetrieveKeyAndIV reads a pair, as if in one step.
THEOREM ImplementsKeyBook ==
    ASSUME Solo
    PROVE  Spec => BookSpec
<1>1. Init => Book!Init
  BY BookInit
<1>2. /\ Inv /\ Inv' /\ WriterInv /\ CheckedInv /\ SoloInv /\ BookRight /\ BookRight' /\ [Next]_vars
      => [Book!Next]_<<BookOf, AnswerOf>>
  BY Solo, BookStep
<1>3. Inv /\ CheckedInv => BookRight
  BY BookIsRight DEF CheckedInv
<1>4. Faultless /\ OneUpdater
  BY Solo, SoloIsFaultless DEF Faultless
<1> QED
  BY <1>1, <1>2, <1>3, <1>4, Solo, InvAlways, WriterInvAlways, CheckedInvAlways, SoloInvAlways, PTL
     DEF Spec, BookSpec, Book!Spec, Book!bookVars
=============================================================================
