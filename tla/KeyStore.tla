------------------------------ MODULE KeyStore ------------------------------
(***************************************************************************)
(* The key database: sqlite3/IMG3_Sqlite3.cpp.                             *)
(*                                                                         *)
(* One SQLite file is shared by every run of the program.  A run of the    *)
(* "update" command stores the keys and IVs of one page (UpdateDatabase);  *)
(* a run of "decrypt" or "patch" reads the pair of one firmware section    *)
(* (RetrieveKeyAndIV).  No transaction is ever opened, so each SQL         *)
(* statement commits on its own: a statement is one atomic step here, and  *)
(* the statements of different processes interleave.                       *)
(*                                                                         *)
(* The n-th update carries fresh values: the key and the IV it brings for  *)
(* the i-th entry of its page are both written [job |-> n, item |-> i].    *)
(***************************************************************************)
EXTENDS Integers, Sequences, FiniteSets

CONSTANTS
    Updater,    \* processes that run the update command
    Reader,     \* processes that look keys up
    Device, Version, Build, Section,
    Oversized,  \* sections whose entry lacks a value or exceeds MAX_SQL_COMMAND_LENGTH
    NeedsQuotes,\* devices whose name is a table name only between quotes
    Listing,    \* the sequences of sections a page can list
    MaxJobs,    \* bound: updates started
    MaxFaults,  \* bound: statements that fail with no other process about
    MaxCrashes  \* bound: processes killed in the middle of a command

Process == Updater \cup Reader

ASSUME KeyStoreAssumption ==
    /\ Oversized \subseteq Section
    /\ NeedsQuotes \subseteq Device
    /\ Listing \subseteq Seq(Section)
    /\ {MaxJobs, MaxFaults, MaxCrashes} \subseteq Nat

VARIABLES
    tables,     \* devices that have a table
    rows,       \* device -> its rows in rowid order
    published,  \* the updates started so far
    fate,       \* how each of them ended
    pc,         \* process -> the statement it executes next
    upd, item,  \* updater -> its update, the entry it has reached
    want,       \* reader -> what it looks up
    ivRead,     \* reader -> *iv, read by the first of its two SELECTs
    reply,      \* reader -> what its last lookup returned
    faults, crashes

store == <<tables, rows>>
vars == <<tables, rows, published, fate, pc, upd, item, want, ivRead, reply,
          faults, crashes>>

Slot == [device: Device, version: Version, section: Section]
Value == [job: 1..MaxJobs, item: Nat]
Row == [build: Build, version: Version, section: Section, key: Value, iv: Value]
Update == [device: Device, version: Version, build: Build, listing: Listing]
NoSlot == [slot |-> "none"]
NoValue == [value |-> "none"]
NoReply == [reply |-> "none"]
Reply == [slot: Slot, key: Value, iv: Value]

UpdaterStep == {"device", "create", "section", "updateKey", "updateIV", "insert"}
ReaderStep == {"selectIV", "selectKey"}

-----------------------------------------------------------------------------
(* What the SQL statements see and do. *)

Matching(d, v, s) ==
    {i \in DOMAIN rows[d] : rows[d][i].version = v /\ rows[d][i].section = s}

\* The row sqlite3_step returns first: the lowest rowid.
FirstMatch(d, v, s) ==
    rows[d][CHOOSE i \in Matching(d, v, s) : \A j \in Matching(d, v, s) : i <= j]

Present(d, v, s) == d \in tables /\ Matching(d, v, s) # {}

\* Mutant: the WHERE clause of UPDATE forgets the section.
SetColumn_anySection(d, v, s, column, x) ==
    rows' = [rows EXCEPT ![d] =
                [i \in 1..Len(rows[d]) |->
                    IF rows[d][i].version = v
                    THEN [rows[d][i] EXCEPT ![column] = x]
                    ELSE rows[d][i]]]

\* Mutant: the two UPDATEs are executed in the other order.
SetColumn_swapped(d, v, s, column, x) ==
    LET other == IF column = "key" THEN "iv" ELSE "key" IN
    rows' = [rows EXCEPT ![d] =
                [i \in 1..Len(rows[d]) |->
                    IF i \in Matching(d, v, s)
                    THEN [rows[d][i] EXCEPT ![other] = x]
                    ELSE rows[d][i]]]

\* UPDATE ... SET column='x' WHERE Version=... AND Section=...: every matching row.
SetColumn(d, v, s, column, x) ==
    rows' = [rows EXCEPT ![d] =
                [i \in 1..Len(rows[d]) |->
                    IF i \in Matching(d, v, s)
                    THEN [rows[d][i] EXCEPT ![column] = x]
                    ELSE rows[d][i]]]

(* A statement can fail: with SQLITE_BUSY when a process that may hold a   *)
(* conflicting lock is in the middle of its command (no busy handler is    *)
(* installed), or for want of disk or memory.                              *)
Fails(p, rivals) ==
    \/ /\ \E q \in rivals \ {p} : pc[q] # "idle"
       /\ UNCHANGED faults
    \/ /\ faults < MaxFaults
       /\ faults' = faults + 1

SelectFails(p) == Fails(p, Updater)
WriteFails(p) == Fails(p, Process)

-----------------------------------------------------------------------------
Init ==
    /\ tables = {}
    /\ rows = [d \in Device |-> <<>>]
    /\ published = <<>>
    /\ fate = <<>>
    /\ pc = [p \in Process |-> "idle"]
    /\ upd = [p \in Updater |-> 0]
    /\ item = [p \in Updater |-> 0]
    /\ want = [p \in Reader |-> NoSlot]
    /\ ivRead = [p \in Reader |-> NoValue]
    /\ reply = [p \in Reader |-> NoReply]
    /\ faults = 0
    /\ crashes = 0

Goto(p, step) == pc' = [pc EXCEPT ![p] = step]

(* ----- UpdateDatabase and InsertDecryptionInfo ------------------------- *)

Job(p) == published[upd[p]]
Dev(p) == Job(p).device
Ver(p) == Job(p).version
Sec(p) == Job(p).listing[item[p]]
Fresh(p) == [job |-> upd[p], item |-> item[p]]

EndUpdate(p, result) ==
    /\ Goto(p, "idle")
    /\ fate' = [fate EXCEPT ![upd[p]] = result]
    /\ UNCHANGED item

\* Mutant: the loop does not advance.
NextEntry_stuck(p) ==
    \/ /\ item[p] < Len(Job(p).listing)
       /\ Goto(p, "device")
       /\ UNCHANGED <<item, fate>>
    \/ /\ item[p] = Len(Job(p).listing)
       /\ EndUpdate(p, "ok")

\* Mutant: the loop ends before the last entry.
NextEntry_short(p) ==
    \/ /\ item[p] < Len(Job(p).listing) - 1
       /\ item' = [item EXCEPT ![p] = @ + 1]
       /\ Goto(p, "device")
       /\ UNCHANGED fate
    \/ /\ item[p] >= Len(Job(p).listing) - 1
       /\ EndUpdate(p, "ok")

\* The loop of UpdateDatabase: the next entry, or success after the last.
NextEntry(p) ==
    \/ /\ item[p] < Len(Job(p).listing)
       /\ item' = [item EXCEPT ![p] = @ + 1]
       /\ Goto(p, "device")
       /\ UNCHANGED fate
    \/ /\ item[p] = Len(Job(p).listing)
       /\ EndUpdate(p, "ok")

\* A run of the update command opens the database and enters the loop; a page
\* without entries succeeds at once.
StartUpdate(p, u) ==
    /\ pc[p] = "idle"
    /\ Len(published) < MaxJobs
    /\ published' = Append(published, u)
    /\ upd' = [upd EXCEPT ![p] = Len(published) + 1]
    /\ \/ /\ u.listing # <<>>                                 \* opened
          /\ Goto(p, "device")
          /\ item' = [item EXCEPT ![p] = 1]
          /\ fate' = Append(fate, "running")
          /\ UNCHANGED faults
       \/ /\ u.listing = <<>>
          /\ item' = [item EXCEPT ![p] = 0]
          /\ fate' = Append(fate, "ok")
          /\ UNCHANGED <<pc, faults>>
       \/ /\ faults < MaxFaults                               \* sqlite3_open_v2 fails
          /\ faults' = faults + 1
          /\ item' = [item EXCEPT ![p] = 0]
          /\ fate' = Append(fate, "failed")
          /\ UNCHANGED pc
    /\ UNCHANGED <<store, want, ivRead, reply, crashes>>

\* DoesDeviceExist, after the checks that open InsertDecryptionInfo.  A failed
\* SELECT reads as "no such table".
DoesDeviceExist(p) ==
    /\ pc[p] = "device"
    /\ \/ /\ Sec(p) \in Oversized
          /\ EndUpdate(p, "failed")
          /\ UNCHANGED faults
       \/ /\ Sec(p) \notin Oversized
          /\ \/ /\ Goto(p, IF Dev(p) \in tables THEN "section" ELSE "create")
                /\ UNCHANGED faults
             \/ /\ SelectFails(p)
                /\ Goto(p, "create")
          /\ UNCHANGED <<item, fate>>
    /\ UNCHANGED <<store, published, upd, want, ivRead, reply, crashes>>

\* Mutant: the result of CREATE TABLE is ignored.
InsertTable_unchecked(p) ==
    /\ pc[p] = "create"
    /\ Goto(p, "insert")
    /\ \/ tables' = tables \cup {Dev(p)} /\ UNCHANGED faults
       \/ WriteFails(p) /\ UNCHANGED tables
    /\ UNCHANGED <<rows, published, fate, upd, item, want, ivRead, reply, crashes>>

\* Mutant: the table is dropped and created again.
InsertTable_dropping(p) ==
    /\ pc[p] = "create"
    /\ tables' = tables \cup {Dev(p)}
    /\ rows' = [rows EXCEPT ![Dev(p)] = <<>>]
    /\ Goto(p, "insert")
    /\ UNCHANGED <<published, fate, upd, item, want, ivRead, reply, faults, crashes>>

\* InsertTable: CREATE TABLE fails when the table is there after all.
InsertTable(p) ==
    /\ pc[p] = "create"
    /\ \/ /\ Dev(p) \notin tables
          /\ tables' = tables \cup {Dev(p)}
          /\ Goto(p, "insert")
          /\ UNCHANGED <<item, fate, faults>>
       \/ /\ Dev(p) \in tables
          /\ EndUpdate(p, "failed")
          /\ UNCHANGED <<tables, faults>>
       \/ /\ WriteFails(p)
          /\ EndUpdate(p, "failed")
          /\ UNCHANGED tables
    /\ UNCHANGED <<rows, published, upd, want, ivRead, reply, crashes>>

\* Mutant: SQLITE_ROW is not told from SQLITE_DONE.
DoesSectionExist_blind(p) ==
    /\ pc[p] = "section"
    /\ Goto(p, "insert")
    /\ UNCHANGED <<store, published, fate, upd, item, want, ivRead, reply, faults, crashes>>

\* A failed SELECT reads as "no such row".
DoesSectionExist(p) ==
    /\ pc[p] = "section"
    /\ \/ /\ Goto(p, IF Present(Dev(p), Ver(p), Sec(p)) THEN "updateKey" ELSE "insert")
          /\ UNCHANGED faults
       \/ /\ SelectFails(p)
          /\ Goto(p, "insert")
    /\ UNCHANGED <<store, published, fate, upd, item, want, ivRead, reply, crashes>>

\* The UPDATE template does not quote the table name, the other templates do.
UpdateKey(p) ==
    /\ pc[p] = "updateKey"
    /\ \/ /\ Dev(p) \notin NeedsQuotes
          /\ SetColumn(Dev(p), Ver(p), Sec(p), "key", Fresh(p))
          /\ Goto(p, "updateIV")
          /\ UNCHANGED <<item, fate, faults>>
       \/ /\ Dev(p) \in NeedsQuotes
          /\ EndUpdate(p, "failed")
          /\ UNCHANGED <<rows, faults>>
       \/ /\ WriteFails(p)
          /\ EndUpdate(p, "failed")
          /\ UNCHANGED rows
    /\ UNCHANGED <<tables, published, upd, want, ivRead, reply, crashes>>

\* Mutant: the result of the second UPDATE is ignored.
UpdateIV_unchecked(p) ==
    /\ pc[p] = "updateIV"
    /\ \/ /\ SetColumn(Dev(p), Ver(p), Sec(p), "iv", Fresh(p))
          /\ UNCHANGED faults
       \/ WriteFails(p) /\ UNCHANGED rows
    /\ NextEntry(p)
    /\ UNCHANGED <<tables, published, upd, want, ivRead, reply, crashes>>

\* Mutant: the second UPDATE sets the key again.
UpdateIV_copied(p) ==
    /\ pc[p] = "updateIV"
    /\ SetColumn(Dev(p), Ver(p), Sec(p), "key", Fresh(p))
    /\ NextEntry(p)
    /\ UNCHANGED <<tables, published, upd, want, ivRead, reply, faults, crashes>>

UpdateIV(p) ==
    /\ pc[p] = "updateIV"
    /\ \/ /\ SetColumn(Dev(p), Ver(p), Sec(p), "iv", Fresh(p))
          /\ NextEntry(p)
          /\ UNCHANGED faults
       \/ /\ WriteFails(p)
          /\ EndUpdate(p, "failed")
          /\ UNCHANGED rows
    /\ UNCHANGED <<tables, published, upd, want, ivRead, reply, crashes>>

NewRow(p) == [build |-> Job(p).build, version |-> Ver(p), section |-> Sec(p),
              key |-> Fresh(p), iv |-> Fresh(p)]

InsertRow(p) ==
    /\ pc[p] = "insert"
    /\ \/ /\ rows' = [rows EXCEPT ![Dev(p)] = Append(@, NewRow(p))]
          /\ NextEntry(p)
          /\ UNCHANGED faults
       \/ /\ WriteFails(p)
          /\ EndUpdate(p, "failed")
          /\ UNCHANGED rows
    /\ UNCHANGED <<tables, published, upd, want, ivRead, reply, crashes>>

(* ----- RetrieveKeyAndIV ------------------------------------------------ *)

StartLookup(p, slot) ==
    /\ pc[p] = "idle"
    /\ Goto(p, "selectIV")
    /\ want' = [want EXCEPT ![p] = slot]
    /\ ivRead' = [ivRead EXCEPT ![p] = NoValue]
    /\ reply' = [reply EXCEPT ![p] = NoReply]
    /\ UNCHANGED <<store, published, fate, upd, item, faults, crashes>>

Found(p) == Present(want[p].device, want[p].version, want[p].section)
FoundRow(p) == FirstMatch(want[p].device, want[p].version, want[p].section)

SelectIV(p) ==
    /\ pc[p] = "selectIV"
    /\ \/ /\ Found(p)
          /\ ivRead' = [ivRead EXCEPT ![p] = FoundRow(p).iv]
          /\ Goto(p, "selectKey")
          /\ UNCHANGED faults
       \/ /\ ~Found(p)
          /\ Goto(p, "idle")
          /\ UNCHANGED <<ivRead, faults>>
       \/ /\ SelectFails(p)
          /\ Goto(p, "idle")
          /\ UNCHANGED ivRead
    /\ UNCHANGED <<store, published, fate, upd, item, want, reply, crashes>>

\* Mutant: a failed SELECT of the key returns 0 all the same.
SelectKey_unchecked(p) ==
    /\ pc[p] = "selectKey"
    /\ Goto(p, "idle")
    /\ \/ /\ Found(p)
          /\ reply' = [reply EXCEPT ![p] =
                 [slot |-> want[p], key |-> FoundRow(p).key, iv |-> ivRead[p]]]
          /\ UNCHANGED faults
       \/ /\ SelectFails(p)
          /\ reply' = [reply EXCEPT ![p] =
                 [slot |-> want[p], key |-> NoValue, iv |-> ivRead[p]]]
    /\ UNCHANGED <<store, published, fate, upd, item, want, ivRead, crashes>>

SelectKey(p) ==
    /\ pc[p] = "selectKey"
    /\ Goto(p, "idle")
    /\ \/ /\ Found(p)
          /\ reply' = [reply EXCEPT ![p] =
                 [slot |-> want[p], key |-> FoundRow(p).key, iv |-> ivRead[p]]]
          /\ UNCHANGED faults
       \/ /\ ~Found(p)
          /\ UNCHANGED <<reply, faults>>
       \/ /\ SelectFails(p)
          /\ UNCHANGED reply
    /\ UNCHANGED <<store, published, fate, upd, item, want, ivRead, crashes>>

(* ----- A process is killed; what its statements committed stays. ------- *)

Crash(p) ==
    /\ pc[p] # "idle"
    /\ crashes < MaxCrashes
    /\ crashes' = crashes + 1
    /\ Goto(p, "idle")
    /\ fate' = IF pc[p] \in UpdaterStep
               THEN [fate EXCEPT ![upd[p]] = "killed"] ELSE fate
    /\ UNCHANGED <<store, published, upd, item, want, ivRead, reply, faults>>

-----------------------------------------------------------------------------
UpdateStep(p) ==
    \/ DoesDeviceExist(p) \/ InsertTable(p) \/ DoesSectionExist(p)
    \/ UpdateKey(p) \/ UpdateIV(p) \/ InsertRow(p)

LookupStep(p) == SelectIV(p) \/ SelectKey(p)

Next ==
    \/ \E p \in Updater :
          \/ \E u \in Update : StartUpdate(p, u)
          \/ UpdateStep(p)
    \/ \E p \in Reader :
          \/ \E slot \in Slot : StartLookup(p, slot)
          \/ LookupStep(p)
    \/ \E p \in Process : Crash(p)

Spec == Init /\ [][Next]_vars

\* A process that is running keeps being scheduled; nobody has to start one.
Fairness ==
    /\ \A p \in Updater : WF_vars(UpdateStep(p))
    /\ \A p \in Reader : WF_vars(LookupStep(p))

FairSpec == Spec /\ Fairness

-----------------------------------------------------------------------------
TypeOK ==
    /\ tables \subseteq Device
    /\ rows \in [Device -> Seq(Row)]
    /\ published \in Seq(Update)
    /\ Len(published) <= MaxJobs
    /\ fate \in Seq({"running", "ok", "failed", "killed"})
    /\ Len(fate) = Len(published)
    /\ pc \in [Process -> {"idle"} \cup UpdaterStep \cup ReaderStep]
    /\ upd \in [Updater -> 0..MaxJobs]
    /\ item \in [Updater -> Nat]
    /\ want \in [Reader -> Slot \cup {NoSlot}]
    /\ ivRead \in [Reader -> Value \cup {NoValue}]
    /\ reply \in [Reader -> Reply \cup {NoReply}]
    /\ faults \in 0..MaxFaults
    /\ crashes \in 0..MaxCrashes

(* ----- Properties ------------------------------------------------------ *)

\* Entry v was published for exactly this slot.
PublishedFor(v, d, ver, s) ==
    /\ v.job \in DOMAIN published
    /\ published[v.job].device = d
    /\ published[v.job].version = ver
    /\ v.item \in DOMAIN published[v.job].listing
    /\ published[v.job].listing[v.item] = s

\* Whatever interleaves, fails or crashes, every key and every IV in the
\* database, and every one a lookup returned, was published for that device,
\* version and section: the UPDATE and SELECT statements of
\* InsertDecryptionInfo and RetrieveKeyAndIV never cross two sections.
Provenance ==
    /\ \A d \in Device : \A i \in DOMAIN rows[d] :
          LET r == rows[d][i] IN
          /\ PublishedFor(r.key, d, r.version, r.section)
          /\ PublishedFor(r.iv, d, r.version, r.section)
    /\ \A p \in Reader : reply[p] # NoReply =>
          LET a == reply[p] IN
          /\ PublishedFor(a.key, a.slot.device, a.slot.version, a.slot.section)
          /\ PublishedFor(a.iv, a.slot.device, a.slot.version, a.slot.section)

\* "We will have created the table previously" (InsertDecryptionInfo): an INSERT
\* or an UPDATE is only ever executed on a table that exists, even though the
\* table may have been found missing by a SELECT that failed, or created
\* meanwhile by another process.
TableBeforeWrite ==
    \A p \in Updater :
        pc[p] \in {"section", "insert", "updateKey", "updateIV"} => Dev(p) \in tables

\* a was published no later than b.
NotNewer(a, b) ==
    \/ a.job < b.job
    \/ a.job = b.job /\ a.item <= b.item

\* The updater writes the key first and the lookup reads it last.  So with one
\* updater, however lookups overlap it, and whatever fails or is killed, no IV is
\* stored with, or returned with, a key older than itself.
KeyNotOlderThanIV ==
    /\ \A d \in Device : \A i \in DOMAIN rows[d] : NotNewer(rows[d][i].iv, rows[d][i].key)
    /\ \A p \in Reader : reply[p] # NoReply => NotNewer(reply[p].iv, reply[p].key)

\* An update that reported success leaves no half-written pair: a row whose key
\* comes from a successful update has the IV of the same entry.
SuccessIsWhole ==
    \A d \in Device : \A i \in DOMAIN rows[d] :
        LET r == rows[d][i] IN fate[r.key.job] = "ok" => r.iv = r.key

\* At most one row per version and section: the check DoesSectionExist makes
\* keeps the INSERT from shadowing or repeating a row.
UniqueRows ==
    \A d \in Device : \A i, j \in DOMAIN rows[d] :
        /\ rows[d][i].version = rows[d][j].version
        /\ rows[d][i].section = rows[d][j].section
        => i = j

\* When an update reports success, a lookup of any slot on its page finds a key
\* this update brought, and the IV that goes with it.
Stored(u) ==
    \A i \in DOMAIN published[u].listing :
        LET job == published[u]
            s == job.listing[i]
        IN  /\ Present(job.device, job.version, s)
            /\ FirstMatch(job.device, job.version, s).key.job = u
            /\ FirstMatch(job.device, job.version, s).iv = FirstMatch(job.device, job.version, s).key

SuccessMeansStored ==
    [][\A u \in DOMAIN fate : fate[u] = "running" /\ fate'[u] = "ok" => Stored(u)']_vars

\* "We come here if either the table didn't exist, or the row didn't exist": a
\* step that adds a row adds the first for its version and section.
InsertOnlyWhenAbsent ==
    [][\A d \in Device : Len(rows'[d]) > Len(rows[d]) =>
          LET r == rows'[d][Len(rows'[d])] IN ~Present(d, r.version, r.section)]_vars

\* An update that fails or is killed loses the rest of its page, never what was
\* there: no step removes a row, moves it to another slot, or takes a value back
\* to an older one.
NothingLost ==
    [][\A d \in Device :
          /\ Len(rows'[d]) >= Len(rows[d])
          /\ \A i \in DOMAIN rows[d] :
                /\ rows'[d][i].version = rows[d][i].version
                /\ rows'[d][i].section = rows[d][i].section
                /\ NotNewer(rows[d][i].key, rows'[d][i].key)
                /\ NotNewer(rows[d][i].iv, rows'[d][i].iv)]_vars

\* Every command that starts ends: no statement waits for another process.
EveryRunEnds == \A p \in Process : pc[p] # "idle" ~> pc[p] = "idle"
=============================================================================
