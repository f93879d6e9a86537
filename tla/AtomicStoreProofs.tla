------------------------- MODULE AtomicStoreProofs -------------------------
(***************************************************************************)
(* The PostgreSQL store, with its transactions, locks and clients, is an   *)
(* atomic store to all that use it: StoreUse implements AtomicStore.       *)
(* Every commit is one step of AtomicStore because of what each open       *)
(* transaction has ready: the device's row with the next number and        *)
(* nothing else changed, the result with the status of its operation, the  *)
(* rows of the bundle that were read so far and no others.                 *)
(***************************************************************************)
EXTENDS StoreUseProofs

(* A step of c changes no row that the transaction of another client has. *)
Spares(c) ==
  \A t \in {"devices", "operations"} : \A d \in Clients \ {c} : \A k \in DOMAIN tx[d][t] :
    k \in DOMAIN db[t] => k \in DOMAIN db'[t] /\ db'[t][k] = db[t][k]

LEMMA UnchangedSpares ==
  ASSUME NEW c, UNCHANGED db
  PROVE  Spares(c)
BY Zenon DEF Spares

LEMMA CommittedSpares ==
  ASSUME NEW c \in Clients, Locks, Committed(c)
  PROVE  Spares(c)
<1> SUFFICES ASSUME NEW t \in {"devices", "operations"}, NEW d \in Clients \ {c}, NEW k \in DOMAIN tx[d][t],
                    k \in DOMAIN db[t]
             PROVE  k \in DOMAIN db'[t] /\ db'[t][k] = db[t][k]
  BY Zenon DEF Spares
<1>1. k \notin DOMAIN tx[c][t]
  BY Zenon DEF Locks
<1>2. t \in Tables
  BY Zenon DEF Tables
<1>3. QED
  BY <1>1, <1>2, Zenon DEF Committed

(* A device that is registered or whose counter is taken: the one row.     *)
LEMMA RegisterEffect ==
  ASSUME Shape, NEW c \in Apis, ApiRegister(c)
  PROVE  \/ UNCHANGED db
         \/ /\ Target(c) \notin DOMAIN db.devices
            /\ DOMAIN db'.devices = DOMAIN db.devices \cup {Target(c)}
            /\ db'.devices[Target(c)] = NewDevice
            /\ \A e \in DOMAIN db.devices : db'.devices[e] = db.devices[e]
            /\ \A t \in Tables \ {"devices"} : db'[t] = db[t]
<1>1. CASE Target(c) \in DOMAIN db.devices
  BY <1>1, Zenon DEF ApiRegister, RegisterDevice
<1>2. CASE Target(c) \notin DOMAIN db.devices
  <2>1. db' = [db EXCEPT !.devices = Put(db.devices, Target(c), NewDevice)]
    BY <1>2, Zenon DEF ApiRegister, RegisterDevice
  <2>2. /\ db'.devices = Put(db.devices, Target(c), NewDevice)
        /\ \A t \in Tables \ {"devices"} : db'[t] = db[t]
    BY <2>1, Zenon DEF Shape, Tables
  <2>3. QED
    BY <1>2, <2>2, Zenon DEF Put
<1>3. QED
  BY <1>1, <1>2, Zenon

LEMMA SignEffect ==
  ASSUME Basis, NEW c \in Apis, ApiSign(c)
  PROVE  /\ Free(c, "devices", Target(c)) /\ Target(c) \in DOMAIN db.devices
         /\ DOMAIN db'.devices = DOMAIN db.devices
         /\ db'.devices[Target(c)] =
              [db.devices[Target(c)] EXCEPT !.Counter = db.devices[Target(c)].Counter + 1]
         /\ \A e \in DOMAIN db.devices \ {Target(c)} : db'.devices[e] = db.devices[e]
         /\ \A t \in Tables \ {"devices"} : db'[t] = db[t]
<1>1. at[c] = "sign" /\ Free(c, "devices", Target(c))
  BY Zenon DEF ApiSign, NextEUICCPackageCounter
<1>2. Target(c) \in DOMAIN db.devices /\ db.devices[Target(c)] \in DeviceRow
  BY <1>1, Zenon DEF Basis, Holding, ApiHolds, WellFormed
<1>3. db' = [db EXCEPT !.devices[Target(c)].Counter = db.devices[Target(c)].Counter + 1]
  BY Zenon DEF ApiSign, NextEUICCPackageCounter
<1>4. QED
  BY <1>1, <1>2, <1>3, Zenon DEF Basis, Shape, Tables

LEMMA ApiSpares ==
  ASSUME Basis, NEW c \in Apis, Api(c)
  PROVE  Spares(c)
<1>0. c \in Clients /\ Shape /\ Locks
  BY ClientsAssumption, Zenon DEF Basis, Holding
<1>1. CASE ApiRegister(c)
  <2>1. CASE UNCHANGED db
    BY <2>1, UnchangedSpares, Zenon
  <2>2. CASE /\ \A e \in DOMAIN db.devices : e \in DOMAIN db'.devices /\ db'.devices[e] = db.devices[e]
             /\ db'.operations = db.operations
    BY <2>2, Zenon DEF Spares
  <2>3. QED
    BY <1>0, <1>1, <2>1, <2>2, RegisterEffect, Zenon DEF Tables
<1>2. CASE ApiSign(c)
  <2>1. db'.operations = db.operations
    BY <1>2, SignEffect, Zenon DEF Tables
  <2>2. \A d \in Clients \ {c} : Target(c) \notin DOMAIN tx[d].devices
    BY <1>2, SignEffect, Zenon DEF Free
  <2>3. \A e \in DOMAIN db.devices \ {Target(c)} : e \in DOMAIN db'.devices /\ db'.devices[e] = db.devices[e]
    BY <1>2, SignEffect, Zenon
  <2>4. QED
    BY <2>1, <2>2, <2>3, Zenon DEF Spares
<1>3. CASE ApiNumber(c) \/ ApiID(c) \/ ApiRow(c)
  BY <1>3, UnchangedSpares, Zenon DEF ApiNumber, ApiID, EnqueueNumber, EnqueueID, ApiRow, Rollback, EnqueueRow
<1>4. CASE ApiCommit(c)
  BY <1>0, <1>4, CommitEffect, CommittedSpares, Zenon DEF ApiCommit
<1>5. QED
  BY <1>1, <1>2, <1>3, <1>4, Zenon DEF Api

LEMMA RecordSpares ==
  ASSUME Basis, Record
  PROVE  Spares(Recorder)
<1>0. Recorder \in Clients /\ Shape /\ Locks
  BY ClientsAssumption, Zenon DEF Basis, Holding
<1>1. CASE RecordCommit
  BY <1>0, <1>1, CommitEffect, CommittedSpares, Zenon DEF RecordCommit
<1>2. CASE ~RecordCommit
  BY <1>2, UnchangedSpares, Zenon DEF Record, RecordBegin, RecordSelect, RecordInsert, RecordResult,
     RecordRefused, Rollback, RecordUpdate, RecordStatus, storeVars
<1>3. QED
  BY <1>1, <1>2, Zenon

LEMMA ImportSpares ==
  ASSUME Basis, Import \/ ImportAborts
  PROVE  Spares(Importer)
<1>0. Importer \in Clients /\ Shape /\ Locks
  BY ClientsAssumption, Zenon DEF Basis, Holding
<1>1. CASE ImportCommit
  BY <1>0, <1>1, CommitEffect, CommittedSpares, Zenon DEF ImportCommit
<1>2. CASE ImportValidate \/ ImportSync
  BY <1>2, UnchangedSpares, Zenon DEF ImportValidate, ImportSync, syncImportSequences, storeVars
<1>3. CASE ImportRow
  BY <1>0, <1>3, ImportRowCases, ImportFailsStep, WrittenStep, UnchangedSpares, Zenon DEF Keep
<1>4. CASE ImportAborts
  BY <1>0, <1>4, ImportFailsStep, UnchangedSpares, Zenon DEF ImportAborts, Keep
<1>5. QED
  BY <1>1, <1>2, <1>3, <1>4, Zenon DEF Import

-----------------------------------------------------------------------------
(* An enqueue has the row of its device, with the next number.             *)
Numbered(c) ==
  Enqueueing(c) => tx[c].devices[Target(c)] = [db.devices[Target(c)] EXCEPT !.Sequence = job[c].Number + 1]

LEMMA NumberedKept ==
  ASSUME Basis, NEW c \in Clients, NEW d \in Apis, d # c, Only(c), Spares(c), Numbered(d)
  PROVE  Numbered(d)'
<1>1. d \in Clients \ {c} /\ ApiHolds(d)
  BY ClientsAssumption, Zenon DEF Basis, Holding
<1>2. at'[d] = at[d] /\ job'[d] = job[d] /\ tx'[d] = tx[d]
  BY <1>1, Zenon DEF Only
<1>3. Target(d)' = Target(d) /\ Enqueueing(d)' = Enqueueing(d)
  BY <1>2, Zenon DEF Target, Enqueueing
<1>4. Enqueueing(d) => db'.devices[Target(d)] = db.devices[Target(d)]
  BY <1>1, Zenon DEF Spares, ApiHolds
<1>5. QED
  BY <1>2, <1>3, <1>4, Zenon DEF Numbered

LEMMA NumberedOwn ==
  ASSUME Basis, NEW c \in Apis, Numbered(c), Api(c)
  PROVE  Numbered(c)'
<1>0. c \in Clients /\ Shape /\ ApiHolds(c)
  BY ClientsAssumption, Zenon DEF Basis, Holding
<1>1. CASE at'[c] \notin {"id", "row", "commit"}
  BY <1>1, Zenon DEF Numbered, Enqueueing
<1>2. CASE ApiRegister(c) \/ ApiSign(c) \/ ApiCommit(c)
  <2>1. at'[c] \in {"sign", "number", "register", "accepted"}
    BY <1>0, <1>2, Zenon DEF ApiRegister, ApiSign, ApiCommit, Goto, Shape
  <2>2. QED
    BY <1>1, <2>1, Zenon
<1>3. CASE ApiNumber(c)
  <2> DEFINE eid == Target(c)
             row == [db.devices[eid] EXCEPT !.Sequence = db.devices[eid].Sequence + 1]
  <2>1. db' = db /\ Wrote(c, "devices", eid, row)
    BY <1>0, <1>3, WriteEffect, Zenon DEF ApiNumber, EnqueueNumber, Tables
  <2>2. job'[c].Number = db.devices[eid].Sequence /\ job'[c].Targets = job[c].Targets
    BY <1>0, <1>3, Zenon DEF ApiNumber, Shape, Fields
  <2>3. Target(c)' = eid
    BY <2>2, Zenon DEF Target
  <2>4. tx'[c].devices[eid] = row
    BY <2>1, Zenon DEF Wrote
  <2>5. QED
    BY <2>1, <2>2, <2>3, <2>4, Zenon DEF Numbered
<1>4. CASE ApiID(c)
  <2>1. tx' = tx /\ db' = db /\ at[c] = "id"
    BY <1>4, Zenon DEF ApiID, EnqueueID
  <2>2. job'[c].Number = job[c].Number /\ job'[c].Targets = job[c].Targets
    BY <1>0, <1>4, Zenon DEF ApiID, Shape, Fields
  <2>3. QED
    BY <2>1, <2>2, Zenon DEF Numbered, Enqueueing, Target
<1>5. CASE ApiRow(c) /\ InsertFails(c, Target(c), job[c].Number, job[c].ID)
  <2>1. at'[c] = "failed"
    BY <1>0, <1>5, Zenon DEF ApiRow, Goto, Shape
  <2>2. QED
    BY <1>1, <2>1, Zenon
<1>6. CASE ApiRow(c) /\ ~InsertFails(c, Target(c), job[c].Number, job[c].ID)
  <2>1. db' = db /\ job' = job /\ at[c] = "row"
    BY <1>6, Zenon DEF ApiRow, EnqueueRow
  <2>2. \E key, value : Wrote(c, "operations", key, value)
    BY <1>0, <1>6, WriteEffect, Zenon DEF ApiRow, EnqueueRow, Tables
  <2>3. tx'[c].devices = tx[c].devices
    BY <2>2, Zenon DEF Wrote, Tables
  <2>4. QED
    BY <2>1, <2>3, Zenon DEF Numbered, Enqueueing, Target
<1>7. QED
  BY <1>2, <1>3, <1>4, <1>5, <1>6, Zenon DEF Api

-----------------------------------------------------------------------------
(* A result has the status that the one operation with its id gets.        *)
Marked(status) ==
  \E k \in DOMAIN db.operations :
    /\ DOMAIN tx[Recorder].operations = {k}
    /\ tx[Recorder].operations[k] = [db.operations[k] EXCEPT !.Status = status]

Settling ==
  /\ Selected => job[Recorder].Status \in {"done", "failed"}
  /\ at[Recorder] \in {"status", "commit"} =>
       tx[Recorder].results[job[Recorder].Key] =
         [OperationID |-> job[Recorder].ID, Status |-> job[Recorder].Status]
  /\ at[Recorder] = "commit" => Marked(job[Recorder].Status)

LEMMA SettlingKept ==
  ASSUME Basis, NEW c \in Clients, c # Recorder, Only(c), Spares(c), Settling
  PROVE  Settling'
<1>1. Recorder \in Clients \ {c}
  BY ClientsAssumption, Zenon
<1>2. at'[Recorder] = at[Recorder] /\ job'[Recorder] = job[Recorder] /\ tx'[Recorder] = tx[Recorder]
  BY <1>1, Zenon DEF Only
<1>3. ASSUME NEW status, Marked(status)
      PROVE  Marked(status)'
  <2>1. PICK k \in DOMAIN db.operations :
          /\ DOMAIN tx[Recorder].operations = {k}
          /\ tx[Recorder].operations[k] = [db.operations[k] EXCEPT !.Status = status]
    BY <1>3, Zenon DEF Marked
  <2>2. k \in DOMAIN db'.operations /\ db'.operations[k] = db.operations[k]
    BY <1>1, <2>1, Zenon DEF Spares
  <2>3. QED
    BY <1>2, <2>1, <2>2, Zenon DEF Marked
<1>4. QED
  BY <1>2, <1>3, Zenon DEF Settling, Selected

LEMMA SettlingOwn ==
  ASSUME Basis, Settling, Record
  PROVE  Settling'
<1>0. Recorder \in Clients /\ Shape /\ RecorderHolds
  BY ClientsAssumption, Zenon DEF Basis, Holding
<1>1. CASE at'[Recorder] \in {"idle", "select"}
  BY <1>1, Zenon DEF Settling, Selected
<1>2. CASE RecordBegin \/ RecordRefused \/ RecordCommit
  <2>1. at'[Recorder] \in {"idle", "select"}
    BY <1>0, <1>2, Zenon DEF RecordBegin, RecordRefused, RecordCommit, Goto, Shape
  <2>2. QED
    BY <1>1, <2>1, Zenon
<1>3. CASE RecordSelect
  <2>1. CASE RecordKey(job[Recorder].ID) = {}
    BY <1>0, <1>1, <1>3, <2>1, Zenon DEF RecordSelect, Goto, Shape
  <2>2. CASE RecordKey(job[Recorder].ID) # {}
    <3>1. PICK key, status :
            /\ status \in {"done", "failed"}
            /\ job' = [job EXCEPT ![Recorder].Key = key, ![Recorder].Status = status]
      BY <1>3, <2>2, Zenon DEF RecordSelect
    <3>2. job'[Recorder].Status \in {"done", "failed"}
      BY <1>0, <3>1, Zenon DEF Shape, Fields
    <3>3. at'[Recorder] = "result"
      BY <1>0, <1>3, <2>2, Zenon DEF RecordSelect, Goto, Shape
    <3>4. QED
      BY <3>2, <3>3, Zenon DEF Settling
  <2>3. QED
    BY <2>1, <2>2, Zenon
<1>4. CASE RecordInsert
  <2> DEFINE row == [OperationID |-> job[Recorder].ID, Status |-> job[Recorder].Status]
  <2>1. UNCHANGED job /\ at[Recorder] = "result" /\ at'[Recorder] = "status"
    BY <1>0, <1>4, Zenon DEF RecordInsert, RecordResult, Goto, Shape
  <2>2. Wrote(Recorder, "results", job[Recorder].Key, row)
    BY <1>0, <1>4, WriteEffect, Zenon DEF RecordInsert, RecordResult, Tables
  <2>3. tx'[Recorder].results[job[Recorder].Key] = row
    BY <2>2, Zenon DEF Wrote
  <2>4. QED
    BY <2>1, <2>3, Zenon DEF Settling, Selected
<1>5. CASE RecordUpdate
  <2>1. UNCHANGED <<db, job>> /\ at[Recorder] = "status" /\ at'[Recorder] = "commit"
    BY <1>0, <1>5, Zenon DEF RecordUpdate, RecordStatus, Goto, Shape
  <2>2. PICK key \in RecordKey(job[Recorder].ID) :
          Write(Recorder, "operations", key, [db.operations[key] EXCEPT !.Status = job[Recorder].Status])
    BY <1>5, Zenon DEF RecordUpdate, RecordStatus
  <2> DEFINE row == [db.operations[key] EXCEPT !.Status = job[Recorder].Status]
  <2>3. Wrote(Recorder, "operations", key, row)
    BY <1>0, <2>2, WriteEffect, Zenon DEF Tables
  <2>4. key \in DOMAIN db.operations
    BY <2>2, Zenon DEF RecordKey
  <2>5. DOMAIN tx'[Recorder].operations = {key} /\ tx'[Recorder].operations[key] = row
    BY <1>0, <2>1, <2>3, Zenon DEF Wrote, RecorderHolds
  <2>6. tx'[Recorder].results = tx[Recorder].results
    BY <2>3, Zenon DEF Wrote, Tables
  <2>7. Marked(job[Recorder].Status)'
    BY <2>1, <2>4, <2>5, Zenon DEF Marked
  <2>8. QED
    BY <2>1, <2>6, <2>7, Zenon DEF Settling, Selected
<1>6. QED
  BY <1>2, <1>3, <1>4, <1>5, Zenon DEF Record

-----------------------------------------------------------------------------
(* The rows of a bundle, by the table they go to. *)
TableOf(file) == IF file \in {"devices", "operations"} THEN file ELSE "rows"
FilesOf(table) == {file \in FileNames : TableOf(file) = table}

LEMMA FilesOfTables ==
  /\ FilesOf("devices") = {"devices"}
  /\ FilesOf("operations") = {"operations"}
  /\ FilesOf("rows") = FileNames \ {"devices", "operations"}
  /\ \A file \in FileNames : TableOf(file) \in {"devices", "operations", "rows"} /\ file \in FilesOf(TableOf(file))
BY Zenon DEF FilesOf, TableOf, FileNames

LEMMA BundledRow ==
  ASSUME NEW files, NEW file \in files, NEW r \in Range(Payload[file])
  PROVE  [Key |-> Atomic!Key(file, r), Value |-> Atomic!Value(file, r)] \in Atomic!Bundled(files)
<1>1. r \in Atomic!Range(Accepted(situation)[1][file])
  BY Zenon DEF Payload, Range, Atomic!Range
<1> DEFINE Of(f) == {[Key |-> Atomic!Key(f, x), Value |-> Atomic!Value(f, x)] :
                       x \in Atomic!Range(Accepted(situation)[1][f])}
<1>2. [Key |-> Atomic!Key(file, r), Value |-> Atomic!Value(file, r)] \in Of(file)
  BY <1>1, Zenon
<1>3. Atomic!Bundled(files) = UNION {Of(f) : f \in files}
  BY Zenon DEF Atomic!Bundled
<1> HIDE DEF Of
<1>4. QED
  BY <1>2, <1>3, Zenon

LEMMA BundledOnly ==
  ASSUME NEW files, NEW b \in Atomic!Bundled(files)
  PROVE  \E file \in files : \E r \in Range(Payload[file]) :
           b = [Key |-> Atomic!Key(file, r), Value |-> Atomic!Value(file, r)]
BY Zenon DEF Atomic!Bundled, Payload, Range, Atomic!Range

(* All rows of the bundle are among those to write. *)
Has(left, entry) == \E i \in DOMAIN left : left[i] = entry
Covers(payload, left) ==
  \A file \in FileNames : \A r \in Range(payload[file]) : Has(left, [Table |-> file, Row |-> r])

LEMMA JoinHas ==
  ASSUME NEW E, NEW s \in Seq(E), NEW t \in Seq(E), NEW entry, Has(s, entry) \/ Has(t, entry)
  PROVE  Has(s \o t, entry)
<1>1. CASE Has(s, entry)
  <2>1. PICK i \in DOMAIN s : s[i] = entry
    BY <1>1, Zenon DEF Has
  <2>2. i \in DOMAIN (s \o t) /\ (s \o t)[i] = s[i]
    OBVIOUS
  <2>3. QED
    BY <2>1, <2>2, Zenon DEF Has
<1>2. CASE Has(t, entry)
  <2>1. PICK i \in DOMAIN t : t[i] = entry
    BY <1>2, Zenon DEF Has
  <2>2. i + Len(s) \in DOMAIN (s \o t) /\ (s \o t)[i + Len(s)] = t[i]
    OBVIOUS
  <2>3. QED
    BY <2>1, <2>2, Zenon DEF Has
<1>3. QED
  BY <1>1, <1>2, Zenon

LEMMA ImportOrderCovers ==
  ASSUME NEW payload, \A name \in FileNames : payload[name] \in Seq(Range(payload[name]))
  PROVE  Covers(payload, InOrder(ImportOrder, payload))
<1> DEFINE T(name) == TableRows(name, payload)
           t5 == T("operations") \o T("notifications")
           t4 == T("associated_eim") \o t5
           t3 == T("profile_state") \o t4
           t2 == T("euicc_state") \o t3
           all == T("devices") \o t2
           S == Seq(Entries(payload))
<1>0. InOrder(ImportOrder, payload) = all
  BY Zenon DEF InOrder, ImportOrder
<1>1. \A name \in FileNames : T(name) \in S /\ \A r \in Range(payload[name]) : Has(T(name), [Table |-> name, Row |-> r])
  BY TableRowsFit, Zenon DEF Has
<1>2. \A s, t \in S : \A entry : Has(s, entry) \/ Has(t, entry) => Has(s \o t, entry)
  BY JoinHas, Zenon
<1>3. \A s, t \in S : s \o t \in S
  OBVIOUS
<1>4. FileNames = {"devices", "euicc_state", "profile_state", "associated_eim", "operations", "notifications"}
  BY Zenon DEF FileNames
<1> HIDE DEF T, S
<1>5. t5 \in S /\ t4 \in S /\ t3 \in S /\ t2 \in S
  BY <1>1, <1>3, <1>4, Zenon
<1>6. ASSUME NEW file \in FileNames, NEW r \in Range(payload[file])
      PROVE  Has(all, [Table |-> file, Row |-> r])
  <2> DEFINE entry == [Table |-> file, Row |-> r]
  <2>1. Has(T(file), entry) /\ \A name \in FileNames : T(name) \in S
    BY <1>1, Zenon
  <2> HIDE DEF entry
  <2>2. file \in {"operations", "notifications"} => Has(t5, entry)
    BY <1>2, <1>4, <2>1, Zenon
  <2>3. CASE file = "devices"
    <3> HIDE DEF t2
    <3>1. T("devices") \in S /\ Has(T("devices"), entry)
      BY <2>1, <2>3, Zenon
    <3>2. QED
      BY <1>2, <1>5, <3>1, Zenon DEF entry
  <2>4. CASE file # "devices"
    <3> HIDE DEF t5
    <3>1. file \in {"associated_eim", "operations", "notifications"} => Has(t4, entry)
      BY <1>2, <1>4, <1>5, <2>1, <2>2, Zenon
    <3> HIDE DEF t4
    <3>2. file \in {"profile_state", "associated_eim", "operations", "notifications"} => Has(t3, entry)
      BY <1>2, <1>4, <1>5, <2>1, <3>1, Zenon
    <3> HIDE DEF t3
    <3>3. Has(t2, entry)
      BY <1>2, <1>4, <1>5, <2>1, <2>4, <3>2, Zenon
    <3> HIDE DEF t2
    <3>4. QED
      BY <1>2, <1>4, <1>5, <2>1, <3>3, Zenon DEF entry
  <2>5. QED
    BY <2>3, <2>4, Zenon DEF entry
<1>7. QED
  BY <1>0, <1>6, Zenon DEF Covers

-----------------------------------------------------------------------------
(* An import has rows of the bundle, and all but those that are left. *)
Part(table) == Atomic!Bundled(FilesOf(table))

Merging ==
  at[Importer] \in {"rows", "commit"} =>
    /\ \A t \in {"devices", "operations", "rows"} : \A k \in DOMAIN tx[Importer][t] :
         [Key |-> k, Value |-> tx[Importer][t][k]] \in Part(t)
    /\ \A file \in FileNames : \A r \in Range(Payload[file]) :
         \/ Has(job[Importer].Left, [Table |-> file, Row |-> r])
         \/ Atomic!Key(file, r) \in DOMAIN tx[Importer][TableOf(file)]

LEMMA PartKept ==
  ASSUME situation' = situation
  PROVE  Payload' = Payload /\ \A t : Part(t)' = Part(t)
<1>1. Payload' = Payload
  BY Zenon DEF Payload
<1>2. ASSUME NEW t
      PROVE  Part(t)' = Part(t)
  BY DEF Part, Atomic!Bundled
<1>3. QED
  BY <1>1, <1>2, Zenon

LEMMA MergingKept ==
  ASSUME Merging, at'[Importer] = at[Importer], job'[Importer] = job[Importer], tx'[Importer] = tx[Importer],
         situation' = situation
  PROVE  Merging'
BY PartKept, Zenon DEF Merging

(* The row that an import writes is the first one left. *)
LEMMA WrittenRow ==
  ASSUME Basis, Written, at[Importer] = "rows", job[Importer].Left # <<>>
  PROVE  LET file == job[Importer].Left[1].Table
             r == job[Importer].Left[1].Row
         IN /\ file \in FileNames /\ r \in Range(Payload[file])
            /\ job[Importer].Left[1] = [Table |-> file, Row |-> r]
            /\ Wrote(Importer, TableOf(file), Atomic!Key(file, r), Atomic!Value(file, r))
<1> DEFINE left == job[Importer].Left
           file == left[1].Table
           r == left[1].Row
<1>0. Importer \in Clients /\ Shape
  BY ClientsAssumption, Zenon DEF Basis
<1>1. left \in Seq(Entries(Payload)) /\ Fits(Payload, left) /\ left # <<>>
  BY Zenon DEF Basis, Leftover
<1>2. 1 \in DOMAIN left /\ left[1] \in Entries(Payload)
  BY <1>1
<1>3. file \in FileNames /\ left[1] = [Table |-> file, Row |-> r]
  BY <1>2, Zenon DEF Entries
<1>4. r \in Range(Payload[file])
  BY <1>1, <1>2, Zenon DEF Fits
<1>5. Write(Importer, TableOf(file), Atomic!Key(file, r), Atomic!Value(file, r))
  <2>1. CASE file = "devices"
    BY <2>1, Zenon DEF Written, importDevice, TableOf, Atomic!Key, Atomic!Value
  <2>2. CASE file = "operations"
    BY <2>2, Zenon DEF Written, importOperation, TableOf, Atomic!Key, Atomic!Value
  <2>3. CASE file \notin {"devices", "operations"}
    BY <2>3, Zenon DEF Written, importRow, TableOf, Atomic!Key, Atomic!Value
  <2>4. QED
    BY <2>1, <2>2, <2>3, Zenon
<1>6. TableOf(file) \in Tables
  BY Zenon DEF TableOf, Tables
<1>7. Wrote(Importer, TableOf(file), Atomic!Key(file, r), Atomic!Value(file, r))
  BY <1>0, <1>5, <1>6, WriteEffect, Zenon
<1>8. QED
  BY <1>3, <1>4, <1>7, Zenon

LEMMA MergingWritten ==
  ASSUME Basis, Merging, Written, ImportGoesOn, Keep, at[Importer] = "rows", job[Importer].Left # <<>>
  PROVE  Merging'
<1> DEFINE left == job[Importer].Left
           file == left[1].Table
           r == left[1].Row
           key == Atomic!Key(file, r)
           value == Atomic!Value(file, r)
<1>0. Shape /\ situation' = situation
  BY Zenon DEF Basis, Keep
<1>1. at' = at /\ job'[Importer].Left = Tail(left)
  BY <1>0, WrittenStep, Zenon
<1>2. /\ file \in FileNames /\ r \in Range(Payload[file]) /\ left[1] = [Table |-> file, Row |-> r]
      /\ Wrote(Importer, TableOf(file), key, value)
  BY WrittenRow, Zenon
<1>3. [Key |-> key, Value |-> value] \in Part(TableOf(file))
  BY <1>2, FilesOfTables, BundledRow, Zenon DEF Part
<1>4. left \in Seq(Entries(Payload)) /\ left # <<>>
  BY Zenon DEF Basis, Leftover
<1>5. ASSUME NEW entry, Has(left, entry), entry # left[1]
      PROVE  Has(Tail(left), entry)
  <2>1. PICK i \in DOMAIN left : left[i] = entry
    BY <1>5, Zenon DEF Has
  <2>2. i # 1
    BY <1>5, <2>1, Zenon
  <2>3. i - 1 \in DOMAIN Tail(left) /\ Tail(left)[i - 1] = left[i]
    BY <1>4, <2>1, <2>2
  <2>4. QED
    BY <2>1, <2>3, Zenon DEF Has
<1> HIDE DEF key, value
<1>6. ASSUME NEW t \in {"devices", "operations", "rows"}, NEW k \in DOMAIN tx'[Importer][t]
      PROVE  [Key |-> k, Value |-> tx'[Importer][t][k]] \in Part(t)
  <2>1. CASE t = TableOf(file) /\ k = key
    BY <1>2, <1>3, <2>1, Zenon DEF Wrote
  <2>2. CASE ~(t = TableOf(file) /\ k = key)
    <3>1. t \in Tables
      BY Zenon DEF Tables
    <3>2. k \in DOMAIN tx[Importer][t] /\ tx'[Importer][t][k] = tx[Importer][t][k]
      <4>1. CASE t = TableOf(file)
        BY <1>2, <2>2, <4>1, Zenon DEF Wrote
      <4>2. CASE t # TableOf(file)
        BY <1>2, <3>1, <4>2, Zenon DEF Wrote
      <4>3. QED
        BY <4>1, <4>2, Zenon
    <3>3. QED
      BY <3>2, Zenon DEF Merging
  <2>3. QED
    BY <2>1, <2>2, Zenon
<1>7. ASSUME NEW f \in FileNames, NEW x \in Range(Payload[f])
      PROVE  \/ Has(Tail(left), [Table |-> f, Row |-> x])
             \/ Atomic!Key(f, x) \in DOMAIN tx'[Importer][TableOf(f)]
  <2>1. CASE [Table |-> f, Row |-> x] = left[1]
    <3>1. f = file /\ x = r
      BY <2>1
    <3>2. key \in DOMAIN tx'[Importer][TableOf(file)] /\ key = Atomic!Key(file, r)
      BY <1>2, Zenon DEF Wrote, key
    <3>3. QED
      BY <3>1, <3>2, Zenon
  <2>2. CASE Atomic!Key(f, x) \in DOMAIN tx[Importer][TableOf(f)]
    <3>1. TableOf(f) \in Tables
      BY Zenon DEF TableOf, Tables
    <3>2. DOMAIN tx[Importer][TableOf(f)] \subseteq DOMAIN tx'[Importer][TableOf(f)]
      BY <1>2, <3>1, Zenon DEF Wrote
    <3>3. QED
      BY <2>2, <3>2, Zenon
  <2>3. QED
    BY <1>5, <2>1, <2>2, Zenon DEF Merging
<1>8. QED
  BY <1>0, <1>1, <1>6, <1>7, PartKept, Zenon DEF Merging

LEMMA MergingStep ==
  ASSUME Basis, Merging, [Next]_vars
  PROVE  Merging'
<1>0. Shape /\ Leftover /\ Holding /\ Importer \in Clients
      /\ \A c \in Apis \cup {Recorder, Reader} : Importer \in Clients \ {c}
  BY ClientsAssumption, Zenon DEF Basis
<1>1. ASSUME NEW c \in Apis \cup {Recorder, Reader}, Only(c), Keep
      PROVE  Merging'
  BY <1>0, <1>1, MergingKept, Zenon DEF Only, Keep
<1>2. CASE (\E c \in Apis : Api(c)) \/ Record \/ operationResult
  BY <1>0, <1>1, <1>2, ApiStep, RecordStep, ReadStep, Zenon
<1>3. CASE at'[Importer] \notin {"rows", "commit"}
  BY <1>3, Zenon DEF Merging
<1>4. CASE ImportValidate
  <2>1. CASE Accepted(situation) = <<>>
    BY <1>0, <1>3, <1>4, <2>1, Zenon DEF ImportValidate, Goto, Shape
  <2>2. CASE Accepted(situation) # <<>>
    <3>1. /\ at[Importer] = "validate" /\ situation' = situation /\ tx' = tx
          /\ job'[Importer].Left = InOrder(ImportOrder, Payload)
      BY <1>0, <1>4, <2>2 DEF ImportValidate, Shape, Keep, Fields, Payload, storeVars
    <3>2. \A name \in FileNames : Payload[name] \in Seq(Range(Payload[name]))
      BY <1>0, <2>2, BundlesAssumption, Zenon DEF Shape, Payload
    <3>3. Covers(Payload, job'[Importer].Left)
      BY <3>1, <3>2, ImportOrderCovers, Zenon
    <3>4. \A t \in {"devices", "operations", "rows"} : DOMAIN tx'[Importer][t] = {}
      BY <1>0, <3>1, Zenon DEF Holding, ImporterHolds, Tables
    <3>5. QED
      BY <3>1, <3>3, <3>4, PartKept, Zenon DEF Merging, Covers
  <2>3. QED
    BY <2>1, <2>2, Zenon
<1>5. CASE ImportRow
  <2>1. at[Importer] = "rows" /\ job[Importer].Left # <<>> /\ Keep
    BY <1>5, ImportRowCases, Zenon
  <2>2. CASE ImportFails
    BY <1>0, <1>3, <2>1, <2>2, ImportFailsStep, Zenon DEF Keep
  <2>3. QED
    BY <1>5, <2>1, <2>2, ImportRowCases, MergingWritten, Zenon
<1>6. CASE ImportSync
  <2>1. at[Importer] = "rows" /\ UNCHANGED <<tx, job, situation>>
    BY <1>6, Zenon DEF ImportSync, syncImportSequences, Keep
  <2>2. QED
    BY <2>1, PartKept, Zenon DEF Merging
<1>7. CASE ImportCommit
  BY <1>0, <1>3, <1>7, Zenon DEF ImportCommit, Goto, Shape
<1>8. CASE ImportAborts
  BY <1>0, <1>3, <1>8, ImportFailsStep, Zenon DEF ImportAborts, Keep
<1>9. CASE UNCHANGED vars
  BY <1>9, MergingKept, Zenon DEF vars, storeVars
<1>10. QED
  BY <1>2, <1>4, <1>5, <1>6, <1>7, <1>8, <1>9, Zenon DEF Next, Import

-----------------------------------------------------------------------------
(* Each commit is a step of AtomicStore. *)
LEMMA CommittedWrites ==
  ASSUME NEW c, Committed(c), NEW t \in Tables
  PROVE  Atomic!Writes(db[t], db'[t], DOMAIN tx[c][t])
<1>1. /\ DOMAIN db'[t] = DOMAIN tx[c][t] \cup DOMAIN db[t]
      /\ \A k \in DOMAIN db[t] \ DOMAIN tx[c][t] : db'[t][k] = db[t][k]
  BY Zenon DEF Committed
<1>2. QED
  BY <1>1, Zenon DEF Atomic!Writes

LEMMA RegisterImplements ==
  ASSUME Basis, NEW c \in Apis, ApiRegister(c), db' # db
  PROVE  Atomic!Next
<1> DEFINE eid == Target(c)
<1>1. /\ eid \notin DOMAIN db.devices
      /\ DOMAIN db'.devices = DOMAIN db.devices \cup {eid}
      /\ db'.devices[eid] = NewDevice
      /\ \A e \in DOMAIN db.devices : db'.devices[e] = db.devices[e]
      /\ \A t \in Tables \ {"devices"} : db'[t] = db[t]
  BY RegisterEffect, Zenon DEF Basis
<1>2. UNCHANGED <<db.operations, db.results, db.rows>>
  BY <1>1, Zenon DEF Tables
<1>3. UNCHANGED <<Accepted(situation), renumbered>>
  BY Zenon DEF ApiRegister, Keep
<1>4. Atomic!Writes(db.devices, db'.devices, {eid})
  BY <1>1, Zenon DEF Atomic!Writes
<1>5. Atomic!RegisterDevice(eid)
  BY <1>1, <1>2, <1>3, <1>4, Zenon DEF Atomic!RegisterDevice, NewDevice
<1>6. eid \in DOMAIN db'.devices
  BY <1>1, Zenon
<1> HIDE DEF eid
<1>7. QED
  BY <1>5, <1>6, Zenon DEF Atomic!Next

LEMMA SignImplements ==
  ASSUME Basis, NEW c \in Apis, ApiSign(c)
  PROVE  Atomic!Next
<1> DEFINE eid == Target(c)
<1>1. /\ eid \in DOMAIN db.devices /\ DOMAIN db'.devices = DOMAIN db.devices
      /\ db'.devices[eid] = [db.devices[eid] EXCEPT !.Counter = db.devices[eid].Counter + 1]
      /\ \A e \in DOMAIN db.devices \ {eid} : db'.devices[e] = db.devices[e]
      /\ \A t \in Tables \ {"devices"} : db'[t] = db[t]
  BY SignEffect, Zenon
<1>2. UNCHANGED <<db.operations, db.results, db.rows>>
  BY <1>1, Zenon DEF Tables
<1>3. UNCHANGED <<Accepted(situation), renumbered>>
  BY Zenon DEF ApiSign, Keep
<1> HIDE DEF eid
<1>4. Atomic!Writes(db.devices, db'.devices, {eid})
  BY <1>1, Zenon DEF Atomic!Writes
<1>5. Atomic!NextEUICCPackageCounter(eid)
  BY <1>1, <1>2, <1>3, <1>4, Zenon DEF Atomic!NextEUICCPackageCounter
<1>6. QED
  BY <1>1, <1>5, Zenon DEF Atomic!Next

LEMMA EnqueueImplements ==
  ASSUME Basis, Identity, Identity', NEW c \in Apis, Numbered(c), ApiCommit(c)
  PROVE  Atomic!Next
<1> DEFINE eid == Target(c)
           number == db.devices[eid].Sequence
           key == <<eid, number>>
<1>0. c \in Clients /\ Shape /\ ApiHolds(c) /\ Fresh(c) /\ at[c] = "commit"
  BY ClientsAssumption, Zenon DEF Basis, Holding, Identity, ApiCommit
<1>1. Committed(c)
  BY <1>0, CommitEffect, Zenon DEF ApiCommit
<1>2. /\ DOMAIN tx[c].devices = {eid} /\ eid \in DOMAIN db.devices /\ job[c].Number = number
      /\ DOMAIN tx[c].operations = {key} /\ tx[c].operations[key].Status = "pending"
      /\ DOMAIN tx[c].results = {} /\ DOMAIN tx[c].rows = {}
  BY <1>0, Zenon DEF ApiHolds, Enqueueing
<1>3. tx[c].devices[eid] = [db.devices[eid] EXCEPT !.Sequence = number + 1]
  BY <1>0, <1>2, Zenon DEF Numbered, Enqueueing
<1>4. key \notin DOMAIN db.operations
  BY <1>0, <1>2, Zenon DEF Fresh
<1>5. UNCHANGED <<Accepted(situation), renumbered>>
  BY Zenon DEF ApiCommit, Keep
<1>6. Atomic!OneID(db.operations)'
  BY Zenon DEF Identity, Atomic!OneID
<1>7. {"devices", "operations", "results", "rows"} = Tables
  BY Zenon DEF Tables
<1>8. /\ Atomic!Writes(db.devices, db'.devices, {eid}) /\ Atomic!Writes(db.operations, db'.operations, {key})
      /\ Atomic!Writes(db.results, db'.results, {}) /\ Atomic!Writes(db.rows, db'.rows, {})
  BY <1>1, <1>2, <1>7, CommittedWrites, Zenon
<1>9. eid \in DOMAIN db'.devices /\ db'.devices[eid] = tx[c].devices[eid] /\ db'.operations[key] = tx[c].operations[key]
  <2>1. /\ \A e \in DOMAIN tx[c].devices : e \in DOMAIN db'.devices /\ db'.devices[e] = tx[c].devices[e]
        /\ \A k \in DOMAIN tx[c].operations : db'.operations[k] = tx[c].operations[k]
    BY <1>1, <1>7, Zenon DEF Committed
  <2>2. QED
    BY <1>2, <2>1, Zenon
<1>10. Atomic!EnqueueOperation(eid)
  BY <1>2, <1>3, <1>4, <1>5, <1>6, <1>8, <1>9, Zenon DEF Atomic!EnqueueOperation
<1> HIDE DEF eid
<1>11. QED
  BY <1>2, <1>9, <1>10, Zenon DEF Atomic!Next

LEMMA RecordImplements ==
  ASSUME Basis, Identity, Recording, Settling, RecordCommit
  PROVE  Atomic!Next
<1> DEFINE j == job[Recorder]
<1>0. Recorder \in Clients /\ Shape /\ RecorderHolds /\ at[Recorder] = "commit" /\ Selected
  BY ClientsAssumption, Zenon DEF Basis, Holding, RecordCommit, Selected
<1>1. Committed(Recorder)
  BY <1>0, CommitEffect, Zenon DEF RecordCommit
<1>2. PICK key \in DOMAIN db.operations :
        /\ DOMAIN tx[Recorder].operations = {key}
        /\ tx[Recorder].operations[key] = [db.operations[key] EXCEPT !.Status = j.Status]
  BY <1>0, Zenon DEF Settling, Marked
<1>3. /\ j.Key \in DOMAIN db.operations /\ DOMAIN tx[Recorder].results = {j.Key}
      /\ db.operations[key].ID = j.ID
      /\ DOMAIN tx[Recorder].devices = {} /\ DOMAIN tx[Recorder].rows = {}
  BY <1>0, <1>2, Zenon DEF RecorderHolds
<1>4. j.Status \in {"done", "failed"} /\ tx[Recorder].results[j.Key] = [OperationID |-> j.ID, Status |-> j.Status]
  BY <1>0, Zenon DEF Settling
<1>5. j.Key = key \/ j.ID \in renumbered
  <2>1. j.ID \notin renumbered => db.operations[j.Key].ID = j.ID
    BY <1>0, Zenon DEF Recording
  <2>2. QED
    BY <1>3, <2>1, Zenon DEF Identity
<1>6. UNCHANGED <<Accepted(situation), renumbered>>
  BY Zenon DEF RecordCommit, Keep
<1>7. {"devices", "operations", "results", "rows"} = Tables
  BY Zenon DEF Tables
<1>8. /\ Atomic!Writes(db.operations, db'.operations, {key}) /\ Atomic!Writes(db.results, db'.results, {j.Key})
      /\ Atomic!Writes(db.devices, db'.devices, {}) /\ Atomic!Writes(db.rows, db'.rows, {})
  <2>1. \A t \in Tables : Atomic!Writes(db[t], db'[t], DOMAIN tx[Recorder][t])
    BY <1>1, CommittedWrites, Zenon
  <2>2. QED
    BY <1>2, <1>3, <1>7, <2>1, Zenon
<1>9. /\ db'.operations[key] = tx[Recorder].operations[key]
      /\ db'.results[j.Key] = tx[Recorder].results[j.Key]
  <2>1. /\ \A k \in DOMAIN tx[Recorder].operations : db'.operations[k] = tx[Recorder].operations[k]
        /\ \A k \in DOMAIN tx[Recorder].results : db'.results[k] = tx[Recorder].results[k]
    BY <1>1, <1>7, Zenon DEF Committed
  <2>2. QED
    BY <1>2, <1>3, <2>1, Zenon
<1>10. Atomic!RecordEUICCPackageResult(key, j.Key, j.Status)
  BY <1>2, <1>3, <1>4, <1>5, <1>6, <1>8, <1>9, Zenon DEF Atomic!RecordEUICCPackageResult
<1>11. PICK under, status : under = j.Key /\ status = j.Status
  BY Zenon
<1>12. /\ under \in DOMAIN db.operations /\ status \in {"done", "failed"}
       /\ Atomic!RecordEUICCPackageResult(key, under, status)
  BY <1>3, <1>4, <1>10, <1>11, Zenon
<1>13. QED
  BY <1>12, Zenon DEF Atomic!Next

LEMMA MergesTable ==
  ASSUME Basis, Merging, at[Importer] = "commit", Committed(Importer), NEW t \in {"devices", "operations", "rows"}
  PROVE  Atomic!Merges(db[t], db'[t], FilesOf(t))
<1>0. t \in Tables /\ job[Importer].Left = <<>>
  BY Zenon DEF Tables, Basis, Leftover
<1>1. \A k \in DOMAIN tx[Importer][t] : [Key |-> k, Value |-> tx[Importer][t][k]] \in Part(t)
  BY Zenon DEF Merging
<1>2. ASSUME NEW b \in Part(t)
      PROVE  b.Key \in DOMAIN tx[Importer][t]
  <2>1. PICK file \in FilesOf(t) : \E r \in Range(Payload[file]) :
          b = [Key |-> Atomic!Key(file, r), Value |-> Atomic!Value(file, r)]
    BY <1>2, BundledOnly, Zenon DEF Part
  <2>2. PICK r \in Range(Payload[file]) : b = [Key |-> Atomic!Key(file, r), Value |-> Atomic!Value(file, r)]
    BY <2>1, Zenon
  <2>3. file \in FileNames /\ TableOf(file) = t
    BY Zenon DEF FilesOf
  <2>4. ~Has(job[Importer].Left, [Table |-> file, Row |-> r])
    BY <1>0 DEF Has
  <2>5. Atomic!Key(file, r) \in DOMAIN tx[Importer][TableOf(file)]
    BY <2>3, <2>4, Zenon DEF Merging
  <2>6. b.Key = Atomic!Key(file, r)
    BY <2>2, Zenon
  <2>7. QED
    BY <2>3, <2>5, <2>6, Zenon
<1>3. {b.Key : b \in Part(t)} = DOMAIN tx[Importer][t]
  <2>1. \A k \in DOMAIN tx[Importer][t] : \E b \in Part(t) : b.Key = k
    <3> SUFFICES ASSUME NEW k \in DOMAIN tx[Importer][t] PROVE \E b \in Part(t) : b.Key = k
      BY Zenon
    <3>1. [Key |-> k, Value |-> tx[Importer][t][k]].Key = k
      BY Zenon
    <3>2. QED
      BY <1>1, <3>1, Zenon
  <2>2. QED
    BY <1>2, <2>1, Zenon
<1>4. \A k \in DOMAIN tx[Importer][t] : db'[t][k] = tx[Importer][t][k]
  BY <1>0, Zenon DEF Committed
<1>5. \A b \in Part(t) : [Key |-> b.Key, Value |-> db'[t][b.Key]] \in Part(t)
  BY <1>1, <1>2, <1>4, Zenon
<1>6. Atomic!Writes(db[t], db'[t], {b.Key : b \in Part(t)})
  BY <1>0, <1>3, CommittedWrites, Zenon
<1>7. QED
  BY <1>5, <1>6, Zenon DEF Atomic!Merges, Part

LEMMA ImportImplements ==
  ASSUME Basis, Identity', Unimported, Merging, ImportCommit
  PROVE  Atomic!Next
<1>0. Importer \in Clients /\ Shape /\ ImporterHolds /\ at[Importer] = "commit" /\ Accepted(situation) # <<>>
  BY ClientsAssumption, Zenon DEF Basis, Holding, ImportCommit, Leftover
<1>1. Committed(Importer) /\ UNCHANGED situation /\ renumbered' = renumbered \cup Taken
  BY <1>0, CommitEffect, Zenon DEF ImportCommit
<1>2. /\ Atomic!Merges(db.devices, db'.devices, {"devices"})
      /\ Atomic!Merges(db.operations, db'.operations, {"operations"})
      /\ Atomic!Merges(db.rows, db'.rows, DOMAIN Payload \ {"devices", "operations"})
  <2>1. DOMAIN Payload = FileNames
    BY <1>0, Zenon DEF Payload, Accepted, ReadBundle
  <2>2. QED
    BY <1>0, <1>1, <2>1, MergesTable, FilesOfTables, Zenon
<1>3. Atomic!OneID(db.operations)'
  BY Zenon DEF Identity, Atomic!OneID
<1>4. Atomic!Writes(db.results, db'.results, {})
  <2>1. "results" \in Tables /\ DOMAIN tx[Importer].results = {}
    BY <1>0, Zenon DEF ImporterHolds, Tables
  <2>2. QED
    BY <1>1, <2>1, CommittedWrites, Zenon
<1>5. \A key \in DOMAIN db.results : db'.operations[key].ID = db.operations[key].ID
  BY <1>0, ImportCommitEffect, Zenon DEF Unimported
<1>6. Taken = {db.operations[key].ID : key \in {k \in DOMAIN db.operations : db'.operations[k].ID # db.operations[k].ID}}
  <2>1. "operations" \in Tables
    BY Zenon DEF Tables
  <2>2. /\ \A k \in DOMAIN tx[Importer].operations : db'.operations[k] = tx[Importer].operations[k]
        /\ \A k \in DOMAIN db.operations \ DOMAIN tx[Importer].operations : db'.operations[k] = db.operations[k]
    BY <1>1, <2>1, Zenon DEF Committed
  <2>3. {k \in DOMAIN tx[Importer].operations :
           k \in DOMAIN db.operations /\ tx[Importer].operations[k].ID # db.operations[k].ID}
        = {k \in DOMAIN db.operations : db'.operations[k].ID # db.operations[k].ID}
    BY <2>2, Zenon
  <2>4. QED
    BY <2>3, Zenon DEF Taken
<1>7. UNCHANGED Accepted(situation)
  BY <1>1, Zenon
<1>8. Atomic!ImportBundle
  BY <1>0, <1>1, <1>2, <1>3, <1>4, <1>5, <1>6, <1>7, Zenon DEF Atomic!ImportBundle, Payload
<1>9. QED
  BY <1>8, Zenon DEF Atomic!Next

-----------------------------------------------------------------------------
Ready == Merging /\ Settling /\ \A c \in Apis : Numbered(c)

LEMMA ReadyInit ==
  ASSUME Init
  PROVE  Ready
<1>1. /\ Importer \in Clients /\ Recorder \in Clients /\ Importer # Recorder
      /\ Importer \notin Apis /\ Recorder \notin Apis /\ Apis \subseteq Clients
  BY ClientsAssumption, Zenon
<1>2. at[Importer] \in {"done", "validate"} /\ at[Recorder] \in {"done", "idle"}
  BY <1>1, Zenon DEF Init
<1>3. \A c \in Apis : at[c] \in {"done", "register"}
  BY <1>1, Zenon DEF Init
<1>4. Merging
  BY <1>2, Zenon DEF Merging
<1>5. Settling
  BY <1>2, Zenon DEF Settling, Selected
<1>6. \A c \in Apis : Numbered(c)
  BY <1>3, Zenon DEF Numbered, Enqueueing
<1>7. QED
  BY <1>4, <1>5, <1>6, Zenon DEF Ready

LEMMA ReadyStep ==
  ASSUME Basis, Ready, [Next]_vars
  PROVE  Ready'
<1>0. /\ Importer \in Clients /\ Recorder \in Clients /\ Reader \in Clients /\ Apis \subseteq Clients
      /\ Importer \notin Apis /\ Recorder \notin Apis /\ Reader \notin Apis
      /\ Importer # Recorder /\ Reader # Recorder /\ Reader # Importer /\ Shape
  BY ClientsAssumption, Zenon DEF Basis
<1>1. Merging'
  BY MergingStep, Zenon DEF Ready
<1>2. ASSUME NEW c \in Clients, Only(c), Spares(c),
             c = Recorder => Settling', \A d \in Apis : d = c => Numbered(d)'
      PROVE  Ready'
  <2>1. Settling'
    BY <1>2, SettlingKept, Zenon DEF Ready
  <2>2. \A d \in Apis : Numbered(d)'
    BY <1>2, NumberedKept, Zenon DEF Ready
  <2>3. QED
    BY <1>1, <2>1, <2>2, Zenon DEF Ready
<1>3. CASE \E c \in Apis : Api(c)
  <2>1. PICK c \in Apis : Api(c)
    BY <1>3, Zenon
  <2>2. Only(c) /\ Spares(c) /\ Numbered(c)'
    BY <1>0, <2>1, ApiStep, ApiSpares, NumberedOwn, Zenon DEF Ready
  <2>3. QED
    BY <1>0, <1>2, <2>2, Zenon
<1>4. CASE Record
  BY <1>0, <1>2, <1>4, RecordStep, RecordSpares, SettlingOwn, Zenon DEF Ready
<1>5. CASE operationResult
  <2>1. Only(Reader) /\ UNCHANGED db
    BY <1>0, <1>5, ReadStep, Zenon DEF storeVars
  <2>2. QED
    BY <1>0, <1>2, <2>1, UnchangedSpares, Zenon
<1>6. CASE Import \/ ImportAborts
  BY <1>0, <1>2, <1>6, ImportStep, ImportSpares, Zenon
<1>7. CASE UNCHANGED vars
  <2>1. Only(Reader) /\ UNCHANGED db
    BY <1>7, Zenon DEF Only, vars, storeVars
  <2>2. QED
    BY <1>0, <1>2, <2>1, UnchangedSpares, Zenon
<1>8. QED
  BY <1>3, <1>4, <1>5, <1>6, <1>7, Zenon DEF Next

(* A step is one of AtomicStore, or changes nothing that is committed. *)
Stored == <<db.devices, db.operations, db.results, db.rows, Accepted(situation), renumbered>>

LEMMA Stutters ==
  ASSUME UNCHANGED db, Keep
  PROVE  UNCHANGED Stored
BY Zenon DEF Keep, Stored

LEMMA AtomicStep ==
  ASSUME Basis, Identity, Identity', Unimported, Recording, Ready, Next
  PROVE  Atomic!Next \/ UNCHANGED Stored
<1>0. Shape
  BY Zenon DEF Basis
<1>1. ASSUME NEW c \in Apis, Api(c)
      PROVE  Atomic!Next \/ UNCHANGED Stored
  <2>1. Keep
    BY <1>0, <1>1, ApiStep, Zenon
  <2>2. CASE ApiRegister(c)
    BY <2>1, <2>2, RegisterImplements, Stutters, Zenon
  <2>3. CASE ApiSign(c)
    BY <2>3, SignImplements, Zenon
  <2>4. CASE ApiNumber(c) \/ ApiID(c) \/ ApiRow(c)
    <3>1. UNCHANGED db
      BY <2>4, Zenon DEF ApiNumber, ApiID, EnqueueNumber, EnqueueID, ApiRow, Rollback, EnqueueRow
    <3>2. QED
      BY <2>1, <3>1, Stutters, Zenon
  <2>5. CASE ApiCommit(c)
    BY <2>5, EnqueueImplements, Zenon DEF Ready
  <2>6. QED
    BY <1>1, <2>2, <2>3, <2>4, <2>5, Zenon DEF Api
<1>2. CASE Record
  <2>1. Keep
    BY <1>0, <1>2, RecordStep, Zenon
  <2>2. CASE RecordCommit
    BY <2>2, RecordImplements, Zenon DEF Ready
  <2>3. CASE ~RecordCommit
    <3>1. UNCHANGED db
      BY <1>2, <2>3, Zenon DEF Record, RecordBegin, RecordSelect, RecordInsert, RecordResult,
         RecordRefused, Rollback, RecordUpdate, RecordStatus, storeVars
    <3>2. QED
      BY <2>1, <3>1, Stutters, Zenon
  <2>4. QED
    BY <2>2, <2>3, Zenon
<1>3. CASE operationResult
  BY <1>0, <1>3, ReadStep, Stutters, Zenon DEF storeVars
<1>4. CASE ImportValidate \/ ImportSync
  <2>1. UNCHANGED db /\ Keep
    BY <1>4, Zenon DEF ImportValidate, ImportSync, syncImportSequences, storeVars
  <2>2. QED
    BY <2>1, Stutters, Zenon
<1>5. CASE ImportRow
  <2>1. Keep /\ (ImportFails \/ (Written /\ ImportGoesOn))
    BY <1>5, ImportRowCases, Zenon
  <2>2. UNCHANGED db
    BY <1>0, <2>1, ImportFailsStep, WrittenStep, Zenon DEF Keep
  <2>3. QED
    BY <2>1, <2>2, Stutters, Zenon
<1>6. CASE ImportCommit
  BY <1>6, ImportImplements, Zenon DEF Ready
<1>7. CASE ImportAborts
  <2>1. UNCHANGED db /\ Keep
    BY <1>7, Zenon DEF ImportAborts, ImportFails, Rollback
  <2>2. QED
    BY <2>1, Stutters, Zenon
<1>8. QED
  BY <1>1, <1>2, <1>3, <1>4, <1>5, <1>6, <1>7, Zenon DEF Next, Import

LEMMA AtomicInit ==
  ASSUME Init
  PROVE  Atomic!Init
<1>1. situation \in Situations /\ db = situation.Database /\ renumbered = {}
  BY Zenon DEF Init
<1>2. QED
  BY <1>1, DatabasesAssumption, Zenon DEF Atomic!Init, Atomic!OneID

(* ImplementsAtomicStore, for any requests, databases and bundles: to its  *)
(* users the PostgreSQL store does each registration, counter, enqueue,    *)
(* result and import at once, though storage/postgres does them statement  *)
(* by statement at READ COMMITTED.                                         *)
THEOREM StoreIsAtomic == Spec => ImplementsAtomicStore
<1> DEFINE Inductive == Basis /\ Identity /\ Unimported /\ Recording /\ Ready
<1>1. Init => Inductive /\ Atomic!Init
  BY BasisInit, ReadingInit, ReadyInit, AtomicInit, Zenon
<1>2. Inductive /\ [Next]_vars => Inductive'
  BY BasisStep, IdentityStep, RecordingStep, ReadyStep, Zenon
<1>3. Inductive /\ Inductive' /\ [Next]_vars => [Atomic!Next]_Stored
  <2>1. CASE UNCHANGED vars
    <3>1. UNCHANGED Stored
      BY <2>1, Zenon DEF vars, storeVars, Stored
    <3>2. QED
      BY <3>1, Zenon
  <2>2. CASE Next
    BY <2>2, AtomicStep, Zenon
  <2>3. QED
    BY <2>1, <2>2, Zenon
<1>4. QED
  BY <1>1, <1>2, <1>3, PTL DEF Spec, ImplementsAtomicStore, Atomic!Spec, Atomic!store, Stored
=============================================================================
