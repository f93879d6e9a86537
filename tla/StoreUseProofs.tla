--------------------------- MODULE StoreUseProofs ---------------------------
(***************************************************************************)
(* Proofs about StoreUse, for any number of API requests, any databases    *)
(* and any bundles: a bundle is imported whole or not at all and only if   *)
(* the trusted signer exported it, the next number of a device stays above *)
(* all it was given, and the answer about a finished operation has its     *)
(* result.  The invariants that carry the proofs say what each open        *)
(* transaction holds: PostgreSQL's row locks keep what a client read true  *)
(* until the client commits.                                               *)
(***************************************************************************)
EXTENDS StoreUse, TLAPS

Tables == {"devices", "operations", "results", "rows"}
Fields == {"Targets", "Number", "ID", "Key", "Status", "Response", "Left"}

Shape ==
  /\ situation \in Situations
  /\ DOMAIN db = Tables
  /\ DOMAIN tx = Clients /\ \A c \in Clients : DOMAIN tx[c] = Tables
  /\ DOMAIN at = Clients
  /\ DOMAIN job = Clients /\ \A c \in Clients : DOMAIN job[c] = Fields

(* The effects of the store's statements, row by row. *)
Wrote(c, table, key, value) ==
  /\ \A d \in Clients : DOMAIN tx'[d] = Tables
  /\ \A d \in Clients \ {c} : tx'[d] = tx[d]
  /\ \A t \in Tables \ {table} : tx'[c][t] = tx[c][t]
  /\ DOMAIN tx'[c][table] = DOMAIN tx[c][table] \cup {key}
  /\ tx'[c][table][key] = value
  /\ \A k \in DOMAIN tx[c][table] \ {key} : tx'[c][table][k] = tx[c][table][k]

Ended(c) ==
  /\ \A d \in Clients : DOMAIN tx'[d] = Tables
  /\ \A d \in Clients \ {c} : tx'[d] = tx[d]
  /\ tx'[c] = NoRows
  /\ \A t \in Tables : DOMAIN tx'[c][t] = {}

Committed(c) ==
  /\ DOMAIN db' = Tables
  /\ \A t \in Tables :
       /\ DOMAIN db'[t] = DOMAIN tx[c][t] \cup DOMAIN db[t]
       /\ \A k \in DOMAIN tx[c][t] : db'[t][k] = tx[c][t][k]
       /\ \A k \in DOMAIN db[t] \ DOMAIN tx[c][t] : db'[t][k] = db[t][k]

LEMMA WriteEffect ==
  ASSUME Shape, NEW c \in Clients, NEW table \in Tables, NEW key, NEW value,
         Write(c, table, key, value)
  PROVE  DOMAIN tx' = Clients /\ Wrote(c, table, key, value)
BY Zenon DEF Shape, Write, Wrote, Put

LEMMA NoRowsEmpty == DOMAIN NoRows = Tables /\ \A t \in Tables : DOMAIN NoRows[t] = {}
BY DEF NoRows, Tables

LEMMA EndEffect ==
  ASSUME Shape, NEW c \in Clients, tx' = [tx EXCEPT ![c] = NoRows]
  PROVE  DOMAIN tx' = Clients /\ Ended(c)
BY NoRowsEmpty, Zenon DEF Shape, Ended

LEMMA CommitEffect ==
  ASSUME Shape, NEW c \in Clients, Commit(c)
  PROVE  DOMAIN tx' = Clients /\ Ended(c) /\ Committed(c)
<1>1. DOMAIN tx' = Clients /\ Ended(c)
  BY EndEffect, Zenon DEF Commit
<1>2. DOMAIN db' = Tables
  BY Zenon DEF Commit, Shape
<1>3. ASSUME NEW t \in Tables
      PROVE  /\ DOMAIN db'[t] = DOMAIN tx[c][t] \cup DOMAIN db[t]
             /\ \A k \in DOMAIN tx[c][t] : db'[t][k] = tx[c][t][k]
             /\ \A k \in DOMAIN db[t] \ DOMAIN tx[c][t] : db'[t][k] = db[t][k]
  <2>1. db'[t] = Override(tx[c][t], db[t])
    BY Zenon DEF Commit, Shape
  <2>2. QED
    BY <2>1, Zenon DEF Override
<1>4. QED
  BY <1>1, <1>2, <1>3, Zenon DEF Committed

-----------------------------------------------------------------------------
(* A step is the step of one client. *)
Only(c) == \A d \in Clients \ {c} : at'[d] = at[d] /\ job'[d] = job[d] /\ tx'[d] = tx[d]

LEMMA NoJobFields == DOMAIN NoJob = Fields
BY Zenon DEF NoJob, Fields

LEMMA ApiStep ==
  ASSUME Shape, NEW c \in Apis, Api(c)
  PROVE  Shape' /\ Only(c) /\ Keep
<1>0. c \in Clients
  BY ClientsAssumption, Zenon
<1>1. CASE ApiRegister(c)
  <2>1. DOMAIN db' = Tables
    BY <1>1, Zenon DEF ApiRegister, RegisterDevice, Shape
  <2>2. QED
    BY <1>0, <1>1, <2>1, Zenon DEF ApiRegister, RegisterDevice, Shape, Only, Goto, Keep
<1>2. CASE ApiSign(c)
  <2>1. DOMAIN db' = Tables
    BY <1>2, Zenon DEF ApiSign, NextEUICCPackageCounter, Shape
  <2>2. QED
    BY <1>0, <1>2, <2>1, Zenon DEF ApiSign, NextEUICCPackageCounter, Shape, Only, Goto, Keep
<1>3. CASE ApiNumber(c)
  <2>1. PICK value : Write(c, "devices", Target(c), value)
    BY <1>3, Zenon DEF ApiNumber, EnqueueNumber
  <2>2. DOMAIN tx' = Clients /\ Wrote(c, "devices", Target(c), value)
    BY <1>0, <2>1, WriteEffect, Zenon DEF Tables
  <2>3. DOMAIN job' = Clients /\ \A d \in Clients : DOMAIN job'[d] = Fields
    BY <1>0, <1>3, Zenon DEF ApiNumber, Shape
  <2>4. QED
    BY <1>0, <1>3, <2>2, <2>3, Zenon DEF ApiNumber, EnqueueNumber, Wrote, Shape, Only, Goto, Keep
<1>4. CASE ApiID(c)
  <2>1. DOMAIN job' = Clients /\ \A d \in Clients : DOMAIN job'[d] = Fields
    BY <1>0, <1>4, Zenon DEF ApiID, Shape
  <2>2. QED
    BY <1>0, <1>4, <2>1, Zenon DEF ApiID, EnqueueID, Shape, Only, Goto, Keep
<1>5. CASE ApiRow(c)
  <2>1. DOMAIN tx' = Clients /\ (\A d \in Clients : DOMAIN tx'[d] = Tables)
        /\ \A d \in Clients \ {c} : tx'[d] = tx[d]
    <3>1. CASE InsertFails(c, Target(c), job[c].Number, job[c].ID)
      BY <1>0, <1>5, <3>1, EndEffect, Zenon DEF ApiRow, Rollback, Ended
    <3>2. CASE ~InsertFails(c, Target(c), job[c].Number, job[c].ID)
      <4>1. PICK value : Write(c, "operations", <<Target(c), job[c].Number>>, value)
        BY <1>5, <3>2, Zenon DEF ApiRow, EnqueueRow
      <4>2. QED
        BY <1>0, <4>1, WriteEffect DEF Tables, Wrote
    <3>3. QED
      BY <3>1, <3>2, Zenon
  <2>2. UNCHANGED <<db, job>> /\ Keep
    BY <1>5, Zenon DEF ApiRow, Rollback, EnqueueRow
  <2>3. DOMAIN at' = Clients /\ \A d \in Clients \ {c} : at'[d] = at[d]
    BY <1>0, <1>5, Zenon DEF ApiRow, Goto, Shape
  <2>4. QED
    BY <2>1, <2>2, <2>3, Zenon DEF Shape, Only, Keep
<1>6. CASE ApiCommit(c)
  <2>1. DOMAIN tx' = Clients /\ Ended(c) /\ Committed(c)
    BY <1>0, <1>6, CommitEffect, Zenon DEF ApiCommit
  <2>2. DOMAIN job' = Clients /\ \A d \in Clients : DOMAIN job'[d] = Fields
    BY <1>0, <1>6, NoJobFields, Zenon DEF ApiCommit, Shape
  <2>3. QED
    BY <1>0, <1>6, <2>1, <2>2, Zenon DEF ApiCommit, Ended, Committed, Shape, Only, Goto, Keep
<1>7. QED
  BY <1>1, <1>2, <1>3, <1>4, <1>5, <1>6, Zenon DEF Api

LEMMA RecordStep ==
  ASSUME Shape, Record
  PROVE  Shape' /\ Only(Recorder) /\ Keep
<1>0. Recorder \in Clients
  BY ClientsAssumption, Zenon
<1>1. CASE RecordBegin
  <2>1. PICK id : job' = [job EXCEPT ![Recorder].ID = id]
    BY <1>1, Zenon DEF RecordBegin
  <2>2. DOMAIN job' = Clients /\ \A d \in Clients : DOMAIN job'[d] = Fields
    BY <1>0, <2>1, Zenon DEF Shape
  <2>3. QED
    BY <1>0, <1>1, <2>1, <2>2, Zenon DEF RecordBegin, storeVars, Shape, Only, Goto, Keep
<1>2. CASE RecordSelect
  <2>1. DOMAIN job' = Clients /\ (\A d \in Clients : DOMAIN job'[d] = Fields)
        /\ \A d \in Clients \ {Recorder} : job'[d] = job[d]
    <3>1. CASE UNCHANGED job
      BY <3>1, Zenon DEF Shape
    <3>2. CASE \E key, status : job' = [job EXCEPT ![Recorder].Key = key, ![Recorder].Status = status]
      BY <1>0, <3>2, Zenon DEF Shape
    <3>3. QED
      BY <1>2, <3>1, <3>2, Zenon DEF RecordSelect
  <2>2. DOMAIN at' = Clients /\ \A d \in Clients \ {Recorder} : at'[d] = at[d]
    BY <1>0, <1>2, Zenon DEF RecordSelect, Goto, Shape
  <2>3. QED
    BY <1>2, <2>1, <2>2, Zenon DEF RecordSelect, storeVars, Shape, Only, Keep
<1>3. CASE RecordInsert
  <2>1. PICK key, value : Write(Recorder, "results", key, value)
    BY <1>3, Zenon DEF RecordInsert, RecordResult
  <2>2. DOMAIN tx' = Clients /\ Wrote(Recorder, "results", key, value)
    BY <1>0, <2>1, WriteEffect, Zenon DEF Tables
  <2>3. QED
    BY <1>0, <1>3, <2>2, Zenon DEF RecordInsert, RecordResult, Wrote, Shape, Only, Goto, Keep
<1>4. CASE RecordRefused
  <2>1. DOMAIN tx' = Clients /\ Ended(Recorder)
    BY <1>0, <1>4, EndEffect, Zenon DEF RecordRefused, Rollback
  <2>2. QED
    BY <1>0, <1>4, <2>1, Zenon DEF RecordRefused, Rollback, Ended, Shape, Only, Goto, Keep
<1>5. CASE RecordUpdate
  <2>1. PICK key, value : Write(Recorder, "operations", key, value)
    BY <1>5, Zenon DEF RecordUpdate, RecordStatus
  <2>2. DOMAIN tx' = Clients /\ Wrote(Recorder, "operations", key, value)
    BY <1>0, <2>1, WriteEffect, Zenon DEF Tables
  <2>3. QED
    BY <1>0, <1>5, <2>2, Zenon DEF RecordUpdate, RecordStatus, Wrote, Shape, Only, Goto, Keep
<1>6. CASE RecordCommit
  <2>1. DOMAIN tx' = Clients /\ Ended(Recorder) /\ Committed(Recorder)
    BY <1>0, <1>6, CommitEffect, Zenon DEF RecordCommit
  <2>2. DOMAIN job' = Clients /\ \A d \in Clients : DOMAIN job'[d] = Fields
    BY <1>0, <1>6, NoJobFields, Zenon DEF RecordCommit, Shape
  <2>3. QED
    BY <1>0, <1>6, <2>1, <2>2, Zenon DEF RecordCommit, Ended, Committed, Shape, Only, Goto, Keep
<1>7. QED
  BY <1>1, <1>2, <1>3, <1>4, <1>5, <1>6, Zenon DEF Record

LEMMA ReadStep ==
  ASSUME Shape, operationResult
  PROVE  Shape' /\ Only(Reader) /\ Keep /\ UNCHANGED storeVars
<1>0. Reader \in Clients
  BY ClientsAssumption, Zenon
<1>1. DOMAIN job' = Clients /\ (\A d \in Clients : DOMAIN job'[d] = Fields)
      /\ \A d \in Clients \ {Reader} : job'[d] = job[d]
  <2>1. CASE \E id, r : job' = [job EXCEPT ![Reader].ID = id, ![Reader].Response = r]
    BY <1>0, <2>1, Zenon DEF Shape
  <2>2. CASE \E r : job' = [job EXCEPT ![Reader].Response = r]
    BY <1>0, <2>2, Zenon DEF Shape
  <2>3. QED
    BY <2>1, <2>2, Zenon DEF operationResult
<1>2. DOMAIN at' = Clients /\ \A d \in Clients \ {Reader} : at'[d] = at[d]
  BY <1>0, Zenon DEF operationResult, Goto, Shape
<1>3. UNCHANGED storeVars /\ Keep
  BY Zenon DEF operationResult
<1>4. QED
  BY <1>1, <1>2, <1>3, Zenon DEF storeVars, Shape, Only, Keep

(* An import that stops, at a row or when the connection is lost. *)
LEMMA ImportFailsStep ==
  ASSUME Shape, ImportFails, UNCHANGED situation
  PROVE  Shape' /\ Only(Importer) /\ Ended(Importer) /\ UNCHANGED <<db, job>> /\ at'[Importer] = "failed"
<1>0. Importer \in Clients
  BY ClientsAssumption, Zenon
<1>1. DOMAIN tx' = Clients /\ Ended(Importer)
  BY <1>0, EndEffect, Zenon DEF ImportFails, Rollback
<1>2. QED
  BY <1>0, <1>1, Zenon DEF ImportFails, Rollback, Ended, Shape, Only, Goto

(* A row of the bundle that is written. *)
Written ==
  \E row \in {job[Importer].Left[1].Row}, table \in {job[Importer].Left[1].Table} :
    \/ table = "devices" /\ importDevice(Importer, row)
    \/ /\ table = "operations" /\ importOperation(Importer, row)
       /\ ~ImportWaits(Importer, row) /\ ~importOperationFails(Importer, row)
    \/ table \notin {"devices", "operations"} /\ importRow(Importer, table, row)

LEMMA ImportRowCases ==
  ASSUME ImportRow
  PROVE  /\ at[Importer] = "rows" /\ job[Importer].Left # <<>> /\ Keep
         /\ ImportFails \/ (Written /\ ImportGoesOn)
<1> DEFINE r == job[Importer].Left[1].Row
           table == job[Importer].Left[1].Table
<1>1. CASE table = "devices"
  BY <1>1, Zenon DEF ImportRow, Written
<1>2. CASE table = "operations"
  BY <1>2, Zenon DEF ImportRow, Written
<1>3. CASE table \notin {"devices", "operations"}
  BY <1>3, Zenon DEF ImportRow, Written
<1>4. QED
  BY <1>1, <1>2, <1>3, Zenon

LEMMA WrittenStep ==
  ASSUME Shape, Written, ImportGoesOn, Keep
  PROVE  /\ Shape' /\ Only(Importer) /\ UNCHANGED <<db, at>>
         /\ job'[Importer].Left = Tail(job[Importer].Left)
         /\ \E table, key, value : table \in {"devices", "operations", "rows"} /\ Wrote(Importer, table, key, value)
<1>0. Importer \in Clients
  BY ClientsAssumption, Zenon
<1>1. UNCHANGED <<db, at>>
  BY Zenon DEF Written, importDevice, importOperation, importRow, ImportGoesOn
<1>2. PICK table, key, value : table \in {"devices", "operations", "rows"} /\ Write(Importer, table, key, value)
  BY DEF Written, importDevice, importOperation, importRow
<1>3. DOMAIN tx' = Clients /\ Wrote(Importer, table, key, value)
  BY <1>0, <1>2, WriteEffect, Zenon DEF Tables
<1>4. /\ DOMAIN job' = Clients /\ (\A d \in Clients : DOMAIN job'[d] = Fields)
      /\ job'[Importer].Left = Tail(job[Importer].Left)
      /\ \A d \in Clients \ {Importer} : job'[d] = job[d]
  BY <1>0, Zenon DEF ImportGoesOn, Shape, Fields
<1>5. QED
  BY <1>1, <1>2, <1>3, <1>4 DEF Wrote, Shape, Only, Keep

LEMMA ImportStep ==
  ASSUME Shape, Import \/ ImportAborts
  PROVE  Shape' /\ Only(Importer) /\ UNCHANGED situation
<1>0. Importer \in Clients
  BY ClientsAssumption, Zenon
<1>1. CASE ImportValidate
  <2>1. DOMAIN job' = Clients /\ (\A d \in Clients : DOMAIN job'[d] = Fields)
        /\ \A d \in Clients \ {Importer} : job'[d] = job[d]
    <3>1. CASE UNCHANGED job
      BY <3>1, Zenon DEF Shape
    <3>2. CASE \E left : job' = [job EXCEPT ![Importer].Left = left]
      BY <1>0, <3>2, Zenon DEF Shape
    <3>3. QED
      BY <1>1, <3>1, <3>2, Zenon DEF ImportValidate
  <2>2. DOMAIN at' = Clients /\ \A d \in Clients \ {Importer} : at'[d] = at[d]
    BY <1>0, <1>1, Zenon DEF ImportValidate, Goto, Shape
  <2>3. QED
    BY <1>1, <2>1, <2>2, Zenon DEF ImportValidate, storeVars, Shape, Only, Keep
<1>2. CASE ImportRow
  BY <1>2, ImportRowCases, ImportFailsStep, WrittenStep, Zenon DEF Keep
<1>3. CASE ImportSync
  BY <1>0, <1>3, Zenon DEF ImportSync, syncImportSequences, Goto, Shape, Only, Keep
<1>4. CASE ImportCommit
  <2>1. DOMAIN tx' = Clients /\ Ended(Importer) /\ Committed(Importer)
    BY <1>0, <1>4, CommitEffect, Zenon DEF ImportCommit
  <2>2. QED
    BY <1>0, <1>4, <2>1, Zenon DEF ImportCommit, Ended, Committed, Shape, Only, Goto
<1>5. CASE ImportAborts
  BY <1>5, ImportFailsStep, Zenon DEF ImportAborts, Keep
<1>6. QED
  BY <1>1, <1>2, <1>3, <1>4, <1>5, Zenon DEF Import

-----------------------------------------------------------------------------
(* What a step leaves of the committed rows: a device keeps its next       *)
(* number unless the client's transaction has the device, and the other    *)
(* tables change only by a commit of all the transaction has.              *)
Persists(c) ==
  /\ DOMAIN db.devices \subseteq DOMAIN db'.devices
  /\ \A e \in DOMAIN db.devices \ DOMAIN tx[c].devices : db'.devices[e].Sequence = db.devices[e].Sequence
  /\ \/ \A t \in Tables \ {"devices"} : db'[t] = db[t]
     \/ Committed(c)

LEMMA UnchangedPersists ==
  ASSUME NEW c, UNCHANGED db
  PROVE  Persists(c)
BY Zenon DEF Persists

LEMMA CommittedPersists ==
  ASSUME NEW c, Committed(c)
  PROVE  Persists(c)
<1>1. "devices" \in Tables
  BY Zenon DEF Tables
<1>2. /\ DOMAIN db'["devices"] = DOMAIN tx[c]["devices"] \cup DOMAIN db["devices"]
      /\ \A k \in DOMAIN db["devices"] \ DOMAIN tx[c]["devices"] : db'["devices"][k] = db["devices"][k]
  BY <1>1, Zenon DEF Committed
<1>3. QED
  BY <1>2, Zenon DEF Persists

LEMMA ApiPersists ==
  ASSUME Shape, NEW c \in Apis, Api(c)
  PROVE  Persists(c)
<1>0. c \in Clients
  BY ClientsAssumption, Zenon
<1>1. CASE ApiRegister(c)
  <2>1. CASE Target(c) \in DOMAIN db.devices
    BY <1>1, <2>1, UnchangedPersists, Zenon DEF ApiRegister, RegisterDevice
  <2>2. CASE Target(c) \notin DOMAIN db.devices
    <3>1. db' = [db EXCEPT !.devices = Put(db.devices, Target(c), NewDevice)]
      BY <1>1, <2>2, Zenon DEF ApiRegister, RegisterDevice
    <3>2. /\ db'.devices = Put(db.devices, Target(c), NewDevice)
          /\ \A t \in Tables \ {"devices"} : db'[t] = db[t]
      BY <3>1, Zenon DEF Shape, Tables
    <3>3. QED
      BY <2>2, <3>2, Zenon DEF Persists, Put
  <2>3. QED
    BY <2>1, <2>2, Zenon
<1>2. CASE ApiSign(c)
  <2>1. db' = [db EXCEPT !.devices[Target(c)].Counter = db.devices[Target(c)].Counter + 1]
    BY <1>2, Zenon DEF ApiSign, NextEUICCPackageCounter
  <2>2. /\ DOMAIN db'.devices = DOMAIN db.devices
        /\ \A t \in Tables \ {"devices"} : db'[t] = db[t]
        /\ \A e \in DOMAIN db.devices : db'.devices[e].Sequence = db.devices[e].Sequence
    BY <2>1 DEF Shape, Tables
  <2>3. QED
    BY <2>2, Zenon DEF Persists
<1>3. CASE ApiNumber(c) \/ ApiID(c)
  BY <1>3, UnchangedPersists, Zenon DEF ApiNumber, ApiID, EnqueueNumber, EnqueueID
<1>4. CASE ApiRow(c)
  BY <1>4, UnchangedPersists, Zenon DEF ApiRow, Rollback, EnqueueRow
<1>5. CASE ApiCommit(c)
  BY <1>0, <1>5, CommitEffect, CommittedPersists, Zenon DEF ApiCommit
<1>6. QED
  BY <1>1, <1>2, <1>3, <1>4, <1>5, Zenon DEF Api

LEMMA RecordPersists ==
  ASSUME Shape, Record
  PROVE  Persists(Recorder)
<1>0. Recorder \in Clients
  BY ClientsAssumption, Zenon
<1>1. CASE RecordCommit
  BY <1>0, <1>1, CommitEffect, CommittedPersists, Zenon DEF RecordCommit
<1>2. CASE ~RecordCommit
  BY <1>2, UnchangedPersists, Zenon DEF Record, RecordBegin, RecordSelect, RecordInsert, RecordResult,
     RecordRefused, Rollback, RecordUpdate, RecordStatus, storeVars
<1>3. QED
  BY <1>1, <1>2, Zenon

LEMMA ImportPersists ==
  ASSUME Shape, Import \/ ImportAborts
  PROVE  Persists(Importer)
<1>0. Importer \in Clients
  BY ClientsAssumption, Zenon
<1>1. CASE ImportCommit
  BY <1>0, <1>1, CommitEffect, CommittedPersists, Zenon DEF ImportCommit
<1>2. CASE ImportValidate \/ ImportSync
  BY <1>2, UnchangedPersists, Zenon DEF ImportValidate, ImportSync, syncImportSequences, storeVars
<1>3. CASE ImportRow
  BY <1>3, ImportRowCases, ImportFailsStep, WrittenStep, UnchangedPersists, Zenon DEF Keep
<1>4. CASE ImportAborts
  BY <1>4, ImportFailsStep, UnchangedPersists, Zenon DEF ImportAborts, Keep
<1>5. QED
  BY <1>1, <1>2, <1>3, <1>4, Zenon DEF Import

-----------------------------------------------------------------------------
(* What the open transactions hold. *)
DeviceRow == [Sequence : Nat, Counter : Nat]

WellFormed(rows) ==
  /\ \A e \in DOMAIN rows.devices : rows.devices[e] \in DeviceRow
  /\ \A k \in DOMAIN rows.operations :
       k[2] \in Nat /\ DOMAIN rows.operations[k] = {"ID", "Status", "From"}

Enqueueing(c) == at[c] \in {"id", "row", "commit"}

(* An enqueue has the device from its number on, so the number it read is  *)
(* the device's until it commits the next one.                             *)
ApiHolds(c) ==
  /\ WellFormed(tx[c])
  /\ DOMAIN tx[c].results = {} /\ DOMAIN tx[c].rows = {}
  /\ at[c] \in {"sign", "number"} => Target(c) \in DOMAIN db.devices
  /\ Enqueueing(c) =>
       /\ DOMAIN tx[c].devices = {Target(c)} /\ Target(c) \in DOMAIN db.devices
       /\ job[c].Number = db.devices[Target(c)].Sequence
       /\ tx[c].devices[Target(c)].Sequence = job[c].Number + 1
  /\ ~Enqueueing(c) => DOMAIN tx[c].devices = {}
  /\ at[c] = "commit" =>
       /\ DOMAIN tx[c].operations = {<<Target(c), job[c].Number>>}
       /\ \A k \in DOMAIN tx[c].operations :
            tx[c].operations[k].From = c /\ tx[c].operations[k].Status = "pending"
  /\ at[c] # "commit" => DOMAIN tx[c].operations = {}

Selected == at[Recorder] \in {"result", "status", "commit"}

(* The operation whose status is written is one that is there. *)
RecorderHolds ==
  /\ WellFormed(tx[Recorder])
  /\ DOMAIN tx[Recorder].devices = {} /\ DOMAIN tx[Recorder].rows = {}
  /\ Selected => job[Recorder].Key \in DOMAIN db.operations
  /\ at[Recorder] \in {"status", "commit"} =>
       /\ DOMAIN tx[Recorder].results = {job[Recorder].Key}
       /\ tx[Recorder].results[job[Recorder].Key].OperationID = job[Recorder].ID
  /\ at[Recorder] \notin {"status", "commit"} => DOMAIN tx[Recorder].results = {}
  /\ at[Recorder] # "commit" => DOMAIN tx[Recorder].operations = {}
  /\ \A k \in DOMAIN tx[Recorder].operations :
       /\ k \in DOMAIN db.operations
       /\ tx[Recorder].operations[k].ID = job[Recorder].ID
       /\ db.operations[k].ID = job[Recorder].ID
       /\ tx[Recorder].operations[k].From = db.operations[k].From

ImporterHolds ==
  /\ WellFormed(tx[Importer])
  /\ DOMAIN tx[Importer].results = {}
  /\ at[Importer] \notin {"rows", "commit"} => \A t \in Tables : DOMAIN tx[Importer][t] = {}
  /\ \A k \in DOMAIN tx[Importer].operations : tx[Importer].operations[k].From = "bundle"

Locks ==
  \A c \in Clients : \A other \in Clients \ {c} : \A t \in {"devices", "operations"} :
    DOMAIN tx[c][t] \cap DOMAIN tx[other][t] = {}

Holding ==
  /\ WellFormed(db)
  /\ \A c \in Apis : ApiHolds(c)
  /\ RecorderHolds
  /\ \A t \in Tables : DOMAIN tx[Reader][t] = {}
  /\ ImporterHolds
  /\ Locks

-----------------------------------------------------------------------------
(* What is left of the bundle: rows of its files, the devices first. *)
Entries(payload) == [Table : FileNames, Row : UNION {Range(payload[name]) : name \in FileNames}]
Fits(payload, rows) == \A i \in DOMAIN rows : rows[i].Row \in Range(payload[rows[i].Table])
NoDevices(rows) == \A i \in DOMAIN rows : rows[i].Table # "devices"
DevicesFirst(rows) ==
  \A i, j \in DOMAIN rows : (i < j /\ rows[j].Table = "devices") => rows[i].Table = "devices"

LEMMA TableRowsFit ==
  ASSUME NEW payload, NEW name \in FileNames, payload[name] \in Seq(Range(payload[name]))
  PROVE  /\ TableRows(name, payload) \in Seq(Entries(payload))
         /\ Len(TableRows(name, payload)) = Len(payload[name])
         /\ Fits(payload, TableRows(name, payload))
         /\ \A i \in DOMAIN TableRows(name, payload) : TableRows(name, payload)[i].Table = name
         /\ \A r \in Range(payload[name]) :
              \E i \in DOMAIN TableRows(name, payload) : TableRows(name, payload)[i] = [Table |-> name, Row |-> r]
<1> DEFINE n == Len(payload[name])
           rows == TableRows(name, payload)
<1>1. n \in Nat /\ DOMAIN payload[name] = 1..n
  OBVIOUS
<1>2. \A i \in 1..n : payload[name][i] \in Range(payload[name])
  BY <1>1, Zenon DEF Range
<1>3. rows = [i \in 1..n |-> [Table |-> name, Row |-> payload[name][i]]]
  BY Zenon DEF TableRows
<1>4. \A i \in 1..n : [Table |-> name, Row |-> payload[name][i]] \in Entries(payload)
  <2>1. \A i \in 1..n : payload[name][i] \in UNION {Range(payload[m]) : m \in FileNames}
    BY <1>2, Zenon
  <2>2. QED
    BY <2>1, Zenon DEF Entries
<1>5. rows \in Seq(Entries(payload)) /\ Len(rows) = n
  BY <1>1, <1>3, <1>4
<1>6. Fits(payload, rows) /\ \A i \in DOMAIN rows : rows[i].Table = name
  BY <1>1, <1>2, <1>3 DEF Fits
<1>7. \A r \in Range(payload[name]) : \E i \in DOMAIN rows : rows[i] = [Table |-> name, Row |-> r]
  BY <1>1, <1>3 DEF Range
<1>8. QED
  BY <1>5, <1>6, <1>7, Zenon

LEMMA JoinFits ==
  ASSUME NEW payload, NEW s \in Seq(Entries(payload)), NEW t \in Seq(Entries(payload)),
         Fits(payload, s), Fits(payload, t)
  PROVE  s \o t \in Seq(Entries(payload)) /\ Fits(payload, s \o t)
<1>1. s \o t \in Seq(Entries(payload)) /\ Len(s \o t) = Len(s) + Len(t)
  OBVIOUS
<1>2. ASSUME NEW i \in DOMAIN (s \o t)
      PROVE  (s \o t)[i].Row \in Range(payload[(s \o t)[i].Table])
  <2>1. CASE i \in DOMAIN s
    BY <2>1 DEF Fits
  <2>2. CASE i \notin DOMAIN s
    <3>1. i - Len(s) \in DOMAIN t /\ (s \o t)[i] = t[i - Len(s)]
      BY <1>1, <2>2
    <3>2. QED
      BY <3>1, Zenon DEF Fits
  <2>3. QED
    BY <2>1, <2>2, Zenon
<1>3. QED
  BY <1>1, <1>2, Zenon DEF Fits

LEMMA JoinNoDevices ==
  ASSUME NEW E, NEW s \in Seq(E), NEW t \in Seq(E), NoDevices(s), NoDevices(t)
  PROVE  NoDevices(s \o t)
<1> SUFFICES ASSUME NEW i \in DOMAIN (s \o t) PROVE (s \o t)[i].Table # "devices"
  BY Zenon DEF NoDevices
<1>1. CASE i \in DOMAIN s
  BY <1>1 DEF NoDevices
<1>2. CASE i \notin DOMAIN s
  <2>1. i - Len(s) \in DOMAIN t /\ (s \o t)[i] = t[i - Len(s)]
    BY <1>2
  <2>2. QED
    BY <2>1, Zenon DEF NoDevices
<1>3. QED
  BY <1>1, <1>2, Zenon

LEMMA JoinDevicesFirst ==
  ASSUME NEW E, NEW s \in Seq(E), NEW t \in Seq(E),
         \A i \in DOMAIN s : s[i].Table = "devices", NoDevices(t)
  PROVE  DevicesFirst(s \o t)
<1> SUFFICES ASSUME NEW i \in DOMAIN (s \o t), NEW j \in DOMAIN (s \o t), i < j,
                    (s \o t)[j].Table = "devices"
             PROVE  (s \o t)[i].Table = "devices"
  BY Zenon DEF DevicesFirst
<1>1. j \in DOMAIN s
  <2>1. CASE j \notin DOMAIN s
    <3>1. j - Len(s) \in DOMAIN t /\ (s \o t)[j] = t[j - Len(s)]
      BY <2>1
    <3>2. QED
      BY <3>1, Zenon DEF NoDevices
  <2>2. QED
    BY <2>1, Zenon
<1>2. i \in DOMAIN s /\ (s \o t)[i] = s[i]
  BY <1>1
<1>3. QED
  BY <1>2, Zenon

LEMMA ImportOrderFits ==
  ASSUME NEW payload, \A name \in FileNames : payload[name] \in Seq(Range(payload[name]))
  PROVE  /\ InOrder(ImportOrder, payload) \in Seq(Entries(payload))
         /\ Fits(payload, InOrder(ImportOrder, payload))
         /\ DevicesFirst(InOrder(ImportOrder, payload))
         /\ \A d \in Range(payload["devices"]) : \E i \in DOMAIN InOrder(ImportOrder, payload) :
              InOrder(ImportOrder, payload)[i] = [Table |-> "devices", Row |-> d]
<1> DEFINE T(name) == TableRows(name, payload)
           t5 == T("operations") \o T("notifications")
           t4 == T("associated_eim") \o t5
           t3 == T("profile_state") \o t4
           t2 == T("euicc_state") \o t3
           all == T("devices") \o t2
<1>0. InOrder(ImportOrder, payload) = all
  BY Zenon DEF InOrder, ImportOrder
<1>1. FileNames = {"devices", "euicc_state", "profile_state", "associated_eim", "operations", "notifications"}
  BY Zenon DEF FileNames
<1>2. \A name \in FileNames :
        /\ T(name) \in Seq(Entries(payload)) /\ Fits(payload, T(name))
        /\ \A i \in DOMAIN T(name) : T(name)[i].Table = name
  BY TableRowsFit, Zenon
<1>3. \A name \in FileNames \ {"devices"} : NoDevices(T(name))
  BY <1>2, Zenon DEF NoDevices
<1>4. \A r \in Range(payload["devices"]) :
        \E i \in DOMAIN T("devices") : T("devices")[i] = [Table |-> "devices", Row |-> r]
  <2>1. "devices" \in FileNames /\ payload["devices"] \in Seq(Range(payload["devices"]))
    BY <1>1, Zenon
  <2>2. QED
    BY <2>1, TableRowsFit, Zenon
<1> HIDE DEF T
<1>5. t5 \in Seq(Entries(payload)) /\ Fits(payload, t5) /\ NoDevices(t5)
  BY <1>1, <1>2, <1>3, JoinFits, JoinNoDevices, Zenon
<1> HIDE DEF t5
<1>6. t4 \in Seq(Entries(payload)) /\ Fits(payload, t4) /\ NoDevices(t4)
  BY <1>1, <1>2, <1>3, <1>5, JoinFits, JoinNoDevices, Zenon
<1> HIDE DEF t4
<1>7. t3 \in Seq(Entries(payload)) /\ Fits(payload, t3) /\ NoDevices(t3)
  BY <1>1, <1>2, <1>3, <1>6, JoinFits, JoinNoDevices, Zenon
<1> HIDE DEF t3
<1>8. t2 \in Seq(Entries(payload)) /\ Fits(payload, t2) /\ NoDevices(t2)
  BY <1>1, <1>2, <1>3, <1>7, JoinFits, JoinNoDevices, Zenon
<1> HIDE DEF t2
<1>9. all \in Seq(Entries(payload)) /\ Fits(payload, all)
  BY <1>1, <1>2, <1>8, JoinFits, Zenon
<1>10. DevicesFirst(all)
  BY <1>1, <1>2, <1>8, JoinDevicesFirst, Zenon
<1>11. ASSUME NEW d \in Range(payload["devices"])
       PROVE  \E i \in DOMAIN all : all[i] = [Table |-> "devices", Row |-> d]
  <2>1. PICK i \in DOMAIN T("devices") : T("devices")[i] = [Table |-> "devices", Row |-> d]
    BY <1>4, Zenon
  <2>2. T("devices") \in Seq(Entries(payload)) /\ t2 \in Seq(Entries(payload))
    BY <1>1, <1>2, <1>8, Zenon
  <2>3. i \in DOMAIN all /\ all[i] = T("devices")[i]
    BY <2>1, <2>2
  <2>4. QED
    BY <2>1, <2>3, Zenon
<1>12. QED
  BY <1>0, <1>9, <1>10, <1>11, Zenon

LEMMA TailFits ==
  ASSUME NEW payload, NEW rows \in Seq(Entries(payload)), rows # <<>>,
         Fits(payload, rows), DevicesFirst(rows)
  PROVE  Tail(rows) \in Seq(Entries(payload)) /\ Fits(payload, Tail(rows)) /\ DevicesFirst(Tail(rows))
<1>1. Tail(rows) \in Seq(Entries(payload)) /\ Len(Tail(rows)) = Len(rows) - 1
  OBVIOUS
<1>2. \A i \in DOMAIN Tail(rows) : i + 1 \in DOMAIN rows /\ Tail(rows)[i] = rows[i + 1]
  BY <1>1
<1>3. \A i \in DOMAIN Tail(rows) : i \in Int
  BY <1>1
<1>4. Fits(payload, Tail(rows))
  BY <1>2, Zenon DEF Fits
<1>5. DevicesFirst(Tail(rows))
  BY <1>2, <1>3 DEF DevicesFirst
<1>6. QED
  BY <1>1, <1>4, <1>5, Zenon

Payload == Accepted(situation)[1]

Leftover ==
  at[Importer] \in {"rows", "commit"} =>
    /\ Accepted(situation) # <<>>
    /\ job[Importer].Left \in Seq(Entries(Payload))
    /\ Fits(Payload, job[Importer].Left) /\ DevicesFirst(job[Importer].Left)
    /\ at[Importer] = "commit" => job[Importer].Left = <<>>

LEMMA LeftoverStep ==
  ASSUME Shape, Leftover, [Next]_vars
  PROVE  Leftover'
<1>0. Importer \in Clients /\ \A c \in Apis \cup {Recorder, Reader} : Importer \in Clients \ {c}
  BY ClientsAssumption, Zenon
<1>1. ASSUME NEW c \in Apis \cup {Recorder, Reader}, Only(c), Keep
      PROVE  Leftover'
  BY <1>0, <1>1, Zenon DEF Only, Keep, Leftover, Payload
<1>2. CASE \E c \in Apis : Api(c)
  BY <1>1, <1>2, ApiStep, Zenon
<1>3. CASE Record
  BY <1>1, <1>3, RecordStep, Zenon
<1>4. CASE operationResult
  BY <1>1, <1>4, ReadStep, Zenon
<1>5. CASE ImportValidate
  <2>1. CASE Accepted(situation) = <<>>
    <3>1. at'[Importer] = "failed"
      BY <1>0, <1>5, <2>1, Zenon DEF ImportValidate, Goto, Shape
    <3>2. QED
      BY <3>1, Zenon DEF Leftover
  <2>2. CASE Accepted(situation) # <<>>
    <3>1. /\ at'[Importer] = "rows" /\ situation' = situation
          /\ job'[Importer].Left = InOrder(ImportOrder, Payload)
      BY <1>0, <1>5, <2>2 DEF ImportValidate, Goto, Shape, Keep, Fields, Payload
    <3>2. \A name \in FileNames : Payload[name] \in Seq(Range(Payload[name]))
      BY <2>2, BundlesAssumption, Zenon DEF Shape, Payload
    <3>3. QED
      BY <2>2, <3>1, <3>2, ImportOrderFits DEF Leftover, Payload
  <2>3. QED
    BY <2>1, <2>2, Zenon
<1>6. CASE ImportRow
  <2>1. at[Importer] = "rows" /\ job[Importer].Left # <<>> /\ situation' = situation
    BY <1>6, ImportRowCases, Zenon DEF Keep
  <2>2. CASE ImportFails
    BY <2>1, <2>2, ImportFailsStep, Zenon DEF Leftover
  <2>3. CASE Written /\ ImportGoesOn
    <3>1. at' = at /\ job'[Importer].Left = Tail(job[Importer].Left)
      BY <1>6, <2>3, ImportRowCases, WrittenStep, Zenon
    <3>2. QED
      BY <2>1, <3>1, TailFits, Zenon DEF Leftover, Payload
  <2>4. QED
    BY <1>6, <2>2, <2>3, ImportRowCases, Zenon
<1>7. CASE ImportSync
  <2>1. at'[Importer] = "commit" /\ at[Importer] = "rows" /\ job[Importer].Left = <<>>
    BY <1>0, <1>7, Zenon DEF ImportSync, Goto, Shape
  <2>2. UNCHANGED <<situation, job>>
    BY <1>7, Zenon DEF ImportSync, Keep
  <2>3. QED
    BY <2>1, <2>2, Zenon DEF Leftover, Payload
<1>8. CASE ImportCommit
  BY <1>0, <1>8, Zenon DEF ImportCommit, Goto, Shape, Leftover
<1>9. CASE ImportAborts
  BY <1>9, ImportFailsStep, Zenon DEF ImportAborts, Keep, Leftover
<1>10. CASE UNCHANGED vars
  BY <1>10, Zenon DEF vars, Leftover, Payload
<1>11. QED
  BY <1>2, <1>3, <1>4, <1>5, <1>6, <1>7, <1>8, <1>9, <1>10, Zenon DEF Next, Import

LEMMA ShapeStep ==
  ASSUME Shape, [Next]_vars
  PROVE  Shape'
<1>1. CASE Next
  BY <1>1, ApiStep, RecordStep, ReadStep, ImportStep, Zenon DEF Next
<1>2. CASE UNCHANGED vars
  BY <1>2, Zenon DEF vars, storeVars, Shape
<1>3. QED
  BY <1>1, <1>2, Zenon

LEMMA ShapeInit ==
  ASSUME Init
  PROVE  Shape /\ Leftover
<1>1. Shape
  <2>1. situation \in Situations /\ DOMAIN db = Tables
    BY DatabasesAssumption, NoRowsEmpty, Zenon DEF Init
  <2>2. DOMAIN tx = Clients /\ \A c \in Clients : DOMAIN tx[c] = Tables
    BY NoRowsEmpty, Zenon DEF Init
  <2>3. DOMAIN at = Clients /\ DOMAIN job = Clients
    BY Zenon DEF Init
  <2>4. \A c \in Clients : DOMAIN job[c] = Fields
    BY NoJobFields, Zenon DEF Init
  <2>5. QED
    BY <2>1, <2>2, <2>3, <2>4, Zenon DEF Shape
<1>2. at[Importer] \in {"done", "validate"}
  BY ClientsAssumption, Zenon DEF Init
<1>3. QED
  BY <1>1, <1>2, Zenon DEF Leftover

-----------------------------------------------------------------------------
(* The others hold what they held. *)
LEMMA ApiKept ==
  ASSUME Shape, Locks, NEW c \in Clients, NEW d \in Apis, d # c, Only(c), Persists(c), ApiHolds(d)
  PROVE  ApiHolds(d)'
<1>1. d \in Clients \ {c}
  BY ClientsAssumption, Zenon
<1>2. at'[d] = at[d] /\ job'[d] = job[d] /\ tx'[d] = tx[d]
  BY <1>1, Zenon DEF Only
<1>3. Target(d)' = Target(d) /\ Enqueueing(d)' = Enqueueing(d) /\ WellFormed(tx[d])' = WellFormed(tx[d])
  BY <1>2, Zenon DEF Target, Enqueueing, WellFormed
<1>4. Target(d) \in DOMAIN db.devices => Target(d) \in DOMAIN db'.devices
  BY Zenon DEF Persists
<1>5. Enqueueing(d) => db'.devices[Target(d)].Sequence = db.devices[Target(d)].Sequence
  <2>1. DOMAIN tx[c].devices \cap DOMAIN tx[d].devices = {}
    BY <1>1, Zenon DEF Locks
  <2>2. QED
    BY <2>1, Zenon DEF Persists, ApiHolds
<1>6. QED
  BY <1>2, <1>3, <1>4, <1>5, Zenon DEF ApiHolds

LEMMA RecorderKept ==
  ASSUME Shape, Locks, NEW c \in Clients, c # Recorder, Only(c), Persists(c), RecorderHolds
  PROVE  RecorderHolds'
<1>1. Recorder \in Clients \ {c}
  BY ClientsAssumption, Zenon
<1>2. at'[Recorder] = at[Recorder] /\ job'[Recorder] = job[Recorder] /\ tx'[Recorder] = tx[Recorder]
  BY <1>1, Zenon DEF Only
<1>3. Selected' = Selected /\ WellFormed(tx[Recorder])' = WellFormed(tx[Recorder])
  BY <1>2, Zenon DEF Selected, WellFormed
<1>4. DOMAIN db.operations \subseteq DOMAIN db'.operations
  BY Zenon DEF Persists, Committed, Tables
<1>5. ASSUME NEW k \in DOMAIN tx[Recorder].operations
      PROVE  db'.operations[k] = db.operations[k]
  <2>1. k \notin DOMAIN tx[c].operations /\ k \in DOMAIN db.operations
    BY <1>1, Zenon DEF Locks, RecorderHolds
  <2>2. QED
    BY <2>1, Zenon DEF Persists, Committed, Tables
<1>6. QED
  BY <1>2, <1>3, <1>4, <1>5, Zenon DEF RecorderHolds

LEMMA ImporterKept ==
  ASSUME NEW c \in Clients, c # Importer, Only(c), ImporterHolds
  PROVE  ImporterHolds'
<1>1. Importer \in Clients \ {c}
  BY ClientsAssumption, Zenon
<1>2. at'[Importer] = at[Importer] /\ tx'[Importer] = tx[Importer]
  BY <1>1, Zenon DEF Only
<1>3. QED
  BY <1>2, Zenon DEF ImporterHolds, WellFormed

(* Rows are taken only when no other transaction has them. *)
LEMMA LocksKept ==
  ASSUME Locks, NEW c \in Clients, Only(c),
         \A t \in {"devices", "operations"} : \A k \in DOMAIN tx'[c][t] :
           k \in DOMAIN tx[c][t] \/ Free(c, t, k)
  PROVE  Locks'
<1> SUFFICES ASSUME NEW a \in Clients, NEW b \in Clients \ {a}, NEW t \in {"devices", "operations"},
                    NEW k \in DOMAIN tx'[a][t], k \in DOMAIN tx'[b][t]
             PROVE  FALSE
  BY Zenon DEF Locks
<1>1. CASE a = c
  <2>1. tx'[b] = tx[b]
    BY <1>1, Zenon DEF Only
  <2>2. k \in DOMAIN tx[a][t] \/ Free(a, t, k)
    BY <1>1, Zenon
  <2>3. QED
    BY <2>1, <2>2, Zenon DEF Locks, Free
<1>2. CASE b = c
  <2>1. tx'[a] = tx[a] /\ a \in Clients \ {b}
    BY <1>2, Zenon DEF Only
  <2>2. k \in DOMAIN tx[b][t] \/ Free(b, t, k)
    BY <1>2, Zenon
  <2>3. QED
    BY <2>1, <2>2, Zenon DEF Locks, Free
<1>3. CASE a # c /\ b # c
  BY <1>3, Zenon DEF Only, Locks
<1>4. QED
  BY <1>1, <1>2, <1>3, Zenon

LEMMA CommittedWellFormed ==
  ASSUME NEW c \in Clients, WellFormed(db), WellFormed(tx[c]), Committed(c)
  PROVE  WellFormed(db)'
<1>1. \A e \in DOMAIN db'.devices : db'.devices[e] \in DeviceRow
  BY Zenon DEF WellFormed, Committed, Tables
<1>2. \A k \in DOMAIN db'.operations :
        k[2] \in Nat /\ DOMAIN db'.operations[k] = {"ID", "Status", "From"}
  BY DEF WellFormed, Committed, Tables
<1>3. QED
  BY <1>1, <1>2, Zenon DEF WellFormed

(* What a step of a client has to show for its own transaction. *)
LEMMA HoldingFrame ==
  ASSUME Shape, Holding, NEW c \in Clients, Only(c), Persists(c),
         WellFormed(db)',
         \A t \in {"devices", "operations"} : \A k \in DOMAIN tx'[c][t] :
           k \in DOMAIN tx[c][t] \/ Free(c, t, k),
         c \in Apis => ApiHolds(c)',
         c = Recorder => RecorderHolds',
         c = Reader => \A t \in Tables : DOMAIN tx'[Reader][t] = {},
         c = Importer => ImporterHolds'
  PROVE  Holding'
<1>1. Locks'
  BY LocksKept, Zenon DEF Holding
<1>2. \A d \in Apis : ApiHolds(d)'
  BY ApiKept, Zenon DEF Holding
<1>3. RecorderHolds'
  BY RecorderKept, Zenon DEF Holding
<1>4. ImporterHolds'
  BY ImporterKept, Zenon DEF Holding
<1>5. \A t \in Tables : DOMAIN tx'[Reader][t] = {}
  <2>1. CASE c = Reader
    BY <2>1, Zenon
  <2>2. CASE c # Reader
    BY <2>2, ClientsAssumption, Zenon DEF Only, Holding
  <2>3. QED
    BY <2>1, <2>2, Zenon
<1>6. QED
  BY <1>1, <1>2, <1>3, <1>4, <1>5, Zenon DEF Holding

LEMMA ApiHolding ==
  ASSUME Shape, Holding, NEW c \in Apis, Api(c)
  PROVE  Holding'
<1>0. c \in Clients /\ c # Recorder /\ c # Reader /\ c # Importer
  BY ClientsAssumption, Zenon
<1>1. Only(c) /\ Persists(c) /\ Shape'
  BY ApiStep, ApiPersists, Zenon
<1>2. ApiHolds(c) /\ WellFormed(db)
  BY Zenon DEF Holding
<1>3. CASE ApiRegister(c)
  <2>1. tx' = tx /\ job' = job /\ at[c] = "register" /\ at'[c] \in {"sign", "number"}
    BY <1>0, <1>3, Zenon DEF ApiRegister, RegisterDevice, Goto, Shape
  <2>2. Target(c) \in DOMAIN db'.devices /\ WellFormed(db)'
    <3>1. CASE Target(c) \in DOMAIN db.devices
      BY <1>2, <1>3, <3>1, Zenon DEF ApiRegister, RegisterDevice
    <3>2. CASE Target(c) \notin DOMAIN db.devices
      <4>1. db'.devices = Put(db.devices, Target(c), NewDevice) /\ db'.operations = db.operations
        BY <1>3, <3>2, Zenon DEF ApiRegister, RegisterDevice, Shape, Tables
      <4>2. NewDevice \in DeviceRow
        BY Zenon DEF NewDevice, DeviceRow
      <4>3. QED
        BY <1>2, <4>1, <4>2, Zenon DEF WellFormed, Put
    <3>3. QED
      BY <3>1, <3>2, Zenon
  <2>3. ApiHolds(c)'
    BY <1>2, <2>1, <2>2, Zenon DEF ApiHolds, Enqueueing, Target, WellFormed
  <2>4. QED
    BY <1>0, <1>1, <2>1, <2>2, <2>3, HoldingFrame, Zenon
<1>4. CASE ApiSign(c)
  <2>1. tx' = tx /\ job' = job /\ at[c] = "sign" /\ at'[c] = "number"
    BY <1>0, <1>4, Zenon DEF ApiSign, NextEUICCPackageCounter, Goto, Shape
  <2>2. Target(c) \in DOMAIN db.devices /\ db.devices[Target(c)] \in DeviceRow
    BY <1>2, <2>1, Zenon DEF ApiHolds, WellFormed
  <2>3. db' = [db EXCEPT !.devices[Target(c)].Counter = db.devices[Target(c)].Counter + 1]
    BY <1>4, Zenon DEF ApiSign, NextEUICCPackageCounter
  <2>4. /\ DOMAIN db'.devices = DOMAIN db.devices /\ db'.operations = db.operations
        /\ \A e \in DOMAIN db.devices \ {Target(c)} : db'.devices[e] = db.devices[e]
        /\ db'.devices[Target(c)] =
             [db.devices[Target(c)] EXCEPT !.Counter = db.devices[Target(c)].Counter + 1]
    BY <2>2, <2>3, Zenon DEF Shape, Tables
  <2>5. db'.devices[Target(c)] \in DeviceRow
    BY <2>2, <2>4 DEF DeviceRow
  <2>6. WellFormed(db)'
    BY <1>2, <2>4, <2>5, Zenon DEF WellFormed
  <2>7. ApiHolds(c)'
    BY <1>2, <2>1, <2>4, Zenon DEF ApiHolds, Enqueueing, Target, WellFormed
  <2>8. QED
    BY <1>0, <1>1, <2>1, <2>6, <2>7, HoldingFrame, Zenon
<1>5. CASE ApiNumber(c)
  <2> DEFINE eid == Target(c)
             row == [db.devices[eid] EXCEPT !.Sequence = db.devices[eid].Sequence + 1]
  <2>1. db' = db /\ at[c] = "number" /\ at'[c] = "id" /\ Free(c, "devices", eid)
    BY <1>0, <1>5, Zenon DEF ApiNumber, EnqueueNumber, Goto, Shape
  <2>2. job'[c].Number = db.devices[eid].Sequence /\ job'[c].Targets = job[c].Targets
    BY <1>0, <1>5, Zenon DEF ApiNumber, Shape, Fields
  <2>3. Wrote(c, "devices", eid, row)
    BY <1>0, <1>5, WriteEffect, Zenon DEF ApiNumber, EnqueueNumber, Tables
  <2>4. eid \in DOMAIN db.devices /\ db.devices[eid] \in DeviceRow
    BY <1>2, <2>1, Zenon DEF ApiHolds, WellFormed
  <2>5. row \in DeviceRow /\ row.Sequence = db.devices[eid].Sequence + 1
    BY <2>4 DEF DeviceRow
  <2>6. DOMAIN tx[c].devices = {} /\ DOMAIN tx[c].operations = {} /\ DOMAIN tx[c].results = {} /\ DOMAIN tx[c].rows = {}
    BY <1>2, <2>1, Zenon DEF ApiHolds, Enqueueing
  <2>7. Target(c)' = eid
    BY <2>2, Zenon DEF Target
  <2> HIDE DEF row, eid
  <2>8. DOMAIN tx'[c].devices = {eid} /\ tx'[c].devices[eid] = row
    BY <2>3, <2>6, Zenon DEF Wrote
  <2>9. DOMAIN tx'[c].operations = {} /\ DOMAIN tx'[c].results = {} /\ DOMAIN tx'[c].rows = {}
    BY <2>3, <2>6, Zenon DEF Wrote, Tables
  <2>10. WellFormed(tx[c])'
    BY <2>5, <2>8, <2>9, Zenon DEF WellFormed
  <2>11. ApiHolds(c)'
    BY <2>1, <2>2, <2>4, <2>5, <2>7, <2>8, <2>9, <2>10, Zenon DEF ApiHolds, Enqueueing
  <2>12. \A t \in {"devices", "operations"} : \A k \in DOMAIN tx'[c][t] : Free(c, t, k)
    BY <2>1, <2>8, <2>9, Zenon
  <2>13. WellFormed(db)'
    BY <1>2, <2>1, Zenon
  <2>14. QED
    BY <1>0, <1>1, <2>11, <2>12, <2>13, HoldingFrame, Zenon
<1>6. CASE ApiID(c)
  <2>1. tx' = tx /\ db' = db /\ at[c] = "id" /\ at'[c] = "row"
    BY <1>0, <1>6, Zenon DEF ApiID, EnqueueID, Goto, Shape
  <2>2. job'[c].Number = job[c].Number /\ job'[c].Targets = job[c].Targets
    BY <1>0, <1>6, Zenon DEF ApiID, Shape, Fields
  <2>3. ApiHolds(c)'
    BY <1>2, <2>1, <2>2, Zenon DEF ApiHolds, Enqueueing, Target, WellFormed
  <2>4. QED
    BY <1>0, <1>1, <1>2, <2>1, <2>3, HoldingFrame, Zenon
<1>7. CASE ApiRow(c) /\ InsertFails(c, Target(c), job[c].Number, job[c].ID)
  <2>1. tx' = [tx EXCEPT ![c] = NoRows] /\ db' = db /\ at'[c] = "failed"
    BY <1>0, <1>7, Zenon DEF ApiRow, Rollback, Goto, Shape
  <2>2. \A t \in Tables : DOMAIN tx'[c][t] = {}
    BY <1>0, <2>1, EndEffect, Zenon DEF Ended
  <2>3. ApiHolds(c)'
    BY <2>1, <2>2, Zenon DEF ApiHolds, Enqueueing, WellFormed, Tables
  <2>4. QED
    BY <1>0, <1>1, <1>2, <2>1, <2>2, <2>3, HoldingFrame, Zenon DEF Tables
<1>8. CASE ApiRow(c) /\ ~InsertFails(c, Target(c), job[c].Number, job[c].ID)
  <2> DEFINE key == <<Target(c), job[c].Number>>
             row == [ID |-> job[c].ID, Status |-> "pending", From |-> c]
  <2>1. /\ db' = db /\ job' = job /\ at[c] = "row" /\ at'[c] = "commit" /\ Free(c, "operations", key)
    BY <1>0, <1>8, Zenon DEF ApiRow, EnqueueRow, InsertWaits, Goto, Shape
  <2>2. Wrote(c, "operations", key, row)
    BY <1>0, <1>8, WriteEffect, Zenon DEF ApiRow, EnqueueRow, Tables
  <2>3. DOMAIN tx[c].operations = {} /\ DOMAIN tx[c].results = {} /\ DOMAIN tx[c].rows = {}
    BY <1>2, <2>1, Zenon DEF ApiHolds
  <2>4. key[2] \in Nat
    BY <1>2, <2>1, Zenon DEF ApiHolds, Enqueueing, WellFormed, DeviceRow
  <2>5. DOMAIN row = {"ID", "Status", "From"} /\ row.From = c /\ row.Status = "pending"
    BY Zenon
  <2>6. Target(c)' = Target(c)
    BY <2>1, Zenon DEF Target
  <2>7. key = <<Target(c), job[c].Number>>
    BY Zenon
  <2> HIDE DEF row, key
  <2>8. DOMAIN tx'[c].operations = {key} /\ tx'[c].operations[key] = row
    BY <2>2, <2>3, Zenon DEF Wrote
  <2>9. tx'[c].devices = tx[c].devices /\ tx'[c].results = tx[c].results /\ tx'[c].rows = tx[c].rows
    BY <2>2, Zenon DEF Wrote, Tables
  <2>10. WellFormed(tx[c])'
    BY <1>2, <2>4, <2>5, <2>8, <2>9, Zenon DEF WellFormed, ApiHolds
  <2>11. ApiHolds(c)'
    BY <1>2, <2>1, <2>3, <2>5, <2>6, <2>7, <2>8, <2>9, <2>10 DEF ApiHolds, Enqueueing
  <2>12. \A t \in {"devices", "operations"} : \A k \in DOMAIN tx'[c][t] :
           k \in DOMAIN tx[c][t] \/ Free(c, t, k)
    BY <2>1, <2>8, <2>9, Zenon
  <2>13. WellFormed(db)'
    BY <1>2, <2>1, Zenon
  <2>14. QED
    BY <1>0, <1>1, <2>11, <2>12, <2>13, HoldingFrame, Zenon
<1>9. CASE ApiCommit(c)
  <2>1. Ended(c) /\ Committed(c) /\ at'[c] \in {"register", "accepted"}
    BY <1>0, <1>9, CommitEffect, Zenon DEF ApiCommit, Goto, Shape
  <2>2. ApiHolds(c)'
    BY <2>1, Zenon DEF ApiHolds, Enqueueing, WellFormed, Tables, Ended
  <2>3. WellFormed(db)'
    BY <1>0, <1>2, <2>1, CommittedWellFormed, Zenon DEF ApiHolds
  <2>4. QED
    BY <1>0, <1>1, <2>1, <2>2, <2>3, HoldingFrame, Zenon DEF Ended, Tables
<1>10. QED
  BY <1>3, <1>4, <1>5, <1>6, <1>7, <1>8, <1>9, Zenon DEF Api

LEMMA RecordHolding ==
  ASSUME Shape, Holding, Record
  PROVE  Holding'
<1>0. Recorder \in Clients /\ Recorder \notin Apis /\ Recorder # Reader /\ Recorder # Importer
  BY ClientsAssumption, Zenon
<1>1. Only(Recorder) /\ Persists(Recorder) /\ Shape'
  BY RecordStep, RecordPersists, Zenon
<1>2. RecorderHolds /\ WellFormed(db)
  BY Zenon DEF Holding
<1>3. CASE RecordBegin
  <2>1. UNCHANGED <<db, tx>> /\ at[Recorder] = "idle" /\ at'[Recorder] = "select"
    BY <1>0, <1>3, Zenon DEF RecordBegin, storeVars, Goto, Shape
  <2>2. RecorderHolds'
    BY <1>2, <2>1, Zenon DEF RecorderHolds, Selected, WellFormed
  <2>3. QED
    BY <1>0, <1>1, <1>2, <2>1, <2>2, HoldingFrame, Zenon
<1>4. CASE RecordSelect
  <2>1. UNCHANGED <<db, tx>> /\ at[Recorder] = "select"
    BY <1>4, Zenon DEF RecordSelect, storeVars
  <2>2. \/ at'[Recorder] = "idle"
        \/ at'[Recorder] = "result" /\ job'[Recorder].Key \in DOMAIN db.operations
    <3>1. CASE RecordKey(job[Recorder].ID) = {}
      BY <1>0, <1>4, <3>1, Zenon DEF RecordSelect, Goto, Shape
    <3>2. CASE RecordKey(job[Recorder].ID) # {}
      <4>1. PICK key, status :
              /\ key \in RecordKey(job[Recorder].ID)
              /\ job' = [job EXCEPT ![Recorder].Key = key, ![Recorder].Status = status]
        BY <1>4, <3>2, Zenon DEF RecordSelect
      <4>2. job'[Recorder].Key = key
        BY <1>0, <4>1, Zenon DEF Shape, Fields
      <4>3. QED
        BY <1>0, <1>4, <3>2, <4>1, <4>2, Zenon DEF RecordSelect, Goto, Shape, RecordKey
    <3>3. QED
      BY <3>1, <3>2, Zenon
  <2>3. RecorderHolds'
    BY <1>2, <2>1, <2>2, Zenon DEF RecorderHolds, Selected, WellFormed
  <2>4. QED
    BY <1>0, <1>1, <1>2, <2>1, <2>3, HoldingFrame, Zenon
<1>5. CASE RecordInsert
  <2> DEFINE key == job[Recorder].Key
             row == [OperationID |-> job[Recorder].ID, Status |-> job[Recorder].Status]
  <2>1. UNCHANGED <<db, job>> /\ at[Recorder] = "result" /\ at'[Recorder] = "status"
    BY <1>0, <1>5, Zenon DEF RecordInsert, RecordResult, Goto, Shape
  <2>2. Wrote(Recorder, "results", key, row)
    BY <1>0, <1>5, WriteEffect, Zenon DEF RecordInsert, RecordResult, Tables
  <2>3. row.OperationID = job[Recorder].ID /\ key = job[Recorder].Key
    BY Zenon
  <2> HIDE DEF row, key
  <2>4. DOMAIN tx'[Recorder].results = {key} /\ tx'[Recorder].results[key] = row
    BY <1>2, <2>1, <2>2, Zenon DEF Wrote, RecorderHolds
  <2>5. /\ tx'[Recorder].devices = tx[Recorder].devices /\ tx'[Recorder].operations = tx[Recorder].operations
        /\ tx'[Recorder].rows = tx[Recorder].rows
    BY <2>2, Zenon DEF Wrote, Tables
  <2>6. RecorderHolds'
    BY <1>2, <2>1, <2>3, <2>4, <2>5, Zenon DEF RecorderHolds, Selected, WellFormed
  <2>7. QED
    BY <1>0, <1>1, <1>2, <2>1, <2>5, <2>6, HoldingFrame, Zenon
<1>6. CASE RecordRefused
  <2>1. Ended(Recorder) /\ db' = db /\ at'[Recorder] = "idle"
    BY <1>0, <1>6, EndEffect, Zenon DEF RecordRefused, Rollback, Goto, Shape
  <2>2. RecorderHolds'
    BY <2>1, Zenon DEF RecorderHolds, Selected, WellFormed, Ended, Tables
  <2>3. QED
    BY <1>0, <1>1, <1>2, <2>1, <2>2, HoldingFrame, Zenon DEF Ended, Tables
<1>7. CASE RecordUpdate
  <2>1. UNCHANGED <<db, job>> /\ at[Recorder] = "status" /\ at'[Recorder] = "commit"
    BY <1>0, <1>7, Zenon DEF RecordUpdate, RecordStatus, Goto, Shape
  <2>2. PICK key \in RecordKey(job[Recorder].ID) :
          /\ Free(Recorder, "operations", key)
          /\ Write(Recorder, "operations", key,
                   [db.operations[key] EXCEPT !.Status = job[Recorder].Status])
    BY <1>7, Zenon DEF RecordUpdate, RecordStatus
  <2> DEFINE row == [db.operations[key] EXCEPT !.Status = job[Recorder].Status]
  <2>3. Wrote(Recorder, "operations", key, row)
    BY <1>0, <2>2, WriteEffect, Zenon DEF Tables
  <2>4. key \in DOMAIN db.operations /\ db.operations[key].ID = job[Recorder].ID
    BY <2>2, Zenon DEF RecordKey
  <2>5. key[2] \in Nat /\ DOMAIN db.operations[key] = {"ID", "Status", "From"}
    BY <1>2, <2>4, Zenon DEF WellFormed
  <2>6. /\ DOMAIN row = {"ID", "Status", "From"}
        /\ row.ID = db.operations[key].ID /\ row.From = db.operations[key].From
    BY <2>5, Zenon
  <2> HIDE DEF row
  <2>7. DOMAIN tx'[Recorder].operations = {key} /\ tx'[Recorder].operations[key] = row
    BY <1>2, <2>1, <2>3, Zenon DEF Wrote, RecorderHolds
  <2>8. /\ tx'[Recorder].devices = tx[Recorder].devices /\ tx'[Recorder].results = tx[Recorder].results
        /\ tx'[Recorder].rows = tx[Recorder].rows
    BY <2>3, Zenon DEF Wrote, Tables
  <2>9. WellFormed(tx[Recorder])'
    BY <1>2, <2>5, <2>6, <2>7, <2>8, Zenon DEF WellFormed, RecorderHolds
  <2>10. RecorderHolds'
    BY <1>2, <2>1, <2>4, <2>6, <2>7, <2>8, <2>9, Zenon DEF RecorderHolds, Selected
  <2>11. \A t \in {"devices", "operations"} : \A k \in DOMAIN tx'[Recorder][t] :
           k \in DOMAIN tx[Recorder][t] \/ Free(Recorder, t, k)
    BY <2>2, <2>7, <2>8, Zenon
  <2>12. WellFormed(db)'
    BY <1>2, <2>1, Zenon
  <2>13. QED
    BY <1>0, <1>1, <2>10, <2>11, <2>12, HoldingFrame, Zenon
<1>8. CASE RecordCommit
  <2>1. Ended(Recorder) /\ Committed(Recorder) /\ at'[Recorder] = "idle"
    BY <1>0, <1>8, CommitEffect, Zenon DEF RecordCommit, Goto, Shape
  <2>2. RecorderHolds'
    BY <2>1, Zenon DEF RecorderHolds, Selected, WellFormed, Ended, Tables
  <2>3. WellFormed(db)'
    BY <1>0, <1>2, <2>1, CommittedWellFormed, Zenon DEF RecorderHolds
  <2>4. QED
    BY <1>0, <1>1, <2>1, <2>2, <2>3, HoldingFrame, Zenon DEF Ended, Tables
<1>9. QED
  BY <1>3, <1>4, <1>5, <1>6, <1>7, <1>8, Zenon DEF Record

LEMMA ReadHolding ==
  ASSUME Shape, Holding, operationResult
  PROVE  Holding'
<1>0. Reader \in Clients /\ Reader \notin Apis /\ Recorder # Reader /\ Reader # Importer
  BY ClientsAssumption, Zenon
<1>1. Only(Reader) /\ UNCHANGED <<db, tx>>
  BY ReadStep, Zenon DEF storeVars
<1>2. Persists(Reader)
  BY <1>1, UnchangedPersists, Zenon
<1>3. QED
  BY <1>0, <1>1, <1>2, HoldingFrame, Zenon DEF Holding

(* The first row left, and what is known of it. *)
LEMMA FirstLeft ==
  ASSUME Shape, Leftover, at[Importer] = "rows", job[Importer].Left # <<>>
  PROVE  LET r == job[Importer].Left[1].Row
             table == job[Importer].Left[1].Table
         IN /\ 1 \in DOMAIN job[Importer].Left
            /\ table = "devices" => r \in Range(Payload["devices"]) /\ r.Sequence \in Nat /\ r.Counter \in Nat
            /\ table = "operations" =>
                 /\ r.Number \in Nat
                 /\ \E d \in Range(Payload["devices"]) : d.EID = r.EID /\ r.Number < d.Sequence
<1> DEFINE left == job[Importer].Left
           r == left[1].Row
           table == left[1].Table
<1>1. Accepted(situation) # <<>> /\ left \in Seq(Entries(Payload)) /\ Fits(Payload, left) /\ situation \in Situations
  BY Zenon DEF Leftover, Shape
<1>2. 1 \in DOMAIN left
  BY <1>1
<1>3. r \in Range(Payload[table])
  BY <1>1, <1>2, Zenon DEF Fits
<1>4. /\ \A d \in Range(Payload["devices"]) : d.Sequence \in Nat /\ d.Counter \in Nat
      /\ \A o \in Range(Payload["operations"]) :
           \E d \in Range(Payload["devices"]) : d.EID = o.EID /\ o.Number \in Nat /\ o.Number < d.Sequence
  BY <1>1, BundlesAssumption, Zenon DEF Payload
<1> HIDE DEF r, table
<1>5. QED
  BY <1>2, <1>3, <1>4, Zenon DEF r, table

LEMMA ImportHolding ==
  ASSUME Shape, Leftover, Holding, Import \/ ImportAborts
  PROVE  Holding'
<1>0. Importer \in Clients /\ Importer \notin Apis /\ Importer # Reader /\ Recorder # Importer
  BY ClientsAssumption, Zenon
<1>1. Only(Importer) /\ Persists(Importer) /\ Shape'
  BY ImportStep, ImportPersists, Zenon
<1>2. ImporterHolds /\ WellFormed(db)
  BY Zenon DEF Holding
<1>3. ASSUME Ended(Importer), WellFormed(db)'
      PROVE  Holding'
  <2>1. ImporterHolds'
    BY <1>3, Zenon DEF ImporterHolds, WellFormed, Ended, Tables
  <2>2. QED
    BY <1>0, <1>1, <1>3, <2>1, HoldingFrame, Zenon DEF Ended, Tables
<1>4. CASE ImportValidate \/ ImportSync
  <2>1. UNCHANGED <<db, tx>>
    BY <1>4, Zenon DEF ImportValidate, ImportSync, syncImportSequences, storeVars
  <2>2. at[Importer] \notin {"rows", "commit"} \/ at'[Importer] = "commit"
    BY <1>0, <1>4, Zenon DEF ImportValidate, ImportSync, Goto, Shape
  <2>3. ImporterHolds'
    BY <1>2, <2>1, <2>2, Zenon DEF ImporterHolds, WellFormed
  <2>4. QED
    BY <1>0, <1>1, <1>2, <2>1, <2>3, HoldingFrame, Zenon
<1>5. CASE ImportRow /\ ImportFails
  <2>1. Ended(Importer) /\ db' = db
    BY <1>5, ImportFailsStep, ImportRowCases, Zenon DEF Keep
  <2>2. QED
    BY <1>2, <1>3, <2>1, Zenon
<1>6. CASE ImportRow /\ Written /\ ImportGoesOn
  <2> DEFINE r == job[Importer].Left[1].Row
             table == job[Importer].Left[1].Table
  <2>1. at[Importer] = "rows" /\ job[Importer].Left # <<>> /\ Keep
    BY <1>6, ImportRowCases, Zenon
  <2>2. UNCHANGED <<db, at>>
    BY <1>6, <2>1, WrittenStep, Zenon
  <2>3. PICK t, key, value :
          /\ t \in {"devices", "operations", "rows"}
          /\ Write(Importer, t, key, value) /\ Free(Importer, t, key)
          /\ t = "devices" => value \in DeviceRow
          /\ t = "operations" =>
               key[2] \in Nat /\ DOMAIN value = {"ID", "Status", "From"} /\ value.From = "bundle"
    <3>1. CASE table = "devices"
      <4>1. importDevice(Importer, r)
        BY <1>6, <3>1, Zenon DEF Written
      <4>2. [Sequence |-> r.Sequence, Counter |-> r.Counter] \in DeviceRow
        BY <2>1, <3>1, FirstLeft, Zenon DEF DeviceRow
      <4>3. QED
        BY <4>1, <4>2 DEF importDevice
    <3>2. CASE table = "operations"
      <4>1. importOperation(Importer, r) /\ ~ImportWaits(Importer, r)
        BY <1>6, <3>2, Zenon DEF Written
      <4>2. r.Number \in Nat
        BY <2>1, <3>2, FirstLeft, Zenon
      <4>3. <<r.EID, r.Number>>[2] \in Nat
        BY <4>2, Zenon
      <4>4. /\ DOMAIN [ID |-> r.ID, Status |-> r.Status, From |-> "bundle"] = {"ID", "Status", "From"}
            /\ [ID |-> r.ID, Status |-> r.Status, From |-> "bundle"].From = "bundle"
        BY Zenon
      <4>5. Free(Importer, "operations", <<r.EID, r.Number>>)
        BY <4>1, Zenon DEF ImportWaits
      <4>6. Write(Importer, "operations", <<r.EID, r.Number>>, [ID |-> r.ID, Status |-> r.Status, From |-> "bundle"])
        BY <4>1, Zenon DEF importOperation
      <4>7. QED
        BY <4>3, <4>4, <4>5, <4>6
    <3>3. CASE table \notin {"devices", "operations"}
      BY <1>6, <3>3 DEF Written, importRow
    <3>4. QED
      BY <3>1, <3>2, <3>3, Zenon
  <2>4. Wrote(Importer, t, key, value)
    BY <1>0, <2>3, WriteEffect DEF Tables
  <2>5. \A u \in {"devices", "operations"} : \A k \in DOMAIN tx'[Importer][u] :
          k \in DOMAIN tx[Importer][u] \/ Free(Importer, u, k)
    BY <2>3, <2>4, Zenon DEF Wrote, Tables
  <2>6. \A e \in DOMAIN tx'[Importer].devices : tx'[Importer].devices[e] \in DeviceRow
    BY <1>2, <2>3, <2>4 DEF Wrote, Tables, ImporterHolds, WellFormed
  <2>7. \A k \in DOMAIN tx'[Importer].operations :
          /\ k[2] \in Nat /\ DOMAIN tx'[Importer].operations[k] = {"ID", "Status", "From"}
          /\ tx'[Importer].operations[k].From = "bundle"
    BY <1>2, <2>3, <2>4 DEF Wrote, Tables, ImporterHolds, WellFormed
  <2>8. DOMAIN tx'[Importer].results = {}
    BY <1>2, <2>3, <2>4, Zenon DEF Wrote, Tables, ImporterHolds
  <2>9. ImporterHolds'
    BY <2>1, <2>2, <2>6, <2>7, <2>8, Zenon DEF ImporterHolds, WellFormed
  <2>10. WellFormed(db)'
    BY <1>2, <2>2, Zenon
  <2>11. QED
    BY <1>0, <1>1, <2>5, <2>9, <2>10, HoldingFrame, Zenon
<1>7. CASE ImportCommit
  <2>1. Ended(Importer) /\ Committed(Importer)
    BY <1>0, <1>7, CommitEffect, Zenon DEF ImportCommit
  <2>2. QED
    BY <1>0, <1>2, <1>3, <2>1, CommittedWellFormed, Zenon DEF ImporterHolds
<1>8. CASE ImportAborts
  <2>1. Ended(Importer) /\ db' = db
    BY <1>8, ImportFailsStep, Zenon DEF ImportAborts, Keep
  <2>2. QED
    BY <1>2, <1>3, <2>1, Zenon
<1>9. QED
  BY <1>4, <1>5, <1>6, <1>7, <1>8, ImportRowCases, Zenon DEF Import

Basis == Shape /\ Leftover /\ Holding

LEMMA BasisInit ==
  ASSUME Init
  PROVE  Basis
<1>1. Shape /\ Leftover
  BY ShapeInit, Zenon
<1>2. \A c \in Clients : \A t \in Tables : DOMAIN tx[c][t] = {}
  BY NoRowsEmpty, Zenon DEF Init
<1>3. \A c \in Clients : WellFormed(tx[c])
  BY <1>2, Zenon DEF WellFormed, Tables
<1>4. WellFormed(db)
  <2>1. situation \in Situations /\ db = situation.Database
    BY Zenon DEF Init
  <2>2. QED
    BY <2>1, DatabasesAssumption, Zenon DEF WellFormed, DeviceRow
<1>5. \A c \in Apis : at[c] \in {"done", "register"}
  BY ClientsAssumption, Zenon DEF Init
<1>6. at[Recorder] \in {"done", "idle"} /\ at[Importer] \in {"done", "validate"}
  BY ClientsAssumption, Zenon DEF Init
<1>7. \A c \in Apis : ApiHolds(c)
  BY <1>2, <1>3, <1>5, ClientsAssumption, Zenon DEF ApiHolds, Enqueueing, Tables
<1>8. RecorderHolds
  BY <1>2, <1>3, <1>6, ClientsAssumption, Zenon DEF RecorderHolds, Selected, Tables
<1>9. ImporterHolds
  BY <1>2, <1>3, <1>6, ClientsAssumption, Zenon DEF ImporterHolds, Tables
<1>10. Locks
  BY <1>2, Zenon DEF Locks, Tables
<1>11. QED
  BY <1>1, <1>2, <1>4, <1>7, <1>8, <1>9, <1>10, ClientsAssumption, Zenon DEF Basis, Holding

LEMMA BasisStep ==
  ASSUME Basis, [Next]_vars
  PROVE  Basis'
<1>1. Shape' /\ Leftover'
  BY ShapeStep, LeftoverStep, Zenon DEF Basis
<1>2. CASE Next
  BY <1>1, <1>2, ApiHolding, RecordHolding, ReadHolding, ImportHolding, Zenon DEF Basis, Next
<1>3. CASE UNCHANGED vars
  <2>1. Holding'
    <3>1. UNCHANGED <<db, tx, at, job>>
      BY <1>3, Zenon DEF vars, storeVars
    <3>2. /\ WellFormed(db)' <=> WellFormed(db)
          /\ \A c \in Clients : WellFormed(tx[c])' <=> WellFormed(tx[c])
      BY <3>1, Zenon DEF WellFormed
    <3>3. \A c \in Apis : ApiHolds(c)
      BY Zenon DEF Basis, Holding
    <3>4. \A c \in Apis : ApiHolds(c)'
      <4> SUFFICES ASSUME NEW c \in Apis
                   PROVE  ApiHolds(c)'
        BY Zenon
      <4>1. Enqueueing(c)' = Enqueueing(c) /\ Target(c)' = Target(c) /\ WellFormed(tx[c])' = WellFormed(tx[c])
        BY <3>1, Zenon DEF Enqueueing, Target, WellFormed
      <4>2. QED
        BY <3>1, <3>3, <4>1 DEF ApiHolds
    <3>5. RecorderHolds' /\ ImporterHolds'
      BY <3>1, Zenon DEF Basis, Holding, RecorderHolds, ImporterHolds, WellFormed, Selected
    <3>6. QED
      BY <3>1, <3>2, <3>4, <3>5, Zenon DEF Basis, Holding, Locks
  <2>2. QED
    BY <1>1, <2>1, Zenon DEF Basis
<1>4. QED
  BY <1>2, <1>3, Zenon

-----------------------------------------------------------------------------
(* Before the import is done, what commits is not of the bundle. *)
LEMMA NothingOfTheBundle ==
  ASSUME Basis, AllOrNothing, NEW c \in Clients, c # Importer, Persists(c), at'[Importer] = at[Importer],
         situation' = situation,
         Committed(c) => /\ DOMAIN tx[c].rows = {}
                         /\ \A k \in DOMAIN tx[c].operations :
                              \/ tx[c].operations[k].From # "bundle"
                              \/ k \in DOMAIN db.operations /\ tx[c].operations[k].From = db.operations[k].From,
         Committed(c) => db'.rows = Override(tx[c].rows, db.rows)
  PROVE  AllOrNothing'
<1> SUFFICES ASSUME at[Importer] # "done"
             PROVE  /\ db'.rows = situation.Database.rows
                    /\ \A key \in DOMAIN db'.operations \ DOMAIN situation.Database.operations :
                         db'.operations[key].From # "bundle"
  BY Zenon DEF AllOrNothing
<1>1. CASE \A t \in Tables \ {"devices"} : db'[t] = db[t]
  BY <1>1, Zenon DEF AllOrNothing, Tables
<1>2. CASE Committed(c)
  <2>1. db'.rows = situation.Database.rows
    <3>1. db'.rows = [k \in DOMAIN db.rows |-> db.rows[k]]
      BY <1>2, Zenon DEF Override
    <3>2. db.rows = situation.Database.rows /\ situation \in Situations
      BY Zenon DEF AllOrNothing, Basis, Shape
    <3>3. situation.Database.rows = [k \in DOMAIN situation.Database.rows |-> situation.Database.rows[k]]
      BY <3>2, DatabasesAssumption, Zenon
    <3>4. QED
      BY <3>1, <3>2, <3>3, Zenon
  <2>2. QED
    BY <1>2, <2>1 DEF AllOrNothing, Committed, Tables
<1>3. QED
  BY <1>1, <1>2, Zenon DEF Persists

LEMMA AllOrNothingStep ==
  ASSUME Basis, AllOrNothing, [Next]_vars
  PROVE  AllOrNothing'
<1>0. Importer \in Clients /\ \A c \in Apis \cup {Recorder, Reader} : c \in Clients /\ c # Importer
  BY ClientsAssumption, Zenon
<1>1. Shape /\ Holding
  BY Zenon DEF Basis
<1>2. ASSUME NEW c \in Apis, Api(c)
      PROVE  AllOrNothing'
  <2>1. Persists(c) /\ at'[Importer] = at[Importer] /\ situation' = situation
    BY <1>0, <1>1, <1>2, ApiPersists, ApiStep, Zenon DEF Only, Keep
  <2>2. CASE ApiCommit(c)
    <3>1. db'.rows = Override(tx[c].rows, db.rows)
      BY <1>1, <2>2, Zenon DEF ApiCommit, Commit, Shape, Tables
    <3>2. at[c] = "commit" /\ ApiHolds(c)
      BY <1>1, <2>2, Zenon DEF ApiCommit, Holding
    <3>3. DOMAIN tx[c].rows = {} /\ \A k \in DOMAIN tx[c].operations : tx[c].operations[k].From # "bundle"
      BY <3>2, ClientsAssumption, Zenon DEF ApiHolds
    <3>4. QED
      BY <1>0, <2>1, <3>1, <3>3, NothingOfTheBundle, Zenon
  <2>3. CASE ~ApiCommit(c)
    <3>1. \A t \in Tables \ {"devices"} : db'[t] = db[t]
      BY <1>1, <1>2, <2>3, Zenon DEF Api, ApiRegister, RegisterDevice, ApiSign, NextEUICCPackageCounter, ApiNumber,
         EnqueueNumber, ApiID, EnqueueID, ApiRow, Rollback, EnqueueRow, Shape
    <3>2. QED
      BY <2>1, <3>1, Zenon DEF AllOrNothing, Tables
  <2>4. QED
    BY <2>2, <2>3, Zenon
<1>3. CASE Record
  <2>1. Persists(Recorder) /\ at'[Importer] = at[Importer] /\ situation' = situation
    BY <1>0, <1>1, <1>3, RecordPersists, RecordStep, Zenon DEF Only, Keep
  <2>2. CASE RecordCommit
    <3>1. db'.rows = Override(tx[Recorder].rows, db.rows)
      BY <1>1, <2>2, Zenon DEF RecordCommit, Commit, Shape, Tables
    <3>2. /\ DOMAIN tx[Recorder].rows = {}
          /\ \A k \in DOMAIN tx[Recorder].operations :
               k \in DOMAIN db.operations /\ tx[Recorder].operations[k].From = db.operations[k].From
      BY <1>1, Zenon DEF Holding, RecorderHolds
    <3>3. QED
      BY <1>0, <2>1, <3>1, <3>2, NothingOfTheBundle, Zenon
  <2>3. CASE ~RecordCommit
    <3>1. db' = db
      BY <1>3, <2>3, Zenon DEF Record, RecordBegin, RecordSelect, RecordInsert, RecordResult, RecordRefused,
         Rollback, RecordUpdate, RecordStatus, storeVars
    <3>2. QED
      BY <2>1, <3>1, Zenon DEF AllOrNothing
  <2>4. QED
    BY <2>2, <2>3, Zenon
<1>4. CASE operationResult
  BY <1>0, <1>1, <1>4, ReadStep, Zenon DEF Only, Keep, storeVars, AllOrNothing
<1>5. CASE ImportCommit
  BY <1>0, <1>1, <1>5, Zenon DEF ImportCommit, Goto, Shape, AllOrNothing
<1>6. CASE (Import \/ ImportAborts) /\ ~ImportCommit
  <2>1. db' = db /\ situation' = situation
    BY <1>1, <1>6, ImportRowCases, ImportFailsStep, WrittenStep, Zenon
       DEF Import, ImportValidate, ImportSync, syncImportSequences, ImportAborts, storeVars, Keep
  <2>2. at[Importer] # "done"
    BY <1>6, Zenon DEF Import, ImportValidate, ImportSync, ImportAborts, ImportRow
  <2>3. QED
    BY <2>1, <2>2, Zenon DEF AllOrNothing
<1>7. CASE UNCHANGED vars
  BY <1>7, Zenon DEF vars, storeVars, AllOrNothing
<1>8. QED
  BY <1>2, <1>3, <1>4, <1>5, <1>6, <1>7, Zenon DEF Next, Import

(* Nobody sees part of a bundle: until Store.ImportBundle commits, and     *)
(* whenever it fails at a row or loses its connection, no row of the       *)
(* bundle is in the database, whatever requests and results are committed  *)
(* meanwhile.                                                              *)
THEOREM ImportIsAtomic == Spec => []AllOrNothing
<1>1. Init => Basis /\ AllOrNothing
  BY BasisInit, Zenon DEF Init, AllOrNothing
<1>2. Basis /\ AllOrNothing /\ [Next]_vars => (Basis /\ AllOrNothing)'
  BY BasisStep, AllOrNothingStep, Zenon
<1>3. QED
  BY <1>1, <1>2, PTL DEF Spec

-----------------------------------------------------------------------------
(* An import that is done has been through the checks. *)
Vetted == (at[Importer] = "done" /\ Importer \notin situation.Absent) => Accepted(situation) # <<>>

LEMMA VettedStep ==
  ASSUME Shape, Leftover, Vetted, [Next]_vars
  PROVE  Vetted'
<1>0. Importer \in Clients /\ Importer \notin Apis \cup {Recorder, Reader} /\ Apis \cup {Recorder, Reader} \subseteq Clients
  BY ClientsAssumption, Zenon
<1>1. CASE situation' = situation /\ at'[Importer] = at[Importer]
  BY <1>1, Zenon DEF Vetted
<1>2. CASE situation' = situation /\ at'[Importer] # "done"
  BY <1>2, Zenon DEF Vetted
<1>3. CASE \E c \in Apis : Api(c)
  BY <1>0, <1>1, <1>3, ApiStep, Zenon DEF Only, Keep
<1>4. CASE Record
  BY <1>0, <1>1, <1>4, RecordStep, Zenon DEF Only, Keep
<1>5. CASE operationResult
  BY <1>0, <1>1, <1>5, ReadStep, Zenon DEF Only, Keep
<1>6. CASE ImportValidate
  <2>1. situation' = situation /\ at'[Importer] \in {"failed", "rows"}
    BY <1>0, <1>6, Zenon DEF ImportValidate, Goto, Keep, Shape
  <2>2. QED
    BY <1>2, <2>1, Zenon
<1>7. CASE ImportRow
  <2>1. Keep /\ (ImportFails \/ (Written /\ ImportGoesOn))
    BY <1>7, ImportRowCases, Zenon
  <2>2. situation' = situation
    BY <2>1, Zenon DEF Keep
  <2>3. CASE ImportFails
    <3>1. at'[Importer] = "failed"
      BY <2>2, <2>3, ImportFailsStep, Zenon
    <3>2. QED
      BY <1>2, <2>2, <3>1, Zenon
  <2>4. CASE Written /\ ImportGoesOn
    BY <1>1, <2>2, <2>4, Zenon DEF ImportGoesOn
  <2>5. QED
    BY <2>1, <2>3, <2>4, Zenon
<1>8. CASE ImportSync
  <2>1. situation' = situation /\ at'[Importer] = "commit"
    BY <1>0, <1>8, Zenon DEF ImportSync, Goto, Keep, Shape
  <2>2. QED
    BY <1>2, <2>1, Zenon
<1>9. CASE ImportCommit
  BY <1>9, Zenon DEF ImportCommit, Leftover, Vetted
<1>10. CASE ImportAborts
  <2>1. situation' = situation /\ ImportFails
    BY <1>10, Zenon DEF ImportAborts, Keep
  <2>2. at'[Importer] = "failed"
    BY <2>1, ImportFailsStep, Zenon
  <2>3. QED
    BY <1>2, <2>1, <2>2, Zenon
<1>11. CASE UNCHANGED vars
  BY <1>1, <1>11, Zenon DEF vars
<1>12. QED
  BY <1>3, <1>4, <1>5, <1>6, <1>7, <1>8, <1>9, <1>10, <1>11, Zenon DEF Next, Import

(* What the checks amount to. *)
LEMMA AcceptedIsExported ==
  ASSUME NEW s \in Situations, Accepted(s) # <<>>
  PROVE  Exported(s)
<1> DEFINE manifest == s.Bundle.Manifest
           zip == s.Bundle.Zip
           journal == readNDJSON(s.Bundle, "command_journal")
<1>1. ValidateBundle(s.Bundle, s.TrustCert) /\ VerifyJournalSlice(manifest.TenantID, journal, manifest.JournalChain)
  BY Zenon DEF Accepted, ReadBundle
<1>2. ASSUME NEW f \in manifest.Files
      PROVE  f.Name \in DOMAIN zip /\ zip[f.Name] = f.SHA256
  <2>1. digestZipEntry(s.Bundle, f.Name) = <<[SHA256 |-> f.SHA256, Rows |-> f.Rows]>>
    BY <1>1, Zenon DEF ValidateBundle
  <2>2. f.Name \in DOMAIN zip
    BY <2>1, Zenon DEF digestZipEntry
  <2>3. <<[SHA256 |-> zip[f.Name], Rows |-> Len(zip[f.Name])]>> = <<[SHA256 |-> f.SHA256, Rows |-> f.Rows]>>
    BY <2>1, <2>2, Zenon DEF digestZipEntry
  <2>4. QED
    BY <2>2, <2>3, Zenon
<1>3. ASSUME s.TrustCert # <<>>
      PROVE  \E e \in Exports : \A f \in e.Manifest.Files : f.Name \in DOMAIN zip /\ zip[f.Name] = e.Zip[f.Name]
  <2> DEFINE signature == [Key |-> manifest.Certificate, Payload |-> contentCanonical(manifest.Files)]
  <2>1. manifest.Signature = <<signature>> /\ manifest.Certificate = s.TrustCert[1]
    BY <1>1, <1>3, Zenon DEF ValidateBundle, verifyManifestSignature
  <2>2. signature \in Range(manifest.Signature)
    BY <2>1 DEF Range
  <2>3. PICK e \in Exports : signature.Payload = contentCanonical(e.Manifest.Files)
    BY <1>3, <2>1, <2>2, ExportsAssumption, Zenon
  <2>4. ASSUME NEW f \in e.Manifest.Files
        PROVE  f.Name \in DOMAIN zip /\ zip[f.Name] = e.Zip[f.Name]
    <3>1. [Name |-> f.Name, SHA256 |-> f.SHA256] \in contentCanonical(manifest.Files)
      BY <2>3, Zenon DEF contentCanonical
    <3>2. PICK g \in manifest.Files : g.Name = f.Name /\ g.SHA256 = f.SHA256
      BY <3>1, Zenon DEF contentCanonical
    <3>3. f.SHA256 = e.Zip[f.Name]
      BY ExportsAssumption, Zenon
    <3>4. QED
      BY <1>2, <3>2, <3>3, Zenon
  <2>5. QED
    BY <2>4, Zenon
<1>4. ASSUME NEW i \in DOMAIN journal
      PROVE  /\ (i = 1 /\ manifest.JournalChain.PrevHashBefore # <<>>) =>
                  journal[1].EntryHash.Prev = manifest.JournalChain.PrevHashBefore[1]
             /\ i > 1 => journal[i].EntryHash.Prev = journal[i - 1].EntryHash
  <2>1. journal # <<>>
    OBVIOUS
  <2>2. journal[i].EntryHash.Prev = journal[i].PrevHash
    <3>1. journal[i].EntryHash = entryHash(journal[i].PrevHash, manifest.TenantID, journal[i])
      BY <1>1, <2>1, Zenon DEF VerifyJournalSlice
    <3>2. QED
      BY <3>1 DEF entryHash
  <2>3. QED
    BY <1>1, <2>1, <2>2, Zenon DEF VerifyJournalSlice
<1>5. QED
  BY <1>3, <1>4, Zenon DEF Exported

(* OnlyExported, of any bundle and any exports: what ReadBundle checks     *)
(* leaves only files that the trusted signer exported, in a journal        *)
(* without gaps, and ImportValidate lets nothing else reach a row.         *)
THEOREM ImportsAreExported == Spec => []OnlyExported
<1>1. Init => Shape /\ Leftover /\ Vetted
  <2>1. Init => Vetted
    BY ClientsAssumption, Zenon DEF Init, Vetted
  <2>2. QED
    BY <2>1, ShapeInit, Zenon
<1>2. Shape /\ Leftover /\ Vetted /\ [Next]_vars => (Shape /\ Leftover /\ Vetted)'
  BY ShapeStep, LeftoverStep, VettedStep, Zenon
<1>3. Shape /\ Vetted => OnlyExported
  BY AcceptedIsExported, Zenon DEF Shape, Vetted, OnlyExported
<1>. QED
  BY <1>1, <1>2, <1>3, PTL DEF Spec

-----------------------------------------------------------------------------
(* The numbers: a device of the bundle is still to be written or has the   *)
(* bundle's next number, and the operations come after all the devices.    *)
ToCome(d) == \E i \in DOMAIN job[Importer].Left :
  job[Importer].Left[i].Table = "devices" /\ job[Importer].Left[i].Row = d
Imported(d) ==
  d.EID \in DOMAIN tx[Importer].devices /\ tx[Importer].devices[d.EID].Sequence = d.Sequence

Staged ==
  at[Importer] \in {"rows", "commit"} =>
    /\ \A d \in Range(Payload["devices"]) : ToCome(d) \/ Imported(d)
    /\ \A k \in DOMAIN tx[Importer].operations :
         \E d \in Range(Payload["devices"]) : d.EID = k[1] /\ k[2] < d.Sequence /\ Imported(d)

Above ==
  \A k \in DOMAIN db.operations :
    k[1] \in DOMAIN db.devices /\ (k[1] \in rewound \/ k[2] < db.devices[k[1]].Sequence)

LEMMA AllImported ==
  ASSUME Basis, Staged, at[Importer] = "rows", job[Importer].Left # <<>>,
         job[Importer].Left[1].Table # "devices"
  PROVE  \A d \in Range(Payload["devices"]) : Imported(d)
<1> SUFFICES ASSUME NEW d \in Range(Payload["devices"]), ToCome(d) PROVE FALSE
  BY Zenon DEF Staged
<1>1. job[Importer].Left \in Seq(Entries(Payload)) /\ DevicesFirst(job[Importer].Left)
  BY Zenon DEF Basis, Leftover
<1>2. PICK i \in DOMAIN job[Importer].Left : job[Importer].Left[i].Table = "devices"
  BY Zenon DEF ToCome
<1>3. 1 \in DOMAIN job[Importer].Left /\ (i = 1 \/ 1 < i)
  BY <1>1, <1>2
<1>4. QED
  BY <1>1, <1>2, <1>3, Zenon DEF DevicesFirst

LEMMA StagedWritten ==
  ASSUME Basis, Staged, Written, ImportGoesOn, Keep, at[Importer] = "rows", job[Importer].Left # <<>>
  PROVE  Staged'
<1> DEFINE left == job[Importer].Left
           r == left[1].Row
           table == left[1].Table
<1>0. Importer \in Clients /\ Shape /\ Leftover
  BY ClientsAssumption, Zenon DEF Basis
<1>1. at' = at /\ job'[Importer].Left = Tail(left) /\ Payload' = Payload
  BY <1>0, WrittenStep, Zenon DEF Keep, Payload
<1>2. left \in Seq(Entries(Payload)) /\ left # <<>>
  BY <1>0, Zenon DEF Leftover
<1>3. ASSUME NEW d \in Range(Payload["devices"]), ToCome(d), ~(table = "devices" /\ r = d)
      PROVE  ToCome(d)'
  <2>1. PICK i \in DOMAIN left : left[i].Table = "devices" /\ left[i].Row = d
    BY <1>3, Zenon DEF ToCome
  <2>2. i # 1
    BY <1>3, <2>1, Zenon
  <2>3. i - 1 \in DOMAIN Tail(left) /\ Tail(left)[i - 1] = left[i]
    BY <1>2, <2>1, <2>2
  <2>4. QED
    BY <1>1, <2>1, <2>3, Zenon DEF ToCome
<1>4. CASE table = "devices"
  <2>1. r \in Range(Payload["devices"])
    BY <1>0, <1>4, FirstLeft, Zenon
  <2>2. Write(Importer, "devices", r.EID, [Sequence |-> r.Sequence, Counter |-> r.Counter])
    BY <1>4, Zenon DEF Written, importDevice
  <2>3. Wrote(Importer, "devices", r.EID, [Sequence |-> r.Sequence, Counter |-> r.Counter])
    BY <1>0, <2>2, WriteEffect, Zenon DEF Tables
  <2>4. /\ DOMAIN tx'[Importer].devices = DOMAIN tx[Importer].devices \cup {r.EID}
        /\ tx'[Importer].devices[r.EID].Sequence = r.Sequence
        /\ \A e \in DOMAIN tx[Importer].devices \ {r.EID} : tx'[Importer].devices[e] = tx[Importer].devices[e]
        /\ tx'[Importer].operations = tx[Importer].operations
    <3> DEFINE row == [Sequence |-> r.Sequence, Counter |-> r.Counter]
    <3>1. Wrote(Importer, "devices", r.EID, row) /\ row.Sequence = r.Sequence
      BY <2>3, Zenon
    <3> HIDE DEF row, r
    <3>2. QED
      BY <3>1, Zenon DEF Wrote, Tables
  <2>5. \A d \in Range(Payload["devices"]) : d.EID = r.EID => d = r
    BY <1>0, <2>1, BundlesAssumption, Zenon DEF Payload, Leftover, Shape
  <2>6. \A d \in Range(Payload["devices"]) : Imported(d) \/ d = r => Imported(d)'
    BY <2>4, <2>5, Zenon DEF Imported
  <2> HIDE DEF left, r, table
  <2>7. \A d \in Range(Payload["devices"]) : ToCome(d)' \/ Imported(d)'
    BY <1>3, <2>6, Zenon DEF Staged
  <2>8. \A k \in DOMAIN tx'[Importer].operations :
          \E d \in Range(Payload["devices"]) : d.EID = k[1] /\ k[2] < d.Sequence /\ Imported(d)'
    BY <2>4, <2>6, Zenon DEF Staged
  <2>9. QED
    BY <1>1, <2>7, <2>8, Zenon DEF Staged
<1>5. CASE table # "devices"
  <2>1. \A d \in Range(Payload["devices"]) : Imported(d)
    BY <1>5, AllImported, Zenon
  <2>2. PICK t, key, value :
          /\ t \in {"operations", "rows"}
          /\ Write(Importer, t, key, value)
          /\ t = "operations" => table = "operations" /\ key = <<r.EID, r.Number>>
    BY <1>5 DEF Written, importOperation, importRow
  <2>3. Wrote(Importer, t, key, value)
    BY <1>0, <2>2, WriteEffect, Zenon DEF Tables
  <2>4. /\ tx'[Importer].devices = tx[Importer].devices
        /\ \A k \in DOMAIN tx'[Importer].operations : k \in DOMAIN tx[Importer].operations \/ (t = "operations" /\ k = key)
    BY <2>2, <2>3, Zenon DEF Wrote, Tables
  <2>5. \A d \in Range(Payload["devices"]) : Imported(d)'
    BY <2>1, <2>4, Zenon DEF Imported
  <2>6. t = "operations" => \E d \in Range(Payload["devices"]) : d.EID = key[1] /\ key[2] < d.Sequence
    BY <1>0, <2>2, FirstLeft
  <2>7. \A k \in DOMAIN tx'[Importer].operations :
          \E d \in Range(Payload["devices"]) : d.EID = k[1] /\ k[2] < d.Sequence /\ Imported(d)'
    BY <2>4, <2>5, <2>6, Zenon DEF Staged
  <2>8. QED
    BY <1>1, <2>5, <2>7, Zenon DEF Staged
<1>6. QED
  BY <1>4, <1>5, Zenon

LEMMA StagedStep ==
  ASSUME Basis, Staged, [Next]_vars
  PROVE  Staged'
<1>0. Shape /\ Leftover /\ Holding /\ Importer \in Clients
      /\ \A c \in Apis \cup {Recorder, Reader} : Importer \in Clients \ {c}
  BY ClientsAssumption, Zenon DEF Basis
<1>1. ASSUME at'[Importer] = at[Importer], job'[Importer] = job[Importer], tx'[Importer] = tx[Importer],
             situation' = situation
      PROVE  Staged'
  BY <1>1 DEF Staged, ToCome, Imported, Payload
<1>2. ASSUME NEW c \in Apis \cup {Recorder, Reader}, Only(c), Keep
      PROVE  Staged'
  BY <1>0, <1>1, <1>2, Zenon DEF Only, Keep
<1>3. CASE (\E c \in Apis : Api(c)) \/ Record \/ operationResult
  BY <1>0, <1>2, <1>3, ApiStep, RecordStep, ReadStep, Zenon
<1>4. CASE ImportValidate
  <2>1. CASE Accepted(situation) = <<>>
    BY <1>0, <1>4, <2>1, Zenon DEF ImportValidate, Goto, Shape, Staged
  <2>2. CASE Accepted(situation) # <<>>
    <3>1. /\ at[Importer] = "validate" /\ situation' = situation /\ tx' = tx
          /\ job'[Importer].Left = InOrder(ImportOrder, Payload)
      BY <1>0, <1>4, <2>2 DEF ImportValidate, Shape, Keep, Fields, Payload, storeVars
    <3>2. \A name \in FileNames : Payload[name] \in Seq(Range(Payload[name]))
      BY <1>0, <2>2, BundlesAssumption, Zenon DEF Shape, Payload
    <3>3. \A d \in Range(Payload["devices"]) : \E i \in DOMAIN InOrder(ImportOrder, Payload) :
            InOrder(ImportOrder, Payload)[i] = [Table |-> "devices", Row |-> d]
      BY <3>2, ImportOrderFits, Zenon
    <3>4. \A d \in Range(Payload["devices"]) : ToCome(d)'
      BY <3>1, <3>3 DEF ToCome
    <3>5. DOMAIN tx'[Importer].operations = {}
      BY <1>0, <3>1, Zenon DEF Holding, ImporterHolds, Tables
    <3>6. QED
      BY <3>1, <3>4, <3>5, Zenon DEF Staged, Payload
  <2>3. QED
    BY <2>1, <2>2, Zenon
<1>5. CASE ImportRow
  <2>1. at[Importer] = "rows" /\ job[Importer].Left # <<>> /\ Keep
    BY <1>5, ImportRowCases, Zenon
  <2>2. CASE ImportFails
    BY <1>0, <2>1, <2>2, ImportFailsStep, Zenon DEF Staged, Keep
  <2>3. QED
    BY <1>5, <2>1, <2>2, ImportRowCases, StagedWritten, Zenon
<1>6. CASE ImportSync
  <2>1. /\ at[Importer] = "rows"
        /\ UNCHANGED <<tx, job, situation>>
    BY <1>6, Zenon DEF ImportSync, syncImportSequences, Keep
  <2>2. QED
    BY <2>1 DEF Staged, ToCome, Imported, Payload
<1>7. CASE ImportCommit
  BY <1>0, <1>7, Zenon DEF ImportCommit, Goto, Shape, Staged
<1>8. CASE ImportAborts
  BY <1>0, <1>8, ImportFailsStep, Zenon DEF ImportAborts, Keep, Staged
<1>9. CASE UNCHANGED vars
  BY <1>1, <1>9, Zenon DEF vars, storeVars
<1>10. QED
  BY <1>3, <1>4, <1>5, <1>6, <1>7, <1>8, <1>9, Zenon DEF Next, Import

(* A step that commits no operations and no next number. *)
LEMMA AboveKept ==
  ASSUME Above, NEW c \in Clients, Persists(c), rewound' = rewound,
         db'.operations = db.operations \/ DOMAIN db'.operations = DOMAIN db.operations,
         DOMAIN tx[c].devices = {} \/ db'.devices = db.devices
  PROVE  Above'
<1>1. \A e \in DOMAIN db.devices : e \in DOMAIN db'.devices /\ db'.devices[e].Sequence = db.devices[e].Sequence
  BY Zenon DEF Persists
<1>2. DOMAIN db'.operations = DOMAIN db.operations
  BY Zenon
<1>3. QED
  BY <1>1, <1>2, Zenon DEF Above

LEMMA AboveEnqueued ==
  ASSUME Basis, Above, NEW c \in Apis, ApiCommit(c)
  PROVE  Above'
<1> DEFINE eid == Target(c)
           number == job[c].Number
<1>0. c \in Clients /\ Shape /\ ApiHolds(c) /\ WellFormed(db) /\ WellFormed(tx[c])
  BY ClientsAssumption, Zenon DEF Basis, Holding, ApiHolds
<1>1. Committed(c) /\ rewound' = rewound /\ at[c] = "commit"
  BY <1>0, CommitEffect, Zenon DEF ApiCommit, Keep
<1>2. /\ DOMAIN tx[c].devices = {eid} /\ eid \in DOMAIN db.devices
      /\ db.devices[eid].Sequence = number /\ tx[c].devices[eid].Sequence = number + 1
      /\ DOMAIN tx[c].operations = {<<eid, number>>}
  BY <1>0, <1>1, Zenon DEF ApiHolds, Enqueueing
<1>3. number \in Nat
  BY <1>0, <1>2, Zenon DEF WellFormed, DeviceRow
<1>4. \A k \in DOMAIN db.operations : k[2] \in Nat
  BY <1>0, Zenon DEF WellFormed
<1> HIDE DEF eid, number
<1>5. /\ DOMAIN db'.devices = DOMAIN db.devices
      /\ db'.devices[eid].Sequence = number + 1
      /\ \A e \in DOMAIN db.devices \ {eid} : db'.devices[e] = db.devices[e]
  BY <1>1, <1>2, Zenon DEF Committed, Tables
<1>6. DOMAIN db'.operations = DOMAIN db.operations \cup {<<eid, number>>}
  BY <1>1, <1>2, Zenon DEF Committed, Tables
<1>7. ASSUME NEW k \in DOMAIN db'.operations
      PROVE  k[1] \in DOMAIN db'.devices /\ (k[1] \in rewound \/ k[2] < db'.devices[k[1]].Sequence)
  <2>1. CASE k = <<eid, number>>
    BY <1>2, <1>3, <1>5, <2>1
  <2>2. CASE k \in DOMAIN db.operations
    <3>1. k[1] \in DOMAIN db.devices /\ (k[1] \in rewound \/ k[2] < db.devices[k[1]].Sequence)
      BY <2>2, Zenon DEF Above
    <3>2. CASE k[1] = eid
      BY <1>2, <1>3, <1>4, <1>5, <2>2, <3>1, <3>2
    <3>3. CASE k[1] # eid
      BY <1>5, <3>1, <3>3, Zenon
    <3>4. QED
      BY <3>2, <3>3, Zenon
  <2>3. QED
    BY <1>6, <2>1, <2>2, Zenon
<1>8. QED
  BY <1>1, <1>7, Zenon DEF Above

LEMMA AboveImported ==
  ASSUME Basis, Staged, Above, ImportCommit
  PROVE  Above'
<1> DEFINE devices == tx[Importer].devices
<1>0. Importer \in Clients /\ Shape /\ WellFormed(db) /\ WellFormed(tx[Importer])
  BY ClientsAssumption, Zenon DEF Basis, Holding, ImporterHolds
<1>1. Committed(Importer) /\ rewound' = rewound \cup Older /\ at[Importer] = "commit"
  BY <1>0, CommitEffect, Zenon DEF ImportCommit
<1>2. /\ DOMAIN db'.devices = DOMAIN devices \cup DOMAIN db.devices
      /\ \A e \in DOMAIN devices : db'.devices[e] = devices[e]
      /\ \A e \in DOMAIN db.devices \ DOMAIN devices : db'.devices[e] = db.devices[e]
  BY <1>1, Zenon DEF Committed, Tables
<1>3. DOMAIN db'.operations = DOMAIN tx[Importer].operations \cup DOMAIN db.operations
  BY <1>1, Zenon DEF Committed, Tables
<1>4. \A e \in DOMAIN devices : devices[e].Sequence \in Nat
  BY <1>0, Zenon DEF WellFormed, DeviceRow
<1>5. \A k \in DOMAIN tx[Importer].operations : k[1] \in DOMAIN devices /\ k[2] < devices[k[1]].Sequence
  BY <1>1, Zenon DEF Staged, Imported
<1>6. \A k \in DOMAIN db.operations : k[1] \in DOMAIN devices =>
        k[1] \in Older \/ k[2] < devices[k[1]].Sequence
  BY <1>0, <1>4 DEF Older, WellFormed
<1> HIDE DEF devices
<1>7. ASSUME NEW k \in DOMAIN db'.operations
      PROVE  k[1] \in DOMAIN db'.devices /\ (k[1] \in rewound' \/ k[2] < db'.devices[k[1]].Sequence)
  <2>1. CASE k \in DOMAIN tx[Importer].operations
    BY <1>2, <1>5, <2>1, Zenon
  <2>2. CASE k \in DOMAIN db.operations
    <3>1. k[1] \in DOMAIN db.devices /\ (k[1] \in rewound \/ k[2] < db.devices[k[1]].Sequence)
      BY <2>2, Zenon DEF Above
    <3>2. CASE k[1] \in DOMAIN devices
      BY <1>1, <1>2, <1>6, <2>2, <3>2, Zenon
    <3>3. CASE k[1] \notin DOMAIN devices
      BY <1>1, <1>2, <3>1, <3>3, Zenon
    <3>4. QED
      BY <3>2, <3>3, Zenon
  <2>3. QED
    BY <1>3, <2>1, <2>2, Zenon
<1>8. QED
  BY <1>7, Zenon DEF Above

LEMMA AboveStep ==
  ASSUME Basis, Staged, Above, [Next]_vars
  PROVE  Above'
<1>0. Shape /\ Leftover /\ Holding /\ Recorder \in Clients /\ \A c \in Apis : c \in Clients
  BY ClientsAssumption, Zenon DEF Basis
<1>1. ASSUME NEW c \in Apis, Api(c), ~ApiCommit(c)
      PROVE  Above'
  <2>1. Persists(c) /\ rewound' = rewound
    BY <1>0, <1>1, ApiPersists, ApiStep, Zenon DEF Keep
  <2>2. db'.operations = db.operations
    BY <1>0, <1>1, Zenon DEF Api, ApiRegister, RegisterDevice, ApiSign, NextEUICCPackageCounter, ApiNumber,
       EnqueueNumber, ApiID, EnqueueID, ApiRow, Rollback, EnqueueRow, Shape, Tables
  <2>3. DOMAIN tx[c].devices = {} \/ db'.devices = db.devices
    <3>1. CASE at[c] \in {"register", "sign"}
      BY <1>0, <3>1, Zenon DEF Holding, ApiHolds, Enqueueing
    <3>2. CASE at[c] \notin {"register", "sign"}
      BY <1>1, <3>2, Zenon DEF Api, ApiRegister, ApiSign, ApiNumber, EnqueueNumber, ApiID, EnqueueID, ApiRow,
         Rollback, EnqueueRow
    <3>3. QED
      BY <3>1, <3>2, Zenon
  <2>4. QED
    BY <1>0, <2>1, <2>2, <2>3, AboveKept, Zenon
<1>2. CASE Record
  <2>1. Persists(Recorder) /\ rewound' = rewound /\ DOMAIN tx[Recorder].devices = {}
    BY <1>0, <1>2, RecordPersists, RecordStep, Zenon DEF Keep, Holding, RecorderHolds
  <2>2. DOMAIN db'.operations = DOMAIN db.operations
    <3>1. DOMAIN tx[Recorder].operations \subseteq DOMAIN db.operations
      BY <1>0, Zenon DEF Holding, RecorderHolds
    <3>2. QED
      BY <2>1, <3>1, Zenon DEF Persists, Committed, Tables
  <2>3. QED
    BY <1>0, <2>1, <2>2, AboveKept, Zenon
<1>3. CASE operationResult
  BY <1>0, <1>3, ReadStep, Zenon DEF Keep, storeVars, Above
<1>4. CASE (Import \/ ImportAborts) /\ ~ImportCommit
  <2>1. db' = db /\ rewound' = rewound
    BY <1>0, <1>4, ImportRowCases, ImportFailsStep, WrittenStep, Zenon
       DEF Import, ImportValidate, ImportSync, syncImportSequences, ImportAborts, storeVars, Keep
  <2>2. QED
    BY <2>1, Zenon DEF Above
<1>5. CASE UNCHANGED vars
  BY <1>5, Zenon DEF vars, storeVars, Above
<1>6. QED
  BY <1>1, <1>2, <1>3, <1>4, <1>5, AboveEnqueued, AboveImported, Zenon DEF Next, Import

(* The next number of a device is above all numbers its operations have,   *)
(* unless importDevice set it back: EnqueueOperation's UPDATE locks the    *)
(* device until the commit, and so does importDevice's upsert, so a number *)
(* is never given twice, however enqueues and an import interleave.        *)
THEOREM NumbersAbove == Spec => []NextAboveAll
<1>1. Init => Basis /\ Staged /\ Above
  <2> SUFFICES ASSUME Init PROVE Basis /\ Staged /\ Above
    BY Zenon
  <2>1. at[Importer] \in {"done", "validate"}
    BY ClientsAssumption, Zenon DEF Init
  <2>2. Staged
    BY <2>1, Zenon DEF Staged
  <2>3. situation \in Situations /\ db = situation.Database
    BY Zenon DEF Init
  <2>4. Above
    BY <2>3, DatabasesAssumption, Zenon DEF Above
  <2>5. QED
    BY <2>2, <2>4, BasisInit, Zenon
<1>2. Basis /\ Staged /\ Above /\ [Next]_vars => (Basis /\ Staged /\ Above)'
  BY BasisStep, StagedStep, AboveStep, Zenon
<1>3. Above => NextAboveAll
  BY Zenon DEF Above, NextAboveAll
<1>4. QED
  BY <1>1, <1>2, <1>3, PTL DEF Spec

-----------------------------------------------------------------------------
(* The ids: an operation that is being enqueued has a key and an id that   *)
(* nobody has, and those the import sees are different.                    *)
Fresh(c) ==
  \A k \in DOMAIN tx[c].operations :
    /\ k \notin DOMAIN db.operations
    /\ ~HasID(db.operations, tx[c].operations[k].ID)
    /\ \A other \in Clients \ {c} : ~HasID(tx[other].operations, tx[c].operations[k].ID)

Identity ==
  /\ \A k, l \in DOMAIN db.operations : db.operations[k].ID = db.operations[l].ID => k = l
  /\ \A c \in Apis : Fresh(c)
  /\ \A k, l \in DOMAIN tx[Importer].operations :
       tx[Importer].operations[k].ID = tx[Importer].operations[l].ID => k = l
  /\ \A k \in DOMAIN tx[Importer].operations : \A l \in DOMAIN db.operations \ DOMAIN tx[Importer].operations :
       tx[Importer].operations[k].ID # db.operations[l].ID

(* A transaction comes to have an operation only with an id no enqueue has. *)
Takes(c) ==
  \A k \in DOMAIN tx'[c].operations :
    \/ k \in DOMAIN tx[c].operations /\ tx'[c].operations[k] = tx[c].operations[k]
    \/ \A d \in Apis \ {c} : ~HasID(tx[d].operations, tx'[c].operations[k].ID)

LEMMA FreshKept ==
  ASSUME Basis, Identity, NEW c \in Clients, NEW d \in Apis, d # c, Only(c), Persists(c), Takes(c)
  PROVE  Fresh(d)'
<1>0. d \in Clients \ {c} /\ c \in Clients \ {d} /\ Locks
  BY ClientsAssumption, Zenon DEF Basis, Holding
<1>1. tx'[d] = tx[d] /\ Fresh(d)
  BY <1>0, Zenon DEF Only, Identity
<1> SUFFICES ASSUME NEW k \in DOMAIN tx[d].operations
             PROVE  /\ k \notin DOMAIN db'.operations
                    /\ ~HasID(db'.operations, tx[d].operations[k].ID)
                    /\ \A other \in Clients \ {d} : ~HasID(tx'[other].operations, tx[d].operations[k].ID)
  BY <1>1, Zenon DEF Fresh
<1>2. /\ k \notin DOMAIN db.operations /\ k \notin DOMAIN tx[c].operations
      /\ ~HasID(db.operations, tx[d].operations[k].ID)
      /\ ~HasID(tx[c].operations, tx[d].operations[k].ID)
  BY <1>0, <1>1, Zenon DEF Fresh, Locks
<1>5. k \notin DOMAIN db'.operations /\ ~HasID(db'.operations, tx[d].operations[k].ID)
  <2>1. CASE db'.operations = db.operations
    BY <1>2, <2>1, Zenon
  <2>2. CASE Committed(c)
    BY <1>2, <2>2 DEF Committed, Tables, HasID
  <2>3. QED
    BY <2>1, <2>2, Zenon DEF Persists, Tables
<1>6. ASSUME NEW other \in Clients \ {d}
      PROVE  ~HasID(tx'[other].operations, tx[d].operations[k].ID)
  <2>1. CASE other # c
    BY <1>1, <2>1, Zenon DEF Only, Fresh
  <2>2. CASE other = c
    <3> SUFFICES ASSUME NEW l \in DOMAIN tx'[c].operations, tx'[c].operations[l].ID = tx[d].operations[k].ID
                 PROVE  FALSE
      BY <2>2, Zenon DEF HasID
    <3>1. CASE l \in DOMAIN tx[c].operations /\ tx'[c].operations[l] = tx[c].operations[l]
      BY <1>2, <3>1, Zenon DEF HasID
    <3>2. CASE ~HasID(tx[d].operations, tx'[c].operations[l].ID)
      BY <3>2, Zenon DEF HasID
    <3>3. QED
      BY <1>0, <3>1, <3>2, Zenon DEF Takes
  <2>3. QED
    BY <2>1, <2>2, Zenon
<1>7. QED
  BY <1>5, <1>6, Zenon

(* What a step leaves of the ids, the import's commit apart. *)
Stays ==
  /\ \A k \in DOMAIN db.operations :
       /\ k \in DOMAIN db'.operations
       /\ db'.operations[k].ID = db.operations[k].ID /\ db'.operations[k].From = db.operations[k].From
  /\ \A k \in DOMAIN db'.operations \ DOMAIN db.operations :
       /\ db'.operations[k].Status = "pending"
       /\ ~HasID(db.operations, db'.operations[k].ID) /\ ~HasID(tx[Importer].operations, db'.operations[k].ID)
  /\ \A k, l \in DOMAIN db'.operations \ DOMAIN db.operations : k = l
  /\ DOMAIN db.results \subseteq DOMAIN db'.results

LEMMA ApiStays ==
  ASSUME Basis, Identity, NEW c \in Apis, Api(c)
  PROVE  Stays
<1>0. c \in Clients /\ c # Importer /\ Importer \in Clients \ {c} /\ Shape /\ ApiHolds(c) /\ Fresh(c)
  BY ClientsAssumption, Zenon DEF Basis, Holding, Identity
<1>1. CASE ~ApiCommit(c)
  <2>1. db'.operations = db.operations /\ db'.results = db.results
    BY <1>0, <1>1, Zenon DEF Api, ApiRegister, RegisterDevice, ApiSign, NextEUICCPackageCounter, ApiNumber,
       EnqueueNumber, ApiID, EnqueueID, ApiRow, Rollback, EnqueueRow, Shape, Tables
  <2>2. QED
    BY <2>1, Zenon DEF Stays
<1>2. CASE ApiCommit(c)
  <2>1. Committed(c) /\ at[c] = "commit"
    BY <1>0, <1>2, CommitEffect, Zenon DEF ApiCommit
  <2>2. PICK key : DOMAIN tx[c].operations = {key} /\ tx[c].operations[key].Status = "pending"
    BY <1>0, <2>1, Zenon DEF ApiHolds
  <2>3. /\ key \notin DOMAIN db.operations /\ ~HasID(db.operations, tx[c].operations[key].ID)
        /\ ~HasID(tx[Importer].operations, tx[c].operations[key].ID)
    BY <1>0, <2>2, Zenon DEF Fresh
  <2>4. /\ DOMAIN db'.operations = {key} \cup DOMAIN db.operations
        /\ db'.operations[key] = tx[c].operations[key]
        /\ \A k \in DOMAIN db.operations : db'.operations[k] = db.operations[k]
        /\ DOMAIN db.results \subseteq DOMAIN db'.results
    BY <2>1, <2>2, <2>3, Zenon DEF Committed, Tables
  <2>5. QED
    BY <2>2, <2>3, <2>4, Zenon DEF Stays
<1>3. QED
  BY <1>1, <1>2, Zenon

LEMMA RecordStays ==
  ASSUME Basis, Record
  PROVE  Stays /\ DOMAIN db'.operations = DOMAIN db.operations
<1>0. Recorder \in Clients /\ Shape /\ RecorderHolds
  BY ClientsAssumption, Zenon DEF Basis, Holding
<1>1. Persists(Recorder)
  BY <1>0, RecordPersists, Zenon
<1>2. CASE db'.operations = db.operations /\ db'.results = db.results
  BY <1>2, Zenon DEF Stays
<1>3. CASE Committed(Recorder)
  <2>1. DOMAIN tx[Recorder].operations \subseteq DOMAIN db.operations
    BY <1>0, Zenon DEF RecorderHolds
  <2>2. DOMAIN db'.operations = DOMAIN db.operations /\ DOMAIN db.results \subseteq DOMAIN db'.results
    BY <1>3, <2>1, Zenon DEF Committed, Tables
  <2>3. \A k \in DOMAIN db.operations :
          db'.operations[k].ID = db.operations[k].ID /\ db'.operations[k].From = db.operations[k].From
    BY <1>0, <1>3 DEF RecorderHolds, Committed, Tables
  <2>4. QED
    BY <2>2, <2>3, Zenon DEF Stays
<1>4. QED
  BY <1>1, <1>2, <1>3, Zenon DEF Persists, Tables

LEMMA IdentityStays ==
  ASSUME Identity, Stays, tx'[Importer] = tx[Importer], \A c \in Apis : Fresh(c)'
  PROVE  Identity'
<1>1. \A k, l \in DOMAIN db'.operations : db'.operations[k].ID = db'.operations[l].ID => k = l
  <2> SUFFICES ASSUME NEW k \in DOMAIN db'.operations, NEW l \in DOMAIN db'.operations,
                      db'.operations[k].ID = db'.operations[l].ID
               PROVE  k = l
    BY Zenon
  <2>1. CASE k \in DOMAIN db.operations /\ l \in DOMAIN db.operations
    BY <2>1, Zenon DEF Stays, Identity
  <2>2. CASE k \notin DOMAIN db.operations /\ l \notin DOMAIN db.operations
    BY <2>2, Zenon DEF Stays
  <2>3. CASE k \in DOMAIN db.operations /\ l \notin DOMAIN db.operations
    BY <2>3 DEF Stays, HasID
  <2>4. CASE k \notin DOMAIN db.operations /\ l \in DOMAIN db.operations
    BY <2>4 DEF Stays, HasID
  <2>5. QED
    BY <2>1, <2>2, <2>3, <2>4, Zenon
<1>2. ASSUME NEW k \in DOMAIN tx[Importer].operations,
             NEW l \in DOMAIN db'.operations \ DOMAIN tx[Importer].operations
      PROVE  tx[Importer].operations[k].ID # db'.operations[l].ID
  <2>1. CASE l \in DOMAIN db.operations
    BY <2>1 DEF Stays, Identity
  <2>2. CASE l \notin DOMAIN db.operations
    BY <2>2, Zenon DEF Stays, HasID
  <2>3. QED
    BY <2>1, <2>2, Zenon
<1>3. QED
  BY <1>1, <1>2 DEF Identity

LEMMA ApiIdentity ==
  ASSUME Basis, Identity, NEW c \in Apis, Api(c)
  PROVE  Identity'
<1>0. c \in Clients /\ c # Importer /\ Importer \in Clients \ {c} /\ Shape /\ ApiHolds(c) /\ Fresh(c)
  BY ClientsAssumption, Zenon DEF Basis, Holding, Identity
<1>1. Only(c) /\ Persists(c) /\ Stays
  BY <1>0, ApiStep, ApiPersists, ApiStays, Zenon
<1>2. Takes(c) /\ Fresh(c)'
  <2>1. CASE ApiRow(c) /\ ~InsertFails(c, Target(c), job[c].Number, job[c].ID)
    <3> DEFINE key == <<Target(c), job[c].Number>>
               row == [ID |-> job[c].ID, Status |-> "pending", From |-> c]
    <3>1. Wrote(c, "operations", key, row)
      BY <1>0, <2>1, WriteEffect, Zenon DEF ApiRow, EnqueueRow, Tables
    <3>2. DOMAIN tx[c].operations = {}
      BY <1>0, <2>1, Zenon DEF ApiRow, ApiHolds
    <3>3. row.ID = job[c].ID
      BY Zenon
    <3>4. /\ FreeID(c, job[c].ID) /\ key \notin DOMAIN db.operations
          /\ ~HasID(db.operations, job[c].ID) /\ db' = db
      BY <2>1, Zenon DEF ApiRow, InsertWaits, InsertFails, EnqueueRow
    <3> HIDE DEF key, row
    <3>5. DOMAIN tx'[c].operations = {key} /\ tx'[c].operations[key].ID = job[c].ID
      BY <3>1, <3>2, <3>3, Zenon DEF Wrote
    <3>6. \A other \in Clients \ {c} : ~HasID(tx[other].operations, job[c].ID) /\ tx'[other] = tx[other]
      BY <1>1, <3>4, Zenon DEF FreeID, Only
    <3>7. Takes(c)
      BY <3>5, <3>6, ClientsAssumption, Zenon DEF Takes
    <3>8. Fresh(c)'
      BY <3>4, <3>5, <3>6, Zenon DEF Fresh
    <3>9. QED
      BY <3>7, <3>8, Zenon
  <2>2. CASE ApiRow(c) /\ InsertFails(c, Target(c), job[c].Number, job[c].ID)
    <3>1. Ended(c)
      BY <1>0, <2>2, EndEffect, Zenon DEF ApiRow, Rollback
    <3>2. QED
      BY <3>1, Zenon DEF Ended, Takes, Fresh, Tables
  <2>3. CASE ApiCommit(c)
    <3>1. Ended(c)
      BY <1>0, <2>3, CommitEffect, Zenon DEF ApiCommit
    <3>2. QED
      BY <3>1, Zenon DEF Ended, Takes, Fresh, Tables
  <2>4. CASE ApiRegister(c) \/ ApiSign(c) \/ ApiID(c)
    <3>1. tx' = tx /\ at[c] # "commit"
      BY <2>4, Zenon DEF ApiRegister, RegisterDevice, ApiSign, NextEUICCPackageCounter, ApiID, EnqueueID
    <3>2. DOMAIN tx'[c].operations = {}
      BY <1>0, <3>1, Zenon DEF ApiHolds
    <3>3. QED
      BY <3>2, Zenon DEF Takes, Fresh
  <2>5. CASE ApiNumber(c)
    <3>1. PICK key, value : Wrote(c, "devices", key, value)
      BY <1>0, <2>5, WriteEffect, Zenon DEF ApiNumber, EnqueueNumber, Tables
    <3>2. DOMAIN tx'[c].operations = {}
      BY <1>0, <2>5, <3>1, Zenon DEF ApiNumber, ApiHolds, Wrote, Tables
    <3>3. QED
      BY <3>2, Zenon DEF Takes, Fresh
  <2>6. QED
    BY <2>1, <2>2, <2>3, <2>4, <2>5, Zenon DEF Api
<1>3. \A d \in Apis : Fresh(d)'
  BY <1>0, <1>1, <1>2, FreshKept, Zenon
<1>4. QED
  BY <1>0, <1>1, <1>3, IdentityStays, Zenon DEF Only

LEMMA RecordIdentity ==
  ASSUME Basis, Identity, Record
  PROVE  Identity'
<1>0. /\ Recorder \in Clients /\ Recorder \notin Apis /\ Importer \in Clients \ {Recorder}
      /\ Shape /\ RecorderHolds
  BY ClientsAssumption, Zenon DEF Basis, Holding
<1>1. Only(Recorder) /\ Persists(Recorder) /\ Stays
  BY <1>0, RecordStep, RecordPersists, RecordStays, Zenon
<1>2. RecorderHolds'
  BY RecordHolding, Zenon DEF Basis, Holding
<1>3. Takes(Recorder)
  <2>1. CASE RecordUpdate
    <3>1. db' = db /\ job' = job
      BY <2>1, Zenon DEF RecordUpdate, RecordStatus
    <3>2. \A k \in DOMAIN tx'[Recorder].operations :
            k \in DOMAIN db.operations /\ tx'[Recorder].operations[k].ID = db.operations[k].ID
      BY <1>2, <3>1, Zenon DEF RecorderHolds
    <3>3. QED
      BY <3>2 DEF Takes, Identity, Fresh, HasID
  <2>2. CASE RecordCommit \/ RecordRefused
    <3>1. Ended(Recorder)
      BY <1>0, <2>2, CommitEffect, EndEffect, Zenon DEF RecordCommit, RecordRefused, Rollback
    <3>2. QED
      BY <3>1, Zenon DEF Ended, Takes, Tables
  <2>3. CASE RecordBegin \/ RecordSelect
    BY <2>3, Zenon DEF RecordBegin, RecordSelect, storeVars, Takes
  <2>4. CASE RecordInsert
    <3>1. PICK key, value : Wrote(Recorder, "results", key, value)
      BY <1>0, <2>4, WriteEffect, Zenon DEF RecordInsert, RecordResult, Tables
    <3>2. QED
      BY <3>1, Zenon DEF Wrote, Tables, Takes
  <2>5. QED
    BY <2>1, <2>2, <2>3, <2>4, Zenon DEF Record
<1>4. \A d \in Apis : Fresh(d)'
  BY <1>0, <1>1, <1>3, FreshKept, Zenon
<1>5. QED
  BY <1>0, <1>1, <1>4, IdentityStays, Zenon DEF Only

LEMMA ImportIdentity ==
  ASSUME Basis, Identity, Import \/ ImportAborts
  PROVE  Identity'
<1>0. Importer \in Clients /\ Importer \notin Apis /\ Shape /\ Leftover /\ ImporterHolds
  BY ClientsAssumption, Zenon DEF Basis, Holding
<1>1. Only(Importer) /\ Persists(Importer)
  BY <1>0, ImportStep, ImportPersists, Zenon
<1>2. ASSUME Ended(Importer), db' = db
      PROVE  Identity'
  <2>1. DOMAIN tx'[Importer].operations = {} /\ Takes(Importer)
    BY <1>2, Zenon DEF Ended, Tables, Takes
  <2>2. \A d \in Apis : Fresh(d)'
    BY <1>0, <1>1, <2>1, FreshKept, Zenon
  <2>3. QED
    BY <1>2, <2>1, <2>2, Zenon DEF Identity
<1>3. CASE ImportValidate \/ ImportSync
  BY <1>3, Zenon DEF ImportValidate, ImportSync, syncImportSequences, storeVars, Identity, Fresh
<1>4. CASE ImportRow /\ ImportFails
  BY <1>0, <1>2, <1>4, ImportFailsStep, ImportRowCases, Zenon DEF Keep
<1>5. CASE ImportAborts
  BY <1>0, <1>2, <1>5, ImportFailsStep, Zenon DEF ImportAborts, Keep
<1>6. CASE ImportRow /\ Written /\ ImportGoesOn
  <2> DEFINE r == job[Importer].Left[1].Row
             table == job[Importer].Left[1].Table
  <2>1. db' = db
    BY <1>0, <1>6, WrittenStep, ImportRowCases, Zenon
  <2>2. CASE table # "operations"
    <3>1. PICK t, key, value : t \in {"devices", "rows"} /\ Write(Importer, t, key, value)
      BY <1>6, <2>2 DEF Written, importDevice, importRow
    <3>2. Wrote(Importer, t, key, value)
      BY <1>0, <3>1, WriteEffect, Zenon DEF Tables
    <3>3. tx'[Importer].operations = tx[Importer].operations
      BY <3>1, <3>2, Zenon DEF Wrote, Tables
    <3>4. \A d \in Apis : Fresh(d)'
      BY <1>0, <1>1, <3>3, FreshKept, Zenon DEF Takes
    <3>5. QED
      BY <2>1, <3>3, <3>4 DEF Identity
  <2>3. CASE table = "operations"
    <3> DEFINE key == <<r.EID, r.Number>>
               row == [ID |-> r.ID, Status |-> r.Status, From |-> "bundle"]
               visible == Visible(Importer, "operations")
               id == r.ID
    <3>1. /\ importOperation(Importer, r) /\ ~ImportWaits(Importer, r) /\ ~importOperationFails(Importer, r)
      BY <1>6, <2>3, Zenon DEF Written
    <3>2. Wrote(Importer, "operations", key, row) /\ row.ID = id
      BY <1>0, <3>1, WriteEffect, Zenon DEF importOperation, Tables
    <3>3. \A other \in Clients \ {Importer} : ~HasID(tx[other].operations, id)
      BY <3>1, Zenon DEF ImportWaits, FreeID
    <3>4. \A other \in DOMAIN visible \ {key} : visible[other].ID # id
      BY <3>1, Zenon DEF importOperationFails
    <3>5. /\ \A k \in DOMAIN tx[Importer].operations \ {key} : tx[Importer].operations[k].ID # id
          /\ \A k \in DOMAIN db.operations \ (DOMAIN tx[Importer].operations \cup {key}) : db.operations[k].ID # id
      BY <3>4, Zenon DEF Visible, Override
    <3> HIDE DEF key, row, visible, id
    <3>6. /\ DOMAIN tx'[Importer].operations = DOMAIN tx[Importer].operations \cup {key}
          /\ tx'[Importer].operations[key].ID = id
          /\ \A k \in DOMAIN tx[Importer].operations \ {key} :
               tx'[Importer].operations[k] = tx[Importer].operations[k]
      BY <3>2, Zenon DEF Wrote
    <3>7. Takes(Importer)
      BY <1>0, <3>3, <3>6, ClientsAssumption, Zenon DEF Takes
    <3>8. \A d \in Apis : Fresh(d)'
      BY <1>0, <1>1, <3>7, FreshKept, Zenon
    <3>9. \A k, l \in DOMAIN tx'[Importer].operations :
            tx'[Importer].operations[k].ID = tx'[Importer].operations[l].ID => k = l
      BY <3>5, <3>6, Zenon DEF Identity
    <3>10. \A k \in DOMAIN tx'[Importer].operations :
             \A l \in DOMAIN db.operations \ DOMAIN tx'[Importer].operations :
               tx'[Importer].operations[k].ID # db.operations[l].ID
      BY <3>5, <3>6 DEF Identity
    <3>11. QED
      BY <2>1, <3>8, <3>9, <3>10, Zenon DEF Identity
  <2>4. QED
    BY <2>2, <2>3, Zenon
<1>7. CASE ImportCommit
  <2>1. Ended(Importer) /\ Committed(Importer)
    BY <1>0, <1>7, CommitEffect, Zenon DEF ImportCommit
  <2>2. DOMAIN tx'[Importer].operations = {} /\ Takes(Importer)
    BY <2>1, Zenon DEF Ended, Tables, Takes
  <2>3. \A d \in Apis : Fresh(d)'
    BY <1>0, <1>1, <2>2, FreshKept, Zenon
  <2>4. /\ DOMAIN db'.operations = DOMAIN tx[Importer].operations \cup DOMAIN db.operations
        /\ \A k \in DOMAIN tx[Importer].operations : db'.operations[k] = tx[Importer].operations[k]
        /\ \A k \in DOMAIN db.operations \ DOMAIN tx[Importer].operations : db'.operations[k] = db.operations[k]
    BY <2>1, Zenon DEF Committed, Tables
  <2>5. \A k, l \in DOMAIN db'.operations : db'.operations[k].ID = db'.operations[l].ID => k = l
    BY <2>4 DEF Identity
  <2>6. QED
    BY <2>2, <2>3, <2>5, Zenon DEF Identity
<1>8. QED
  BY <1>3, <1>4, <1>5, <1>6, <1>7, ImportRowCases, Zenon DEF Import

-----------------------------------------------------------------------------
(* The results.  Until the import is done a result has its operation's id, *)
(* and the import keeps the id of an operation with a result.              *)
Unimported ==
  at[Importer] # "done" =>
    /\ \A k \in DOMAIN db.results :
         k \in DOMAIN db.operations /\ db.results[k].OperationID = db.operations[k].ID
    /\ \A k \in DOMAIN tx[Importer].operations :
         k \in DOMAIN db.results \cup DOMAIN tx[Recorder].results =>
           k \in DOMAIN db.operations /\ tx[Importer].operations[k].ID = db.operations[k].ID
    /\ Selected => db.operations[job[Recorder].Key].ID = job[Recorder].ID

(* The id a result is recorded for is the selected operation's, or one the *)
(* import took from it.                                                    *)
Recording ==
  (Selected /\ job[Recorder].ID \notin renumbered) =>
    /\ db.operations[job[Recorder].Key].ID = job[Recorder].ID
    /\ \A k \in DOMAIN db.operations : db.operations[k].ID = job[Recorder].ID =>
         k = job[Recorder].Key \/ db.operations[k].From = "bundle"

Owed(op) == op.Status # "pending" /\ op.From # "bundle" /\ op.ID \notin renumbered

DoneRows == \A k \in DOMAIN db.operations : Owed(db.operations[k]) => k \in DOMAIN db.results

Reading ==
  /\ DOMAIN job[Reader].Response = {"Operation", "Result"}
  /\ at[Reader] = "second" =>
       \A op \in Range(job[Reader].Response.Operation) : Owed(op) =>
         \E k \in DOMAIN db.results :
           k \in DOMAIN db.operations /\ db.operations[k].ID = job[Reader].ID
  /\ DoneHasResult

LEMMA UnimportedStays ==
  ASSUME Basis, Unimported, Stays, at'[Importer] = at[Importer], tx'[Importer] = tx[Importer],
         job'[Recorder] = job[Recorder], at'[Recorder] = at[Recorder], tx'[Recorder] = tx[Recorder],
         db'.results = db.results \/ (DOMAIN db'.results = DOMAIN db.results
                                       /\ \A k \in DOMAIN db.results : db'.results[k] = db.results[k])
  PROVE  Unimported'
<1>1. Selected => job[Recorder].Key \in DOMAIN db.operations
  BY Zenon DEF Basis, Holding, RecorderHolds
<1>2. Selected' = Selected
  BY Zenon DEF Selected
<1>3. DOMAIN db'.results = DOMAIN db.results /\ \A k \in DOMAIN db.results : db'.results[k] = db.results[k]
  BY Zenon
<1>4. QED
  BY <1>1, <1>2, <1>3, Zenon DEF Unimported, Stays

LEMMA ApiUnimported ==
  ASSUME Basis, Identity, Unimported, NEW c \in Apis, Api(c)
  PROVE  Unimported'
<1>0. c \in Clients /\ Importer \in Clients \ {c} /\ Recorder \in Clients \ {c} /\ Shape /\ ApiHolds(c)
  BY ClientsAssumption, Zenon DEF Basis, Holding
<1>1. Only(c) /\ Persists(c) /\ Stays
  BY <1>0, ApiStep, ApiPersists, ApiStays, Zenon
<1>2. \/ db'.results = db.results
      \/ DOMAIN db'.results = DOMAIN db.results /\ \A k \in DOMAIN db.results : db'.results[k] = db.results[k]
  BY <1>0, <1>1, Zenon DEF Persists, Committed, Tables, ApiHolds
<1>3. QED
  BY <1>0, <1>1, <1>2, UnimportedStays, Zenon DEF Only

LEMMA RecordUnimported ==
  ASSUME Basis, Unimported, Record
  PROVE  Unimported'
<1>0. Recorder \in Clients /\ Importer \in Clients \ {Recorder} /\ Shape /\ RecorderHolds /\ Holding
  BY ClientsAssumption, Zenon DEF Basis, Holding
<1>1. Only(Recorder) /\ Stays /\ RecorderHolds'
  BY <1>0, RecordStep, RecordStays, RecordHolding, Zenon DEF Holding
<1>2. at'[Importer] = at[Importer] /\ tx'[Importer] = tx[Importer]
  BY <1>0, <1>1, Zenon DEF Only
<1> SUFFICES ASSUME at[Importer] # "done" PROVE Unimported'
  BY <1>2, Zenon DEF Unimported
<1> DEFINE key == job[Recorder].Key
           Kept == \A k \in DOMAIN tx[Importer].operations :
                     k \in DOMAIN db.results \cup DOMAIN tx[Recorder].results =>
                       k \in DOMAIN db.operations /\ tx[Importer].operations[k].ID = db.operations[k].ID
           Same == \A k \in DOMAIN db.results :
                     k \in DOMAIN db.operations /\ db.results[k].OperationID = db.operations[k].ID
<1>3. Kept /\ Same /\ (Selected => db.operations[key].ID = job[Recorder].ID)
  BY Zenon DEF Unimported
<1>4. Selected => key \in DOMAIN db.operations
  BY <1>0, Zenon DEF RecorderHolds
<1>5. CASE RecordBegin
  <2>1. UNCHANGED <<db, tx>> /\ ~Selected'
    BY <1>0, <1>5, Zenon DEF RecordBegin, storeVars, Goto, Shape, Selected
  <2>2. QED
    BY <1>3, <2>1, Zenon DEF Unimported
<1>6. CASE RecordSelect
  <2>1. UNCHANGED <<db, tx>>
    BY <1>6, Zenon DEF RecordSelect, storeVars
  <2>2. Selected' => db.operations[job'[Recorder].Key].ID = job'[Recorder].ID
    <3>1. CASE RecordKey(job[Recorder].ID) = {}
      BY <1>0, <1>6, <3>1, Zenon DEF RecordSelect, Goto, Shape, Selected
    <3>2. CASE RecordKey(job[Recorder].ID) # {}
      <4>1. PICK k, status :
              /\ k \in RecordKey(job[Recorder].ID)
              /\ job' = [job EXCEPT ![Recorder].Key = k, ![Recorder].Status = status]
        BY <1>6, <3>2, Zenon DEF RecordSelect
      <4>2. job'[Recorder].Key = k /\ job'[Recorder].ID = job[Recorder].ID
        BY <1>0, <4>1, Zenon DEF Shape, Fields
      <4>3. QED
        BY <4>1, <4>2, Zenon DEF RecordKey
    <3>3. QED
      BY <3>1, <3>2, Zenon
  <2>3. QED
    BY <1>3, <2>1, <2>2, Zenon DEF Unimported
<1>7. CASE RecordInsert
  <2>1. UNCHANGED <<db, job>> /\ at[Recorder] = "result" /\ at'[Recorder] = "status"
    BY <1>0, <1>7, Zenon DEF RecordInsert, RecordResult, Goto, Shape
  <2>2. DOMAIN tx'[Recorder].results = {key}
    BY <1>1, <2>1, Zenon DEF RecorderHolds
  <2>3. key \in RecordKey(job[Recorder].ID)
    BY <1>3, <1>4, <2>1, Zenon DEF Selected, RecordKey
  <2>4. key \notin DOMAIN tx[Importer].operations
    BY <1>0, <1>7, <2>3, Zenon DEF RecordInsert, RecordResult, Free
  <2>5. Selected /\ Selected'
    BY <2>1, Zenon DEF Selected
  <2> HIDE DEF key
  <2>6. \A k \in DOMAIN tx[Importer].operations :
          k \in DOMAIN db.results \cup {key} =>
            k \in DOMAIN db.operations /\ tx[Importer].operations[k].ID = db.operations[k].ID
    BY <1>3, <2>4, Zenon
  <2>7. QED
    BY <1>2, <1>3, <2>1, <2>2, <2>5, <2>6, Zenon DEF Unimported, key
<1>8. CASE RecordRefused
  <2>1. Ended(Recorder) /\ db' = db /\ ~Selected'
    BY <1>0, <1>8, EndEffect, Zenon DEF RecordRefused, Rollback, Goto, Shape, Selected
  <2>2. QED
    BY <1>2, <1>3, <2>1, Zenon DEF Unimported, Ended, Tables
<1>9. CASE RecordUpdate
  <2>1. UNCHANGED <<db, job>> /\ Selected
    BY <1>9, Zenon DEF RecordUpdate, RecordStatus, Selected
  <2>2. PICK k, value : Write(Recorder, "operations", k, value)
    BY <1>9, Zenon DEF RecordUpdate, RecordStatus
  <2>3. tx'[Recorder].results = tx[Recorder].results
    BY <1>0, <2>2, WriteEffect, Zenon DEF Wrote, Tables
  <2>4. QED
    BY <1>2, <1>3, <2>1, <2>3, Zenon DEF Unimported
<1>10. CASE RecordCommit
  <2>1. Ended(Recorder) /\ Committed(Recorder) /\ ~Selected' /\ at[Recorder] = "commit"
    BY <1>0, <1>10, CommitEffect, Zenon DEF RecordCommit, Goto, Shape, Selected
  <2>2. /\ DOMAIN tx[Recorder].results = {key}
        /\ tx[Recorder].results[key].OperationID = job[Recorder].ID
        /\ Selected
    BY <1>0, <2>1, Zenon DEF RecorderHolds, Selected
  <2>3. /\ DOMAIN db'.results = DOMAIN db.results \cup {key} /\ DOMAIN tx'[Recorder].results = {}
        /\ db'.results[key].OperationID = job[Recorder].ID
        /\ \A k \in DOMAIN db.results \ {key} : db'.results[k] = db.results[k]
    BY <2>1, <2>2, Zenon DEF Committed, Ended, Tables
  <2> HIDE DEF key
  <2>4. \A k \in DOMAIN db'.results :
          k \in DOMAIN db'.operations /\ db'.results[k].OperationID = db'.operations[k].ID
    BY <1>1, <1>3, <1>4, <2>2, <2>3 DEF Stays
  <2>5. \A k \in DOMAIN tx[Importer].operations :
          k \in DOMAIN db'.results =>
            k \in DOMAIN db'.operations /\ tx[Importer].operations[k].ID = db'.operations[k].ID
    BY <1>1, <1>3, <2>2, <2>3, Zenon DEF Stays
  <2>6. QED
    BY <1>2, <2>1, <2>3, <2>4, <2>5, Zenon DEF Unimported
<1>11. QED
  BY <1>5, <1>6, <1>7, <1>8, <1>9, <1>10, Zenon DEF Record

LEMMA ImportUnimported ==
  ASSUME Basis, Unimported, Import \/ ImportAborts
  PROVE  Unimported'
<1>0. /\ Importer \in Clients /\ Recorder \in Clients \ {Importer}
      /\ Shape /\ Leftover /\ ImporterHolds /\ RecorderHolds
  BY ClientsAssumption, Zenon DEF Basis, Holding
<1>1. Only(Importer)
  BY <1>0, ImportStep, Zenon
<1>2. at'[Recorder] = at[Recorder] /\ tx'[Recorder] = tx[Recorder] /\ job'[Recorder] = job[Recorder]
  BY <1>0, <1>1, Zenon DEF Only
<1>3. Selected' = Selected
  BY <1>2, Zenon DEF Selected
<1>4. CASE ImportCommit
  BY <1>0, <1>4, Zenon DEF ImportCommit, Goto, Shape, Unimported
<1>5. ASSUME at[Importer] # "done", db' = db,
             \A k \in DOMAIN tx'[Importer].operations :
               k \in DOMAIN db.results \cup DOMAIN tx[Recorder].results =>
                 k \in DOMAIN db.operations /\ tx'[Importer].operations[k].ID = db.operations[k].ID
      PROVE  Unimported'
  BY <1>2, <1>3, <1>5, Zenon DEF Unimported
<1>6. CASE ImportValidate \/ ImportSync
  <2>1. UNCHANGED <<db, tx>> /\ at[Importer] # "done"
    BY <1>6, Zenon DEF ImportValidate, ImportSync, syncImportSequences, storeVars
  <2>2. QED
    BY <1>5, <2>1, Zenon DEF Unimported
<1>7. CASE (ImportRow /\ ImportFails) \/ ImportAborts
  <2>1. Ended(Importer) /\ db' = db /\ at[Importer] # "done"
    BY <1>0, <1>7, ImportFailsStep, ImportRowCases, Zenon DEF ImportAborts, Keep
  <2>2. DOMAIN tx'[Importer].operations = {}
    BY <2>1, Zenon DEF Ended, Tables
  <2>3. QED
    BY <1>5, <2>1, <2>2, Zenon
<1>8. CASE ImportRow /\ Written /\ ImportGoesOn
  <2> DEFINE r == job[Importer].Left[1].Row
             table == job[Importer].Left[1].Table
  <2>1. db' = db /\ at[Importer] = "rows"
    BY <1>0, <1>8, WrittenStep, ImportRowCases, Zenon
  <2>2. CASE table # "operations"
    <3>1. PICK t, key, value : t \in {"devices", "rows"} /\ Write(Importer, t, key, value)
      BY <1>8, <2>2 DEF Written, importDevice, importRow
    <3>2. Wrote(Importer, t, key, value)
      BY <1>0, <3>1, WriteEffect, Zenon DEF Tables
    <3>3. tx'[Importer].operations = tx[Importer].operations
      BY <3>1, <3>2, Zenon DEF Wrote, Tables
    <3>4. QED
      BY <1>5, <2>1, <3>3, Zenon DEF Unimported
  <2>3. CASE table = "operations"
    <3> DEFINE key == <<r.EID, r.Number>>
               row == [ID |-> r.ID, Status |-> r.Status, From |-> "bundle"]
               visible == Visible(Importer, "operations")
               id == r.ID
    <3>1. /\ importOperation(Importer, r) /\ ~ImportWaits(Importer, r) /\ ~importOperationFails(Importer, r)
      BY <1>8, <2>3, Zenon DEF Written
    <3>2. Wrote(Importer, "operations", key, row) /\ row.ID = id
      BY <1>0, <3>1, WriteEffect, Zenon DEF importOperation, Tables
    <3>3. key \in DOMAIN db.operations =>
            \A k \in DOMAIN tx[Recorder].results : tx[Recorder].results[k].OperationID # db.operations[key].ID
      BY <1>0, <3>1, Zenon DEF ImportWaits, Unreferenced
    <3>4. (key \in DOMAIN visible /\ visible[key].ID # id) =>
            \A k \in DOMAIN db.results : db.results[k].OperationID # visible[key].ID
      BY <3>1, Zenon DEF importOperationFails
    <3>5. key \in DOMAIN db.operations =>
            key \in DOMAIN visible /\ (visible[key] = db.operations[key]
                                       \/ (key \in DOMAIN tx[Importer].operations
                                            /\ visible[key] = tx[Importer].operations[key]))
      BY Zenon DEF Visible, Override
    <3> HIDE DEF key, row, visible, id
    <3>6. /\ DOMAIN tx'[Importer].operations = DOMAIN tx[Importer].operations \cup {key}
          /\ tx'[Importer].operations[key].ID = id
          /\ \A k \in DOMAIN tx[Importer].operations \ {key} :
               tx'[Importer].operations[k] = tx[Importer].operations[k]
      BY <3>2, Zenon DEF Wrote
    <3>7. ASSUME key \in DOMAIN db.results
          PROVE  key \in DOMAIN db.operations /\ id = db.operations[key].ID
      <4>1. key \in DOMAIN db.operations /\ db.results[key].OperationID = db.operations[key].ID
        BY <2>1, <3>7, Zenon DEF Unimported
      <4>2. visible[key].ID = db.operations[key].ID
        BY <2>1, <3>5, <3>7, <4>1, Zenon DEF Unimported
      <4>3. QED
        BY <3>4, <3>5, <3>7, <4>1, <4>2, Zenon
    <3>8. key \notin DOMAIN tx[Recorder].results
      <4> SUFFICES ASSUME key \in DOMAIN tx[Recorder].results PROVE FALSE
        BY Zenon
      <4>1. /\ Selected /\ key = job[Recorder].Key /\ key \in DOMAIN db.operations
            /\ tx[Recorder].results[key].OperationID = job[Recorder].ID
        BY <1>0, Zenon DEF RecorderHolds, Selected
      <4>2. db.operations[key].ID = job[Recorder].ID
        BY <2>1, <4>1, Zenon DEF Unimported
      <4>3. QED
        BY <3>3, <4>1, <4>2, Zenon
    <3>9. \A k \in DOMAIN tx'[Importer].operations :
            k \in DOMAIN db.results \cup DOMAIN tx[Recorder].results =>
              k \in DOMAIN db.operations /\ tx'[Importer].operations[k].ID = db.operations[k].ID
      BY <2>1, <3>6, <3>7, <3>8, Zenon DEF Unimported
    <3>10. QED
      BY <1>5, <2>1, <3>9, Zenon
  <2>4. QED
    BY <2>2, <2>3, Zenon
<1>9. QED
  BY <1>4, <1>6, <1>7, <1>8, ImportRowCases, Zenon DEF Import

-----------------------------------------------------------------------------
(* The import's commit: ids change only where they are counted as taken,   *)
(* and not where there is a result.                                        *)
LEMMA ImportCommitEffect ==
  ASSUME Basis, Unimported, ImportCommit
  PROVE  /\ \A k \in DOMAIN db.operations :
              /\ k \in DOMAIN db'.operations
              /\ db'.operations[k].ID = db.operations[k].ID \/ db.operations[k].ID \in renumbered'
         /\ \A k \in DOMAIN db'.operations :
              \/ k \in DOMAIN db.operations /\ db'.operations[k] = db.operations[k]
              \/ db'.operations[k].From = "bundle"
         /\ DOMAIN db'.results = DOMAIN db.results
         /\ \A k \in DOMAIN db.results :
              k \in DOMAIN db.operations => db'.operations[k].ID = db.operations[k].ID
         /\ renumbered \subseteq renumbered'
<1>0. Importer \in Clients /\ Shape /\ ImporterHolds
  BY ClientsAssumption, Zenon DEF Basis, Holding
<1>1. Committed(Importer) /\ renumbered' = renumbered \cup Taken /\ at[Importer] # "done"
  BY <1>0, CommitEffect, Zenon DEF ImportCommit
<1>2. /\ DOMAIN db'.operations = DOMAIN tx[Importer].operations \cup DOMAIN db.operations
      /\ \A k \in DOMAIN tx[Importer].operations : db'.operations[k] = tx[Importer].operations[k]
      /\ \A k \in DOMAIN db.operations \ DOMAIN tx[Importer].operations : db'.operations[k] = db.operations[k]
      /\ DOMAIN db'.results = DOMAIN db.results
  BY <1>0, <1>1, Zenon DEF Committed, Tables, ImporterHolds
<1>3. ASSUME NEW k \in DOMAIN db.operations
      PROVE  db'.operations[k].ID = db.operations[k].ID \/ db.operations[k].ID \in Taken
  <2>1. CASE k \in DOMAIN tx[Importer].operations
    BY <1>2, <2>1, Zenon DEF Taken
  <2>2. CASE k \notin DOMAIN tx[Importer].operations
    BY <1>2, <2>2, Zenon
  <2>3. QED
    BY <2>1, <2>2, Zenon
<1>4. \A k \in DOMAIN db.results :
        k \in DOMAIN db.operations => db'.operations[k].ID = db.operations[k].ID
  BY <1>1, <1>2, Zenon DEF Unimported
<1>5. \A k \in DOMAIN db'.operations :
        \/ k \in DOMAIN db.operations /\ db'.operations[k] = db.operations[k]
        \/ db'.operations[k].From = "bundle"
  BY <1>0, <1>2, Zenon DEF ImporterHolds
<1>6. QED
  BY <1>1, <1>2, <1>3, <1>4, <1>5, Zenon

LEMMA RecordingStep ==
  ASSUME Basis, Identity, Unimported, Recording, [Next]_vars
  PROVE  Recording'
<1>0. /\ Recorder \in Clients /\ \A c \in Apis \cup {Reader, Importer} : Recorder \in Clients \ {c}
      /\ Shape /\ Leftover /\ Holding /\ RecorderHolds
  BY ClientsAssumption, Zenon DEF Basis, Holding
<1>1. Selected => job[Recorder].Key \in DOMAIN db.operations
  BY <1>0, Zenon DEF RecorderHolds
<1>2. ASSUME at'[Recorder] = at[Recorder], job'[Recorder] = job[Recorder], Stays, renumbered' = renumbered
      PROVE  Recording'
  BY <1>1, <1>2 DEF Recording, Selected, Stays, HasID
<1>3. ASSUME NEW c \in Apis, Api(c)
      PROVE  Recording'
  BY <1>0, <1>2, <1>3, ApiStep, ApiStays, Zenon DEF Only, Keep
<1>4. CASE Record
  <2>1. Stays /\ renumbered' = renumbered /\ DOMAIN db'.operations = DOMAIN db.operations
    BY <1>0, <1>4, RecordStays, RecordStep, Zenon DEF Keep
  <2>2. CASE RecordSelect
    <3>1. db' = db
      BY <2>2, Zenon DEF RecordSelect, storeVars
    <3>2. CASE RecordKey(job[Recorder].ID) = {}
      BY <1>0, <2>2, <3>2, Zenon DEF RecordSelect, Goto, Shape, Selected, Recording
    <3>3. CASE RecordKey(job[Recorder].ID) # {}
      <4>1. PICK k, status :
              /\ k \in RecordKey(job[Recorder].ID)
              /\ job' = [job EXCEPT ![Recorder].Key = k, ![Recorder].Status = status]
        BY <2>2, <3>3, Zenon DEF RecordSelect
      <4>2. job'[Recorder].Key = k /\ job'[Recorder].ID = job[Recorder].ID
        BY <1>0, <4>1, Zenon DEF Shape, Fields
      <4>3. k \in DOMAIN db.operations /\ db.operations[k].ID = job[Recorder].ID
        BY <4>1, Zenon DEF RecordKey
      <4>4. QED
        BY <3>1, <4>2, <4>3, Zenon DEF Recording, Identity
    <3>4. QED
      BY <3>2, <3>3, Zenon
  <2>3. CASE RecordBegin \/ RecordRefused \/ RecordCommit
    BY <1>0, <2>3, Zenon DEF RecordBegin, RecordRefused, RecordCommit, Goto, Shape, Selected, Recording
  <2>4. CASE RecordInsert \/ RecordUpdate
    <3>1. db' = db /\ job' = job /\ Selected
      BY <2>4, Zenon DEF RecordInsert, RecordResult, RecordUpdate, RecordStatus, Selected
    <3>2. QED
      BY <2>1, <3>1, Zenon DEF Recording
  <2>5. QED
    BY <1>4, <2>2, <2>3, <2>4, Zenon DEF Record
<1>5. CASE operationResult
  <2>1. Only(Reader) /\ db' = db /\ renumbered' = renumbered
    BY <1>0, <1>5, ReadStep, Zenon DEF storeVars, Keep
  <2>2. QED
    BY <1>0, <2>1, Zenon DEF Recording, Selected, Only
<1>6. CASE (Import \/ ImportAborts) /\ ~ImportCommit
  <2>1. Only(Importer)
    BY <1>0, <1>6, ImportStep, Zenon
  <2>2. db' = db /\ renumbered' = renumbered
    BY <1>0, <1>6, ImportRowCases, ImportFailsStep, WrittenStep, Zenon
       DEF Import, ImportValidate, ImportSync, syncImportSequences, ImportAborts, storeVars, Keep
  <2>3. QED
    BY <1>0, <2>1, <2>2, Zenon DEF Recording, Selected, Only
<1>7. CASE ImportCommit
  <2>1. Only(Importer)
    BY <1>0, <1>7, ImportStep, Zenon DEF Import
  <2>2. at'[Recorder] = at[Recorder] /\ job'[Recorder] = job[Recorder]
    BY <1>0, <2>1, Zenon DEF Only
  <2>3. QED
    BY <1>1, <1>7, <2>2, ImportCommitEffect, Zenon DEF Recording, Selected
<1>8. CASE UNCHANGED vars
  BY <1>8, Zenon DEF vars, storeVars, Recording, Selected
<1>9. QED
  BY <1>3, <1>4, <1>5, <1>6, <1>7, <1>8, Zenon DEF Next, Import

LEMMA DoneRowsStep ==
  ASSUME Basis, Identity, Unimported, Recording, DoneRows, [Next]_vars
  PROVE  DoneRows'
<1>0. /\ Recorder \in Clients /\ Importer \in Clients /\ Apis \subseteq Clients
      /\ Shape /\ Leftover /\ Holding /\ RecorderHolds
  BY ClientsAssumption, Zenon DEF Basis, Holding
<1>1. ASSUME NEW c \in Apis, Api(c)
      PROVE  DoneRows'
  <2>1. Stays /\ Persists(c) /\ renumbered' = renumbered /\ Fresh(c)
    BY <1>0, <1>1, ApiStays, ApiPersists, ApiStep, Zenon DEF Keep, Identity
  <2>2. \A k \in DOMAIN db.operations : db'.operations[k] = db.operations[k]
    BY <2>1, Zenon DEF Persists, Committed, Tables, Fresh
  <2>3. QED
    BY <2>1, <2>2, Zenon DEF Stays, DoneRows, Owed
<1>2. CASE Record
  <2>1. Stays /\ Persists(Recorder) /\ renumbered' = renumbered /\ DOMAIN db'.operations = DOMAIN db.operations
    BY <1>0, <1>2, RecordStays, RecordPersists, RecordStep, Zenon DEF Keep
  <2>2. CASE db'.operations = db.operations
    BY <2>1, <2>2, Zenon DEF Stays, DoneRows, Owed
  <2>3. CASE Committed(Recorder)
    <3> SUFFICES ASSUME NEW k \in DOMAIN db'.operations, Owed(db.operations[k])'
                 PROVE  k \in DOMAIN db'.results
      BY Zenon DEF DoneRows, Owed
    <3>1. CASE k \notin DOMAIN tx[Recorder].operations
      BY <2>1, <2>3, <3>1 DEF Committed, Tables, Stays, DoneRows, Owed
    <3>2. CASE k \in DOMAIN tx[Recorder].operations
      <4>1. /\ at[Recorder] = "commit" /\ DOMAIN tx[Recorder].results = {job[Recorder].Key}
            /\ k \in DOMAIN db.operations /\ db.operations[k].ID = job[Recorder].ID
        BY <1>0, <3>2, Zenon DEF RecorderHolds
      <4>2. /\ db'.operations[k].ID = db.operations[k].ID /\ db'.operations[k].From = db.operations[k].From
        BY <2>1, <4>1, Zenon DEF Stays
      <4>3. k = job[Recorder].Key
        BY <2>1, <4>1, <4>2, Zenon DEF Recording, Selected, Owed
      <4>4. QED
        BY <2>3, <4>1, <4>3, Zenon DEF Committed, Tables
    <3>3. QED
      BY <3>1, <3>2, Zenon
  <2>4. QED
    BY <2>1, <2>2, <2>3, Zenon DEF Persists, Tables
<1>3. CASE operationResult
  BY <1>0, <1>3, ReadStep, Zenon DEF storeVars, Keep, DoneRows, Owed
<1>4. CASE (Import \/ ImportAborts) /\ ~ImportCommit
  <2>1. db' = db /\ renumbered' = renumbered
    BY <1>0, <1>4, ImportRowCases, ImportFailsStep, WrittenStep, Zenon
       DEF Import, ImportValidate, ImportSync, syncImportSequences, ImportAborts, storeVars, Keep
  <2>2. QED
    BY <2>1, Zenon DEF DoneRows, Owed
<1>5. CASE ImportCommit
  BY <1>5, ImportCommitEffect, Zenon DEF DoneRows, Owed
<1>6. CASE UNCHANGED vars
  BY <1>6, Zenon DEF vars, storeVars, DoneRows, Owed
<1>7. QED
  BY <1>1, <1>2, <1>3, <1>4, <1>5, <1>6, Zenon DEF Next, Import

(* The two reads of operationResult. *)
LEMMA ReadingRead ==
  ASSUME Basis, DoneRows, Reading, operationResult
  PROVE  Reading'
<1>0. Reader \in Clients /\ Shape
  BY ClientsAssumption, Zenon DEF Basis
<1>1. UNCHANGED db /\ renumbered' = renumbered
  BY Zenon DEF operationResult, storeVars, Keep
<1>2. CASE at[Reader] = "idle"
  <2>1. PICK key \in DOMAIN db.operations :
          job' = [job EXCEPT ![Reader].ID = db.operations[key].ID,
                             ![Reader].Response = ReadFirst(db.operations[key].ID)]
    BY <1>2, Zenon DEF operationResult
  <2> DEFINE id == db.operations[key].ID
             found == {k \in DOMAIN db.operations : db.operations[k].ID = id}
             chosen == CHOOSE k \in found : TRUE
  <2>2. job'[Reader].ID = id /\ job'[Reader].Response = ReadFirst(id) /\ at'[Reader] = "second"
    <3>1. job'[Reader].ID = id /\ job'[Reader].Response = ReadFirst(id)
      BY <1>0, <2>1, Zenon DEF Shape, Fields
    <3>2. at'[Reader] = "second"
      BY <1>0, <1>2, Zenon DEF Shape, operationResult, Goto
    <3>3. QED
      BY <3>1, <3>2, Zenon
  <2>3. chosen \in found
    BY <2>1, Zenon
  <2>4. GetOperation(id) = <<db.operations[chosen]>>
    BY <2>3, Zenon DEF GetOperation
  <2>5. Range(GetOperation(id)) = {db.operations[chosen]}
    <3> DEFINE row == db.operations[chosen]
    <3>1. GetOperation(id) = <<row>>
      BY <2>4, Zenon
    <3> HIDE DEF row, id, chosen, found
    <3>2. DOMAIN <<row>> = {1} /\ <<row>>[1] = row
      OBVIOUS
    <3>3. Range(<<row>>) = {row}
      BY <3>2, Zenon DEF Range
    <3>4. QED
      BY <3>1, <3>3, Zenon DEF row
  <2>6. chosen \in DOMAIN db.operations /\ db.operations[chosen].ID = id
    BY <2>3, Zenon
  <2>7. job'[Reader].Response.Operation = GetOperation(id)
        /\ DOMAIN job'[Reader].Response = {"Operation", "Result"}
    BY <2>2 DEF ReadFirst
  <2> HIDE DEF id, chosen, found
  <2>8. \A op \in Range(job'[Reader].Response.Operation) : Owed(op)' =>
          \E k \in DOMAIN db.results : k \in DOMAIN db.operations /\ db.operations[k].ID = job'[Reader].ID
    BY <1>1, <2>2, <2>5, <2>6, <2>7, Zenon DEF Owed, DoneRows
  <2>9. DoneHasResult'
    BY <2>2, Zenon DEF DoneHasResult
  <2>10. QED
    BY <1>1, <2>7, <2>8, <2>9, Zenon DEF Reading, Owed
<1>3. CASE at[Reader] = "second"
  <2> DEFINE id == job[Reader].ID
             old == job[Reader].Response
             found == {k \in DOMAIN db.operations : db.operations[k].ID = id /\ k \in DOMAIN db.results}
  <2>1. job'[Reader].Response = ReadSecond(id, old) /\ at'[Reader] = "answered"
    BY <1>0, <1>3 DEF Shape, Fields, operationResult, Goto
  <2>2. /\ job'[Reader].Response.Operation = old.Operation
        /\ job'[Reader].Response.Result = GetOperationResult(id)
        /\ DOMAIN job'[Reader].Response = {"Operation", "Result"}
    BY <2>1, Zenon DEF ReadSecond, Reading
  <2>3. ASSUME NEW op \in Range(old.Operation), Owed(op)
        PROVE  GetOperationResult(id) # <<>>
    <3>1. found # {}
      BY <1>3, <2>3, Zenon DEF Reading
    <3>2. QED
      BY <3>1, Zenon DEF GetOperationResult
  <2> HIDE DEF id, old, found
  <2>4. DoneHasResult'
    BY <1>1, <2>2, <2>3, Zenon DEF DoneHasResult, Owed
  <2>5. QED
    BY <2>1, <2>2, <2>4, Zenon DEF Reading
<1>4. QED
  BY <1>2, <1>3, Zenon DEF operationResult

LEMMA ReadingStep ==
  ASSUME Basis, Identity, Unimported, DoneRows, Reading, [Next]_vars
  PROVE  Reading'
<1>0. /\ Reader \in Clients /\ \A c \in Apis \cup {Recorder, Importer} : c \in Clients /\ Reader \in Clients \ {c}
      /\ Shape /\ Leftover /\ Holding
  BY ClientsAssumption, Zenon DEF Basis
<1>1. ASSUME at'[Reader] = at[Reader], job'[Reader] = job[Reader], renumbered \subseteq renumbered',
             DOMAIN db.results \subseteq DOMAIN db'.results,
             \A k \in DOMAIN db.results : k \in DOMAIN db.operations =>
               k \in DOMAIN db'.operations /\ db'.operations[k].ID = db.operations[k].ID
      PROVE  Reading'
  BY <1>1, Zenon DEF Reading, DoneHasResult, Owed
<1>2. ASSUME NEW c \in Apis, Api(c)
      PROVE  Reading'
  <2>1. Only(c) /\ Keep /\ Stays
    BY <1>0, <1>2, ApiStep, ApiStays, Zenon
  <2>2. QED
    BY <1>0, <1>1, <2>1, Zenon DEF Only, Keep, Stays
<1>3. CASE Record
  <2>1. Only(Recorder) /\ Keep /\ Stays
    BY <1>0, <1>3, RecordStep, RecordStays, Zenon
  <2>2. QED
    BY <1>0, <1>1, <2>1, Zenon DEF Only, Keep, Stays
<1>4. CASE operationResult
  BY <1>4, ReadingRead, Zenon
<1>5. CASE (Import \/ ImportAborts) /\ ~ImportCommit
  <2>1. db' = db /\ renumbered' = renumbered
    BY <1>0, <1>5, ImportRowCases, ImportFailsStep, WrittenStep, Zenon
       DEF Import, ImportValidate, ImportSync, syncImportSequences, ImportAborts, storeVars, Keep
  <2>2. Only(Importer)
    BY <1>0, <1>5, ImportStep, Zenon
  <2>3. QED
    BY <1>0, <1>1, <2>1, <2>2, Zenon DEF Only
<1>6. CASE ImportCommit
  <2>1. Only(Importer)
    BY <1>0, <1>6, ImportStep, Zenon DEF Import
  <2>2. QED
    BY <1>0, <1>1, <1>6, <2>1, ImportCommitEffect, Zenon DEF Only
<1>7. CASE UNCHANGED vars
  BY <1>7, Zenon DEF vars, storeVars, Reading, DoneHasResult, Owed
<1>8. QED
  BY <1>2, <1>3, <1>4, <1>5, <1>6, <1>7, Zenon DEF Next, Import

LEMMA IdentityStep ==
  ASSUME Basis, Identity, Unimported, [Next]_vars
  PROVE  Identity' /\ Unimported'
<1>1. CASE operationResult \/ UNCHANGED vars
  <2>1. Only(Reader) /\ UNCHANGED <<db, tx>>
    BY <1>1, ReadStep, Zenon DEF Basis, vars, storeVars, Only
  <2>2. at'[Importer] = at[Importer] /\ at'[Recorder] = at[Recorder] /\ job'[Recorder] = job[Recorder]
    BY <2>1, ClientsAssumption, Zenon DEF Only
  <2>3. Identity'
    BY <2>1 DEF Identity, Fresh, HasID
  <2>4. Unimported'
    BY <2>1, <2>2, Zenon DEF Unimported, Selected
  <2>5. QED
    BY <2>3, <2>4, Zenon
<1>2. QED
  BY <1>1, ApiIdentity, RecordIdentity, ImportIdentity, ApiUnimported, RecordUnimported, ImportUnimported, Zenon DEF Next

LEMMA ReadingInit ==
  ASSUME Init
  PROVE  Identity /\ Unimported /\ Recording /\ DoneRows /\ Reading
<1>1. Basis
  BY BasisInit, Zenon
<1>2. situation \in Situations /\ db = situation.Database
  BY Zenon DEF Init
<1>3. \A c \in Clients : DOMAIN tx[c].operations = {} /\ DOMAIN tx[c].results = {}
  BY NoRowsEmpty, Zenon DEF Init, Tables
<1>4. at[Recorder] \in {"done", "idle"} /\ at[Reader] \in {"done", "idle"} /\ job[Reader] = NoJob
  BY ClientsAssumption, Zenon DEF Init
<1>5. Identity
  <2>1. \A k, l \in DOMAIN db.operations : db.operations[k].ID = db.operations[l].ID => k = l
    BY <1>2, DatabasesAssumption, Zenon
  <2>2. Importer \in Clients /\ Apis \subseteq Clients
    BY ClientsAssumption, Zenon
  <2>3. \A c \in Apis : Fresh(c)
    BY <1>3, <2>2, Zenon DEF Fresh
  <2>4. QED
    BY <1>3, <2>1, <2>2, <2>3, Zenon DEF Identity
<1>6. Unimported
  <2>1. \A k \in DOMAIN db.results : k \in DOMAIN db.operations /\ db.results[k].OperationID = db.operations[k].ID
    BY <1>2, DatabasesAssumption, Zenon
  <2>2. Importer \in Clients
    BY ClientsAssumption, Zenon
  <2>3. ~Selected
    BY <1>4, Zenon DEF Selected
  <2>4. QED
    BY <1>3, <2>1, <2>2, <2>3, Zenon DEF Unimported
<1>7. Recording
  BY <1>4, Zenon DEF Recording, Selected
<1>8. DoneRows
  BY <1>2, DatabasesAssumption, Zenon DEF DoneRows, Owed
<1>9. Reading
  <2>1. DOMAIN NoJob.Response = {"Operation", "Result"}
    BY Zenon DEF NoJob
  <2>2. QED
    BY <1>4, <2>1, Zenon DEF Reading, DoneHasResult
<1>10. QED
  BY <1>5, <1>6, <1>7, <1>8, <1>9, Zenon

(* The answer of operationResult (api/handler.go) about an operation that  *)
(* is done or failed has its result, though the two reads are in no        *)
(* transaction and a result, new operations and an import may be committed *)
(* between them; operations of a bundle and ids the import took apart.     *)
THEOREM AnswersHaveResults == Spec => []DoneHasResult
<1> DEFINE Inductive == Basis /\ Identity /\ Unimported /\ Recording /\ DoneRows /\ Reading
<1>1. Init => Inductive
  BY BasisInit, ReadingInit, Zenon
<1>2. Inductive /\ [Next]_vars => Inductive'
  BY BasisStep, IdentityStep, RecordingStep, DoneRowsStep, ReadingStep, Zenon
<1>3. Inductive => DoneHasResult
  BY Zenon DEF Reading
<1>4. QED
  BY <1>1, <1>2, <1>3, PTL DEF Spec
=============================================================================
