--------------------------- MODULE PostgresStore ---------------------------
(***************************************************************************)
(* storage/postgres: the store over PostgreSQL at READ COMMITTED.  db is   *)
(* what is committed, tx the writes of each client's open transaction.  A  *)
(* statement that writes a row another open transaction wrote waits for    *)
(* the end of that transaction and then looks again.  A sequence is        *)
(* outside transactions: nextval and setval are never rolled back.         *)
(*                                                                         *)
(* The tables: devices by EID; operations and operation_results by EID and *)
(* sequence number; all that is only upserted and read as rows, by table,  *)
(* EID and key.  One tenant.                                               *)
(***************************************************************************)
EXTENDS Integers, Sequences, FiniteSets, Functions, FiniteSetsExt, TLC

CONSTANT Clients  \* connections to the database

VARIABLES db, tx, idSeq

storeVars == <<db, tx, idSeq>>

NoRows == [devices |-> <<>>, operations |-> <<>>, results |-> <<>>, rows |-> <<>>]

Override(f, g) == [k \in DOMAIN f \cup DOMAIN g |-> IF k \in DOMAIN f THEN f[k] ELSE g[k]]
Put(f, key, value) == [k \in DOMAIN f \cup {key} |-> IF k = key THEN value ELSE f[k]]

(* A client sees what is committed and what it wrote itself. *)
Visible(c, table) == Override(tx[c][table], db[table])

Write(c, table, key, value) == tx' = [tx EXCEPT ![c][table] = Put(tx[c][table], key, value)]

(* No other transaction has written this row; none has an operation with   *)
(* this id, or is changing the one that has it; none refers to this id.    *)
Free(c, table, key) == \A other \in Clients \ {c} : key \notin DOMAIN tx[other][table]
HasID(operations, id) == \E key \in DOMAIN operations : operations[key].ID = id
RecordKey(id) == {key \in DOMAIN db.operations : db.operations[key].ID = id}
FreeID(c, id) ==
  /\ \A other \in Clients \ {c} : ~HasID(tx[other].operations, id)
  /\ \A key \in RecordKey(id) : Free(c, "operations", key)
Unreferenced(c, id) ==
  \A other \in Clients \ {c} : \A key \in DOMAIN tx[other].results :
    tx[other].results[key].OperationID # id

Commit(c) ==
  /\ db' = [table \in DOMAIN db |-> Override(tx[c][table], db[table])]
  /\ tx' = [tx EXCEPT ![c] = NoRows]

Rollback(c) == tx' = [tx EXCEPT ![c] = NoRows] /\ UNCHANGED db

NewDevice == [Sequence |-> 1, Counter |-> 1]

(* One statement, committed at once. *)
RegisterDevice(c, eid) ==
  /\ Free(c, "devices", eid)
  /\ db' = IF eid \in DOMAIN db.devices THEN db
           ELSE [db EXCEPT !.devices = Put(db.devices, eid, NewDevice)]
  /\ UNCHANGED <<tx, idSeq>>

(* A fault: the counter of a device is changed while an enqueue has it. *)
NextEUICCPackageCounterUnlocked(c, eid) ==
  /\ db' = [db EXCEPT !.devices[eid].Counter = db.devices[eid].Counter + 1]
  /\ UNCHANGED <<tx, idSeq>>

NextEUICCPackageCounter(c, eid) ==
  /\ Free(c, "devices", eid)
  /\ db' = [db EXCEPT !.devices[eid].Counter = db.devices[eid].Counter + 1]
  /\ UNCHANGED <<tx, idSeq>>

-----------------------------------------------------------------------------
(* EnqueueOperation: the number, the id, the row, the commit. *)

EnqueueNumber(c, eid) ==
  /\ Free(c, "devices", eid)
  /\ Write(c, "devices", eid, [db.devices[eid] EXCEPT !.Sequence = db.devices[eid].Sequence + 1])
  /\ UNCHANGED <<db, idSeq>>

EnqueueID == idSeq' = idSeq + 1 /\ UNCHANGED <<db, tx>>

InsertWaits(c, eid, number, id) == ~Free(c, "operations", <<eid, number>>) \/ ~FreeID(c, id)

(* Both unique indexes, over what is committed. *)
InsertFails(c, eid, number, id) == <<eid, number>> \in DOMAIN db.operations \/ HasID(db.operations, id)

EnqueueRow(c, eid, number, operation) ==
  /\ Write(c, "operations", <<eid, number>>, operation)
  /\ UNCHANGED <<db, idSeq>>

-----------------------------------------------------------------------------
(* Reads. *)

FetchPendingOperations(eid) ==
  {key \in DOMAIN db.operations : key[1] = eid /\ db.operations[key].Status = "pending"}

GetOperation(id) ==
  LET found == {key \in DOMAIN db.operations : db.operations[key].ID = id}
  IN IF found = {} THEN <<>> ELSE <<db.operations[CHOOSE key \in found : TRUE]>>

(* Joined by EID and sequence number. *)
GetOperationResult(id) ==
  LET found == {key \in DOMAIN db.operations : db.operations[key].ID = id /\ key \in DOMAIN db.results}
  IN IF found = {} THEN <<>> ELSE <<db.results[CHOOSE key \in found : TRUE]>>

-----------------------------------------------------------------------------
(* RecordEUICCPackageResult by operation id: the key, the result, the      *)
(* status, the commit.                                                     *)

(* The foreign key needs the operation with this id to stay as it is. *)
RecordResult(c, key, id, status) ==
  /\ Free(c, "results", key) /\ \A k \in RecordKey(id) : Free(c, "operations", k)
  /\ Write(c, "results", key, [OperationID |-> id, Status |-> status])
  /\ UNCHANGED <<db, idSeq>>

(* By id, and no longer by the key that was selected. *)
RecordStatus(c, id, status) ==
  /\ \E key \in RecordKey(id) :
       /\ Free(c, "operations", key)
       /\ Write(c, "operations", key, [db.operations[key] EXCEPT !.Status = status])
  /\ UNCHANGED <<db, idSeq>>

-----------------------------------------------------------------------------
(* ImportBundle: one upsert per row of the bundle, then the sequences. *)

(* A fault: a device that is there keeps its counters. *)
importDeviceIfAbsent(c, r) ==
  /\ Free(c, "devices", r.EID)
  /\ Write(c, "devices", r.EID,
           IF r.EID \in DOMAIN Visible(c, "devices") THEN Visible(c, "devices")[r.EID]
           ELSE [Sequence |-> r.Sequence, Counter |-> r.Counter])
  /\ UNCHANGED <<db, idSeq>>

importDevice(c, r) ==
  /\ Free(c, "devices", r.EID)
  /\ Write(c, "devices", r.EID, [Sequence |-> r.Sequence, Counter |-> r.Counter])
  /\ UNCHANGED <<db, idSeq>>

(* Profile, eUICC and associated-eIM rows and notifications refer to a     *)
(* device; octets that are not base64, a notification without a number,    *)
(* and one with the id (its Value here) of another, stop the import.       *)
RowFails(c, table, r) ==
  LET visible == Visible(c, "rows")
  IN \/ ~r.Decodes
     \/ r.EID \notin DOMAIN Visible(c, "devices")
     \/ /\ table = "notifications"
        /\ \E other \in DOMAIN visible \ {<<table, r.EID, r.Key>>} :
             other[1] = table /\ visible[other] = r.Value

(* A fault: the row is written outside the transaction. *)
importRowOnPool(c, table, r) ==
  /\ Free(c, "rows", <<table, r.EID, r.Key>>)
  /\ db' = [db EXCEPT !.rows = Put(db.rows, <<table, r.EID, r.Key>>, r.Value)]
  /\ UNCHANGED <<tx, idSeq>>

importRow(c, table, r) ==
  /\ Free(c, "rows", <<table, r.EID, r.Key>>)
  /\ Write(c, "rows", <<table, r.EID, r.Key>>, r.Value)
  /\ UNCHANGED <<db, idSeq>>

ImportWaits(c, r) ==
  LET key == <<r.EID, r.Number>>
  IN \/ ~Free(c, "operations", key) \/ ~FreeID(c, r.ID)
     \/ key \in DOMAIN db.operations /\ ~Unreferenced(c, db.operations[key].ID)

(* ON CONFLICT is about the sequence number only: the id of another row,   *)
(* and a result that refers to the id to be replaced, stop the import.     *)
importOperationFails(c, r) ==
  LET key == <<r.EID, r.Number>>
      visible == Visible(c, "operations")
  IN \/ ~r.Decodes
     \/ r.EID \notin DOMAIN Visible(c, "devices")
     \/ \E other \in DOMAIN visible \ {key} : visible[other].ID = r.ID
     \/ /\ key \in DOMAIN visible /\ visible[key].ID # r.ID
        /\ \E k \in DOMAIN db.results : db.results[k].OperationID = visible[key].ID

importOperation(c, r) ==
  /\ Write(c, "operations", <<r.EID, r.Number>>, [ID |-> r.ID, Status |-> r.Status, From |-> "bundle"])
  /\ UNCHANGED <<db, idSeq>>

syncImportSequences(c) ==
  LET visible == Visible(c, "operations")
  IN /\ idSeq' = Max({1} \cup {visible[key].ID : key \in DOMAIN visible})
     /\ UNCHANGED <<db, tx>>
=============================================================================
