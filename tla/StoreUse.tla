------------------------------ MODULE StoreUse ------------------------------
(***************************************************************************)
(* What runs against one PostgreSQL database at the same time: requests of *)
(* the northbound API (api/handler.go), the recording of a result, the     *)
(* reading of an operation with its result, and the command                *)
(* `eim import-bundle`, which may be used while the server runs.           *)
(***************************************************************************)
EXTENDS PostgresStore, DataAct

CONSTANTS
  Apis,       \* clients with one request each
  Recorder, Reader, Importer,  \* the other clients
  Exports,    \* the bundles that the export of the trusted signer wrote
  Situations  \* what to start from: Database, Bundle, TrustCert, Requests,
              \* and Absent (the clients that do nothing)

ASSUME ClientsAssumption ==
  /\ Clients = Apis \cup {Recorder, Reader, Importer}
  /\ {Recorder, Reader, Importer, "bundle"} \cap Apis = {}
  /\ Recorder # Reader /\ Recorder # Importer /\ Reader # Importer

Accepted(s) == ReadBundle(s.Bundle, s.TrustCert)

(* A database the server has used and no bundle has been imported into:    *)
(* what its tables' constraints say, numbers that EnqueueOperation gave,   *)
(* and results that RecordEUICCPackageResult wrote with the status.        *)
ASSUME DatabasesAssumption ==
  \A s \in Situations :
    /\ DOMAIN s.Database = DOMAIN NoRows
    /\ s.Database.rows = [k \in DOMAIN s.Database.rows |-> s.Database.rows[k]]
    /\ \A eid \in DOMAIN s.Database.devices : s.Database.devices[eid] \in [Sequence : Nat, Counter : Nat]
    /\ \A key \in DOMAIN s.Database.operations :
         /\ key[1] \in DOMAIN s.Database.devices
         /\ key[2] \in Nat /\ key[2] < s.Database.devices[key[1]].Sequence
         /\ DOMAIN s.Database.operations[key] = {"ID", "Status", "From"}
         /\ s.Database.operations[key].Status # "pending" => key \in DOMAIN s.Database.results
         /\ \A other \in DOMAIN s.Database.operations :
              s.Database.operations[other].ID = s.Database.operations[key].ID => other = key
    /\ \A key \in DOMAIN s.Database.results :
         /\ key \in DOMAIN s.Database.operations
         /\ s.Database.results[key].OperationID = s.Database.operations[key].ID

(* A bundle that is accepted is what the export (external) wrote of such a *)
(* database: a row for each device, and for each operation its device with *)
(* a next number above the operation's.                                    *)
ASSUME BundlesAssumption ==
  \A s \in Situations : Accepted(s) # <<>> =>
    LET payload == Accepted(s)[1]
    IN /\ \A name \in FileNames : payload[name] \in Seq(Range(payload[name]))
       /\ \A d \in Range(payload["devices"]) :
            /\ d.Sequence \in Nat /\ d.Counter \in Nat
            /\ \A other \in Range(payload["devices"]) : other.EID = d.EID => other = d
       /\ \A o \in Range(payload["operations"]) :
            \E d \in Range(payload["devices"]) : d.EID = o.EID /\ o.Number \in Nat /\ o.Number < d.Sequence

(* The export (external) lists its files with their digests and signs the  *)
(* list; nobody else signs with its key.                                   *)
ASSUME ExportsAssumption ==
  /\ \A e \in Exports : \A f \in e.Manifest.Files : f.SHA256 = e.Zip[f.Name]
  /\ \A s \in Situations : \A signature \in Range(s.Bundle.Manifest.Signature) :
       s.TrustCert # <<>> /\ s.TrustCert[1] = signature.Key =>
         \E e \in Exports : signature.Payload = contentCanonical(e.Manifest.Files)

VARIABLES
  situation,  \* the one chosen
  at,         \* the step each client is at
  job,        \* its local variables
  rewound,    \* history: devices whose numbers an older bundle set back
  renumbered  \* history: ids the bundle took from operations of the database

vars == <<storeVars, situation, at, job, rewound, renumbered>>

NoJob == [Targets |-> <<>>, Number |-> 0, ID |-> 0, Key |-> <<>>, Status |-> "",
          Response |-> [Operation |-> <<>>, Result |-> <<>>], Left |-> <<>>]

Request(c) == situation.Requests[c]
Goto(c, step) == at' = [at EXCEPT ![c] = step]
Keep == UNCHANGED <<situation, rewound, renumbered>>

-----------------------------------------------------------------------------
(* enqueueProfileOperation and triggerProfileDownload: register, sign (a   *)
(* package takes a counter), enqueue; a download does so for each target   *)
(* in turn and stops at the first error.                                   *)

Target(c) == job[c].Targets[1]

ApiRegister(c) ==
  /\ at[c] = "register"
  /\ RegisterDevice(c, Target(c))
  /\ Goto(c, IF Request(c).Kind = "package" THEN "sign" ELSE "number")
  /\ UNCHANGED job /\ Keep

ApiSign(c) ==
  /\ at[c] = "sign"
  /\ NextEUICCPackageCounter(c, Target(c))
  /\ Goto(c, "number")
  /\ UNCHANGED job /\ Keep

ApiNumber(c) ==
  /\ at[c] = "number"
  /\ EnqueueNumber(c, Target(c))
  /\ job' = [job EXCEPT ![c].Number = db.devices[Target(c)].Sequence]
  /\ Goto(c, "id") /\ Keep

ApiID(c) ==
  /\ at[c] = "id"
  /\ EnqueueID
  /\ job' = [job EXCEPT ![c].ID = idSeq + 1]
  /\ Goto(c, "row") /\ Keep

ApiRow(c) ==
  /\ at[c] = "row" /\ ~InsertWaits(c, Target(c), job[c].Number, job[c].ID)
  /\ IF InsertFails(c, Target(c), job[c].Number, job[c].ID)
     THEN Rollback(c) /\ Goto(c, "failed") /\ UNCHANGED idSeq
     ELSE /\ EnqueueRow(c, Target(c), job[c].Number, [ID |-> job[c].ID, Status |-> "pending", From |-> c])
          /\ Goto(c, "commit")
  /\ UNCHANGED job /\ Keep

ApiCommit(c) ==
  /\ at[c] = "commit"
  /\ Commit(c)
  /\ job' = [job EXCEPT ![c] = [NoJob EXCEPT !.Targets = Tail(job[c].Targets)]]
  /\ Goto(c, IF Len(job[c].Targets) > 1 THEN "register" ELSE "accepted")
  /\ UNCHANGED idSeq /\ Keep

Api(c) == ApiRegister(c) \/ ApiSign(c) \/ ApiNumber(c) \/ ApiID(c) \/ ApiRow(c) \/ ApiCommit(c)

-----------------------------------------------------------------------------
(* A device uploads the result of an operation it was given. *)

RecordBegin ==
  /\ at[Recorder] = "idle"
  /\ \E eid \in DOMAIN db.devices : \E key \in FetchPendingOperations(eid) :
       job' = [job EXCEPT ![Recorder].ID = db.operations[key].ID]
  /\ Goto(Recorder, "select")
  /\ UNCHANGED storeVars /\ Keep

RecordSelect ==
  /\ at[Recorder] = "select"
  /\ IF RecordKey(job[Recorder].ID) = {} THEN Goto(Recorder, "idle") /\ UNCHANGED job
     ELSE /\ \E key \in RecordKey(job[Recorder].ID), status \in {"done", "failed"} :
               job' = [job EXCEPT ![Recorder].Key = key, ![Recorder].Status = status]
          /\ Goto(Recorder, "result")
  /\ UNCHANGED storeVars /\ Keep

RecordInsert ==
  LET j == job[Recorder]
  IN /\ at[Recorder] = "result"
     /\ RecordResult(Recorder, j.Key, j.ID, j.Status)
     /\ HasID(db.operations, j.ID)
     /\ Goto(Recorder, "status")
     /\ UNCHANGED job /\ Keep

(* The operation has another id by now: the foreign key fails. *)
RecordRefused ==
  LET j == job[Recorder]
  IN /\ at[Recorder] = "result"
     /\ Free(Recorder, "results", j.Key) /\ ~HasID(db.operations, j.ID)
     /\ Rollback(Recorder)
     /\ Goto(Recorder, "idle")
     /\ UNCHANGED <<idSeq, job>> /\ Keep

RecordUpdate ==
  /\ at[Recorder] = "status"
  /\ RecordStatus(Recorder, job[Recorder].ID, job[Recorder].Status)
  /\ Goto(Recorder, "commit")
  /\ UNCHANGED job /\ Keep

RecordCommit ==
  /\ at[Recorder] = "commit"
  /\ Commit(Recorder)
  /\ job' = [job EXCEPT ![Recorder] = NoJob]
  /\ Goto(Recorder, "idle")
  /\ UNCHANGED idSeq /\ Keep

Record == RecordBegin \/ RecordSelect \/ RecordInsert \/ RecordRefused \/ RecordUpdate \/ RecordCommit

-----------------------------------------------------------------------------
(* operationResult: two reads, in no transaction. *)

(* Faults: the result is read before the operation. *)
ReadResultFirst(id) == [Operation |-> <<>>, Result |-> GetOperationResult(id)]
ReadOperationSecond(id, response) == [response EXCEPT !.Operation = GetOperation(id)]

operationResultSwapped ==
  /\ \/ /\ at[Reader] = "idle"
        /\ \E key \in DOMAIN db.operations :
             job' = [job EXCEPT ![Reader].ID = db.operations[key].ID,
                                ![Reader].Response = ReadResultFirst(db.operations[key].ID)]
        /\ Goto(Reader, "second")
     \/ /\ at[Reader] = "second"
        /\ job' = [job EXCEPT ![Reader].Response = ReadOperationSecond(job[Reader].ID, @)]
        /\ Goto(Reader, "answered")
  /\ UNCHANGED storeVars /\ Keep

ReadFirst(id) == [Operation |-> GetOperation(id), Result |-> <<>>]
ReadSecond(id, response) == [response EXCEPT !.Result = GetOperationResult(id)]

operationResult ==
  /\ \/ /\ at[Reader] = "idle"
        /\ \E key \in DOMAIN db.operations :
             job' = [job EXCEPT ![Reader].ID = db.operations[key].ID,
                                ![Reader].Response = ReadFirst(db.operations[key].ID)]
        /\ Goto(Reader, "second")
     \/ /\ at[Reader] = "second"
        /\ job' = [job EXCEPT ![Reader].Response = ReadSecond(job[Reader].ID, @)]
        /\ Goto(Reader, "answered")
  /\ UNCHANGED storeVars /\ Keep

-----------------------------------------------------------------------------
(* ImportBundle. *)

(* A fault: the operations before the devices they are for. *)
OperationsFirst ==
  <<"operations", "devices", "euicc_state", "profile_state", "associated_eim", "notifications">>

ImportOrder ==
  <<"devices", "euicc_state", "profile_state", "associated_eim", "operations", "notifications">>

TableRows(table, payload) ==
  [i \in 1..Len(payload[table]) |-> [Table |-> table, Row |-> payload[table][i]]]

InOrder(tables, payload) ==
  TableRows(tables[1], payload) \o (TableRows(tables[2], payload) \o (TableRows(tables[3], payload)
    \o (TableRows(tables[4], payload) \o (TableRows(tables[5], payload) \o TableRows(tables[6], payload)))))

ImportValidate ==
  LET payload == Accepted(situation)
  IN /\ at[Importer] = "validate"
     /\ IF payload = <<>> THEN Goto(Importer, "failed") /\ UNCHANGED job
        ELSE /\ job' = [job EXCEPT ![Importer].Left = InOrder(ImportOrder, payload[1])]
             /\ Goto(Importer, "rows")
     /\ UNCHANGED storeVars /\ Keep

ImportFails == Rollback(Importer) /\ Goto(Importer, "failed") /\ UNCHANGED <<idSeq, job>>

ImportGoesOn ==
  /\ job' = [job EXCEPT ![Importer].Left = Tail(job[Importer].Left)]
  /\ UNCHANGED at

ImportRow ==
  LET r == job[Importer].Left[1].Row
      table == job[Importer].Left[1].Table
  IN /\ at[Importer] = "rows" /\ job[Importer].Left # <<>>
     /\ CASE table = "devices" -> importDevice(Importer, r) /\ ImportGoesOn
          [] table = "operations" ->
               /\ ~ImportWaits(Importer, r)
               /\ IF importOperationFails(Importer, r) THEN ImportFails
                  ELSE importOperation(Importer, r) /\ ImportGoesOn
          [] OTHER ->
               IF RowFails(Importer, table, r) THEN ImportFails
               ELSE importRow(Importer, table, r) /\ ImportGoesOn
     /\ Keep

ImportSync ==
  /\ at[Importer] = "rows" /\ job[Importer].Left = <<>>
  /\ syncImportSequences(Importer)
  /\ Goto(Importer, "commit")
  /\ UNCHANGED job /\ Keep

(* Devices with operations the bundle does not know of. *)
Older == {eid \in DOMAIN tx[Importer].devices :
            \E key \in DOMAIN db.operations : key[1] = eid /\ key[2] >= tx[Importer].devices[eid].Sequence}

Taken == {db.operations[key].ID : key \in {k \in DOMAIN tx[Importer].operations :
            k \in DOMAIN db.operations /\ tx[Importer].operations[k].ID # db.operations[k].ID}}

ImportCommit ==
  /\ at[Importer] = "commit"
  /\ Commit(Importer)
  /\ rewound' = rewound \cup Older
  /\ renumbered' = renumbered \cup Taken
  /\ Goto(Importer, "done")
  /\ UNCHANGED <<idSeq, job, situation>>

(* The connection is lost. *)
ImportAborts ==
  /\ at[Importer] \in {"rows", "commit"}
  /\ ImportFails /\ Keep

Import == ImportValidate \/ ImportRow \/ ImportSync \/ ImportCommit

-----------------------------------------------------------------------------
Init ==
  /\ situation \in Situations
  /\ db = situation.Database
  /\ idSeq = Max({0} \cup {db.operations[key].ID : key \in DOMAIN db.operations})
  /\ tx = [c \in Clients |-> NoRows]
  /\ at = [c \in Clients |-> IF c \in situation.Absent THEN "done"
                             ELSE IF c \in Apis THEN "register"
                             ELSE IF c = Importer THEN "validate" ELSE "idle"]
  /\ job = [c \in Clients |-> IF c \in Apis THEN [NoJob EXCEPT !.Targets = Request(c).Targets] ELSE NoJob]
  /\ rewound = {} /\ renumbered = {}

Next == (\E c \in Apis : Api(c)) \/ Record \/ operationResult \/ Import \/ ImportAborts

Finished(c) == at[c] \in {"accepted", "failed", "done"}

(* A client with an open transaction goes on; PostgreSQL wakes the waiting. *)
Spec ==
  /\ Init /\ [][Next]_vars
  /\ \A c \in Apis : WF_vars(Api(c))
  /\ WF_vars(at[Recorder] # "idle" /\ Record)
  /\ WF_vars(Import)

-----------------------------------------------------------------------------
(* The next number of a device is above all it was given, so that a new    *)
(* operation is not refused for its number, whatever the import and the    *)
(* enqueues interleave to; unless a bundle older than the database set it  *)
(* back (importDevice writes the bundle's counters over the device's).     *)
NextAboveAll ==
  \A key \in DOMAIN db.operations : key[1] \in rewound \/ key[2] < db.devices[key[1]].Sequence

(* Nobody sees part of a bundle: before its commit, and after a failure at *)
(* any row, nothing of it is in the database.                              *)
AllOrNothing ==
  at[Importer] # "done" =>
    /\ db.rows = situation.Database.rows
    /\ \A key \in DOMAIN db.operations \ DOMAIN situation.Database.operations :
         db.operations[key].From # "bundle"

(* The answer about an operation that is done or failed has its result,    *)
(* though operation and result are read apart.  Imported operations come   *)
(* without results; and when the import gives an operation another id      *)
(* while its result is being recorded, a new operation can get the old id, *)
(* which is marked done in its place.                                      *)
DoneHasResult ==
  \A op \in Range(job[Reader].Response.Operation) :
    (/\ at[Reader] = "answered" /\ op.Status # "pending" /\ op.From # "bundle"
     /\ op.ID \notin renumbered)
      => job[Reader].Response.Result # <<>>

(* All files that an export of the trusted signer lists arrived as it      *)
(* wrote them, and the entries of the journal follow one another.          *)
Exported(s) ==
  LET zip == s.Bundle.Zip
      journal == readNDJSON(s.Bundle, "command_journal")
      before == s.Bundle.Manifest.JournalChain.PrevHashBefore
  IN /\ s.TrustCert # <<>> =>
          \E e \in Exports : \A f \in e.Manifest.Files :
            f.Name \in DOMAIN zip /\ zip[f.Name] = e.Zip[f.Name]
     /\ \A i \in DOMAIN journal :
          /\ (i = 1 /\ before # <<>>) => journal[1].EntryHash.Prev = before[1]
          /\ i > 1 => journal[i].EntryHash.Prev = journal[i - 1].EntryHash

(* A bundle gets into the database only with the files the trusted signer  *)
(* exported and an unbroken journal: eim import-bundle checks digests,     *)
(* signature and journal before the first row is written.                  *)
OnlyExported == (at[Importer] = "done" /\ Importer \notin situation.Absent) => Exported(situation)

(* To its users the store is atomic: whatever the transactions of requests,*)
(* results and import interleave to, each commit is one step of            *)
(* AtomicStore, and nothing else changes the committed rows.               *)
Atomic == INSTANCE AtomicStore WITH
  devices <- db.devices, operations <- db.operations, results <- db.results, rows <- db.rows,
  bundle <- Accepted(situation), taken <- renumbered

ImplementsAtomicStore == Atomic!Spec

(* Every request and the import come to an end: no two of the transactions *)
(* wait for each other (PostgreSQL would fail one of them), because the    *)
(* import locks the devices first, as the enqueue does.                    *)
EverybodyAnswered == \A c \in Apis \cup {Importer} : <>Finished(c)
=============================================================================
