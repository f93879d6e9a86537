----------------------------- MODULE AtomicStore -----------------------------
(***************************************************************************)
(* What the callers of a storage.Store (storage/store.go) take it for: a   *)
(* database in which every method happens at once, with no transactions,   *)
(* locks or clients in sight.  Counters go up by one and none is lost or   *)
(* given twice, an operation gets its device's next number and an id that  *)
(* is not in use, a result comes with the status of its operation, and a   *)
(* bundle is merged whole.  The one thing that is not as simple as it      *)
(* looks is an id that a bundle took from an operation: its result may be  *)
(* kept under the operation's number while another operation, with that    *)
(* id by now, gets the status.                                             *)
(***************************************************************************)
EXTENDS Integers, Functions

VARIABLES devices, operations, results, rows,  \* the tables, by key
          bundle,  \* the payload to import, <<>> when it is refused
          taken    \* ids that the bundle took from operations

store == <<devices, operations, results, rows, bundle, taken>>

(* Of the rows of a table, only those with these keys are written. *)
Writes(old, new, keys) ==
  /\ DOMAIN new = DOMAIN old \cup keys
  /\ \A key \in DOMAIN old \ keys : new[key] = old[key]

OneID(table) == \A key, other \in DOMAIN table : table[key].ID = table[other].ID => key = other

Init ==
  /\ \A key \in DOMAIN operations :
       key[1] \in DOMAIN devices /\ key[2] < devices[key[1]].Sequence
  /\ OneID(operations)
  /\ \A key \in DOMAIN results :
       key \in DOMAIN operations /\ results[key].OperationID = operations[key].ID
  /\ taken = {}

RegisterDevice(eid) ==
  /\ eid \notin DOMAIN devices
  /\ Writes(devices, devices', {eid}) /\ devices'[eid] = [Sequence |-> 1, Counter |-> 1]
  /\ UNCHANGED <<operations, results, rows, bundle, taken>>

NextEUICCPackageCounter(eid) ==
  /\ Writes(devices, devices', {eid})
  /\ devices'[eid] = [devices[eid] EXCEPT !.Counter = devices[eid].Counter + 1]
  /\ UNCHANGED <<operations, results, rows, bundle, taken>>

EnqueueOperation(eid) ==
  LET number == devices[eid].Sequence
      key == <<eid, number>>
  IN /\ Writes(devices, devices', {eid})
     /\ devices'[eid] = [devices[eid] EXCEPT !.Sequence = number + 1]
     /\ key \notin DOMAIN operations
     /\ Writes(operations, operations', {key})
     /\ operations'[key].Status = "pending" /\ OneID(operations')
     /\ Writes(results, results', {}) /\ Writes(rows, rows', {})
     /\ UNCHANGED <<bundle, taken>>

RecordEUICCPackageResult(key, under, status) ==
  /\ under = key \/ operations[key].ID \in taken
  /\ Writes(operations, operations', {key})
  /\ operations'[key] = [operations[key] EXCEPT !.Status = status]
  /\ Writes(results, results', {under})
  /\ results'[under] = [OperationID |-> operations[key].ID, Status |-> status]
  /\ Writes(devices, devices', {}) /\ Writes(rows, rows', {})
  /\ UNCHANGED <<bundle, taken>>

-----------------------------------------------------------------------------
(* The key and the value of a row r of a file of the bundle. *)
Key(file, r) ==
  IF file = "devices" THEN r.EID ELSE IF file = "operations" THEN <<r.EID, r.Number>>
  ELSE <<file, r.EID, r.Key>>

Value(file, r) ==
  IF file = "devices" THEN [Sequence |-> r.Sequence, Counter |-> r.Counter]
  ELSE IF file = "operations" THEN [ID |-> r.ID, Status |-> r.Status, From |-> "bundle"]
  ELSE r.Value

Bundled(files) == UNION {{[Key |-> Key(f, r), Value |-> Value(f, r)] : r \in Range(bundle[1][f])} : f \in files}

(* The rows of these files of the bundle are written, and no others. *)
Merges(old, new, files) ==
  /\ Writes(old, new, {b.Key : b \in Bundled(files)})
  /\ \A b \in Bundled(files) : [Key |-> b.Key, Value |-> new[b.Key]] \in Bundled(files)

(* A result keeps the id of its operation; other ids may be taken. *)
ImportBundle ==
  /\ bundle # <<>>
  /\ Merges(devices, devices', {"devices"})
  /\ Merges(operations, operations', {"operations"}) /\ OneID(operations')
  /\ Merges(rows, rows', DOMAIN bundle[1] \ {"devices", "operations"})
  /\ Writes(results, results', {})
  /\ \A key \in DOMAIN results : operations'[key].ID = operations[key].ID
  /\ taken' = taken \cup {operations[key].ID : key \in {k \in DOMAIN operations : operations'[k].ID # operations[k].ID}}
  /\ UNCHANGED bundle

Next ==
  \/ \E eid \in DOMAIN devices' :
       RegisterDevice(eid) \/ (eid \in DOMAIN devices /\ (NextEUICCPackageCounter(eid) \/ EnqueueOperation(eid)))
  \/ \E key, under \in DOMAIN operations, status \in {"done", "failed"} :
       RecordEUICCPackageResult(key, under, status)
  \/ ImportBundle

Spec == Init /\ [][Next]_store
=============================================================================
