------------------------------- MODULE EimStore -------------------------------
(***************************************************************************)
(* The part of the storage.Store contract (storage/store.go) that the      *)
(* operation queue is built on, translated from the in-memory store        *)
(* (storage/memory/store.go).  Every method of that store holds one mutex  *)
(* from its first to its last access, so a method is one atomic operator   *)
(* here.  A caller conjoins it with UNCHANGED for the variables the method *)
(* does not name.                                                          *)
(*                                                                         *)
(* A member of Devices stands for a (tenant, EID) key.  A payload is the   *)
(* record of the fields that the protocol code reads back from its DER:    *)
(* the eimTransactionId, the counterValue and the single PSMO it carries.  *)
(***************************************************************************)
EXTENDS Integers, FiniteSets

CONSTANTS Devices,    \* (tenant, EID) keys
          Profiles,   \* ICCIDs
          Commands    \* PSMOs the API is asked for

VARIABLES registered,       \* keys of Store.devices
          nextSequence,     \* memoryDevice.nextSequence
          nextCounter,      \* memoryDevice.nextEUICCPackageCounter
          nextOperationID,  \* Store.nextOperationID
          operations,       \* Store.operations, by id
          results,          \* Store.results, by (EID, sequence number)
          profileStates,    \* Store.profileStates, by EID and ICCID
          notifications     \* keys of Store.notifications, by EID

deviceVars == <<registered, nextSequence, nextCounter>>

queueVars == <<nextOperationID, operations, results>>

storeVars == <<deviceVars, queueVars, profileStates, notifications>>

-----------------------------------------------------------------------------

Package == "euicc-package"

Trigger == "profile-download-trigger"

Statuses == {"pending", "done", "failed"}

ASSUME CommandsAssumption == Commands \subseteq {"enable", "disable", "delete"}

\* Each of these PSMOs names one profile.
PSMO == [op : Commands, iccid : Profiles]

NoPSMO == [op |-> "none"]

\* The decoded payload of an operation.  A trigger has no counter and no PSMO.
Payload == [kind : {Package, Trigger}, txid : Nat \ {0}, counter : Nat,
            psmo : PSMO \cup {NoPSMO}]

Operation == [eid : Devices, seq : Nat \ {0}, payload : Payload, status : Statuses]

OperationIDs == 1 .. (nextOperationID - 1)

-----------------------------------------------------------------------------
(* Devices                                                                 *)

StoreInit ==
    /\ registered = {}
    /\ nextSequence = [d \in Devices |-> 1]
    /\ nextCounter = [d \in Devices |-> 1]
    /\ nextOperationID = 1
    /\ operations = [i \in {} |-> i]
    /\ results = [k \in {} |-> k]
    /\ profileStates = [d \in Devices |-> [p \in Profiles |-> "none"]]
    /\ notifications = [d \in Devices |-> {}]

\* A second registration of a device leaves its counters alone.
RegisterDevice(d) ==
    /\ registered' = registered \cup {d}
    /\ UNCHANGED <<nextSequence, nextCounter>>

\* A bug: the counter is read and not advanced.
NextEUICCPackageCounterStale(d) ==
    /\ d \in registered
    /\ UNCHANGED <<registered, nextSequence, nextCounter>>

\* The caller takes nextCounter[d]; an unknown device is ErrNotFound.
NextEUICCPackageCounter(d) ==
    /\ d \in registered
    /\ nextCounter' = [nextCounter EXCEPT ![d] = @ + 1]
    /\ UNCHANGED <<registered, nextSequence>>

-----------------------------------------------------------------------------
(* The operation queue                                                     *)

\* A bug: the sequence number is derived from the operations still pending.
EnqueueOperationReused(d, payload) ==
    /\ d \in registered
    /\ operations' = [i \in 1 .. nextOperationID |->
                        IF i = nextOperationID
                        THEN [eid     |-> d,
                              seq     |-> 1 + Cardinality({j \in OperationIDs :
                                                 /\ operations[j].eid = d
                                                 /\ operations[j].status = "pending"}),
                              payload |-> payload,
                              status  |-> "pending"]
                        ELSE operations[i]]
    /\ nextOperationID' = nextOperationID + 1
    /\ nextSequence' = [nextSequence EXCEPT ![d] = @ + 1]
    /\ UNCHANGED <<registered, nextCounter, results>>

\* A bug: a new operation has the status reserved for explicit leases.
EnqueueOperationLeased(d, payload) ==
    /\ d \in registered
    /\ operations' = [i \in 1 .. nextOperationID |->
                        IF i = nextOperationID
                        THEN [eid     |-> d,
                              seq     |-> nextSequence[d],
                              payload |-> payload,
                              status  |-> "in-flight"]
                        ELSE operations[i]]
    /\ nextOperationID' = nextOperationID + 1
    /\ nextSequence' = [nextSequence EXCEPT ![d] = @ + 1]
    /\ UNCHANGED <<registered, nextCounter, results>>

EnqueueOperation(d, payload) ==
    /\ d \in registered
    /\ operations' = [i \in 1 .. nextOperationID |->
                        IF i = nextOperationID
                        THEN [eid     |-> d,
                              seq     |-> nextSequence[d],
                              payload |-> payload,
                              status  |-> "pending"]
                        ELSE operations[i]]
    /\ nextOperationID' = nextOperationID + 1
    /\ nextSequence' = [nextSequence EXCEPT ![d] = @ + 1]
    /\ UNCHANGED <<registered, nextCounter, results>>

\* sortOperations orders by sequence number; S is a set of ids of one device.
First(S) == CHOOSE i \in S : \A j \in S : operations[i].seq <= operations[j].seq

\* The first limit members of S in that order.
Cut(S, limit) ==
    {i \in S : Cardinality({j \in S : operations[j].seq < operations[i].seq}) < limit}

ListOperations(d, limit) ==
    Cut({i \in OperationIDs : operations[i].eid = d}, limit)

FetchPendingOperations(d, limit) ==
    Cut({i \in OperationIDs :
            operations[i].eid = d /\ operations[i].status = "pending"}, limit)

\* Pending operations of every device of the tenant.
ListPendingOperations ==
    {i \in OperationIDs : operations[i].status = "pending"}

\* The key of an operation's row in results.
ResultKey(i) == <<operations[i].eid, operations[i].seq>>

normalizeResultStatus(status) == IF status = "failed" THEN "failed" ELSE "done"

\* A bug: a result that is already stored is not replaced.
RecordEUICCPackageResultOnce(i, status, msg) ==
    /\ results' = [k \in DOMAIN results \cup {ResultKey(i)} |->
                     IF k \in DOMAIN results THEN results[k]
                     ELSE [status |-> normalizeResultStatus(status), msg |-> msg]]
    /\ operations' = [operations EXCEPT ![i].status = normalizeResultStatus(status)]
    /\ UNCHANGED nextOperationID

\* The row at (EID, sequence number) is overwritten and the operation takes the
\* status whatever status it had.
RecordEUICCPackageResult(i, status, msg) ==
    /\ results' = [k \in DOMAIN results \cup {ResultKey(i)} |->
                     IF k = ResultKey(i)
                     THEN [status |-> normalizeResultStatus(status), msg |-> msg]
                     ELSE results[k]]
    /\ operations' = [operations EXCEPT ![i].status = normalizeResultStatus(status)]
    /\ UNCHANGED nextOperationID

-----------------------------------------------------------------------------
(* Profile states and notifications                                        *)

SetProfileState(d, p, state) ==
    profileStates' = [profileStates EXCEPT ![d][p] = state]

DeleteProfileState(d, p) ==
    profileStates' = [profileStates EXCEPT ![d][p] = "none"]

\* StoreNotification, once per number: an upsert by (EID, sequence number).
StoreNotifications(d, numbers) ==
    notifications' = [notifications EXCEPT ![d] = @ \cup numbers]

=============================================================================
