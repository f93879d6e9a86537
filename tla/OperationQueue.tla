---------------------------- MODULE OperationQueue ----------------------------
(***************************************************************************)
(* The life of an eIM operation: the REST API queues it (api/handler.go,   *)
(* euiccpkg Service.Sign), an IPA fetches it with getEimPackage, the eUICC *)
(* executes it, the IPA uploads the result with provideEimPackageResult    *)
(* and the ESipa handler (esipa/handler.go) records it, applies it to the  *)
(* stored profile states and acknowledges it.                              *)
(*                                                                         *)
(* An API request and an ESipa request are goroutines of the HTTP server.  *)
(* They interleave between any two store calls, so a store call is a step  *)
(* and the pc of a thread says which call is next.  Every store call       *)
(* returns early once the request's context is cancelled; Abort covers     *)
(* that, a failing store call and a restart of the server over a           *)
(* persistent store.                                                       *)
(*                                                                         *)
(* The IPA and the eUICC are external.  They are modelled from what the    *)
(* eIM code expects of them: a package whose counter is not above the last *)
(* one is refused with a signed replay error (euiccpkg/service.go,         *)
(* mapPackageError), package results and notifications share one eUICC     *)
(* sequence and are kept until an EimAcknowledgements names their number,  *)
(* everything else is forgotten when a response arrives or the IPA         *)
(* restarts.  Signatures are ideal and the association token is constant   *)
(* here, so a signed result verifies exactly when the eUICC produced it.   *)
(***************************************************************************)
EXTENDS EimStore

CONSTANTS Clients,            \* concurrent REST requests
          Handlers,           \* concurrent ESipa requests
          Kinds,              \* operation kinds the API is asked for
          AllowUnverified,    \* Handler.AllowUnverifiedEUICCPackageResults
          Refusals,           \* kinds of unsigned answers to a package
          OmitEID,            \* the IPA may leave eidValue out of a provide
          PollLimit,          \* limit of the pending fetches of one poll (100)
          MatchLimit,         \* limit of the correlation fetches (10000)
          MaxRequests,        \* bound: API requests in a behaviour
          MaxSeqNumber        \* bound: eUICC numbers a download may still take

ASSUME KindsAssumption == Kinds \subseteq {Package, Trigger}

ASSUME RefusalsAssumption == Refusals \subseteq {"errorUnsigned", "responseError"}

ASSUME FlagsAssumption ==
    AllowUnverified \in BOOLEAN /\ OmitEID \in BOOLEAN

ASSUME LimitsAssumption ==
    /\ PollLimit \in Nat \ {0}
    /\ MatchLimit \in Nat \ {0}
    /\ MaxRequests \in Nat
    /\ MaxSeqNumber \in Nat

VARIABLES issuedTx,        \* number of eimTransactionIds drawn so far
          request,         \* API threads
          handler,         \* ESipa provide threads
          inbox,           \* per device: operation being processed by the IPA, or 0
          lastCounter,     \* per device: last package counter the eUICC accepted
          nextSeqNumber,   \* per device: next eUICC notification/result number
          retained,        \* per device: results the IPA still has to deliver
          retainedNotifs,  \* per device: notifications not yet acknowledged
          executed,        \* history: transactions carried out successfully
          notified,        \* history: per device, numbers of notifications issued
          applied          \* history: operations whose effect was stored

apiVars == <<issuedTx, request>>

euiccVars == <<lastCounter, nextSeqNumber, executed, notified>>

ipaVars == <<inbox, retained, retainedNotifs>>

vars == <<storeVars, apiVars, handler, euiccVars, ipaVars, applied>>

-----------------------------------------------------------------------------

NoTx == 0

MessageKinds == {"signed", "errorSigned", "errorUnsigned", "responseError", "trigger"}

\* An EimPackageResult.  eim says whether an eimId is present, ok whether the
\* result data reports success.  seqNumber is 0 where the arm has none.
Message == [kind : MessageKinds, txid : Nat, counter : Nat, seqNumber : Nat,
            ok : BOOLEAN, eim : BOOLEAN]

NoRequest == [pc |-> "idle"]

Request == [pc : {"counter", "enqueue"}, eid : Devices, payload : Payload]

NoHandler == [pc |-> "idle"]

\* src is the uploading device, eid the device the handler resolved, op and
\* status its match and verdict.
Provide == [pc : {"resolve", "match", "record", "apply", "respond"},
            src : Devices, eid : Devices, msg : Message, notifs : SUBSET Nat,
            explicit : BOOLEAN, op : Nat, status : Statuses]

Init ==
    /\ StoreInit
    /\ issuedTx = 0
    /\ request = [c \in Clients |-> NoRequest]
    /\ handler = [h \in Handlers |-> NoHandler]
    /\ inbox = [d \in Devices |-> 0]
    /\ lastCounter = [d \in Devices |-> 0]
    /\ nextSeqNumber = [d \in Devices |-> 1]
    /\ retained = [d \in Devices |-> {}]
    /\ retainedNotifs = [d \in Devices |-> {}]
    /\ executed = {}
    /\ notified = [d \in Devices |-> {}]
    /\ applied = {}

-----------------------------------------------------------------------------
(* REST API: enqueueProfileOperation and triggerProfileDownload            *)

\* RegisterDevice, then a fresh random transaction id.
StartRequest(c) == \E d \in Devices, k \in Kinds, psmo \in PSMO \cup {NoPSMO} :
    /\ request[c] = NoRequest
    /\ k = Package <=> psmo # NoPSMO
    /\ issuedTx < MaxRequests
    /\ RegisterDevice(d)
    /\ issuedTx' = issuedTx + 1
    /\ request' = [request EXCEPT ![c] =
           [pc      |-> IF k = Package THEN "counter" ELSE "enqueue",
            eid     |-> d,
            payload |-> [kind |-> k, txid |-> issuedTx + 1, counter |-> 0, psmo |-> psmo]]]
    /\ UNCHANGED <<queueVars, profileStates, notifications, handler, euiccVars, ipaVars, applied>>

\* Service.Sign: the counter is drawn before the operation is queued.
Sign(c) ==
    /\ request[c].pc = "counter"
    /\ NextEUICCPackageCounter(request[c].eid)
    /\ request' = [request EXCEPT ![c].pc = "enqueue",
                                  ![c].payload.counter = nextCounter[request[c].eid]]
    /\ UNCHANGED <<queueVars, profileStates, notifications, issuedTx, handler,
                   euiccVars, ipaVars, applied>>

Enqueue(c) ==
    /\ request[c].pc = "enqueue"
    /\ EnqueueOperation(request[c].eid, request[c].payload)
    /\ request' = [request EXCEPT ![c] = NoRequest]
    /\ UNCHANGED <<profileStates, notifications, issuedTx, handler, euiccVars, ipaVars, applied>>

AbortRequest(c) ==
    /\ request[c] # NoRequest
    /\ request' = [request EXCEPT ![c] = NoRequest]
    /\ UNCHANGED <<storeVars, issuedTx, handler, euiccVars, ipaVars, applied>>

-----------------------------------------------------------------------------
(* getEimPackage                                                           *)

IsPackage(i) == operations[i].payload.kind = Package

\* A bug: the newest pending operation is delivered.
SelectNewest(d) ==
    LET pending == {i \in OperationIDs :
                       operations[i].eid = d /\ operations[i].status = "pending"}
    IN  IF pending = {} THEN 0
        ELSE CHOOSE i \in pending : \A j \in pending : operations[i].seq >= operations[j].seq

\* selectOperationForGetEimPackage: the earliest eUICC package, or else the
\* earliest operation; 0 is noEimPackageAvailable.
SelectOperation(d) ==
    LET pending  == FetchPendingOperations(d, PollLimit)
        packages == {i \in pending : IsPackage(i)}
    IN  IF packages # {} THEN First(packages)
        ELSE IF pending # {} THEN First(pending)
        ELSE 0

\* handleGetEimPackage changes nothing in the store.  The IPA handles one
\* package at a time and polls again once it has delivered, or lost, the answer
\* that only it holds.
Poll(d) ==
    /\ inbox[d] = 0
    /\ \A m \in retained[d] : m.seqNumber # 0
    /\ d \in registered
    /\ SelectOperation(d) # 0
    /\ inbox' = [inbox EXCEPT ![d] = SelectOperation(d)]
    /\ UNCHANGED <<storeVars, apiVars, handler, euiccVars, retained, retainedNotifs, applied>>

-----------------------------------------------------------------------------
(* The eUICC and the IPA                                                   *)

Answer(d, msg) ==
    /\ retained' = [retained EXCEPT ![d] = @ \cup {msg}]
    /\ inbox' = [inbox EXCEPT ![d] = 0]

\* The numbers the eUICC gives to the notifications of a successful operation.
IssueNotification(d, n, ok) ==
    /\ notified' = [notified EXCEPT ![d] = IF ok THEN @ \cup {n} ELSE @]
    /\ retainedNotifs' = [retainedNotifs EXCEPT ![d] = IF ok THEN @ \cup {n} ELSE @]

\* The eUICC accepts the package, executes it and signs the result.
Execute(d) == \E ok \in BOOLEAN :
    LET payload == operations[inbox[d]].payload
        n       == nextSeqNumber[d]
    IN  /\ inbox[d] # 0
        /\ payload.kind = Package
        /\ payload.counter > lastCounter[d]
        /\ Answer(d, [kind |-> "signed", txid |-> payload.txid, counter |-> payload.counter,
                      seqNumber |-> n, ok |-> ok, eim |-> TRUE])
        /\ IssueNotification(d, n + 1, ok)
        /\ nextSeqNumber' = [nextSeqNumber EXCEPT ![d] = IF ok THEN @ + 2 ELSE @ + 1]
        /\ lastCounter' = [lastCounter EXCEPT ![d] = payload.counter]
        /\ executed' = IF ok THEN executed \cup {payload.txid} ELSE executed
        /\ UNCHANGED <<storeVars, apiVars, handler, applied>>

\* The eUICC refuses a package whose counter is not above the last one.
RefuseReplay(d) ==
    LET payload == operations[inbox[d]].payload
    IN  /\ inbox[d] # 0
        /\ payload.kind = Package
        /\ payload.counter <= lastCounter[d]
        /\ Answer(d, [kind |-> "errorSigned", txid |-> payload.txid, counter |-> payload.counter,
                      seqNumber |-> 0, ok |-> FALSE, eim |-> TRUE])
        /\ UNCHANGED <<storeVars, apiVars, handler, euiccVars, retainedNotifs, applied>>

\* The package is not executed and the answer is not signed: an unsigned package
\* error, or the IPA's own EimPackageResultResponseError.
RefuseUnsigned(d) ==
    LET payload == operations[inbox[d]].payload
    IN  /\ inbox[d] # 0
        /\ payload.kind = Package
        /\ \E kind \in Refusals, txid \in {payload.txid, NoTx}, eim \in BOOLEAN :
             /\ kind = "responseError" => ~eim
             /\ Answer(d, [kind |-> kind, txid |-> txid, counter |-> 0,
                           seqNumber |-> 0, ok |-> FALSE, eim |-> eim])
        /\ UNCHANGED <<storeVars, apiVars, handler, euiccVars, retainedNotifs, applied>>

\* A profile download; its installation notification takes the next number.
Download(d) == \E ok \in BOOLEAN :
    LET payload == operations[inbox[d]].payload
        n       == nextSeqNumber[d]
    IN  /\ inbox[d] # 0
        /\ payload.kind = Trigger
        /\ ok => n <= MaxSeqNumber
        /\ Answer(d, [kind |-> "trigger", txid |-> payload.txid, counter |-> 0,
                      seqNumber |-> 0, ok |-> ok, eim |-> FALSE])
        /\ IssueNotification(d, n, ok)
        /\ nextSeqNumber' = [nextSeqNumber EXCEPT ![d] = IF ok THEN @ + 1 ELSE @]
        /\ executed' = IF ok THEN executed \cup {payload.txid} ELSE executed
        /\ UNCHANGED <<storeVars, apiVars, handler, lastCounter, applied>>

\* The IPA loses the package it fetched and every answer the eUICC does not keep.
RestartIPA(d) ==
    /\ inbox' = [inbox EXCEPT ![d] = 0]
    /\ retained' = [retained EXCEPT ![d] = {m \in @ : m.seqNumber # 0}]
    /\ UNCHANGED <<storeVars, apiVars, handler, euiccVars, retainedNotifs, applied>>

\* The IPA uploads an answer; a signed result takes the notifications along
\* (EPRAndNotifications).  Uploading does not remove it.
UploadMessage(h, d, msg, explicit) ==
    /\ handler[h] = NoHandler
    /\ msg \in retained[d]
    /\ handler' = [handler EXCEPT ![h] =
           [pc |-> "resolve", src |-> d, eid |-> d, msg |-> msg,
            notifs |-> IF msg.kind = "signed" THEN retainedNotifs[d] ELSE {},
            explicit |-> explicit, op |-> 0, status |-> "pending"]]
    /\ UNCHANGED <<storeVars, apiVars, euiccVars, ipaVars, applied>>

Upload(h) == \E d \in Devices, explicit \in {TRUE, ~OmitEID} : \E msg \in retained[d] :
    UploadMessage(h, d, msg, explicit)

-----------------------------------------------------------------------------
(* provideEimPackageResult                                                 *)

FirstOrNone(S) == IF S = {} THEN 0 ELSE First(S)

FirstPendingPackage(d) ==
    FirstOrNone({i \in FetchPendingOperations(d, MatchLimit) : IsPackage(i)})

\* firstMatchingEuiccPackage: an absent counter or transaction matches anything.
\* All packages carry the eimId of this eIM.
Matches(i, counter, txid) ==
    /\ IsPackage(i)
    /\ counter # 0 => operations[i].payload.counter = counter
    /\ txid # NoTx => operations[i].payload.txid = txid

\* A bug: a result is taken to be about the package at the head of the queue.
CorrelateHead(d, eim, counter, txid) == FirstPendingPackage(d)

\* matchPendingEuiccPackageByCorrelation: pending operations first, then all of
\* them, unless the result names nothing to correlate by.
Correlate(d, eim, counter, txid) ==
    LET pending == {i \in FetchPendingOperations(d, MatchLimit) : Matches(i, counter, txid)}
        all     == {i \in ListOperations(d, MatchLimit) : Matches(i, counter, txid)}
    IN  IF pending # {} THEN First(pending)
        ELSE IF eim \/ counter # 0 \/ txid # NoTx THEN FirstOrNone(all)
        ELSE 0

\* The operation a provide is about, 0 for ErrNotFound.
MatchOperation(d, msg) ==
    CASE msg.kind = "trigger" ->
           FirstOrNone({i \in FetchPendingOperations(d, PollLimit) :
               /\ operations[i].payload.kind = Trigger
               /\ operations[i].payload.txid = msg.txid})
      [] msg.kind = "responseError" ->
           IF msg.txid # NoTx THEN Correlate(d, FALSE, 0, msg.txid) ELSE FirstPendingPackage(d)
      [] msg.kind = "errorUnsigned" ->
           LET i == Correlate(d, msg.eim, 0, msg.txid)
           IN  IF (msg.eim \/ msg.txid # NoTx) /\ i # 0 THEN i ELSE FirstPendingPackage(d)
      [] OTHER -> Correlate(d, msg.eim, msg.counter, msg.txid)

\* A bug: a result that reports a failure is answered with an error.
VerifiedSuccess(i, msg) == msg.ok

\* verifiedOperationResult and verifyResult.  Triggers and response errors are
\* never verified.
Verified(i, msg) ==
    \/ AllowUnverified
    \/ msg.kind \in {"trigger", "responseError"}
    \/ /\ msg.kind = "errorUnsigned"
       /\ msg.eim
       /\ msg.txid = operations[i].payload.txid
    \/ /\ msg.kind \in {"signed", "errorSigned"}
       /\ msg.txid = operations[i].payload.txid
       /\ msg.counter = operations[i].payload.counter

\* A bug: any signed result counts as success.
ResultStatusSigned(msg) ==
    IF msg.kind \in {"signed", "trigger"} THEN "done" ELSE "failed"

\* Done only for a result whose data reports success.
ResultStatus(msg) ==
    IF msg.kind \in {"signed", "trigger"} /\ msg.ok THEN "done" ELSE "failed"

\* An error answer, which the IPA may or may not see.
Reject(h) ==
    /\ handler' = [handler EXCEPT ![h] = NoHandler]
    /\ retained' \in {retained,
                      [retained EXCEPT ![handler[h].src] =
                          {m \in @ : m = handler[h].msg => m.seqNumber # 0}]}
    /\ UNCHANGED <<storeVars, inbox, retainedNotifs>>

\* A bug: a result without a transaction is taken to be about any pending operation.
ResolvePendingLoose(msg) ==
    {i \in ListPendingOperations :
        msg.txid # NoTx => operations[i].payload.txid = msg.txid}

\* The pending operations that carry the transaction of a result.
ResolvePending(msg) ==
    {i \in ListPendingOperations :
        msg.txid # NoTx /\ operations[i].payload.txid = msg.txid}

\* ResolveProvideResultEID: the explicit EID, or else the device of the operation
\* found by the transaction.
Resolve(h) ==
    LET x     == handler[h]
        found == ResolvePending(x.msg)
    IN  /\ x.pc = "resolve"
        /\ \/ /\ x.explicit
              /\ handler' = [handler EXCEPT ![h].pc = "match"]
              /\ UNCHANGED <<storeVars, ipaVars>>
           \/ /\ ~x.explicit
              /\ \E i \in found :
                   handler' = [handler EXCEPT ![h].pc = "match", ![h].eid = operations[i].eid]
              /\ UNCHANGED <<storeVars, ipaVars>>
           \/ /\ ~x.explicit
              /\ found = {}
              /\ Reject(h)
        /\ UNCHANGED <<apiVars, euiccVars, applied>>

\* A bug: the result is acknowledged before it is recorded.
MatchAcksFirst(h) ==
    LET x == handler[h]
        i == MatchOperation(x.eid, x.msg)
    IN  /\ x.pc = "match"
        /\ i # 0
        /\ handler' = [handler EXCEPT ![h].pc = "respond", ![h].op = i]
        /\ UNCHANGED <<storeVars, ipaVars, apiVars, euiccVars, applied>>

\* recordEimPackageResult up to the verdict.
Match(h) ==
    LET x == handler[h]
        i == MatchOperation(x.eid, x.msg)
    IN  /\ x.pc = "match"
        /\ \/ /\ i # 0
              /\ Verified(i, x.msg)
              /\ handler' = [handler EXCEPT ![h].pc = "record", ![h].op = i,
                                            ![h].status = ResultStatus(x.msg)]
              /\ UNCHANGED <<storeVars, ipaVars>>
           \/ /\ i # 0 => ~Verified(i, x.msg)
              /\ Reject(h)
        /\ UNCHANGED <<apiVars, euiccVars, applied>>

\* A bug: the effect of a failed package is applied too.
AfterRecordAlways(x) == IF IsPackage(x.op) THEN "apply" ELSE "respond"

AfterRecord(x) == IF x.status = "done" /\ IsPackage(x.op) THEN "apply" ELSE "respond"

Record(h) ==
    LET x == handler[h]
    IN  /\ x.pc = "record"
        /\ RecordEUICCPackageResult(x.op, x.status, x.msg)
        /\ handler' = [handler EXCEPT ![h].pc = AfterRecord(x)]
        /\ UNCHANGED <<deviceVars, profileStates, notifications, apiVars, euiccVars, ipaVars, applied>>

\* ApplyPackageResultState for enable, disable and delete.
Apply(h) ==
    LET x    == handler[h]
        d    == operations[x.op].eid
        psmo == operations[x.op].payload.psmo
    IN  /\ x.pc = "apply"
        /\ \/ psmo.op = "enable" /\ SetProfileState(d, psmo.iccid, "enabled")
           \/ psmo.op = "disable" /\ SetProfileState(d, psmo.iccid, "disabled")
           \/ psmo.op = "delete" /\ DeleteProfileState(d, psmo.iccid)
        /\ applied' = applied \cup {x.op}
        /\ handler' = [handler EXCEPT ![h].pc = "respond"]
        /\ UNCHANGED <<deviceVars, queueVars, notifications, apiVars, euiccVars, ipaVars>>

\* A bug: every provide acknowledges the number of the operation.
AckSequencesOfQueue(x) == {operations[x.op].seq} \cup x.notifs

\* The numbers in the EimAcknowledgements.
AckSequences(x) ==
    CASE x.msg.kind \in {"trigger", "responseError"} -> {operations[x.op].seq}
      [] x.msg.kind = "signed" -> {x.msg.seqNumber} \cup x.notifs
      [] OTHER -> x.notifs

\* Notifications are stored, then the acknowledgement is sent.  When the IPA
\* receives it, it deletes what is acknowledged and what has no number.
Respond(h) ==
    LET x == handler[h]
        kept(m) == m.seqNumber \notin AckSequences(x) /\ (m = x.msg => m.seqNumber # 0)
    IN  /\ x.pc = "respond"
        /\ StoreNotifications(x.eid, x.notifs)
        /\ handler' = [handler EXCEPT ![h] = NoHandler]
        /\ \/ UNCHANGED <<retained, retainedNotifs>>
           \/ /\ retained' = [retained EXCEPT ![x.src] = {m \in @ : kept(m)}]
              /\ retainedNotifs' = [retainedNotifs EXCEPT ![x.src] = @ \ AckSequences(x)]
        /\ UNCHANGED <<deviceVars, queueVars, profileStates, apiVars, euiccVars, inbox, applied>>

AbortHandler(h) ==
    /\ handler[h] # NoHandler
    /\ handler' = [handler EXCEPT ![h] = NoHandler]
    /\ UNCHANGED <<storeVars, apiVars, euiccVars, ipaVars, applied>>

-----------------------------------------------------------------------------

ApiStep(c) == StartRequest(c) \/ Sign(c) \/ Enqueue(c) \/ AbortRequest(c)

DeviceStep(d) ==
    \/ Poll(d) \/ Execute(d) \/ RefuseReplay(d) \/ RefuseUnsigned(d)
    \/ Download(d) \/ RestartIPA(d)

HandlerStep(h) ==
    \/ Upload(h) \/ Resolve(h) \/ Match(h) \/ Record(h) \/ Apply(h)
    \/ Respond(h) \/ AbortHandler(h)

Next ==
    \/ \E c \in Clients : ApiStep(c)
    \/ \E d \in Devices : DeviceStep(d)
    \/ \E h \in Handlers : HandlerStep(h)

Spec == Init /\ [][Next]_vars

\* The IPA does not hold an undeliverable answer forever.
GiveUp(d) == inbox[d] = 0 /\ RestartIPA(d)

\* The answers that finish an operation whatever the verification mode.
Conclusive(msg, t) == msg.txid = t /\ msg.kind \in {"signed", "errorSigned", "trigger"}

Holds(d, t) == \E msg \in retained[d] : Conclusive(msg, t)

UploadFor(d, t) == \E h \in Handlers : \E msg \in retained[d] :
    Conclusive(msg, t) /\ UploadMessage(h, d, msg, TRUE)

HandleFor(h, t, pc) ==
    /\ handler[h].pc = pc
    /\ Conclusive(handler[h].msg, t)
    /\ Resolve(h) \/ Match(h) \/ Record(h)

\* A handler goroutine runs, an IPA keeps polling, and an exchange that is tried
\* again and again gets through once: requests may be cancelled, answers lost and
\* IPAs restarted any number of times, but not at the same step for ever.  An
\* upload never waits for a free member of Handlers: the HTTP server starts a
\* goroutine for every request, and Handlers only bounds the model.
Fairness ==
    /\ \A h \in Handlers :
         /\ WF_vars(Resolve(h) \/ Match(h) \/ Record(h) \/ Apply(h) \/ Respond(h))
         /\ \A t \in 1 .. MaxRequests :
              \A pc \in {"resolve", "match", "record"} : SF_vars(HandleFor(h, t, pc))
    /\ \A d \in Devices :
         /\ WF_vars(Poll(d))
         /\ WF_vars(GiveUp(d))
         /\ SF_vars(Execute(d) \/ RefuseReplay(d) \/ Download(d))
         /\ \A t \in 1 .. MaxRequests :
              ([]<>Holds(d, t)) => []<><<UploadFor(d, t)>>_vars

FairSpec == Spec /\ Fairness

-----------------------------------------------------------------------------
(* Properties                                                              *)

StoreTypeOK ==
    /\ registered \subseteq Devices
    /\ nextSequence \in [Devices -> Nat \ {0}]
    /\ nextCounter \in [Devices -> Nat \ {0}]
    /\ nextOperationID \in Nat \ {0}
    /\ operations \in [OperationIDs -> Operation]
    /\ \A k \in DOMAIN results : results[k] \in [status : Statuses, msg : Message]
    /\ profileStates \in [Devices -> [Profiles -> {"none", "enabled", "disabled"}]]
    /\ notifications \in [Devices -> SUBSET Nat]

ThreadTypeOK ==
    /\ issuedTx \in Nat
    /\ request \in [Clients -> {NoRequest} \cup Request]
    /\ handler \in [Handlers -> {NoHandler} \cup Provide]
    /\ \A h \in Handlers :
         handler[h].pc \in {"record", "apply", "respond"} => handler[h].op \in OperationIDs
    /\ applied \subseteq Nat

DeviceTypeOK ==
    /\ inbox \in [Devices -> {0} \cup OperationIDs]
    /\ lastCounter \in [Devices -> Nat]
    /\ nextSeqNumber \in [Devices -> Nat \ {0}]
    /\ retained \in [Devices -> SUBSET Message]
    /\ retainedNotifs \in [Devices -> SUBSET Nat]
    /\ executed \subseteq Nat
    /\ notified \in [Devices -> SUBSET Nat]

\* Every variable has its type, an operation id held by a thread or a device names
\* a queued operation, and a stored status is one of the three the API reports
\* (storage/store.go).
TypeOK == StoreTypeOK /\ ThreadTypeOK /\ DeviceTypeOK

\* Operations of a device are numbered in the order they were queued, without a
\* number used twice, however concurrent requests interleave (EnqueueOperation).
SequenceOrder ==
    \A i, j \in OperationIDs :
        (i < j /\ operations[i].eid = operations[j].eid) => operations[i].seq < operations[j].seq

\* No two packages for one eUICC carry the same counter, though the counter is
\* drawn in Sign and the package queued later (api enqueueProfileOperation).
CountersUnique ==
    \A i, j \in OperationIDs :
        (/\ i # j
         /\ operations[i].eid = operations[j].eid
         /\ IsPackage(i) /\ IsPackage(j))
        => operations[i].payload.counter # operations[j].payload.counter

\* An operation is reported done only if the device carried out that very
\* operation, whatever was lost, repeated, reordered or answered without a
\* transaction id (recordEimPackageResult, recordProfileDownloadTriggerResult).
DoneWasExecuted ==
    \A i \in OperationIDs :
        operations[i].status = "done" => operations[i].payload.txid \in executed

\* A finished operation has exactly the stored result that finished it: the row
\* under its (EID, sequence number) has its status, and names its transaction or
\* none (RecordEUICCPackageResult, read back by GetOperationResult).
ResultRowsAgree ==
    \A i \in OperationIDs :
        IF operations[i].status = "pending"
        THEN ResultKey(i) \notin DOMAIN results
        ELSE /\ ResultKey(i) \in DOMAIN results
             /\ results[ResultKey(i)].status = operations[i].status
             /\ results[ResultKey(i)].msg.txid \in {NoTx, operations[i].payload.txid}

\* While a device holds a package, no older package of that device is waiting:
\* a package is never overtaken (selectOperationForGetEimPackage, results that
\* never put an operation back in the queue).
NeverOvertaken ==
    \A d \in Devices : \A j \in OperationIDs :
        (/\ inbox[d] # 0
         /\ IsPackage(inbox[d])
         /\ operations[j].eid = d
         /\ operations[j].status = "pending"
         /\ IsPackage(j))
        => operations[inbox[d]].seq <= operations[j].seq

\* A fetched trigger stays inside the window of pending operations in which
\* pendingProfileDownloadTrigger looks for it, however many operations queue up.
TriggerStaysMatchable ==
    \A d \in Devices :
        (/\ inbox[d] # 0
         /\ ~IsPackage(inbox[d])
         /\ operations[inbox[d]].status = "pending")
        => inbox[d] \in FetchPendingOperations(d, PollLimit)

\* Every notification an eUICC issued is still held by the device or stored by
\* the eIM: an acknowledgement never deletes one that was not stored
\* (recordNotificationsFromList before provideResultAckResponse).
NoNotificationLost ==
    \A d \in Devices : notified[d] \subseteq retainedNotifs[d] \cup notifications[d]

\* The result of a package that ran is not deleted at the device while its
\* operation is still pending (packageResultAckSequences, sent after
\* RecordEUICCPackageResult).
NoResultLost ==
    \A i \in OperationIDs :
        (/\ IsPackage(i)
         /\ operations[i].payload.txid \in executed
         /\ operations[i].status = "pending")
        => \E m \in retained[operations[i].eid] :
             m.kind = "signed" /\ m.txid = operations[i].payload.txid

\* A stored profile state is one that an executed package of that device left:
\* no failed, refused or foreign result reaches the view (ApplyPackageResultState).
ViewFromExecuted ==
    \A d \in Devices, p \in Profiles :
        \A s \in {<<"enabled", "enable">>, <<"disabled", "disable">>} :
            profileStates[d][p] = s[1] =>
                \E i \in OperationIDs :
                    /\ operations[i].eid = d
                    /\ IsPackage(i)
                    /\ operations[i].payload.psmo = [op |-> s[2], iccid |-> p]
                    /\ operations[i].payload.txid \in executed

\* A result is handled for the device that sent it, also when the IPA left the EID
\* out and the handler took it from another request's queue entry
\* (ResolveProvideResultEID).
HandledForSender ==
    \A h \in Handlers :
        handler[h].pc \in {"match", "record", "apply", "respond"} =>
            handler[h].eid = handler[h].src

Lifecycle == INSTANCE OperationLifecycle WITH
    outcome    <- [i \in OperationIDs |-> operations[i].status],
    carriedOut <- {i \in OperationIDs : operations[i].payload.txid \in executed}

\* The queue implements the life cycle promised to API callers: an operation is
\* carried out at most once, done only after that, never pending again and never
\* forgotten (the REST API's operation status).
ImplementsLifecycle == Lifecycle!Spec

\* Every queued operation is finished in the end: no wedged head of the queue, no
\* trigger or package that is fetched for ever (FetchPendingOperations keeps an
\* operation pending until its result is recorded).
EveryOperationCompletes ==
    \A i \in 1 .. MaxRequests :
        (i \in OperationIDs /\ operations[i].status = "pending")
            ~> (i \in OperationIDs /\ operations[i].status # "pending")

\* Packages reach an eUICC with increasing counters: Service.Sign "creates
\* EuiccPackageSigned with a strictly increasing per-eUICC counter", and getEimPackage
\* delivers in sequence order.
CountersFollowSequence ==
    \A i, j \in OperationIDs :
        (/\ operations[i].eid = operations[j].eid
         /\ IsPackage(i) /\ IsPackage(j)
         /\ operations[i].seq < operations[j].seq)
        => operations[i].payload.counter < operations[j].payload.counter

\* Idempotent redelivery: a result that arrives again after its effect was stored
\* leaves the stored profile states as they are
\* (matchPendingEuiccPackageByCorrelation, second lookup).
RedeliveryIdempotent ==
    [][\A h \in Handlers :
          (/\ handler[h].pc = "apply"
           /\ handler[h].op \in applied
           /\ handler'[h].pc = "respond")
          => UNCHANGED profileStates]_vars

=============================================================================
