------------------------ MODULE OperationQueueProofs ------------------------
(***************************************************************************)
(* Proofs about OperationQueue for any number of devices, API requests,    *)
(* ESipa requests and operations: types, and the order, the counters and   *)
(* the outcomes of operations, each invariant with the strengthening that  *)
(* makes it inductive.                                                     *)
(***************************************************************************)
EXTENDS OperationQueue, FiniteSetTheorems, WellFoundedInduction, TLAPS

-----------------------------------------------------------------------------
(* The queue's helpers                                                     *)

\* A nonempty set of naturals has a least member.
LEMMA NatMin ==
    ASSUME NEW T \in SUBSET Nat, T # {}
    PROVE  \E x \in T : \A y \in T : x <= y
<1>1. PICK x \in T : \A y \in T : ~(<<y, x>> \in OpToRel(<, Nat))
  BY NatLessThanWellFounded, WFMin, Zenon
<1>2. \A y \in T : ~(y < x)
  BY <1>1, Zenon DEF OpToRel
<1>3. \A y \in T : x <= y
  BY <1>2
<1> QED
  BY <1>3

\* The first of a nonempty set of operations is one of them, and no other of
\* them has a smaller sequence number.
LEMMA FirstIsFirst ==
    ASSUME StoreTypeOK, NEW S \in SUBSET OperationIDs, S # {}
    PROVE  /\ First(S) \in S
           /\ \A j \in S : operations[First(S)].seq <= operations[j].seq
<1> DEFINE T == {operations[i].seq : i \in S}
<1>1. T \in SUBSET Nat /\ T # {}
  BY DEF StoreTypeOK, Operation
<1>2. PICK x \in T : \A y \in T : x <= y
  BY <1>1, NatMin, Zenon
<1>3. \E i \in S : \A j \in S : operations[i].seq <= operations[j].seq
  BY <1>2
<1> QED
  BY <1>3 DEF First

\* Cutting a set of operations to a limit leaves a subset.
LEMMA CutIsSubset ==
    ASSUME NEW S, NEW limit
    PROVE  Cut(S, limit) \subseteq S
BY DEF Cut

\* The pending operations a handler fetches are pending operations of its device.
LEMMA FetchedArePending ==
    ASSUME NEW d, NEW limit, NEW i \in FetchPendingOperations(d, limit)
    PROVE  i \in OperationIDs /\ operations[i].eid = d /\ operations[i].status = "pending"
BY CutIsSubset DEF FetchPendingOperations

\* The operations a handler lists are operations of its device.
LEMMA ListedAreOwn ==
    ASSUME NEW d, NEW limit, NEW i \in ListOperations(d, limit)
    PROVE  i \in OperationIDs /\ operations[i].eid = d
BY CutIsSubset DEF ListOperations

\* What correlation returns is an operation of the device that carries every
\* identifier the result names.
LEMMA CorrelateMatches ==
    ASSUME StoreTypeOK, NEW d, NEW eim, NEW counter, NEW txid,
           Correlate(d, eim, counter, txid) # 0
    PROVE  /\ Correlate(d, eim, counter, txid) \in OperationIDs
           /\ operations[Correlate(d, eim, counter, txid)].eid = d
           /\ Matches(Correlate(d, eim, counter, txid), counter, txid)
<1> DEFINE pending == {i \in FetchPendingOperations(d, MatchLimit) : Matches(i, counter, txid)}
           all     == {i \in ListOperations(d, MatchLimit) : Matches(i, counter, txid)}
           i       == Correlate(d, eim, counter, txid)
<1>1. pending \in SUBSET OperationIDs /\ all \in SUBSET OperationIDs
  BY FetchedArePending, ListedAreOwn
<1>2. i \in pending \/ i \in all
  <2>1. CASE pending # {}
    <3>1. i = First(pending)
      BY <2>1 DEF Correlate
    <3> QED
      BY <3>1, <2>1, <1>1, FirstIsFirst
  <2>2. CASE pending = {}
    <3>1. i = FirstOrNone(all)
      BY <2>2 DEF Correlate
    <3>2. all # {} /\ i = First(all)
      BY <3>1 DEF FirstOrNone
    <3> QED
      BY <3>2, <1>1, FirstIsFirst
  <2> QED
    BY <2>1, <2>2
<1> QED
  BY <1>2, FetchedArePending, ListedAreOwn

\* The head of the queue of packages is a pending package of the device.
LEMMA FirstPendingPackageIsOwn ==
    ASSUME StoreTypeOK, NEW d, FirstPendingPackage(d) # 0
    PROVE  /\ FirstPendingPackage(d) \in OperationIDs
           /\ operations[FirstPendingPackage(d)].eid = d
           /\ IsPackage(FirstPendingPackage(d))
<1> DEFINE S == {i \in FetchPendingOperations(d, MatchLimit) : IsPackage(i)}
<1>1. S \in SUBSET OperationIDs
  BY FetchedArePending
<1>2. S # {} /\ FirstPendingPackage(d) = First(S)
  BY DEF FirstPendingPackage, FirstOrNone
<1>3. FirstPendingPackage(d) \in S
  BY <1>1, <1>2, FirstIsFirst
<1> QED
  BY <1>3, FetchedArePending

\* What getEimPackage selects is a pending operation of the device.
LEMMA SelectedIsPending ==
    ASSUME StoreTypeOK, NEW d, SelectOperation(d) # 0
    PROVE  /\ SelectOperation(d) \in OperationIDs
           /\ operations[SelectOperation(d)].eid = d
           /\ operations[SelectOperation(d)].status = "pending"
<1> DEFINE pending  == FetchPendingOperations(d, PollLimit)
           packages == {i \in pending : IsPackage(i)}
<1>1. pending \in SUBSET OperationIDs /\ packages \in SUBSET OperationIDs
  BY FetchedArePending
<1>2. \/ packages # {} /\ SelectOperation(d) = First(packages)
      \/ pending # {} /\ SelectOperation(d) = First(pending)
  BY DEF SelectOperation
<1>3. SelectOperation(d) \in pending
  BY <1>1, <1>2, FirstIsFirst
<1> QED
  BY <1>3, FetchedArePending

\* The operation a provide is matched with is one of the resolved device, of the
\* kind the result is about.  A signed result and a trigger result are matched by
\* their transaction.
LEMMA MatchIsOwn ==
    ASSUME StoreTypeOK, NEW d, NEW msg \in Message, MatchOperation(d, msg) # 0
    PROVE  /\ MatchOperation(d, msg) \in OperationIDs
           /\ operations[MatchOperation(d, msg)].eid = d
           /\ IsPackage(MatchOperation(d, msg)) <=> msg.kind # "trigger"
           /\ (msg.kind \in {"signed", "trigger"} /\ msg.txid # NoTx) =>
                  operations[MatchOperation(d, msg)].payload.txid = msg.txid
<1> DEFINE i == MatchOperation(d, msg)
<1>1. CASE msg.kind = "trigger"
  <2> DEFINE S == {j \in FetchPendingOperations(d, PollLimit) :
                      /\ operations[j].payload.kind = Trigger
                      /\ operations[j].payload.txid = msg.txid}
  <2>1. S \in SUBSET OperationIDs
    BY FetchedArePending
  <2>2. S # {} /\ i = First(S)
    BY <1>1 DEF MatchOperation, FirstOrNone
  <2>3. i \in S
    BY <2>1, <2>2, FirstIsFirst, Zenon
  <2> QED
    BY <2>3, <1>1, FetchedArePending DEF IsPackage, Trigger, Package
<1>2. CASE msg.kind \in {"responseError", "errorUnsigned"}
  <2>1. \/ \E eim : i = Correlate(d, eim, 0, msg.txid)
        \/ i = FirstPendingPackage(d)
    BY <1>2, Zenon DEF MatchOperation
  <2>2. CASE i = FirstPendingPackage(d)
    BY <1>2, <2>2, FirstPendingPackageIsOwn
  <2>3. CASE \E eim : i = Correlate(d, eim, 0, msg.txid)
    BY <1>2, <2>3, CorrelateMatches DEF Matches
  <2> QED
    BY <2>1, <2>2, <2>3
<1>3. CASE msg.kind \in {"signed", "errorSigned"}
  <2>1. i = Correlate(d, msg.eim, msg.counter, msg.txid)
    BY <1>3, Zenon DEF MatchOperation
  <2> QED
    BY <1>3, <2>1, CorrelateMatches DEF Matches
<1> QED
  BY <1>1, <1>2, <1>3 DEF Message, MessageKinds

-----------------------------------------------------------------------------
(* Type correctness                                                        *)

\* A request past its first step has a device and a payload.
LEMMA RequestType ==
    ASSUME ThreadTypeOK, NEW c \in Clients, request[c].pc \in {"counter", "enqueue"}
    PROVE  request[c] \in Request
BY DEF ThreadTypeOK, NoRequest

\* A provide that is being handled has every field of one.
LEMMA ProvideType ==
    ASSUME ThreadTypeOK, NEW h \in Handlers,
           handler[h].pc \in {"resolve", "match", "record", "apply", "respond"}
    PROVE  handler[h] \in Provide
BY DEF ThreadTypeOK, NoHandler

LEMMA TypeInit == Init => TypeOK
BY LimitsAssumption
   DEF Init, StoreInit, TypeOK, StoreTypeOK, ThreadTypeOK, DeviceTypeOK, OperationIDs,
       NoHandler, NoRequest

\* Every step of an API request preserves the types.
LEMMA TypeApi ==
    ASSUME TypeOK, NEW c \in Clients, ApiStep(c)
    PROVE  TypeOK'
<1> USE DEF TypeOK
<1>1. CASE StartRequest(c)
  <2>1. StoreTypeOK'
    BY <1>1, Zenon DEF StartRequest, StoreTypeOK, RegisterDevice, queueVars, OperationIDs
  <2>2. DeviceTypeOK'
    BY <1>1 DEF StartRequest, DeviceTypeOK, euiccVars, ipaVars, queueVars, OperationIDs
  <2>3. ThreadTypeOK'
    <3>1. PICK d \in Devices, k \in Kinds, psmo \in PSMO \cup {NoPSMO} :
             request' = [request EXCEPT ![c] =
               [pc      |-> IF k = Package THEN "counter" ELSE "enqueue",
                eid     |-> d,
                payload |-> [kind |-> k, txid |-> issuedTx + 1, counter |-> 0, psmo |-> psmo]]]
      BY <1>1, Zenon DEF StartRequest
    <3>2. [kind |-> k, txid |-> issuedTx + 1, counter |-> 0, psmo |-> psmo] \in Payload
      BY KindsAssumption DEF ThreadTypeOK, Payload
    <3> QED
      BY <1>1, <3>1, <3>2
         DEF StartRequest, ThreadTypeOK, Request, queueVars, OperationIDs
  <2> QED
    BY <2>1, <2>2, <2>3
<1>2. CASE Sign(c)
  <2>1. StoreTypeOK'
    BY <1>2 DEF Sign, StoreTypeOK, NextEUICCPackageCounter, queueVars, OperationIDs
  <2>2. DeviceTypeOK'
    BY <1>2 DEF Sign, DeviceTypeOK, euiccVars, ipaVars, queueVars, OperationIDs
  <2>3. ThreadTypeOK'
    <3> DEFINE n == nextCounter[request[c].eid]
               r == [request[c] EXCEPT !.pc = "enqueue", !.payload.counter = n]
    <3>1. request[c] \in Request
      BY <1>2, RequestType DEF Sign
    <3>2. request[c].payload \in Payload /\ n \in Nat
      BY <3>1, Zenon DEF Request, StoreTypeOK
    <3>3. [request[c].payload EXCEPT !.counter = n] \in Payload
      BY <3>2 DEF Payload
    <3>4. r \in Request
      BY <3>1, <3>3, Zenon DEF Request
    <3>5. request' = [request EXCEPT ![c] = r]
      BY ZenonT(30), <1>2 DEF Sign, ThreadTypeOK
    <3> QED
      BY <1>2, <3>4, <3>5 DEF Sign, ThreadTypeOK, queueVars, OperationIDs
  <2> QED
    BY <2>1, <2>2, <2>3
<1>3. CASE Enqueue(c)
  <2>1. request[c] \in Request
    BY <1>3, RequestType DEF Enqueue
  <2>2. OperationIDs' = OperationIDs \cup {nextOperationID} /\ OperationIDs' = 1 .. nextOperationID
    BY <1>3 DEF Enqueue, EnqueueOperation, StoreTypeOK, OperationIDs
  <2>3. StoreTypeOK'
    BY <1>3, <2>1, <2>2
       DEF Enqueue, EnqueueOperation, StoreTypeOK, Operation, Request, Statuses
  <2>4. DeviceTypeOK'
    BY <1>3, <2>2 DEF Enqueue, DeviceTypeOK, euiccVars, ipaVars
  <2>5. ThreadTypeOK'
    BY <1>3, <2>2 DEF Enqueue, ThreadTypeOK
  <2> QED
    BY <2>3, <2>4, <2>5
<1>4. CASE AbortRequest(c)
  BY <1>4, Zenon DEF AbortRequest, StoreTypeOK, ThreadTypeOK, DeviceTypeOK, storeVars, deviceVars,
              queueVars, euiccVars, ipaVars, OperationIDs
<1> QED
  BY <1>1, <1>2, <1>3, <1>4 DEF ApiStep

\* A device holds the payload of a queued operation.
LEMMA InboxPayload ==
    ASSUME TypeOK, NEW d \in Devices, inbox[d] # 0
    PROVE  inbox[d] \in OperationIDs /\ operations[inbox[d]].payload \in Payload
BY DEF TypeOK, StoreTypeOK, DeviceTypeOK, Operation

\* A new answer keeps the types of what the IPA holds.
LEMMA TypeAnswer ==
    ASSUME DeviceTypeOK, NEW d \in Devices, NEW msg \in Message, Answer(d, msg)
    PROVE  /\ retained' \in [Devices -> SUBSET Message]
           /\ inbox' \in [Devices -> {0} \cup OperationIDs]
BY DEF DeviceTypeOK, Answer

LEMMA TypeNotification ==
    ASSUME DeviceTypeOK, NEW d \in Devices, NEW n \in Nat, NEW ok \in BOOLEAN,
           IssueNotification(d, n, ok)
    PROVE  /\ notified' \in [Devices -> SUBSET Nat]
           /\ retainedNotifs' \in [Devices -> SUBSET Nat]
BY DEF DeviceTypeOK, IssueNotification

\* Every step of an eUICC or its IPA preserves the types.
LEMMA TypeDevice ==
    ASSUME TypeOK, NEW d \in Devices, DeviceStep(d)
    PROVE  TypeOK'
<1> USE DEF TypeOK
<1>1. UNCHANGED <<storeVars, apiVars, handler, applied>> /\ OperationIDs' = OperationIDs
  BY Zenon DEF DeviceStep, Poll, Execute, RefuseReplay, RefuseUnsigned, Download, RestartIPA,
         storeVars, queueVars, OperationIDs
<1>2. StoreTypeOK'
  BY <1>1 DEF StoreTypeOK, storeVars, deviceVars, queueVars, OperationIDs
<1>3. ThreadTypeOK'
  BY <1>1 DEF ThreadTypeOK, apiVars
<1>4. DeviceTypeOK'
  <2>1. CASE Poll(d)
    BY <2>1, <1>1, SelectedIsPending, Zenon DEF Poll, DeviceTypeOK, euiccVars
  <2>2. CASE Execute(d)
    <3> DEFINE payload == operations[inbox[d]].payload
               n       == nextSeqNumber[d]
    <3>1. payload \in Payload /\ n \in Nat \ {0}
      BY <2>2, InboxPayload, Zenon DEF Execute, DeviceTypeOK
    <3>2. PICK ok \in BOOLEAN :
             /\ Answer(d, [kind |-> "signed", txid |-> payload.txid, counter |-> payload.counter,
                           seqNumber |-> n, ok |-> ok, eim |-> TRUE])
             /\ IssueNotification(d, n + 1, ok)
             /\ nextSeqNumber' = [nextSeqNumber EXCEPT ![d] = IF ok THEN @ + 2 ELSE @ + 1]
             /\ lastCounter' = [lastCounter EXCEPT ![d] = payload.counter]
             /\ executed' = IF ok THEN executed \cup {payload.txid} ELSE executed
      BY ZenonT(30), <2>2 DEF Execute
    <3>3. [kind |-> "signed", txid |-> payload.txid, counter |-> payload.counter,
           seqNumber |-> n, ok |-> ok, eim |-> TRUE] \in Message
      BY <3>1, Zenon DEF Payload, Message, MessageKinds
    <3>4. /\ retained' \in [Devices -> SUBSET Message]
          /\ inbox' \in [Devices -> {0} \cup OperationIDs]
      BY <3>2, <3>3, TypeAnswer, Zenon
    <3>5. /\ notified' \in [Devices -> SUBSET Nat]
          /\ retainedNotifs' \in [Devices -> SUBSET Nat]
      BY <3>1, <3>2, TypeNotification
    <3>6. nextSeqNumber' \in [Devices -> Nat \ {0}]
      BY <3>1, <3>2 DEF DeviceTypeOK
    <3>7. executed' \subseteq Nat
      BY ZenonT(30), <3>1, <3>2 DEF DeviceTypeOK, Payload
    <3>8. lastCounter' \in [Devices -> Nat]
      BY <3>1, <3>2, Zenon DEF DeviceTypeOK, Payload
    <3> QED
      BY <1>1, <3>4, <3>5, <3>6, <3>7, <3>8 DEF DeviceTypeOK
  <2>3. CASE RefuseReplay(d)
    <3> DEFINE payload == operations[inbox[d]].payload
               msg     == [kind |-> "errorSigned", txid |-> payload.txid,
                           counter |-> payload.counter, seqNumber |-> 0,
                           ok |-> FALSE, eim |-> TRUE]
    <3>1. payload \in Payload
      BY <2>3, InboxPayload, Zenon DEF RefuseReplay
    <3>2. msg \in Message
      BY <3>1, Zenon DEF Payload, Message, MessageKinds
    <3>3. /\ retained' \in [Devices -> SUBSET Message]
          /\ inbox' \in [Devices -> {0} \cup OperationIDs]
      BY <2>3, <3>2, TypeAnswer, Zenon DEF RefuseReplay
    <3> QED
      BY <2>3, <1>1, <3>3, Zenon DEF RefuseReplay, DeviceTypeOK, euiccVars
  <2>4. CASE RefuseUnsigned(d)
    <3> DEFINE payload == operations[inbox[d]].payload
    <3>1. payload \in Payload
      BY <2>4, InboxPayload, Zenon DEF RefuseUnsigned
    <3>2. PICK kind \in Refusals, txid \in {payload.txid, NoTx}, eim \in BOOLEAN :
             Answer(d, [kind |-> kind, txid |-> txid, counter |-> 0,
                        seqNumber |-> 0, ok |-> FALSE, eim |-> eim])
      BY ZenonT(30), <2>4 DEF RefuseUnsigned
    <3>3. [kind |-> kind, txid |-> txid, counter |-> 0,
           seqNumber |-> 0, ok |-> FALSE, eim |-> eim] \in Message
      BY <3>1, RefusalsAssumption DEF Payload, Message, MessageKinds, NoTx
    <3>4. /\ retained' \in [Devices -> SUBSET Message]
          /\ inbox' \in [Devices -> {0} \cup OperationIDs]
      BY <3>2, <3>3, TypeAnswer, Zenon
    <3> QED
      BY <2>4, <1>1, <3>4, Zenon DEF RefuseUnsigned, DeviceTypeOK, euiccVars
  <2>5. CASE Download(d)
    <3> DEFINE payload == operations[inbox[d]].payload
               n       == nextSeqNumber[d]
    <3>1. payload \in Payload /\ n \in Nat \ {0}
      BY <2>5, InboxPayload, Zenon DEF Download, DeviceTypeOK
    <3>2. PICK ok \in BOOLEAN :
             /\ Answer(d, [kind |-> "trigger", txid |-> payload.txid, counter |-> 0,
                           seqNumber |-> 0, ok |-> ok, eim |-> FALSE])
             /\ IssueNotification(d, n, ok)
             /\ nextSeqNumber' = [nextSeqNumber EXCEPT ![d] = IF ok THEN @ + 1 ELSE @]
             /\ executed' = IF ok THEN executed \cup {payload.txid} ELSE executed
      BY ZenonT(30), <2>5 DEF Download
    <3>3. [kind |-> "trigger", txid |-> payload.txid, counter |-> 0,
           seqNumber |-> 0, ok |-> ok, eim |-> FALSE] \in Message
      BY <3>1, Zenon DEF Payload, Message, MessageKinds
    <3>4. /\ retained' \in [Devices -> SUBSET Message]
          /\ inbox' \in [Devices -> {0} \cup OperationIDs]
      BY <3>2, <3>3, TypeAnswer, Zenon
    <3>5. /\ notified' \in [Devices -> SUBSET Nat]
          /\ retainedNotifs' \in [Devices -> SUBSET Nat]
      BY <3>1, <3>2, TypeNotification, Zenon
    <3>6. nextSeqNumber' \in [Devices -> Nat \ {0}]
      BY <3>1, <3>2 DEF DeviceTypeOK
    <3>7. executed' \subseteq Nat
      BY ZenonT(30), <3>1, <3>2 DEF DeviceTypeOK, Payload
    <3>8. lastCounter' \in [Devices -> Nat]
      BY <2>5, Zenon DEF DeviceTypeOK, Download
    <3> QED
      BY <1>1, <3>4, <3>5, <3>6, <3>7, <3>8 DEF DeviceTypeOK
  <2>6. CASE RestartIPA(d)
    BY <2>6, <1>1 DEF RestartIPA, DeviceTypeOK, euiccVars
  <2> QED
    BY <2>1, <2>2, <2>3, <2>4, <2>5, <2>6 DEF DeviceStep
<1> QED
  BY <1>2, <1>3, <1>4

\* A handler step that leaves the operations queued and gives one handler a
\* well-typed value keeps the threads well-typed.
LEMMA TypeHandlerUpdate ==
    ASSUME ThreadTypeOK, NEW h \in Handlers, NEW x \in {NoHandler} \cup Provide,
           handler' = [handler EXCEPT ![h] = x],
           x.pc \in {"record", "apply", "respond"} => x.op \in OperationIDs,
           OperationIDs' = OperationIDs, UNCHANGED apiVars, applied' \subseteq Nat
    PROVE  ThreadTypeOK'
BY DEF ThreadTypeOK, apiVars

\* An answer with an error keeps the types.
LEMMA TypeReject ==
    ASSUME TypeOK, NEW h \in Handlers, handler[h] \in Provide, Reject(h),
           UNCHANGED <<apiVars, euiccVars, applied>>
    PROVE  TypeOK'
<1>1. OperationIDs' = OperationIDs
  BY DEF Reject, storeVars, queueVars, OperationIDs
<1>2. StoreTypeOK'
  BY <1>1, Zenon DEF Reject, TypeOK, StoreTypeOK, storeVars, deviceVars, queueVars
<1>3. ThreadTypeOK'
  BY <1>1, Zenon DEF Reject, TypeOK, ThreadTypeOK, apiVars, NoHandler
<1>4. retained' \in [Devices -> SUBSET Message]
  BY DEF Reject, TypeOK, DeviceTypeOK, Provide
<1>5. DeviceTypeOK'
  BY <1>1, <1>4, Zenon DEF Reject, TypeOK, DeviceTypeOK, euiccVars
<1> QED
  BY <1>2, <1>3, <1>5 DEF TypeOK

\* Every step of an ESipa request preserves the types.
LEMMA TypeHandler ==
    ASSUME TypeOK, NEW h \in Handlers, HandlerStep(h)
    PROVE  TypeOK'
<1> DEFINE x == handler[h]
<1> USE DEF TypeOK
<1>0. OperationIDs' = OperationIDs
  BY ZenonT(30) DEF HandlerStep, Upload, UploadMessage, Resolve, Match, Reject, Record,
         RecordEUICCPackageResult, Apply, Respond, AbortHandler, storeVars, queueVars,
         OperationIDs
<1>1. CASE Upload(h)
  <2>1. PICK d \in Devices, explicit \in {TRUE, ~OmitEID} : \E msg \in retained[d] :
           UploadMessage(h, d, msg, explicit)
    BY <1>1, Zenon DEF Upload
  <2>2. PICK msg \in retained[d] : UploadMessage(h, d, msg, explicit)
    BY <2>1
  <2> DEFINE y == [pc |-> "resolve", src |-> d, eid |-> d, msg |-> msg,
                   notifs |-> IF msg.kind = "signed" THEN retainedNotifs[d] ELSE {},
                   explicit |-> explicit, op |-> 0, status |-> "pending"]
  <2>3. y \in Provide
    BY ZenonT(30), FlagsAssumption DEF DeviceTypeOK, Provide, Statuses
  <2>4. handler' = [handler EXCEPT ![h] = y] /\ y.pc = "resolve"
    BY <2>2, Zenon DEF UploadMessage
  <2>5. UNCHANGED <<storeVars, apiVars, euiccVars, ipaVars, applied>>
    BY <2>2, Zenon DEF UploadMessage
  <2>6. ThreadTypeOK'
    BY ZenonT(30), <1>0, <2>3, <2>4, <2>5, TypeHandlerUpdate DEF ThreadTypeOK
  <2> QED
    BY <1>0, <2>5, <2>6, Zenon
       DEF StoreTypeOK, DeviceTypeOK, storeVars, deviceVars, queueVars, euiccVars, ipaVars
<1>2. CASE Resolve(h)
  <2>1. x \in Provide
    BY <1>2, ProvideType DEF Resolve
  <2>2. CASE Reject(h)
    BY <1>2, <2>1, <2>2, TypeReject DEF Resolve
  <2>3. CASE ~Reject(h)
    <3>1. PICK e \in Devices : handler' = [handler EXCEPT ![h] = [x EXCEPT !.pc = "match", !.eid = e]]
      <4>1. CASE handler' = [handler EXCEPT ![h].pc = "match"]
        <5>1. x.eid \in Devices /\ [x EXCEPT !.pc = "match", !.eid = x.eid] = [x EXCEPT !.pc = "match"]
          BY <2>1, Zenon DEF Provide
        <5> QED
          BY <4>1, <5>1, Zenon
      <4>2. CASE \E i \in ListPendingOperations :
                    handler' = [handler EXCEPT ![h].pc = "match", ![h].eid = operations[i].eid]
        <5>1. PICK i \in ListPendingOperations :
                    handler' = [handler EXCEPT ![h].pc = "match", ![h].eid = operations[i].eid]
          BY <4>2, Zenon
        <5>2. operations[i].eid \in Devices
          BY Zenon DEF ListPendingOperations, StoreTypeOK, Operation
        <5>3. handler' = [handler EXCEPT ![h] = [x EXCEPT !.pc = "match", !.eid = operations[i].eid]]
          BY <5>1, Zenon DEF ThreadTypeOK
        <5> QED
          BY <5>2, <5>3, Zenon
      <4> QED
        BY ZenonT(30), <1>2, <2>3, <4>1, <4>2 DEF Resolve, ResolvePending
    <3>2. UNCHANGED <<storeVars, apiVars, euiccVars, ipaVars, applied>>
      BY <1>2, <2>3 DEF Resolve
    <3> DEFINE y == [x EXCEPT !.pc = "match", !.eid = e]
    <3>3. y \in Provide /\ y.pc = "match"
      BY <2>1, Zenon DEF Provide
    <3>4. ThreadTypeOK'
      BY ZenonT(30), <1>0, <3>1, <3>2, <3>3, TypeHandlerUpdate DEF ThreadTypeOK
    <3> QED
      BY <1>0, <3>2, <3>4, Zenon
         DEF StoreTypeOK, DeviceTypeOK, storeVars, deviceVars, queueVars, euiccVars, ipaVars
  <2> QED
    BY <2>2, <2>3
<1>3. CASE Match(h)
  <2>1. x \in Provide
    BY <1>3, ProvideType DEF Match
  <2>2. CASE Reject(h)
    BY <1>3, <2>1, <2>2, TypeReject DEF Match
  <2>3. CASE ~Reject(h)
    <3> DEFINE i == MatchOperation(x.eid, x.msg)
               y == [x EXCEPT !.pc = "record", !.op = i, !.status = ResultStatus(x.msg)]
    <3>1. /\ i # 0
          /\ handler' = [handler EXCEPT ![h].pc = "record", ![h].op = i,
                                        ![h].status = ResultStatus(x.msg)]
          /\ UNCHANGED <<storeVars, apiVars, euiccVars, ipaVars, applied>>
      BY <1>3, <2>3 DEF Match
    <3>2. i \in OperationIDs
      BY <2>1, <3>1, MatchIsOwn DEF Provide
    <3>3. handler' = [handler EXCEPT ![h] = y]
      BY <3>1, Zenon DEF ThreadTypeOK
    <3>4. i \in Nat /\ ResultStatus(x.msg) \in Statuses
      BY <3>2 DEF OperationIDs, StoreTypeOK, ResultStatus, Statuses
    <3> HIDE DEF i
    <3>5. y \in Provide /\ y.op = i
      BY <2>1, <3>4, Zenon DEF Provide
    <3>6. applied' \subseteq Nat
      BY <3>1 DEF ThreadTypeOK
    <3> HIDE DEF y
    <3>7. ThreadTypeOK'
      BY <1>0, <3>1, <3>2, <3>3, <3>5, <3>6, TypeHandlerUpdate, Zenon
    <3> QED
      BY <1>0, <3>1, <3>7
         DEF StoreTypeOK, DeviceTypeOK, storeVars, deviceVars, queueVars, euiccVars, ipaVars
  <2> QED
    BY <2>2, <2>3
<1>4. CASE Record(h)
  <2>1. x \in Provide /\ x.op \in OperationIDs
    BY <1>4, ProvideType DEF Record, ThreadTypeOK
  <2>2. x.status \in Statuses /\ x.msg \in Message
    BY <2>1 DEF Provide
  <2>a. normalizeResultStatus(x.status) \in Statuses
    BY DEF normalizeResultStatus, Statuses
  <2>3. operations' \in [OperationIDs -> Operation]
    BY ZenonT(30), <1>4, <2>1, <2>a DEF Record, RecordEUICCPackageResult, StoreTypeOK, Operation
  <2>4. \A k \in DOMAIN results' : results'[k] \in [status : Statuses, msg : Message]
    BY <1>4, <2>2, <2>a DEF Record, RecordEUICCPackageResult, StoreTypeOK
  <2>5. StoreTypeOK'
    BY <1>0, <1>4, <2>3, <2>4, Zenon
       DEF Record, RecordEUICCPackageResult, StoreTypeOK, deviceVars
  <2> DEFINE y == [x EXCEPT !.pc = AfterRecord(x)]
  <2>6. y \in Provide /\ y.op = x.op
    BY <2>1 DEF Provide, AfterRecord
  <2>7. handler' = [handler EXCEPT ![h] = y]
    BY <1>4 DEF Record, ThreadTypeOK
  <2>8. ThreadTypeOK'
    BY ZenonT(30), <1>0, <1>4, <2>1, <2>6, <2>7, TypeHandlerUpdate DEF Record, ThreadTypeOK
  <2> QED
    BY <1>0, <1>4, <2>5, <2>8 DEF Record, DeviceTypeOK, euiccVars, ipaVars
<1>5. CASE Apply(h)
  <2>1. x \in Provide /\ x.op \in OperationIDs
    BY <1>5, ProvideType, Zenon DEF Apply, ThreadTypeOK
  <2>2. profileStates' \in [Devices -> [Profiles -> {"none", "enabled", "disabled"}]]
    <3> DEFINE e == operations[x.op].eid
               p == operations[x.op].payload.psmo.iccid
    <3>1. PICK s \in {"none", "enabled", "disabled"} :
             profileStates' = [profileStates EXCEPT ![e][p] = s]
      BY ZenonT(30), <1>5 DEF Apply, SetProfileState, DeleteProfileState
    <3>2. e \in Devices /\ profileStates[e] \in [Profiles -> {"none", "enabled", "disabled"}]
      BY <2>1, Zenon DEF Operation, StoreTypeOK
    <3>3. [profileStates[e] EXCEPT ![p] = s] \in [Profiles -> {"none", "enabled", "disabled"}]
      BY ZenonT(30), <3>1, <3>2
    <3> QED
      BY ZenonT(30), <3>1, <3>2, <3>3 DEF StoreTypeOK
  <2>3. StoreTypeOK'
    BY <1>0, <1>5, <2>2, Zenon DEF Apply, StoreTypeOK, deviceVars, queueVars
  <2> DEFINE y == [x EXCEPT !.pc = "respond"]
  <2>4. y \in Provide /\ y.op = x.op
    BY <2>1 DEF Provide
  <2>5. handler' = [handler EXCEPT ![h] = y]
    BY <1>5, Zenon DEF Apply, ThreadTypeOK
  <2>6. applied' \subseteq Nat
    BY <1>5, <2>1 DEF Apply, ThreadTypeOK, OperationIDs, StoreTypeOK
  <2>7. ThreadTypeOK'
    BY ZenonT(30), <1>0, <1>5, <2>1, <2>4, <2>5, <2>6, TypeHandlerUpdate DEF Apply
  <2> QED
    BY <1>0, <1>5, <2>3, <2>7, Zenon DEF Apply, DeviceTypeOK, euiccVars, ipaVars
<1>6. CASE Respond(h)
  <2>1. x \in Provide
    BY <1>6, ProvideType, Zenon DEF Respond
  <2>2. notifications' \in [Devices -> SUBSET Nat]
    BY <1>6, <2>1, Zenon DEF Respond, StoreNotifications, StoreTypeOK, Provide
  <2>3. StoreTypeOK'
    BY <1>0, <1>6, <2>2, Zenon DEF Respond, StoreTypeOK, deviceVars, queueVars
  <2>4. ThreadTypeOK'
    BY <1>0, <1>6, Zenon DEF Respond, ThreadTypeOK, apiVars, NoHandler
  <2>5. retained' \in [Devices -> SUBSET Message]
    BY <1>6 DEF Respond, DeviceTypeOK
  <2>6. retainedNotifs' \in [Devices -> SUBSET Nat]
    BY <1>6 DEF Respond, DeviceTypeOK
  <2> QED
    BY <1>0, <1>6, <2>3, <2>4, <2>5, <2>6, Zenon DEF Respond, DeviceTypeOK, euiccVars
<1>7. CASE AbortHandler(h)
  BY <1>0, <1>7, Zenon
     DEF AbortHandler, StoreTypeOK, ThreadTypeOK, DeviceTypeOK, storeVars, deviceVars,
         queueVars, apiVars, euiccVars, ipaVars, NoHandler
<1> QED
  BY <1>1, <1>2, <1>3, <1>4, <1>5, <1>6, <1>7 DEF HandlerStep

LEMMA TypeStutter == TypeOK /\ UNCHANGED vars => TypeOK'
BY Zenon DEF TypeOK, StoreTypeOK, ThreadTypeOK, DeviceTypeOK, vars, storeVars, deviceVars,
       queueVars, apiVars, euiccVars, ipaVars, OperationIDs

LEMMA TypeStep == TypeOK /\ [Next]_vars => TypeOK'
BY TypeApi, TypeDevice, TypeHandler, TypeStutter DEF Next

\* Every variable keeps its type, every operation id held by a request or a device
\* names a queued operation, and every stored status is one the API knows
\* (storage/store.go), for any numbers of devices, requests and operations.
THEOREM TypeCorrect == Spec => []TypeOK
BY TypeInit, TypeStep, PTL DEF Spec

-----------------------------------------------------------------------------
(* What a step does to the queued operations                               *)

\* Only the last step of an API request and the recording of a result change the
\* queue.
LEMMA QueueStep ==
    ASSUME [Next]_vars
    PROVE  \/ UNCHANGED <<nextSequence, nextOperationID, operations, results>>
           \/ \E c \in Clients : Enqueue(c)
           \/ \E h \in Handlers : Record(h)
<1>1. ASSUME NEW c \in Clients, ApiStep(c)
      PROVE  Enqueue(c) \/ UNCHANGED <<nextSequence, nextOperationID, operations, results>>
  BY <1>1 DEF ApiStep, StartRequest, Sign, AbortRequest, RegisterDevice,
              NextEUICCPackageCounter, storeVars, deviceVars, queueVars
<1>2. ASSUME NEW d \in Devices, DeviceStep(d)
      PROVE  UNCHANGED <<nextSequence, nextOperationID, operations, results>>
  BY ZenonT(30), <1>2 DEF DeviceStep, Poll, Execute, RefuseReplay, RefuseUnsigned, Download, RestartIPA,
              storeVars, deviceVars, queueVars
<1>3. ASSUME NEW h \in Handlers, HandlerStep(h)
      PROVE  Record(h) \/ UNCHANGED <<nextSequence, nextOperationID, operations, results>>
  BY ZenonT(30), <1>3 DEF HandlerStep, Upload, UploadMessage, Resolve, Match, Reject, Apply, Respond,
              AbortHandler, storeVars, deviceVars, queueVars
<1>4. CASE UNCHANGED vars
  BY <1>4 DEF vars, storeVars, deviceVars, queueVars
<1> QED
  BY <1>1, <1>2, <1>3, <1>4 DEF Next

\* Queueing an operation adds it at the end, pending, and leaves the others alone.
LEMMA EnqueueEffect ==
    ASSUME TypeOK, NEW c \in Clients, Enqueue(c)
    PROVE  /\ request[c] \in Request
           /\ nextOperationID \in Int /\ \A i \in OperationIDs : i \in Int
           /\ OperationIDs' = OperationIDs \cup {nextOperationID}
           /\ \A i \in OperationIDs : i < nextOperationID /\ operations'[i] = operations[i]
           /\ operations'[nextOperationID].eid = request[c].eid
           /\ operations'[nextOperationID].seq = nextSequence[request[c].eid]
           /\ operations'[nextOperationID].payload = request[c].payload
           /\ operations'[nextOperationID].status = "pending"
           /\ nextSequence' = [nextSequence EXCEPT ![request[c].eid] = @ + 1]
           /\ UNCHANGED <<nextCounter, handler, executed, retained, inbox>>
<1>1. OperationIDs' = 1 .. nextOperationID
  BY DEF Enqueue, EnqueueOperation, TypeOK, StoreTypeOK, OperationIDs
<1>2. request[c] \in Request
  BY RequestType DEF Enqueue, TypeOK
<1>3. operations'[nextOperationID] =
        [eid |-> request[c].eid, seq |-> nextSequence[request[c].eid],
         payload |-> request[c].payload, status |-> "pending"]
  BY DEF Enqueue, EnqueueOperation, TypeOK, StoreTypeOK
<1> QED
  BY <1>1, <1>2, <1>3
     DEF Enqueue, EnqueueOperation, TypeOK, StoreTypeOK, OperationIDs, euiccVars, ipaVars

\* Recording a result changes the status of one operation and nothing else of the
\* queue.
LEMMA RecordEffect ==
    ASSUME TypeOK, NEW h \in Handlers, Record(h)
    PROVE  /\ OperationIDs' = OperationIDs
           /\ handler[h] \in Provide
           /\ handler[h].op \in OperationIDs
           /\ \A i \in OperationIDs :
                /\ operations'[i].eid = operations[i].eid
                /\ operations'[i].seq = operations[i].seq
                /\ operations'[i].payload = operations[i].payload
                /\ operations'[i].status =
                     IF i = handler[h].op THEN normalizeResultStatus(handler[h].status)
                     ELSE operations[i].status
           /\ UNCHANGED <<nextSequence, nextCounter>>
<1>1. handler[h] \in Provide /\ handler[h].op \in OperationIDs
  BY ProvideType DEF Record, TypeOK, ThreadTypeOK
<1>2. operations' = [operations EXCEPT ![handler[h].op].status =
                                           normalizeResultStatus(handler[h].status)]
  BY DEF Record, RecordEUICCPackageResult
<1>3. OperationIDs' = OperationIDs
  BY DEF Record, RecordEUICCPackageResult, OperationIDs
<1> QED
  BY <1>1, <1>2, <1>3 DEF Record, TypeOK, StoreTypeOK, Operation, deviceVars

\* The identity of an operation never changes: it stays queued, for the same
\* device, with the same number and payload.
LEMMA IdentityKept ==
    ASSUME TypeOK, [Next]_vars, NEW i \in OperationIDs
    PROVE  /\ i \in OperationIDs'
           /\ operations'[i].eid = operations[i].eid
           /\ operations'[i].seq = operations[i].seq
           /\ operations'[i].payload = operations[i].payload
<1>1. CASE UNCHANGED <<nextSequence, nextOperationID, operations, results>>
  BY <1>1 DEF OperationIDs
<1>2. CASE \E c \in Clients : Enqueue(c)
  BY <1>2, EnqueueEffect, Zenon
<1>3. CASE \E h \in Handlers : Record(h)
  BY <1>3, RecordEffect, Zenon
<1> QED
  BY <1>1, <1>2, <1>3, QueueStep, Zenon

-----------------------------------------------------------------------------
(* Sequence numbers                                                        *)

\* The next number of a device is above those of its operations.
Numbering ==
    /\ \A i \in OperationIDs : operations[i].seq < nextSequence[operations[i].eid]
    /\ SequenceOrder

LEMMA NumberingStep == TypeOK /\ Numbering /\ [Next]_vars => Numbering'
<1> SUFFICES ASSUME TypeOK, Numbering, [Next]_vars
             PROVE  Numbering'
  OBVIOUS
<1>1. CASE UNCHANGED <<nextSequence, nextOperationID, operations, results>>
  BY <1>1, Zenon DEF Numbering, SequenceOrder, OperationIDs
<1>2. ASSUME NEW c \in Clients, Enqueue(c)
      PROVE  Numbering'
  <2> DEFINE n == nextOperationID
             e == request[c].eid
  <2>1. e \in Devices /\ nextSequence \in [Devices -> Nat]
    BY <1>2, EnqueueEffect, Zenon DEF Request, TypeOK, StoreTypeOK
  <2>2. \A i \in OperationIDs : operations[i].eid \in Devices /\ operations[i].seq \in Nat
    BY Zenon DEF TypeOK, StoreTypeOK, Operation
  <2>3. /\ operations'[n].eid = e /\ operations'[n].seq = nextSequence[e]
        /\ OperationIDs' = OperationIDs \cup {n}
        /\ n \in Int /\ \A i \in OperationIDs : i \in Int
        /\ \A i \in OperationIDs : i < n /\ operations'[i] = operations[i]
        /\ nextSequence' = [nextSequence EXCEPT ![e] = @ + 1]
    BY <1>2, EnqueueEffect, Zenon
  <2> HIDE DEF n, e
  <2>4. \A i \in OperationIDs' : operations'[i].seq < nextSequence'[operations'[i].eid]
    BY <2>1, <2>2, <2>3 DEF Numbering
  <2>5. SequenceOrder'
    <3> SUFFICES ASSUME NEW i \in OperationIDs', NEW j \in OperationIDs',
                        i < j, operations'[i].eid = operations'[j].eid
                 PROVE  operations'[i].seq < operations'[j].seq
      BY Zenon DEF SequenceOrder
    <3>1. CASE j = n
      BY <2>1, <2>2, <2>3, <3>1 DEF Numbering
    <3>2. CASE j # n
      BY <2>2, <2>3, <3>2 DEF Numbering, SequenceOrder
    <3> QED
      BY <3>1, <3>2, Zenon
  <2> QED
    BY <2>4, <2>5, Zenon DEF Numbering
<1>3. ASSUME NEW h \in Handlers, Record(h)
      PROVE  Numbering'
  BY <1>3, RecordEffect DEF Numbering, SequenceOrder
<1> QED
  BY <1>1, <1>2, <1>3, QueueStep

\* Operations of a device are numbered in the order they were queued and no number
\* is used twice, however many API requests interleave (EnqueueOperation).
THEOREM SequenceOrdered == Spec => []SequenceOrder
<1>1. Init => Numbering
  BY DEF Init, StoreInit, Numbering, SequenceOrder, OperationIDs
<1>2. Numbering => SequenceOrder
  BY DEF Numbering
<1> QED
  BY <1>1, <1>2, NumberingStep, TypeCorrect, PTL DEF Spec

-----------------------------------------------------------------------------
(* Package counters                                                        *)

\* A request that has drawn a counter and not queued its package yet.
Drawn(c) == request[c].pc = "enqueue" /\ request[c].payload.kind = Package

\* The next counter of a device is above every counter drawn for it, and the
\* counters of its packages, queued or about to be, differ.
Counters ==
    /\ \A i \in OperationIDs :
         IsPackage(i) => operations[i].payload.counter < nextCounter[operations[i].eid]
    /\ \A c \in Clients :
         Drawn(c) => request[c].payload.counter < nextCounter[request[c].eid]
    /\ CountersUnique
    /\ \A c \in Clients : \A i \in OperationIDs :
         (Drawn(c) /\ IsPackage(i) /\ operations[i].eid = request[c].eid)
         => operations[i].payload.counter # request[c].payload.counter
    /\ \A b, c \in Clients :
         (b # c /\ Drawn(b) /\ Drawn(c) /\ request[b].eid = request[c].eid)
         => request[b].payload.counter # request[c].payload.counter

\* A step that draws no counter and queues no operation keeps Counters.
LEMMA CountersKept ==
    ASSUME Counters, OperationIDs' = OperationIDs, nextCounter' = nextCounter,
           \A i \in OperationIDs : /\ operations'[i].eid = operations[i].eid
                                   /\ operations'[i].payload = operations[i].payload,
           \A c \in Clients : Drawn(c)' => Drawn(c) /\ request'[c] = request[c]
    PROVE  Counters'
BY DEF Counters, CountersUnique, IsPackage

\* The only steps that draw a counter or queue an operation.
LEMMA CounterSteps ==
    ASSUME TypeOK, [Next]_vars,
           ~ \E c \in Clients : Sign(c) \/ Enqueue(c)
    PROVE  /\ OperationIDs' = OperationIDs
           /\ nextCounter' = nextCounter
           /\ \A i \in OperationIDs : /\ operations'[i].eid = operations[i].eid
                                      /\ operations'[i].payload = operations[i].payload
           /\ \A c \in Clients : Drawn(c)' => Drawn(c) /\ request'[c] = request[c]
<1>1. OperationIDs' = OperationIDs
  BY QueueStep, RecordEffect, Zenon DEF OperationIDs
<1>2. \A i \in OperationIDs : /\ operations'[i].eid = operations[i].eid
                              /\ operations'[i].payload = operations[i].payload
  BY IdentityKept, Zenon
<1>3. ASSUME NEW c \in Clients, StartRequest(c) \/ AbortRequest(c)
      PROVE  /\ nextCounter' = nextCounter
             /\ \A b \in Clients : Drawn(b)' => Drawn(b) /\ request'[b] = request[b]
  <2>1. nextCounter' = nextCounter
    BY <1>3, Zenon DEF StartRequest, AbortRequest, RegisterDevice, storeVars, deviceVars
  <2>2. PICK r : request' = [request EXCEPT ![c] = r]
    BY <1>3, Zenon DEF StartRequest, AbortRequest
  <2>3. \A b \in Clients : b # c => request'[b] = request[b]
    BY <2>2, Zenon DEF TypeOK, ThreadTypeOK
  <2>4. ~Drawn(c)'
    BY <1>3 DEF StartRequest, AbortRequest, Drawn, NoRequest, TypeOK, ThreadTypeOK
  <2> QED
    BY <2>1, <2>3, <2>4, Zenon DEF Drawn
<1>4. ASSUME NEW d \in Devices, DeviceStep(d)
      PROVE  UNCHANGED <<nextCounter, request>>
  BY ZenonT(30), <1>4 DEF DeviceStep, Poll, Execute, RefuseReplay, RefuseUnsigned, Download, RestartIPA,
              storeVars, deviceVars, apiVars
<1>5. ASSUME NEW h \in Handlers, HandlerStep(h)
      PROVE  UNCHANGED <<nextCounter, request>>
  BY <1>5, Zenon DEF HandlerStep, Upload, UploadMessage, Resolve, Match, Reject, Record, Apply,
              Respond, AbortHandler, storeVars, deviceVars, apiVars
<1>6. CASE UNCHANGED vars
  BY <1>1, <1>2, <1>6, Zenon DEF vars, storeVars, deviceVars, apiVars, Drawn
<1>7. CASE Next
  BY <1>1, <1>2, <1>3, <1>4, <1>5, <1>7, Zenon DEF Next, ApiStep, Drawn
<1> QED
  BY <1>6, <1>7, Zenon

LEMMA CountersStep == TypeOK /\ Counters /\ [Next]_vars => Counters'
<1> SUFFICES ASSUME TypeOK, Counters, [Next]_vars
             PROVE  Counters'
  OBVIOUS
<1>1. \A i \in OperationIDs :
         operations[i].eid \in Devices /\ operations[i].payload.counter \in Nat
  BY Zenon DEF TypeOK, StoreTypeOK, Operation, Payload
<1>2. nextCounter \in [Devices -> Nat]
  BY Zenon DEF TypeOK, StoreTypeOK
<1>3. \A b \in Clients : Drawn(b) => request[b].eid \in Devices /\ request[b].payload.counter \in Nat
  BY RequestType, Zenon DEF TypeOK, Drawn, Request, Payload
<1>4. ASSUME NEW c \in Clients, Sign(c)
      PROVE  Counters'
  <2> DEFINE e == request[c].eid
  <2>1. request[c] \in Request
    BY <1>4, RequestType DEF Sign, TypeOK
  <2>2. /\ UNCHANGED <<operations, nextOperationID>>
        /\ OperationIDs' = OperationIDs
        /\ nextCounter' = [nextCounter EXCEPT ![e] = @ + 1]
    BY <1>4 DEF Sign, NextEUICCPackageCounter, queueVars, OperationIDs
  <2>3. /\ request'[c].payload.counter = nextCounter[e]
        /\ request'[c].eid = e
        /\ \A b \in Clients : b # c => request'[b] = request[b]
    BY <1>4, <2>1 DEF Sign, TypeOK, ThreadTypeOK, Request, Payload
  <2>4. e \in Devices
    BY <2>1, Zenon DEF Request
  <2> HIDE DEF e
  <2>5. \A b \in Clients : b # c => (Drawn(b)' <=> Drawn(b))
    BY <2>3, Zenon DEF Drawn
  <2>6. \A i \in OperationIDs :
           IsPackage(i) => operations[i].payload.counter < nextCounter'[operations[i].eid]
    BY <1>1, <1>2, <2>2, <2>4 DEF Counters
  <2>7. \A b \in Clients :
           Drawn(b)' => request'[b].payload.counter < nextCounter'[request'[b].eid]
    <3> SUFFICES ASSUME NEW b \in Clients, Drawn(b)'
                 PROVE  request'[b].payload.counter < nextCounter'[request'[b].eid]
      BY Zenon
    <3>1. CASE b = c
      BY <1>2, <2>2, <2>3, <2>4, <3>1
    <3>2. CASE b # c
      BY <1>2, <1>3, <2>2, <2>3, <2>4, <2>5, <3>2 DEF Counters
    <3> QED
      BY <3>1, <3>2, Zenon
  <2>8. \A b \in Clients : \A i \in OperationIDs :
           (Drawn(b)' /\ IsPackage(i) /\ operations[i].eid = request'[b].eid)
           => operations[i].payload.counter # request'[b].payload.counter
    <3> SUFFICES ASSUME NEW b \in Clients, NEW i \in OperationIDs, Drawn(b)', IsPackage(i),
                        operations[i].eid = request'[b].eid
                 PROVE  operations[i].payload.counter # request'[b].payload.counter
      BY Zenon
    <3>1. CASE b = c
      BY <1>1, <1>2, <2>3, <2>4, <3>1 DEF Counters
    <3>2. CASE b # c
      BY <2>3, <2>5, <3>2 DEF Counters
    <3> QED
      BY <3>1, <3>2, Zenon
  <2>9. \A a, b \in Clients :
           (a # b /\ Drawn(a)' /\ Drawn(b)' /\ request'[a].eid = request'[b].eid)
           => request'[a].payload.counter # request'[b].payload.counter
    <3> SUFFICES ASSUME NEW a \in Clients, NEW b \in Clients, a # b, Drawn(a)', Drawn(b)',
                        request'[a].eid = request'[b].eid
                 PROVE  request'[a].payload.counter # request'[b].payload.counter
      BY Zenon
    <3>1. CASE a = c
      BY <1>2, <1>3, <2>3, <2>4, <2>5, <3>1 DEF Counters
    <3>2. CASE b = c
      BY <1>2, <1>3, <2>3, <2>4, <2>5, <3>2 DEF Counters
    <3>3. CASE a # c /\ b # c
      BY <2>3, <2>5, <3>3 DEF Counters
    <3> QED
      BY <3>1, <3>2, <3>3, Zenon
  <2> QED
    BY <2>2, <2>6, <2>7, <2>8, <2>9 DEF Counters, CountersUnique, IsPackage
<1>5. ASSUME NEW c \in Clients, Enqueue(c)
      PROVE  Counters'
  <2> DEFINE n == nextOperationID
             e == request[c].eid
             u == request[c].payload
  <2>1. /\ operations'[n].eid = e
        /\ operations'[n].payload = u
        /\ OperationIDs' = OperationIDs \cup {n}
        /\ \A i \in OperationIDs : operations'[i] = operations[i]
        /\ nextCounter' = nextCounter
    BY <1>5, EnqueueEffect, Zenon
  <2>2. /\ \A b \in Clients : b # c => request'[b] = request[b]
        /\ ~Drawn(c)'
    BY <1>5, Zenon DEF Enqueue, NoRequest, Drawn, TypeOK, ThreadTypeOK
  <2>3. \A b \in Clients : Drawn(b)' => b # c /\ Drawn(b)
    BY <2>2, Zenon DEF Drawn
  <2>4. u.kind = Package => Drawn(c)
    BY <1>5, Zenon DEF Enqueue, Drawn
  <2> HIDE DEF n, e, u
  <2>6. \A i \in OperationIDs' :
           IsPackage(i)' => operations'[i].payload.counter < nextCounter'[operations'[i].eid]
    BY <2>1, <2>4 DEF Counters, IsPackage, e, u
  <2>7. CountersUnique'
    BY <2>1, <2>4 DEF Counters, CountersUnique, IsPackage, e, u
  <2>8. \A b \in Clients : \A i \in OperationIDs' :
           (Drawn(b)' /\ IsPackage(i)' /\ operations'[i].eid = request'[b].eid)
           => operations'[i].payload.counter # request'[b].payload.counter
    BY <2>1, <2>2, <2>3, <2>4 DEF Counters, IsPackage, e, u
  <2>9. /\ \A b \in Clients :
             Drawn(b)' => request'[b].payload.counter < nextCounter'[request'[b].eid]
        /\ \A a, b \in Clients :
             (a # b /\ Drawn(a)' /\ Drawn(b)' /\ request'[a].eid = request'[b].eid)
             => request'[a].payload.counter # request'[b].payload.counter
    BY <2>1, <2>2, <2>3 DEF Counters
  <2> QED
    BY <2>6, <2>7, <2>8, <2>9, Zenon DEF Counters
<1>6. CASE ~ \E c \in Clients : Sign(c) \/ Enqueue(c)
  BY <1>6, CounterSteps, CountersKept, Zenon
<1> QED
  BY <1>4, <1>5, <1>6

\* No two packages queued for one eUICC carry the same counter, although a request
\* draws its counter in one step and queues the package in a later one
\* (Service.Sign, EnqueueOperation).
THEOREM CountersDistinct == Spec => []CountersUnique
<1>1. Init => Counters
  BY DEF Init, StoreInit, Counters, CountersUnique, Drawn, NoRequest, OperationIDs
<1>2. Counters => CountersUnique
  BY Zenon DEF Counters
<1> QED
  BY <1>1, <1>2, CountersStep, TypeCorrect, PTL DEF Spec

-----------------------------------------------------------------------------
(* Outcomes                                                                *)

\* A success that a message reports happened.
Real(m) ==
    m.kind \in {"signed", "trigger"} =>
        m.txid # NoTx /\ (m.ok => m.txid \in executed)

Genuine ==
    /\ \A d \in Devices : \A m \in retained[d] : Real(m)
    /\ \A h \in Handlers : handler[h].pc # "idle" => Real(handler[h].msg)

\* What a handler has decided about the operation it matched.
Verdict(x) ==
    x.pc \in {"record", "apply"} =>
        /\ operations[x.op].eid = x.eid
        /\ x.status # "pending"
        /\ x.status = "done" => operations[x.op].payload.txid \in executed
        /\ x.pc = "apply" => x.status = "done" /\ IsPackage(x.op)

Outcomes ==
    /\ Genuine
    /\ \A h \in Handlers : Verdict(handler[h])
    /\ DoneWasExecuted

\* The eUICC's record of what it carried out only grows.
LEMMA ExecutedGrows == [Next]_vars => executed \subseteq executed'
BY ZenonT(30) DEF Next, vars, ApiStep, StartRequest, Sign, Enqueue, AbortRequest,
       DeviceStep, Poll, Execute, RefuseReplay, RefuseUnsigned, Download, RestartIPA,
       HandlerStep, Upload, UploadMessage, Resolve, Match, Record, Apply, Respond,
       AbortHandler, euiccVars

\* What an IPA still has to deliver: a step adds at most one genuine answer.
LEMMA AnswersReal ==
    ASSUME TypeOK, NEW d \in Devices, DeviceStep(d), NEW e \in Devices,
           NEW m \in retained'[e], m \notin retained[e]
    PROVE  Real(m)'
<1>1. ASSUME NEW msg, Answer(d, msg)
      PROVE  m = msg
  BY <1>1, Zenon DEF Answer, TypeOK, DeviceTypeOK
<1>2. inbox[d] # 0 => operations[inbox[d]].payload.txid # NoTx
  BY InboxPayload, Zenon DEF Payload, NoTx
<1>3. CASE Execute(d)
  <2> DEFINE payload == operations[inbox[d]].payload
  <2>1. PICK ok \in BOOLEAN :
           /\ Answer(d, [kind |-> "signed", txid |-> payload.txid, counter |-> payload.counter,
                         seqNumber |-> nextSeqNumber[d], ok |-> ok, eim |-> TRUE])
           /\ executed' = IF ok THEN executed \cup {payload.txid} ELSE executed
    BY ZenonT(30), <1>3 DEF Execute
  <2>2. m.txid = payload.txid /\ m.ok = ok
    BY <1>1, <2>1
  <2> QED
    BY <1>2, <1>3, <2>1, <2>2, Zenon DEF Execute, Real
<1>4. CASE Download(d)
  <2> DEFINE payload == operations[inbox[d]].payload
  <2>1. PICK ok \in BOOLEAN :
           /\ Answer(d, [kind |-> "trigger", txid |-> payload.txid, counter |-> 0,
                         seqNumber |-> 0, ok |-> ok, eim |-> FALSE])
           /\ executed' = IF ok THEN executed \cup {payload.txid} ELSE executed
    BY <1>4, Zenon DEF Download
  <2>2. m.txid = payload.txid /\ m.ok = ok
    BY <1>1, <2>1
  <2> QED
    BY <1>2, <1>4, <2>1, <2>2, Zenon DEF Download, Real
<1>5. CASE RefuseReplay(d)
  <2>1. m.kind = "errorSigned"
    BY <1>1, <1>5 DEF RefuseReplay
  <2> QED
    BY <2>1, Zenon DEF Real
<1>6. CASE RefuseUnsigned(d)
  <2>1. m.kind \in Refusals
    BY <1>1, <1>6 DEF RefuseUnsigned
  <2> QED
    BY <2>1, RefusalsAssumption, Zenon DEF Real
<1>7. CASE Poll(d) \/ RestartIPA(d)
  BY <1>7, Zenon DEF Poll, RestartIPA, TypeOK, DeviceTypeOK
<1> QED
  BY <1>3, <1>4, <1>5, <1>6, <1>7, Zenon DEF DeviceStep

\* A handler step takes no answer away from another handler and gives the IPA
\* nothing new to deliver.
LEMMA HandlerFrame ==
    ASSUME TypeOK, NEW h \in Handlers, HandlerStep(h)
    PROVE  /\ \A g \in Handlers : g # h => handler'[g] = handler[g]
           /\ \A d \in Devices : retained'[d] \subseteq retained[d]
           /\ UNCHANGED <<executed, inbox, nextCounter, nextSequence, nextOperationID>>
<1>1. \A g \in Handlers : g # h => handler'[g] = handler[g]
  BY ZenonT(30) DEF HandlerStep, Upload, UploadMessage, Resolve, Match, Reject, Record, Apply, Respond,
         AbortHandler, TypeOK, ThreadTypeOK
<1>2. CASE Resolve(h) \/ Match(h) \/ Respond(h)
  <2>1. handler[h] \in Provide
    BY <1>2, ProvideType, Zenon DEF Resolve, Match, Respond, TypeOK
  <2>2. \A d \in Devices : retained'[d] \subseteq retained[d]
    BY <1>2, <2>1 DEF Resolve, Match, Respond, Reject, ipaVars, TypeOK, DeviceTypeOK, Provide
  <2>3. CASE Resolve(h)
    BY <1>1, <2>2, <2>3 DEF Resolve, Reject, ipaVars, euiccVars, storeVars, deviceVars, queueVars
  <2>4. CASE Match(h)
    BY <1>1, <2>2, <2>4 DEF Match, Reject, ipaVars, euiccVars, storeVars, deviceVars, queueVars
  <2>5. CASE Respond(h)
    BY <1>1, <2>2, <2>5, Zenon DEF Respond, euiccVars, deviceVars, queueVars
  <2> QED
    BY <1>2, <2>3, <2>4, <2>5, Zenon
<1>3. CASE Upload(h)
  BY <1>1, <1>3, Zenon DEF Upload, UploadMessage, ipaVars, euiccVars, storeVars, deviceVars, queueVars
<1>4. CASE Record(h)
  BY <1>1, <1>4 DEF Record, RecordEUICCPackageResult, ipaVars, euiccVars, deviceVars
<1>5. CASE Apply(h)
  BY <1>1, <1>5, Zenon DEF Apply, ipaVars, euiccVars, deviceVars, queueVars
<1>6. CASE AbortHandler(h)
  BY <1>1, <1>6, Zenon DEF AbortHandler, ipaVars, euiccVars, storeVars, deviceVars, queueVars
<1> QED
  BY <1>2, <1>3, <1>4, <1>5, <1>6, Zenon DEF HandlerStep

\* What a handler that does not move has decided stays true.
LEMMA VerdictKept ==
    ASSUME TypeOK, [Next]_vars, NEW h \in Handlers, Verdict(handler[h]), handler'[h] = handler[h]
    PROVE  Verdict(handler[h])'
<1> SUFFICES ASSUME handler[h].pc \in {"record", "apply"}
             PROVE  Verdict(handler[h])'
  BY Zenon DEF Verdict
<1>1. handler[h].op \in OperationIDs
  BY Zenon DEF TypeOK, ThreadTypeOK
<1>2. /\ operations'[handler[h].op].eid = operations[handler[h].op].eid
      /\ operations'[handler[h].op].payload = operations[handler[h].op].payload
  BY <1>1, IdentityKept, Zenon
<1> QED
  BY <1>2, ExecutedGrows, Zenon DEF Verdict, IsPackage

\* What a handler decides when it matches a result is true.
LEMMA VerdictReached ==
    ASSUME TypeOK, Outcomes, NEW h \in Handlers, HandlerStep(h)
    PROVE  Verdict(handler[h])'
<1> DEFINE x == handler[h]
<1> SUFFICES ASSUME handler'[h].pc \in {"record", "apply"}
             PROVE  Verdict(handler[h])'
  BY Zenon DEF Verdict
<1>1. CASE Match(h)
  <2> DEFINE i == MatchOperation(x.eid, x.msg)
  <2>1. x \in Provide
    BY <1>1, ProvideType DEF Match, TypeOK
  <2>2. /\ i # 0
        /\ handler' = [handler EXCEPT ![h].pc = "record", ![h].op = i,
                                      ![h].status = ResultStatus(x.msg)]
        /\ UNCHANGED <<operations, executed>>
    BY <1>1 DEF Match, Reject, NoHandler, TypeOK, ThreadTypeOK, storeVars, queueVars, euiccVars
  <2>3. /\ handler'[h].pc = "record" /\ handler'[h].op = i /\ handler'[h].eid = x.eid
        /\ handler'[h].status = ResultStatus(x.msg)
    BY <2>1, <2>2 DEF TypeOK, ThreadTypeOK, Provide
  <2>4. x.msg \in Message /\ Real(x.msg)
    BY <1>1, <2>1 DEF Match, Provide, Outcomes, Genuine
  <2>5. /\ operations[i].eid = x.eid
        /\ (x.msg.kind \in {"signed", "trigger"} /\ x.msg.txid # NoTx) =>
              operations[i].payload.txid = x.msg.txid
    BY <2>2, <2>4, MatchIsOwn DEF TypeOK
  <2> HIDE DEF i
  <2>6. ResultStatus(x.msg) = "done" => operations[i].payload.txid \in executed
    BY <2>4, <2>5, Zenon DEF ResultStatus, Real
  <2> QED
    BY <2>2, <2>3, <2>5, <2>6 DEF Verdict, ResultStatus
<1>2. CASE Record(h)
  <2>1. /\ x \in Provide /\ x.op \in OperationIDs
        /\ operations'[x.op].eid = operations[x.op].eid
        /\ operations'[x.op].payload = operations[x.op].payload
    BY <1>2, RecordEffect, Zenon
  <2>2. /\ handler'[h].pc = AfterRecord(x) /\ handler'[h].op = x.op
        /\ handler'[h].eid = x.eid /\ handler'[h].status = x.status
    BY <1>2, <2>1 DEF Record, TypeOK, ThreadTypeOK, Provide
  <2>3. Verdict(x) /\ x.pc = "record" /\ executed' = executed
    BY <1>2 DEF Outcomes, Record, euiccVars
  <2> QED
    BY <2>1, <2>2, <2>3, Zenon DEF Verdict, AfterRecord, IsPackage
<1>3. CASE Upload(h) \/ Resolve(h) \/ Apply(h) \/ Respond(h) \/ AbortHandler(h)
  <2>1. handler'[h].pc \in {"idle", "resolve", "match", "respond"}
    <3>1. handler \in [Handlers -> {NoHandler} \cup Provide]
      BY Zenon DEF TypeOK, ThreadTypeOK
    <3>2. CASE Resolve(h)
      <4>1. x \in Provide
        BY <3>2, ProvideType DEF Resolve, TypeOK
      <4> QED
        BY <3>1, <3>2, <4>1 DEF Resolve, Reject, NoHandler, Provide
    <3>3. CASE Apply(h)
      <4>1. x \in Provide
        BY <3>3, ProvideType, Zenon DEF Apply, TypeOK
      <4> QED
        BY <3>1, <3>3, <4>1, Zenon DEF Apply, Provide
    <3>4. CASE Upload(h)
      BY <3>1, <3>4 DEF Upload, UploadMessage
    <3>5. CASE Respond(h) \/ AbortHandler(h)
      BY <3>1, <3>5 DEF Respond, AbortHandler, NoHandler
    <3> QED
      BY <1>3, <3>2, <3>3, <3>4, <3>5, Zenon
  <2> QED
    BY <2>1, Zenon
<1> QED
  BY <1>1, <1>2, <1>3, Zenon DEF HandlerStep

\* The message a handler works on is the one it was given, or one the IPA held.
LEMMA MessageKept ==
    ASSUME TypeOK, NEW h \in Handlers, HandlerStep(h), handler'[h].pc # "idle"
    PROVE  \/ handler[h].pc # "idle" /\ handler'[h].msg = handler[h].msg
           \/ \E d \in Devices : handler'[h].msg \in retained[d]
<1>1. CASE Upload(h)
  <2>1. handler \in [Handlers -> {NoHandler} \cup Provide]
    BY Zenon DEF TypeOK, ThreadTypeOK
  <2> QED
    BY <1>1, <2>1 DEF Upload, UploadMessage
<1>2. CASE Resolve(h) \/ Match(h) \/ Record(h) \/ Apply(h)
  <2>1. handler[h] \in Provide /\ handler[h].pc # "idle"
    BY <1>2, ProvideType, Zenon DEF Resolve, Match, Record, Apply, TypeOK
  <2>2. handler \in [Handlers -> {NoHandler} \cup Provide]
    BY DEF TypeOK, ThreadTypeOK
  <2>3. CASE Resolve(h)
    BY <2>1, <2>2, <2>3 DEF Resolve, Reject, NoHandler, Provide
  <2>4. CASE Match(h)
    BY <2>1, <2>2, <2>4 DEF Match, Reject, NoHandler, Provide
  <2>5. CASE Record(h)
    BY <2>1, <2>2, <2>5 DEF Record, Provide
  <2>6. CASE Apply(h)
    BY <2>1, <2>2, <2>6, Zenon DEF Apply, Provide
  <2> QED
    BY <1>2, <2>3, <2>4, <2>5, <2>6, Zenon
<1>3. CASE Respond(h) \/ AbortHandler(h)
  BY <1>3 DEF Respond, AbortHandler, NoHandler, TypeOK, ThreadTypeOK
<1> QED
  BY <1>1, <1>2, <1>3, Zenon DEF HandlerStep

LEMMA OutcomesStep == TypeOK /\ Outcomes /\ [Next]_vars => Outcomes'
<1> SUFFICES ASSUME TypeOK, Outcomes, [Next]_vars
             PROVE  Outcomes'
  OBVIOUS
<1>1. \A m : Real(m) => Real(m)'
  BY ExecutedGrows, Zenon DEF Real
<1>2. DoneWasExecuted'
  <2>1. CASE UNCHANGED <<nextSequence, nextOperationID, operations, results>>
    BY <2>1, ExecutedGrows, Zenon DEF Outcomes, DoneWasExecuted, OperationIDs
  <2>2. ASSUME NEW c \in Clients, Enqueue(c)
        PROVE  DoneWasExecuted'
    BY <2>2, EnqueueEffect DEF Outcomes, DoneWasExecuted
  <2>3. ASSUME NEW h \in Handlers, Record(h)
        PROVE  DoneWasExecuted'
    <3>1. normalizeResultStatus(handler[h].status) = "done" =>
             operations[handler[h].op].payload.txid \in executed
      BY ZenonT(30), <2>3, RecordEffect
         DEF Record, Outcomes, Verdict, normalizeResultStatus, Provide, Statuses
    <3> QED
      BY <2>3, <3>1, RecordEffect, ExecutedGrows DEF Outcomes, DoneWasExecuted
  <2> QED
    BY <2>1, <2>2, <2>3, QueueStep, Zenon
<1>3. CASE UNCHANGED <<handler, retained>>
  BY <1>1, <1>2, <1>3, VerdictKept, Zenon DEF Outcomes, Genuine
<1>4. ASSUME NEW d \in Devices, DeviceStep(d)
      PROVE  Outcomes'
  <2>1. handler' = handler
    BY ZenonT(30), <1>4
       DEF DeviceStep, Poll, Execute, RefuseReplay, RefuseUnsigned, Download, RestartIPA
  <2> QED
    BY <1>1, <1>2, <1>4, <2>1, AnswersReal, VerdictKept, Zenon DEF Outcomes, Genuine
<1>5. ASSUME NEW h \in Handlers, HandlerStep(h)
      PROVE  Outcomes'
  <2>1. \A g \in Handlers : Verdict(handler[g])'
    BY <1>5, HandlerFrame, VerdictKept, VerdictReached, Zenon DEF Outcomes
  <2>2. ASSUME NEW g \in Handlers, handler'[g].pc # "idle"
        PROVE  Real(handler[g].msg)'
    <3>1. Real(handler'[g].msg)
      BY <1>5, <2>2, HandlerFrame, MessageKept, Zenon DEF Outcomes, Genuine
    <3> QED
      BY <1>5, <3>1, HandlerFrame, Zenon DEF Real
  <2> QED
    BY ZenonT(30), <1>1, <1>2, <1>5, <2>1, <2>2, HandlerFrame DEF Outcomes, Genuine
<1>6. ASSUME NEW c \in Clients, ApiStep(c)
      PROVE  UNCHANGED <<handler, retained>>
  BY <1>6 DEF ApiStep, StartRequest, Sign, Enqueue, AbortRequest, ipaVars
<1>7. UNCHANGED vars => UNCHANGED <<handler, retained>>
  BY DEF vars, ipaVars
<1> QED
  BY <1>3, <1>4, <1>5, <1>6, <1>7, Zenon DEF Next

\* An operation is reported done only if the device carried out that very
\* operation, in both verification modes and whatever is lost, repeated, reordered
\* or answered without a transaction id (recordEimPackageResult,
\* recordProfileDownloadTriggerResult).
THEOREM DoneIsExecuted == Spec => []DoneWasExecuted
<1>1. Init => Outcomes
  BY DEF Init, StoreInit, Outcomes, Genuine, Verdict, DoneWasExecuted, NoHandler, OperationIDs
<1>2. Outcomes => DoneWasExecuted
  BY DEF Outcomes
<1> QED
  BY <1>1, <1>2, OutcomesStep, TypeCorrect, PTL DEF Spec

=============================================================================
