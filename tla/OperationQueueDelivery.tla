----------------------- MODULE OperationQueueDelivery -----------------------
(***************************************************************************)
(* Where answers come from and where they go, for any number of devices and *)
(* requests: an answer is about an operation of the device that holds it,  *)
(* so results are handled for their sender, the stored view follows        *)
(* executed packages, and the queue implements the abstract life cycle;    *)
(* packages go out in order and a fetched trigger stays where its result is *)
(* matched; each result is stored with the operation it finished, and      *)
(* nothing the eIM still needs is deleted at the device.                   *)
(***************************************************************************)
EXTENDS OperationQueueProofs

-----------------------------------------------------------------------------
(* Transactions                                                            *)

Busy(c) == request[c].pc # "idle"

\* No two operations, queued or about to be, have the same transaction, and all
\* of them were drawn.
Transactions ==
    /\ \A i \in OperationIDs : operations[i].payload.txid <= issuedTx
    /\ \A c \in Clients : Busy(c) => request[c].payload.txid <= issuedTx
    /\ \A i, j \in OperationIDs :
         operations[i].payload.txid = operations[j].payload.txid => i = j
    /\ \A c \in Clients : \A i \in OperationIDs :
         Busy(c) => operations[i].payload.txid # request[c].payload.txid
    /\ \A b, c \in Clients :
         (Busy(b) /\ Busy(c) /\ request[b].payload.txid = request[c].payload.txid) => b = c

\* A step that draws no transaction and queues no operation keeps Transactions.
LEMMA TransactionsKept ==
    ASSUME Transactions, OperationIDs' = OperationIDs, issuedTx' = issuedTx,
           \A i \in OperationIDs : operations'[i].payload = operations[i].payload,
           \A c \in Clients :
              Busy(c)' => Busy(c) /\ request'[c].payload.txid = request[c].payload.txid
    PROVE  Transactions'
BY DEF Transactions

\* Steps of devices and handlers leave the API threads alone.
LEMMA ApiFrame ==
    ASSUME [Next]_vars, ~ \E c \in Clients : ApiStep(c)
    PROVE  UNCHANGED <<issuedTx, request>>
<1>1. ASSUME NEW d \in Devices, DeviceStep(d)
      PROVE  UNCHANGED <<issuedTx, request>>
  BY ZenonT(30), <1>1 DEF DeviceStep, Poll, Execute, RefuseReplay, RefuseUnsigned, Download,
              RestartIPA, apiVars
<1>2. ASSUME NEW h \in Handlers, HandlerStep(h)
      PROVE  UNCHANGED <<issuedTx, request>>
  BY ZenonT(30), <1>2 DEF HandlerStep, Upload, UploadMessage, Resolve, Match, Record, Apply,
              Respond, AbortHandler, apiVars
<1>3. CASE UNCHANGED vars
  BY <1>3 DEF vars, apiVars
<1> QED
  BY <1>1, <1>2, <1>3 DEF Next

LEMMA TransactionsStep == TypeOK /\ Transactions /\ [Next]_vars => Transactions'
<1> SUFFICES ASSUME TypeOK, Transactions, [Next]_vars
             PROVE  Transactions'
  OBVIOUS
<1>1. issuedTx \in Nat /\ \A i \in OperationIDs : operations[i].payload.txid \in Nat
  BY DEF TypeOK, ThreadTypeOK, StoreTypeOK, Operation, Payload
<1>2. \A c \in Clients : Busy(c) => request[c] \in Request /\ request[c].payload.txid \in Nat
  <2>1. \A c \in Clients : Busy(c) => request[c] \in Request
    BY DEF Busy, NoRequest, TypeOK, ThreadTypeOK
  <2> QED
    BY <2>1 DEF Request, Payload
<1>3. request \in [Clients -> {NoRequest} \cup Request]
  BY DEF TypeOK, ThreadTypeOK
<1>4. ASSUME NEW c \in Clients, StartRequest(c)
      PROVE  Transactions'
  <2>1. UNCHANGED <<nextOperationID, operations>> /\ OperationIDs' = OperationIDs
    BY <1>4 DEF StartRequest, queueVars, OperationIDs
  <2>2. PICK r : r.payload.txid = issuedTx + 1 /\ request' = [request EXCEPT ![c] = r]
    BY <1>4, Zenon DEF StartRequest
  <2>3. issuedTx' = issuedTx + 1
    BY <1>4 DEF StartRequest
  <2>4. /\ request'[c].payload.txid = issuedTx + 1
        /\ \A b \in Clients : b # c => request'[b] = request[b]
    BY <1>3, <2>2
  <2>5. \A b \in Clients : b # c => (Busy(b)' <=> Busy(b))
    BY <2>4 DEF Busy
  <2>6. /\ \A i \in OperationIDs' : operations'[i].payload.txid <= issuedTx'
        /\ \A i, j \in OperationIDs' :
             operations'[i].payload.txid = operations'[j].payload.txid => i = j
    BY <1>1, <2>1, <2>3 DEF Transactions
  <2>7. \A b \in Clients : Busy(b)' => request'[b].payload.txid <= issuedTx'
    BY <1>1, <1>2, <2>3, <2>4, <2>5 DEF Transactions
  <2>8. \A b \in Clients : \A i \in OperationIDs' :
           Busy(b)' => operations'[i].payload.txid # request'[b].payload.txid
    BY <1>1, <2>1, <2>4, <2>5 DEF Transactions
  <2>9. ASSUME NEW a \in Clients, NEW b \in Clients, Busy(a)', Busy(b)',
               request'[a].payload.txid = request'[b].payload.txid
        PROVE  a = b
    <3>1. CASE a # c /\ b # c
      BY <2>4, <2>5, <2>9, <3>1 DEF Transactions
    <3>2. \A e \in Clients : (e # c /\ Busy(e)') => request'[e].payload.txid # issuedTx + 1
      BY <1>1, <1>2, <2>4, <2>5 DEF Transactions
    <3> QED
      BY <2>4, <2>9, <3>1, <3>2
  <2> QED
    BY <2>6, <2>7, <2>8, <2>9 DEF Transactions
<1>5. ASSUME NEW c \in Clients, Sign(c) \/ AbortRequest(c)
      PROVE  Transactions'
  <2>1. /\ UNCHANGED <<issuedTx, operations, nextOperationID>>
        /\ OperationIDs' = OperationIDs
    BY <1>5 DEF Sign, AbortRequest, storeVars, queueVars, OperationIDs
  <2>2. Sign(c) => Busy(c)
    BY DEF Sign, Busy
  <2>3. \A b \in Clients : b # c => request'[b] = request[b]
    BY <1>3, <1>5 DEF Sign, AbortRequest
  <2>4. CASE Sign(c)
    <3>1. request'[c].payload.txid = request[c].payload.txid
      BY <1>2, <1>3, <2>2, <2>4 DEF Sign, Request, Payload
    <3> QED
      BY <2>1, <2>2, <2>3, <2>4, <3>1, TransactionsKept DEF Busy
  <2>5. CASE AbortRequest(c)
    <3>1. ~Busy(c)'
      BY <1>3, <2>5 DEF AbortRequest, NoRequest, Busy
    <3> QED
      BY <2>1, <2>3, <3>1, TransactionsKept DEF Busy
  <2> QED
    BY <1>5, <2>4, <2>5
<1>6. ASSUME NEW c \in Clients, Enqueue(c)
      PROVE  Transactions'
  <2> DEFINE n == nextOperationID
             u == request[c].payload
  <2>1. /\ OperationIDs' = OperationIDs \cup {n}
        /\ \A i \in OperationIDs : operations'[i] = operations[i]
        /\ operations'[n].payload = u
    BY <1>6, EnqueueEffect
  <2>2. issuedTx' = issuedTx /\ Busy(c)
    BY <1>6 DEF Enqueue, Busy
  <2>3. /\ \A b \in Clients : b # c => request'[b] = request[b]
        /\ ~Busy(c)'
    BY <1>3, <1>6 DEF Enqueue, NoRequest, Busy
  <2>4. \A b \in Clients : Busy(b)' => b # c /\ Busy(b) /\ request'[b] = request[b]
    BY <2>3 DEF Busy
  <2>5. /\ u.txid <= issuedTx
        /\ \A i \in OperationIDs : operations[i].payload.txid # u.txid
        /\ \A b \in Clients : (b # c /\ Busy(b)) => request[b].payload.txid # u.txid
    BY <2>2 DEF Transactions
  <2> HIDE DEF n, u
  <2>6. /\ \A i \in OperationIDs' : operations'[i].payload.txid <= issuedTx'
        /\ \A i, j \in OperationIDs' :
             operations'[i].payload.txid = operations'[j].payload.txid => i = j
    BY <2>1, <2>2, <2>5 DEF Transactions
  <2>7. /\ \A b \in Clients : Busy(b)' => request'[b].payload.txid <= issuedTx'
        /\ \A b \in Clients : \A i \in OperationIDs' :
             Busy(b)' => operations'[i].payload.txid # request'[b].payload.txid
    BY <2>1, <2>2, <2>4, <2>5 DEF Transactions
  <2>8. \A a, b \in Clients :
         (Busy(a)' /\ Busy(b)' /\ request'[a].payload.txid = request'[b].payload.txid) => a = b
    BY <2>4 DEF Transactions
  <2> QED
    BY <2>6, <2>7, <2>8 DEF Transactions
<1>7. CASE ~ \E c \in Clients : ApiStep(c)
  <2>1. UNCHANGED <<issuedTx, request>>
    BY <1>7, ApiFrame
  <2>2. ~ \E c \in Clients : Sign(c) \/ Enqueue(c)
    BY <1>7 DEF ApiStep
  <2> QED
    BY <2>1, <2>2, CounterSteps, TransactionsKept, Zenon DEF Busy
<1> QED
  BY <1>4, <1>5, <1>6, <1>7 DEF ApiStep

LEMMA TransactionsInit == Init => Transactions
BY DEF Init, StoreInit, Transactions, Busy, NoRequest, OperationIDs

-----------------------------------------------------------------------------
(* What a device step and a handler step change                            *)

\* A device answers for itself, about the package it holds.
LEMMA NewAnswer ==
    ASSUME TypeOK, NEW d \in Devices, DeviceStep(d), NEW e \in Devices,
           NEW m \in retained'[e], m \notin retained[e]
    PROVE  /\ e = d
           /\ inbox[d] # 0
           /\ m.txid \in {NoTx, operations[inbox[d]].payload.txid}
           /\ m.kind \in {"signed", "trigger", "errorSigned"} \cup Refusals
           /\ m.kind = "trigger" => ~IsPackage(inbox[d])
           /\ m.kind = "signed" => /\ Execute(d)
                                   /\ m.seqNumber = nextSeqNumber[d]
                                   /\ m.txid = operations[inbox[d]].payload.txid
<1>1. ASSUME NEW msg, Answer(d, msg)
      PROVE  e = d /\ m = msg
  BY <1>1 DEF Answer, TypeOK, DeviceTypeOK
<1>2. CASE Execute(d)
  <2> DEFINE payload == operations[inbox[d]].payload
  <2>1. PICK ok \in BOOLEAN :
           Answer(d, [kind |-> "signed", txid |-> payload.txid, counter |-> payload.counter,
                      seqNumber |-> nextSeqNumber[d], ok |-> ok, eim |-> TRUE])
    BY ZenonT(30), <1>2 DEF Execute
  <2>2. e = d /\ m.kind = "signed" /\ m.txid = payload.txid /\ m.seqNumber = nextSeqNumber[d]
    BY <1>1, <2>1
  <2>3. inbox[d] # 0
    BY <1>2, Zenon DEF Execute
  <2> QED
    BY <1>2, <2>2, <2>3
<1>3. CASE Download(d)
  <2> DEFINE payload == operations[inbox[d]].payload
  <2>1. PICK ok \in BOOLEAN :
           Answer(d, [kind |-> "trigger", txid |-> payload.txid, counter |-> 0,
                      seqNumber |-> 0, ok |-> ok, eim |-> FALSE])
    BY <1>3, Zenon DEF Download
  <2>2. e = d /\ m.kind = "trigger" /\ m.txid = payload.txid
    BY <1>1, <2>1
  <2>3. inbox[d] # 0 /\ ~IsPackage(inbox[d])
    BY <1>3, Zenon DEF Download, IsPackage, Package, Trigger
  <2> QED
    BY <2>2, <2>3, Zenon
<1>4. CASE RefuseReplay(d)
  <2>1. /\ e = d /\ m.kind = "errorSigned" /\ inbox[d] # 0
        /\ m.txid = operations[inbox[d]].payload.txid
    BY <1>1, <1>4 DEF RefuseReplay
  <2> QED
    BY <2>1
<1>5. CASE RefuseUnsigned(d)
  <2>1. /\ e = d /\ m.kind \in Refusals /\ inbox[d] # 0
        /\ m.txid \in {NoTx, operations[inbox[d]].payload.txid}
    BY <1>1, <1>5 DEF RefuseUnsigned
  <2> QED
    BY <2>1, RefusalsAssumption
<1>6. CASE Poll(d) \/ RestartIPA(d)
  BY <1>6, Zenon DEF Poll, RestartIPA, TypeOK, DeviceTypeOK
<1> QED
  BY <1>2, <1>3, <1>4, <1>5, <1>6, Zenon DEF DeviceStep

\* A device step leaves the eIM and the other devices' inboxes alone; the device
\* holds the operation it held, none, or the one it is given; it carries out
\* nothing but the operation it holds.
LEMMA DeviceFrame ==
    ASSUME TypeOK, NEW d \in Devices, DeviceStep(d)
    PROVE  /\ UNCHANGED <<storeVars, handler, applied>>
           /\ \A e \in Devices : e # d => inbox'[e] = inbox[e]
           /\ inbox'[d] # 0 => Poll(d) /\ inbox'[d] = SelectOperation(d)
           /\ \A t \in executed' \ executed :
                 inbox[d] # 0 /\ t = operations[inbox[d]].payload.txid
<1>1. UNCHANGED <<storeVars, handler, applied>>
  BY ZenonT(30)
     DEF DeviceStep, Poll, Execute, RefuseReplay, RefuseUnsigned, Download, RestartIPA
<1>2. inbox \in [Devices -> {0} \cup OperationIDs]
  BY DEF TypeOK, DeviceTypeOK
<1>3. CASE Poll(d)
  BY <1>1, <1>2, <1>3 DEF Poll, euiccVars
<1>4. CASE ~Poll(d)
  <2>1. inbox' = [inbox EXCEPT ![d] = 0]
    BY ZenonT(30), <1>4
       DEF DeviceStep, Execute, RefuseReplay, RefuseUnsigned, Download, RestartIPA, Answer
  <2>2. CASE Execute(d)
    <3>1. \A t \in executed' \ executed : inbox[d] # 0 /\ t = operations[inbox[d]].payload.txid
      BY ZenonT(30), <2>2 DEF Execute
    <3> QED
      BY <1>1, <1>2, <2>1, <3>1
  <2>3. CASE Download(d)
    <3>1. \A t \in executed' \ executed : inbox[d] # 0 /\ t = operations[inbox[d]].payload.txid
      BY ZenonT(30), <2>3 DEF Download
    <3> QED
      BY <1>1, <1>2, <2>1, <3>1
  <2>4. CASE RefuseReplay(d) \/ RefuseUnsigned(d) \/ RestartIPA(d)
    <3>1. executed' = executed
      BY <2>4, Zenon DEF RefuseReplay, RefuseUnsigned, RestartIPA, euiccVars
    <3> QED
      BY <1>1, <1>2, <2>1, <3>1
  <2> QED
    BY <1>4, <2>2, <2>3, <2>4, Zenon DEF DeviceStep
<1> QED
  BY <1>3, <1>4, Zenon

\* A handler works on what was uploaded, for the device that uploaded it or the
\* device of an operation with the transaction of the result.
LEMMA ProvideKept ==
    ASSUME TypeOK, NEW h \in Handlers, HandlerStep(h), handler'[h].pc # "idle"
    PROVE  \/ /\ handler[h].pc = "idle" /\ handler'[h].pc = "resolve"
              /\ handler'[h].src \in Devices
              /\ handler'[h].eid = handler'[h].src
              /\ handler'[h].msg \in retained[handler'[h].src]
              /\ handler'[h].notifs = IF handler'[h].msg.kind = "signed"
                                      THEN retainedNotifs[handler'[h].src] ELSE {}
           \/ /\ handler[h] \in Provide
              /\ handler'[h].src = handler[h].src
              /\ handler'[h].msg = handler[h].msg
              /\ handler'[h].notifs = handler[h].notifs
              /\ \/ handler'[h].eid = handler[h].eid
                 \/ \E i \in ResolvePending(handler[h].msg) : handler'[h].eid = operations[i].eid
<1>1. handler \in [Handlers -> {NoHandler} \cup Provide]
  BY Zenon DEF TypeOK, ThreadTypeOK
<1>2. CASE Upload(h)
  <2>0. PICK d \in Devices, explicit \in BOOLEAN :
           \E msg \in retained[d] : UploadMessage(h, d, msg, explicit)
    BY <1>2, FlagsAssumption, Zenon DEF Upload
  <2>1. PICK msg \in retained[d] : UploadMessage(h, d, msg, explicit)
    BY <2>0, Zenon
  <2>2. handler'[h] = [pc |-> "resolve", src |-> d, eid |-> d, msg |-> msg,
            notifs |-> IF msg.kind = "signed" THEN retainedNotifs[d] ELSE {},
            explicit |-> explicit, op |-> 0, status |-> "pending"]
    BY <1>1, <2>1, Zenon DEF UploadMessage
  <2>3. handler[h].pc = "idle"
    BY <2>1 DEF UploadMessage, NoHandler
  <2>4. /\ handler'[h].pc = "resolve" /\ handler'[h].src = d /\ handler'[h].eid = d
        /\ handler'[h].msg = msg
        /\ handler'[h].notifs = IF msg.kind = "signed" THEN retainedNotifs[d] ELSE {}
    BY <2>2
  <2> QED
    BY <2>1, <2>3, <2>4, Zenon
<1>3. CASE Resolve(h) \/ Match(h) \/ Record(h) \/ Apply(h)
  <2>1. handler[h] \in Provide
    BY <1>3, ProvideType, Zenon DEF Resolve, Match, Record, Apply, TypeOK
  <2>2. CASE Resolve(h)
    BY <1>1, <2>1, <2>2 DEF Resolve, Reject, NoHandler, Provide
  <2>3. CASE Match(h)
    BY <1>1, <2>1, <2>3 DEF Match, Reject, NoHandler, Provide
  <2>4. CASE Record(h)
    BY <1>1, <2>1, <2>4 DEF Record, Provide
  <2>5. CASE Apply(h)
    BY <1>1, <2>1, <2>5, Zenon DEF Apply, Provide
  <2> QED
    BY <1>3, <2>2, <2>3, <2>4, <2>5, Zenon
<1>4. CASE Respond(h) \/ AbortHandler(h)
  BY <1>1, <1>4 DEF Respond, AbortHandler, NoHandler
<1> QED
  BY <1>2, <1>3, <1>4, Zenon DEF HandlerStep

-----------------------------------------------------------------------------
(* Origins                                                                 *)

\* A transaction that an answer names is one of an operation of the device.
About(m, d) ==
    m.txid # NoTx =>
        \E i \in OperationIDs : operations[i].eid = d /\ operations[i].payload.txid = m.txid

Origins ==
    /\ \A d \in Devices : inbox[d] # 0 => operations[inbox[d]].eid = d
    /\ \A d \in Devices : \A m \in retained[d] : About(m, d)
    /\ \A h \in Handlers :
         handler[h].pc # "idle" =>
             handler[h].eid = handler[h].src /\ About(handler[h].msg, handler[h].src)
    /\ \A t \in executed : \E i \in OperationIDs : operations[i].payload.txid = t

LEMMA OriginsStep == TypeOK /\ Transactions /\ Origins /\ [Next]_vars => Origins'
<1> SUFFICES ASSUME TypeOK, Transactions, Origins, [Next]_vars
             PROVE  Origins'
  OBVIOUS
<1>1. \A m, d : About(m, d) => About(m, d)'
  BY IdentityKept DEF About
<1>2. \A i \in OperationIDs : i \in OperationIDs' /\ operations'[i].eid = operations[i].eid
                              /\ operations'[i].payload = operations[i].payload
  BY IdentityKept
<1>3. inbox \in [Devices -> {0} \cup OperationIDs]
  BY DEF TypeOK, DeviceTypeOK
<1>4. CASE UNCHANGED <<handler, retained, inbox, executed>>
  BY <1>1, <1>2, <1>3, <1>4, Zenon DEF Origins
<1>5. ASSUME NEW d \in Devices, DeviceStep(d)
      PROVE  Origins'
  <2>1. UNCHANGED <<storeVars, handler>> /\ OperationIDs' = OperationIDs /\ operations' = operations
    BY <1>5, DeviceFrame, Zenon DEF storeVars, queueVars, OperationIDs
  <2>2. ASSUME NEW e \in Devices, inbox'[e] # 0
        PROVE  operations'[inbox'[e]].eid = e
    <3>1. CASE e # d
      BY <1>5, <2>1, <2>2, <3>1, DeviceFrame DEF Origins
    <3>2. CASE e = d
      <4>1. inbox'[d] = SelectOperation(d)
        BY <1>5, <2>2, <3>2, DeviceFrame
      <4> QED
        BY <2>1, <2>2, <3>2, <4>1, SelectedIsPending DEF TypeOK
    <3> QED
      BY <3>1, <3>2
  <2>3. ASSUME NEW e \in Devices, NEW m \in retained'[e]
        PROVE  About(m, e)'
    <3>1. CASE m \in retained[e]
      BY <1>1, <3>1, Zenon DEF Origins
    <3>2. CASE m \notin retained[e]
      <4>1. e = d /\ inbox[d] # 0 /\ m.txid \in {NoTx, operations[inbox[d]].payload.txid}
        BY <1>5, <3>2, NewAnswer, Zenon
      <4>2. inbox[d] \in OperationIDs /\ operations[inbox[d]].eid = d
        BY <1>3, <4>1, Zenon DEF Origins
      <4> QED
        BY <2>1, <4>1, <4>2 DEF About
    <3> QED
      BY <3>1, <3>2
  <2>4. ASSUME NEW t \in executed'
        PROVE  \E i \in OperationIDs' : operations'[i].payload.txid = t
    <3>1. CASE t \in executed
      BY <2>1, <3>1, Zenon DEF Origins
    <3>2. CASE t \notin executed
      <4>1. inbox[d] # 0 /\ t = operations[inbox[d]].payload.txid
        BY <1>5, <3>2, DeviceFrame, Zenon
      <4> QED
        BY <1>3, <2>1, <4>1
    <3> QED
      BY <3>1, <3>2
  <2> QED
    BY <1>1, <2>1, <2>2, <2>3, <2>4, Zenon DEF Origins
<1>6. ASSUME NEW h \in Handlers, HandlerStep(h)
      PROVE  Origins'
  <2>1. ASSUME handler'[h].pc # "idle"
        PROVE  handler'[h].eid = handler'[h].src /\ About(handler'[h].msg, handler'[h].src)
    <3>1. CASE /\ handler'[h].src \in Devices
               /\ handler'[h].eid = handler'[h].src
               /\ handler'[h].msg \in retained[handler'[h].src]
      BY <3>1, Zenon DEF Origins
    <3>2. CASE /\ handler[h] \in Provide
               /\ handler'[h].src = handler[h].src
               /\ handler'[h].msg = handler[h].msg
               /\ \/ handler'[h].eid = handler[h].eid
                  \/ \E i \in ResolvePending(handler[h].msg) : handler'[h].eid = operations[i].eid
      <4>1. handler[h].eid = handler[h].src /\ About(handler[h].msg, handler[h].src)
        BY <3>2, Zenon DEF Origins, Provide
      <4>2. \A i \in ResolvePending(handler[h].msg) : operations[i].eid = handler[h].src
        BY <4>1 DEF ResolvePending, ListPendingOperations, About, Transactions
      <4> QED
        BY <3>2, <4>1, <4>2, Zenon
    <3> QED
      BY <1>6, <2>1, <3>1, <3>2, ProvideKept, Zenon
  <2>2. /\ \A g \in Handlers : g # h => handler'[g] = handler[g]
        /\ \A d \in Devices : retained'[d] \subseteq retained[d]
        /\ UNCHANGED <<executed, inbox>>
    BY <1>6, HandlerFrame
  <2>3. \A g \in Handlers : handler'[g].pc # "idle" =>
             handler'[g].eid = handler'[g].src /\ About(handler[g].msg, handler[g].src)'
    <3> SUFFICES ASSUME NEW g \in Handlers, handler'[g].pc # "idle"
                 PROVE  handler'[g].eid = handler'[g].src /\ About(handler[g].msg, handler[g].src)'
      OBVIOUS
    <3>1. handler'[g].eid = handler'[g].src /\ About(handler'[g].msg, handler'[g].src)
      BY <2>1, <2>2, Zenon DEF Origins
    <3> QED
      BY <1>2, <3>1, Zenon DEF About
  <2> QED
    BY <1>1, <1>2, <1>3, <2>2, <2>3 DEF Origins
<1>7. ASSUME NEW c \in Clients, ApiStep(c)
      PROVE  UNCHANGED <<handler, retained, inbox, executed>>
  BY <1>7 DEF ApiStep, StartRequest, Sign, Enqueue, AbortRequest, ipaVars, euiccVars
<1>8. UNCHANGED vars => UNCHANGED <<handler, retained, inbox, executed>>
  BY DEF vars, ipaVars, euiccVars
<1> QED
  BY <1>4, <1>5, <1>6, <1>7, <1>8 DEF Next

LEMMA OriginsInit == Init => Origins
BY DEF Init, StoreInit, Origins, NoHandler

\* A result is handled for the device that sent it, also when the IPA left the EID
\* out and the handler looked for it among the pending operations of every device
\* (ResolveProvideResultEID).
THEOREM HandledForItsSender == Spec => []HandledForSender
<1>1. Origins => HandledForSender
  BY DEF Origins, HandledForSender
<1> QED
  BY <1>1, TransactionsInit, TransactionsStep, OriginsInit, OriginsStep, TypeCorrect, PTL DEF Spec

-----------------------------------------------------------------------------
(* The stored profile states                                               *)

\* An executed package of the device did this to the profile.
Commanded(d, p, command) ==
    \E i \in OperationIDs :
        /\ operations[i].eid = d
        /\ IsPackage(i)
        /\ operations[i].payload.psmo = [op |-> command, iccid |-> p]
        /\ operations[i].payload.txid \in executed

View ==
    \A d \in Devices, p \in Profiles :
        /\ profileStates[d][p] = "enabled" => Commanded(d, p, "enable")
        /\ profileStates[d][p] = "disabled" => Commanded(d, p, "disable")

LEMMA ViewGivesProperty == View => ViewFromExecuted
<1> SUFFICES ASSUME View, NEW d \in Devices, NEW p \in Profiles,
                    NEW s \in {<<"enabled", "enable">>, <<"disabled", "disable">>},
                    profileStates[d][p] = s[1]
             PROVE  Commanded(d, p, s[2])
  BY Zenon DEF ViewFromExecuted, Commanded
<1> QED
  BY DEF View

\* What Apply stores is what the executed package asked for.
LEMMA AppliedWasExecuted ==
    ASSUME TypeOK, Outcomes, View, NEW h \in Handlers, Apply(h)
    PROVE  View'
<1> DEFINE x    == handler[h]
           i    == x.op
           psmo == operations[i].payload.psmo
<1>1. /\ x.op \in OperationIDs
      /\ IsPackage(i) /\ operations[i].payload.txid \in executed
  BY Zenon DEF Apply, Outcomes, Verdict, TypeOK, ThreadTypeOK
<1>2. operations[i] \in Operation /\ psmo \in PSMO \cup {NoPSMO}
  BY <1>1, Zenon DEF TypeOK, StoreTypeOK, Operation, Payload
<1>3. UNCHANGED <<operations, executed>> /\ OperationIDs' = OperationIDs
  BY Zenon DEF Apply, queueVars, euiccVars, OperationIDs
<1>4. profileStates \in [Devices -> [Profiles -> {"none", "enabled", "disabled"}]]
  BY Zenon DEF TypeOK, StoreTypeOK
<1>5. operations[i].eid \in Devices
  BY <1>2, Zenon DEF Operation
<1>6. PICK st \in {"none", "enabled", "disabled"} :
         /\ profileStates' = [profileStates EXCEPT ![operations[i].eid][psmo.iccid] = st]
         /\ st = "enabled" => psmo.op = "enable"
         /\ st = "disabled" => psmo.op = "disable"
         /\ psmo.op \in {"enable", "disable", "delete"}
  BY Zenon DEF Apply, SetProfileState, DeleteProfileState
<1>7. psmo \in PSMO
  <2>1. NoPSMO.op = "none"
    BY DEF NoPSMO
  <2>2. psmo # NoPSMO
    BY <1>6, <2>1, Zenon
  <2> QED
    BY <1>2, <2>2, Zenon
<1>8. \A o : psmo.op = o => psmo = [op |-> o, iccid |-> psmo.iccid]
  BY <1>7, Zenon DEF PSMO
<1> HIDE DEF psmo, i, x
<1> SUFFICES ASSUME NEW d \in Devices, NEW p \in Profiles,
                    NEW name \in {"enabled", "disabled"}, profileStates'[d][p] = name
             PROVE  Commanded(d, p, IF name = "enabled" THEN "enable" ELSE "disable")
  <2>1. \A d, p, command : Commanded(d, p, command)' <=> Commanded(d, p, command)
    BY <1>3, Zenon DEF Commanded, IsPackage
  <2> QED
    BY <2>1, Zenon DEF View
<1> DEFINE command == IF name = "enabled" THEN "enable" ELSE "disable"
<1>9. CASE d = operations[i].eid /\ p = psmo.iccid
  <2>1. profileStates'[d][p] = st
    BY <1>4, <1>5, <1>6, <1>7, <1>9, Zenon DEF PSMO
  <2>2. psmo.op = command
    BY <1>6, <2>1, Zenon
  <2>3. operations[i].payload.psmo = [op |-> command, iccid |-> p]
    BY <1>8, <1>9, <2>2, Zenon DEF psmo
  <2>4. i \in OperationIDs
    BY <1>1, Zenon DEF i
  <2> QED
    BY <1>1, <1>9, <2>3, <2>4, Zenon DEF Commanded
<1>10. CASE ~(d = operations[i].eid /\ p = psmo.iccid)
  <2>1. profileStates'[d][p] = profileStates[d][p]
    BY <1>4, <1>5, <1>6, <1>10, Zenon
  <2> QED
    BY <2>1, Zenon DEF View
<1> QED
  BY <1>9, <1>10, Zenon

\* Only Apply changes the stored states.
LEMMA ViewFrame ==
    ASSUME [Next]_vars, ~ \E h \in Handlers : Apply(h)
    PROVE  profileStates' = profileStates
<1>1. ASSUME NEW c \in Clients, ApiStep(c)
      PROVE  profileStates' = profileStates
  BY <1>1 DEF ApiStep, StartRequest, Sign, Enqueue, AbortRequest, storeVars
<1>2. ASSUME NEW d \in Devices, DeviceStep(d)
      PROVE  profileStates' = profileStates
  BY ZenonT(30), <1>2
     DEF DeviceStep, Poll, Execute, RefuseReplay, RefuseUnsigned, Download, RestartIPA, storeVars
<1>3. ASSUME NEW h \in Handlers, HandlerStep(h)
      PROVE  profileStates' = profileStates
  BY ZenonT(30), <1>3
     DEF HandlerStep, Upload, UploadMessage, Resolve, Match, Reject, Record, Respond,
         AbortHandler, storeVars
<1>4. CASE UNCHANGED vars
  BY <1>4 DEF vars, storeVars
<1> QED
  BY <1>1, <1>2, <1>3, <1>4 DEF Next

LEMMA ViewStep == TypeOK /\ Outcomes /\ View /\ [Next]_vars => View'
<1> SUFFICES ASSUME TypeOK, Outcomes, View, [Next]_vars
             PROVE  View'
  OBVIOUS
<1>1. CASE \E h \in Handlers : Apply(h)
  BY <1>1, AppliedWasExecuted
<1>2. CASE ~ \E h \in Handlers : Apply(h)
  <2>1. profileStates' = profileStates
    BY <1>2, ViewFrame
  <2>2. \A i \in OperationIDs : i \in OperationIDs' /\ operations'[i].eid = operations[i].eid
                                /\ operations'[i].payload = operations[i].payload
    BY IdentityKept
  <2>3. \A d, p, command : Commanded(d, p, command) => Commanded(d, p, command)'
    BY <2>2, ExecutedGrows DEF Commanded, IsPackage
  <2> QED
    BY <2>1, <2>3, Zenon DEF View
<1> QED
  BY <1>1, <1>2

LEMMA OutcomesInit == Init => Outcomes
BY DEF Init, StoreInit, Outcomes, Genuine, Verdict, DoneWasExecuted, NoHandler, OperationIDs

\* A stored profile state is one that an executed package of that very device left,
\* in both verification modes: no failed, refused or foreign result reaches the
\* view (ApplyPackageResultState).
THEOREM ViewIsFromExecuted == Spec => []ViewFromExecuted
<1>1. Init => View
  BY DEF Init, StoreInit, View
<1> QED
  BY <1>1, ViewGivesProperty, ViewStep, OutcomesInit, OutcomesStep, TypeCorrect, PTL DEF Spec

-----------------------------------------------------------------------------
(* The abstract life cycle                                                 *)

\* A new operation is accepted.
LEMMA EnqueueAccepts ==
    ASSUME TypeOK, Transactions, Origins, NEW c \in Clients, Enqueue(c)
    PROVE  Lifecycle!Accept
<1> DEFINE n == nextOperationID
<1>1. /\ OperationIDs' = OperationIDs \cup {n}
      /\ \A i \in OperationIDs : i < n /\ operations'[i] = operations[i]
      /\ operations'[n].status = "pending"
      /\ operations'[n].payload = request[c].payload
      /\ executed' = executed
  BY EnqueueEffect, Zenon
<1>2. request[c].payload.txid \notin executed
  BY DEF Enqueue, Busy, Transactions, Origins
<1>3. n \notin OperationIDs
  BY DEF OperationIDs, TypeOK, StoreTypeOK
<1> HIDE DEF n
<1>4. {i \in OperationIDs' : operations'[i].payload.txid \in executed'}
      = {i \in OperationIDs : operations[i].payload.txid \in executed}
  BY <1>1, <1>2, Zenon
<1>5. [i \in OperationIDs' |-> operations'[i].status]
      = [i \in OperationIDs' |->
           IF i \in OperationIDs THEN operations[i].status ELSE "pending"]
  BY <1>1, <1>3, Zenon
<1> QED
  BY <1>1, <1>4, <1>5, Zenon DEF Lifecycle!Accept

\* Recording a result reports an outcome, and done only for what was carried out.
LEMMA RecordReports ==
    ASSUME TypeOK, Outcomes, NEW h \in Handlers, Record(h)
    PROVE  Lifecycle!Report
<1> DEFINE x == handler[h]
           o == normalizeResultStatus(x.status)
<1>1. /\ OperationIDs' = OperationIDs
      /\ x \in Provide
      /\ x.op \in OperationIDs
      /\ \A i \in OperationIDs :
           /\ operations'[i].payload = operations[i].payload
           /\ operations'[i].status = IF i = x.op THEN o ELSE operations[i].status
  BY RecordEffect, Zenon
<1>2. executed' = executed
  BY DEF Record, euiccVars
<1>3. x.status \in {"done", "failed"} /\ (x.status = "done" => operations[x.op].payload.txid \in executed)
  BY <1>1 DEF Record, Outcomes, Verdict, Provide, Statuses
<1>4. o \in {"done", "failed"} /\ (o = "done" => operations[x.op].payload.txid \in executed)
  BY <1>3, Zenon DEF normalizeResultStatus
<1> HIDE DEF o, x
<1>5. {i \in OperationIDs' : operations'[i].payload.txid \in executed'}
      = {i \in OperationIDs : operations[i].payload.txid \in executed}
  BY <1>1, <1>2, Zenon
<1>6. [i \in OperationIDs' |-> operations'[i].status]
      = [[i \in OperationIDs |-> operations[i].status] EXCEPT ![x.op] = o]
  BY <1>1, Zenon
<1> QED
  BY <1>1, <1>4, <1>5, <1>6, Zenon DEF Lifecycle!Report

\* A step of a device carries out at most the one operation it holds.
LEMMA DeviceCarriesOut ==
    ASSUME TypeOK, Transactions, NEW d \in Devices, DeviceStep(d), executed \subseteq executed',
           executed' # executed
    PROVE  Lifecycle!CarryOut
<1> DEFINE i == inbox[d]
<1>1. UNCHANGED <<operations, nextOperationID>> /\ OperationIDs' = OperationIDs
  BY DeviceFrame, Zenon DEF storeVars, queueVars, OperationIDs
<1>2. \A t \in executed' \ executed : i # 0 /\ t = operations[i].payload.txid
  BY DeviceFrame, Zenon
<1>3. /\ i \in OperationIDs
      /\ operations[i].payload.txid \notin executed
      /\ executed' = executed \cup {operations[i].payload.txid}
  <2>1. PICK t : t \in executed' \ executed
    OBVIOUS
  <2>2. i # 0 /\ t = operations[i].payload.txid
    BY <1>2, <2>1
  <2>3. executed' = executed \cup {t}
    BY <1>2, <2>1, <2>2
  <2> QED
    BY <2>1, <2>2, <2>3, Zenon DEF TypeOK, DeviceTypeOK
<1> HIDE DEF i
<1>4. {j \in OperationIDs' : operations'[j].payload.txid \in executed'}
      = {j \in OperationIDs : operations[j].payload.txid \in executed} \cup {i}
  BY <1>1, <1>3 DEF Transactions
<1>5. [j \in OperationIDs' |-> operations'[j].status] = [j \in OperationIDs |-> operations[j].status]
  BY <1>1
<1> QED
  BY <1>1, <1>3, <1>4, <1>5, Zenon DEF Lifecycle!CarryOut

\* Every step of the queue is a step of the abstract specification or none.
LEMMA LifecycleStep ==
    TypeOK /\ Transactions /\ Origins /\ Outcomes /\ [Next]_vars
        => [Lifecycle!Next]_<<[i \in OperationIDs |-> operations[i].status],
                              {i \in OperationIDs : operations[i].payload.txid \in executed}>>
<1> SUFFICES ASSUME TypeOK, Transactions, Origins, Outcomes, [Next]_vars
             PROVE  [Lifecycle!Next]_<<[i \in OperationIDs |-> operations[i].status],
                              {i \in OperationIDs : operations[i].payload.txid \in executed}>>
  BY Zenon
<1>1. CASE \E c \in Clients : Enqueue(c)
  BY <1>1, EnqueueAccepts, Zenon DEF Lifecycle!Next
<1>2. CASE \E h \in Handlers : Record(h)
  BY <1>2, RecordReports, Zenon DEF Lifecycle!Next
<1>3. CASE executed' # executed
  <2>1. \A c \in Clients : ~ApiStep(c)
    BY <1>3 DEF ApiStep, StartRequest, Sign, Enqueue, AbortRequest, euiccVars
  <2>2. \A h \in Handlers : ~HandlerStep(h)
    BY <1>3, HandlerFrame, Zenon
  <2>3. ~ UNCHANGED vars
    BY <1>3 DEF vars, euiccVars
  <2>4. PICK d \in Devices : DeviceStep(d)
    BY <2>1, <2>2, <2>3 DEF Next
  <2> QED
    BY <1>3, <2>4, ExecutedGrows, DeviceCarriesOut, Zenon DEF Lifecycle!Next
<1>4. CASE UNCHANGED <<nextSequence, nextOperationID, operations, results>> /\ executed' = executed
  <2>1. UNCHANGED <<nextOperationID, operations, executed>>
    BY <1>4
  <2>2. OperationIDs' = OperationIDs
    BY <2>1 DEF OperationIDs
  <2> QED
    BY <2>1, <2>2
<1> QED
  BY <1>1, <1>2, <1>3, <1>4, QueueStep, Zenon

\* The queue implements the life cycle that callers of the REST API are promised:
\* an operation is accepted as pending, the device carries it out at most once, it
\* is reported done only after that, and it never becomes pending again or goes
\* away.
THEOREM QueueImplementsLifecycle == Spec => ImplementsLifecycle
<1>1. Init => Lifecycle!Init
  BY DEF Init, StoreInit, OperationIDs, Lifecycle!Init
<1> QED
  BY <1>1, LifecycleStep, TransactionsInit, TransactionsStep, OriginsInit, OriginsStep,
     OutcomesInit, OutcomesStep, TypeCorrect, PTL DEF Spec, ImplementsLifecycle, Lifecycle!Spec

LEMMA NumberingInit == Init => Numbering
BY DEF Init, StoreInit, Numbering, SequenceOrder, OperationIDs

-----------------------------------------------------------------------------
(* The order of delivery                                                   *)

Pending(d) == {i \in OperationIDs : operations[i].eid = d /\ operations[i].status = "pending"}

Earlier(S, i) == {j \in S : operations[j].seq < operations[i].seq}

LEMMA EarlierFinite ==
    ASSUME StoreTypeOK, NEW S \in SUBSET OperationIDs, NEW i
    PROVE  IsFiniteSet(Earlier(S, i)) /\ Cardinality(Earlier(S, i)) \in Nat
<1>1. IsFiniteSet(OperationIDs)
  BY FS_Interval DEF StoreTypeOK, OperationIDs
<1>2. Earlier(S, i) \in SUBSET OperationIDs
  BY DEF Earlier
<1>3. IsFiniteSet(Earlier(S, i))
  BY <1>1, <1>2, FS_Subset
<1> QED
  BY <1>3, FS_CardinalityType

\* What comes before a member of the window is in the window.
LEMMA CutDownward ==
    ASSUME StoreTypeOK, NEW S \in SUBSET OperationIDs, NEW limit \in Nat,
           NEW i \in Cut(S, limit), NEW j \in S, operations[j].seq < operations[i].seq
    PROVE  j \in Cut(S, limit)
<1>1. i \in S /\ Cardinality(Earlier(S, i)) < limit
  BY DEF Cut, Earlier
<1>2. \A k \in OperationIDs : operations[k].seq \in Nat
  BY Zenon DEF StoreTypeOK, Operation
<1>3. Earlier(S, j) \in SUBSET Earlier(S, i)
  BY <1>1, <1>2 DEF Earlier
<1>4. Cardinality(Earlier(S, j)) <= Cardinality(Earlier(S, i))
  BY <1>3, EarlierFinite, FS_Subset, Zenon
<1>5. Cardinality(Earlier(S, j)) < limit
  BY <1>1, <1>4, EarlierFinite
<1> QED
  BY <1>5, Zenon DEF Cut, Earlier

\* A selected package is the first pending package, a selected trigger is in the
\* window of the poll.
LEMMA SelectedIsFirst ==
    ASSUME StoreTypeOK, NEW d, SelectOperation(d) # 0
    PROVE  /\ SelectOperation(d) \in FetchPendingOperations(d, PollLimit)
           /\ IsPackage(SelectOperation(d)) =>
                \A j \in Pending(d) :
                    IsPackage(j) => operations[SelectOperation(d)].seq <= operations[j].seq
<1> DEFINE window   == FetchPendingOperations(d, PollLimit)
           packages == {i \in window : IsPackage(i)}
<1>1. window = Cut(Pending(d), PollLimit) /\ window \subseteq Pending(d)
  BY Zenon DEF FetchPendingOperations, Cut, Pending
<1>2. Pending(d) \in SUBSET OperationIDs /\ PollLimit \in Nat
  BY LimitsAssumption DEF Pending
<1>3. \A k \in OperationIDs : operations[k].seq \in Nat
  BY Zenon DEF StoreTypeOK, Operation
<1>4. CASE packages # {}
  <2>1. SelectOperation(d) = First(packages)
    BY <1>4, Zenon DEF SelectOperation
  <2>2. packages \in SUBSET OperationIDs
    BY <1>1, <1>2
  <2>3. First(packages) \in packages /\ \A j \in packages : operations[First(packages)].seq <= operations[j].seq
    BY <1>4, <2>2, FirstIsFirst, Zenon
  <2> DEFINE i == First(packages)
  <2>4. ASSUME NEW j \in Pending(d), IsPackage(j)
        PROVE  operations[i].seq <= operations[j].seq
    <3>1. CASE j \in window
      BY <2>3, <2>4, <3>1, Zenon
    <3>2. CASE j \notin window
      <4>1. i \in Cut(Pending(d), PollLimit)
        BY <1>1, <2>3, Zenon
      <4> HIDE DEF i, window
      <4>2. ~(operations[j].seq < operations[i].seq)
        BY <1>1, <1>2, <3>2, <4>1, CutDownward, Zenon
      <4>3. i \in OperationIDs /\ j \in OperationIDs
        BY <1>2, <4>1, CutIsSubset
      <4> QED
        BY <1>3, <4>2, <4>3
    <3> QED
      BY <3>1, <3>2, Zenon
  <2> QED
    BY <2>1, <2>3, <2>4, Zenon
<1>5. CASE packages = {}
  <2>1. window # {} /\ SelectOperation(d) = First(window)
    BY <1>5, Zenon DEF SelectOperation
  <2>2. First(window) \in window
    BY <1>1, <1>2, <2>1, FirstIsFirst, Zenon
  <2> QED
    BY <1>5, <2>1, <2>2, Zenon
<1> QED
  BY <1>4, <1>5, Zenon

\* An operation that is pending was pending, or is new and comes after all others
\* of its device.
LEMMA NewlyPending ==
    ASSUME TypeOK, Numbering, [Next]_vars,
           NEW j \in OperationIDs', operations'[j].status = "pending"
    PROVE  \/ j \in OperationIDs /\ operations[j].status = "pending"
           \/ /\ j \notin OperationIDs
              /\ \A i \in OperationIDs : operations[i].eid = operations'[j].eid =>
                                            operations[i].seq < operations'[j].seq
<1>1. CASE UNCHANGED <<nextSequence, nextOperationID, operations, results>>
  BY <1>1, Zenon DEF OperationIDs
<1>2. ASSUME NEW c \in Clients, Enqueue(c)
      PROVE  \/ j \in OperationIDs /\ operations[j].status = "pending"
             \/ /\ j \notin OperationIDs
                /\ \A i \in OperationIDs : operations[i].eid = operations'[j].eid =>
                                              operations[i].seq < operations'[j].seq
  <2>1. nextOperationID \notin OperationIDs
    BY DEF OperationIDs, TypeOK, StoreTypeOK
  <2> QED
    BY <1>2, <2>1, EnqueueEffect DEF Numbering
<1>3. ASSUME NEW h \in Handlers, Record(h)
      PROVE  j \in OperationIDs /\ operations[j].status = "pending"
  BY <1>3, RecordEffect, Zenon DEF normalizeResultStatus
<1> QED
  BY <1>1, <1>2, <1>3, QueueStep, Zenon

\* Only its own steps change what a device holds.
LEMMA InboxFrame ==
    ASSUME TypeOK, [Next]_vars, NEW d \in Devices
    PROVE  \/ inbox'[d] \in {0, inbox[d]}
           \/ Poll(d) /\ inbox'[d] = SelectOperation(d)
<1>1. ASSUME NEW c \in Clients, ApiStep(c)
      PROVE  inbox' = inbox
  BY <1>1 DEF ApiStep, StartRequest, Sign, Enqueue, AbortRequest, ipaVars
<1>2. UNCHANGED vars => inbox' = inbox
  BY DEF vars, ipaVars
<1>3. ASSUME NEW e \in Devices, DeviceStep(e)
      PROVE  \/ inbox'[d] \in {0, inbox[d]}
             \/ Poll(d) /\ inbox'[d] = SelectOperation(d)
  BY <1>3, DeviceFrame, Zenon
<1> QED
  BY <1>1, <1>2, <1>3, HandlerFrame, Zenon DEF Next

LEMMA OrderStep ==
    TypeOK /\ Numbering /\ Origins /\ NeverOvertaken /\ [Next]_vars => NeverOvertaken'
<1> SUFFICES ASSUME TypeOK, Numbering, Origins, NeverOvertaken, [Next]_vars,
                    NEW d \in Devices, NEW j \in OperationIDs', inbox'[d] # 0,
                    IsPackage(inbox[d])', operations'[j].eid = d,
                    operations'[j].status = "pending", IsPackage(j)'
             PROVE  operations'[inbox'[d]].seq <= operations'[j].seq
  BY Zenon DEF NeverOvertaken
<1>1. CASE inbox'[d] = inbox[d]
  <2> DEFINE i == inbox[d]
  <2>1. /\ i \in OperationIDs /\ operations[i].eid = d /\ operations[i].seq \in Nat
    BY <1>1, Zenon DEF Origins, TypeOK, DeviceTypeOK, StoreTypeOK, Operation
  <2>2. /\ operations'[i].seq = operations[i].seq
        /\ operations'[i].payload = operations[i].payload
    BY <2>1, IdentityKept, Zenon
  <2>3. CASE j \in OperationIDs /\ operations[j].status = "pending"
    <3>1. /\ operations'[j].seq = operations[j].seq
          /\ operations'[j].eid = operations[j].eid
          /\ operations'[j].payload = operations[j].payload
      BY <2>3, IdentityKept, Zenon
    <3> QED
      BY <1>1, <2>2, <2>3, <3>1 DEF NeverOvertaken, IsPackage
  <2>4. CASE operations[i].seq < operations'[j].seq
    <3>1. operations'[j].seq \in Nat
      BY TypeStep, Zenon DEF TypeOK, StoreTypeOK, Operation
    <3> QED
      BY <1>1, <2>1, <2>2, <2>4, <3>1
  <2> QED
    BY <2>1, <2>3, <2>4, NewlyPending, Zenon
<1>2. CASE Poll(d) /\ inbox'[d] = SelectOperation(d)
  <2>1. UNCHANGED <<operations, nextOperationID>> /\ OperationIDs' = OperationIDs
    BY <1>2, Zenon DEF Poll, storeVars, queueVars, OperationIDs
  <2>2. IsPackage(SelectOperation(d)) /\ IsPackage(j) /\ j \in Pending(d)
    BY <1>2, <2>1, Zenon DEF IsPackage, Pending
  <2> QED
    BY <1>2, <2>1, <2>2, SelectedIsFirst, Zenon DEF TypeOK
<1> QED
  BY <1>1, <1>2, InboxFrame, Zenon

\* While a device holds a package, no older package of that device waits in the
\* queue, whatever the limit of a poll, and whatever is queued, recorded or lost
\* meanwhile (selectOperationForGetEimPackage).
THEOREM PackagesInOrder == Spec => []NeverOvertaken
<1>1. Init => NeverOvertaken
  BY Zenon DEF Init, NeverOvertaken
<1> QED
  BY <1>1, NumberingInit, OrderStep, NumberingStep, TransactionsInit, TransactionsStep, OriginsInit,
     OriginsStep, TypeCorrect, PTL DEF Spec

LEMMA WindowStep ==
    TypeOK /\ Numbering /\ Origins /\ TriggerStaysMatchable /\ [Next]_vars
        => TriggerStaysMatchable'
<1> SUFFICES ASSUME TypeOK, Numbering, Origins, TriggerStaysMatchable, [Next]_vars,
                    NEW d \in Devices, inbox'[d] # 0, ~IsPackage(inbox[d])',
                    operations'[inbox'[d]].status = "pending"
             PROVE  inbox'[d] \in FetchPendingOperations(d, PollLimit)'
  BY Zenon DEF TriggerStaysMatchable
<1>1. CASE inbox'[d] = inbox[d]
  <2> DEFINE i == inbox[d]
  <2>1. i \in OperationIDs /\ operations[i].eid = d
    BY <1>1, Zenon DEF Origins, TypeOK, DeviceTypeOK
  <2>2. /\ i \in OperationIDs'
        /\ operations'[i].eid = d
        /\ operations'[i].seq = operations[i].seq
        /\ operations'[i].payload = operations[i].payload
    BY <2>1, IdentityKept, Zenon
  <2>3. operations[i].status = "pending"
    BY <1>1, <2>1, <2>2, NewlyPending, Zenon
  <2>4. i \in FetchPendingOperations(d, PollLimit)
    BY <1>1, <2>2, <2>3, Zenon DEF TriggerStaysMatchable, IsPackage
  <2>5. Cardinality(Earlier(Pending(d), i)) < PollLimit
    BY <2>4, Zenon DEF FetchPendingOperations, Cut, Pending, Earlier
  <2>6. ASSUME NEW j \in Earlier(Pending(d), i)'
        PROVE  j \in Earlier(Pending(d), i)
    <3>1. /\ j \in OperationIDs' /\ operations'[j].eid = d
          /\ operations'[j].status = "pending" /\ operations'[j].seq < operations[i].seq
      BY <1>1, <2>2, <2>6, Zenon DEF Earlier, Pending
    <3>2. operations'[j].seq \in Nat /\ operations[i].seq \in Nat
      BY <2>1, <3>1, TypeStep, Zenon DEF TypeOK, StoreTypeOK, Operation
    <3>3. j \in OperationIDs /\ operations[j].status = "pending"
      BY <2>1, <3>1, <3>2, NewlyPending
    <3>4. operations'[j].seq = operations[j].seq /\ operations'[j].eid = operations[j].eid
      BY <3>3, IdentityKept, Zenon
    <3> QED
      BY <3>1, <3>3, <3>4, Zenon DEF Earlier, Pending
  <2>7. Cardinality(Earlier(Pending(d), i)') < PollLimit
    <3> DEFINE now  == Earlier(Pending(d), i)
               then == Earlier(Pending(d), i)'
    <3>1. Pending(d) \in SUBSET OperationIDs
      BY Zenon DEF Pending
    <3>2. IsFiniteSet(now)
      BY <3>1, EarlierFinite, Zenon DEF TypeOK
    <3>3. then \in SUBSET now
      BY <2>6, Zenon
    <3> HIDE DEF now, then
    <3>4. IsFiniteSet(then) /\ Cardinality(then) <= Cardinality(now)
      BY <3>2, <3>3, FS_Subset, Zenon
    <3>5. Cardinality(now) \in Nat /\ Cardinality(then) \in Nat
      BY <3>2, <3>4, FS_CardinalityType, Zenon
    <3> QED
      BY <2>5, <3>4, <3>5, LimitsAssumption DEF now, then
  <2>8. inbox'[d] \in Pending(d)'
    BY <1>1, <2>2, Zenon DEF Pending
  <2> QED
    BY <2>7, <2>8, Zenon DEF FetchPendingOperations, Cut, Pending, Earlier
<1>2. CASE Poll(d) /\ inbox'[d] = SelectOperation(d)
  <2>1. UNCHANGED <<operations, nextOperationID>>
    BY <1>2, Zenon DEF Poll, storeVars, queueVars
  <2>2. FetchPendingOperations(d, PollLimit)' = FetchPendingOperations(d, PollLimit)
    BY <2>1, Zenon DEF FetchPendingOperations, Cut, OperationIDs
  <2> QED
    BY <1>2, <2>2, SelectedIsFirst, Zenon DEF TypeOK
<1> QED
  BY <1>1, <1>2, InboxFrame, Zenon

\* A trigger that a device fetched stays, until its result is recorded, inside the
\* window of pending operations in which the result is matched, however many
\* operations are queued behind it (pendingProfileDownloadTrigger).
THEOREM TriggersStayMatchable == Spec => []TriggerStaysMatchable
<1>1. Init => TriggerStaysMatchable
  BY Zenon DEF Init, TriggerStaysMatchable
<1> QED
  BY <1>1, NumberingInit, WindowStep, NumberingStep, TransactionsInit, TransactionsStep, OriginsInit,
     OriginsStep, TypeCorrect, PTL DEF Spec

-----------------------------------------------------------------------------
(* Stored results                                                          *)

\* A verified result names the transaction of the operation it is taken to be
\* about, or none.
LEMMA VerifiedNames ==
    ASSUME ~AllowUnverified, StoreTypeOK, NEW d, NEW msg \in Message,
           MatchOperation(d, msg) # 0, Verified(MatchOperation(d, msg), msg)
    PROVE  msg.txid \in {NoTx, operations[MatchOperation(d, msg)].payload.txid}
<1> DEFINE i == MatchOperation(d, msg)
<1>1. CASE msg.kind = "trigger"
  BY <1>1, MatchIsOwn
<1>2. CASE msg.kind = "responseError"
  <2>1. CASE msg.txid # NoTx
    <3>1. i = Correlate(d, FALSE, 0, msg.txid)
      BY <1>2, <2>1 DEF MatchOperation
    <3>2. Correlate(d, FALSE, 0, msg.txid) # 0
      BY <3>1, Zenon
    <3>3. Matches(Correlate(d, FALSE, 0, msg.txid), 0, msg.txid)
      BY <3>2, CorrelateMatches, Zenon
    <3> QED
      BY <2>1, <3>1, <3>3, Zenon DEF Matches
  <2> QED
    BY <2>1, Zenon
<1>3. CASE msg.kind \notin {"trigger", "responseError"}
  BY <1>3, Zenon DEF Verified
<1> QED
  BY <1>1, <1>2, <1>3, Zenon

\* A row belongs to an operation, a handler is about to record a result for the
\* operation the result names, and finished operations have their rows.
Rows ==
    /\ \A k \in DOMAIN results : \E i \in OperationIDs : k = ResultKey(i)
    /\ \A h \in Handlers : handler[h].pc = "record" =>
         handler[h].msg.txid \in {NoTx, operations[handler[h].op].payload.txid}
    /\ ResultRowsAgree

\* A handler records what it matched.
LEMMA RecordsVerified ==
    ASSUME ~AllowUnverified, TypeOK, NEW h \in Handlers, HandlerStep(h),
           handler'[h].pc = "record"
    PROVE  /\ UNCHANGED operations
           /\ handler'[h].msg.txid \in {NoTx, operations[handler'[h].op].payload.txid}
<1> DEFINE x == handler[h]
<1>1. handler \in [Handlers -> {NoHandler} \cup Provide]
  BY Zenon DEF TypeOK, ThreadTypeOK
<1>2. CASE Match(h)
  <2> DEFINE i == MatchOperation(x.eid, x.msg)
  <2>1. x \in Provide
    BY <1>2, ProvideType DEF Match, TypeOK
  <2>2. /\ i # 0 /\ Verified(i, x.msg)
        /\ handler' = [handler EXCEPT ![h].pc = "record", ![h].op = i,
                                      ![h].status = ResultStatus(x.msg)]
        /\ UNCHANGED operations
    BY <1>1, <1>2 DEF Match, Reject, NoHandler, storeVars, queueVars
  <2>3. handler'[h].msg = x.msg /\ handler'[h].op = i
    BY <1>1, <2>1, <2>2 DEF Provide
  <2>4. x.msg \in Message
    BY <2>1, Zenon DEF Provide
  <2> QED
    BY <2>2, <2>3, <2>4, VerifiedNames, Zenon DEF TypeOK
<1>3. CASE Resolve(h) \/ Record(h) \/ Apply(h)
  <2>1. x \in Provide
    BY <1>3, ProvideType, Zenon DEF Resolve, Record, Apply, TypeOK
  <2>2. handler'[h].pc \in {"idle", "match", "apply", "respond"}
    BY <1>1, <1>3, <2>1 DEF Resolve, Record, Apply, Reject, NoHandler, Provide, AfterRecord
  <2> QED
    BY <2>2, Zenon
<1>4. CASE Upload(h) \/ Respond(h) \/ AbortHandler(h)
  BY <1>1, <1>4 DEF Upload, UploadMessage, Respond, AbortHandler, NoHandler
<1> QED
  BY <1>2, <1>3, <1>4, Zenon DEF HandlerStep

\* The number is what tells the rows of a device apart.
LEMMA KeysDiffer ==
    ASSUME TypeOK, SequenceOrder, NEW i \in OperationIDs, NEW j \in OperationIDs,
           ResultKey(i) = ResultKey(j)
    PROVE  i = j
<1>1. operations[i].eid = operations[j].eid /\ operations[i].seq = operations[j].seq
  BY DEF ResultKey
<1>2. i \in Int /\ j \in Int /\ operations[i].seq \in Nat
  BY DEF OperationIDs, TypeOK, StoreTypeOK, Operation
<1> QED
  BY <1>1, <1>2 DEF SequenceOrder

LEMMA HandlersRecording ==
    ASSUME ~AllowUnverified, TypeOK, Rows, [Next]_vars, NEW h \in Handlers,
           handler'[h].pc = "record"
    PROVE  handler'[h].msg.txid \in {NoTx, operations'[handler'[h].op].payload.txid}
<1>1. CASE handler'[h] = handler[h]
  <2>1. handler[h].op \in OperationIDs
    BY <1>1, Zenon DEF TypeOK, ThreadTypeOK
  <2> QED
    BY <1>1, <2>1, IdentityKept, Zenon DEF Rows
<1>2. CASE HandlerStep(h)
  BY <1>2, RecordsVerified, Zenon
<1>3. ASSUME NEW g \in Handlers, HandlerStep(g), g # h
      PROVE  handler'[h] = handler[h]
  BY <1>3, HandlerFrame, Zenon
<1>4. ASSUME NEW d \in Devices, DeviceStep(d)
      PROVE  handler'[h] = handler[h]
  BY <1>4, DeviceFrame, Zenon
<1>5. ASSUME NEW c \in Clients, ApiStep(c)
      PROVE  handler'[h] = handler[h]
  BY <1>5 DEF ApiStep, StartRequest, Sign, Enqueue, AbortRequest
<1>6. UNCHANGED vars => handler'[h] = handler[h]
  BY Zenon DEF vars
<1> QED
  BY <1>1, <1>2, <1>3, <1>4, <1>5, <1>6, Zenon DEF Next

LEMMA RowsStep ==
    ASSUME ~AllowUnverified
    PROVE  TypeOK /\ Numbering /\ Outcomes /\ Rows /\ [Next]_vars => Rows'
<1> SUFFICES ASSUME TypeOK, Numbering, Outcomes, Rows, [Next]_vars
             PROVE  Rows'
  OBVIOUS
<1>1. \A h \in Handlers : handler'[h].pc = "record" =>
         handler'[h].msg.txid \in {NoTx, operations'[handler'[h].op].payload.txid}
  BY HandlersRecording, Zenon
<1>2. CASE UNCHANGED <<nextSequence, nextOperationID, operations, results>>
  <2>1. \A i : ResultKey(i)' = ResultKey(i)
    BY <1>2 DEF ResultKey
  <2>2. ResultRowsAgree'
    BY <1>2, <2>1, Zenon DEF Rows, ResultRowsAgree, OperationIDs
  <2> QED
    BY <1>1, <1>2, <2>1, <2>2, Zenon DEF Rows, OperationIDs
<1>3. ASSUME NEW c \in Clients, Enqueue(c)
      PROVE  Rows'
  <2> DEFINE n == nextOperationID
             e == request[c].eid
  <2>1. /\ OperationIDs' = OperationIDs \cup {n}
        /\ \A i \in OperationIDs : operations'[i] = operations[i]
        /\ operations'[n].eid = e /\ operations'[n].seq = nextSequence[e]
        /\ operations'[n].status = "pending"
    BY <1>3, EnqueueEffect, Zenon
  <2>2. results' = results
    BY <1>3, Zenon DEF Enqueue, EnqueueOperation
  <2>3. \A i \in OperationIDs : ResultKey(i)' = ResultKey(i)
    BY <2>1, Zenon DEF ResultKey
  <2>4. <<e, nextSequence[e]>> \notin DOMAIN results
    <3>1. e \in Devices /\ nextSequence[e] \in Nat
      BY <1>3, EnqueueEffect, Zenon DEF Request, TypeOK, StoreTypeOK
    <3>2. \A i \in OperationIDs : operations[i].seq \in Nat
      BY Zenon DEF TypeOK, StoreTypeOK, Operation
    <3>3. \A i \in OperationIDs : ResultKey(i) # <<e, nextSequence[e]>>
      BY <3>1, <3>2 DEF ResultKey, Numbering
    <3> QED
      BY <3>3, Zenon DEF Rows
  <2> HIDE DEF n, e
  <2>5. ResultRowsAgree'
    <3>1. \A i \in OperationIDs' : i = n => ResultKey(i)' \notin DOMAIN results
      BY <2>1, <2>4, Zenon DEF ResultKey
    <3> QED
      BY <2>1, <2>2, <2>3, <3>1 DEF Rows, ResultRowsAgree
  <2> QED
    BY <1>1, <2>1, <2>2, <2>3, <2>5, Zenon DEF Rows
<1>4. ASSUME NEW h \in Handlers, Record(h)
      PROVE  Rows'
  <2> DEFINE x == handler[h]
             o == normalizeResultStatus(x.status)
             row == [status |-> o, msg |-> x.msg]
  <2>1. /\ OperationIDs' = OperationIDs
        /\ x.op \in OperationIDs
        /\ \A i \in OperationIDs :
             /\ operations'[i].eid = operations[i].eid
             /\ operations'[i].seq = operations[i].seq
             /\ operations'[i].payload = operations[i].payload
             /\ operations'[i].status = IF i = x.op THEN o ELSE operations[i].status
    BY <1>4, RecordEffect, Zenon
  <2>2. \A i \in OperationIDs : ResultKey(i)' = ResultKey(i)
    BY <2>1, Zenon DEF ResultKey
  <2>3. results' = [k \in DOMAIN results \cup {ResultKey(x.op)} |->
                      IF k = ResultKey(x.op) THEN row ELSE results[k]]
    BY <1>4 DEF Record, RecordEUICCPackageResult
  <2>4. x.msg.txid \in {NoTx, operations[x.op].payload.txid}
    BY <1>4, Zenon DEF Record, Rows
  <2>5. o # "pending" /\ row.status = o /\ row.msg = x.msg
    BY Zenon DEF normalizeResultStatus
  <2> HIDE DEF x, o, row
  <2>6. \A k \in DOMAIN results' : \E i \in OperationIDs' : k = ResultKey(i)'
    BY <2>1, <2>2, <2>3 DEF Rows
  <2>7. ASSUME NEW i \in OperationIDs
        PROVE  IF operations'[i].status = "pending"
               THEN ResultKey(i) \notin DOMAIN results'
               ELSE /\ ResultKey(i) \in DOMAIN results'
                    /\ results'[ResultKey(i)].status = operations'[i].status
                    /\ results'[ResultKey(i)].msg.txid \in {NoTx, operations'[i].payload.txid}
    <3>1. CASE i = x.op
      BY <2>1, <2>3, <2>4, <2>5, <3>1, Zenon
    <3>2. CASE i # x.op
      <4>1. ResultKey(i) # ResultKey(x.op)
        BY <2>1, <3>2, KeysDiffer, Zenon DEF Numbering
      <4>2. operations'[i].status = operations[i].status /\ operations'[i].payload = operations[i].payload
        BY <2>1, <3>2, Zenon
      <4>3. ResultKey(i) \in DOMAIN results' <=> ResultKey(i) \in DOMAIN results
        BY <2>3, <4>1
      <4>4. ResultKey(i) \in DOMAIN results => results'[ResultKey(i)] = results[ResultKey(i)]
        BY <2>3, <4>1, Zenon
      <4> QED
        BY <4>2, <4>3, <4>4, Zenon DEF Rows, ResultRowsAgree
    <3> QED
      BY <3>1, <3>2, Zenon
  <2>8. ResultRowsAgree'
    BY <2>1, <2>2, <2>7 DEF ResultRowsAgree
  <2> QED
    BY <1>1, <2>6, <2>8, Zenon DEF Rows
<1> QED
  BY <1>2, <1>3, <1>4, QueueStep

\* When results are verified, a finished operation has exactly the stored row of
\* the result that finished it, which names its transaction or none, and a pending
\* operation has none (RecordEUICCPackageResult, read back by GetOperationResult).
\* Unverified results may be recorded for another operation when the one they name
\* is beyond the correlation limit.
THEOREM ResultRowsRight ==
    ASSUME ~AllowUnverified
    PROVE  Spec => []ResultRowsAgree
<1>1. Init => Rows
  BY DEF Init, StoreInit, Rows, ResultRowsAgree, OperationIDs, NoHandler
<1>2. Rows => ResultRowsAgree
  BY Zenon DEF Rows
<1>3. TypeOK /\ Numbering /\ Outcomes /\ Rows /\ [Next]_vars => Rows'
  BY RowsStep
<1> QED
  BY <1>1, <1>2, <1>3, NumberingInit, NumberingStep, OutcomesInit, OutcomesStep, TypeCorrect, PTL
     DEF Spec

-----------------------------------------------------------------------------
(* What the eIM still needs                                                *)

\* Profile downloads and the IPA's own response errors are acknowledged with the
\* number of the operation, which may be the number of something else at the device
\* (provideResultAckResponse).  Without them, acknowledgements are exact.
OnlyPackages == Kinds \subseteq {Package} /\ "responseError" \notin Refusals

PackagesQueued ==
    /\ \A i \in OperationIDs : IsPackage(i)
    /\ \A c \in Clients : Busy(c) => request[c].payload.kind = Package

LEMMA PackagesQueuedStep ==
    ASSUME OnlyPackages
    PROVE  TypeOK /\ PackagesQueued /\ [Next]_vars => PackagesQueued'
<1> SUFFICES ASSUME TypeOK, PackagesQueued, [Next]_vars
             PROVE  PackagesQueued'
  OBVIOUS
<1>1. request \in [Clients -> {NoRequest} \cup Request]
  BY DEF TypeOK, ThreadTypeOK
<1>2. \A c \in Clients : Busy(c)' => request'[c].payload.kind = Package
  <2>1. ASSUME NEW c \in Clients, StartRequest(c)
        PROVE  \A b \in Clients : Busy(b)' => request'[b].payload.kind = Package
    <3>1. PICK r : r.payload.kind \in Kinds /\ request' = [request EXCEPT ![c] = r]
      BY <2>1, Zenon DEF StartRequest
    <3> QED
      BY <1>1, <3>1, Zenon DEF OnlyPackages, PackagesQueued, Busy
  <2>2. ASSUME NEW c \in Clients, Sign(c)
        PROVE  \A b \in Clients : Busy(b)' => request'[b].payload.kind = Package
    <3>1. request[c] \in Request /\ Busy(c)
      BY <2>2, RequestType DEF Sign, TypeOK, Busy
    <3>2. request'[c].payload.kind = request[c].payload.kind
      BY <1>1, <2>2, <3>1 DEF Sign, Request, Payload
    <3>3. \A b \in Clients : b # c => request'[b] = request[b]
      BY <1>1, <2>2 DEF Sign
    <3> QED
      BY <3>1, <3>2, <3>3, Zenon DEF PackagesQueued, Busy
  <2>3. ASSUME NEW c \in Clients, Enqueue(c) \/ AbortRequest(c)
        PROVE  \A b \in Clients : Busy(b)' => request'[b].payload.kind = Package
    BY <1>1, <2>3 DEF Enqueue, AbortRequest, NoRequest, PackagesQueued, Busy
  <2>4. CASE ~ \E c \in Clients : ApiStep(c)
    BY <2>4, ApiFrame, Zenon DEF PackagesQueued, Busy
  <2> QED
    BY <2>1, <2>2, <2>3, <2>4, Zenon DEF ApiStep
<1>3. \A i \in OperationIDs' : IsPackage(i)'
  <2>1. CASE UNCHANGED <<nextSequence, nextOperationID, operations, results>>
    BY <2>1, Zenon DEF PackagesQueued, OperationIDs, IsPackage
  <2>2. ASSUME NEW c \in Clients, Enqueue(c)
        PROVE  \A i \in OperationIDs' : IsPackage(i)'
    <3>1. Busy(c)
      BY <2>2 DEF Enqueue, Busy
    <3> QED
      BY <2>2, <3>1, EnqueueEffect DEF PackagesQueued, IsPackage
  <2>3. ASSUME NEW h \in Handlers, Record(h)
        PROVE  \A i \in OperationIDs' : IsPackage(i)'
    BY <2>3, RecordEffect DEF PackagesQueued, IsPackage
  <2> QED
    BY <2>1, <2>2, <2>3, QueueStep, Zenon
<1> QED
  BY <1>2, <1>3, Zenon DEF PackagesQueued

\* The device has the answer, or a handler that works for the device has it.
Known(m, d) ==
    \/ m \in retained[d]
    \/ \E h \in Handlers : /\ handler[h].pc # "idle"
                           /\ handler[h].src = d
                           /\ handler[h].msg = m

\* Answers come from the device.
LEMMA KnownStep ==
    ASSUME TypeOK, [Next]_vars, NEW d \in Devices, NEW m, Known(m, d)'
    PROVE  \/ Known(m, d)
           \/ DeviceStep(d) /\ m \in retained'[d] /\ m \notin retained[d]
<1>1. CASE UNCHANGED <<handler, retained>>
  BY <1>1, Zenon DEF Known
<1>2. ASSUME NEW e \in Devices, DeviceStep(e)
      PROVE  \/ Known(m, d)
             \/ DeviceStep(d) /\ m \in retained'[d] /\ m \notin retained[d]
  <2>1. handler' = handler
    BY <1>2, DeviceFrame, Zenon
  <2>2. CASE m \in retained'[d] /\ m \notin retained[d]
    BY <1>2, <2>2, NewAnswer, Zenon
  <2> QED
    BY <2>1, <2>2, Zenon DEF Known
<1>3. ASSUME NEW g \in Handlers, HandlerStep(g)
      PROVE  Known(m, d)
  <2>1. CASE m \in retained'[d]
    BY <1>3, <2>1, HandlerFrame, Zenon DEF Known
  <2>2. ASSUME NEW h \in Handlers, handler'[h].pc # "idle", handler'[h].src = d, handler'[h].msg = m
        PROVE  Known(m, d)
    <3>1. CASE h # g
      BY <1>3, <2>2, <3>1, HandlerFrame, Zenon DEF Known
    <3>2. CASE h = g
      <4>1. CASE handler'[h].msg \in retained[handler'[h].src]
        BY <2>2, <4>1, Zenon DEF Known
      <4>2. CASE /\ handler[h] \in Provide
                 /\ handler'[h].src = handler[h].src
                 /\ handler'[h].msg = handler[h].msg
        BY <2>2, <4>2, Zenon DEF Known, Provide
      <4> QED
        BY <1>3, <2>2, <3>2, <4>1, <4>2, ProvideKept, Zenon
    <3> QED
      BY <3>1, <3>2, Zenon
  <2> QED
    BY <2>1, <2>2, Zenon DEF Known
<1>4. ASSUME NEW c \in Clients, ApiStep(c)
      PROVE  UNCHANGED <<handler, retained>>
  BY <1>4 DEF ApiStep, StartRequest, Sign, Enqueue, AbortRequest, ipaVars
<1>5. UNCHANGED vars => UNCHANGED <<handler, retained>>
  BY Zenon DEF vars, ipaVars
<1> QED
  BY <1>1, <1>2, <1>3, <1>4, <1>5, Zenon DEF Next

\* The eUICC numbers the result and, if the package succeeded, one notification.
LEMMA ExecuteNumbers ==
    ASSUME TypeOK, NEW d \in Devices, Execute(d)
    PROVE  /\ UNCHANGED <<handler, notifications>>
           /\ \E new \in SUBSET {nextSeqNumber[d] + 1} :
                /\ notified'[d] = notified[d] \cup new
                /\ retainedNotifs'[d] = retainedNotifs[d] \cup new
                /\ nextSeqNumber'[d] > nextSeqNumber[d]
                /\ \A k \in new : k < nextSeqNumber'[d]
           /\ \A e \in Devices : e # d => /\ notified'[e] = notified[e]
                                          /\ retainedNotifs'[e] = retainedNotifs[e]
                                          /\ nextSeqNumber'[e] = nextSeqNumber[e]
<1> DEFINE n == nextSeqNumber[d]
<1>1. /\ n \in Nat
      /\ notified \in [Devices -> SUBSET Nat]
      /\ retainedNotifs \in [Devices -> SUBSET Nat]
      /\ nextSeqNumber \in [Devices -> Nat \ {0}]
  BY Zenon DEF TypeOK, DeviceTypeOK
<1>2. UNCHANGED <<handler, notifications>>
  BY Zenon DEF Execute, storeVars
<1>3. PICK ok \in BOOLEAN :
         /\ IssueNotification(d, n + 1, ok)
         /\ nextSeqNumber' = [nextSeqNumber EXCEPT ![d] = IF ok THEN @ + 2 ELSE @ + 1]
  BY ZenonT(30) DEF Execute
<1> DEFINE new == IF ok THEN {n + 1} ELSE {}
<1>4. /\ notified' = [notified EXCEPT ![d] = notified[d] \cup new]
      /\ retainedNotifs' = [retainedNotifs EXCEPT ![d] = retainedNotifs[d] \cup new]
  BY <1>1, <1>3, Zenon DEF IssueNotification
<1>5. nextSeqNumber'[d] > n /\ \A k \in new : k < nextSeqNumber'[d]
  BY <1>1, <1>3
<1>6. new \in SUBSET {n + 1}
  OBVIOUS
<1>7. \A e \in Devices : e # d => /\ notified'[e] = notified[e]
                                  /\ retainedNotifs'[e] = retainedNotifs[e]
                                  /\ nextSeqNumber'[e] = nextSeqNumber[e]
  BY <1>1, <1>3, <1>4, Zenon
<1>8. notified'[d] = notified[d] \cup new /\ retainedNotifs'[d] = retainedNotifs[d] \cup new
  BY <1>1, <1>4, Zenon
<1> HIDE DEF new
<1> QED
  BY <1>2, <1>5, <1>6, <1>7, <1>8, Zenon

\* Nothing else numbers, stores or deletes a notification but an acknowledgement.
LEMMA NumbersFrame ==
    ASSUME TypeOK, PackagesQueued, [Next]_vars,
           ~ \E d \in Devices : Execute(d), ~ \E h \in Handlers : Respond(h)
    PROVE  UNCHANGED <<nextSeqNumber, notified, retainedNotifs, notifications>>
<1>1. ASSUME NEW c \in Clients, ApiStep(c)
      PROVE  UNCHANGED <<nextSeqNumber, notified, retainedNotifs, notifications>>
  BY <1>1 DEF ApiStep, StartRequest, Sign, Enqueue, AbortRequest, ipaVars, euiccVars, storeVars
<1>2. ASSUME NEW d \in Devices, DeviceStep(d)
      PROVE  UNCHANGED <<nextSeqNumber, notified, retainedNotifs, notifications>>
  <2>1. ~Download(d)
    BY Zenon DEF Download, PackagesQueued, IsPackage, Package, Trigger, TypeOK, DeviceTypeOK
  <2> QED
    BY ZenonT(30), <1>2, <2>1
       DEF DeviceStep, Poll, RefuseReplay, RefuseUnsigned, RestartIPA, ipaVars, euiccVars, storeVars
<1>3. ASSUME NEW h \in Handlers, HandlerStep(h)
      PROVE  UNCHANGED <<nextSeqNumber, notified, retainedNotifs, notifications>>
  BY ZenonT(30), <1>3
     DEF HandlerStep, Upload, UploadMessage, Resolve, Match, Reject, Record, Apply, AbortHandler,
         ipaVars, euiccVars, storeVars
<1>4. CASE UNCHANGED vars
  BY <1>4, Zenon DEF vars, ipaVars, euiccVars, storeVars
<1> QED
  BY <1>1, <1>2, <1>3, <1>4, Zenon DEF Next

-----------------------------------------------------------------------------
(* Notifications                                                           *)

\* A result has a number of its own, below the next one.
NumberedResult(m, d) ==
    /\ m.kind \in {"signed", "errorSigned", "errorUnsigned"}
    /\ m.kind = "signed" =>
         m.seqNumber # 0 /\ m.seqNumber < nextSeqNumber[d] /\ m.seqNumber \notin notified[d]

Carried(x) == x.notifs \subseteq notified[x.src] /\ (x.msg.kind # "signed" => x.notifs = {})

Numbers ==
    /\ \A d \in Devices : \A n \in notified[d] : n < nextSeqNumber[d]
    /\ \A d \in Devices : retainedNotifs[d] \subseteq notified[d]
    /\ \A d \in Devices : \A m : Known(m, d) => NumberedResult(m, d)
    /\ \A h \in Handlers : handler[h].pc # "idle" => Carried(handler[h])
    /\ NoNotificationLost

\* A handler carries notifications that its device issued.
LEMMA CarriedStep ==
    ASSUME TypeOK, Numbers, [Next]_vars, \A d \in Devices : notified[d] \subseteq notified'[d],
           NEW h \in Handlers, handler'[h].pc # "idle"
    PROVE  Carried(handler[h])'
<1>1. handler \in [Handlers -> {NoHandler} \cup Provide]
  BY Zenon DEF TypeOK, ThreadTypeOK
<1>2. CASE handler'[h] = handler[h]
  <2>1. handler[h].src \in Devices
    BY <1>1, <1>2 DEF Provide, NoHandler
  <2> QED
    BY <1>2, <2>1, Zenon DEF Numbers, Carried
<1>3. CASE HandlerStep(h)
  <2>1. CASE /\ handler'[h].src \in Devices
             /\ handler'[h].notifs = IF handler'[h].msg.kind = "signed"
                                     THEN retainedNotifs[handler'[h].src] ELSE {}
    BY <2>1, Zenon DEF Numbers, Carried
  <2>2. CASE /\ handler[h] \in Provide
             /\ handler'[h].src = handler[h].src
             /\ handler'[h].msg = handler[h].msg
             /\ handler'[h].notifs = handler[h].notifs
    BY <2>2, Zenon DEF Numbers, Carried, Provide
  <2> QED
    BY <1>3, <2>1, <2>2, ProvideKept, Zenon
<1>4. ASSUME NEW g \in Handlers, HandlerStep(g), g # h
      PROVE  handler'[h] = handler[h]
  BY <1>4, HandlerFrame, Zenon
<1>5. ASSUME NEW d \in Devices, DeviceStep(d)
      PROVE  handler'[h] = handler[h]
  BY <1>5, DeviceFrame, Zenon
<1>6. ASSUME NEW c \in Clients, ApiStep(c)
      PROVE  handler'[h] = handler[h]
  BY <1>6 DEF ApiStep, StartRequest, Sign, Enqueue, AbortRequest
<1>7. UNCHANGED vars => handler'[h] = handler[h]
  BY Zenon DEF vars
<1> QED
  BY <1>2, <1>3, <1>4, <1>5, <1>6, <1>7, Zenon DEF Next

\* An acknowledgement names the result and the notifications that were stored.
LEMMA AcksExact ==
    ASSUME TypeOK, Origins, Numbers, NEW h \in Handlers, Respond(h)
    PROVE  /\ handler[h] \in Provide
           /\ handler[h].eid = handler[h].src
           /\ AckSequences(handler[h]) =
                IF handler[h].msg.kind = "signed"
                THEN {handler[h].msg.seqNumber} \cup handler[h].notifs ELSE {}
           /\ NumberedResult(handler[h].msg, handler[h].src)
           /\ handler[h].notifs \subseteq notified[handler[h].src]
<1>1. handler[h] \in Provide /\ handler[h].pc # "idle"
  BY ProvideType, Zenon DEF Respond, TypeOK
<1>2. handler[h].src \in Devices /\ Known(handler[h].msg, handler[h].src)
  BY <1>1, Zenon DEF Provide, Known
<1>3. NumberedResult(handler[h].msg, handler[h].src) /\ Carried(handler[h])
  BY <1>1, <1>2, Zenon DEF Numbers
<1>4. handler[h].eid = handler[h].src
  BY <1>1, Zenon DEF Origins
<1> QED
  BY <1>1, <1>3, <1>4 DEF AckSequences, NumberedResult, Carried

LEMMA NumbersStep ==
    ASSUME OnlyPackages
    PROVE  TypeOK /\ PackagesQueued /\ Origins /\ Numbers /\ [Next]_vars => Numbers'
<1> SUFFICES ASSUME TypeOK, PackagesQueued, Origins, Numbers, [Next]_vars
             PROVE  Numbers'
  OBVIOUS
<1>1. /\ notified \in [Devices -> SUBSET Nat]
      /\ retainedNotifs \in [Devices -> SUBSET Nat]
      /\ nextSeqNumber \in [Devices -> Nat \ {0}]
      /\ notifications \in [Devices -> SUBSET Nat]
      /\ nextSeqNumber' \in [Devices -> Nat \ {0}]
      /\ retained' \in [Devices -> SUBSET Message]
  BY TypeStep, Zenon DEF TypeOK, DeviceTypeOK, StoreTypeOK
<1>2. CASE \E d \in Devices : Execute(d)
  <2>1. PICK d \in Devices : Execute(d)
    BY <1>2
  <2>2. PICK new \in SUBSET {nextSeqNumber[d] + 1} :
          /\ notified'[d] = notified[d] \cup new
          /\ retainedNotifs'[d] = retainedNotifs[d] \cup new
          /\ nextSeqNumber'[d] > nextSeqNumber[d]
          /\ \A k \in new : k < nextSeqNumber'[d]
    BY <2>1, ExecuteNumbers, Zenon
  <2>3. /\ UNCHANGED <<handler, notifications>>
        /\ \A e \in Devices : e # d => /\ notified'[e] = notified[e]
                                       /\ retainedNotifs'[e] = retainedNotifs[e]
                                       /\ nextSeqNumber'[e] = nextSeqNumber[e]
    BY <2>1, ExecuteNumbers, Zenon
  <2>4. \A e \in Devices : \A n \in notified'[e] : n < nextSeqNumber'[e]
    <3>1. ASSUME NEW n \in notified'[d]
          PROVE  n < nextSeqNumber'[d]
      <4>1. nextSeqNumber[d] \in Nat /\ nextSeqNumber'[d] \in Nat
        BY <1>1, Zenon
      <4>2. CASE n \in notified[d]
        <5>1. n \in Nat /\ n < nextSeqNumber[d]
          BY <1>1, <4>2, Zenon DEF Numbers
        <5> QED
          BY <2>2, <4>1, <5>1
      <4> QED
        BY <2>2, <3>1, <4>2, Zenon
    <3> QED
      BY <2>3, <3>1, Zenon DEF Numbers
  <2>5. \A e \in Devices : retainedNotifs'[e] \subseteq notified'[e]
    BY <2>2, <2>3, Zenon DEF Numbers
  <2>6. ASSUME NEW e \in Devices, NEW m, Known(m, e)'
        PROVE  NumberedResult(m, e)'
    <3>1. CASE Known(m, e)
      <4>1. NumberedResult(m, e)
        BY <3>1, Zenon DEF Numbers
      <4>2. CASE e # d
        BY <2>3, <4>1, <4>2, Zenon DEF NumberedResult
      <4>3. CASE e = d
        <5>1. CASE m.kind = "signed"
          <6>1. m.seqNumber \in Nat
            <7>1. m \in Message
              BY <3>1 DEF Known, TypeOK, DeviceTypeOK, ThreadTypeOK, Provide, NoHandler
            <7> QED
              BY <7>1, Zenon DEF Message
          <6> QED
            BY <1>1, <2>2, <4>1, <4>3, <5>1, <6>1 DEF NumberedResult
        <5> QED
          BY <4>1, <5>1, Zenon DEF NumberedResult
      <4> QED
        BY <4>2, <4>3, Zenon
    <3>2. CASE DeviceStep(e) /\ m \in retained'[e] /\ m \notin retained[e]
      <4>1. DeviceStep(d)
        BY <2>1, Zenon DEF DeviceStep
      <4>2. /\ e = d /\ inbox[d] # 0
            /\ m.kind \in {"signed", "trigger", "errorSigned"} \cup Refusals
            /\ m.kind = "trigger" => ~IsPackage(inbox[d])
            /\ m.kind = "signed" => m.seqNumber = nextSeqNumber[d]
        BY <3>2, <4>1, NewAnswer, Zenon
      <4>3. IsPackage(inbox[d])
        BY <4>2, Zenon DEF PackagesQueued, TypeOK, DeviceTypeOK
      <4>4. m.kind \in {"signed", "errorSigned", "errorUnsigned"}
        BY <4>2, <4>3, RefusalsAssumption, Zenon DEF OnlyPackages
      <4>5. nextSeqNumber[d] \notin notified'[d]
        BY <1>1, <2>2 DEF Numbers
      <4> QED
        BY <1>1, <2>2, <4>2, <4>4, <4>5, Zenon DEF NumberedResult
    <3> QED
      BY <2>6, <3>1, <3>2, KnownStep, Zenon
  <2>7. \A h \in Handlers : handler'[h].pc # "idle" => Carried(handler[h])'
    BY <2>2, <2>3, CarriedStep, Zenon
  <2>8. NoNotificationLost'
    BY <2>2, <2>3, Zenon DEF Numbers, NoNotificationLost
  <2> QED
    BY <2>4, <2>5, <2>6, <2>7, <2>8, Zenon DEF Numbers
<1>3. CASE ~ \E d \in Devices : Execute(d)
  <2>1. UNCHANGED <<nextSeqNumber, notified>>
    <3>1. CASE \E h \in Handlers : Respond(h)
      BY <3>1, Zenon DEF Respond, euiccVars
    <3> QED
      BY <1>3, <3>1, NumbersFrame, Zenon
  <2>2. ASSUME NEW e \in Devices, NEW m, Known(m, e)'
        PROVE  NumberedResult(m, e)'
    <3>1. CASE Known(m, e)
      BY <2>1, <3>1, Zenon DEF Numbers, NumberedResult
    <3>2. CASE DeviceStep(e) /\ m \in retained'[e] /\ m \notin retained[e]
      <4>1. /\ inbox[e] # 0
            /\ m.kind \in {"signed", "trigger", "errorSigned"} \cup Refusals
            /\ m.kind = "trigger" => ~IsPackage(inbox[e])
            /\ m.kind # "signed"
        BY <1>3, <3>2, NewAnswer, Zenon
      <4>2. IsPackage(inbox[e])
        BY <4>1, Zenon DEF PackagesQueued, TypeOK, DeviceTypeOK
      <4> QED
        BY <4>1, <4>2, RefusalsAssumption, Zenon DEF OnlyPackages, NumberedResult
    <3> QED
      BY <2>2, <3>1, <3>2, KnownStep, Zenon
  <2>3. \A h \in Handlers : handler'[h].pc # "idle" => Carried(handler[h])'
    BY <2>1, CarriedStep, Zenon
  <2>4. ASSUME NEW h \in Handlers, Respond(h)
        PROVE  /\ NoNotificationLost'
               /\ \A d \in Devices : retainedNotifs'[d] \subseteq notified'[d]
    <3> DEFINE x == handler[h]
    <3>1. /\ x \in Provide /\ x.eid = x.src
          /\ AckSequences(x) = IF x.msg.kind = "signed"
                               THEN {x.msg.seqNumber} \cup x.notifs ELSE {}
          /\ NumberedResult(x.msg, x.src)
      BY <2>4, AcksExact, Zenon
    <3>2. x.src \in Devices
      BY <3>1, Zenon DEF Provide
    <3>3. notifications' = [notifications EXCEPT ![x.src] = @ \cup x.notifs]
      BY <2>4, <3>1, Zenon DEF Respond, StoreNotifications
    <3>4. \/ retainedNotifs' = retainedNotifs
          \/ retainedNotifs' = [retainedNotifs EXCEPT ![x.src] = @ \ AckSequences(x)]
      BY <2>4, Zenon DEF Respond
    <3>5. AckSequences(x) \cap notified[x.src] \subseteq x.notifs
      BY <3>1, Zenon DEF NumberedResult
    <3> HIDE DEF x
    <3>6. \A d \in Devices : retainedNotifs'[d] \subseteq notified'[d]
      BY <1>1, <2>1, <3>2, <3>4, Zenon DEF Numbers
    <3>7. NoNotificationLost'
      <4> SUFFICES ASSUME NEW d \in Devices, NEW n \in notified[d]
                   PROVE  n \in retainedNotifs'[d] \cup notifications'[d]
        BY <2>1, Zenon DEF NoNotificationLost
      <4>1. n \in retainedNotifs[d] \cup notifications[d]
        BY Zenon DEF Numbers, NoNotificationLost
      <4>2. CASE d # x.src
        BY <1>1, <3>2, <3>3, <3>4, <4>1, <4>2, Zenon
      <4>3. CASE d = x.src
        BY <1>1, <3>2, <3>3, <3>4, <3>5, <4>1, <4>3
      <4> QED
        BY <4>2, <4>3, Zenon
    <3> QED
      BY <3>6, <3>7, Zenon
  <2>5. CASE ~ \E h \in Handlers : Respond(h)
    <3>1. UNCHANGED <<nextSeqNumber, notified, retainedNotifs, notifications>>
      BY <1>3, <2>5, NumbersFrame, Zenon
    <3> QED
      BY <2>2, <2>3, <3>1, Zenon DEF Numbers, NoNotificationLost
  <2> QED
    BY <2>1, <2>2, <2>3, <2>4, <2>5, Zenon DEF Numbers
<1> QED
  BY <1>2, <1>3

LEMMA PackagesQueuedInit == Init => PackagesQueued
BY DEF Init, StoreInit, PackagesQueued, OperationIDs, NoRequest, Busy

LEMMA NumbersInit == Init => Numbers
BY DEF Init, Numbers, NoNotificationLost, Known, NoHandler

\* Where only packages are queued and answered for, every notification an eUICC
\* issued is still held by the device or stored by the eIM: an acknowledgement
\* never deletes one that was not stored (recordNotificationsFromList before
\* provideResultAckResponse), and never one that has the number of a result.
THEOREM NotificationsSafe ==
    ASSUME OnlyPackages
    PROVE  Spec => []NoNotificationLost
<1>1. Numbers => NoNotificationLost
  BY Zenon DEF Numbers
<1>2. TypeOK /\ PackagesQueued /\ [Next]_vars => PackagesQueued'
  BY PackagesQueuedStep
<1>3. TypeOK /\ PackagesQueued /\ Origins /\ Numbers /\ [Next]_vars => Numbers'
  BY NumbersStep
<1> QED
  BY <1>1, <1>2, <1>3, PackagesQueuedInit, NumbersInit, OriginsInit, OriginsStep,
     TransactionsInit, TransactionsStep, TypeCorrect, PTL DEF Spec

-----------------------------------------------------------------------------
(* Results                                                                 *)

\* Only an acknowledgement that names its number deletes a numbered answer.
LEMMA LostIsAcknowledged ==
    ASSUME TypeOK, [Next]_vars, NEW d \in Devices, NEW m \in retained[d], m \notin retained'[d],
           m.seqNumber # 0
    PROVE  \E h \in Handlers : /\ Respond(h)
                               /\ handler[h].src = d
                               /\ m.seqNumber \in AckSequences(handler[h])
<1>1. retained \in [Devices -> SUBSET Message]
  BY Zenon DEF TypeOK, DeviceTypeOK
<1>2. ASSUME NEW c \in Clients, ApiStep(c)
      PROVE  FALSE
  BY <1>2 DEF ApiStep, StartRequest, Sign, Enqueue, AbortRequest, ipaVars
<1>3. ASSUME NEW e \in Devices, DeviceStep(e)
      PROVE  FALSE
  <2>1. ASSUME NEW msg, Answer(e, msg)
        PROVE  FALSE
    BY <1>1, <2>1 DEF Answer
  <2>2. CASE Poll(e) \/ RestartIPA(e)
    BY <1>1, <2>2, Zenon DEF Poll, RestartIPA
  <2>3. CASE Execute(e) \/ Download(e)
    BY ZenonT(30), <2>1, <2>3 DEF Execute, Download
  <2>4. CASE RefuseReplay(e) \/ RefuseUnsigned(e)
    BY ZenonT(30), <2>1, <2>4 DEF RefuseReplay, RefuseUnsigned
  <2> QED
    BY <1>3, <2>2, <2>3, <2>4, Zenon DEF DeviceStep
<1>4. ASSUME NEW h \in Handlers, HandlerStep(h)
      PROVE  /\ Respond(h)
             /\ handler[h].src = d
             /\ m.seqNumber \in AckSequences(handler[h])
  <2>1. ~(Upload(h) \/ Record(h) \/ Apply(h) \/ AbortHandler(h))
    BY Zenon DEF Upload, UploadMessage, Record, Apply, AbortHandler, ipaVars
  <2>2. ~Reject(h)
    BY <1>1, Zenon DEF Reject
  <2>3. ~(Resolve(h) \/ Match(h))
    BY <2>2 DEF Resolve, Match, ipaVars
  <2>4. Respond(h)
    BY <1>4, <2>1, <2>3, Zenon DEF HandlerStep
  <2>5. retained' = [retained EXCEPT ![handler[h].src] =
                       {n \in retained[handler[h].src] :
                           /\ n.seqNumber \notin AckSequences(handler[h])
                           /\ n = handler[h].msg => n.seqNumber # 0}]
    BY <2>4, Zenon DEF Respond
  <2> QED
    BY <1>1, <2>4, <2>5, Zenon
<1>5. CASE UNCHANGED vars
  BY <1>5, Zenon DEF vars, ipaVars
<1> QED
  BY <1>2, <1>3, <1>4, <1>5, Zenon DEF Next

\* What a handler did with the operation it matched.
Handled(x) ==
    /\ x.pc \in {"apply", "respond"} => operations[x.op].status # "pending"
    /\ (x.pc \in {"record", "apply", "respond"} /\ x.msg.kind = "signed") =>
         operations[x.op].payload.txid = x.msg.txid

Results ==
    /\ \A d \in Devices : \A m, n :
         (/\ Known(m, d) /\ Known(n, d)
          /\ m.kind = "signed" /\ n.kind = "signed" /\ m.seqNumber = n.seqNumber)
         => m.txid = n.txid
    /\ \A h \in Handlers : Handled(handler[h])
    /\ NoResultLost

\* A handler that does not move keeps what it did.
LEMMA HandledKept ==
    ASSUME TypeOK, Numbering, [Next]_vars, NEW h \in Handlers, Handled(handler[h]),
           handler'[h] = handler[h]
    PROVE  Handled(handler[h])'
<1> SUFFICES ASSUME handler[h].pc \in {"record", "apply", "respond"}
             PROVE  Handled(handler[h])'
  BY Zenon DEF Handled
<1>1. handler[h].op \in OperationIDs
  BY Zenon DEF TypeOK, ThreadTypeOK
<1>2. /\ operations'[handler[h].op].payload = operations[handler[h].op].payload
      /\ handler[h].op \in OperationIDs'
  BY <1>1, IdentityKept, Zenon
<1>3. operations[handler[h].op].status # "pending" => operations'[handler[h].op].status # "pending"
  BY <1>1, <1>2, NewlyPending, Zenon
<1> QED
  BY <1>2, <1>3, Zenon DEF Handled

LEMMA HandledReached ==
    ASSUME TypeOK, Genuine, NEW h \in Handlers, Handled(handler[h]), HandlerStep(h)
    PROVE  Handled(handler[h])'
<1> DEFINE x == handler[h]
<1>1. handler \in [Handlers -> {NoHandler} \cup Provide]
  BY Zenon DEF TypeOK, ThreadTypeOK
<1>2. CASE Match(h)
  <2> DEFINE i == MatchOperation(x.eid, x.msg)
  <2>1. x \in Provide /\ x.msg \in Message
    BY <1>2, ProvideType DEF Match, TypeOK, Provide
  <2>2. CASE handler' = [handler EXCEPT ![h] = NoHandler]
    BY <1>1, <2>2, Zenon DEF Handled, NoHandler
  <2>3. CASE i # 0 /\ handler' = [handler EXCEPT ![h].pc = "record", ![h].op = i,
                                                 ![h].status = ResultStatus(x.msg)]
    <3>1. /\ handler'[h].pc = "record" /\ handler'[h].op = i /\ handler'[h].msg = x.msg
      BY <1>1, <2>1, <2>3 DEF Provide
    <3>2. operations' = operations
      BY <1>2 DEF Match, Reject, storeVars, queueVars
    <3>3. x.msg.kind = "signed" => x.msg.txid # NoTx
      BY <1>2 DEF Match, Genuine, Real
    <3>4. x.msg.kind = "signed" => operations[i].payload.txid = x.msg.txid
      BY <2>1, <2>3, <3>3, MatchIsOwn DEF TypeOK
    <3> HIDE DEF i
    <3> QED
      BY <3>1, <3>2, <3>4, Zenon DEF Handled
  <2> QED
    BY <1>2, <2>2, <2>3 DEF Match, Reject
<1>3. CASE Record(h)
  <2>1. /\ x \in Provide /\ x.op \in OperationIDs
        /\ operations'[x.op].payload = operations[x.op].payload
        /\ operations'[x.op].status = normalizeResultStatus(x.status)
    BY <1>3, RecordEffect, Zenon
  <2>2. handler'[h].op = x.op /\ handler'[h].msg = x.msg
    BY <1>1, <1>3, <2>1 DEF Record, Provide
  <2>3. x.pc = "record"
    BY <1>3 DEF Record
  <2> QED
    BY <2>1, <2>2, <2>3, Zenon DEF Handled, normalizeResultStatus
<1>4. CASE Apply(h)
  <2>1. x \in Provide /\ x.pc = "apply" /\ operations' = operations
    BY <1>4, ProvideType, Zenon DEF Apply, TypeOK, queueVars
  <2>2. handler'[h].op = x.op /\ handler'[h].msg = x.msg
    BY <1>1, <1>4, <2>1, Zenon DEF Apply, Provide
  <2> QED
    BY <2>1, <2>2, Zenon DEF Handled
<1>5. CASE Resolve(h)
  <2>1. x \in Provide
    BY <1>5, ProvideType DEF Resolve, TypeOK
  <2>2. handler'[h].pc \in {"idle", "match"}
    BY <1>1, <1>5, <2>1 DEF Resolve, Reject, NoHandler, Provide
  <2> QED
    BY <2>2, Zenon DEF Handled
<1>6. CASE Upload(h) \/ Respond(h) \/ AbortHandler(h)
  <2>1. handler'[h].pc \in {"idle", "resolve"}
    BY <1>1, <1>6 DEF Upload, UploadMessage, Respond, AbortHandler, NoHandler
  <2> QED
    BY <2>1, Zenon DEF Handled
<1> QED
  BY <1>2, <1>3, <1>4, <1>5, <1>6, Zenon DEF HandlerStep

LEMMA HandledStep ==
    ASSUME TypeOK, Numbering, Genuine, [Next]_vars, NEW h \in Handlers, Handled(handler[h])
    PROVE  Handled(handler[h])'
<1>1. ASSUME NEW g \in Handlers, HandlerStep(g)
      PROVE  HandlerStep(h) \/ handler'[h] = handler[h]
  BY <1>1, HandlerFrame, Zenon
<1>2. ASSUME NEW d \in Devices, DeviceStep(d)
      PROVE  handler'[h] = handler[h]
  BY <1>2, DeviceFrame, Zenon
<1>3. ASSUME NEW c \in Clients, ApiStep(c)
      PROVE  handler'[h] = handler[h]
  BY <1>3 DEF ApiStep, StartRequest, Sign, Enqueue, AbortRequest
<1>4. UNCHANGED vars => handler'[h] = handler[h]
  BY Zenon DEF vars
<1>5. HandlerStep(h) \/ handler'[h] = handler[h]
  BY <1>1, <1>2, <1>3, <1>4, Zenon DEF Next
<1> QED
  BY <1>5, HandledKept, HandledReached, Zenon

\* A package that ran left a result at the device.
LEMMA RanLeavesResult ==
    ASSUME TypeOK, NEW d \in Devices, DeviceStep(d), NEW t \in executed' \ executed,
           IsPackage(inbox[d])
    PROVE  /\ inbox[d] # 0 /\ t = operations[inbox[d]].payload.txid
           /\ \E m \in retained'[d] : m.kind = "signed" /\ m.txid = t
<1> DEFINE payload == operations[inbox[d]].payload
<1>1. inbox[d] # 0 /\ t = payload.txid
  BY DeviceFrame, Zenon
<1>2. ~Download(d)
  BY Zenon DEF Download, IsPackage, Package, Trigger
<1>3. Execute(d)
  BY ZenonT(30), <1>2 DEF DeviceStep, Poll, RefuseReplay, RefuseUnsigned, RestartIPA, euiccVars
<1>4. PICK ok \in BOOLEAN :
         Answer(d, [kind |-> "signed", txid |-> payload.txid, counter |-> payload.counter,
                    seqNumber |-> nextSeqNumber[d], ok |-> ok, eim |-> TRUE])
  BY ZenonT(30), <1>3 DEF Execute
<1> DEFINE m == [kind |-> "signed", txid |-> payload.txid, counter |-> payload.counter,
                 seqNumber |-> nextSeqNumber[d], ok |-> ok, eim |-> TRUE]
<1>5. m.kind = "signed" /\ m.txid = t
  BY <1>1, Zenon
<1>6. m \in retained'[d]
  <2> HIDE DEF m
  <2>1. Answer(d, m)
    BY <1>4, Zenon DEF m
  <2> QED
    BY <2>1, Zenon DEF Answer, TypeOK, DeviceTypeOK
<1> HIDE DEF m
<1> QED
  BY <1>1, <1>5, <1>6, Zenon

\* A pending package that ran still has its result at the device.
LEMMA ResultKept ==
    ASSUME TypeOK, Numbering, Transactions, Origins, Numbers, Results, [Next]_vars,
           NEW i \in OperationIDs', IsPackage(i)', operations'[i].status = "pending",
           operations'[i].payload.txid \in executed'
    PROVE  \E m \in retained'[operations'[i].eid] :
              m.kind = "signed" /\ m.txid = operations'[i].payload.txid
<1> DEFINE t == operations[i].payload.txid
           d == operations[i].eid
<1>1. CASE i \in OperationIDs /\ operations[i].status = "pending"
  <2>1. /\ operations'[i].payload = operations[i].payload
        /\ operations'[i].eid = operations[i].eid
    BY <1>1, IdentityKept, Zenon
  <2>2. IsPackage(i) /\ d \in Devices
    BY <1>1, <2>1, Zenon DEF IsPackage, TypeOK, StoreTypeOK, Operation
  <2>3. CASE t \in executed
    <3>1. PICK m \in retained[d] : m.kind = "signed" /\ m.txid = t
      BY <1>1, <2>2, <2>3, Zenon DEF Results, NoResultLost
    <3>2. Known(m, d)
      BY <3>1, Zenon DEF Known
    <3>3. NumberedResult(m, d)
      BY <2>2, <3>2, Zenon DEF Numbers
    <3>4. CASE m \notin retained'[d]
      <4>1. PICK h \in Handlers : /\ Respond(h)
                                  /\ handler[h].src = d
                                  /\ m.seqNumber \in AckSequences(handler[h])
        BY <2>2, <3>1, <3>3, <3>4, LostIsAcknowledged, Zenon DEF NumberedResult
      <4> DEFINE x == handler[h]
      <4>2. /\ x \in Provide
            /\ x.msg.kind = "signed"
            /\ m.seqNumber \in {x.msg.seqNumber} \cup x.notifs
            /\ x.notifs \subseteq notified[d]
        BY <4>1, AcksExact, Zenon
      <4>3. m.seqNumber = x.msg.seqNumber
        BY <3>1, <3>3, <4>2, Zenon DEF NumberedResult
      <4>4. x.pc = "respond"
        BY <4>1, Zenon DEF Respond
      <4>5. Known(x.msg, d)
        BY <4>1, <4>4, Zenon DEF Known
      <4>6. x.msg.txid = t
        BY <2>2, <3>1, <3>2, <4>2, <4>3, <4>5 DEF Results
      <4>7. /\ x.op \in OperationIDs
            /\ operations[x.op].status # "pending"
            /\ operations[x.op].payload.txid = t
        BY <4>2, <4>4, <4>6, Zenon DEF Results, Handled, TypeOK, ThreadTypeOK
      <4> QED
        BY <1>1, <4>7, Zenon DEF Transactions
    <3> QED
      BY <2>1, <3>1, <3>4, Zenon
  <2>4. CASE t \notin executed
    <3>1. t \in executed' \ executed
      BY <2>1, <2>4, Zenon
    <3>2. PICK e \in Devices : DeviceStep(e)
      <4>1. \A c \in Clients : ~ApiStep(c)
        BY <3>1 DEF ApiStep, StartRequest, Sign, Enqueue, AbortRequest, euiccVars
      <4>2. \A h \in Handlers : ~HandlerStep(h)
        BY <3>1, HandlerFrame, Zenon
      <4>3. ~ UNCHANGED vars
        BY <3>1, Zenon DEF vars, euiccVars
      <4> QED
        BY <4>1, <4>2, <4>3, Zenon DEF Next
    <3>3. inbox[e] # 0 /\ t = operations[inbox[e]].payload.txid
      BY <3>1, <3>2, DeviceFrame, Zenon
    <3>4. inbox[e] = i
      BY <1>1, <3>3, Zenon DEF Transactions, TypeOK, DeviceTypeOK
    <3>5. e = d
      BY <3>3, <3>4, Zenon DEF Origins
    <3>6. \E m \in retained'[e] : m.kind = "signed" /\ m.txid = t
      BY <2>2, <3>1, <3>2, <3>4, RanLeavesResult, Zenon
    <3> QED
      BY <2>1, <3>5, <3>6, Zenon
  <2> QED
    BY <2>3, <2>4, Zenon
<1>2. CASE i \notin OperationIDs
  <2>1. PICK c \in Clients : Enqueue(c)
    BY <1>2, QueueStep, RecordEffect, Zenon DEF OperationIDs
  <2>2. operations'[i].payload = request[c].payload /\ executed' = executed
    BY <1>2, <2>1, EnqueueEffect
  <2>3. request[c].payload.txid \notin executed
    BY <2>1 DEF Enqueue, Busy, Transactions, Origins
  <2> QED
    BY <2>2, <2>3, Zenon
<1> QED
  BY <1>1, <1>2, NewlyPending, Zenon

LEMMA ResultsStep ==
    TypeOK /\ Numbering /\ Transactions /\ Origins /\ Outcomes /\ Numbers /\ Results /\ [Next]_vars
        => Results'
<1> SUFFICES ASSUME TypeOK, Numbering, Transactions, Origins, Outcomes, Numbers, Results,
                    [Next]_vars
             PROVE  Results'
  OBVIOUS
<1>1. \A h \in Handlers : Handled(handler[h])'
  BY HandledStep, Zenon DEF Results, Outcomes
<1>2. NoResultLost'
  BY ResultKept, Zenon DEF NoResultLost
<1>3. ASSUME NEW d \in Devices, NEW m, NEW n, Known(m, d)', Known(n, d)',
             m.kind = "signed", n.kind = "signed", m.seqNumber = n.seqNumber
      PROVE  m.txid = n.txid
  <2>1. \A a : (Known(a, d) /\ a.kind = "signed") => a.seqNumber # nextSeqNumber[d]
    <3> SUFFICES ASSUME NEW a, Known(a, d), a.kind = "signed"
                 PROVE  a.seqNumber # nextSeqNumber[d]
      BY Zenon
    <3>1. a.seqNumber < nextSeqNumber[d]
      BY Zenon DEF Numbers, NumberedResult
    <3>2. nextSeqNumber[d] \in Nat
      BY Zenon DEF TypeOK, DeviceTypeOK
    <3> QED
      BY <3>1, <3>2
  <2>2. \A a : (Known(a, d)' /\ a.kind = "signed") =>
                  \/ Known(a, d)
                  \/ /\ a.seqNumber = nextSeqNumber[d]
                     /\ a.txid = operations[inbox[d]].payload.txid
    BY KnownStep, NewAnswer
  <2> QED
    BY <1>3, <2>1, <2>2, Zenon DEF Results
<1> QED
  BY <1>1, <1>2, <1>3, Zenon DEF Results

\* Where only packages are queued and answered for, the result of a package that
\* ran is not deleted at the device while its operation is pending: results are
\* acknowledged after they are recorded, each for the operation of its own
\* transaction (packageResultAckSequences, RecordEUICCPackageResult).
THEOREM ResultsSafe ==
    ASSUME OnlyPackages
    PROVE  Spec => []NoResultLost
<1>1. Init => Results
  <2> SUFFICES ASSUME Init
               PROVE  Results
    OBVIOUS
  <2>1. \A h \in Handlers : handler[h].pc = "idle"
    BY DEF Init, NoHandler
  <2>2. \A d \in Devices : \A m : ~ Known(m, d)
    BY <2>1, Zenon DEF Init, Known
  <2>3. \A h \in Handlers : Handled(handler[h])
    BY <2>1 DEF Handled
  <2>4. OperationIDs = {}
    BY DEF Init, StoreInit, OperationIDs
  <2> QED
    BY <2>2, <2>3, <2>4, Zenon DEF Results, NoResultLost
<1>2. Results => NoResultLost
  BY Zenon DEF Results
<1>3. TypeOK /\ PackagesQueued /\ [Next]_vars => PackagesQueued'
  BY PackagesQueuedStep
<1>4. TypeOK /\ PackagesQueued /\ Origins /\ Numbers /\ [Next]_vars => Numbers'
  BY NumbersStep
<1> QED
  BY <1>1, <1>2, <1>3, <1>4, ResultsStep, PackagesQueuedInit, NumbersInit, NumberingInit,
     NumberingStep, OutcomesInit, OutcomesStep, OriginsInit, OriginsStep, TransactionsInit,
     TransactionsStep, TypeCorrect, PTL DEF Spec

=============================================================================
