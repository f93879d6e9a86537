---------------------------- MODULE EsipaHandler ----------------------------
(***************************************************************************)
(* What the ESipa handler makes of one message (esipa/handler.go,          *)
(* eid_resolve.go, eid_recover.go): which device and operation it is       *)
(* about, what is recorded and what is answered, as functions of the       *)
(* message and of a view of the store.  The view `v' is                    *)
(*   ops       the operations, [ID, EID, Kind, Payload, SequenceNumber,    *)
(*             Status], in queue order                                     *)
(*   known     the EIDs of registered devices                              *)
(*   key       the public key of the devices' eUICCs, <<>> without one     *)
(*   token     the association token stored for this eIM, or <<>>          *)
(*   unverified  AllowUnverifiedEUICCPackageResults                        *)
(*   relay     "none", or whether the relay has a route: "no", "yes"       *)
(* The interleaving of two handlers is the subject of OperationQueue.      *)
(***************************************************************************)
EXTENDS PackageService

(* The store's reads; no queue here is as long as their limits. *)
FetchPendingOperations(v, eid) ==
  SelectSeq(v.ops, LAMBDA o : o.EID = eid /\ o.Status = "pending")
ListOperations(v, eid) == SelectSeq(v.ops, LAMBDA o : o.EID = eid)
ListPendingOperations(v) == SelectSeq(v.ops, LAMBDA o : o.Status = "pending")

noPackage == 1
eidNotFound == 2
invalidEID == 3
missingEID == 4

(* The error code of an EID that is no key, or <<>>. *)
eidKey(eid) ==
  CASE Len(eid) = 0 -> <<missingEID>> [] Len(eid) = 16 -> <<>> [] OTHER -> <<invalidEID>>

(***************************************************************************)
(* Handler results: Error (no body, an error status), Body (<<>> for an    *)
(* empty one), Recorded ([ID, Status, Domain] of the operation whose       *)
(* result was stored), Applied (the EUICCState set from it), Stored (the   *)
(* notifications stored).                                                  *)
(***************************************************************************)
Nothing ==
  [Error |-> FALSE, Body |-> <<>>, Recorded |-> <<>>, Applied |-> <<>>, Stored |-> <<>>]
Failed == [Nothing EXCEPT !.Error = TRUE]
Answer(tlv) == IF tlv = BadTLV THEN Failed ELSE [Nothing EXCEPT !.Body = <<tlv>>]

(***************************************************************************)
(* getEimPackage                                                           *)
(***************************************************************************)
getEimPackageErrorResponse(code) ==
  Answer(MarshalGetEimPackageResponse([Kind |-> "error", Value |-> <<code>>]))

(* A pending eUICC package is preferred to anything queued before it. *)
selectOperationForGetEimPackage(v, eid) ==
  LET pending == FetchPendingOperations(v, eid)
      packages == SelectSeq(pending, LAMBDA o : o.Kind = "euiccPackage")
  IN IF packages # <<>> THEN FirstOf(packages) ELSE FirstOf(pending)

getEimPackageOperationResponse(operation) ==
  LET payload == operation.Payload
  IN CASE operation.Kind = "euiccPackage" ->
            Arm("euiccPackage", UnmarshalEuiccPackageRequest(payload))
       [] operation.Kind = "profileDownload" ->
            Arm("profileDownload", UnmarshalProfileDownloadTriggerRequest(payload))
       [] operation.Kind = "ipaEuiccData" /\ hasTag(payload, tagIpaEuiccData) ->
            Arm("ipaEuiccData", Raw(payload))
       [] OTHER -> Err

handleGetEimPackage(v, tlv) ==
  LET request == UnmarshalGetEimPackageRequest(tlv)
      eid == request[1].EID
      operation == selectOperationForGetEimPackage(v, eid)
      response == getEimPackageOperationResponse(operation[1])
  IN IF request = Err THEN Failed
     ELSE IF eidKey(eid) # <<>> THEN getEimPackageErrorResponse(eidKey(eid)[1])
     ELSE IF eid \notin v.known THEN getEimPackageErrorResponse(eidNotFound)
     ELSE IF operation = <<>> THEN getEimPackageErrorResponse(noPackage)
     ELSE IF response = Err THEN Failed
     ELSE Answer(MarshalGetEimPackageResponse(response[1]))

(***************************************************************************)
(* The device a provide result is about.                                   *)
(***************************************************************************)
provideResultTLV(msg) ==
  LET carried == IF ~hasTag(msg, Ctx(61)) THEN <<msg>>
                 ELSE IF Len(msg.kids) = 1 THEN msg.kids ELSE <<>>
  IN SelectSeq(carried, LAMBDA c : hasTag(c, tagProvideEimResult))

(* pki.EIDHexFromCertificate: the subject serial number, here the one      *)
(* printable string of the certificate's first part.                       *)
EIDFromCertificate(cert) ==
  LET serial == First(cert.kids[1], Universal("primitive", 19))
  IN IF serial = <<>> \/ Len(serial[1].val) # 16 THEN <<>> ELSE <<serial[1].val>>

eidFromEUICCCertificateTLV(wrapper) ==
  LET der == CertificateDERFromTagged(wrapper)
  IN IF der = Err THEN <<>> ELSE EIDFromCertificate(der[1])

recoverEIDFromIpaEuiccDataTLV(tlv) ==
  LET objects == IpaEuiccDataObjects(tlv)
      embedded == SelectSeq(objects, LAMBDA c : hasTag(c, tagEID) /\ Len(c.val) = 16)
      certified == SelectSeq(objects, LAMBDA c :
                     hasTag(c, Ctx(6)) /\ eidFromEUICCCertificateTLV(c) # <<>>)
  IN IF embedded # <<>> THEN <<embedded[1].val>>
     ELSE IF certified # <<>> THEN eidFromEUICCCertificateTLV(certified[1])
     ELSE <<>>

RECURSIVE recoverEIDFromPackageResultTLV(_)
recoverEIDFromPackageResultTLV(tlv) ==
  LET own == First(tlv, tagEID)
      others == SelectSeq(tlv.kids, LAMBDA c : ~hasTag(c, tagEID))
      found == SelectSeq(Map(recoverEIDFromPackageResultTLV, others),
                         LAMBDA f : f # <<>>)
  IN CASE hasTag(tlv, tagProvideEimResult) ->
            IF own # <<>> /\ Len(own[1].val) = 16 THEN <<own[1].val>>
            ELSE IF found # <<>> THEN found[1] ELSE <<>>
       [] hasTag(tlv, tagIpaEuiccData) -> recoverEIDFromIpaEuiccDataTLV(tlv)
       [] OTHER -> <<>>

RECURSIVE firstContextPrimitive2(_)
firstContextPrimitive2(tlv) ==
  LET found == SelectSeq(Map(firstContextPrimitive2, tlv.kids), LAMBDA f : f # <<>>)
  IN IF hasTag(tlv, CtxP(2)) THEN <<tlv.val>>
     ELSE IF found = <<>> THEN <<>> ELSE found[1]

ipaEuiccDataTransactionID(response) ==
  IF response.Error # <<>> THEN response.Error[1].EimTransactionID
  ELSE response.Data[1].EimTransactionID

(* The transaction a result names, or <<>>. *)
EimTransactionIDFromResultTLV(tlv) ==
  LET ipaData == UnmarshalIpaEuiccDataResponse(tlv)
      trigger == UnmarshalProfileDownloadTriggerResult(tlv)
      result == UnmarshalEuiccPackageResult(tlv)
  IN IF hasTag(tlv, tagIpaEuiccData)
     THEN IF ipaData = Err THEN <<>> ELSE ipaEuiccDataTransactionID(ipaData[1])
     ELSE IF hasTag(tlv, tagDownloadTrig) /\ trigger # Err
     THEN trigger[1].EimTransactionID
     ELSE IF ~hasTag(tlv, tagEuiccPkg) \/ result = Err
     THEN firstContextPrimitive2(tlv)
     ELSE IF result[1].Kind = "errorUnsigned"
     THEN result[1].Value.EimTransactionID
     ELSE result[1].Value.Data.EimTransactionID

OperationMatchesEimTransactionID(operation, txid) ==
  LET payload == operation.Payload
      package == UnmarshalEuiccPackageRequest(payload)
      ipaData == UnmarshalIpaEuiccDataRequest(payload)
      trigger == UnmarshalProfileDownloadTriggerRequest(payload)
  IN CASE operation.Kind = "euiccPackage" ->
            package[1].EuiccPackageSigned.EimTransactionID = <<txid>>
       [] operation.Kind = "ipaEuiccData" -> ipaData[1].EimTransactionID = <<txid>>
       [] operation.Kind = "profileDownload" -> trigger[1].EimTransactionID = <<txid>>

(* <<"eid", value>> or <<"code", value>>. *)
ResolveProvideResultEID(v, explicit, result) ==
  LET recovered == recoverEIDFromPackageResultTLV(result)
      txid == EimTransactionIDFromResultTLV(result)
      owners == SelectSeq(ListPendingOperations(v), LAMBDA o :
                  OperationMatchesEimTransactionID(o, txid[1]))
      named(eid) == IF eidKey(eid) = <<>> THEN <<"eid", eid>>
                    ELSE <<"code", eidKey(eid)[1]>>
  IN IF explicit \notin {<<>>, <<<<>>>>} THEN named(explicit[1])
     ELSE IF recovered # <<>> THEN named(recovered[1])
     ELSE IF txid = <<>> THEN <<"code", missingEID>>
     ELSE IF owners # <<>> THEN <<"eid", owners[1].EID>>
     ELSE <<"code", eidNotFound>>

(***************************************************************************)
(* The operation a result is about: <<operation>>, or <<>> (ErrNotFound).  *)
(***************************************************************************)
PackageOf(operation) == UnmarshalEuiccPackageRequest(operation.Payload)[1].EuiccPackageSigned

signedRequestFromOperation(operation) ==
  LET signed == PackageOf(operation)
  IN [EimID |-> signed.EimID, CounterValue |-> signed.CounterValue,
      EimTransactionID |-> signed.EimTransactionID,
      EuiccPackage |-> signed.EuiccPackage]

(* An absent eimId, counter or transaction matches any. *)
firstMatchingEuiccPackage(operations, eimID, counter, txid) ==
  FirstOf(SelectSeq(operations, LAMBDA o :
    /\ o.Kind = "euiccPackage"
    /\ eimID # <<>> => PackageOf(o).EimID = eimID
    /\ counter # 0 => PackageOf(o).CounterValue = counter
    /\ txid # <<>> => PackageOf(o).EimTransactionID = txid))

matchPendingEuiccPackageByCorrelation(v, eid, eimID, counter, txid) ==
  LET pending == firstMatchingEuiccPackage(FetchPendingOperations(v, eid),
                                           eimID, counter, txid)
  IN IF pending # <<>> THEN pending
     ELSE IF txid = <<>> /\ eimID = <<>> /\ counter = 0 THEN <<>>
     ELSE firstMatchingEuiccPackage(ListOperations(v, eid), eimID, counter, txid)

firstPendingEuiccPackageOperation(v, eid) ==
  FirstOf(SelectSeq(FetchPendingOperations(v, eid),
                    LAMBDA o : o.Kind = "euiccPackage"))

matchingEUICCPackageOperations(v, eid, result) ==
  LET data == result.Value.Data
      bare == result.Value
      named == matchPendingEuiccPackageByCorrelation(v, eid, bare.EimID, 0,
                                                     bare.EimTransactionID)
  IN IF result.Kind \in {"ok", "errorSigned"}
     THEN matchPendingEuiccPackageByCorrelation(v, eid, data.EimID,
            data.CounterValue, data.EimTransactionID)
     ELSE IF (bare.EimID # <<>> \/ bare.EimTransactionID # <<>>) /\ named # <<>>
     THEN named
     ELSE firstPendingEuiccPackageOperation(v, eid)

(* A fault: the transaction identifier is ignored. *)
firstPendingIpaEuiccDataOperation(v, eid, txid) ==
  FirstOf(SelectSeq(FetchPendingOperations(v, eid), LAMBDA o : o.Kind = "ipaEuiccData"))

pendingIpaEuiccDataOperation(v, eid, txid) ==
  FirstOf(SelectSeq(FetchPendingOperations(v, eid), LAMBDA o :
    /\ o.Kind = "ipaEuiccData"
    /\ txid # <<>> =>
         UnmarshalIpaEuiccDataRequest(o.Payload)[1].EimTransactionID = txid))

pendingProfileDownloadTrigger(v, eid, txid) ==
  FirstOf(SelectSeq(FetchPendingOperations(v, eid), LAMBDA o :
    /\ o.Kind = "profileDownload"
    /\ UnmarshalProfileDownloadTriggerRequest(o.Payload)[1].EimTransactionID = txid))

(***************************************************************************)
(* Notifications: <<>> for an error, else what StoreNotification gets.     *)
(***************************************************************************)
notificationFromPending(eid, pending) ==
  LET owner == IF eid # <<>> THEN eid
               ELSE IF pending.Raw = <<>> THEN <<>> ELSE eidFromTLV(pending.Raw[1])
      number == NotificationSequenceNumber(pending)
      payload == MarshalPendingNotification(pending)
  IN IF owner = <<>> \/ number = Err \/ payload = BadTLV THEN Err
     ELSE <<[EID |-> owner[1], SequenceNumber |-> number[1],
             Kind |-> PendingNotificationKind(pending), Payload |-> payload]>>

notificationFromTLV(eid, tlv) ==
  LET pending == UnmarshalPendingNotification(tlv)
  IN IF pending = Err THEN Err ELSE notificationFromPending(eid, pending[1])

(* Stored one by one up to the first that fails: [Stored, Error]. *)
recordNotificationsFromList(eid, list) ==
  LET decoded == UnmarshalPendingNotificationList(list[1])
      each == Map(LAMBDA n : notificationFromPending(<<eid>>, n), decoded[1])
      bad == {i \in DOMAIN each : each[i] = Err}
      good == IF bad = {} THEN Len(each) ELSE Min(bad) - 1
  IN IF list = <<>> THEN [Stored |-> <<>>, Error |-> FALSE]
     ELSE IF decoded = Err THEN [Stored |-> <<>>, Error |-> TRUE]
     ELSE [Stored |-> Map(LAMBDA n : n[1], SubSeq(each, 1, good)), Error |-> bad # {}]

(* All are decoded before the first is stored. *)
notificationsFromHandleNotification(tlv) ==
  LET decoded == UnmarshalPendingNotificationList(tlv.kids[1])
      single == notificationFromTLV(<<>>, tlv.kids[1])
  IN IF Len(tlv.kids) # 1 THEN Err
     ELSE IF decoded # Err
     THEN DecodeAll(LAMBDA n : notificationFromPending(<<>>, n), decoded[1])
     ELSE IF single = Err THEN Err ELSE <<single>>

appendAckSequences(existing, additions) ==
  FoldLeft(LAMBDA acc, n : IF \E i \in DOMAIN acc : acc[i] = n THEN acc
                           ELSE Append(acc, n), existing, additions)

(* A fault: a result without a number is acknowledged as number zero. *)
packageResultAckAlways(result) ==
  IF result.Kind # "ok" THEN <<>> ELSE <<result.Value.Data.SeqNumber>>

packageResultAckSequences(result) ==
  IF result.Kind # "ok" THEN <<>>
  ELSE IF result.Value.Data.SeqNumber = 0 THEN <<>>
  ELSE <<result.Value.Data.SeqNumber>>

Numbers(stored) == Map(LAMBDA n : n.SequenceNumber, stored)

(***************************************************************************)
(* Recording a result.  Reply is "acks", "empty", "notFound" or "error";   *)
(* Recorded, Applied and Stored are what reached the store before that.    *)
(***************************************************************************)
Refused ==
  [Reply |-> "error", Acks |-> <<>>, Recorded |-> <<>>, Applied |-> <<>>, Stored |-> <<>>]
Unknown == [Refused EXCEPT !.Reply = "notFound"]

Recorded(operation, status, domain, acks) ==
  [Reply |-> "acks", Acks |-> acks, Applied |-> <<>>, Stored |-> <<>>,
   Recorded |-> <<[ID |-> operation.ID, Status |-> status, Domain |-> domain]>>]

StatusOf(domain) == IF domain.OK THEN "done" ELSE "failed"

(* resultStatus: every integer arm must be zero. *)
resultStatus(result) ==
  LET arms == result.Value.Data.Results
  IN IF /\ result.Kind = "ok"
        /\ \A i \in DOMAIN arms :
             integerValue(arms[i]) = Err \/ integerValue(arms[i]) = <<0>>
     THEN "done" ELSE "failed"

(* Without verification: Err, or the domain result. *)
resultStatusForOperation(operation, result) ==
  IF result.Kind # "ok" THEN <<[NoResult EXCEPT !.OK = resultStatus(result) = "done"]>>
  ELSE operationResult(PackageOf(operation).EuiccPackage, result.Value.Data.Results)

(* With verification.  An arm that cannot be named fails the operation. *)
verifiedOperationResult(v, operation, tlv) ==
  VerifyPackageResult(signedRequestFromOperation(operation), tlv, v.key[1], v.token)

recordPackageResult(v, eid, resultTLV, list) ==
  LET result == UnmarshalEuiccPackageResult(resultTLV)
      operation == matchingEUICCPackageOperations(v, eid, result[1])
      domain == IF v.unverified THEN resultStatusForOperation(operation[1], result[1])
                ELSE verifiedOperationResult(v, operation[1], resultTLV)
      done == Recorded(operation[1], StatusOf(domain[1]), domain[1], <<>>)
      notifications == recordNotificationsFromList(eid, list)
      acks == appendAckSequences(packageResultAckSequences(result[1]),
                                 Numbers(notifications.Stored))
  IN IF result = Err THEN Refused
     ELSE IF ~v.unverified /\ v.key = <<>> THEN Refused
     ELSE IF operation = <<>> THEN Unknown
     ELSE IF domain = Err THEN Refused
     ELSE [done EXCEPT !.Stored = notifications.Stored, !.Acks = acks,
                       !.Reply = IF notifications.Error THEN "error" ELSE "acks"]

(* The certificates' key identifiers: the X.509 extension is abstracted    *)
(* to the first octet string of the certificate's first part.              *)
certificateSubjectKeyID(wrapper) ==
  LET der == IF wrapper = <<>> THEN Err ELSE CertificateDERFromTagged(wrapper[1])
      id == IF der = Err THEN <<>> ELSE First(der[1].kids[1], tagOctet)
  IN IF id = <<>> THEN <<>> ELSE <<id[1].val>>

certificateIdentifiers(data) ==
  LET ids(list) == IF list = <<>> THEN <<>> ELSE list[1]
      ofInfo(i) == ids(i.VerificationCIPKIDs) \o ids(i.SigningCIPKIDs)
                   \o ids(i.SigningV3CIPKIDs)
  IN appendAckSequences(<<>>,
       FlattenSeq(Map(ofInfo, data.EUICCInfo1 \o data.EUICCInfo2))
       \o certificateSubjectKeyID(data.EUMCertificateRaw)
       \o certificateSubjectKeyID(data.EUICCCertificateRaw))

(* A 16-octet EID in the data takes the place of the handler's. *)
StateFromResponse(eid, data) ==
  [EID |-> IF data.EID # <<>> /\ Len(data.EID[1]) = 16 THEN data.EID[1] ELSE eid,
   DefaultSMDPAddress |-> data.DefaultSMDPAddress,
   RootSMDSAddress |-> data.RootSMDSAddress,
   EUICCInfo1 |-> data.EUICCInfo1Raw, EUICCInfo2 |-> data.EUICCInfo2Raw,
   IPACapabilities |-> data.IPACapabilitiesRaw, DeviceInfo |-> data.DeviceInfoRaw,
   EUMCertificate |-> data.EUMCertificateRaw,
   EUICCCertificate |-> data.EUICCCertificateRaw,
   CertificateIdentifiers |-> certificateIdentifiers(data)]

recordIpaEuiccDataResponse(v, eid, tlv) ==
  LET response == UnmarshalIpaEuiccDataResponse(tlv)
      failed == response[1].Error # <<>>
      operation == pendingIpaEuiccDataOperation(v, eid,
                     ipaEuiccDataTransactionID(response[1]))
      list == IF failed THEN <<>> ELSE response[1].Data[1].NotificationsRaw
      notifications == recordNotificationsFromList(eid, list)
      acks == appendAckSequences(<<>>, Numbers(notifications.Stored))
      domain == [NoResult EXCEPT !.OK = ~failed]
  IN IF response = Err THEN Refused
     ELSE IF operation = <<>> THEN Unknown
     ELSE [Recorded(operation[1], StatusOf(domain), domain, acks)
           EXCEPT !.Stored = notifications.Stored,
                  !.Applied = IF failed THEN <<>>
                              ELSE <<StateFromResponse(eid, response[1].Data[1])>>,
                  !.Reply = IF notifications.Error THEN "error"
                            ELSE IF failed \/ acks = <<>> THEN "empty" ELSE "acks"]

(* Acknowledges the operation's own sequence number. *)
recordProfileDownloadTriggerResult(v, eid, tlv) ==
  LET result == UnmarshalProfileDownloadTriggerResult(tlv)
      operation == pendingProfileDownloadTrigger(v, eid, result[1].EimTransactionID)
      failed == \/ result[1].Error # <<>>
                \/ result[1].ProfileInstallationSucceeded = <<FALSE>>
      domain == [NoResult EXCEPT !.OK = ~failed]
  IN IF result = Err THEN Refused
     ELSE IF operation = <<>> THEN Unknown
     ELSE Recorded(operation[1], StatusOf(domain), domain,
                   <<operation[1].SequenceNumber>>)

recordEimPackageResultResponseError(v, eid, error) ==
  LET operation ==
        IF error.EimTransactionID # <<>>
        THEN matchPendingEuiccPackageByCorrelation(v, eid, <<>>, 0,
                                                   error.EimTransactionID)
        ELSE firstPendingEuiccPackageOperation(v, eid)
  IN IF operation = <<>> THEN Unknown
     ELSE Recorded(operation[1], "failed", NoResult, <<operation[1].SequenceNumber>>)

recordEimPackageResult(v, eid, tlv) ==
  LET error == UnmarshalEimPackageResult(tlv)
      package == First(tlv, tagEuiccPkg)
  IN CASE hasTag(tlv, tagDownloadTrig) -> recordProfileDownloadTriggerResult(v, eid, tlv)
       [] hasTag(tlv, tagIpaEuiccData) -> recordIpaEuiccDataResponse(v, eid, tlv)
       [] tlv.tag \in {tagInteger, Ctx(0)} ->
            IF error = Err THEN Refused
            ELSE recordEimPackageResultResponseError(v, eid, error[1].Value[1])
       [] hasTag(tlv, tagSequence) ->
            IF package = <<>> THEN Refused
            ELSE recordPackageResult(v, eid, package[1], First(tlv, tagNotificationList))
       [] OTHER -> recordPackageResult(v, eid, tlv, <<>>)

(***************************************************************************)
(* The handlers that record.                                               *)
(***************************************************************************)
provideResponse(kind, value) ==
  MarshalProvideEimPackageResultResponse([Kind |-> kind, Value |-> value, Raw |-> <<>>])
provideResultEmptyResponse == provideResponse("empty", <<>>)
provideResultAckResponse(acks) == provideResponse("acknowledgements", <<acks>>)
provideResultErrorResponse(code) == provideResponse("error", <<code>>)
transferAckResponse(acks) ==
  MarshalTransferEimPackageRequest([Kind |-> "acknowledgements", Value |-> <<acks>>])

Reply(outcome, tlv) ==
  [Answer(tlv) EXCEPT !.Recorded = outcome.Recorded, !.Applied = outcome.Applied,
                      !.Stored = outcome.Stored]

handleProvideEimPackageResult(v, tlv) ==
  LET provide == provideResultTLV(tlv)
      request == UnmarshalProvideEimPackageResult(provide[1])
      result == request[1].EimPackageResult.Raw[1]
      owner == ResolveProvideResultEID(v, request[1].EID, result)
      outcome == recordEimPackageResult(v, owner[2], result)
  IN IF provide = <<>> THEN Failed
     ELSE IF request = Err THEN Failed
     ELSE IF owner[1] = "code" THEN Answer(provideResultErrorResponse(owner[2]))
     ELSE CASE outcome.Reply = "notFound" ->
                 Answer(provideResultErrorResponse(eidNotFound))
            [] outcome.Reply = "error" -> [Reply(outcome, BadTLV) EXCEPT !.Error = TRUE]
            [] outcome.Reply = "empty" -> Reply(outcome, provideResultEmptyResponse)
            [] OTHER -> Reply(outcome, provideResultAckResponse(outcome.Acks))

handleTransferEimPackageResponse(v, tlv) ==
  LET request == UnmarshalTransferEimPackageResponse(tlv)
      eid == First(request[1].Raw[1], tagEID)
      outcome == recordEimPackageResult(v, eid[1].val, request[1].Raw[1])
  IN IF request = Err THEN Failed
     ELSE IF eid = <<>> THEN Failed
     ELSE IF eidKey(eid[1].val) # <<>> THEN Answer(transferAckResponse(<<>>))
     ELSE IF outcome.Reply \in {"error", "notFound"} THEN Reply(outcome, BadTLV)
     ELSE Reply(outcome, transferAckResponse(outcome.Acks))

(* A provide result inside a notification is recorded; the body is empty. *)
handleNotification(v, tlv) ==
  LET provided == handleProvideEimPackageResult(v, tlv)
      notifications == notificationsFromHandleNotification(tlv)
  IN IF provideResultTLV(tlv) # <<>> THEN [provided EXCEPT !.Body = <<>>]
     ELSE IF notifications = Err THEN Failed
     ELSE [Nothing EXCEPT !.Stored = notifications[1]]

(***************************************************************************)
(* Dispatch.  A relayed message is answered by relay.go, not here.         *)
(***************************************************************************)
isRelayMessage(tlv) == isAllowedTag(tlv, {57, 59, 58, 65, 61})

isLocalHandleNotification(tlv) ==
  \/ provideResultTLV(tlv) # <<>>
  \/ /\ hasTag(tlv, Ctx(61)) /\ Len(tlv.kids) = 1
     /\ hasTag(tlv.kids[1], tagNotificationList)

shouldRelay(v, tlv) ==
  /\ v.relay # "none" /\ isRelayMessage(tlv)
  /\ hasTag(tlv, Ctx(61)) => ~isLocalHandleNotification(tlv) /\ v.relay = "yes"

handle(v, tlv) ==
  LET message == UnmarshalESipaMessageFromIpaToEim(tlv)
  IN IF message = Err THEN Failed
     ELSE CASE shouldRelay(v, tlv) -> Nothing
            [] ~shouldRelay(v, tlv) /\ hasTag(tlv, tagGetEimPackage) ->
                 handleGetEimPackage(v, tlv)
            [] hasTag(tlv, tagProvideEimResult) -> handleProvideEimPackageResult(v, tlv)
            [] hasTag(tlv, tagTransferEimPackage) ->
                 handleTransferEimPackageResponse(v, tlv)
            [] hasTag(tlv, Ctx(61)) /\ ~shouldRelay(v, tlv) -> handleNotification(v, tlv)
            [] OTHER -> Failed
=============================================================================
