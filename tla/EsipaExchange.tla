--------------------------- MODULE EsipaExchange ---------------------------
(***************************************************************************)
(* One ESipa conversation at the level of octets and TLVs: an operation is *)
(* encoded, signed and queued, a device polls for it, decodes it, executes *)
(* it and uploads an encoded answer over one of the bindings, the eIM      *)
(* decodes, attributes, verifies, interprets and records it, and the       *)
(* device decodes the reply.  An upload whose reply is lost is repeated.   *)
(***************************************************************************)
EXTENDS IpaMessages

CONSTANTS
  Handle(_, _),   \* the eIM's handler, on a view of its store and a message
  Serve(_, _, _), \* its JSON binding, on a view, a path and a request
  Devices,   \* EIDs
  Scenarios  \* [orders, shapes, outcomes, setting]: what is enqueued ([EID,
             \* Kind, Value]), how devices may encode and carry their
             \* answers, what execution may come to ([Class, Code]) and the
             \* eIM's configuration [unverified, token, key]

VARIABLES
  scenario,
  queue,     \* the operations, with the order each was made from
  stage,     \* "idle", "working", "sent" or "recorded"
  job,       \* [EID, ID, Response]: what the polling device decoded, and the
             \* operation that was selected for it
  sent,      \* [shape, outcome] of the answer the device uploads
  effect     \* what the upload did, and what the device read back

vars == <<scenario, queue, stage, job, sent, effect>>
setting == scenario.setting

EimID == <<101>>
EimKey == 1
EuiccKey == 2
OtherKey == 3
NoJob == [EID |-> <<>>, ID |-> 0, Response |-> <<>>]
NoEffect == [Error |-> FALSE, Recorded |-> <<>>, Applied |-> <<>>, Stored |-> <<>>,
             Acks |-> <<>>]

View == [ops |-> queue, known |-> Devices, key |-> setting.key, token |-> setting.token,
         unverified |-> setting.unverified, relay |-> "none"]

(***************************************************************************)
(* The operator's side: the n-th operation has counter and transaction n.  *)
(***************************************************************************)
DefaultTagList == <<191, 32, 191, 34, 160, 165, 166, 168>>

NewRequest(tagList, ciPKID, notification, result, txid) ==
  [TagList |-> IF tagList = <<>> THEN DefaultTagList ELSE tagList,
   EUICCCIPKIdentifierToBeUsed |-> ciPKID,
   SearchCriteriaNotification |->
     Map(LAMBDA n : [SeqNumber |-> <<n>>, OperationRaw |-> <<>>], notification),
   SearchCriteriaEuiccPackageResult |-> result,
   EimTransactionID |-> txid]

PayloadOf(order, eid, n) ==
  CASE order.Kind = "euiccPackage" ->
         MarshalEuiccPackageRequest(
           Sign(EimID, EimKey, n, setting.token, eid, <<<<n>>>>, order.Value))
    [] order.Kind = "ipaEuiccData" ->
         MarshalIpaEuiccDataRequest(
           NewRequest(order.Value, <<>>, <<3>>, <<4>>, <<<<n>>>>))
    [] order.Kind = "profileDownload" ->
         MarshalProfileDownloadTriggerRequest(
           [ProfileDownloadData |-> <<order.Value>>, EimTransactionID |-> <<<<n>>>>])

Enqueue ==
  LET n == Len(queue) + 1
      order == scenario.orders[n]
  IN /\ n <= Len(scenario.orders) /\ stage \in {"idle", "working"}
     /\ queue' = Append(queue, [ID |-> n, EID |-> order.EID, Kind |-> order.Kind,
                                Payload |-> PayloadOf(order, order.EID, n),
                                SequenceNumber |-> n, Status |-> "pending",
                                Order |-> order])
     /\ UNCHANGED <<scenario, stage, job, sent, effect>>

(***************************************************************************)
(* The device polls, over ASN.1 (Client.Poll) or over JSON.                *)
(***************************************************************************)
JsonPollMessage(body) ==
  Then(body.euiccPackageRequest \o body.ipaEuiccDataRequest
       \o body.profileDownloadTriggerRequest,
       LAMBDA text : constructed(tagGetEimPackage, DecodeStd(text)),
       MarshalGetEimPackageResponse([Kind |-> "error", Value |-> <<body.eimPackageError>>]))

PollAnswer(eid, binding) ==
  Then(IF binding = "asn1"
       THEN Handle(View, MarshalGetEimPackageRequest([EID |-> eid,
              NotifyStateChange |-> FALSE, StateChangeCause |-> <<>>, RPLMN |-> <<>>])).Body
       ELSE Map(JsonPollMessage,
                Serve(View, "getEimPackage", [eidValue |-> HexDigits(eid)]).Body),
       UnmarshalGetEimPackageResponse, Err)

Poll(eid, binding) ==
  /\ stage = "idle"
  /\ \E i \in DOMAIN queue : queue[i].EID = eid /\ queue[i].Status = "pending"
  /\ stage' = "working"
  /\ job' = [EID |-> eid, ID |-> selectOperationForGetEimPackage(View, eid)[1].ID,
             Response |-> PollAnswer(eid, binding)]
  /\ UNCHANGED <<scenario, queue, sent, effect>>

(***************************************************************************)
(* The answer.  A shape is                                                 *)
(*   device   "mock" (the mock IPA) or "peer"                              *)
(*   choice   whether arms carry their CHOICE tag                          *)
(*   form     "arm", "base" (the base type) or "single" (no euiccResult    *)
(*            SEQUENCE around a single arm)                                *)
(*   format   of the signature; signer "own", "other" or "stale" token     *)
(*   number   the result's sequence number; notes those of notifications   *)
(*   carrier, named   how it is carried, and whether it names the EID;     *)
(*            "pending" sends the first notification alone                 *)
(***************************************************************************)
Notification(eid, n) ==
  IF n % 2 = 1 THEN SignedNotification(EuiccKey, eid, n, "enable")
  ELSE PeerInstallation(<<constructed(Ctx(0), <<>>)>>, <<notificationMetadata(n, "install")>>)

Notes(shape) == Map(LAMBDA n : Notification(job.EID, n), shape.notes)

Profiles == <<[ICCID |-> <<<<137, 1>>>>, ProfileState |-> <<1>>, FallbackAttribute |-> FALSE],
              [ICCID |-> <<<<137, 2>>>>, ProfileState |-> <<0>>, FallbackAttribute |-> TRUE]>>
EIMs == <<[EimID |-> EimID, EimIDType |-> <<>>], [EimID |-> <<102>>, EimIDType |-> <<1>>]>>

Performed(signed) == signed.EuiccPackage.Ops[1].Operation

PeerAnswer(signed, shape, outcome) ==
  LET arm == PeerResultData(Performed(signed), outcome.Code, shape.form, Profiles, EIMs)
      data == [EimID |-> signed.EimID, CounterValue |-> signed.CounterValue,
               EimTransactionID |-> signed.EimTransactionID, SeqNumber |-> shape.number,
               Results |-> <<arm>>, ErrorCode |-> outcome.Code]
      encoded == MarshalEuiccPackageResultDataSigned(data)
      results == IF shape.form # "single" THEN encoded
                 ELSE constructed(tagSequence, Append(Front(encoded.kids), arm))
      key == IF shape.signer = "other" THEN OtherKey ELSE EuiccKey
      token == IF shape.signer = "stale" THEN <<77>> ELSE setting.token
      seal(number, d) == PeerSigned(shape.choice, number, d, shape.format, key, token)
      unsigned == MarshalEuiccPackageErrorUnsigned(
                    [EimID |-> signed.EimID, EimTransactionID |-> signed.EimTransactionID,
                     AssociationToken |-> <<>>, ErrorCode |-> <<outcome.Code>>])
      error == [EimTransactionID |-> signed.EimTransactionID, Code |-> outcome.Code]
  IN CASE outcome.Class = "ok" -> seal(0, results)
       [] outcome.Class = "errorSigned" -> seal(1, MarshalEuiccPackageErrorDataSigned(data))
       [] outcome.Class = "errorUnsigned" ->
            IF shape.form = "base"
            THEN constructed(tagEuiccPkg, <<integerTLV(tagInteger, outcome.Code)>>)
            ELSE PeerArm(shape.choice, 2, unsigned.kids)
       [] outcome.Class = "responseError" ->
            IF shape.form = "base" THEN integerTLV(tagInteger, outcome.Code)
            ELSE constructed(Ctx(0), MarshalEimPackageResultResponseError(error).kids)

Certificate(number, eid, parts) ==
  LET first == constructed(tagSequence, <<octetTLV(Universal("primitive", 19), eid),
                                          octetTLV(tagOctet, <<number>>)>>)
      fields == <<first, constructed(tagSequence, <<>>), bitStringTLV(tagBitString, <<TRUE>>)>>
  IN constructed(Ctx(number), IF parts THEN fields ELSE <<constructed(tagSequence, fields)>>)

Info(tag) == constructed(tag, <<octetTLV(CtxP(2), <<3>>),
                                constructed(Ctx(9), <<octetTLV(tagOctet, <<tag[3]>>)>>),
                                constructed(Ctx(10), <<octetTLV(tagOctet, <<8>>)>>)>>)

(* What the device has to report; a capability string is <<2, 252>>. *)
DeviceData(shape) ==
  [DefaultSMDP |-> <<<<115>>>>, RootSMDS |-> <<>>,
   Info1 |-> <<Info(tagEUICCInfo1)>>, Info2 |-> <<Info(tagEUICCInfo2)>>,
   Capabilities |-> <<constructed(tagIPACapabilities, <<octetTLV(CtxP(0), <<2, 252>>),
                                                        octetTLV(CtxP(1), <<3, 192>>)>>)>>,
   Profiles |-> <<MarshalProfileInfoListResponse([Profiles |-> Profiles, Error |-> <<>>])>>,
   Notifications |-> Notes(shape),
   EUMCertificate |-> <<Certificate(5, <<5>>, shape.choice)>>,
   EUICCCertificate |-> <<Certificate(6, job.EID, shape.choice)>>]

IpaDataAnswer(request, shape, outcome) ==
  LET wrap(number, kids) == constructed(tagIpaEuiccData,
                              IF shape.choice THEN <<constructed(Ctx(number), kids)>> ELSE kids)
  IN IF outcome.Class = "ok"
     THEN wrap(0, buildIpaEuiccDataResponse(job.EID, DeviceData(shape), request))
     ELSE wrap(1, marshalIpaEuiccDataResponseError(
                    [EimTransactionID |-> request.EimTransactionID,
                     Code |-> outcome.Code]).kids)

TriggerAnswer(request, shape, outcome) ==
  LET good == IF shape.choice THEN <<constructed(Ctx(0), <<>>)>>
              ELSE <<constructed(tagSequence, <<octetTLV(Application(15), <<1>>)>>)>>
      bad == IF shape.choice THEN <<constructed(Ctx(1), <<>>)>>
             ELSE <<constructed(tagSequence, <<integerTLV(tagInteger, outcome.Code)>>)>>
      install(final) == ProfileDownloadResult(request.EimTransactionID,
                                              <<PeerInstallation(final, <<>>)>>)
      failure == [install(good) EXCEPT !.ProfileInstallationRaw = <<>>,
                    !.Error = <<[Reason |-> outcome.Code, ErrorResponse |-> <<>>]>>]
  IN MarshalProfileDownloadTriggerResult(
       CASE outcome.Class = "ok" ->
              IF shape.device = "mock" THEN ProfileDownloadResult(request.EimTransactionID, <<>>)
              ELSE install(IF outcome.Code = 0 THEN good ELSE bad)
         [] OTHER -> failure)

(* An IPA that only says it has, or cannot take, what was transferred. *)
Receipts == {"received", "receivedWithCID", "error", "errorWithCID"}

Receipt(outcome) ==
  LET cid == <<[EimTransactionID |-> IF outcome.Code % 2 = 1 THEN <<<<job.ID>>>> ELSE <<>>,
                EID |-> IF outcome.Code % 2 = 1 THEN <<>> ELSE <<job.EID>>]>>
  IN [Kind |-> outcome.Class, Raw |-> <<>>,
      Value |-> CASE outcome.Class = "received" -> <<>>
                  [] outcome.Class = "receivedWithCID" -> <<[CorrelationID |-> cid]>>
                  [] outcome.Class = "error" -> <<outcome.Code>>
                  [] outcome.Class = "errorWithCID" ->
                       <<[CorrelationID |-> cid, Error |-> outcome.Code]>>]

(* The EimPackageResult the device uploads. *)
PackageAnswer(request, shape, outcome) ==
  IF shape.device = "mock"
  THEN SignedEUICCPackageResult(EuiccKey, setting.token, Profiles, request, shape.number)
  ELSE PeerAnswer(request.EuiccPackageSigned, shape, outcome)

WithNotes(tlv, shape) ==
  IF ~hasTag(tlv, tagEuiccPkg) THEN tlv
  ELSE UploadEUICCPackageResultWithNotifications(tlv, Notes(shape))

AnswerTLV(shape, outcome) ==
  LET response == job.Response[1]
      value == response.Value[1]
  IN IF outcome.Class \in Receipts THEN transferResponseChild(Receipt(outcome))
     ELSE CASE response.Kind = "euiccPackage" ->
                 WithNotes(PackageAnswer(value, shape, outcome), shape)
            [] response.Kind = "ipaEuiccData" ->
                 IpaDataAnswer(UnmarshalIpaEuiccDataRequest(value)[1], shape, outcome)
            [] response.Kind = "profileDownload" -> TriggerAnswer(value, shape, outcome)

(* What the mock IPA's execution always comes to. *)
MockCode(signed) == IF Performed(signed) = "deleteEim" THEN 2 ELSE 0

(* getRAT and a mock device do not fail. *)
Possible(shape, outcome) ==
  LET response == job.Response[1]
      operation == IF response.Kind = "euiccPackage"
                   THEN Performed(response.Value[1].EuiccPackageSigned) ELSE response.Kind
  IN /\ outcome.Class \in Receipts => shape.carrier = "transfer"
     /\ response.Kind # "euiccPackage" =>
          outcome.Class \in {"ok", "errorUnsigned"} \cup Receipts
     /\ shape.device = "mock" =>
          /\ outcome.Class = "ok"
          /\ outcome.Code = IF response.Kind = "euiccPackage"
                            THEN MockCode(response.Value[1].EuiccPackageSigned) ELSE 0
     /\ outcome.Class = "ok" /\ operation \in {"getRAT", "ipaEuiccData"} => outcome.Code = 0

Execute(shape, outcome) ==
  /\ stage = "working" /\ Possible(shape, outcome)
  /\ sent' = [shape |-> shape, outcome |-> outcome]
  /\ stage' = "sent"
  /\ UNCHANGED <<scenario, queue, job, effect>>

(***************************************************************************)
(* Carrying the answer, and what comes back.                               *)
(***************************************************************************)
Acknowledged(body, carrier) ==
  IF body = <<>> THEN <<>>
  ELSE IF carrier = "transfer"
  THEN Then(UnmarshalTransferEimPackageRequest(body[1]), LAMBDA t : t.Value[1], <<>>)
  ELSE Then(UnmarshalProvideEimPackageResultResponse(body[1]),
            LAMBDA p : decodeProvideResultAck(p.Raw), <<>>)

Asn1Message(carrier, tlv, eid) ==
  CASE carrier = "provide" -> uploadEimPackageResultTLV(eid, tlv)
    [] carrier = "notify" ->
         constructed(Ctx(61), <<uploadEimPackageResultTLV(eid, tlv)>>)
    [] carrier = "pending" -> SendNotification(Notes(sent.shape)[1])
    [] carrier = "transfer" ->
         MarshalTransferEimPackageResponse([Kind |-> "", Value |-> <<>>,
           Raw |-> <<IF ~hasTag(tlv, tagSequence) THEN tlv
                     ELSE constructed(tagSequence,
                            Append(tlv.kids, octetTLV(tagEID, job.EID)))>>])

JsonUpload(carrier, tlv, eid) ==
  LET text(t) == <<[padded |-> sent.shape.choice, tlv |-> t]>>
  IN IF carrier = "jsonNotify"
     THEN Serve(View, "handleNotification",
            [provideEimPackageResult |-> text(uploadEimPackageResultTLV(eid, tlv)),
             pendingNotification |-> <<>>])
     ELSE Serve(View, "provideEimPackageResult",
            [eidValue |-> FlattenSeq(Map(HexDigits, eid)),
             eimPackageResult |-> text(IF carrier = "json" THEN tlv
                                       ELSE uploadEimPackageResultTLV(<<>>, tlv))])

Done(e, acks) == [Error |-> e.Error, Recorded |-> e.Recorded, Applied |-> e.Applied,
                  Stored |-> e.Stored, Acks |-> acks]

Direct(e, carrier) == Done(e, Acknowledged(e.Body, carrier))

OverJson(r) ==
  Done(r.Effect, IF r.Body = <<>> THEN <<>>
                 ELSE IF r.Body[1].eimAcknowledgements = <<>> THEN <<>>
                 ELSE decodeProvideResultAck(
                        DecodeStd(r.Body[1].eimAcknowledgements[1])))

Delivered(carrier, tlv, eid) ==
  IF carrier \in {"json", "jsonProvide", "jsonNotify"}
  THEN OverJson(JsonUpload(carrier, tlv, eid))
  ELSE Direct(Handle(View, Asn1Message(carrier, tlv, eid)), carrier)

Status(operation, recorded) ==
  LET hits == SelectSeq(recorded, LAMBDA r : r.ID = operation.ID)
  IN IF hits = <<>> THEN operation.Status ELSE hits[1].Status

NamedEID(shape) == IF shape.named THEN <<job.EID>> ELSE <<>>

(* The upload reaches the eIM: the first time, or again. *)
Record ==
  /\ stage \in {"sent", "recorded"}
  /\ \E done \in {Delivered(sent.shape.carrier, AnswerTLV(sent.shape, sent.outcome),
                            NamedEID(sent.shape))} :
       /\ effect' = done
       /\ queue' = Map(LAMBDA o : [o EXCEPT !.Status = Status(o, done.Recorded)], queue)
  /\ stage' = "recorded"
  /\ UNCHANGED <<scenario, job, sent>>

Finish ==
  /\ stage = "recorded"
  /\ stage' = "idle" /\ job' = NoJob /\ effect' = NoEffect
  /\ sent' = [shape |-> <<>>, outcome |-> <<>>]
  /\ UNCHANGED <<scenario, queue>>

Init ==
  /\ scenario \in Scenarios /\ queue = <<>>
  /\ stage = "idle" /\ job = NoJob /\ effect = NoEffect
  /\ sent = [shape |-> <<>>, outcome |-> <<>>]

Next ==
  \/ Enqueue
  \/ \E eid \in Devices, binding \in {"asn1", "json"} : Poll(eid, binding)
  \/ \E shape \in scenario.shapes, outcome \in scenario.outcomes : Execute(shape, outcome)
  \/ Record
  \/ Finish

Spec == Init /\ [][Next]_vars

(***************************************************************************)
(* Properties.                                                             *)
(***************************************************************************)
Answered == queue[job.ID]
Kind == Answered.Kind
Shape == sent.shape
Outcome == sent.outcome
IsPackage == Kind = "euiccPackage"

(* RequestDelivered: what a device decodes from a poll, over either        *)
(* binding, after enqueueing encoded, the handler decoded and re-encoded   *)
(* it, is the order as it was given, for this device, and the eIM's        *)
(* signature still covers the octets the device has, with the token        *)
(* (Service.Sign, getEimPackageOperationResponse, gsmaGetResponseFromBER). *)
RequestDelivered ==
  stage = "working" =>
    /\ job.Response # Err
    /\ LET response == job.Response[1]
           value == response.Value[1]
           signed == value.EuiccPackageSigned
       IN /\ response.Kind = Kind /\ Answered.EID = job.EID
          /\ CASE Kind = "euiccPackage" ->
                     /\ signed = [EimID |-> EimID, EID |-> job.EID, CounterValue |-> job.ID,
                                  EimTransactionID |-> <<<<job.ID>>>>,
                                  EuiccPackage |-> Answered.Order.Value]
                     /\ value.EimSignature =
                          Signature(1, EimKey, signatureInput(
                            Bytes(MarshalEuiccPackageSigned(signed)), setting.token))
               [] Kind = "ipaEuiccData" ->
                     UnmarshalIpaEuiccDataRequest(value) =
                       <<NewRequest(Answered.Order.Value, <<>>, <<3>>, <<4>>, <<<<job.ID>>>>)>>
               [] Kind = "profileDownload" ->
                     value = [ProfileDownloadData |-> <<Answered.Order.Value>>,
                              EimTransactionID |-> <<<<job.ID>>>>]

(* Whether the upload itself says which operation it answers: every signed *)
(* answer does; a bare INTEGER does not, and IPA data does when the        *)
(* transaction identifier was asked for.                                   *)
Asked(tag) ==
  LET tags == Answered.Order.Value
  IN tagListContains(IF tags = <<>> THEN DefaultTagList ELSE tags, tag)

Correlated ==
  CASE Kind = "euiccPackage" ->
         Outcome.Class \in {"ok", "errorSigned"} \/ Shape.form # "base"
    [] Kind = "ipaEuiccData" ->
         Outcome.Class # "ok" \/ Asked(<<135>>)
    [] OTHER -> TRUE

(* Attributed: an answer that names its transaction is only ever recorded  *)
(* for the operation it answers, on any binding, with or without the EID,  *)
(* with another operation queued for this or another device, and however   *)
(* often it is delivered (ResolveProvideResultEID,                         *)
(* matchingEUICCPackageOperations, pendingProfileDownloadTrigger).         *)
Attributed ==
  stage = "recorded" /\ Correlated =>
    \A i \in DOMAIN effect.Recorded : effect.Recorded[i].ID = job.ID

(* What the device did, as the operator would put it. *)
Succeeded ==
  /\ Outcome.Class = "ok"
  /\ \/ Outcome.Code = 0
     \/ /\ IsPackage /\ Outcome.Code = 2
        /\ Answered.Order.Value.Ops[1].Operation = "deleteEim"

(* ResultUnderstood: the domain result recorded for a package is what the  *)
(* device did: its operation, its code, success exactly when it succeeded, *)
(* and the profiles, eIMs or token it reported, whichever of the accepted  *)
(* encodings it chose (ParseOperationResult).                              *)
ResultUnderstood ==
  \A i \in DOMAIN effect.Recorded :
    LET domain == effect.Recorded[i].Domain
        operation == Answered.Order.Value.Ops[1].Operation
        shown(p) == [ICCID |-> p.ICCID[1], IsEnabled |-> p.ProfileState = <<1>>,
                     IsFallback |-> p.FallbackAttribute]
    IN IsPackage /\ Outcome.Class = "ok" /\ effect.Recorded[i].ID = job.ID =>
         /\ domain.Operation = operation
         /\ domain.RawResultCode = Outcome.Code
         /\ domain.OK = Succeeded
         /\ domain.Code # ""
         /\ operation = "listProfileInfo" /\ Succeeded =>
              domain.Profiles = Map(shown, Profiles)
         /\ operation = "listEim" /\ Succeeded /\ Shape.device = "peer" =>
              domain.EIMs = EIMs
         /\ operation = "addEim" /\ Succeeded =>
              domain.Token = IF Shape.device = "peer" THEN <<9>> ELSE <<1>>

(* raw_tlv.go does not find the signed octets of a result that leaves the  *)
(* SEQUENCE around its single arm out, though the decoder reads it.        *)
NotLocated == Outcome.Class = "ok" /\ Shape.form = "single"

(* Where the code cannot or must not settle the operation: a signature     *)
(* that does not verify or whose octets are not located; an unsigned error *)
(* that names nothing, while verifying; a response error or bare error     *)
(* without an EID; a transfer response that does not show an EID.          *)
Settles ==
  LET signed == IsPackage /\ Outcome.Class \in {"ok", "errorSigned"}
      anonymous == IsPackage /\ \/ Outcome.Class = "responseError"
                                \/ Outcome.Class = "errorUnsigned" /\ Shape.form = "base"
  IN /\ signed => setting.unverified \/ (Shape.signer = "own" /\ ~NotLocated)
     /\ anonymous /\ Outcome.Class = "errorUnsigned" => setting.unverified
     /\ anonymous => Shape.named
     /\ Outcome.Class \notin Receipts /\ Shape.carrier # "pending"
     /\ Shape.carrier = "transfer" =>
          \/ IsPackage /\ Outcome.Class # "responseError" /\ Shape.notes # <<>>
          \/ /\ Kind = "ipaEuiccData" /\ Outcome.Class = "ok" /\ ~Shape.choice
             /\ Asked(<<90>>)
     /\ Kind = "ipaEuiccData" /\ Outcome.Class = "ok" =>
          Shape.named \/ Asked(<<166>>) \/ Asked(<<90>>) \/ Asked(<<135>>)

(* AnswerIsFinal: a correctly signed and correlated answer leaves its      *)
(* operation done or failed, as the device did, however it is encoded and  *)
(* carried; it is never turned away (recordEimPackageResult).              *)
AnswerIsFinal ==
  stage = "recorded" /\ Settles =>
    Answered.Status = IF Succeeded THEN "done" ELSE "failed"

(* UnverifiedNeverRecorded: while results are verified, an answer signed   *)
(* with another key or over another association token changes nothing, and *)
(* its notifications are not acknowledged either (verifyResult).           *)
UnverifiedNeverRecorded ==
  /\ stage = "recorded" /\ ~setting.unverified /\ IsPackage
  /\ Outcome.Class \in {"ok", "errorSigned"} /\ Shape.signer # "own"
  => /\ effect.Recorded = <<>> /\ effect.Stored = <<>> /\ effect.Acks = <<>>
     /\ Answered.Status = "pending"

(* AckedIsStored: a device is told to forget exactly the notifications     *)
(* this upload stored, each kept as the object it sent, under the device   *)
(* it belongs to, and the result numbered in the upload                    *)
(* (recordNotificationsFromList, appendAckSequences).                      *)
AckedIsStored ==
  LET acks == {effect.Acks[i] : i \in DOMAIN effect.Acks}
      stored == {effect.Stored[i].SequenceNumber : i \in DOMAIN effect.Stored}
      own == IF IsPackage /\ Outcome.Class = "ok" /\ Shape.number # 0
             THEN {Shape.number} ELSE {}
  IN stage = "recorded" /\ Kind # "profileDownload" /\ Outcome.Class # "responseError" =>
       /\ \A i \in DOMAIN effect.Stored :
            LET n == effect.Stored[i]
            IN n.EID = job.EID /\ n.Payload = Notification(job.EID, n.SequenceNumber)
       /\ Shape.carrier = "pending" => Len(effect.Stored) = 1
       /\ effect.Acks # <<>> =>
            /\ acks = stored \cup own
            /\ Len(effect.Acks) = Cardinality(acks)
            /\ stored = {Shape.notes[i] : i \in DOMAIN Shape.notes}

(* What an upload comes to over each of the carriers. *)
Deed(d) == <<d.Recorded, d.Applied, d.Stored>>

Deeds(tlv) ==
  {Deed(Delivered(carrier, tlv, NamedEID(Shape))) :
     carrier \in {"provide", "notify", "json", "jsonProvide", "jsonNotify"}}

(* BindingsAgree: the same answer has the same effect whichever binding    *)
(* and envelope carries it: ProvideEimPackageResult, the notification      *)
(* envelope, or the three JSON forms, EID given or left out alike          *)
(* (parseGSMAProvideOrResultTLV, provideResultTLV).                        *)
BindingsAgree ==
  stage = "sent" /\ Shape.carrier = "provide" =>
    Cardinality(Deeds(AnswerTLV(Shape, Outcome))) = 1

(* A decoded result without the octets kept beside its fields. *)
Typed(r) ==
  LET plain == [r EXCEPT !.Raw = <<>>]
  IN IF r.Kind = "ipaEuiccData" /\ r.Value[1].Data # <<>>
     THEN [plain EXCEPT !.Value[1].Data[1].RawObjects = <<>>] ELSE plain

Survives(meant) ==
  Then(UnmarshalEimPackageResult(MarshalEimPackageResult(meant)),
       LAMBDA again : Typed(again) = meant, FALSE)

Understood(tlv) ==
  IF Outcome.Class \in Receipts
  THEN Then(UnmarshalTransferEimPackageResponse(constructed(tagTransferEimPackage, <<tlv>>)),
            LAMBDA receipt : [receipt EXCEPT !.Raw = <<>>] = Receipt(Outcome), FALSE)
  ELSE Then(UnmarshalEimPackageResult(tlv), LAMBDA d : Survives(Typed(d)), FALSE)

(* MeaningSurvives: what the eIM decodes from an upload is still what it   *)
(* decodes after encoding it again from the decoded fields alone, in every *)
(* form a device may have chosen; a receipt means what the IPA meant       *)
(* (EimPackageResult and TransferEimPackageResponse, both directions).     *)
MeaningSurvives == stage = "sent" => Understood(AnswerTLV(Shape, Outcome))

SpansAgreeFor(tlv) ==
  LET data == unwrapEuiccPackageResultChoice(tlv.kids[1]).kids[1]
  IN rawSignedDataFromResultDER(Bytes(tlv)) = <<Bytes(data)>>

(* SpansAgree: the octets the signature is checked over (raw_tlv.go's own  *)
(* parser) are those of the data the ASN.1 decoder reads the result from,  *)
(* for every form but the single arm that is NotLocated.                   *)
SpansAgree ==
  stage = "sent" /\ IsPackage /\ Outcome.Class \in {"ok", "errorSigned"} /\ ~NotLocated =>
    SpansAgreeFor(AnswerTLV([Shape EXCEPT !.notes = <<>>], Outcome))

(* DataUnderstood: the eUICC state kept from IPA data is what the device   *)
(* reported of what it was asked for, for this device, certificates in     *)
(* either form (UnmarshalIpaEuiccDataResponse, StateFromResponse).         *)
DataUnderstood ==
  \A i \in DOMAIN effect.Applied :
    LET state == effect.Applied[i]
        device == DeviceData(Shape)
        reported(tag, value) == IF Asked(tag) THEN value ELSE <<>>
    IN /\ state.EID = job.EID
       /\ state.DefaultSMDPAddress = reported(<<129>>, device.DefaultSMDP)
       /\ state.EUICCInfo1 = reported(<<191, 32>>, device.Info1)
       /\ state.EUICCInfo2 = reported(<<191, 34>>, device.Info2)
       /\ state.IPACapabilities = reported(<<168>>, device.Capabilities)
       /\ state.EUMCertificate = reported(<<165>>, device.EUMCertificate)
       /\ state.EUICCCertificate = reported(<<166>>, device.EUICCCertificate)
       /\ {state.CertificateIdentifiers[k] : k \in DOMAIN state.CertificateIdentifiers} =
            UNION {{<<32>>, <<8>>} : x \in DOMAIN state.EUICCInfo1}
            \cup UNION {{<<34>>, <<8>>} : x \in DOMAIN state.EUICCInfo2}
            \cup {<<5>> : x \in DOMAIN state.EUMCertificate}
            \cup {<<6>> : x \in DOMAIN state.EUICCCertificate}
=============================================================================
