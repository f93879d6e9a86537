----------------------------- MODULE EsipaCodec -----------------------------
(***************************************************************************)
(* Encoders and decoders of the ESipa messages between an IPA and the eIM  *)
(* (asn1/esipa.go).  A Go struct with a Kind and one pointer per kind is   *)
(* [Kind, Value], Value empty when the selected pointer is nil.            *)
(***************************************************************************)
EXTENDS PackageCodec, IpaDataCodec

isAllowedTag(tlv, numbers) == tlv.tag \in {Ctx(n) : n \in numbers}

UnmarshalESipaMessageFromIpaToEim(tlv) ==
  IF isAllowedTag(tlv, {57, 59, 58, 65, 61, 78, 79, 80}) THEN <<tlv>> ELSE Err

UnmarshalESipaMessageFromEimToIpa(tlv) ==
  IF isAllowedTag(tlv, {57, 59, 58, 65, 78, 79, 80}) THEN <<tlv>> ELSE Err

(* One selected arm, decoded: Err, or its kind and value. *)
Arm(kind, value) ==
  IF value = Err THEN Err ELSE <<[Kind |-> kind, Value |-> value]>>

errorTLV(code) == integerTLV(tagInteger, code)

(***************************************************************************)
(* What the eIM sends.                                                     *)
(***************************************************************************)
transferChild(r) ==
  IF r.Value = <<>> THEN BadTLV
  ELSE CASE r.Kind = "euiccPackage" -> MarshalEuiccPackageRequest(r.Value[1])
         [] r.Kind = "ipaEuiccData" -> r.Value[1]
         [] r.Kind = "acknowledgements" -> MarshalEimAcknowledgements(r.Value[1])
         [] r.Kind = "profileDownload" ->
              MarshalProfileDownloadTriggerRequest(r.Value[1])
         [] OTHER -> BadTLV

MarshalTransferEimPackageRequest(r) ==
  constructed(tagTransferEimPackage, <<transferChild(r)>>)

UnmarshalTransferEimPackageRequest(tlv) ==
  LET child == tlv.kids[1]
  IN IF ~hasTag(tlv, tagTransferEimPackage) \/ Len(tlv.kids) # 1 THEN Err
     ELSE CASE hasTag(child, tagEuiccPkg) ->
                 Arm("euiccPackage", UnmarshalEuiccPackageRequest(child))
            [] hasTag(child, tagIpaEuiccData) -> Arm("ipaEuiccData", Raw(child))
            [] hasTag(child, tagEimAck) ->
                 Arm("acknowledgements", UnmarshalEimAcknowledgements(child))
            [] hasTag(child, tagDownloadTrig) ->
                 Arm("profileDownload", UnmarshalProfileDownloadTriggerRequest(child))
            [] OTHER -> Err

getResponseChild(r) ==
  IF r.Value = <<>> THEN BadTLV
  ELSE CASE r.Kind = "euiccPackage" -> MarshalEuiccPackageRequest(r.Value[1])
         [] r.Kind = "ipaEuiccData" -> r.Value[1]
         [] r.Kind = "profileDownload" ->
              MarshalProfileDownloadTriggerRequest(r.Value[1])
         [] r.Kind = "error" -> errorTLV(r.Value[1])
         [] OTHER -> BadTLV

MarshalGetEimPackageResponse(r) ==
  constructed(tagGetEimPackage, <<getResponseChild(r)>>)

UnmarshalGetEimPackageResponse(tlv) ==
  LET child == tlv.kids[1]
  IN IF ~hasTag(tlv, tagGetEimPackage) \/ Len(tlv.kids) # 1 THEN Err
     ELSE CASE hasTag(child, tagEuiccPkg) ->
                 Arm("euiccPackage", UnmarshalEuiccPackageRequest(child))
            [] hasTag(child, tagIpaEuiccData) -> Arm("ipaEuiccData", Raw(child))
            [] hasTag(child, tagDownloadTrig) ->
                 Arm("profileDownload", UnmarshalProfileDownloadTriggerRequest(child))
            [] hasTag(child, tagInteger) -> Arm("error", integerValue(child))
            [] OTHER -> Err

(* ProvideEimPackageResultResponse: [Kind, Value, Raw]. *)
provideResponseChild(r) ==
  IF r.Raw # <<>> THEN r.Raw[1]
  ELSE CASE r.Kind = "empty" -> constructed(tagSequence, <<>>)
         [] r.Kind = "acknowledgements" /\ r.Value # <<>> ->
              MarshalEimAcknowledgements(r.Value[1])
         [] r.Kind = "error" /\ r.Value # <<>> -> errorTLV(r.Value[1])
         [] OTHER -> BadTLV

MarshalProvideEimPackageResultResponse(r) ==
  constructed(tagProvideEimResult, <<provideResponseChild(r)>>)

UnmarshalProvideEimPackageResultResponse(tlv) ==
  LET child == tlv.kids[1]
      arm(kind, value) == <<[Kind |-> kind, Value |-> value, Raw |-> <<child>>]>>
  IN IF ~hasTag(tlv, tagProvideEimResult) \/ Len(tlv.kids) # 1 THEN Err
     ELSE CASE hasTag(child, tagEimAck) ->
                 Then(UnmarshalEimAcknowledgements(child),
                      LAMBDA n : arm("acknowledgements", <<n>>), Err)
            [] hasTag(child, tagSequence) -> arm("empty", <<>>)
            [] hasTag(child, tagInteger) ->
                 Then(integerValue(child), LAMBDA c : arm("error", <<c>>), Err)
            [] OTHER -> Err

(***************************************************************************)
(* What the IPA sends.                                                     *)
(***************************************************************************)
MarshalGetEimPackageRequest(r) ==
  constructed(tagGetEimPackage,
       <<octetTLV(tagEID, r.EID)>>
    \o Flag(CtxP(0), r.NotifyStateChange)
    \o Opt(integerTLV, CtxP(1), r.StateChangeCause)
    \o Opt(octetTLV, CtxP(2), r.RPLMN))

UnmarshalGetEimPackageRequest(tlv) ==
  IF ~hasTag(tlv, tagGetEimPackage) THEN Err
  ELSE Fields([EID |-> Need(tlv, tagEID, octetValue),
               NotifyStateChange |-> Has(tlv, CtxP(0)),
               StateChangeCause |-> May(tlv, CtxP(1), integerValue),
               RPLMN |-> May(tlv, CtxP(2), octetValue)])

MarshalEimPackageResultResponseError(e) ==
  constructed(tagSequence, Opt(octetTLV, CtxP(0), e.EimTransactionID)
                           \o <<errorTLV(e.Code)>>)

UnmarshalEimPackageResultResponseError(tlv) ==
  IF ~hasTag(tlv, tagSequence) THEN Err
  ELSE Fields([EimTransactionID |-> May(tlv, CtxP(0), octetValue),
               Code |-> Need(tlv, tagInteger, integerValue)])

(* EimPackageResult: [Kind, Value, Notifications, Raw]. *)
isEimPackageResultTLV(tlv) ==
  \/ tlv.tag \in {tagEuiccPkg, tagIpaEuiccData, tagDownloadTrig, Ctx(0), tagInteger}
  \/ /\ hasTag(tlv, tagSequence) /\ tlv.kids # <<>>
     /\ hasTag(tlv.kids[1], tagEuiccPkg)

MarshalEimPackageResult(r) ==
  IF r.Raw # <<>> THEN r.Raw[1]
  ELSE IF r.Value = <<>> THEN BadTLV
  ELSE CASE r.Kind = "euiccPackage" -> MarshalEuiccPackageResult(r.Value[1])
         [] r.Kind = "eprAndNotifications" /\ r.Notifications # <<>> ->
              constructed(tagSequence,
                <<MarshalEuiccPackageResult(r.Value[1]),
                  MarshalPendingNotificationList(r.Notifications[1])>>)
         [] r.Kind = "ipaEuiccData" -> MarshalIpaEuiccDataResponse(r.Value[1])
         [] r.Kind = "profileDownload" ->
              MarshalProfileDownloadTriggerResult(r.Value[1])
         [] r.Kind = "error" ->
              constructed(Ctx(0), MarshalEimPackageResultResponseError(r.Value[1]).kids)
         [] OTHER -> BadTLV

(* The error arm: a SEQUENCE under [0], or a bare INTEGER. *)
unmarshalResponseError(tlv) ==
  IF hasTag(tlv, Ctx(0))
  THEN UnmarshalEimPackageResultResponseError(constructed(tagSequence, tlv.kids))
  ELSE Then(integerValue(tlv),
            LAMBDA code : <<[EimTransactionID |-> <<>>, Code |-> code]>>, Err)

UnmarshalEimPackageResult(tlv) ==
  LET result(kind, value, notifications) ==
        Fields([Kind |-> <<kind>>, Notifications |-> notifications,
                Value |-> Some(value), Raw |-> <<<<tlv>>>>])
      none == <<<<>>>>
  IN IF ~isEimPackageResultTLV(tlv) THEN Err
     ELSE CASE hasTag(tlv, tagEuiccPkg) ->
                 result("euiccPackage", UnmarshalEuiccPackageResult(tlv), none)
            [] hasTag(tlv, tagSequence) ->
                 result("eprAndNotifications",
                        Need(tlv, tagEuiccPkg, UnmarshalEuiccPackageResult),
                        May(tlv, tagNotificationList, UnmarshalPendingNotificationList))
            [] hasTag(tlv, tagIpaEuiccData) ->
                 result("ipaEuiccData", UnmarshalIpaEuiccDataResponse(tlv), none)
            [] hasTag(tlv, tagDownloadTrig) ->
                 result("profileDownload",
                        UnmarshalProfileDownloadTriggerResult(tlv), none)
            [] OTHER -> result("error", unmarshalResponseError(tlv), none)

MarshalProvideEimPackageResult(r) ==
  constructed(tagProvideEimResult,
       Opt(octetTLV, tagEID, r.EID)
    \o <<MarshalEimPackageResult(r.EimPackageResult)>>)

UnmarshalProvideEimPackageResult(tlv) ==
  LET others == SelectSeq(tlv.kids, LAMBDA c : ~hasTag(c, tagEID))
  IN IF ~hasTag(tlv, tagProvideEimResult) \/ others = <<>> THEN Err
     ELSE Fields([EID |-> May(tlv, tagEID, octetValue),
                  EimPackageResult |-> UnmarshalEimPackageResult(others[1])])

(* A fault: the transaction identifier under [2], as in every other type. *)
marshalCorrelationIDTwo(c) ==
  IF c.EimTransactionID # <<>> THEN <<octetTLV(CtxP(2), c.EimTransactionID[1])>>
  ELSE Opt(octetTLV, tagEID, c.EID)

(* Correlation identifiers: [EimTransactionID, EID]. *)
marshalCorrelationID(c) ==
  IF c.EimTransactionID # <<>> THEN <<octetTLV(CtxP(0), c.EimTransactionID[1])>>
  ELSE Opt(octetTLV, tagEID, c.EID)

unmarshalCorrelationID(kids) ==
  LET hits == SelectSeq(kids, LAMBDA c : c.tag \in {CtxP(0), tagEID})
      value(tag) == IF hits # <<>> /\ hasTag(hits[1], tag) THEN <<hits[1].val>>
                    ELSE <<>>
  IN IF kids = <<>> THEN <<>>
     ELSE <<[EimTransactionID |-> value(CtxP(0)), EID |-> value(tagEID)]>>

correlationChildren(cid) ==
  IF cid = <<>> THEN <<>> ELSE marshalCorrelationID(cid[1])

MarshalEimPackageReceivedWithCID(r) ==
  constructed(Ctx(96), correlationChildren(r.CorrelationID))

UnmarshalEimPackageReceivedWithCID(tlv) ==
  IF ~hasTag(tlv, Ctx(96)) THEN Err
  ELSE <<[CorrelationID |-> unmarshalCorrelationID(tlv.kids)]>>

MarshalEimPackageErrorWithCID(e) ==
  constructed(Ctx(97), correlationChildren(e.CorrelationID) \o <<errorTLV(e.Error)>>)

UnmarshalEimPackageErrorWithCID(tlv) ==
  IF ~hasTag(tlv, Ctx(97)) THEN Err
  ELSE Fields([CorrelationID |-> <<unmarshalCorrelationID(tlv.kids)>>,
               Error |-> Need(tlv, tagInteger, integerValue)])

(* TransferEimPackageResponse: [Kind, Value, Raw]. *)
transferResponseChild(r) ==
  IF r.Raw # <<>> THEN r.Raw[1]
  ELSE IF r.Kind = "received" THEN nullTLV(tagNull)
  ELSE IF r.Value = <<>> THEN BadTLV
  ELSE CASE r.Kind \in {"euiccPackage", "eprAndNotifications"} ->
              MarshalEimPackageResult(r.Value[1])
         [] r.Kind = "ipaEuiccData" -> MarshalIpaEuiccDataResponse(r.Value[1])
         [] r.Kind = "receivedWithCID" ->
              MarshalEimPackageReceivedWithCID(r.Value[1])
         [] r.Kind = "error" -> errorTLV(r.Value[1])
         [] r.Kind = "errorWithCID" -> MarshalEimPackageErrorWithCID(r.Value[1])
         [] OTHER -> BadTLV

MarshalTransferEimPackageResponse(r) ==
  constructed(tagTransferEimPackage, <<transferResponseChild(r)>>)

UnmarshalTransferEimPackageResponse(tlv) ==
  LET child == tlv.kids[1]
      arm(kind, value) ==
        IF value = Err THEN Err
        ELSE <<[Kind |-> kind, Value |-> value, Raw |-> <<child>>]>>
  IN IF ~hasTag(tlv, tagTransferEimPackage) \/ Len(tlv.kids) # 1 THEN Err
     ELSE CASE child.tag \in {tagEuiccPkg, tagSequence} ->
                 arm(IF hasTag(child, tagEuiccPkg) THEN "euiccPackage"
                     ELSE "eprAndNotifications", UnmarshalEimPackageResult(child))
            [] hasTag(child, tagIpaEuiccData) ->
                 arm("ipaEuiccData", UnmarshalIpaEuiccDataResponse(child))
            [] hasTag(child, tagNull) ->
                 <<[Kind |-> "received", Value |-> <<>>, Raw |-> <<child>>]>>
            [] hasTag(child, Ctx(96)) ->
                 arm("receivedWithCID", UnmarshalEimPackageReceivedWithCID(child))
            [] hasTag(child, tagInteger) -> arm("error", integerValue(child))
            [] hasTag(child, Ctx(97)) ->
                 arm("errorWithCID", UnmarshalEimPackageErrorWithCID(child))
            [] OTHER -> Err
=============================================================================
