---------------------------- MODULE ResultCodec ----------------------------
(***************************************************************************)
(* Encoders and decoders of what a device answers (asn1/result.go):        *)
(* download triggers and their results, pending notifications,             *)
(* acknowledgements, eUICC package results and the results of the single   *)
(* operations.  Where a structure keeps the TLV it was decoded from in a   *)
(* Raw field, Raw is a field here too, empty in a value built by hand.     *)
(***************************************************************************)
EXTENDS Tlv

(* ProfileDownloadData: [Kind, Text], Text the activation code (required)  *)
(* or the SM-DS address (optional).                                        *)
MarshalProfileDownloadData(d) ==
  CASE d.Kind = "activationCode" -> utf8TLV(CtxP(0), d.Text[1])
    [] d.Kind = "contactDefaultSmdp" -> nullTLV(CtxP(1))
    [] d.Kind = "contactSmds" -> constructed(Ctx(2), Opt(utf8TLV, tagUTF8, d.Text))
    [] OTHER -> BadTLV

UnmarshalProfileDownloadData(tlv) ==
  CASE hasTag(tlv, CtxP(0)) -> <<[Kind |-> "activationCode", Text |-> utf8Value(tlv)]>>
    [] hasTag(tlv, CtxP(1)) -> <<[Kind |-> "contactDefaultSmdp", Text |-> <<>>]>>
    [] hasTag(tlv, Ctx(2)) ->
         <<[Kind |-> "contactSmds",
            Text |-> IF tlv.kids = <<>> THEN <<>> ELSE utf8Value(tlv.kids[1])]>>
    [] OTHER -> Err

MarshalProfileDownloadTriggerRequest(r) ==
  LET wrap(tag, data) == constructed(tag, <<MarshalProfileDownloadData(data)>>)
  IN constructed(tagDownloadTrig,
          Opt(wrap, Ctx(0), r.ProfileDownloadData)
       \o Opt(octetTLV, CtxP(2), r.EimTransactionID))

UnmarshalProfileDownloadTriggerRequest(tlv) ==
  LET data(wrapper) == IF Len(wrapper.kids) # 1 THEN Err
                       ELSE UnmarshalProfileDownloadData(wrapper.kids[1])
  IN IF ~hasTag(tlv, tagDownloadTrig) THEN Err
     ELSE Fields([ProfileDownloadData |-> May(tlv, Ctx(0), data),
                  EimTransactionID |-> May(tlv, CtxP(2), octetValue)])

(***************************************************************************)
(* Pending notifications and the profile installation result they carry.   *)
(***************************************************************************)
MarshalNotificationMetadata(m) ==
  constructed(tagNotificationMeta,
       <<integerTLV(CtxP(0), m.SequenceNumber)>>
    \o Opt(bitStringTLV, CtxP(1), m.ProfileManagement)
    \o (IF m.NotificationAddress = <<>> THEN <<>>
        ELSE <<utf8TLV(tagUTF8, m.NotificationAddress)>>))

UnmarshalNotificationMetadata(tlv) ==
  LET address == First(tlv, tagUTF8)
  IN IF ~hasTag(tlv, tagNotificationMeta) THEN Err
     ELSE Fields([
       SequenceNumber |-> Need(tlv, CtxP(0), integerValue),
       ProfileManagement |-> May(tlv, CtxP(1), bitStringValue),
       NotificationAddress |-> <<IF address = <<>> THEN <<>> ELSE address[1].val>>,
       Raw |-> <<<<tlv>>>>])

(* NotificationMetadata.Kind: the first event bit that is set. *)
NotificationKind(m) ==
  LET kinds == <<"install", "enable", "disable", "delete">>
      bits == IF m.ProfileManagement = <<>> THEN <<>> ELSE m.ProfileManagement[1]
      set == {i \in DOMAIN kinds \cap DOMAIN bits : bits[i]}
  IN IF set # {} THEN kinds[CHOOSE i \in set : \A j \in set : i <= j]
     ELSE IF bits # <<>> THEN "unknown" ELSE ""

RECURSIVE finalResultSucceeded(_)
(* finalResult: <<>> when the outcome cannot be told, else <<succeeded>>. *)
finalResultSucceeded(kids) ==
  IF kids = <<>> THEN <<>>
  ELSE CASE ContextNumber(kids[1], 0) -> <<TRUE>>
         [] ContextNumber(kids[1], 1) -> <<FALSE>>
         [] hasTag(kids[1], tagSequence) -> finalResultSucceeded(kids[1].kids)
         [] hasTag(kids[1], Application(15)) -> <<TRUE>>
         [] hasTag(kids[1], tagInteger) -> <<FALSE>>
         [] OTHER -> <<>>

MarshalProfileInstallationResultData(d) ==
  LET metadata(tag, m) == MarshalNotificationMetadata(m)
  IN IF d.Raw # <<>> THEN d.Raw[1]
     ELSE constructed(tagProfileInstallData,
               Opt(octetTLV, CtxP(0), d.TransactionID)
            \o Opt(metadata, tagNotificationMeta, d.Metadata)
            \o d.FinalResultRaw)

UnmarshalProfileInstallationResultData(tlv) ==
  LET final == First(tlv, tagProfileFinalResult)
  IN IF ~hasTag(tlv, tagProfileInstallData) \/ final = <<>> THEN Err
     ELSE Fields([
       TransactionID |-> May(tlv, CtxP(0), octetValue),
       Metadata |-> May(tlv, tagNotificationMeta, UnmarshalNotificationMetadata),
       FinalResultRaw |-> <<final>>,
       Succeeded |-> finalResultSucceeded(final[1].kids),
       Raw |-> <<<<tlv>>>>])

MarshalProfileInstallationResult(r) ==
  IF r.Raw # <<>> THEN r.Raw[1]
  ELSE constructed(tagProfileInstall,
            <<MarshalProfileInstallationResultData(r.Data)>>
         \o Opt(octetTLV, tagSignature, r.Signature))

UnmarshalProfileInstallationResult(tlv) ==
  IF ~hasTag(tlv, tagProfileInstall) THEN Err
  ELSE Fields([
    Data |-> Need(tlv, tagProfileInstallData, UnmarshalProfileInstallationResultData),
    Signature |-> May(tlv, tagSignature, octetValue),
    Raw |-> <<<<tlv>>>>])

isPendingNotificationTLV(tlv) ==
  tlv.tag \in {tagProfileInstall, tagSequence, tagNotificationList, Ctx(1)}

MarshalPendingNotification(n) ==
  IF n.ProfileInstallation # <<>>
  THEN MarshalProfileInstallationResult(n.ProfileInstallation[1])
  ELSE IF n.Raw # <<>> THEN n.Raw[1] ELSE BadTLV

UnmarshalPendingNotification(tlv) ==
  IF ~isPendingNotificationTLV(tlv) THEN Err
  ELSE Fields([
    ProfileInstallation |-> IF ~hasTag(tlv, tagProfileInstall) THEN <<<<>>>>
                            ELSE Some(UnmarshalProfileInstallationResult(tlv)),
    Raw |-> <<<<tlv>>>>])

MarshalPendingNotificationList(l) ==
  constructed(tagNotificationList, Map(MarshalPendingNotification, l))

UnmarshalPendingNotificationList(tlv) ==
  IF ~hasTag(tlv, tagNotificationList) THEN Err
  ELSE DecodeAll(UnmarshalPendingNotification, tlv.kids)

RECURSIVE findNotificationMetadata(_)
(* Depth first, the first metadata object of the tree. *)
findNotificationMetadata(tlv) ==
  IF hasTag(tlv, tagNotificationMeta) THEN <<tlv>>
  ELSE LET found == Map(findNotificationMetadata, tlv.kids)
           hits == SelectSeq(found, LAMBDA f : f # <<>>)
       IN IF hits = <<>> THEN <<>> ELSE hits[1]

(* PendingNotification.Metadata, SequenceNumber and Kind. *)
NotificationMetadataOf(n) ==
  LET direct == IF n.ProfileInstallation = <<>> THEN <<>>
                ELSE n.ProfileInstallation[1].Data.Metadata
  IN IF direct # <<>> THEN direct
     ELSE IF n.Raw = <<>> THEN <<>>
     ELSE Then(findNotificationMetadata(n.Raw[1]), UnmarshalNotificationMetadata, <<>>)

NotificationSequenceNumber(n) ==
  Then(NotificationMetadataOf(n), LAMBDA m : <<m.SequenceNumber>>, Err)

PendingNotificationKind(n) ==
  LET kind(told) == IF told # "" THEN told
                    ELSE IF n.ProfileInstallation # <<>> THEN "install" ELSE "unknown"
  IN kind(Then(NotificationMetadataOf(n), NotificationKind, ""))

RECURSIVE eidFromTLV(_)
(* PendingNotification.EID: depth first, the first EID of 16 octets. *)
eidFromTLV(tlv) ==
  IF hasTag(tlv, tagEID) /\ Len(tlv.val) = 16 THEN <<tlv.val>>
  ELSE LET found == Map(eidFromTLV, tlv.kids)
           hits == SelectSeq(found, LAMBDA f : f # <<>>)
       IN IF hits = <<>> THEN <<>> ELSE hits[1]

(***************************************************************************)
(* The result of a download trigger.                                       *)
(***************************************************************************)
MarshalProfileDownloadError(tag, e) ==
  constructed(tag, <<integerTLV(CtxP(0), e.Reason)>>
                   \o Opt(octetTLV, tagOctet, e.ErrorResponse))

UnmarshalProfileDownloadError(tlv) ==
  IF ~hasTag(tlv, tagSequence) THEN Err
  ELSE Fields([Reason |-> Need(tlv, CtxP(0), integerValue),
               ErrorResponse |-> May(tlv, tagOctet, octetValue)])

(* The first child that is not the transaction identifier. *)
profileDownloadResultData(tlv) ==
  LET data == SelectSeq(tlv.kids, LAMBDA c : ~hasTag(c, CtxP(2)))
  IN IF data = <<>> THEN <<>> ELSE <<data[1]>>

MarshalProfileDownloadTriggerResult(r) ==
  constructed(tagDownloadTrig,
    Opt(octetTLV, CtxP(2), r.EimTransactionID)
    \o CASE r.ProfileInstallation # <<>> ->
              Map(MarshalProfileInstallationResult, r.ProfileInstallation)
         [] r.ProfileInstallation = <<>> /\ r.ProfileInstallationRaw # <<>> ->
              IF hasTag(r.ProfileInstallationRaw[1], tagProfileInstall)
              THEN r.ProfileInstallationRaw ELSE <<BadTLV>>
         [] OTHER ->
              IF r.Error = <<>> THEN <<BadTLV>>
              ELSE Opt(MarshalProfileDownloadError, tagSequence, r.Error))

UnmarshalProfileDownloadTriggerResult(tlv) ==
  LET result(install, raw, succeeded, error) ==
        <<[EimTransactionID |-> May(tlv, CtxP(2), octetValue)[1],
           ProfileInstallation |-> install, ProfileInstallationRaw |-> raw,
           ProfileInstallationSucceeded |-> succeeded, Error |-> error]>>
      decoded(data) ==
        CASE hasTag(data, tagProfileInstall) ->
               Then(UnmarshalProfileInstallationResult(data),
                    LAMBDA i : result(<<i>>, <<data>>, <<i.Data.Succeeded>>, <<>>), Err)
          [] hasTag(data, tagSequence) ->
               Then(UnmarshalProfileDownloadError(data),
                    LAMBDA e : result(<<>>, <<>>, <<>>, <<e>>), Err)
          [] OTHER -> Err
  IN IF ~hasTag(tlv, tagDownloadTrig) THEN Err
     ELSE Then(profileDownloadResultData(tlv), decoded, Err)

(* EimAcknowledgements: a sequence of sequence numbers. *)
MarshalEimAcknowledgements(a) ==
  LET number(n) == integerTLV(CtxP(0), n)
  IN constructed(tagEimAck, Map(number, a))

UnmarshalEimAcknowledgements(tlv) ==
  LET number(c) == IF hasTag(c, CtxP(0)) THEN integerValue(c) ELSE Err
  IN IF ~hasTag(tlv, tagEimAck) THEN Err ELSE DecodeAll(number, tlv.kids)

(***************************************************************************)
(* The answer to a signed package: [Kind, Value].  Kind "ok" holds the     *)
(* signed results, "errorSigned" a signed package error, "errorUnsigned"   *)
(* an error the eUICC could not sign.  A single operation's result is kept *)
(* as the TLV the eUICC sent (EuiccResultData.Raw).                        *)
(***************************************************************************)
isEuiccResultDataTLV(tlv) ==
  \/ tlv.tag \in {tagProfileInfoList, tagSetDefaultDPAddress}
  \/ \E n \in 3..15 : ContextNumber(tlv, n)

MarshalEuiccPackageResultDataSigned(d) ==
  constructed(tagSequence,
       <<utf8TLV(CtxP(0), d.EimID), integerTLV(CtxP(1), d.CounterValue)>>
    \o Opt(octetTLV, CtxP(2), d.EimTransactionID)
    \o <<integerTLV(CtxP(3), d.SeqNumber), constructed(tagSequence, d.Results)>>)

UnmarshalEuiccPackageResultDataSigned(tlv) ==
  LET last == tlv.kids[Len(tlv.kids)]
  IN IF ~hasTag(tlv, tagSequence) \/ tlv.kids = <<>> THEN Err
     ELSE Fields([
       EimID |-> Need(tlv, CtxP(0), utf8Value),
       CounterValue |-> Need(tlv, CtxP(1), integerValue),
       EimTransactionID |-> May(tlv, CtxP(2), octetValue),
       SeqNumber |-> Need(tlv, CtxP(3), integerValue),
       Results |-> CASE hasTag(last, tagSequence) -> <<last.kids>>
                     [] isEuiccResultDataTLV(last) -> <<<<last>>>>
                     [] OTHER -> Err])

MarshalEuiccPackageErrorDataSigned(e) ==
  constructed(tagSequence,
       <<utf8TLV(CtxP(0), e.EimID), integerTLV(CtxP(1), e.CounterValue)>>
    \o Opt(octetTLV, CtxP(2), e.EimTransactionID)
    \o <<integerTLV(tagInteger, e.ErrorCode)>>)

UnmarshalEuiccPackageErrorDataSigned(tlv) ==
  IF ~hasTag(tlv, tagSequence) THEN Err
  ELSE Fields([
    EimID |-> Need(tlv, CtxP(0), utf8Value),
    CounterValue |-> Need(tlv, CtxP(1), integerValue),
    EimTransactionID |-> May(tlv, CtxP(2), octetValue),
    ErrorCode |-> Need(tlv, tagInteger, integerValue)])

(* EuiccPackageResultSigned and EuiccPackageErrorSigned: data, signature. *)
MarshalEuiccPackageResultSigned(r) ==
  constructed(tagSequence, <<MarshalEuiccPackageResultDataSigned(r.Data),
                             octetTLV(tagSignature, r.Signature)>>)

UnmarshalEuiccPackageResultSigned(tlv) ==
  IF ~hasTag(tlv, tagSequence) \/ Len(tlv.kids) < 2 THEN Err
  ELSE Fields([Data |-> UnmarshalEuiccPackageResultDataSigned(tlv.kids[1]),
               Signature |-> Need(tlv, tagSignature, octetValue)])

MarshalEuiccPackageErrorSigned(e) ==
  constructed(tagSequence, <<MarshalEuiccPackageErrorDataSigned(e.Data),
                             octetTLV(tagSignature, e.Signature)>>)

UnmarshalEuiccPackageErrorSigned(tlv) ==
  IF ~hasTag(tlv, tagSequence) \/ Len(tlv.kids) < 2 THEN Err
  ELSE Fields([Data |-> UnmarshalEuiccPackageErrorDataSigned(tlv.kids[1]),
               Signature |-> Need(tlv, tagSignature, octetValue)])

MarshalEuiccPackageErrorUnsigned(e) ==
  constructed(tagSequence,
       <<utf8TLV(CtxP(0), e.EimID)>>
    \o Opt(octetTLV, CtxP(2), e.EimTransactionID)
    \o Opt(integerTLV, CtxP(4), e.AssociationToken)
    \o Opt(integerTLV, CtxP(15), e.ErrorCode))

isEuiccPackageUnsignedErrorCodeTLV(tlv) == tlv.tag \in {tagInteger, CtxP(15)}

UnmarshalEuiccPackageErrorUnsigned(tlv) ==
  LET eimID == First(tlv, CtxP(0))
      code == integerValue(tlv)
  IN IF isEuiccPackageUnsignedErrorCodeTLV(tlv)
     THEN IF code = Err THEN Err
          ELSE <<[EimID |-> <<>>, EimTransactionID |-> <<>>,
                  AssociationToken |-> <<>>, ErrorCode |-> code]>>
     ELSE IF tlv.tag \notin {tagSequence, Ctx(2)} THEN Err
     ELSE Fields([
       EimID |-> <<IF eimID = <<>> THEN <<>> ELSE eimID[1].val>>,
       EimTransactionID |-> May(tlv, CtxP(2), octetValue),
       AssociationToken |-> May(tlv, CtxP(4), integerValue),
       ErrorCode |-> May(tlv, CtxP(15), integerValue)])

MarshalEuiccPackageResult(r) ==
  constructed(tagEuiccPkg,
    <<CASE r.Kind = "ok" -> MarshalEuiccPackageResultSigned(r.Value)
        [] r.Kind = "errorSigned" -> MarshalEuiccPackageErrorSigned(r.Value)
        [] r.Kind = "errorUnsigned" -> MarshalEuiccPackageErrorUnsigned(r.Value)
        [] OTHER -> BadTLV>>)

(* A fault: only the arm of a successful result is known. *)
unwrapEuiccPackageResultOk(tlv) ==
  IF hasTag(tlv, Ctx(0)) THEN constructed(tagSequence, tlv.kids) ELSE tlv

(* The AUTOMATIC TAGS arms [0], [1] and [2] stand for a SEQUENCE. *)
unwrapEuiccPackageResultChoice(tlv) ==
  IF tlv.tag \in {Ctx(0), Ctx(1), Ctx(2)}
  THEN constructed(tagSequence, tlv.kids) ELSE tlv

UnmarshalEuiccPackageResult(tlv) ==
  LET kindOf(child) == IF First(child, tagSignature) = <<>> THEN "errorUnsigned"
                       ELSE IF First(child.kids[1], CtxP(3)) # <<>> THEN "ok"
                       ELSE "errorSigned"
      decoded(kind, child) ==
        Fields([Kind |-> <<kind>>,
                Value |-> CASE kind = "ok" -> UnmarshalEuiccPackageResultSigned(child)
                            [] kind = "errorSigned" ->
                                 UnmarshalEuiccPackageErrorSigned(child)
                            [] OTHER -> UnmarshalEuiccPackageErrorUnsigned(child)])
      arm(child) == decoded(kindOf(child), child)
  IN IF ~hasTag(tlv, tagEuiccPkg) \/ Len(tlv.kids) # 1 THEN Err
     ELSE arm(unwrapEuiccPackageResultChoice(tlv.kids[1]))

(***************************************************************************)
(* The results of the single operations inside a package result.           *)
(***************************************************************************)
MarshalProfileInfo(p) ==
  constructed(tagProfileInfo,
       Opt(octetTLV, tagEID, p.ICCID)
    \o Opt(integerTLV, tagProfileState, p.ProfileState)
    \o (IF p.FallbackAttribute THEN <<booleanTLV(tagFallbackAttribute, TRUE)>>
        ELSE <<>>))

UnmarshalProfileInfo(tlv) ==
  LET fallback == First(tlv, tagFallbackAttribute)
  IN IF ~hasTag(tlv, tagProfileInfo) THEN Err
     ELSE Fields([
       ICCID |-> May(tlv, tagEID, octetValue),
       ProfileState |-> May(tlv, tagProfileState, integerValue),
       FallbackAttribute |->
         IF fallback = <<>> THEN <<FALSE>> ELSE booleanValue(fallback[1])])

(* ProfileInfoListResponse: [Profiles, Error]. *)
MarshalProfileInfoListResponse(r) ==
  constructed(tagProfileInfoList,
    IF r.Error # <<>> THEN <<integerTLV(tagInteger, r.Error[1])>>
    ELSE <<constructed(tagSequence, Map(MarshalProfileInfo, r.Profiles))>>)

unwrapProfileInfoListOk(tlv) ==
  IF hasTag(tlv, Ctx(0)) THEN constructed(tagSequence, tlv.kids) ELSE tlv

profileInfoListErrorTLV(tlv) ==
  IF tlv.tag \in {tagInteger, CtxP(1)} THEN <<tlv>>
  ELSE IF /\ hasTag(tlv, Ctx(1)) /\ Len(tlv.kids) = 1
          /\ hasTag(tlv.kids[1], tagInteger)
  THEN <<tlv.kids[1]>>
  ELSE <<>>

UnmarshalProfileInfoListResponse(tlv) ==
  LET failed(error) == Then(integerValue(error),
                            LAMBDA c : <<[Profiles |-> <<>>, Error |-> <<c>>]>>, Err)
      listed(list) ==
        IF ~hasTag(list, tagSequence) THEN Err
        ELSE Fields([Profiles |-> DecodeAll(UnmarshalProfileInfo, list.kids),
                     Error |-> <<<<>>>>])
  IN IF ~hasTag(tlv, tagProfileInfoList) \/ Len(tlv.kids) # 1 THEN Err
     ELSE Then(profileInfoListErrorTLV(tlv.kids[1]), failed,
               listed(unwrapProfileInfoListOk(tlv.kids[1])))

(* AddEimResult: [AssociationToken, Code], one of them present. *)
MarshalAddEimResult(r) ==
  IF r.AssociationToken # <<>> THEN integerTLV(CtxP(4), r.AssociationToken[1])
  ELSE IF r.Code # <<>> THEN integerTLV(tagInteger, r.Code[1])
  ELSE BadTLV

UnmarshalAddEimResult(tlv) ==
  LET value == integerValue(tlv)
  IN IF value = Err THEN Err
     ELSE CASE hasTag(tlv, CtxP(4)) -> <<[AssociationToken |-> value, Code |-> <<>>]>>
            [] hasTag(tlv, tagInteger) -> <<[AssociationToken |-> <<>>, Code |-> value]>>
            [] OTHER -> Err

MarshalEimIDInfo(i) ==
  constructed(tagSequence, <<utf8TLV(CtxP(0), i.EimID)>>
                           \o Opt(integerTLV, CtxP(2), i.EimIDType))

UnmarshalEimIDInfo(tlv) ==
  IF ~hasTag(tlv, tagSequence) THEN Err
  ELSE Fields([EimID |-> Need(tlv, CtxP(0), utf8Value),
               EimIDType |-> May(tlv, CtxP(2), integerValue)])

(* ListEimResult: [EimIDList, Error]. *)
MarshalListEimResult(r) ==
  IF r.Error # <<>> THEN integerTLV(tagInteger, r.Error[1])
  ELSE constructed(tagSequence, Map(MarshalEimIDInfo, r.EimIDList))

UnmarshalListEimResult(tlv) ==
  LET code == integerValue(tlv)
  IN IF hasTag(tlv, tagInteger)
     THEN IF code = Err THEN Err ELSE <<[EimIDList |-> <<>>, Error |-> code]>>
     ELSE IF ~hasTag(tlv, tagSequence) THEN Err
     ELSE Fields([EimIDList |-> DecodeAll(UnmarshalEimIDInfo, tlv.kids),
                  Error |-> <<<<>>>>])

(* The builders of one operation's result. *)
IntegerEuiccResult(number, value) == integerTLV(CtxP(number), value)
AddEimEuiccResult(result) == constructed(Ctx(8), <<MarshalAddEimResult(result)>>)
ListEimEuiccResult(result) == constructed(Ctx(11), <<MarshalListEimResult(result)>>)
ProfileInfoListEuiccResult(result) == MarshalProfileInfoListResponse(result)
=============================================================================
