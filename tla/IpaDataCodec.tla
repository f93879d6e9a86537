---------------------------- MODULE IpaDataCodec ----------------------------
(***************************************************************************)
(* Encoders and decoders of the IPA/eUICC data request and its response    *)
(* (asn1/ipadata.go).                                                      *)
(***************************************************************************)
EXTENDS ResultCodec, SequencesExt

tagEUICCInfo1 == Ctx(32)
tagEUICCInfo2 == Ctx(34)
tagIPACapabilities == Ctx(8)

(* Notification search criteria [1]: [SeqNumber, OperationRaw]. *)
marshalNotificationCriteria(tag, c) ==
  IF c.SeqNumber # <<>>
  THEN constructed(tag, <<integerTLV(CtxP(0), c.SeqNumber[1])>>)
  ELSE IF c.OperationRaw # <<>> THEN constructed(tag, c.OperationRaw)
  ELSE BadTLV

unmarshalNotificationCriteria(tlv) ==
  LET child == tlv.kids[1]
      number == integerValue(child)
  IN IF Len(tlv.kids) # 1 THEN Err
     ELSE CASE hasTag(child, CtxP(0)) /\ number # Err ->
                 <<[SeqNumber |-> number, OperationRaw |-> <<>>]>>
            [] hasTag(child, CtxP(1)) ->
                 <<[SeqNumber |-> <<>>, OperationRaw |-> <<child>>]>>
            [] OTHER -> Err

MarshalIpaEuiccDataRequest(r) ==
  LET resultCriteria(tag, seq) == constructed(tag, <<integerTLV(CtxP(0), seq)>>)
  IN IF r.TagList = <<>> THEN BadTLV
     ELSE constructed(tagIpaEuiccData,
               <<octetTLV(tagTagList, r.TagList)>>
            \o Opt(octetTLV, tagOctet, r.EUICCCIPKIdentifierToBeUsed)
            \o Opt(marshalNotificationCriteria, Ctx(1), r.SearchCriteriaNotification)
            \o Opt(resultCriteria, Ctx(2), r.SearchCriteriaEuiccPackageResult)
            \o Opt(octetTLV, CtxP(3), r.EimTransactionID))

UnmarshalIpaEuiccDataRequest(tlv) ==
  LET resultCriteria(c) == Need(c, CtxP(0), integerValue)
  IN IF ~hasTag(tlv, tagIpaEuiccData) THEN Err
     ELSE Fields([
       TagList |-> Need(tlv, tagTagList, octetValue),
       EUICCCIPKIdentifierToBeUsed |-> May(tlv, tagOctet, octetValue),
       SearchCriteriaNotification |-> May(tlv, Ctx(1), unmarshalNotificationCriteria),
       SearchCriteriaEuiccPackageResult |-> May(tlv, Ctx(2), resultCriteria),
       EimTransactionID |-> May(tlv, CtxP(3), octetValue)])

(***************************************************************************)
(* The response: [Data, Error].  Data objects may sit directly under BF52  *)
(* or under the AUTOMATIC TAGS arm [0]; an error under [1] or bare.        *)
(***************************************************************************)
isIpaEuiccDataSuccessChoiceArm(tlv) ==
  \/ tlv.kids = <<>>
  \/ \E i \in DOMAIN tlv.kids :
       hasTag(tlv.kids[i], Ctx(0)) \/ ~isPendingNotificationTLV(tlv.kids[i])

unwrapIpaEuiccDataResponseChoice(tlv) ==
  LET sole == Len(tlv.kids) = 1
      arm == constructed(tagIpaEuiccData, tlv.kids[1].kids)
  IN CASE sole /\ hasTag(tlv.kids[1], Ctx(0))
               /\ isIpaEuiccDataSuccessChoiceArm(tlv.kids[1]) ->
            [content |-> arm, isError |-> FALSE]
       [] sole /\ hasTag(tlv.kids[1], Ctx(1)) ->
            [content |-> arm, isError |-> TRUE]
       [] OTHER -> [content |-> tlv, isError |-> FALSE]

(* IpaEuiccDataObjects: the data objects of a success response. *)
IpaEuiccDataObjects(tlv) ==
  LET objects(choice) ==
        IF choice.isError \/ First(choice.content, tagInteger) # <<>>
        THEN <<>> ELSE choice.content.kids
  IN objects(unwrapIpaEuiccDataResponseChoice(tlv))

(* A fault: only a certificate in a SEQUENCE of its own is found. *)
CertificateDERFromSequence(wrapper) ==
  IF Len(wrapper.kids) = 1 /\ hasTag(wrapper.kids[1], tagSequence)
  THEN <<wrapper.kids[1]>> ELSE Err

(* The X.509 certificate under A5 or A6, as its own SEQUENCE. *)
CertificateDERFromTagged(wrapper) ==
  LET kids == wrapper.kids
  IN IF Len(kids) = 1 /\ hasTag(kids[1], tagSequence) THEN <<kids[1]>>
     ELSE IF /\ Len(kids) >= 3
             /\ hasTag(kids[1], tagSequence) /\ hasTag(kids[2], tagSequence)
             /\ hasTag(kids[3], tagBitString)
     THEN <<constructed(tagSequence, SubSeq(kids, 1, 3))>>
     ELSE Err

marshalIpaEuiccDataResponseError(e) ==
  constructed(tagIpaEuiccData, Opt(octetTLV, CtxP(0), e.EimTransactionID)
                               \o <<integerTLV(tagInteger, e.Code)>>)

unmarshalIpaEuiccDataResponseError(tlv) ==
  Fields([EimTransactionID |-> May(tlv, CtxP(0), octetValue),
          Code |-> Need(tlv, tagInteger, integerValue)])

subjectKeyIdentifiers(tlv) == <<Map(LAMBDA c : c.val, tlv.kids)>>

unmarshalEUICCInfo(tlv) ==
  Fields([ProfileVersion |-> May(tlv, CtxP(1), octetValue),
          SVN |-> May(tlv, CtxP(2), octetValue),
          FirmwareVersion |-> May(tlv, CtxP(3), octetValue),
          VerificationCIPKIDs |-> May(tlv, Ctx(9), subjectKeyIdentifiers),
          SigningCIPKIDs |-> May(tlv, Ctx(10), subjectKeyIdentifiers),
          SigningV3CIPKIDs |-> May(tlv, Ctx(17), subjectKeyIdentifiers)])

unmarshalIPACapabilities(tlv) ==
  Fields([Features |-> May(tlv, CtxP(0), bitStringValue),
          SupportedProtocols |-> May(tlv, CtxP(1), bitStringValue)])

unmarshalEuiccPackageResultList(tlv) ==
  DecodeAll(UnmarshalEuiccPackageResult, tlv.kids)

profilesFromPackageResults(results) ==
  LET listed(raw) == IF ~hasTag(raw, tagProfileInfoList) THEN <<>>
                     ELSE Then(UnmarshalProfileInfoListResponse(raw),
                               LAMBDA r : r.Profiles, <<>>)
      profiles(result) == IF result.Kind # "ok" THEN <<>>
                          ELSE FlattenSeq(Map(listed, result.Value.Data.Results))
  IN FlattenSeq(Map(profiles, results))

marshalIpaEuiccData(d) ==
  LET notifications ==
        IF d.NotificationsRaw # <<>> THEN d.NotificationsRaw
        ELSE IF d.Notifications = <<>> THEN <<>>
        ELSE <<MarshalPendingNotificationList(d.Notifications)>>
      profiles ==
        IF ~d.ProfileInfoListPresent /\ d.Profiles = <<>> THEN <<>>
        ELSE <<MarshalProfileInfoListResponse([Profiles |-> d.Profiles,
                                               Error |-> <<>>])>>
  IN constructed(tagIpaEuiccData,
       IF d.RawObjects # <<>> THEN d.RawObjects
       ELSE Opt(octetTLV, tagEID, d.EID)
            \o Opt(utf8TLV, CtxP(1), d.DefaultSMDPAddress)
            \o notifications
            \o d.EuiccPackageResultRaw \o d.EUICCInfo1Raw \o d.EUICCInfo2Raw
            \o Opt(utf8TLV, CtxP(3), d.RootSMDSAddress)
            \o Opt(integerTLV, CtxP(4), d.AssociationToken)
            \o d.EUMCertificateRaw \o d.EUICCCertificateRaw
            \o d.IPACapabilitiesRaw \o d.DeviceInfoRaw
            \o Opt(octetTLV, CtxP(7), d.EimTransactionID)
            \o profiles)

(* The decoder walks the objects in order: of two with one tag the last    *)
(* counts, every one must decode, and profiles are collected from package  *)
(* results and from profile lists alike.                                   *)
profilesOfObject(c) ==
  CASE hasTag(c, Ctx(2)) ->
         Then(unmarshalEuiccPackageResultList(c), profilesFromPackageResults, <<>>)
    [] hasTag(c, tagProfileInfoList) ->
         Then(UnmarshalProfileInfoListResponse(c), LAMBDA r : r.Profiles, <<>>)
    [] OTHER -> <<>>

unmarshalIpaEuiccData(tlv) ==
  LET last(values) == IF \E i \in DOMAIN values : values[i] = Err THEN Err
                      ELSE <<IF values = <<>> THEN <<>> ELSE values[Len(values)]>>
      final(tag, F(_)) == last(Map(F, SelectSeq(tlv.kids, LAMBDA c : c.tag = tag)))
      list(tag, F(_)) ==
        Then(final(tag, F), LAMBDA v : <<IF v = <<>> THEN <<>> ELSE v[1]>>, Err)
  IN Fields([
       EID |-> final(tagEID, octetValue),
       Notifications |-> list(Ctx(0), UnmarshalPendingNotificationList),
       NotificationsRaw |-> final(Ctx(0), Raw),
       DefaultSMDPAddress |-> final(CtxP(1), utf8Value),
       EuiccPackageResults |-> list(Ctx(2), unmarshalEuiccPackageResultList),
       EuiccPackageResultRaw |-> final(Ctx(2), Raw),
       EUICCInfo1 |-> final(tagEUICCInfo1, unmarshalEUICCInfo),
       EUICCInfo1Raw |-> final(tagEUICCInfo1, Raw),
       EUICCInfo2 |-> final(tagEUICCInfo2, unmarshalEUICCInfo),
       EUICCInfo2Raw |-> final(tagEUICCInfo2, Raw),
       RootSMDSAddress |-> final(CtxP(3), utf8Value),
       AssociationToken |-> final(CtxP(4), integerValue),
       EUMCertificateRaw |-> final(Ctx(5), Raw),
       EUICCCertificateRaw |-> final(Ctx(6), Raw),
       EimTransactionID |-> final(CtxP(7), octetValue),
       IPACapabilities |-> final(tagIPACapabilities, unmarshalIPACapabilities),
       IPACapabilitiesRaw |-> final(tagIPACapabilities, Raw),
       DeviceInfoRaw |-> final(Ctx(9), Raw),
       ProfileInfoListPresent |->
         Then(final(tagProfileInfoList, UnmarshalProfileInfoListResponse),
              LAMBDA inventory : <<inventory # <<>>>>, Err),
       Profiles |-> <<FlattenSeq(Map(profilesOfObject, tlv.kids))>>,
       RawObjects |-> <<tlv.kids>>])

MarshalIpaEuiccDataResponse(r) ==
  IF r.Error # <<>> THEN marshalIpaEuiccDataResponseError(r.Error[1])
  ELSE IF r.Data = <<>> THEN BadTLV ELSE marshalIpaEuiccData(r.Data[1])

unmarshalIpaEuiccDataChoice(choice) ==
  IF choice.isError \/ First(choice.content, tagInteger) # <<>>
  THEN Then(unmarshalIpaEuiccDataResponseError(choice.content),
            LAMBDA e : <<[Data |-> <<>>, Error |-> <<e>>]>>, Err)
  ELSE Then(unmarshalIpaEuiccData(choice.content),
            LAMBDA d : <<[Data |-> <<d>>, Error |-> <<>>]>>, Err)

UnmarshalIpaEuiccDataResponse(tlv) ==
  IF ~hasTag(tlv, tagIpaEuiccData) THEN Err
  ELSE unmarshalIpaEuiccDataChoice(unwrapIpaEuiccDataResponseChoice(tlv))
=============================================================================
