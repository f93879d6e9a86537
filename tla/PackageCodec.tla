---------------------------- MODULE PackageCodec ----------------------------
(***************************************************************************)
(* Encoders and decoders of what the eIM sends to an eUICC                 *)
(* (asn1/euicc_package.go): eIM configuration data, the configuration      *)
(* operations (ECO), the profile operations (PSMO), the package that       *)
(* carries them and the signed request around it.                          *)
(***************************************************************************)
EXTENDS Tlv

(* eimPublicKeyData [5] and trustedPublicKeyDataTls [6]: [Kind, Data].     *)
(* The encoder nests the X.509 object under the arm; the decoder also      *)
(* takes the object's fields directly under it.                            *)
x509ChoiceArmTag == [spki |-> Ctx(0), certificate |-> Ctx(1)]

marshalX509Choice(tag, choice) ==
  IF choice.Kind \notin DOMAIN x509ChoiceArmTag THEN BadTLV
  ELSE constructed(tag,
         <<constructed(x509ChoiceArmTag[choice.Kind], <<choice.Data>>)>>)

x509ChoiceArmObject(arm) ==
  IF Len(arm.kids) = 1 /\ hasTag(arm.kids[1], tagSequence)
  THEN <<arm.kids[1]>>
  ELSE IF Len(arm.kids) > 1
  THEN <<constructed(tagSequence, arm.kids)>>
  ELSE Err

unmarshalX509Choice(tlv) ==
  LET arm == tlv.kids[1]
      kinds == {k \in DOMAIN x509ChoiceArmTag : hasTag(arm, x509ChoiceArmTag[k])}
  IN IF Len(tlv.kids) # 1 \/ kinds = {} THEN Err
     ELSE Fields([Kind |-> <<CHOOSE k \in kinds : TRUE>>,
                  Data |-> x509ChoiceArmObject(arm)])

MarshalEimConfigurationData(e) ==
  constructed(tagSequence,
       <<utf8TLV(CtxP(0), e.EimID)>>
    \o Opt(utf8TLV, CtxP(1), e.EimFQDN)
    \o Opt(integerTLV, CtxP(2), e.EimIDType)
    \o Opt(integerTLV, CtxP(3), e.CounterValue)
    \o Opt(integerTLV, CtxP(4), e.AssociationToken)
    \o Opt(marshalX509Choice, Ctx(5), e.EimPublicKeyData)
    \o Opt(marshalX509Choice, Ctx(6), e.TrustedPublicKeyDataTLS)
    \o Opt(bitStringTLV, CtxP(7), e.EimSupportedProtocol)
    \o Opt(octetTLV, CtxP(8), e.EUICCCIPKID)
    \o Flag(CtxP(9), e.IndirectProfileDownload)
    \o e.ESipaProprietaryProtocolInformation)

UnmarshalEimConfigurationData(tlv) ==
  IF ~hasTag(tlv, tagSequence) THEN Err
  ELSE Fields([
    EimID |-> Need(tlv, CtxP(0), utf8Value),
    EimFQDN |-> May(tlv, CtxP(1), utf8Value),
    EimIDType |-> May(tlv, CtxP(2), integerValue),
    CounterValue |-> May(tlv, CtxP(3), integerValue),
    AssociationToken |-> May(tlv, CtxP(4), integerValue),
    EimPublicKeyData |-> May(tlv, Ctx(5), unmarshalX509Choice),
    TrustedPublicKeyDataTLS |-> May(tlv, Ctx(6), unmarshalX509Choice),
    EimSupportedProtocol |-> May(tlv, CtxP(7), bitStringValue),
    EUICCCIPKID |-> May(tlv, CtxP(8), octetValue),
    IndirectProfileDownload |-> Has(tlv, CtxP(9)),
    ESipaProprietaryProtocolInformation |-> May(tlv, Ctx(10), Raw)])

marshalTaggedEimConfig(tag, config) ==
  LET retagged(encoded) == IF encoded = BadTLV THEN BadTLV
                           ELSE constructed(tag, encoded.kids)
  IN IF config = <<>> THEN BadTLV ELSE retagged(MarshalEimConfigurationData(config[1]))

unmarshalTaggedEimConfig(tlv) ==
  UnmarshalEimConfigurationData(constructed(tagSequence, tlv.kids))

(* Eco: [Operation, Config, EimID]. *)
MarshalEco(e) ==
  CASE e.Operation = "addEim" -> marshalTaggedEimConfig(Ctx(8), e.Config)
    [] e.Operation = "deleteEim" ->
         constructed(Ctx(9), <<utf8TLV(CtxP(0), e.EimID)>>)
    [] e.Operation = "updateEim" -> marshalTaggedEimConfig(Ctx(10), e.Config)
    [] e.Operation = "listEim" -> constructed(Ctx(11), <<>>)
    [] OTHER -> BadTLV

UnmarshalEco(tlv) ==
  LET eco(operation, config, eimID) ==
        Fields([Operation |-> <<operation>>, Config |-> config, EimID |-> eimID])
  IN CASE hasTag(tlv, Ctx(8)) ->
            eco("addEim", Some(unmarshalTaggedEimConfig(tlv)), <<<<>>>>)
       [] hasTag(tlv, Ctx(9)) ->
            eco("deleteEim", <<<<>>>>, Need(tlv, CtxP(0), utf8Value))
       [] hasTag(tlv, Ctx(10)) ->
            eco("updateEim", Some(unmarshalTaggedEimConfig(tlv)), <<<<>>>>)
       [] hasTag(tlv, Ctx(11)) -> eco("listEim", <<<<>>>>, <<<<>>>>)
       [] OTHER -> Err

(* configureImmediateEnable [7]; an object identifier is its octets. *)
marshalConfigureImmediateEnable(value) ==
  constructed(Ctx(7),
    IF value = <<>> THEN <<>>
    ELSE Flag(CtxP(0), value[1].ImmediateEnableFlag)
         \o Opt(octetTLV, CtxP(1), value[1].DefaultSMDPOID)
         \o Opt(utf8TLV, CtxP(2), value[1].DefaultSMDPAddress))

unmarshalConfigureImmediateEnable(tlv) ==
  Fields([ImmediateEnableFlag |-> Has(tlv, CtxP(0)),
          DefaultSMDPOID |-> May(tlv, CtxP(1), octetValue),
          DefaultSMDPAddress |-> May(tlv, CtxP(2), utf8Value)])

MarshalSetDefaultDPAddressRequest(r) ==
  constructed(tagSetDefaultDPAddress, <<utf8TLV(tagUTF8, r.DefaultDPAddress)>>)

UnmarshalSetDefaultDPAddressRequest(tlv) ==
  IF ~hasTag(tlv, tagSetDefaultDPAddress) \/ Len(tlv.kids) # 1 THEN Err
  ELSE Fields([DefaultDPAddress |-> utf8Value(tlv.kids[1])])

MarshalSetDefaultDPAddressResponse(r) ==
  constructed(tagSetDefaultDPAddress, <<integerTLV(tagInteger, r.Result)>>)

UnmarshalSetDefaultDPAddressResponse(tlv) ==
  IF ~hasTag(tlv, tagSetDefaultDPAddress) \/ Len(tlv.kids) # 1 THEN Err
  ELSE Fields([Result |-> integerValue(tlv.kids[1])])

(***************************************************************************)
(* Psmo: [Operation, ICCID, RollbackFlag, Request], Request holding the    *)
(* operation's own structure (ProfileInfoListRequest, ImmediateEnable or   *)
(* SetDefaultDPAddress).                                                   *)
(***************************************************************************)
MarshalPsmo(p) ==
  LET iccid == octetTLV(tagEID, p.ICCID)
  IN CASE p.Operation = "enable" ->
            constructed(Ctx(3), <<iccid>> \o Flag(tagNull, p.RollbackFlag))
       [] p.Operation = "disable" -> constructed(Ctx(4), <<iccid>>)
       [] p.Operation = "delete" -> constructed(Ctx(5), <<iccid>>)
       [] p.Operation = "listProfileInfo" ->
            IF p.Request = <<>> THEN BadTLV ELSE p.Request[1]
       [] p.Operation = "getRAT" -> constructed(Ctx(6), <<>>)
       [] p.Operation = "configureImmediateEnable" ->
            marshalConfigureImmediateEnable(p.Request)
       [] p.Operation = "setFallbackAttribute" -> constructed(Ctx(8), <<iccid>>)
       [] p.Operation = "unsetFallbackAttribute" -> constructed(Ctx(9), <<>>)
       [] p.Operation = "setDefaultDpAddress" ->
            IF p.Request = <<>> THEN BadTLV
            ELSE MarshalSetDefaultDPAddressRequest(p.Request[1])
       [] OTHER -> BadTLV

UnmarshalPsmo(tlv) ==
  LET psmo(operation, iccid, rollback, request) ==
        Fields([Operation |-> <<operation>>, ICCID |-> iccid,
                RollbackFlag |-> rollback, Request |-> request])
      profile(operation, rollback) ==
        psmo(operation, Need(tlv, tagEID, octetValue), rollback, <<<<>>>>)
      other(operation, request) ==
        psmo(operation, <<<<>>>>, <<FALSE>>, request)
  IN CASE hasTag(tlv, Ctx(3)) -> profile("enable", Has(tlv, tagNull))
       [] hasTag(tlv, Ctx(4)) -> profile("disable", <<FALSE>>)
       [] hasTag(tlv, Ctx(5)) -> profile("delete", <<FALSE>>)
       [] hasTag(tlv, tagProfileInfoList) -> other("listProfileInfo", <<<<tlv>>>>)
       [] hasTag(tlv, Ctx(6)) -> other("getRAT", <<<<>>>>)
       [] hasTag(tlv, Ctx(7)) ->
            other("configureImmediateEnable",
                  Some(unmarshalConfigureImmediateEnable(tlv)))
       [] hasTag(tlv, Ctx(8)) -> profile("setFallbackAttribute", <<FALSE>>)
       [] hasTag(tlv, Ctx(9)) -> other("unsetFallbackAttribute", <<<<>>>>)
       [] hasTag(tlv, tagSetDefaultDPAddress) ->
            other("setDefaultDpAddress",
                  Some(UnmarshalSetDefaultDPAddressRequest(tlv)))
       [] OTHER -> Err

(* EuiccPackage: [Kind, Ops], Ops being the psmoList or the ecoList. *)
MarshalEuiccPackage(p) ==
  CASE p.Kind = "psmoList" -> constructed(Ctx(0), Map(MarshalPsmo, p.Ops))
    [] p.Kind = "ecoList" -> constructed(Ctx(1), Map(MarshalEco, p.Ops))
    [] OTHER -> BadTLV

UnmarshalEuiccPackage(tlv) ==
  CASE hasTag(tlv, Ctx(0)) ->
         Fields([Kind |-> <<"psmoList">>, Ops |-> DecodeAll(UnmarshalPsmo, tlv.kids)])
    [] hasTag(tlv, Ctx(1)) ->
         Fields([Kind |-> <<"ecoList">>, Ops |-> DecodeAll(UnmarshalEco, tlv.kids)])
    [] OTHER -> Err

MarshalEuiccPackageSigned(s) ==
  constructed(tagSequence,
       <<utf8TLV(CtxP(0), s.EimID), octetTLV(tagEID, s.EID),
         integerTLV(CtxP(1), s.CounterValue)>>
    \o Opt(octetTLV, CtxP(2), s.EimTransactionID)
    \o <<MarshalEuiccPackage(s.EuiccPackage)>>)

UnmarshalEuiccPackageSigned(tlv) ==
  IF ~hasTag(tlv, tagSequence) THEN Err
  ELSE Fields([
    EimID |-> Need(tlv, CtxP(0), utf8Value),
    EID |-> Need(tlv, tagEID, octetValue),
    CounterValue |-> Need(tlv, CtxP(1), integerValue),
    EimTransactionID |-> May(tlv, CtxP(2), octetValue),
    EuiccPackage |-> Then(First(tlv, Ctx(0)) \o First(tlv, Ctx(1)),
                          UnmarshalEuiccPackage, Err)])

MarshalEuiccPackageRequest(r) ==
  constructed(tagEuiccPkg, <<MarshalEuiccPackageSigned(r.EuiccPackageSigned),
                             octetTLV(tagSignature, r.EimSignature)>>)

UnmarshalEuiccPackageRequest(tlv) ==
  IF ~hasTag(tlv, tagEuiccPkg) \/ Len(tlv.kids) < 2 THEN Err
  ELSE Fields([
    EuiccPackageSigned |-> UnmarshalEuiccPackageSigned(tlv.kids[1]),
    EimSignature |-> Need(tlv, tagSignature, octetValue)])
=============================================================================
