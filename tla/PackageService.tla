--------------------------- MODULE PackageService ---------------------------
(***************************************************************************)
(* Building and signing eUICC packages and verifying and interpreting      *)
(* their results (euiccpkg/constructors.go, operation.go, raw_tlv.go,      *)
(* service.go), without the store: what a result means, as a function of   *)
(* the request, the result's octets, the eUICC's key and the token.        *)
(***************************************************************************)
EXTENDS EsipaCodec, TLC

(***************************************************************************)
(* Packages of one operation.                                              *)
(***************************************************************************)
psmoPackage(operation, iccid, rollback, request) ==
  [Kind |-> "psmoList",
   Ops |-> <<[Operation |-> operation, ICCID |-> iccid,
              RollbackFlag |-> rollback, Request |-> request]>>]

ecoPackage(operation, config, eimID) ==
  [Kind |-> "ecoList",
   Ops |-> <<[Operation |-> operation, Config |-> config, EimID |-> eimID]>>]

(* The tag list is abstract: one octet stands for the default list. *)
profileInfoListRequest ==
  constructed(tagProfileInfoList, <<octetTLV(tagTagList, <<90>>)>>)

Enable(iccid, rollback) == psmoPackage("enable", iccid, rollback, <<>>)
Disable(iccid) == psmoPackage("disable", iccid, FALSE, <<>>)
Delete(iccid) == psmoPackage("delete", iccid, FALSE, <<>>)
ListProfileInfo ==
  psmoPackage("listProfileInfo", <<>>, FALSE, <<profileInfoListRequest>>)
GetRAT == psmoPackage("getRAT", <<>>, FALSE, <<>>)
SetFallbackAttribute(iccid) ==
  psmoPackage("setFallbackAttribute", iccid, FALSE, <<>>)
UnsetFallbackAttribute == psmoPackage("unsetFallbackAttribute", <<>>, FALSE, <<>>)

ConfigureImmediateEnable(immediate, oid, address) ==
  psmoPackage("configureImmediateEnable", <<>>, FALSE,
    <<[ImmediateEnableFlag |-> immediate, DefaultSMDPOID |-> oid,
       DefaultSMDPAddress |-> IF address = <<>> THEN <<>> ELSE <<address>>]>>)

SetDefaultDPAddress(address) ==
  psmoPackage("setDefaultDpAddress", <<>>, FALSE,
              <<[DefaultDPAddress |-> address]>>)

newEIMConfigurationData(eimID, fqdn, counter, kind, x509) ==
  IF eimID = <<>> \/ x509 = <<>> THEN Err
  ELSE <<[EimID |-> eimID, EimFQDN |-> IF fqdn = <<>> THEN <<>> ELSE <<fqdn>>,
          EimIDType |-> <<>>, CounterValue |-> <<counter>>,
          AssociationToken |-> <<>>,
          EimPublicKeyData |-> <<[Kind |-> kind, Data |-> x509[1]]>>,
          TrustedPublicKeyDataTLS |-> <<>>, EimSupportedProtocol |-> <<>>,
          EUICCCIPKID |-> <<>>, IndirectProfileDownload |-> FALSE,
          ESipaProprietaryProtocolInformation |-> <<>>]>>

AddEIM(config) == ecoPackage("addEim", config, <<>>)
UpdateEIM(config) == ecoPackage("updateEim", config, <<>>)
DeleteEIM(eimID) == ecoPackage("deleteEim", <<>>, eimID)
ListEIM == ecoPackage("listEim", <<>>, <<>>)

packagePSMO(pkg) ==
  IF pkg.Kind = "psmoList" /\ Len(pkg.Ops) = 1 THEN pkg.Ops[1].Operation ELSE "none"

packageECO(pkg) ==
  IF pkg.Kind = "ecoList" /\ Len(pkg.Ops) = 1 THEN pkg.Ops[1].Operation ELSE "none"

(* The context number of an operation's arm in EuiccResultData. *)
resultTag ==
  [enable |-> 3, disable |-> 4, delete |-> 5, listProfileInfo |-> 45,
   getRAT |-> 6, configureImmediateEnable |-> 7, setFallbackAttribute |-> 13,
   unsetFallbackAttribute |-> 14, setDefaultDpAddress |-> 101, addEim |-> 8,
   deleteEim |-> 9, updateEim |-> 10, listEim |-> 11]

(***************************************************************************)
(* Octets.  Bytes is the BER encoding of a TLV by the euicc-go library     *)
(* (external): one or two tag octets, a definite length, the value.        *)
(***************************************************************************)
TagBytes(tag) ==
  LET class == CASE tag[1] = "universal" -> 0 [] tag[1] = "application" -> 64
                 [] tag[1] = "context" -> 128 [] tag[1] = "private" -> 192
      lead == class + (IF tag[2] = "constructed" THEN 32 ELSE 0)
  IN IF tag[3] < 31 THEN <<lead + tag[3]>> ELSE <<lead + 31, tag[3]>>

LengthBytes(n) ==
  IF n < 128 THEN <<n>>
  ELSE IF n < 256 THEN <<129, n>>
  ELSE <<130, n \div 256, n % 256>>

RECURSIVE Bytes(_)
Bytes(tlv) ==
  LET value == FlattenSeq(Map(Bytes, tlv.kids)) \o tlv.val
  IN TagBytes(tlv.tag) \o LengthBytes(Len(value)) \o value

(* An ECDSA signature, symbolically: its format (1 for ASN.1 DER, 2 for    *)
(* TR-03111), the signing key and the octets signed (external).            *)
Signature(format, key, data) == <<format, key>> \o data

associationTokenTLV(value) == Bytes(integerTLV(CtxP(4), value))

(* A fault: the association token is left out of what is signed. *)
signatureInputWithoutToken(data, token) == data

signatureInput(data, token) ==
  data \o associationTokenTLV(IF token = <<>> THEN 0 ELSE token[1])

(***************************************************************************)
(* Sign: the request for a package, from the store's counter and token.    *)
(***************************************************************************)
Sign(eimID, key, counter, token, eid, txid, pkg) ==
  LET signed == [EimID |-> eimID, EID |-> eid, CounterValue |-> counter,
                 EimTransactionID |-> txid, EuiccPackage |-> pkg]
      input == signatureInput(Bytes(MarshalEuiccPackageSigned(signed)), token)
  IN [EuiccPackageSigned |-> signed, EimSignature |-> Signature(1, key, input)]

(***************************************************************************)
(* raw_tlv.go: the octets of the signed data inside a result's octets.  A  *)
(* span is [tagStart, valueStart, end, tag].                               *)
(***************************************************************************)
parseTLVSpan(data, offset) ==
  LET stops == {i \in offset + 1..Len(data) : data[i] < 128}
      high == data[offset] % 32 = 31
      lengthAt == (IF high THEN Min(stops) ELSE offset) + 1
      lead == data[lengthAt]
      octets == IF lead < 128 THEN 0 ELSE lead - 128
      length == IF lead < 128 THEN lead
                ELSE FoldLeft(LAMBDA acc, b : acc * 256 + b, 0,
                              SubSeq(data, lengthAt + 1, lengthAt + octets))
      valueStart == lengthAt + 1 + octets
  IN IF \/ offset > Len(data)
        \/ high /\ stops = {}
        \/ lengthAt > Len(data)
        \/ lead = 128 \/ octets > 4
        \/ lengthAt + octets > Len(data)
        \/ valueStart + length - 1 > Len(data)
     THEN Err
     ELSE <<[tagStart |-> offset, valueStart |-> valueStart,
             end |-> valueStart + length, tag |-> SubSeq(data, offset, lengthAt - 1)]>>

RECURSIVE childrenFrom(_, _, _)
childrenFrom(data, offset, end) ==
  LET before(child) == Then(childrenFrom(data, child.end, end),
                            LAMBDA rest : <<<<child>> \o rest>>, Err)
  IN IF offset >= end THEN <<<<>>>> ELSE Then(parseTLVSpan(data, offset), before, Err)

children(data, parent) == childrenFrom(data, parent.valueStart, parent.end)

onlyChild(data, parent) ==
  Then(parseTLVSpan(data, parent.valueStart),
       LAMBDA child : IF child.end # parent.end THEN Err ELSE <<child>>, Err)

isContextConstructedTag(tag, number) == tag = <<160 + number>>

(* A fault: the optional transaction identifier is not stepped over. *)
signedDataPrefixFixed(fields) == IF Len(fields) < 3 THEN 0 ELSE 3

(* The index of the field after the common prefix, or 0. *)
signedDataPrefix(fields) ==
  LET index == IF fields[3].tag = <<130>> THEN 4 ELSE 3
  IN IF \/ Len(fields) < 3 \/ fields[1].tag # <<128>> \/ fields[2].tag # <<129>>
        \/ index > Len(fields)
     THEN 0 ELSE index

isPackageResultDataSigned(fields) ==
  LET index == signedDataPrefix(fields)
  IN /\ index # 0
     /\ fields[index].tag = <<131>>
     /\ index + 1 = Len(fields) /\ fields[index + 1].tag = <<48>>

isPackageErrorDataSigned(fields) ==
  LET index == signedDataPrefix(fields)
  IN index # 0 /\ index = Len(fields) /\ fields[index].tag = <<2>>

validateResultSignedData(data, span) ==
  LET known(fields) == isPackageResultDataSigned(fields) \/ isPackageErrorDataSigned(fields)
  IN span.tag = <<48>> /\ Then(children(data, span), known, FALSE)

(* Err, or the octets; none when the result has no signature. *)
rawSignedDataFromResultDER(data) ==
  LET signed(spans) ==
        IF spans = <<>> THEN Err
        ELSE IF spans[Len(spans)].tag # <<95, 55>> THEN <<<<>>>>
        ELSE IF Len(spans) # 2 \/ ~validateResultSignedData(data, spans[1]) THEN Err
        ELSE <<SubSeq(data, spans[1].tagStart, spans[1].end - 1)>>
      selected(span) ==
        IF /\ span.tag # <<48>>
           /\ \A n \in {0, 1} : ~isContextConstructedTag(span.tag, n)
        THEN <<<<>>>> ELSE Then(children(data, span), signed, Err)
      root(span) ==
        IF span.end # Len(data) + 1 \/ span.tag # <<191, 81>> THEN Err
        ELSE Then(onlyChild(data, span), selected, Err)
  IN Then(parseTLVSpan(data, 1), root, Err)

(***************************************************************************)
(* Codes of results, by operation.                                         *)
(***************************************************************************)
CodeIn(table, value) ==
  IF value \in DOMAIN table THEN table[value] ELSE "unknown"

mapOperationResult(operation, value) ==
  LET undefined == 127 :> "undefined-error"
      notFound == 1 :> "iccid-or-aid-not-found"
      policy == 3 :> "disallowed-by-policy"
      table ==
        CASE operation = "enable" ->
               notFound @@ 2 :> "profile-not-in-disabled-state" @@ policy
               @@ 5 :> "cat-busy" @@ 20 :> "rollback-not-available" @@ undefined
          [] operation = "disable" ->
               notFound @@ 2 :> "profile-not-in-enabled-state" @@ policy
               @@ 5 :> "cat-busy" @@ undefined
          [] operation = "delete" ->
               notFound @@ 2 :> "profile-not-in-disabled-state" @@ policy
               @@ 20 :> "rollback-not-available"
               @@ 21 :> "return-fallback-profile" @@ undefined
          [] operation = "listProfileInfo" ->
               1 :> "incorrect-input-values" @@ 11 :> "profile-change-ongoing"
               @@ undefined
          [] operation = "configureImmediateEnable" ->
               1 :> "insufficient-memory" @@ 7 :> "command-error" @@ undefined
          [] operation = "setFallbackAttribute" ->
               notFound @@ 2 :> "fallback-not-allowed"
               @@ 3 :> "fallback-profile-enabled" @@ undefined
          [] operation = "unsetFallbackAttribute" ->
               2 :> "no-fallback-attribute" @@ 3 :> "fallback-profile-enabled"
               @@ 7 :> "command-error" @@ undefined
          [] operation = "setDefaultDpAddress" -> undefined
          [] OTHER -> <<>>
  IN IF value = 0 THEN "ok" ELSE CodeIn(table, value)

mapAddEIMResult(value) ==
  CodeIn(0 :> "ok" @@ 1 :> "insufficient-memory"
         @@ 2 :> "associated-eim-already-exists" @@ 3 :> "ci-pk-unknown"
         @@ 5 :> "invalid-association-token" @@ 6 :> "counter-value-out-of-range"
         @@ 7 :> "command-error" @@ 127 :> "undefined-error", value)

mapDeleteEIMResult(value) ==
  CodeIn(0 :> "ok" @@ 1 :> "eim-not-found" @@ 2 :> "last-eim-deleted"
         @@ 7 :> "command-error" @@ 127 :> "undefined-error", value)

mapUpdateEIMResult(value) ==
  CodeIn(0 :> "ok" @@ 1 :> "eim-not-found" @@ 3 :> "ci-pk-unknown"
         @@ 6 :> "counter-value-out-of-range" @@ 7 :> "command-error"
         @@ 127 :> "undefined-error", value)

mapListEIMResult(value) == CodeIn(127 :> "undefined-error", value)

mapPackageError(value) ==
  CodeIn(3 :> "invalid-eid" @@ 4 :> "replay-error" @@ 6 :> "counter-value-out-of-range"
         @@ 15 :> "size-overflow" @@ 104 :> "ecall-active"
         @@ 127 :> "undefined-error", value)

mapUnsignedPackageError(value) ==
  CodeIn(15 :> "size-overflow" @@ 127 :> "undefined-error", value)

(***************************************************************************)
(* The domain result.  Code is ResultCode or ECOResultCode, Error the      *)
(* package error, Table the rules authorisation table.  NotFound is        *)
(* ErrResultNotFound, an answer without an arm for the operation.          *)
(***************************************************************************)
NoResult ==
  [OK |-> FALSE, Operation |-> "none", Code |-> "", RawResultCode |-> 0,
   Token |-> <<>>, EIMs |-> <<>>, Profiles |-> <<>>, Table |-> <<>>, Error |-> ""]

NotFound == <<[NoResult EXCEPT !.Error = "result-not-found"]>>

CodeResult(operation, code, okCodes, value) ==
  [NoResult EXCEPT !.OK = code \in okCodes, !.Operation = operation,
                   !.Code = code, !.RawResultCode = value]

(* integerResult and its mapping of the value. *)
integerOperationResult(operation, raw, okCodes) ==
  LET code(v) == CASE operation = "deleteEim" -> mapDeleteEIMResult(v)
                   [] operation = "updateEim" -> mapUpdateEIMResult(v)
                   [] OTHER -> mapOperationResult(operation, v)
  IN Then(integerValue(raw), LAMBDA v : <<CodeResult(operation, code(v), okCodes, v)>>, Err)

baseTypeIntegerResult(operation, results) ==
  IF /\ operation \notin {"listProfileInfo", "getRAT", "setDefaultDpAddress"}
     /\ Len(results) = 1 /\ hasTag(results[1], tagInteger)
  THEN results ELSE <<>>

(* A fault: any state that is present counts as enabled. *)
listProfileInfoResultPresent(raw) ==
  LET info(p) == [ICCID |-> p.ICCID[1], IsEnabled |-> p.ProfileState # <<>>,
                  IsFallback |-> p.FallbackAttribute]
      result(decoded) == <<[CodeResult("listProfileInfo", "ok", {"ok"}, 0)
                            EXCEPT !.Profiles = Map(info, decoded.Profiles)]>>
  IN Then(UnmarshalProfileInfoListResponse(raw), result, Err)

listProfileInfoResult(raw) ==
  LET info(p) == [ICCID |-> p.ICCID[1], IsEnabled |-> p.ProfileState = <<1>>,
                  IsFallback |-> p.FallbackAttribute]
      named(profiles) == SelectSeq(profiles, LAMBDA p : p.ICCID # <<>>)
      failed(value) ==
        CodeResult("listProfileInfo", mapOperationResult("listProfileInfo", value),
                   {}, value)
      result(decoded) ==
        IF decoded.Error # <<>> THEN <<failed(decoded.Error[1])>>
        ELSE <<[CodeResult("listProfileInfo", "ok", {"ok"}, 0)
                EXCEPT !.Profiles = Map(info, named(decoded.Profiles))]>>
  IN Then(UnmarshalProfileInfoListResponse(raw), result, Err)

setDefaultDPAddressResult(raw) ==
  LET result(value) == CodeResult("setDefaultDpAddress",
                         mapOperationResult("setDefaultDpAddress", value), {"ok"}, value)
  IN Then(UnmarshalSetDefaultDPAddressResponse(raw), LAMBDA d : <<result(d.Result)>>, Err)

resultDataByTag(results, number) ==
  FirstOf(SelectSeq(results, LAMBDA r : ContextNumber(r, number)))

psmoOperationResult(operation, results) ==
  LET integer(raw) == integerOperationResult(operation, raw, {"ok"})
      tagged(raw) ==
        CASE operation = "listProfileInfo" -> listProfileInfoResult(raw)
          [] operation = "getRAT" ->
               <<[CodeResult(operation, "ok", {"ok"}, 0) EXCEPT !.Table = <<raw>>]>>
          [] operation = "setDefaultDpAddress" -> setDefaultDPAddressResult(raw)
          [] OTHER -> integer(raw)
  IN Then(resultDataByTag(results, resultTag[operation]), tagged,
          Then(baseTypeIntegerResult(operation, results), integer, NotFound))

explicitResultChild(raw, number) ==
  IF ContextNumber(raw, number) /\ Len(raw.kids) = 1 THEN <<raw.kids[1]>> ELSE Err

addEIMResult(raw) ==
  LET result(decoded) ==
        IF decoded.AssociationToken # <<>>
        THEN <<[CodeResult("addEim", "ok", {"ok"}, 0)
                EXCEPT !.Token = decoded.AssociationToken]>>
        ELSE Then(decoded.Code, LAMBDA code :
                  <<CodeResult("addEim", mapAddEIMResult(code), {"ok"}, code)>>, Err)
  IN Then(explicitResultChild(raw, 8),
          LAMBDA child : Then(UnmarshalAddEimResult(child), result, Err), Err)

listEIMResult(raw) ==
  LET listed(ids) == [CodeResult("listEim", "ok", {"ok"}, 0) EXCEPT !.EIMs = ids]
      result(decoded) ==
        Then(decoded.Error, LAMBDA error :
               <<CodeResult("listEim", mapListEIMResult(error), {}, error)>>,
             <<listed(decoded.EimIDList)>>)
  IN Then(explicitResultChild(raw, 11),
          LAMBDA child : Then(UnmarshalListEimResult(child), result, Err), Err)

ecoOperationResult(operation, results) ==
  LET tagged(raw) ==
        CASE operation = "addEim" -> addEIMResult(raw)
          [] operation = "deleteEim" ->
               integerOperationResult(operation, raw, {"ok", "last-eim-deleted"})
          [] operation = "updateEim" ->
               integerOperationResult(operation, raw, {"ok"})
          [] operation = "listEim" -> listEIMResult(raw)
  IN Then(resultDataByTag(results, resultTag[operation]), tagged, NotFound)

operationResult(pkg, results) ==
  IF packagePSMO(pkg) # "none" THEN psmoOperationResult(packagePSMO(pkg), results)
  ELSE IF packageECO(pkg) # "none" THEN ecoOperationResult(packageECO(pkg), results)
  ELSE <<CodeResult("none", "ok", {"ok"}, 0)>>

(***************************************************************************)
(* Verification against the signed request: [EimID, CounterValue,          *)
(* EimTransactionID, EuiccPackage].  No caller asks for a sequence number. *)
(***************************************************************************)
verifySignedBytes(key, data, signature) ==
  /\ data # <<>>
  /\ signature \in {Signature(1, key, data), Signature(2, key, data)}

matchSignedResult(request, data) ==
  /\ data.EimID = request.EimID
  /\ data.EimTransactionID = request.EimTransactionID
  /\ data.CounterValue = request.CounterValue

verifyResult(decoded, request, key, token, rawSignedData) ==
  LET value == decoded.Value
      input == signatureInput(rawSignedData, token)
      verified == /\ verifySignedBytes(key, input, value.Signature)
                  /\ matchSignedResult(request, value.Data)
  IN CASE decoded.Kind = "ok" ->
            IF verified THEN operationResult(request.EuiccPackage, value.Data.Results)
            ELSE Err
       [] decoded.Kind = "errorSigned" ->
            IF ~verified THEN Err
            ELSE <<[NoResult EXCEPT !.Error = mapPackageError(value.Data.ErrorCode),
                                    !.RawResultCode = value.Data.ErrorCode]>>
       [] decoded.Kind = "errorUnsigned" ->
            IF \/ value.EimID # request.EimID
               \/ value.EimTransactionID # request.EimTransactionID
            THEN Err
            ELSE IF value.ErrorCode = <<>>
            THEN <<[NoResult EXCEPT !.Error = "missing"]>>
            ELSE <<[NoResult EXCEPT
                     !.Error = mapUnsignedPackageError(value.ErrorCode[1]),
                     !.RawResultCode = value.ErrorCode[1]]>>

VerifyPackageResult(request, tlv, key, token) ==
  LET decoded == UnmarshalEuiccPackageResult(tlv)
      raw == rawSignedDataFromResultDER(Bytes(tlv))
  IN IF decoded = Err THEN Err
     ELSE IF raw = Err THEN Err
     ELSE verifyResult(decoded[1], request, key, token, raw[1])
=============================================================================
