---------------------------- MODULE IpaMessages ----------------------------
(***************************************************************************)
(* What devices send: the messages the mock IPA builds (mockipa/result.go, *)
(* signing.go, runner.go, device_view.go, client.go) and the other forms   *)
(* the eIM is written to accept from the eUICCs and IPAs in the field      *)
(* (the Peer operators; the code for those is on the devices).             *)
(***************************************************************************)
EXTENDS GsmaJson

(***************************************************************************)
(* Notifications and installation results.                                 *)
(***************************************************************************)
notificationEventBits(kind) ==
  Map(LAMBDA k : k = kind, <<"install", "enable", "disable", "delete">>)

notificationMetadata(number, kind) ==
  MarshalNotificationMetadata([SequenceNumber |-> number,
    ProfileManagement |-> <<notificationEventBits(kind)>>,
    NotificationAddress |-> <<110>>])

SignedNotification(key, eid, number, kind) ==
  LET body == <<octetTLV(tagEID, eid), notificationMetadata(number, kind)>>
      signature == Signature(1, key, Bytes(constructed(Ctx(1), body)))
  IN constructed(Ctx(1), body \o <<octetTLV(tagSignature, signature)>>)

(* A profile installation result with a final result of the given kids. *)
PeerInstallation(final, metadata) ==
  constructed(tagProfileInstall,
    <<constructed(tagProfileInstallData,
        metadata \o <<constructed(tagProfileFinalResult, final)>>)>>)

ProfileDownloadResult(txid, installation) ==
  [EimTransactionID |-> txid, ProfileInstallation |-> <<>>,
   ProfileInstallationRaw |->
     IF installation # <<>> THEN installation
     ELSE <<PeerInstallation(<<constructed(Ctx(0), <<>>)>>, <<>>)>>,
   ProfileInstallationSucceeded |-> IF installation # <<>> THEN <<TRUE>> ELSE <<>>,
   Error |-> <<>>]

(***************************************************************************)
(* Results of packages.  `profiles' is the device's inventory.             *)
(***************************************************************************)
psmoResultData(psmo, profiles) ==
  LET number == resultTag[psmo.Operation]
  IN CASE psmo.Operation = "listProfileInfo" ->
            ProfileInfoListEuiccResult([Profiles |-> profiles, Error |-> <<>>])
       [] psmo.Operation = "getRAT" -> constructed(Ctx(number), <<>>)
       [] psmo.Operation = "setDefaultDpAddress" ->
            MarshalSetDefaultDPAddressResponse([Result |-> 0])
       [] OTHER -> IntegerEuiccResult(number, 0)

ecoResultData(eco, eimID) ==
  LET configured == IF eco.Config = <<>> THEN <<>> ELSE eco.Config[1].AssociationToken
      token == IF configured = <<>> THEN <<1>> ELSE configured
  IN CASE eco.Operation = "addEim" ->
            AddEimEuiccResult([AssociationToken |-> token, Code |-> <<>>])
       [] eco.Operation = "deleteEim" -> IntegerEuiccResult(9, 2)
       [] eco.Operation = "updateEim" -> IntegerEuiccResult(10, 0)
       [] eco.Operation = "listEim" ->
            ListEimEuiccResult([EimIDList |-> <<[EimID |-> eimID, EimIDType |-> <<>>]>>,
                                Error |-> <<>>])

successfulResultData(pkg, eimID, profiles) ==
  IF Len(pkg.Ops) # 1 THEN BadTLV
  ELSE IF pkg.Kind = "psmoList" THEN psmoResultData(pkg.Ops[1], profiles)
  ELSE ecoResultData(pkg.Ops[1], eimID)

signSGP32Marshaler(key, tlv, token) ==
  Signature(1, key, signatureInput(Bytes(tlv), token))

SignedEUICCPackageResult(key, token, profiles, request, number) ==
  LET signed == request.EuiccPackageSigned
      data == [EimID |-> signed.EimID, CounterValue |-> signed.CounterValue,
               EimTransactionID |-> signed.EimTransactionID, SeqNumber |-> number,
               Results |-> <<successfulResultData(signed.EuiccPackage, signed.EimID,
                                                  profiles)>>]
      signature == signSGP32Marshaler(key, MarshalEuiccPackageResultDataSigned(data), token)
  IN MarshalEuiccPackageResult([Kind |-> "ok",
       Value |-> [Data |-> data, Signature |-> signature]])

(* The result of an operation that ended with a code, as another eUICC may *)
(* encode it: its own arm, or the base type INTEGER (form "base").         *)
PeerResultData(operation, code, form, profiles, eims) ==
  LET number == resultTag[operation]
      list == constructed(IF form = "base" THEN Ctx(0) ELSE tagSequence,
                          Map(MarshalProfileInfo, profiles))
      failure == integerTLV(IF form = "base" THEN CtxP(1) ELSE tagInteger, code)
  IN CASE operation = "listProfileInfo" ->
            constructed(tagProfileInfoList, <<IF code = 0 THEN list ELSE failure>>)
       [] operation = "setDefaultDpAddress" ->
            MarshalSetDefaultDPAddressResponse([Result |-> code])
       [] operation = "getRAT" -> constructed(Ctx(number), <<>>)
       [] operation = "addEim" ->
            AddEimEuiccResult([AssociationToken |-> IF code = 0 THEN <<9>> ELSE <<>>,
                               Code |-> <<code>>])
       [] operation = "listEim" ->
            ListEimEuiccResult([EimIDList |-> eims,
                                Error |-> IF code = 0 THEN <<>> ELSE <<code>>])
       [] operation \in {"deleteEim", "updateEim"} -> IntegerEuiccResult(number, code)
       [] OTHER -> IF form = "base" THEN integerTLV(tagInteger, code)
                   ELSE IntegerEuiccResult(number, code)

(* The arm of an EuiccPackageResult under BF51, bare or with its CHOICE tag. *)
PeerArm(choice, number, kids) ==
  constructed(tagEuiccPkg, <<constructed(IF choice THEN Ctx(number) ELSE tagSequence, kids)>>)

(* Signed data and its signature in format 1 or 2. *)
PeerSigned(choice, number, data, format, key, token) ==
  PeerArm(choice, number,
    <<data, octetTLV(tagSignature,
                     Signature(format, key, signatureInput(Bytes(data), token)))>>)

(***************************************************************************)
(* IPA eUICC data.                                                         *)
(***************************************************************************)
RECURSIVE parseTagList(_)
(* Entries of one octet, or of several when the first ends in five ones;   *)
(* a truncated entry ends the list.                                        *)
parseTagList(tagList) ==
  LET ends == {n \in 2..Len(tagList) : tagList[n] < 128}
      length == IF tagList[1] % 32 # 31 THEN 1 ELSE IF ends = {} THEN 0 ELSE Min(ends)
  IN IF tagList = <<>> THEN <<>>
     ELSE IF length = 0 THEN <<>>
     ELSE <<SubSeq(tagList, 1, length)>>
          \o parseTagList(SubSeq(tagList, length + 1, Len(tagList)))

tagListContains(tagList, tag) ==
  tagList = <<>> \/ \E i \in DOMAIN parseTagList(tagList) : parseTagList(tagList)[i] = tag

(* `device' holds the data objects by name, each <<>> when it has none. *)
buildIpaEuiccDataResponse(eid, device, request) ==
  LET asked(tlvs) == SelectSeq(tlvs, LAMBDA o :
                       tagListContains(request.TagList, TagBytes(o.tag)))
      eidObject == octetTLV(tagEID, eid)
      objects == asked(<<eidObject>> \o Opt(utf8TLV, CtxP(1), device.DefaultSMDP)
                       \o device.Info1 \o device.Info2
                       \o Opt(utf8TLV, CtxP(3), device.RootSMDS)
                       \o device.Capabilities \o device.Profiles
                       \o <<constructed(Ctx(0), device.Notifications)>>
                       \o device.EUMCertificate \o device.EUICCCertificate
                       \o Opt(octetTLV, CtxP(7), request.EimTransactionID))
  IN IF objects # <<>> THEN objects
     ELSE <<eidObject>> \o device.Info1 \o device.Info2 \o device.Capabilities

(***************************************************************************)
(* Sending: ProvideEimPackageResult and what comes back.                   *)
(***************************************************************************)
uploadEimPackageResultTLV(eid, tlv) ==
  MarshalProvideEimPackageResult([EID |-> eid,
    EimPackageResult |-> [Kind |-> "raw", Value |-> <<>>, Notifications |-> <<>>,
                          Raw |-> <<tlv>>]])

(* EPRAndNotifications when there are notifications to send along. *)
UploadEUICCPackageResultWithNotifications(tlv, notifications) ==
  IF notifications = <<>> THEN tlv
  ELSE constructed(tagSequence, <<tlv, constructed(tagNotificationList, notifications)>>)

SendNotification(notification) ==
  constructed(Ctx(61), <<constructed(Ctx(0), <<notification>>)>>)

(* Anything that is not a list of acknowledgements acknowledges nothing. *)
decodeProvideResultAck(raw) ==
  IF raw = <<>> THEN <<>>
  ELSE Then(UnmarshalEimAcknowledgements(raw[1]), LAMBDA numbers : numbers, <<>>)
=============================================================================
