----------------------------- MODULE MCExchange -----------------------------
(***************************************************************************)
(* Instances of EsipaExchange.                                             *)
(***************************************************************************)
EXTENDS EsipaExchange

DeviceA == [i \in 1..16 |-> 137]
DeviceB == [i \in 1..16 |-> i]
MCDevices == {DeviceA, DeviceB}

ICCID == <<137, 1>>
Package(pkg) == [EID |-> DeviceA, Kind |-> "euiccPackage", Value |-> pkg]
DataRequest(tags) == [EID |-> DeviceA, Kind |-> "ipaEuiccData", Value |-> tags]
Trigger(kind, text) ==
  [EID |-> DeviceA, Kind |-> "profileDownload", Value |-> [Kind |-> kind, Text |-> text]]

Config(kind) ==
  newEIMConfigurationData(<<102>>, <<104>>, 1, kind,
    <<constructed(tagSequence, <<octetTLV(tagOctet, <<1>>)>>)>>)

FullConfig ==
  <<[Config("spki")[1] EXCEPT
      !.EimIDType = <<1>>, !.AssociationToken = <<1>>, !.CounterValue = <<200>>,
      !.TrustedPublicKeyDataTLS =
        <<[Kind |-> "certificate",
           Data |-> constructed(tagSequence, <<octetTLV(tagOctet, <<2>>)>>)]>>,
      !.EimSupportedProtocol = <<<<TRUE, FALSE, TRUE>>>>, !.EUICCCIPKID = <<<<7>>>>,
      !.IndirectProfileDownload = TRUE,
      !.ESipaProprietaryProtocolInformation = <<constructed(Ctx(10), <<>>)>>]>>

PackageOrders ==
  {Package(p) : p \in
     {Enable(ICCID, FALSE), Enable(ICCID, TRUE), Disable(ICCID), Delete(ICCID),
      ListProfileInfo, GetRAT, ConfigureImmediateEnable(TRUE, <<>>, <<>>),
      ConfigureImmediateEnable(FALSE, <<<<6, 1>>>>, <<115>>),
      SetFallbackAttribute(ICCID), UnsetFallbackAttribute, SetDefaultDPAddress(<<115>>),
      AddEIM(Config("spki")), AddEIM(FullConfig), UpdateEIM(Config("certificate")),
      DeleteEIM(<<102>>), ListEIM}}

(* The default tag list; EID and transaction too; everything. *)
DataOrders == {DataRequest(t) : t \in
  {<<>>, <<90, 129, 191, 34, 160, 135>>,
   <<90, 129, 191, 32, 191, 34, 131, 168, 191, 45, 160, 165, 166, 135>>}}

TriggerOrders ==
  {Trigger("activationCode", <<<<76>>>>), Trigger("contactDefaultSmdp", <<>>),
   Trigger("contactSmds", <<>>), Trigger("contactSmds", <<<<115>>>>)}

MCOrders == PackageOrders \cup DataOrders \cup TriggerOrders

Default ==
  [device |-> "peer", choice |-> FALSE, form |-> "arm", format |-> 1, signer |-> "own",
   number |-> 7, notes |-> <<3>>, carrier |-> "provide", named |-> TRUE]

Mocks == {[Default EXCEPT !.device = "mock", !.notes = n, !.number = 0] :
            n \in {<<>>, <<3, 5>>}}

Encodings ==
  {[Default EXCEPT !.choice = c, !.form = f, !.format = m, !.signer = k] :
     c \in BOOLEAN, f \in {"arm", "base"}, m \in {1, 2}, k \in {"own", "other", "stale"}}

Carriers ==
  {[Default EXCEPT !.carrier = c[1], !.choice = c[2], !.named = e, !.notes = n[1],
                   !.number = n[2]] :
     c \in {<<"provide", TRUE>>, <<"notify", FALSE>>, <<"transfer", FALSE>>,
            <<"transfer", TRUE>>, <<"json", FALSE>>, <<"jsonProvide", TRUE>>,
            <<"jsonNotify", FALSE>>},
     e \in BOOLEAN, n \in {<< <<>>, 0>>, << <<3, 4>>, 3>>}}

Alone == [Default EXCEPT !.device = "mock", !.carrier = "pending"]

Codes(class, codes) == {[Class |-> class, Code |-> n] : n \in codes}
Errors == Codes("errorSigned", {4}) \cup Codes("errorUnsigned", {15})
          \cup Codes("responseError", {1})

ReceiptCodes == {[Class |-> c, Code |-> n] : c \in Receipts, n \in {1, 2}}

Verified(token) == [unverified |-> FALSE, token |-> token, key |-> <<EuiccKey>>]
Unverified == [unverified |-> TRUE, token |-> <<>>, key |-> <<>>]

(* Every order in every encoding, one operation at a time. *)
EncodingScenarios ==
  {[orders |-> <<o>>, shapes |-> Mocks \cup Encodings, setting |-> s,
    outcomes |-> Codes("ok", {0, 1, 2, 127, 200}) \cup Errors] :
     o \in MCOrders, s \in {Verified(<<>>), Verified(<<5>>), Unverified}}

(* Representative orders over every carrier, another operation queued for  *)
(* the same device or for another.                                         *)
CarrierScenarios ==
  LET first == {Package(Enable(ICCID, FALSE)), Package(ListEIM), Trigger("contactSmds", <<>>)}
               \cup DataOrders
      second == {Package(Disable(ICCID)), [Package(Disable(ICCID)) EXCEPT !.EID = DeviceB],
                 DataRequest(<<>>), [Trigger("contactSmds", <<>>) EXCEPT !.EID = DeviceB]}
  IN {[orders |-> <<o, p>>, shapes |-> Carriers \cup {Alone}, setting |-> s,
       outcomes |-> Codes("ok", {0}) \cup Errors \cup ReceiptCodes] :
        o \in first, p \in second, s \in {Verified(<<5>>), Unverified}}

(* An eUICC that leaves out the SEQUENCE around its single result. *)
SingleArmScenarios ==
  {[orders |-> <<Package(p)>>, shapes |-> {[Default EXCEPT !.form = "single"]},
    setting |-> s, outcomes |-> Codes("ok", {0, 2}) \cup Errors] :
     p \in {Enable(ICCID, FALSE), Disable(ICCID)}, s \in {Verified(<<5>>), Unverified}}

MCScenarios == EncodingScenarios \cup CarrierScenarios \cup SingleArmScenarios
=============================================================================
