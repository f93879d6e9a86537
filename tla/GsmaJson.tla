------------------------------ MODULE GsmaJson ------------------------------
(***************************************************************************)
(* The GSMA HTTP JSON binding of ESipa (esipa/gsma_json.go): a JSON        *)
(* request is turned into the BER-TLV message the shared handler takes,    *)
(* its answer into a JSON response.                                        *)
(*                                                                         *)
(* A JSON text field is <<>> when blank.  A hexadecimal text is the        *)
(* sequence of its digits; a base64 text is [padded, tlv], the octets of   *)
(* one BER-TLV object with or without padding.  A response is [Status,     *)
(* Body], Body <<>> for an empty one.                                      *)
(***************************************************************************)
EXTENDS EsipaHandler

(* encoding/hex and encoding/base64. *)
HexDigits(octets) ==
  [i \in 1..2 * Len(octets) |->
     LET octet == octets[(i + 1) \div 2]
     IN IF i % 2 = 1 THEN octet \div 16 ELSE octet % 16]

HexDecode(digits) ==
  IF Len(digits) % 2 # 0 THEN Err
  ELSE <<[i \in 1..Len(digits) \div 2 |-> digits[2 * i - 1] * 16 + digits[2 * i]]>>

EncodeToString(tlv) == <<[padded |-> TRUE, tlv |-> tlv]>>
DecodeStd(text) == IF text.padded THEN <<text.tlv>> ELSE Err
DecodeRaw(text) == IF text.padded THEN Err ELSE <<text.tlv>>

parseGSMAEIDValue(value) ==
  LET decoded == HexDecode(value)
  IN IF value = <<>> \/ decoded = Err THEN Err
     ELSE IF Len(decoded[1]) # 16 THEN Err ELSE decoded

decodeGSMABase64(value) ==
  IF value = <<>> THEN Err
  ELSE IF DecodeStd(value[1]) # Err THEN DecodeStd(value[1])
  ELSE DecodeRaw(value[1])

(* A fault: only a bare result is given the EID of the JSON request. *)
parseGSMAResultTLV(explicit, tlv) ==
  IF hasTag(tlv, tagProvideEimResult) THEN tlv
  ELSE constructed(tagProvideEimResult, Opt(octetTLV, tagEID, explicit) \o <<tlv>>)

(* A BF50, given an EID when it has none; any other result is wrapped. *)
parseGSMAProvideOrResultTLV(explicit, tlv) ==
  LET eid == IF explicit # <<>> THEN explicit ELSE recoverEIDFromPackageResultTLV(tlv)
      named == Opt(octetTLV, tagEID, eid)
  IN IF ~hasTag(tlv, tagProvideEimResult)
     THEN constructed(tagProvideEimResult, named \o <<tlv>>)
     ELSE IF eid = <<>> \/ First(tlv, tagEID) # <<>> THEN tlv
     ELSE constructed(tagProvideEimResult, named \o tlv.kids)

provideTLVFromGSMA(eidValue, result) ==
  LET tlv == decodeGSMABase64(result)
      eid == IF eidValue = <<>> THEN <<<<>>>> ELSE parseGSMAEIDValue(eidValue)
  IN IF tlv = Err \/ eid = Err THEN Err
     ELSE <<parseGSMAProvideOrResultTLV(IF eidValue = <<>> THEN <<>> ELSE eid, tlv[1])>>

NoGet == [eimPackageError |-> 0, euiccPackageRequest |-> <<>>,
          ipaEuiccDataRequest |-> <<>>, profileDownloadTriggerRequest |-> <<>>]

(* Err, or the JSON body of a getEimPackage answer. *)
gsmaGetResponseFromBER(tlv) ==
  LET message == UnmarshalESipaMessageFromEimToIpa(tlv)
      response == UnmarshalGetEimPackageResponse(tlv)
      value == response[1].Value[1]
  IN IF message = Err THEN Err
     ELSE IF response = Err THEN Err
     ELSE CASE response[1].Kind = "euiccPackage" ->
                 <<[NoGet EXCEPT !.euiccPackageRequest =
                      EncodeToString(MarshalEuiccPackageRequest(value))]>>
            [] response[1].Kind = "ipaEuiccData" ->
                 <<[NoGet EXCEPT !.ipaEuiccDataRequest = EncodeToString(value)]>>
            [] response[1].Kind = "profileDownload" ->
                 <<[NoGet EXCEPT !.profileDownloadTriggerRequest =
                      EncodeToString(MarshalProfileDownloadTriggerRequest(value))]>>
            [] response[1].Kind = "error" -> <<[NoGet EXCEPT !.eimPackageError = value]>>

(* Err, or the JSON body [eimAcknowledgements, eimPackageError]. *)
gsmaProvideResponseFromBER(tlv) ==
  LET message == UnmarshalESipaMessageFromEimToIpa(tlv)
      response == UnmarshalProvideEimPackageResultResponse(tlv)
      none == [eimAcknowledgements |-> <<>>, eimPackageError |-> <<>>]
  IN IF message = Err THEN Err
     ELSE IF response = Err THEN Err
     ELSE CASE response[1].Kind = "empty" -> <<none>>
            [] response[1].Kind = "acknowledgements" ->
                 <<[none EXCEPT !.eimAcknowledgements =
                      EncodeToString(MarshalEimAcknowledgements(response[1].Value[1]))]>>
            [] response[1].Kind = "error" ->
                 <<[none EXCEPT !.eimPackageError = response[1].Value]>>

(***************************************************************************)
(* The three endpoints: [Status, Body, Effect], Effect being what the      *)
(* shared handler recorded and stored.                                     *)
(***************************************************************************)
BadRequest == [Status |-> 400, Body |-> <<>>, Effect |-> Nothing]

JsonAnswer(effect, body) ==
  CASE effect.Error -> [Status |-> 400, Body |-> <<>>, Effect |-> effect]
    [] ~effect.Error /\ effect.Body = <<>> ->
         [Status |-> 204, Body |-> <<>>, Effect |-> effect]
    [] OTHER -> [Status |-> IF body = Err THEN 500 ELSE 200, Body |-> body,
                 Effect |-> effect]

serveGSMAGetEimPackage(v, request) ==
  LET eid == parseGSMAEIDValue(request.eidValue)
      effect == handle(v, MarshalGetEimPackageRequest(
                  [EID |-> eid[1], NotifyStateChange |-> FALSE,
                   StateChangeCause |-> <<>>, RPLMN |-> <<>>]))
  IN IF eid = Err THEN BadRequest
     ELSE JsonAnswer(effect, gsmaGetResponseFromBER(effect.Body[1]))

serveGSMAProvideEimPackageResult(v, request) ==
  LET tlv == provideTLVFromGSMA(request.eidValue, request.eimPackageResult)
      effect == handle(v, tlv[1])
  IN IF tlv = Err THEN BadRequest
     ELSE JsonAnswer(effect, gsmaProvideResponseFromBER(effect.Body[1]))

serveGSMAHandleNotification(v, request) ==
  LET provide == decodeGSMABase64(request.provideEimPackageResult)
      notification == decodeGSMABase64(request.pendingNotification)
      pending == UnmarshalPendingNotification(notification[1])
      identified == IF pending = Err THEN FALSE
                    ELSE /\ NotificationSequenceNumber(pending[1]) # Err
                         /\ eidFromTLV(notification[1]) # <<>>
      content == IF request.provideEimPackageResult # <<>>
                 THEN IF provide = Err THEN Err
                      ELSE <<parseGSMAProvideOrResultTLV(<<>>, provide[1])>>
                 ELSE IF notification = Err THEN Err
                 ELSE IF identified THEN notification ELSE Err
      effect == handle(v, constructed(Ctx(61), content))
  IN IF (request.provideEimPackageResult = <<>>) = (request.pendingNotification = <<>>)
     THEN BadRequest
     ELSE IF content = Err THEN BadRequest
     ELSE JsonAnswer(effect, gsmaProvideResponseFromBER(effect.Body[1]))

(* POST only; the body is read and parsed by the endpoint of the path. *)
ServeGSMAJSON(v, path, request) ==
  LET noEndpoint == [BadRequest EXCEPT !.Status = 404]
  IN CASE path = "getEimPackage" -> serveGSMAGetEimPackage(v, request)
       [] path = "provideEimPackageResult" -> serveGSMAProvideEimPackageResult(v, request)
       [] path = "handleNotification" -> serveGSMAHandleNotification(v, request)
       [] OTHER -> noEndpoint
=============================================================================
