-------------------------------- MODULE Tlv --------------------------------
(***************************************************************************)
(* BER-TLV objects and the helpers every SGP.32 structure is encoded and   *)
(* decoded with (asn1/codec.go, asn1/tags.go).  A TLV is a tree            *)
(* [tag, val, kids]; an octet string is a sequence of 0..255.              *)
(*                                                                         *)
(* A Go pointer or slice that may be nil is a sequence of length 0 or 1.   *)
(* A decoder returns Err or <<value>>.  An encoder returns a TLV or        *)
(* BadTLV, the encoder's error; `constructed' passes an error on, which is *)
(* what every "if err != nil { return nil, err }" does.                    *)
(***************************************************************************)
EXTENDS Integers, Sequences

Err == <<>>

Universal(form, n) == <<"universal", form, n>>
Application(n) == <<"application", "primitive", n>>
Ctx(n) == <<"context", "constructed", n>>
CtxP(n) == <<"context", "primitive", n>>

tagSequence == Universal("constructed", 16)
tagInteger == Universal("primitive", 2)
tagBitString == Universal("primitive", 3)
tagOctet == Universal("primitive", 4)
tagNull == Universal("primitive", 5)
tagUTF8 == Universal("primitive", 12)
tagEID == Application(26)
tagSignature == Application(55)
tagTagList == Application(28)
tagEuiccPkg == Ctx(81)
tagIpaEuiccData == Ctx(82)
tagEimAck == Ctx(83)
tagDownloadTrig == Ctx(84)
tagTransferEimPackage == Ctx(78)
tagGetEimPackage == Ctx(79)
tagProvideEimResult == Ctx(80)
tagProfileInfoList == Ctx(45)
tagProfileInfo == <<"private", "constructed", 3>>
tagProfileState == CtxP(112)
tagFallbackAttribute == CtxP(38)
tagNotificationList == Ctx(0)
tagNotificationMeta == Ctx(47)
tagProfileInstall == Ctx(55)
tagProfileInstallData == Ctx(39)
tagProfileFinalResult == Ctx(2)
tagSetDefaultDPAddress == Ctx(101)

(* The encoder's error value, and the two constructors of TLVs. *)
BadTLV == [tag |-> <<"error", "none", 0>>, val |-> <<>>, kids |-> <<>>]

constructed(tag, kids) ==
  IF \E i \in DOMAIN kids : kids[i] = BadTLV
  THEN BadTLV
  ELSE [tag |-> tag, val |-> <<>>, kids |-> kids]

primitiveTLV(tag, octets) == [tag |-> tag, val |-> octets, kids |-> <<>>]

ContextNumber(tlv, n) == tlv.tag[1] = "context" /\ tlv.tag[3] = n
hasTag(tlv, tag) == tlv.tag = tag

(* tlv.First(tag): the first child with that tag, if there is one. *)
FirstOf(s) == IF s = <<>> THEN <<>> ELSE <<s[1]>>
First(tlv, tag) == FirstOf(SelectSeq(tlv.kids, LAMBDA c : c.tag = tag))

(***************************************************************************)
(* Values.  INTEGER is the minimal two's complement of euicc-go's          *)
(* primitive.MarshalInt; the model uses integers of at most two octets.    *)
(***************************************************************************)
MarshalInt(n) ==
  IF n \in -128..127 THEN <<n % 256>> ELSE <<(n \div 256) % 256, n % 256>>

UnmarshalInt(octets) ==
  LET width == 256 ^ Len(octets)
      value == IF Len(octets) = 1 THEN octets[1]
               ELSE octets[1] * 256 + octets[2]
  IN IF Len(octets) \notin 1..2 THEN Err
     ELSE <<IF octets[1] >= 128 THEN value - width ELSE value>>

integerTLV(tag, n) == primitiveTLV(tag, MarshalInt(n))
integerValue(tlv) == UnmarshalInt(tlv.val)
utf8TLV(tag, text) == primitiveTLV(tag, text)
utf8Value(tlv) == <<tlv.val>>
octetTLV(tag, octets) == primitiveTLV(tag, octets)
octetValue(tlv) == <<tlv.val>>
nullTLV(tag) == primitiveTLV(tag, <<>>)
booleanTLV(tag, b) == primitiveTLV(tag, <<IF b THEN 255 ELSE 0>>)
booleanValue(tlv) == IF Len(tlv.val) = 1 THEN <<tlv.val[1] # 0>> ELSE Err

(* The k-th octet of a string of bits, padded with zeros. *)
packedOctet(bits, k) ==
  LET value[j \in 0..8] ==
        IF j = 0 THEN 0
        ELSE 2 * value[j - 1]
             + IF 8 * (k - 1) + j \in DOMAIN bits /\ bits[8 * (k - 1) + j] THEN 1 ELSE 0
  IN value[8]

(* A fault: the used bits of the last octet are counted, not the unused.  *)
marshalBitStringUsed(bits) ==
  <<Len(bits) % 8>> \o [k \in 1..(Len(bits) + 7) \div 8 |-> packedOctet(bits, k)]

(* BIT STRING: one octet counting the unused bits of the last one, then    *)
(* the bits, the first one in the high position.                           *)
marshalBitString(bits) ==
  IF bits = <<>> THEN <<0>>
  ELSE <<(8 - (Len(bits) % 8)) % 8>>
       \o [k \in 1..(Len(bits) + 7) \div 8 |-> packedOctet(bits, k)]

unmarshalBitString(octets) ==
  LET unused == octets[1]
      bits == (Len(octets) - 1) * 8 - unused
      bit(i) == (octets[2 + ((i - 1) \div 8)] \div 2 ^ (7 - ((i - 1) % 8))) % 2 = 1
  IN IF \/ octets = <<>>
        \/ unused > 7 \/ (Len(octets) = 1 /\ unused # 0)
        \/ (Len(octets) > 1 /\ octets[Len(octets)] % (2 ^ unused) # 0)
     THEN Err
     ELSE <<[i \in 1..bits |-> bit(i)]>>

bitStringTLV(tag, bits) == primitiveTLV(tag, marshalBitString(bits))
bitStringValue(tlv) == unmarshalBitString(tlv.val)

(***************************************************************************)
(* Fields of a structure.  Opt and Flag encode an optional field and a     *)
(* NULL flag; Need, May and Has decode a mandatory field, an optional one  *)
(* and a flag; Fields is the structure, or Err when one field has it.      *)
(***************************************************************************)
Then(r, F(_), none) == IF r = Err THEN none ELSE F(r[1])
Some(r) == IF r = Err THEN Err ELSE <<r>>

Opt(F(_, _), tag, o) == [i \in DOMAIN o |-> F(tag, o[i])]
Map(F(_), s) == [i \in DOMAIN s |-> F(s[i])]
Flag(tag, b) == IF b THEN <<nullTLV(tag)>> ELSE <<>>

Need(tlv, tag, F(_)) ==
  IF First(tlv, tag) = <<>> THEN Err ELSE F(First(tlv, tag)[1])

May(tlv, tag, F(_)) ==
  IF First(tlv, tag) = <<>> THEN <<<<>>>> ELSE Some(F(First(tlv, tag)[1]))

Has(tlv, tag) == <<First(tlv, tag) # <<>>>>

Fields(f) ==
  IF \E k \in DOMAIN f : f[k] = Err THEN Err
  ELSE <<[k \in DOMAIN f |-> f[k][1]]>>

DecodeAll(F(_), kids) == Fields(Map(F, kids))

Raw(tlv) == <<tlv>>
=============================================================================
