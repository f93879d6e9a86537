--------------------------- MODULE CoapTransport ---------------------------
(***************************************************************************)
(* esipa/coap.go: an answer longer than a block is sent block by block.    *)
(* The whole answer stays in a cache under the remote address and the      *)
(* path; the requests for further blocks are empty and name a block, so    *)
(* the address is all that tells which answer they continue.               *)
(***************************************************************************)
EXTENDS Integers, Sequences, FiniteSets, Functions, TLC

CONSTANT BlockSize  \* coapResponseBlockSZX.Size(), in octets of the model

ASSUME BlockSizeAssumption == BlockSize \in Nat \ {0}

VARIABLE blockwiseResponses  \* Handler.blockwiseResponses: [payload, expired], by key

(* A fault: the path alone, which all devices share. *)
sharedCacheKey(addr) == "path"

coapBlockwiseCacheKey(addr) == addr

cachedBlockwiseResponse(key) ==
  IF key \in DOMAIN blockwiseResponses /\ ~blockwiseResponses[key].expired
  THEN <<blockwiseResponses[key].payload>> ELSE <<>>

(* Expired entries of every address go when a new one comes. *)
cacheBlockwiseResponse(key, payload) ==
  LET current == {k \in DOMAIN blockwiseResponses : ~blockwiseResponses[k].expired}
  IN [k \in current \cup {key} |->
        IF k = key THEN [payload |-> payload, expired |-> FALSE] ELSE blockwiseResponses[k]]

Smaller(a, b) == IF a < b THEN a ELSE b

(* The octets from Start to End of an answer, and whether more follow. *)
coapBlock2Chunk(payload, number) ==
  LET start == number * BlockSize
      end == Smaller(start + BlockSize, payload.Size)
  IN IF start > payload.Size THEN <<>>
     ELSE <<[Of |-> payload, Start |-> start, End |-> end, More |-> end < payload.Size]>>

(* The first block of a long answer; a short one whole. *)
coapFirstBlock2Response(payload) ==
  IF payload.Size <= BlockSize
  THEN [Of |-> payload, Start |-> 0, End |-> payload.Size, More |-> FALSE]
  ELSE coapBlock2Chunk(payload, 0)[1]
=============================================================================
