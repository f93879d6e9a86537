------------------------------ MODULE MCDevice ------------------------------
(***************************************************************************)
(* Fleets for MockIpa: packages under faults, a chain to be presented      *)
(* first, direct and offline downloads, two indirect downloads at two      *)
(* SM-DP+s, and two devices over CoAP.                                     *)
(***************************************************************************)
EXTENDS MockIpa

Quiet == [Transport |-> "http", NamesTransaction |-> FALSE, Known |-> TRUE, Trusted |-> TRUE,
          File |-> <<>>, Queue |-> <<>>]

Package(id, do) == [NewOp EXCEPT !.ID = id, !.Do = do, !.ICCID = "A"]
Trigger(id, smdp, local) ==
  [NewOp EXCEPT !.ID = id, !.Kind = "trigger", !.ICCID = "C", !.SMDP = smdp, !.Local = local]
OwnToken(id, do, token) ==
  [NewOp EXCEPT !.ID = id, !.Do = do, !.EimID = OwnEim, !.Token = token]
Data(id) == [NewOp EXCEPT !.ID = id, !.Kind = "data", !.Certs = TRUE]

(* The state file of an IPA that was told to download indirectly. *)
IndirectFile ==
  <<[Device |-> [newDeviceState EXCEPT !.Indirect = TRUE], Next |-> 3, Required |-> FALSE, Presented |-> FALSE]>>

One(device) == [d \in Devices |-> IF d = 1 THEN device ELSE Quiet]
Two(device1, device2) == [d \in Devices |-> IF d = 1 THEN device1 ELSE device2]

Lone(queued) == One([Quiet EXCEPT !.Queue = queued])

MCDevices == {1, 2}
MCFleets == {
  Lone(<<Package(1, "enable"), Package(2, "set-fallback-attribute"), Package(3, "delete")>>),
  Lone(<<OwnToken(1, "add-eim", <<>>), OwnToken(2, "update-eim", <<5>>), Package(3, "disable")>>),
  Lone(<<OwnToken(1, "add-eim", <<7>>), OwnToken(2, "update-eim", <<>>), OwnToken(3, "delete-eim", <<>>)>>),
  Lone(<<Package(1, "set-fallback-attribute"), Package(2, "unset-fallback-attribute"),
         Package(3, "list-profile-info")>>),
  Lone(<<Trigger(1, "S1", FALSE), Package(2, "disable"), Trigger(3, "S2", TRUE)>>),
  One([Quiet EXCEPT !.Trusted = FALSE, !.Queue = <<Package(1, "enable"), Package(2, "disable")>>]),
  One([Quiet EXCEPT !.Known = FALSE, !.Queue = <<Package(1, "enable"), Data(2), Package(3, "disable")>>]),
  One([Quiet EXCEPT !.Known = FALSE, !.Trusted = FALSE, !.Queue = <<Package(1, "enable")>>]),
  Two([Quiet EXCEPT !.File = IndirectFile, !.Queue = <<Trigger(1, "S1", FALSE)>>],
      [Quiet EXCEPT !.File = IndirectFile, !.NamesTransaction = TRUE, !.Queue = <<Trigger(2, "S2", FALSE)>>]),
  Two([Quiet EXCEPT !.Transport = "coap", !.Queue = <<Package(1, "enable")>>],
      [Quiet EXCEPT !.Transport = "coap", !.Queue = <<Package(2, "disable")>>])}

MCIndirectFleets ==
  {One([Quiet EXCEPT !.File = IndirectFile, !.Queue = <<Trigger(1, "S1", FALSE)>>])}

MCAnswerSizes == {2, 4, 5}
=============================================================================
