----------------------------- MODULE MCEffects -----------------------------
(***************************************************************************)
(* Instances of PackageEffects: two profiles, or one and a download.       *)
(***************************************************************************)
EXTENDS PackageEffects

Op(kind, iccid) == [Kind |-> kind, ICCID |-> iccid, EimID |-> "", Token |-> <<>>,
                    Address |-> 0, Asks |-> {}]
Eco(kind, eim, token) == [Op(kind, 0) EXCEPT !.EimID = eim, !.Token = token]
Data(asks) == [Op("ipaEuiccData", 0) EXCEPT !.Asks = asks]
Address == [Op("setDefaultDpAddress", 0) EXCEPT !.Address = 7]

OnProfiles ==
  {Op("enable", 2), Op("disable", 1), Op("delete", 2), Op("setFallbackAttribute", 1),
   Op("unsetFallbackAttribute", 0), Op("profileDownload", 3)}
Reads == {Op("listProfileInfo", 0), Data({"profiles", "address"})}
Ecos == {Eco("addEim", "other", <<4>>), Eco("updateEim", "other", <<>>),
         Eco("updateEim", Own, <<>>), Eco("updateEim", Own, <<5>>),
         Eco("deleteEim", "other", <<>>), Eco("deleteEim", Own, <<>>)}

Pairs(s, t) == {<<a, b>> : a \in s, b \in t} \ {<<a, a>> : a \in s}

MCPlans ==
  Pairs(OnProfiles \cup Reads, OnProfiles \cup Reads)
  \cup Pairs({Address, Data({}), Data({"address"})}, {Address, Data({}), Data({"address"})})
  \cup Pairs(Ecos, Ecos \cup {Op("enable", 2)})

Profile(enabled, fallback) == [IsEnabled |-> enabled, IsFallback |-> fallback]
MCCards ==
  {[profiles |-> <<Profile(TRUE, FALSE), Profile(FALSE, TRUE)>>, address |-> <<>>, info |-> 0,
    eims |-> Own :> <<3>>]}
=============================================================================
