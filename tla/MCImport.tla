------------------------------ MODULE MCImport ------------------------------
(***************************************************************************)
(* Databases, bundles and requests to run together: a server that is empty *)
(* or has been used, bundles newer, older and other than what it has, and  *)
(* bundles damaged on their way.                                           *)
(***************************************************************************)
EXTENDS StoreUse

Device(e, sequence) == [EID |-> e, Sequence |-> sequence, Counter |-> sequence]
Operation(e, number, id, status) ==
  [EID |-> e, Number |-> number, ID |-> id, Status |-> status, Decodes |-> TRUE]
Row(e, key, value) == [EID |-> e, Key |-> key, Value |-> value, Decodes |-> TRUE]

Zero == [Prev |-> <<>>, Of |-> <<>>]
Entry(seq, prev) ==
  LET e == [Seq |-> seq, Timestamp |-> seq, Actor |-> "tenant", EID |-> "1", Outcome |-> "success"]
  IN e @@ [PrevHash |-> prev, EntryHash |-> entryHash(prev, "tenant", e)]
First == Entry(1, Zero)
Second == Entry(2, First.EntryHash)

(* An export of these files, with a journal. *)
Export(files) ==
  LET zip == files @@ [command_journal |-> <<First, Second>>]
      entries == {[Name |-> n, SHA256 |-> zip[n], Rows |-> Len(zip[n])] : n \in DOMAIN zip}
  IN [Zip |-> zip,
      Manifest |-> [SchemaVersion |-> SchemaVersion, Files |-> entries, TenantID |-> "tenant",
                    BundleSHA256 |-> contentDigest(entries), Certificate |-> "signer",
                    Signature |-> <<[Key |-> "signer", Payload |-> contentCanonical(entries)]>>,
                    JournalChain |-> [PrevHashBefore |-> <<Zero>>, EntryHashAfter |-> <<Second.EntryHash>>]]]

Newer == Export([devices |-> <<Device("1", 3), Device("2", 2)>>,
                 euicc_state |-> <<Row("1", "", "state")>>,
                 profile_state |-> <<Row("1", "iccid", "profile")>>,
                 operations |-> <<Operation("1", 1, 1, "done"), Operation("1", 2, 2, "pending"),
                                  Operation("2", 1, 3, "pending")>>,
                 notifications |-> <<Row("1", "1", "id 1")>>])
Before == Export([devices |-> <<Device("1", 1)>>, associated_eim |-> <<Row("1", "eim", "config")>>])
Elsewhere == Export([devices |-> <<Device("3", 2)>>, operations |-> <<Operation("3", 1, 1, "pending")>>,
                     notifications |-> <<Row("3", "1", "id 1"), Row("3", "2", "id 1")>>])
Clashing == Export([devices |-> <<Device("3", 1)>>,
                    notifications |-> <<Row("3", "1", "id 1"), Row("3", "2", "id 1")>>])
Undecodable == Export([devices |-> <<Device("1", 2)>>,
                       euicc_state |-> <<[Row("1", "", "state") EXCEPT !.Decodes = FALSE]>>])
Renumbered == Export([devices |-> <<Device("1", 2)>>, operations |-> <<Operation("1", 1, 5, "pending")>>])
Swapped == Export([devices |-> <<Device("1", 3)>>,
                   operations |-> <<Operation("1", 1, 2, "pending"), Operation("1", 2, 1, "pending")>>])
Orphan == Export([profile_state |-> <<Row("3", "iccid", "profile")>>])

(* Damage: a file lost, cut or unreadable, another signer, a gap in the    *)
(* journal that was there when the bundle was signed.                      *)
Lost == [Newer EXCEPT !.Zip = Restrict(@, DOMAIN @ \ {"operations"})]
Cut == [Newer EXCEPT !.Zip.operations = SubSeq(@, 1, 2)]
Garbled == [Newer EXCEPT !.Zip.devices = Unreadable]
Gap == Export([devices |-> <<Device("1", 3)>>, command_journal |-> <<Second>>])
OldSchema == [Newer EXCEPT !.Manifest.SchemaVersion = "0"]
Unsigned == [Newer EXCEPT !.Manifest.Signature = <<>>]

MCExports == {Newer, Before, Elsewhere, Clashing, Undecodable, Renumbered, Swapped, Orphan, Gap}

Empty == NoRows
Used == [NoRows EXCEPT !.devices = ("1" :> [Sequence |-> 2, Counter |-> 2]),
                       !.operations = (<<"1", 1>> :> [ID |-> 1, Status |-> "pending", From |-> "before"])]
Beyond == [Used EXCEPT !.operations[<<"1", 1>>].ID = 3]

Package(e) == [Kind |-> "package", Targets |-> <<e>>]
Download(targets) == [Kind |-> "download", Targets |-> targets]
Ask(a, b) == ("a" :> a) @@ ("b" :> b)

Situation(database, bundle, absent, requests) ==
  [Database |-> database, Bundle |-> bundle, TrustCert |-> <<"signer">>,
   Requests |-> requests, Absent |-> absent]

MCSituations ==
  {Situation(d, b, {"reader", "recorder"}, Ask(Package("1"), Download(<<"1", "2">>))) :
     d \in {Empty, Used}, b \in {Newer, Before, Renumbered}}
  \cup {Situation(d, b, {"b"}, Ask(Package("1"), Package("1"))) :
          d \in {Empty, Used}, b \in {Before, Newer, Renumbered}}
  \cup {Situation(d, Swapped, {"b"}, Ask(Package("1"), Package("1"))) : d \in {Used, Beyond}}
  \cup {Situation(Used, b, {"reader", "b"}, Ask(Download(<<"2", "1">>), Package("1"))) :
          b \in {Elsewhere, Clashing, Undecodable, Orphan, Renumbered}}
  \cup {Situation(Used, b, {"reader", "recorder", "b"}, Ask(Package("1"), Package("2"))) :
          b \in {Lost, Cut, Garbled, Gap, OldSchema, Unsigned}}
  \cup {[Situation(Empty, Newer, {"reader", "recorder", "b"}, Ask(Package("1"), Package("2")))
           EXCEPT !.TrustCert = trust] : trust \in {<<>>, <<"other">>}}
=============================================================================
