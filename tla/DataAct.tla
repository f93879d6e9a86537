------------------------------ MODULE DataAct ------------------------------
(***************************************************************************)
(* dataact/: what ImportBundle checks before it touches the database.      *)
(* A bundle is its files (each a sequence of rows, by name) and a          *)
(* manifest.  SHA-256 is a digest that is the content itself, so that      *)
(* different contents have different digests; an ECDSA signature is the    *)
(* key and what was signed.  Digests that do not decode, and zip and JSON  *)
(* faults, are one unreadable content.                                     *)
(***************************************************************************)
EXTENDS Integers, Sequences, FiniteSets, Functions

SchemaVersion == "1.0.0"
Unreadable == <<[Unreadable |-> TRUE]>>  \* a file that zip or JSON cannot read

(* What is signed: the names and the digests, not the row counts. *)
contentCanonical(files) == {[Name |-> f.Name, SHA256 |-> f.SHA256] : f \in files}
contentDigest(files) == contentCanonical(files)

verifyManifestSignature(manifest, payload, trustCert) ==
  /\ trustCert # <<>> => manifest.Certificate = trustCert[1]
  /\ manifest.Signature = <<[Key |-> manifest.Certificate, Payload |-> payload]>>

digestZipEntry(bundle, name) ==
  IF name \in DOMAIN bundle.Zip
  THEN <<[SHA256 |-> bundle.Zip[name], Rows |-> Len(bundle.Zip[name])]>> ELSE <<>>

(* A fault: the files are not compared with their digests. *)
ValidateManifestOnly(bundle, trustCert) ==
  LET manifest == bundle.Manifest
  IN /\ manifest.SchemaVersion = SchemaVersion
     /\ manifest.BundleSHA256 = contentDigest(manifest.Files)
     /\ manifest.Signature # <<>>
     /\ verifyManifestSignature(manifest, contentCanonical(manifest.Files), trustCert)

ValidateBundle(bundle, trustCert) ==
  LET manifest == bundle.Manifest
  IN /\ manifest.SchemaVersion = SchemaVersion
     /\ manifest.BundleSHA256 = contentDigest(manifest.Files)
     /\ \A f \in manifest.Files :
          digestZipEntry(bundle, f.Name) = <<[SHA256 |-> f.SHA256, Rows |-> f.Rows]>>
     /\ manifest.Signature # <<>>
     /\ verifyManifestSignature(manifest, contentCanonical(manifest.Files), trustCert)

(* A file that is not in the bundle has no rows. *)
readNDJSON(bundle, name) == IF name \in DOMAIN bundle.Zip THEN bundle.Zip[name] ELSE <<>>

(* entryHash over journalCanonical, which leaves the command out. *)
journalCanonical(tenantID, entry) ==
  <<entry.Seq, entry.Timestamp, tenantID, entry.Actor, entry.EID, entry.Outcome>>
entryHash(prev, tenantID, entry) == [Prev |-> prev, Of |-> journalCanonical(tenantID, entry)]

VerifyJournalSlice(tenantID, entries, anchor) ==
  entries # <<>> =>
    /\ anchor.PrevHashBefore # <<>> => entries[1].PrevHash = anchor.PrevHashBefore[1]
    /\ \A i \in DOMAIN entries :
         /\ i > 1 => entries[i].PrevHash = entries[i - 1].EntryHash
         /\ entries[i].EntryHash = entryHash(entries[i].PrevHash, tenantID, entries[i])
    /\ anchor.EntryHashAfter # <<>> => entries[Len(entries)].EntryHash = anchor.EntryHashAfter[1]

FileNames == {"devices", "euicc_state", "profile_state", "associated_eim", "operations", "notifications"}

(* dataact.ImportBundle up to the importer: the payload, or <<>>. *)
ReadBundle(bundle, trustCert) ==
  LET journal == readNDJSON(bundle, "command_journal")
      readable == \A name \in FileNames \cup {"command_journal"} : readNDJSON(bundle, name) # Unreadable
  IN IF /\ ValidateBundle(bundle, trustCert)
        /\ readable
        /\ VerifyJournalSlice(bundle.Manifest.TenantID, journal, bundle.Manifest.JournalChain)
     THEN <<[name \in FileNames |-> readNDJSON(bundle, name)]>> ELSE <<>>
=============================================================================
