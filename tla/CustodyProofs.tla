---------------------------- MODULE CustodyProofs ----------------------------
(***************************************************************************)
(* What is kept in trust, for every set of records, keys and commands:     *)
(*   - Vault: envelopes open as their keys say and nothing stored is rolled *)
(*     back; VaultInv ties every envelope, stored, on its way or in the    *)
(*     archive, to the key material of its version (Governed);             *)
(*   - Diagnostics: reports and the repair ledger say what happened;       *)
(*     DiagnosticsInv ties the ledger and the repair under way to the log  *)
(*     of outcomes;                                                        *)
(*   - Audit: what was acknowledged is still in the trail; TrailInv bounds *)
(*     the files and ties a deletion's progress to its event.              *)
(* The three components share no state.                                    *)
(***************************************************************************)
EXTENDS Vault, Diagnostics, Audit, FiniteSetTheorems, TLAPS

-----------------------------------------------------------------------------
(* Keys and envelopes.                                                     *)

Wrappings == EnvelopesOver(KeyNames \cup {None})

\* Key material is drawn once: no two versions share it and none of it is revoked.
MaterialInv ==
    /\ material \in [Versions -> 1 .. MaxKeys \cup {None}]
    /\ pointer \in Versions \cup {None} /\ generated \in 0 .. MaxKeys
    /\ misused \in BOOLEAN /\ revoked \subseteq 1 .. generated
    /\ \A v \in Versions : material[v] # None =>
          material[v] \in 1 .. generated /\ material[v] \notin revoked
    /\ \A v, w \in Versions : material[v] # None /\ material[v] = material[w] => v = w

\* An envelope of the GPG provider is wrapped for the recipient.  One of the keyring, and
\* the handle chosen for it, has no newer version than the active one, and the material
\* of that version is the one that wrapped it, unless it was destroyed; all this as long
\* as nobody destroyed the active version or rotated a stale handle.
Governed(e) ==
    e # None =>
        /\ e.provider = "gpg" => e.key \in {None, Recipient}
        /\ e.provider = "os-keyring" /\ ~misused =>
              /\ pointer \in Versions /\ e.version <= pointer
              /\ e.key # None => material[e.version] = e.key \/ e.key \in revoked

StoredInv ==
    /\ stored \in [VaultRecords -> EnvelopesOver(KeyNames) \cup {None}]
    /\ \A r \in VaultRecords : Governed(stored[r])

FlightInv ==
    /\ flight \in [VaultRecords -> Wrappings \cup {None}]
    /\ \A r \in VaultRecords : Governed(flight[r])

ArchiveInv ==
    /\ archive # None \/ restoring # None =>
          /\ archive \in [sealed : BOOLEAN, whole : BOOLEAN,
                          envelopes : [VaultRecords -> EnvelopesOver(KeyNames) \cup {None}]]
          /\ \A r \in VaultRecords : Governed(archive.envelopes[r])
    /\ restoring # None => ReadsBack(archive)
    /\ restoring = None \/ restoring \subseteq VaultRecords

\* A rewrap under way holds a handle at least as new as what is stored of its record, in
\* the storage and in the archive.
NotNewer(e, h) == e # None /\ e.provider = "os-keyring" => e.version <= h.version

RewrapInv ==
    /\ rewrapping \subseteq VaultRecords
    /\ \A r \in rewrapping :
          ~misused /\ flight[r] # None /\ flight[r].provider = "os-keyring" =>
             /\ NotNewer(stored[r], flight[r])
             /\ archive # None \/ restoring # None => NotNewer(archive.envelopes[r], flight[r])

VaultInv ==
    /\ MaterialInv /\ StoredInv /\ FlightInv /\ ArchiveInv
    /\ purging = None \/ purging \subseteq VaultRecords

\* Storing new material for a version no envelope has reached.
LEMMA StoreMasterKeeps ==
    ASSUME MaterialInv, NEW v \in Versions, StoreMaster(v), UNCHANGED revoked,
           pointer' \in Versions \cup {None}, misused' \in BOOLEAN
    PROVE  MaterialInv'
BY VaultAssumption DEF MaterialInv, StoreMaster, Versions

\* A rotation of the active version leaves every envelope as it was governed.
LEMMA RotateGoverns ==
    ASSUME MaterialInv, NEW v \in Versions, Rotate(v), NEW e \in Wrappings \cup {None}, Governed(e)
    PROVE  Governed(e)'
<1>1. CASE misused'
  BY <1>1 DEF Governed
<1>2. CASE ~misused'
  <2>1. ~misused /\ pointer = v /\ pointer' \in {v + 1, v} /\ pointer' \in Versions
    BY <1>2 DEF Rotate, NextVersion
  <2>2. \A w \in Versions : w <= v => material'[w] = material[w]
    BY DEF Rotate, StoreMaster, NextVersion, MaterialInv, Versions
  <2>3. e # None => e.version \in Versions
    BY DEF Wrappings, EnvelopesOver
  <2> QED BY <2>1, <2>2, <2>3 DEF Rotate, Governed, Versions
<1> QED BY <1>1, <1>2

\* The first key is made when no envelope of the keyring can exist.
LEMMA CreateGoverns ==
    ASSUME MaterialInv, CreateInitial, UNCHANGED <<revoked, misused>>, pointer' \in {pointer, 1},
           NEW e \in Wrappings \cup {None}, Governed(e)
    PROVE  Governed(e)'
BY VaultAssumption DEF CreateInitial, Governed, Versions

\* Destroying a version revokes its material and opens nothing else.
LEMMA DestroyKeeps ==
    ASSUME MaterialInv, NEW v \in Versions, DestroyKey(v)
    PROVE  MaterialInv'
BY DEF MaterialInv, DestroyKey

\* A destroyed version revokes its material, so what it wrapped stays governed.
LEMMA DestroyGoverns ==
    ASSUME MaterialInv, NEW v \in Versions, DestroyKey(v), NEW e \in Wrappings \cup {None}, Governed(e)
    PROVE  Governed(e)'
BY DEF MaterialInv, DestroyKey, Governed, Wrappings, EnvelopesOver

\* Steps of the keyring alone keep what they keep for every envelope.
LEMMA KeyringSteps ==
    ASSUME VaultInv, MaterialInv',
           \A e \in Wrappings \cup {None} : Governed(e) => Governed(e)',
           UNCHANGED <<stored, archive, restoring>>
    PROVE  StoredInv' /\ ArchiveInv' /\ (UNCHANGED flight => FlightInv')
<1>1. \A r \in VaultRecords : stored[r] \in Wrappings \cup {None} /\ flight[r] \in Wrappings \cup {None}
  BY DEF VaultInv, StoredInv, FlightInv, Wrappings, EnvelopesOver
<1>2. archive # None \/ restoring # None => \A r \in VaultRecords : archive.envelopes[r] \in Wrappings \cup {None}
  BY DEF VaultInv, ArchiveInv, Wrappings, EnvelopesOver
<1>4. StoredInv'
  BY <1>1 DEF VaultInv, StoredInv
<1>5. UNCHANGED flight => FlightInv'
  BY <1>1 DEF VaultInv, FlightInv
<1>6. ArchiveInv'
  BY <1>2 DEF VaultInv, ArchiveInv, ReadsBack
<1> QED BY <1>4, <1>5, <1>6

\* Without a step of the keyring every envelope is governed as before.
LEMMA SameGoverns ==
    ASSUME UNCHANGED keyringVars, NEW e, Governed(e)
    PROVE  Governed(e)'
BY DEF keyringVars, Governed

\* The steps of key management.
LEMMA RotateKeeps ==
    ASSUME VaultInv, NEW v \in Versions, Rotate(v)
    PROVE  VaultInv'
<1>1. NextVersion(v) \in Versions /\ pointer' \in Versions \cup {None} /\ misused' \in BOOLEAN
  BY DEF VaultInv, MaterialInv, Rotate
<1>2. MaterialInv'
  BY <1>1, StoreMasterKeeps DEF VaultInv, Rotate
<1>3. \A e \in Wrappings \cup {None} : Governed(e) => Governed(e)'
  BY RotateGoverns DEF VaultInv
<1> QED BY <1>2, <1>3, KeyringSteps DEF VaultInv, Rotate

\* Destroying a version touches no envelope.
LEMMA DestroyedKeeps ==
    ASSUME VaultInv, NEW v \in Versions, DestroyKey(v),
           UNCHANGED <<stored, flight, archive, restoring>>,
           purging' = None \/ purging' \subseteq VaultRecords
    PROVE  VaultInv'
<1>1. MaterialInv'
  BY DestroyKeeps DEF VaultInv
<1>2. \A e \in Wrappings \cup {None} : Governed(e) => Governed(e)'
  BY DestroyGoverns DEF VaultInv
<1> QED BY <1>1, <1>2, KeyringSteps DEF VaultInv

\* An envelope, or none, takes its place in the encryption stage.
LEMMA FlightPlaced ==
    ASSUME VaultInv, \A e \in Wrappings \cup {None} : Governed(e) => Governed(e)',
           NEW r \in VaultRecords, NEW h \in Wrappings \cup {None}, Governed(h)',
           flight' = [flight EXCEPT ![r] = h]
    PROVE  FlightInv'
<1>1. flight' \in [VaultRecords -> Wrappings \cup {None}]
  BY DEF VaultInv, FlightInv
<1>2. ASSUME NEW q \in VaultRecords, NEW e, e = flight'[q] PROVE Governed(e)'
  <2>1. CASE q = r
    BY <1>2, <2>1 DEF VaultInv, FlightInv
  <2>2. CASE q # r
    BY <1>2, <2>2 DEF VaultInv, FlightInv
  <2> QED BY <2>1, <2>2
<1> QED BY <1>1, <1>2 DEF FlightInv

\* The same in storage.
LEMMA StoredPlaced ==
    ASSUME VaultInv, UNCHANGED keyringVars,
           NEW r \in VaultRecords, NEW h \in EnvelopesOver(KeyNames) \cup {None}, Governed(h),
           stored' = [stored EXCEPT ![r] = h]
    PROVE  StoredInv'
<1>1. stored' \in [VaultRecords -> EnvelopesOver(KeyNames) \cup {None}]
  BY DEF VaultInv, StoredInv
<1>2. ASSUME NEW q \in VaultRecords, NEW e, e = stored'[q] PROVE Governed(e)'
  <2>1. CASE q = r
    BY <1>2, <2>1, SameGoverns DEF VaultInv, StoredInv
  <2>2. CASE q # r
    BY <1>2, <2>2, SameGoverns DEF VaultInv, StoredInv
  <2> QED BY <2>1, <2>2
<1> QED BY <1>1, <1>2 DEF StoredInv

\* The steps of the encryption stage.
LEMMA ChooseKeyKeeps ==
    ASSUME VaultInv, NEW r \in VaultRecords, ChooseKey(r)
    PROVE  VaultInv'
<1>1. ASSUME NEW p \in {"os-keyring", "gpg"}, NEW v \in Versions PROVE Handle(p, v) \in Wrappings
  BY DEF Handle, Wrappings, EnvelopesOver
<1>2. 1 \in Versions
  BY VaultAssumption DEF Versions
<1>3. MaterialInv' /\ \A e \in Wrappings \cup {None} : Governed(e) => Governed(e)'
  <2>1. CASE UNCHANGED keyringVars
    BY <2>1, SameGoverns DEF VaultInv, MaterialInv, keyringVars
  <2>2. CASE CreateInitial /\ pointer' \in {pointer, 1} /\ UNCHANGED <<revoked, misused>>
    <3>1. MaterialInv'
      BY <2>2, <1>2, StoreMasterKeeps DEF CreateInitial, VaultInv, MaterialInv
    <3> QED BY <2>2, <3>1, CreateGoverns DEF VaultInv
  <2> QED BY <2>1, <2>2 DEF ChooseKey
<1>4. StoredInv' /\ ArchiveInv' /\ (UNCHANGED flight => FlightInv')
  BY <1>3, KeyringSteps DEF ChooseKey
<1>5. FlightInv'
  <2>1. CASE ActiveLoads /\ flight' = [flight EXCEPT ![r] = Handle("os-keyring", pointer)]
             /\ UNCHANGED keyringVars
    <3>1. pointer \in Versions
      BY <2>1 DEF ActiveLoads, VaultInv, MaterialInv
    <3>2. Governed(Handle("os-keyring", pointer))'
      BY <2>1, <3>1 DEF Governed, Handle, keyringVars, Versions
    <3>3. \A h : h = Handle("os-keyring", pointer) => Governed(h)'
      BY <2>1, <3>2 DEF keyringVars
    <3> QED BY <2>1, <1>1, <1>3, <3>1, <3>3, FlightPlaced
  <2>2. CASE pointer' = 1 /\ flight' = [flight EXCEPT ![r] = Handle("os-keyring", 1)]
    <3>1. Governed(Handle("os-keyring", 1))'
      BY <2>2, <1>2 DEF Governed, Handle
    <3> QED BY <2>2, <1>1, <1>2, <1>3, <3>1, FlightPlaced
  <2>3. CASE flight' = [flight EXCEPT ![r] = Handle("gpg", 1)]
    <3>1. Governed(Handle("gpg", 1))'
      BY DEF Governed, Handle
    <3> QED BY <2>3, <1>1, <1>2, <1>3, <3>1, FlightPlaced
  <2> QED BY <1>4, <2>1, <2>2, <2>3 DEF ChooseKey
<1> QED BY <1>3, <1>4, <1>5 DEF VaultInv, ChooseKey

\* A new envelope is wrapped with the active key or for the recipient.
LEMMA WrapKeeps ==
    ASSUME VaultInv, NEW r \in VaultRecords, Wrap(r)
    PROVE  VaultInv'
<1>1. MaterialInv' /\ \A e \in Wrappings \cup {None} : Governed(e) => Governed(e)'
  BY SameGoverns DEF VaultInv, MaterialInv, keyringVars, Wrap
<1>2. StoredInv' /\ ArchiveInv'
  BY <1>1, KeyringSteps DEF Wrap
<1>3. PICK h \in {WrapWith(flight[r]), None} : flight' = [flight EXCEPT ![r] = h]
  BY DEF Wrap
<1>4. flight[r] \in Wrappings /\ flight[r].version \in Versions /\ Governed(flight[r])
  BY DEF Wrap, VaultInv, FlightInv, Wrappings, EnvelopesOver
<1>5. h \in Wrappings \cup {None} /\ Governed(h)
  <2>1. CASE h = None
    BY <2>1 DEF Governed
  <2>2. CASE flight[r].provider = "gpg" /\ h = [flight[r] EXCEPT !.key = Recipient]
    <3>1. Recipient \in KeyNames
      BY VaultAssumption DEF Recipient, KeyNames
    <3> QED BY <1>4, <2>2, <3>1 DEF Wrappings, EnvelopesOver, Governed
  <2>3. CASE /\ flight[r].provider # "gpg" /\ material[flight[r].version] # None
             /\ h = [flight[r] EXCEPT !.key = material[flight[r].version]]
    <3>1. material[flight[r].version] \in KeyNames
      BY <1>4, <2>3, VaultAssumption DEF VaultInv, MaterialInv, KeyNames, Recipient
    <3>2. h \in Wrappings
      BY <1>4, <2>3, <3>1 DEF Wrappings, EnvelopesOver
    <3>3. /\ flight[r].provider = "os-keyring" /\ h.provider = "os-keyring"
          /\ h.version = flight[r].version /\ h.key = material[h.version]
      BY <1>4, <2>3 DEF Wrappings, EnvelopesOver
    <3> QED BY <1>4, <3>2, <3>3 DEF Governed, Wrap
  <2>4. \/ WrapWith(flight[r]) = None
        \/ flight[r].provider = "gpg" /\ WrapWith(flight[r]) = [flight[r] EXCEPT !.key = Recipient]
        \/ /\ flight[r].provider # "gpg" /\ material[flight[r].version] # None
           /\ WrapWith(flight[r]) = [flight[r] EXCEPT !.key = material[flight[r].version]]
    BY DEF WrapWith
  <2> QED BY <1>3, <2>1, <2>2, <2>3, <2>4
<1>6. FlightInv'
  BY <1>1, <1>3, <1>5, FlightPlaced
<1> QED BY <1>1, <1>2, <1>6 DEF VaultInv, Wrap

\* What was wrapped is stored as it is.
LEMMA PutEnvelopeKeeps ==
    ASSUME VaultInv, NEW r \in VaultRecords, PutEnvelope(r)
    PROVE  VaultInv'
<1>1. MaterialInv' /\ \A e \in Wrappings \cup {None} : Governed(e) => Governed(e)'
  BY SameGoverns DEF VaultInv, MaterialInv, keyringVars, PutEnvelope
<1>2. flight[r] \in EnvelopesOver(KeyNames) /\ Governed(flight[r])
  BY DEF PutEnvelope, VaultInv, FlightInv, Wrappings, EnvelopesOver
<1>3. StoredInv'
  BY <1>2, StoredPlaced, SameGoverns DEF PutEnvelope, VaultInv, StoredInv
<1>4. FlightInv'
  <2>1. Governed(None)'
    BY DEF Governed
  <2> QED BY <1>1, <2>1, FlightPlaced DEF PutEnvelope
<1>5. ArchiveInv'
  BY SameGoverns DEF VaultInv, ArchiveInv, PutEnvelope, ReadsBack
<1> QED BY <1>1, <1>3, <1>4, <1>5 DEF VaultInv, PutEnvelope

\* The steps of a rewrap: a wrapped envelope takes the place of the stored one.
LEMMA RewrapKeeps ==
    ASSUME VaultInv, NEW r \in VaultRecords, Unwrap(r) \/ RewrapFails(r) \/ Rewrap(r)
    PROVE  VaultInv'
<1>1. UNCHANGED <<keyringVars, archive, restoring, purging>>
  BY DEF Unwrap, RewrapFails, Rewrap
<1>2. MaterialInv' /\ \A e \in Wrappings \cup {None} : Governed(e) => Governed(e)'
  BY <1>1, SameGoverns DEF VaultInv, MaterialInv, keyringVars
<1>3. ArchiveInv'
  BY <1>1, SameGoverns DEF VaultInv, ArchiveInv, ReadsBack
<1>4. CASE UNCHANGED <<stored, flight>>
  BY <1>1, <1>2, <1>3, <1>4, SameGoverns DEF VaultInv, StoredInv, FlightInv
<1>5. CASE Rewrap(r)
  <2>1. flight[r] \in EnvelopesOver(KeyNames) /\ Governed(flight[r])
    BY <1>5 DEF Rewrap, VaultInv, FlightInv, Wrappings, EnvelopesOver
  <2>2. stored' = stored \/ stored' = [stored EXCEPT ![r] = flight[r]]
    BY <1>5 DEF Rewrap
  <2>3. StoredInv'
    BY <1>1, <2>1, <2>2, StoredPlaced, SameGoverns DEF VaultInv, StoredInv
  <2>4. FlightInv'
    <3>1. Governed(None)'
      BY DEF Governed
    <3> QED BY <1>2, <1>5, <3>1, FlightPlaced DEF Rewrap
  <2> QED BY <1>1, <1>2, <1>3, <2>3, <2>4 DEF VaultInv
<1> QED BY <1>4, <1>5 DEF Unwrap, RewrapFails

\* Purge-all: the records one by one, then the active key.
LEMMA PurgeKeeps ==
    ASSUME VaultInv, PurgeBegin \/ PurgeKey \/ \E r \in VaultRecords : PurgeDelete(r)
    PROVE  VaultInv'
<1>1. CASE PurgeBegin
  BY <1>1, SameGoverns
  DEF PurgeBegin, VaultInv, MaterialInv, StoredInv, FlightInv, ArchiveInv, ReadsBack, keyringVars
<1>2. ASSUME NEW r \in VaultRecords, PurgeDelete(r) PROVE VaultInv'
  <2>1. MaterialInv'
    BY <1>2 DEF VaultInv, MaterialInv, keyringVars, PurgeDelete
  <2>2. Governed(None)
    BY DEF Governed
  <2>3. StoredInv'
    <3>1. CASE stored' = [stored EXCEPT ![r] = None]
      BY <1>2, <2>2, <3>1, StoredPlaced DEF PurgeDelete
    <3>2. CASE UNCHANGED stored
      BY <1>2, <3>2, SameGoverns DEF PurgeDelete, VaultInv, StoredInv
    <3> QED BY <1>2, <3>1, <3>2 DEF PurgeDelete
  <2>4. FlightInv' /\ ArchiveInv'
    BY <1>2, SameGoverns DEF VaultInv, FlightInv, ArchiveInv, PurgeDelete, ReadsBack
  <2> QED BY <1>2, <2>1, <2>3, <2>4 DEF VaultInv, PurgeDelete
<1>3. CASE PurgeKey
  <2>1. CASE ActiveLoads
    <3>1. pointer \in Versions
      BY <2>1 DEF ActiveLoads, VaultInv, MaterialInv
    <3> QED BY <1>3, <2>1, <3>1, DestroyedKeeps DEF PurgeKey
  <2>2. CASE ~ActiveLoads
    BY <1>3, <2>2, SameGoverns
    DEF PurgeKey, VaultInv, MaterialInv, StoredInv, FlightInv, ArchiveInv, ReadsBack, keyringVars
  <2> QED BY <2>1, <2>2
<1> QED BY <1>1, <1>2, <1>3

\* The backup takes envelopes as they are stored, and brings back none in another's place.
LEMMA ExportKeeps ==
    ASSUME VaultInv, Export
    PROVE  VaultInv'
<1>1. MaterialInv' /\ StoredInv' /\ FlightInv'
  BY SameGoverns DEF VaultInv, MaterialInv, StoredInv, FlightInv, keyringVars, Export
<1>2. PICK left \in SUBSET VaultRecords, whole \in BOOLEAN, s \in {FALSE, Crypter} :
         archive' = [Archived(Collected(left), whole) EXCEPT !.sealed = s]
  BY DEF Export
<1>3. Collected(left) \in [VaultRecords -> EnvelopesOver(KeyNames) \cup {None}]
  BY DEF Collected, VaultInv, StoredInv
<1>4. archive' = [sealed |-> s, whole |-> whole, envelopes |-> Collected(left)]
  BY <1>2 DEF Archived
<1>5. archive' \in [sealed : BOOLEAN, whole : BOOLEAN,
                    envelopes : [VaultRecords -> EnvelopesOver(KeyNames) \cup {None}]]
  BY <1>3, <1>4, VaultAssumption
<1>6. ASSUME NEW r \in VaultRecords, NEW e, e = archive'.envelopes[r] PROVE Governed(e)'
  <2>1. e = None \/ e = stored[r]
    BY <1>4, <1>6 DEF Collected
  <2>2. Governed(e)
    BY <2>1 DEF VaultInv, StoredInv, Governed
  <2> QED BY <2>2, SameGoverns DEF Export
<1>7. restoring' = None
  BY DEF Export
<1>8. ArchiveInv'
  BY <1>5, <1>6, <1>7 DEF ArchiveInv
<1> QED BY <1>1, <1>8 DEF VaultInv, Export

\* A restore begins only with an archive that reads back.
LEMMA RestoreBeginKeeps ==
    ASSUME VaultInv, RestoreBegin
    PROVE  VaultInv'
<1>1. MaterialInv' /\ StoredInv' /\ FlightInv'
  BY SameGoverns DEF VaultInv, MaterialInv, StoredInv, FlightInv, keyringVars, RestoreBegin
<1>2. /\ archive \in [sealed : BOOLEAN, whole : BOOLEAN,
                      envelopes : [VaultRecords -> EnvelopesOver(KeyNames) \cup {None}]]
      /\ \A r \in VaultRecords : Governed(archive.envelopes[r])
  BY DEF VaultInv, ArchiveInv, RestoreBegin
<1>3. archive' = [archive EXCEPT !.sealed = FALSE]
  BY DEF RestoreBegin
<1>4. /\ archive' \in [sealed : BOOLEAN, whole : BOOLEAN,
                       envelopes : [VaultRecords -> EnvelopesOver(KeyNames) \cup {None}]]
      /\ archive'.envelopes = archive.envelopes
      /\ archive' = [sealed |-> FALSE, whole |-> archive.whole, envelopes |-> archive.envelopes]
  BY <1>2, <1>3
<1>5. ASSUME NEW r \in VaultRecords, NEW e, e = archive'.envelopes[r] PROVE Governed(e)'
  BY <1>2, <1>4, <1>5, SameGoverns DEF RestoreBegin
<1>6. /\ restoring' = None \/ restoring' \subseteq VaultRecords
      /\ restoring' # None => ReadsBack(archive)'
  BY <1>3 DEF RestoreBegin, ReadsBack
<1>7. ArchiveInv'
  BY <1>4, <1>5, <1>6 DEF ArchiveInv
<1> QED BY <1>1, <1>7 DEF VaultInv, RestoreBegin

\* A restored envelope fills a place that is empty.
LEMMA RestoreRecordKeeps ==
    ASSUME VaultInv, NEW r \in VaultRecords, RestoreRecord(r)
    PROVE  VaultInv'
<1>1. MaterialInv' /\ FlightInv'
  BY SameGoverns DEF VaultInv, MaterialInv, FlightInv, keyringVars, RestoreRecord
<1>2. /\ archive.envelopes[r] \in EnvelopesOver(KeyNames) \cup {None}
      /\ Governed(archive.envelopes[r])
  BY DEF VaultInv, ArchiveInv, RestoreRecord
<1>3. StoredInv'
  <2>1. CASE stored' = [stored EXCEPT ![r] = archive.envelopes[r]]
    BY <1>2, <2>1, StoredPlaced DEF RestoreRecord
  <2>2. CASE UNCHANGED stored
    BY <2>2, SameGoverns DEF RestoreRecord, VaultInv, StoredInv
  <2> QED BY <2>1, <2>2 DEF RestoreRecord
<1>4. ArchiveInv'
  BY SameGoverns DEF VaultInv, ArchiveInv, RestoreRecord, ReadsBack
<1> QED BY <1>1, <1>3, <1>4 DEF VaultInv, RestoreRecord

\* The end of a restore, and a step of nobody.
LEMMA RestoreEndKeeps ==
    ASSUME VaultInv, RestoreEnd \/ UNCHANGED vaultVars
    PROVE  VaultInv'
BY SameGoverns
DEF RestoreEnd, vaultVars, VaultInv, MaterialInv, StoredInv, FlightInv, ArchiveInv, ReadsBack,
    keyringVars

\* Every step of the vault keeps the invariant.
LEMMA VaultStep ==
    ASSUME VaultInv, [VaultNext]_vaultVars
    PROVE  VaultInv'
<1>1. ASSUME NEW v \in Versions, Rotate(v) \/ Destroy(v) PROVE VaultInv'
  BY <1>1, RotateKeeps, DestroyedKeeps DEF Destroy, VaultInv
<1>2. ASSUME NEW r \in VaultRecords,
             \/ ChooseKey(r) \/ Wrap(r) \/ PutEnvelope(r) \/ RestoreRecord(r)
             \/ Unwrap(r) \/ RewrapFails(r) \/ Rewrap(r)
      PROVE  VaultInv'
  BY <1>2, ChooseKeyKeeps, WrapKeeps, PutEnvelopeKeeps, RewrapKeeps, RestoreRecordKeeps
<1> QED
  BY <1>1, <1>2, PurgeKeeps, ExportKeeps, RestoreBeginKeeps, RestoreEndKeeps DEF VaultNext

\* Nothing that comes between the calls of a rewrap makes its handle the older one.
LEMMA RewrapStep ==
    ASSUME VaultInv, RewrapInv, [VaultNext]_vaultVars
    PROVE  RewrapInv'
<1> DEFINE Fits(r) == ~misused /\ flight[r] # None /\ flight[r].provider = "os-keyring" =>
                         /\ NotNewer(stored[r], flight[r])
                         /\ archive # None \/ restoring # None
                               => NotNewer(archive.envelopes[r], flight[r])
<1>1. rewrapping \subseteq VaultRecords /\ \A r \in rewrapping : Fits(r)
  BY DEF RewrapInv
<1>2. /\ flight \in [VaultRecords -> Wrappings \cup {None}]
      /\ stored \in [VaultRecords -> EnvelopesOver(KeyNames) \cup {None}]
      /\ archive # None => archive.envelopes \in [VaultRecords -> EnvelopesOver(KeyNames) \cup {None}]
  BY DEF VaultInv, StoredInv, FlightInv, ArchiveInv
<1>3. ASSUME rewrapping' \subseteq VaultRecords, \A r \in rewrapping' : Fits(r)'
      PROVE  RewrapInv'
  BY <1>3 DEF RewrapInv
<1> HIDE DEF Fits
<1>4. ASSUME UNCHANGED <<stored, flight, archive>>, misused => misused',
             restoring' \in {restoring, None},
             NEW r \in rewrapping
      PROVE  Fits(r)'
  BY <1>1, <1>4 DEF Fits, NotNewer
<1>5. CASE \/ \E v \in Versions : Rotate(v) \/ Destroy(v)
           \/ PurgeBegin \/ PurgeKey \/ RestoreEnd \/ UNCHANGED vaultVars
  <2>1. UNCHANGED <<stored, flight, archive, rewrapping>> /\ restoring' \in {restoring, None}
    BY <1>5 DEF Rotate, Destroy, PurgeBegin, PurgeKey, RestoreEnd, vaultVars
  <2>2. misused \in BOOLEAN
    BY DEF VaultInv, MaterialInv
  <2>3. misused => misused'
    BY <1>5, <2>2
    DEF Rotate, Destroy, DestroyKey, PurgeBegin, PurgeKey, RestoreEnd, vaultVars, keyringVars
  <2> QED BY <1>1, <1>3, <1>4, <2>1, <2>3
<1>6. ASSUME NEW q \in VaultRecords, ChooseKey(q) PROVE RewrapInv'
  <2>1. UNCHANGED <<stored, archive, restoring, rewrapping, misused>>
    BY <1>6 DEF ChooseKey, keyringVars
  <2>2. ASSUME NEW r \in rewrapping PROVE Fits(r)'
    <3>1. CASE flight'[r] = flight[r]
      BY <1>1, <2>1, <3>1 DEF Fits, NotNewer
    <3>2. CASE flight'[r] # flight[r]
      <4>1. /\ r \in VaultRecords
            /\ \/ pointer # None /\ flight'[r] = Handle("os-keyring", pointer)
               \/ pointer = None /\ flight'[r] = Handle("os-keyring", 1)
               \/ flight'[r] = Handle("gpg", 1)
        BY <1>1, <1>2, <1>6, <3>2 DEF ChooseKey, ActiveLoads, CreateInitial
      <4>2. \A p, v : Handle(p, v).provider = p /\ Handle(p, v).version = v
        BY DEF Handle
      <4>3. \A e \in {stored[r]} \cup (IF archive = None /\ restoring = None THEN {}
                                            ELSE {archive.envelopes[r]}) :
               Governed(e)
        BY <4>1 DEF VaultInv, StoredInv, ArchiveInv
      <4>4. None \notin Versions
        BY VaultAssumption DEF Versions
      <4>5. \A e : Governed(e) /\ ~misused /\ flight'[r].provider = "os-keyring"
                     => NotNewer(e, flight'[r])
        BY <4>1, <4>2, <4>4 DEF Governed, NotNewer
      <4> QED BY <2>1, <4>3, <4>5 DEF Fits
    <3> QED BY <3>1, <3>2
  <2> QED BY <1>1, <1>3, <2>1, <2>2
<1>7. ASSUME NEW q \in VaultRecords,
             Wrap(q) \/ PutEnvelope(q) \/ Unwrap(q) \/ RewrapFails(q) \/ Rewrap(q)
      PROVE  RewrapInv'
  <2>1. UNCHANGED <<archive, restoring, misused>> /\ rewrapping' \subseteq rewrapping \cup {q}
    BY <1>7 DEF Wrap, PutEnvelope, Unwrap, RewrapFails, Rewrap, keyringVars
  <2>2. ASSUME NEW r \in rewrapping', r # q PROVE Fits(r)'
    <3>1. r \in VaultRecords /\ stored'[r] = stored[r] /\ flight'[r] = flight[r]
      BY <1>1, <1>2, <1>7, <2>1, <2>2 DEF Wrap, PutEnvelope, Unwrap, RewrapFails, Rewrap
    <3> QED BY <1>1, <2>1, <2>2, <3>1 DEF Fits, NotNewer
  <2>3. ASSUME q \in rewrapping' PROVE Fits(q)'
    <3>1. CASE Wrap(q)
      <4>1. /\ stored' = stored /\ q \in rewrapping
            /\ flight'[q] = None \/ flight'[q] = WrapWith(flight[q])
        BY <1>2, <2>3, <3>1 DEF Wrap
      <4>2. flight[q] \in Wrappings
        BY <1>2, <3>1 DEF Wrap
      <4>3. flight'[q] # None => /\ flight'[q].provider = flight[q].provider
                                 /\ flight'[q].version = flight[q].version
        BY <4>1, <4>2 DEF WrapWith, Wrappings, EnvelopesOver
      <4> QED BY <1>1, <2>1, <3>1, <4>1, <4>3 DEF Fits, NotNewer, Wrap
    <3>2. CASE Unwrap(q)
      BY <3>2 DEF Unwrap, Fits
    <3> QED BY <1>7, <2>3, <3>1, <3>2 DEF PutEnvelope, RewrapFails, Rewrap
  <2> QED BY <1>1, <1>3, <2>1, <2>2, <2>3
<1>8. ASSUME NEW q \in VaultRecords, PurgeDelete(q) \/ RestoreRecord(q) PROVE RewrapInv'
  <2>1. UNCHANGED <<flight, archive, misused, rewrapping>> /\ (restoring' # None => restoring # None)
    BY <1>8 DEF PurgeDelete, RestoreRecord, keyringVars
  <2>2. ASSUME NEW r \in rewrapping
        PROVE  \/ stored'[r] = stored[r] \/ stored'[r] = None
               \/ restoring # None /\ stored'[r] = archive.envelopes[r]
    <3>1. r \in VaultRecords
      BY <1>1
    <3> QED BY <1>2, <1>8, <3>1 DEF PurgeDelete, RestoreRecord
  <2>3. ASSUME NEW r \in rewrapping PROVE Fits(r)'
    BY <1>1, <2>1, <2>2 DEF Fits, NotNewer
  <2> QED BY <1>1, <1>3, <2>1, <2>3
<1>9. CASE Export \/ RestoreBegin
  <2>1. UNCHANGED <<stored, flight, misused, rewrapping>>
    BY <1>9 DEF Export, RestoreBegin, keyringVars
  <2>2. ASSUME NEW r \in rewrapping
        PROVE  \/ archive'.envelopes[r] \in {None, stored[r]}
               \/ archive # None /\ archive'.envelopes[r] = archive.envelopes[r]
    <3>1. r \in VaultRecords
      BY <1>1
    <3>2. CASE Export
      BY <3>1, <3>2 DEF Export, Archived, Collected
    <3>3. CASE RestoreBegin
      <4>1. archive \in [sealed : BOOLEAN, whole : BOOLEAN,
                         envelopes : [VaultRecords -> EnvelopesOver(KeyNames) \cup {None}]]
        BY <3>3 DEF RestoreBegin, VaultInv, ArchiveInv
      <4> QED BY <3>3, <4>1 DEF RestoreBegin
    <3> QED BY <1>9, <3>2, <3>3
  <2> QED BY <1>1, <1>3, <2>1, <2>2 DEF Fits, NotNewer
<1> QED BY <1>5, <1>6, <1>7, <1>8, <1>9 DEF VaultNext

\* Only a rewrap gives a stored record another wrapping, and never that of an older version.
LEMMA RewrapOnly ==
    ASSUME VaultInv, RewrapInv, [VaultNext]_vaultVars, NEW r \in VaultRecords,
           stored[r] # None, stored'[r] # None, stored'[r] # stored[r]
    PROVE  /\ r \in rewrapping /\ stored'[r] = flight[r]
           /\ ~misused /\ stored[r].provider = "os-keyring" /\ flight[r].provider = "os-keyring"
                 => stored[r].version <= flight[r].version
<1>1. stored \in [VaultRecords -> EnvelopesOver(KeyNames) \cup {None}]
  BY DEF VaultInv, StoredInv
<1>2. ASSUME NEW q \in VaultRecords, NEW h, stored' = [stored EXCEPT ![q] = h]
      PROVE  q = r /\ h = stored'[r]
  BY <1>1, <1>2
<1>3. stored' # stored
  OBVIOUS
<1>4. \E q \in VaultRecords :
         PutEnvelope(q) \/ Rewrap(q) \/ PurgeDelete(q) \/ RestoreRecord(q)
  BY <1>3
  DEF VaultNext, vaultVars, Rotate, Destroy, ChooseKey, Wrap, Unwrap, RewrapFails, PurgeBegin,
      PurgeKey, Export, RestoreBegin, RestoreEnd
<1>5. ASSUME NEW q \in VaultRecords, PutEnvelope(q) \/ PurgeDelete(q) \/ RestoreRecord(q)
      PROVE  FALSE
  BY <1>2, <1>3, <1>5 DEF PutEnvelope, PurgeDelete, RestoreRecord
<1>6. Rewrap(r) /\ stored'[r] = flight[r]
  BY <1>2, <1>3, <1>4, <1>5 DEF Rewrap
<1> QED BY <1>6 DEF Rewrap, RewrapInv, NotNewer

\* What the invariant says of every envelope there is.
LEMMA KeysGovernEnvelopes ==
    ASSUME VaultInv, RewrapInv
    PROVE  KeysGovern
<1>1. VaultTypeOK
  <2>1. 1 .. generated \subseteq KeyNames
    BY VaultAssumption DEF VaultInv, MaterialInv, KeyNames, Recipient
  <2> QED BY <2>1
    DEF VaultInv, MaterialInv, StoredInv, FlightInv, ArchiveInv, RewrapInv, VaultTypeOK, Wrappings
<1>2. ASSUME NEW e \in Envelopes
      PROVE  e \in EnvelopesOver(KeyNames \cup {None}) /\ Governed(e) /\ e # None /\ e.key # None
  BY <1>2 DEF Envelopes, VaultInv, StoredInv, FlightInv, ArchiveInv, Wrappings, EnvelopesOver
<1>3. ASSUME NEW e \in Envelopes, e.key \in revoked PROVE ~Opens(e)
  BY <1>2, <1>3 DEF Opens, Governed, Recipient, VaultInv, MaterialInv, EnvelopesOver
<1>4. ASSUME ~misused, NEW e \in Envelopes PROVE Opens(e) \/ e.key \in revoked
  BY <1>2, <1>4 DEF Opens, Governed, EnvelopesOver
<1> QED BY <1>1, <1>3, <1>4 DEF KeysGovern, RevokedNeverOpens, EnvelopeOpens

\* A destroyed key opens no envelope again, every other key opens what it wrapped as long
\* as rotations start from the active handle and the active version is not destroyed, and
\* no step of the encryption stage, a restore, a purge or a rewrap replaces a stored
\* envelope by one of an older version (OSKeyringProvider, EnvelopeEncryptionStageProcessor, PurgeAllEngine,
\* BackupEngine).
THEOREM KeysGovernRecords == VaultSpec => VaultSound
<1>1. VaultInit => VaultInv /\ RewrapInv
  <2> SUFFICES ASSUME VaultInit PROVE VaultInv /\ RewrapInv
    OBVIOUS
  <2>1. MaterialInv
    <3>1. \A v \in Versions : material[v] = None
      BY DEF VaultInit
    <3>2. material \in [Versions -> 1 .. MaxKeys \cup {None}]
      BY DEF VaultInit
    <3>3. generated \in 0 .. MaxKeys /\ revoked \subseteq 1 .. generated
      BY VaultAssumption DEF VaultInit
    <3>4. pointer \in Versions \cup {None} /\ misused \in BOOLEAN
      BY DEF VaultInit
    <3> QED BY <3>1, <3>2, <3>3, <3>4 DEF MaterialInv
  <2>2. StoredInv /\ FlightInv
    BY DEF VaultInit, StoredInv, FlightInv, Governed
  <2>3. ArchiveInv /\ purging = None
    BY DEF VaultInit, ArchiveInv
  <2>4. RewrapInv
    BY DEF VaultInit, RewrapInv
  <2> QED BY <2>1, <2>2, <2>3, <2>4 DEF VaultInv
<1>2. VaultInv /\ RewrapInv /\ [VaultNext]_vaultVars => VaultInv' /\ RewrapInv'
  BY VaultStep, RewrapStep
<1>3. VaultInv /\ RewrapInv => KeysGovern
  BY KeysGovernEnvelopes
<1>4. VaultInv /\ RewrapInv /\ [VaultNext]_vaultVars =>
         \A r \in VaultRecords :
            stored[r] # None /\ stored'[r] # None /\ stored'[r] # stored[r] =>
               /\ r \in rewrapping /\ stored'[r] = flight[r]
               /\ ~misused /\ stored[r].provider = "os-keyring"
                     /\ flight[r].provider = "os-keyring"
                     => stored[r].version <= flight[r].version
  BY RewrapOnly
<1> QED BY <1>1, <1>2, <1>3, <1>4, PTL DEF VaultSpec, VaultSound, StoredNeverRolledBack

-----------------------------------------------------------------------------
(* Health reports and repairs.                                             *)

Critical == CheckIds \ OptionalChecks

\* failing and troubled say what their names say of the privacy-critical checks.
HistoryInv ==
    /\ \A c \in failing \cap Critical : Down(c, world[c])
    /\ phase # "idle" => \A c \in Watched \cap Critical : Down(c, world[c]) => c \in troubled

\* A verdict blocks only a critical check that was in trouble, and blocks every one whose
\* dependency has been down since the report began.
VerdictInv ==
    \A c \in DOMAIN results :
        /\ results[c] = "capture-blocking" => c \in Critical /\ c \in troubled
        /\ c \in failing \cap Critical => results[c] = "capture-blocking"

RepairStates == [command : RepairCommands \cup {None},
                 status : {None, "completed", "unavailable", "failed"}]

\* The repairs under way, and the ledger.
RepairInv ==
    /\ repair \in [Repairers -> RepairStates]
    /\ \A p \in Repairers : repair[p] # NoRepair /\ repair[p].status = "completed"
                              => repair[p].command \in repairsDone
    /\ DOMAIN ledger = RepairCommands

DiagnosticsInv ==
    /\ DiagnosticsTypeOK /\ HistoryInv /\ VerdictInv
    /\ phase = "reported" => DOMAIN results = Watched
    /\ RepairInv /\ LedgerTruthful

\* A check that gets an answer blocks exactly when its dependency is down, and an optional
\* one never does.
LEMMA VerdictExact ==
    ASSUME NEW c \in CheckIds \ {"indexes"}, NEW a \in Answers(c), ~Raises(c, a)
    PROVE  /\ Verdict(c, a) \in HealthStates
           /\ Verdict(c, a) = "capture-blocking" <=> c \in Critical /\ Down(c, a)
<1> USE DEF OrBlocking, OrDegraded, HealthStates, Critical, OptionalChecks, CheckIds, Down
<1>1. CASE c = "lifecycle"
  BY <1>1 DEF Verdict, LifecycleCheck, Answers, Raises
<1>2. CASE c \in {"capture-backend", "redaction"}
  BY <1>2 DEF Verdict, CaptureBackendCheck, RedactionCheck, Answers, Raises
<1>3. CASE c \in {"metadata-sources", "ocr", "model-providers", "daemon-ipc"}
  BY <1>3 DEF Verdict, MetadataSourcesCheck, OcrCheck, ModelProvidersCheck, DaemonIpcCheck
<1>4. CASE c = "encryption-keys"
  BY <1>4 DEF Verdict, EncryptionKeysCheck, Raises
<1>5. CASE c = "storage-integrity"
  BY <1>5 DEF Verdict, StorageIntegrityCheck, Raises
<1>6. CASE c = "disk-quota"
  BY <1>6, DiagnosticsAssumption DEF Verdict, DiskQuotaCheck, Answers, Raises, InvalidUsage
<1> QED BY <1>1, <1>2, <1>3, <1>4, <1>5, <1>6

\* A dependency changes: the histories follow, the verdicts stay.
LEMMA DependencyChangesKeeps ==
    ASSUME DiagnosticsInv, NEW c \in Watched, DependencyChanges(c)
    PROVE  DiagnosticsInv'
<1>1. PICK a \in Answers(c) : /\ world' = [world EXCEPT ![c] = a]
                              /\ failing' = IF Down(c, a) THEN failing ELSE failing \ {c}
                              /\ troubled' = IF Down(c, a) THEN troubled \union {c} ELSE troubled
  BY DEF DependencyChanges
<1>2. /\ DOMAIN world' = Watched /\ world'[c] = a
      /\ \A d \in Watched \ {c} : world'[d] = world[d]
  BY <1>1 DEF DiagnosticsInv, DiagnosticsTypeOK
<1>3. failing' \subseteq failing /\ troubled \subseteq troubled' /\ troubled' \subseteq Watched
  BY <1>1 DEF DiagnosticsInv, DiagnosticsTypeOK
<1>4. DiagnosticsTypeOK'
  BY <1>2, <1>3 DEF DependencyChanges, repairVars, DiagnosticsInv, DiagnosticsTypeOK
<1>5. HistoryInv'
  <2>1. ASSUME NEW d \in Watched, d # c PROVE world'[d] = world[d] /\ (d \in failing' => d \in failing)
    BY <1>2, <1>3, <2>1
  <2>2. c \in failing' => Down(c, a)
    BY <1>1
  <2>3. Down(c, a) => c \in troubled'
    BY <1>1
  <2>4. failing' \subseteq Watched /\ phase' = phase
    BY <1>3 DEF DependencyChanges, DiagnosticsInv, DiagnosticsTypeOK
  <2>5. ASSUME NEW d \in Watched \cap Critical
        PROVE  /\ d \in failing' => Down(d, world[d])'
               /\ phase # "idle" => (Down(d, world[d])' => d \in troubled')
    <3>1. CASE d = c
      BY <1>2, <2>2, <2>3, <3>1
    <3>2. CASE d # c
      BY <1>3, <2>1, <3>2, <2>5 DEF DiagnosticsInv, HistoryInv
    <3> QED BY <3>1, <3>2
  <2> QED BY <2>4, <2>5 DEF HistoryInv
<1>6. VerdictInv'
  BY <1>3 DEF DependencyChanges, DiagnosticsInv, VerdictInv
<1> QED
  BY <1>4, <1>5, <1>6 DEF DependencyChanges, repairVars, DiagnosticsInv, RepairInv, LedgerTruthful

\* A report begins without results.
LEMMA ReportBeginKeeps ==
    ASSUME DiagnosticsInv, ReportBegin
    PROVE  DiagnosticsInv'
<1>1. DOMAIN results' = {}
  BY DEF ReportBegin
<1>2. HistoryInv'
  BY DEF ReportBegin, HistoryInv
<1> QED
  BY <1>1, <1>2
  DEF ReportBegin, repairVars, DiagnosticsInv, DiagnosticsTypeOK, VerdictInv, RepairInv, LedgerTruthful

\* A check reports.
LEMMA ReportsKeeps ==
    ASSUME DiagnosticsInv, NEW c \in Watched, NEW state \in HealthStates, Unfinished(c),
           Reports(c, state), troubled' \in {troubled, troubled \union {c}},
           manifest' \in {None} \union (0 .. 1),
           state = "capture-blocking" => c \in Critical /\ c \in troubled',
           c \in failing \cap Critical => state = "capture-blocking"
    PROVE  DiagnosticsInv'
<1>1. /\ DOMAIN results' = DOMAIN results \union {c} /\ results'[c] = state
      /\ \A d \in DOMAIN results : results'[d] = results[d]
  BY DEF Reports, Unfinished
<1>2. troubled \subseteq troubled' /\ troubled' \subseteq Watched
  BY DEF DiagnosticsInv, DiagnosticsTypeOK
<1>3. DiagnosticsTypeOK'
  BY <1>1, <1>2 DEF Reports, repairVars, DiagnosticsInv, DiagnosticsTypeOK
<1>4. HistoryInv'
  BY <1>2 DEF Reports, DiagnosticsInv, HistoryInv
<1>5. VerdictInv'
  BY <1>1, <1>2 DEF Reports, DiagnosticsInv, VerdictInv
<1> QED
  BY <1>3, <1>4, <1>5
  DEF Reports, Unfinished, repairVars, DiagnosticsInv, RepairInv, LedgerTruthful

\* Every check adds the result its component's state calls for.
LEMMA ChecksKeep ==
    ASSUME DiagnosticsInv,
           \/ \E c \in Watched : CheckAnswers(c) \/ CheckFails(c)
           \/ "indexes" \in Watched /\ (IndexReadsManifest \/ IndexReadsStorage)
    PROVE  DiagnosticsInv'
<1>1. ASSUME NEW c \in Watched, CheckAnswers(c) PROVE DiagnosticsInv'
  <2>1. c \in CheckIds \ {"indexes"} /\ world[c] \in Answers(c) /\ ~Raises(c, world[c])
    BY <1>1, DiagnosticsAssumption DEF CheckAnswers, DiagnosticsInv, DiagnosticsTypeOK
  <2>2. /\ Verdict(c, world[c]) \in HealthStates
        /\ Verdict(c, world[c]) = "capture-blocking" <=> c \in Critical /\ Down(c, world[c])
    BY <2>1, VerdictExact
  <2>3. Unfinished(c) /\ phase = "checking" /\ Reports(c, Verdict(c, world[c]))
        /\ manifest' = manifest /\ troubled' = troubled
    BY <1>1 DEF CheckAnswers, Unfinished
  <2>4. manifest \in {None} \union (0 .. 1)
    BY DEF DiagnosticsInv, DiagnosticsTypeOK
  <2>5. Down(c, world[c]) /\ c \in Critical => c \in troubled
    BY <2>3 DEF DiagnosticsInv, HistoryInv
  <2>6. c \in failing \cap Critical => Down(c, world[c])
    BY DEF DiagnosticsInv, HistoryInv
  <2> HIDE DEF Critical
  <2> QED BY <2>2, <2>3, <2>4, <2>5, <2>6, ReportsKeeps
<1>2. ASSUME NEW c \in Watched, CheckFails(c) PROVE DiagnosticsInv'
  <2>1. c \in CheckIds /\ manifest \in {None} \union (0 .. 1)
    BY DiagnosticsAssumption DEF DiagnosticsInv, DiagnosticsTypeOK
  <2>2. FailureState(c) \in HealthStates /\ (FailureState(c) = "capture-blocking" <=> c \in Critical)
    BY <2>1 DEF FailureState, HealthStates, Critical
  <2> QED BY <1>2, <2>1, <2>2, ReportsKeeps DEF CheckFails
<1>3. "degraded" \in HealthStates /\ "indexes" \notin Critical
  BY DEF HealthStates, Critical, OptionalChecks
<1>4. ASSUME "indexes" \in Watched, IndexReadsManifest PROVE DiagnosticsInv'
  <2>1. CASE world["indexes"] = None
    BY <1>3, <1>4, <2>1, ReportsKeeps DEF IndexReadsManifest
  <2>2. CASE world["indexes"] # None
    <3>1. world["indexes"] \in 0 .. 1
      BY <1>4, <2>2 DEF IndexReadsManifest, DiagnosticsInv, DiagnosticsTypeOK, Answers
    <3> QED
      BY <1>4, <2>2, <3>1
      DEF IndexReadsManifest, repairVars, DiagnosticsInv, DiagnosticsTypeOK, HistoryInv, VerdictInv,
          RepairInv, LedgerTruthful
  <2> QED BY <2>1, <2>2
<1>5. ASSUME "indexes" \in Watched, IndexReadsStorage PROVE DiagnosticsInv'
  <2>1. \A read, kept : /\ IndexCheck(read, kept) \in HealthStates
                        /\ IndexCheck(read, kept) # "capture-blocking"
    BY DEF IndexCheck, OrDegraded, HealthStates
  <2>2. manifest \in {None} \union (0 .. 1)
    BY DEF DiagnosticsInv, DiagnosticsTypeOK
  <2> QED BY <1>3, <1>5, <2>1, <2>2, ReportsKeeps DEF IndexReadsStorage
<1> QED BY <1>1, <1>2, <1>4, <1>5

\* No repair under way is one of a caller's states.
LEMMA NoRepairState == NoRepair \in RepairStates
  BY DEF NoRepair, RepairStates

\* A repair under way: whatever it rebuilds, no critical dependency goes down or recovers.
LEMMA RepairsKeep ==
    ASSUME DiagnosticsInv, NEW p \in Repairers,
           \/ \E r \in RepairCommands : RepairExecutes(p, r) \/ RepairRaises(p, r)
           \/ RepairFinalized(p) \/ RepairAuditFails(p)
    PROVE  DiagnosticsInv'
<1>1. ASSUME NEW s \in RepairStates, repair' = [repair EXCEPT ![p] = s]
      PROVE  /\ repair' \in [Repairers -> RepairStates] /\ repair'[p] = s
             /\ \A q \in Repairers \ {p} : repair'[q] = repair[q]
  BY <1>1 DEF DiagnosticsInv, RepairInv
<1>2. ASSUME NEW r \in RepairCommands, RepairExecutes(p, r) PROVE DiagnosticsInv'
  <2>1. /\ DOMAIN world' = Watched /\ \A c \in Watched : world'[c] \in Answers(c)
        /\ \A c \in Watched \cap Critical : world'[c] = world[c]
    <3>1. CASE world' = world
      BY <3>1 DEF DiagnosticsInv, DiagnosticsTypeOK
    <3>2. CASE /\ {"indexes", "storage-integrity"} \subseteq Watched
               /\ world["storage-integrity"] # Raised
               /\ world' = [world EXCEPT !["indexes"] = world["storage-integrity"].records]
      <4>1. world["storage-integrity"].records \in 0 .. 1
        BY <3>2 DEF DiagnosticsInv, DiagnosticsTypeOK, Answers
      <4>2. world["storage-integrity"].records \in Answers("indexes")
        BY <4>1 DEF Answers
      <4>3. "indexes" \notin Critical
        BY DEF Critical, OptionalChecks
      <4> QED BY <3>2, <4>2, <4>3 DEF DiagnosticsInv, DiagnosticsTypeOK
    <3> QED BY <1>2, <3>1, <3>2 DEF RepairExecutes, Repaired
  <2>2. UNCHANGED <<reportVars, ledger, repairLog>>
    BY <1>2 DEF RepairExecutes, RepairEnds
  <2>3. HistoryInv'
    <3>1. ASSUME NEW c \in Watched \cap Critical PROVE Down(c, world[c])' <=> Down(c, world[c])
      BY <2>1
    <3> QED BY <2>2, <3>1 DEF reportVars, DiagnosticsInv, DiagnosticsTypeOK, HistoryInv
  <2>4. PICK status \in {"completed", "unavailable"} :
          /\ repair' = [repair EXCEPT ![p] = Outcome(r, status)]
          /\ status = "completed" => r \in repairsDone'
    BY <1>2 DEF RepairExecutes, RepairEnds
  <2>5. /\ Outcome(r, status) \in RepairStates
        /\ Outcome(r, status).command = r /\ Outcome(r, status).status = status
    BY <2>4 DEF Outcome, RepairStates
  <2>6. /\ repair' \in [Repairers -> RepairStates] /\ repair'[p] = Outcome(r, status)
        /\ \A q \in Repairers \ {p} : repair'[q] = repair[q]
    BY <1>1, <2>4, <2>5
  <2>7. repairsDone \subseteq repairsDone'
    BY <1>2 DEF RepairExecutes
  <2>8. DiagnosticsTypeOK'
    BY <2>1, <2>2, <2>5, <2>6 DEF reportVars, DiagnosticsInv, DiagnosticsTypeOK
  <2>9. RepairInv' /\ LedgerTruthful'
    BY <2>2, <2>4, <2>5, <2>6, <2>7 DEF DiagnosticsInv, RepairInv, LedgerTruthful
  <2> QED BY <2>2, <2>3, <2>8, <2>9 DEF reportVars, DiagnosticsInv, VerdictInv
<1>3. ASSUME NEW r \in RepairCommands, RepairRaises(p, r) PROVE DiagnosticsInv'
  <2>1. /\ Outcome(r, "failed") \in RepairStates /\ Outcome(r, "failed").command = r
        /\ Outcome(r, "failed").status # "completed"
    BY DEF Outcome, RepairStates
  <2>2. /\ repair' \in [Repairers -> RepairStates] /\ repair'[p] = Outcome(r, "failed")
        /\ \A q \in Repairers \ {p} : repair'[q] = repair[q]
    BY <1>1, <1>3, <2>1 DEF RepairRaises, RepairEnds
  <2> QED BY <1>3, <2>1, <2>2
    DEF RepairRaises, RepairEnds, reportVars, DiagnosticsInv, DiagnosticsTypeOK, HistoryInv,
        VerdictInv, RepairInv, LedgerTruthful
<1>4. ASSUME RepairReturns(p)
      PROVE  /\ repair' \in [Repairers -> RepairStates] /\ repair'[p] = NoRepair
             /\ \A q \in Repairers \ {p} : repair'[q] = repair[q]
  BY <1>1, <1>4, NoRepairState DEF RepairReturns
<1>5. CASE RepairFinalized(p)
  <2>1. repair[p].command \in RepairCommands /\ repair[p] = Outcome(repair[p].command, repair[p].status)
    BY <1>5 DEF RepairFinalized, RepairReturns, Outcome, RepairStates, DiagnosticsInv,
                DiagnosticsTypeOK, RepairInv
  <2>2. /\ ledger'[repair[p].command] = repair[p].status /\ DOMAIN ledger' = RepairCommands
        /\ \A c \in RepairCommands \ {repair[p].command} : ledger'[c] = ledger[c]
    BY <1>5, <2>1 DEF RepairFinalized, DiagnosticsInv, RepairInv
  <2>3. LedgerTruthful'
    BY <1>5, <2>1, <2>2 DEF RepairFinalized, RepairReturns, DiagnosticsInv, RepairInv, LedgerTruthful
  <2>4. RepairInv'
    BY <1>4, <1>5, <2>2, NoRepairState DEF RepairFinalized, DiagnosticsInv, RepairInv
  <2> QED BY <1>4, <1>5, <2>3, <2>4
    DEF RepairFinalized, reportVars, DiagnosticsInv, DiagnosticsTypeOK, HistoryInv, VerdictInv
<1>6. CASE RepairAuditFails(p)
  BY <1>4, <1>6, NoRepairState
  DEF RepairAuditFails, reportVars, DiagnosticsInv, DiagnosticsTypeOK, HistoryInv, VerdictInv,
      RepairInv, LedgerTruthful
<1> QED BY <1>2, <1>3, <1>5, <1>6

\* Every step of the health and repair services keeps the invariant.
LEMMA DiagnosticsStep ==
    ASSUME DiagnosticsInv, [DiagnosticsNext]_diagnosticsVars
    PROVE  DiagnosticsInv'
<1>1. CASE ReportAssembled
  BY <1>1
  DEF ReportAssembled, repairVars, DiagnosticsInv, DiagnosticsTypeOK, HistoryInv, VerdictInv,
      RepairInv, LedgerTruthful
<1>2. CASE DiagnosticsRestart
  <2>1. /\ repair' \in [Repairers -> RepairStates]
        /\ \A p \in Repairers : repair'[p] = NoRepair
    BY <1>2, NoRepairState DEF DiagnosticsRestart
  <2>2. DOMAIN results' = {} /\ DOMAIN ledger' = RepairCommands /\ \A c \in RepairCommands : ledger'[c] = None
    BY <1>2 DEF DiagnosticsRestart
  <2> QED BY <1>2, <2>1, <2>2
    DEF DiagnosticsRestart, DiagnosticsInv, DiagnosticsTypeOK, HistoryInv, VerdictInv, RepairInv,
        LedgerTruthful
<1>3. CASE UNCHANGED diagnosticsVars
  BY <1>3
  DEF diagnosticsVars, DiagnosticsInv, DiagnosticsTypeOK, HistoryInv, VerdictInv, RepairInv,
      LedgerTruthful
<1> QED
  BY <1>1, <1>2, <1>3, DependencyChangesKeeps, ReportBeginKeeps, ChecksKeep, RepairsKeep
  DEF DiagnosticsNext

\* A fresh service has no ledger and no report.
LEMMA DiagnosticsInitial ==
    ASSUME DiagnosticsInit
    PROVE  DiagnosticsInv
<1>1. ASSUME NEW c \in CheckIds PROVE Good(c) \in Answers(c)
  <2>1. CASE c = "lifecycle"
    BY <2>1 DEF Good, Answers
  <2>2. CASE c \in {"metadata-sources", "model-providers"}
    BY <2>2 DEF Good, Answers
  <2>3. CASE c = "encryption-keys"
    BY <2>3 DEF Good, Answers, Statuses
  <2>4. CASE c = "storage-integrity"
    BY <2>4 DEF Good, Answers
  <2>5. CASE c = "indexes"
    BY <2>5 DEF Good, Answers
  <2>6. CASE c = "disk-quota"
    BY <2>6, DiagnosticsAssumption DEF Good, Answers
  <2>7. CASE c \in {"capture-backend", "ocr", "redaction", "daemon-ipc"}
    BY <2>7 DEF Good, Answers
  <2> QED BY <2>1, <2>2, <2>3, <2>4, <2>5, <2>6, <2>7 DEF CheckIds
<1>2. DOMAIN results = {} /\ DOMAIN ledger = RepairCommands /\ \A c \in RepairCommands : ledger[c] = None
  BY DEF DiagnosticsInit
<1>3. DiagnosticsTypeOK
  BY <1>1, <1>2, DiagnosticsAssumption DEF DiagnosticsInit, DiagnosticsTypeOK
<1>4. RepairInv
  BY <1>2, NoRepairState DEF DiagnosticsInit, RepairInv
<1> QED
  BY <1>2, <1>3, <1>4 DEF DiagnosticsInit, DiagnosticsInv, HistoryInv, VerdictInv, LedgerTruthful

\* A finished report blocks for the right reasons.
LEMMA BlocksExactly ==
    ASSUME DiagnosticsInv
    PROVE  BlockingIsExact
<1> SUFFICES ASSUME phase = "reported" PROVE BlockingIsExact
  BY DEF BlockingIsExact
<1>1. DOMAIN results = Watched /\ failing \subseteq Watched
  BY DEF DiagnosticsInv, DiagnosticsTypeOK
<1>2. PersistenceChecks \subseteq Critical
  BY DEF PersistenceChecks, Critical, CheckIds, OptionalChecks
<1>3. \A c \in Watched : c \in failing /\ c \in Critical => results[c] = "capture-blocking"
  BY <1>1 DEF DiagnosticsInv, VerdictInv
<1>4. \A c \in Watched : results[c] = "capture-blocking" => c \in Critical /\ c \in troubled
  BY <1>1 DEF DiagnosticsInv, VerdictInv
<1>5. failing \cap Critical # {} => CaptureBlocked(results)
  BY <1>1, <1>3 DEF CaptureBlocked
<1>6. failing \cap PersistenceChecks # {} => ~PersistenceAllowed(results)
  BY <1>1, <1>2, <1>3 DEF PersistenceAllowed
<1>7. CaptureBlocked(results) => troubled \cap Critical # {}
  BY <1>1, <1>4 DEF CaptureBlocked
<1>8. ~PersistenceAllowed(results) => troubled \cap PersistenceChecks # {}
  BY <1>1, <1>4 DEF PersistenceAllowed
<1>9. Overall(results) = "capture-blocking" <=> CaptureBlocked(results)
  BY DEF Overall
<1> QED BY <1>5, <1>6, <1>7, <1>8, <1>9 DEF BlockingIsExact, Critical

\* A health report misses no privacy-critical dependency that was down all the while it
\* was assembled and blocks for nothing else, and the repair ledger claims only audited
\* outcomes of operations that ran (HealthService.report, SafeRepairService.run).
THEOREM ReportsTruthful == DiagnosticsSpec => []DiagnosticsTruthful
<1>1. DiagnosticsInit => DiagnosticsInv
  BY DiagnosticsInitial
<1>2. DiagnosticsInv /\ [DiagnosticsNext]_diagnosticsVars => DiagnosticsInv'
  BY DiagnosticsStep
<1>3. DiagnosticsInv => DiagnosticsTruthful
  BY BlocksExactly DEF DiagnosticsInv, DiagnosticsTruthful
<1> QED BY <1>1, <1>2, <1>3, PTL DEF DiagnosticsSpec

-----------------------------------------------------------------------------
(* The audit log.                                                          *)

Pieces == [of : AuditRecords \cup {None}, whole : BOOLEAN]
Files == Seq(Pieces)

ShapeInv == AuditTypeOK /\ log \in Files /\ rotated \in Seq(Files)

\* The effect of a deletion comes before its event.
EffectInv == \A r \in AuditRecords : calls[r] = "effect" => r \notin present

\* Torn writes are at least as many as the acknowledged events that share a line with one,
\* and the fragment at the end of the log is one that no event shares yet.
FragmentInv ==
    \/ torn = Cardinality(AuditRecords)
    \/ Cardinality(shared) <= torn /\ (EndsTorn(log) => Cardinality(shared) + 1 <= torn)

TrailInv == ShapeInv /\ EffectInv /\ FragmentInv /\ AuditBounded /\ AcknowledgedKept

\* Records that can be counted.
LEMMA RecordsCounted ==
    ASSUME NEW S, S \subseteq AuditRecords
    PROVE  /\ IsFiniteSet(S) /\ Cardinality(S) \in Nat
           /\ Cardinality(AuditRecords) \in Nat /\ Cardinality(S) <= Cardinality(AuditRecords)
           /\ \A r \in AuditRecords : Cardinality(S \cup {r}) <= Cardinality(S) + 1
<1>1. IsFiniteSet(AuditRecords) /\ IsFiniteSet(S)
  BY AuditAssumption, FS_Subset
<1>2. Cardinality(S) \in Nat /\ Cardinality(AuditRecords) \in Nat
  BY <1>1, FS_CardinalityType
<1>3. Cardinality(S) <= Cardinality(AuditRecords)
  BY AuditAssumption, FS_Subset
<1>4. ASSUME NEW r \in AuditRecords PROVE Cardinality(S \cup {r}) <= Cardinality(S) + 1
  <2>1. Cardinality(S \cup {r}) = IF r \in S THEN Cardinality(S) ELSE Cardinality(S) + 1
    BY <1>1, FS_AddElement
  <2> QED BY <1>2, <2>1
<1> QED BY <1>1, <1>2, <1>3, <1>4

\* The lines of a file are finitely many.
LEMMA LinesFinite ==
    ASSUME NEW file \in Files
    PROVE  /\ IsFiniteSet(WholeLines(file)) /\ IsFiniteSet(TornLines(file))
           /\ Cardinality(WholeLines(file)) \in Nat /\ Cardinality(TornLines(file)) \in Nat
<1>1. DOMAIN file = 1 .. Len(file) /\ Len(file) \in Nat
  BY DEF Files
<1>2. IsFiniteSet(DOMAIN file)
  BY <1>1, FS_Interval
<1>3. IsFiniteSet(WholeLines(file)) /\ IsFiniteSet(TornLines(file))
  BY <1>2, FS_Subset DEF WholeLines, TornLines
<1> QED BY <1>3, FS_CardinalityType

\* The size of a file is a number.
LEMMA SizeType ==
    ASSUME NEW file \in Files
    PROVE  Size(file) \in Nat
BY LinesFinite, AuditAssumption DEF Size

\* An empty file has size zero.
LEMMA SizeEmpty == << >> \in Files /\ Size(<< >>) = 0
<1>1. << >> \in Files /\ DOMAIN << >> = {}
  BY DEF Files
<1>2. WholeLines(<< >>) = {} /\ TornLines(<< >>) = {}
  BY <1>1 DEF WholeLines, TornLines
<1>3. EventBytes * 0 + 0 = 0
  BY AuditAssumption
<1> QED BY <1>1, <1>2, <1>3, FS_EmptySet DEF Size

\* A line adds its own size.
LEMMA SizeAppend ==
    ASSUME NEW file \in Files, NEW p \in Pieces
    PROVE  /\ Append(file, p) \in Files
           /\ p.whole => Size(Append(file, p)) = Size(file) + EventBytes
           /\ ~p.whole => Size(Append(file, p)) = Size(file) + 1
<1> DEFINE f == Append(file, p)
           new == Len(file) + 1
<1>1. Len(file) \in Nat /\ DOMAIN file = 1 .. Len(file) /\ DOMAIN f = 1 .. new /\ f[new] = p
      /\ (\A i \in DOMAIN file : f[i] = file[i]) /\ f \in Files
  BY DEF Files
<1>2. new \notin WholeLines(file) /\ new \notin TornLines(file)
  BY <1>1 DEF WholeLines, TornLines
<1> HIDE DEF f, new
<1>3. DOMAIN f = DOMAIN file \cup {new}
  BY <1>1 DEF new
<1>4. CASE p.whole
  <2>1. WholeLines(f) = WholeLines(file) \cup {new} /\ TornLines(f) = TornLines(file)
    BY <1>1, <1>3, <1>4 DEF WholeLines, TornLines
  <2>2. Cardinality(WholeLines(f)) = Cardinality(WholeLines(file)) + 1
    BY <1>2, <2>1, LinesFinite, FS_AddElement
  <2>3. \A n \in Nat : EventBytes * (n + 1) = EventBytes * n + EventBytes /\ EventBytes * n \in Nat
    BY AuditAssumption
  <2>4. Size(f) = Size(file) + EventBytes
    BY <2>1, <2>2, <2>3, LinesFinite, AuditAssumption DEF Size
  <2> QED BY <1>1, <1>4, <2>4 DEF f
<1>5. CASE ~p.whole
  <2>1. TornLines(f) = TornLines(file) \cup {new} /\ WholeLines(f) = WholeLines(file)
    BY <1>1, <1>3, <1>5 DEF WholeLines, TornLines
  <2>2. Cardinality(TornLines(f)) = Cardinality(TornLines(file)) + 1
    BY <1>2, <2>1, LinesFinite, FS_AddElement
  <2>3. \A n \in Nat : EventBytes * n \in Nat
    BY AuditAssumption
  <2>4. Size(f) = Size(file) + 1
    BY <2>1, <2>2, <2>3, LinesFinite, AuditAssumption DEF Size
  <2> QED BY <1>1, <1>5, <2>4 DEF f
<1> QED BY <1>4, <1>5

\* What files hold, line by line.
LEMMA HeldLines ==
    ASSUME NEW files \in Seq(Files), NEW r
    PROVE  r \in Held(files) <=>
              \E i \in DOMAIN files : \E k \in Readable(files[i]) : files[i][k].of = r
BY DEF Held

\* What one file holds.
LEMMA HeldOne ==
    ASSUME NEW file \in Files, NEW r
    PROVE  r \in Held(<<file>>) <=> \E k \in Readable(file) : file[k].of = r
<1> DEFINE files == <<file>>
<1>1. files \in Seq(Files) /\ DOMAIN files = {1} /\ files[1] = file
  OBVIOUS
<1> HIDE DEF files
<1>2. r \in Held(files) <=> \E k \in Readable(file) : file[k].of = r
  BY <1>1, HeldLines
<1> QED BY <1>2 DEF files

\* A line more loses no line, and can be read unless it follows a fragment.
LEMMA HeldAppend ==
    ASSUME NEW file \in Files, NEW p \in Pieces
    PROVE  /\ Held(<<file>>) \subseteq Held(<<Append(file, p)>>)
           /\ p.whole /\ ~EndsTorn(file) => p.of \in Held(<<Append(file, p)>>)
           /\ EndsTorn(Append(file, p)) <=> ~p.whole
<1> DEFINE f == Append(file, p)
           new == Len(file) + 1
<1>1. /\ f \in Files /\ DOMAIN file = 1 .. Len(file) /\ Len(file) \in Nat
      /\ DOMAIN f = 1 .. new /\ Len(f) = new
      /\ (\A k \in DOMAIN file : f[k] = file[k]) /\ f[new] = p
  BY DEF Files
<1>2. file = << >> \/ Len(file) \in DOMAIN file
  BY <1>1 DEF Files
<1>0. file = << >> => Len(file) = 0
  OBVIOUS
<1> HIDE DEF f
<1>3. ASSUME NEW k \in Readable(file) PROVE k \in Readable(f) /\ f[k] = file[k]
  BY <1>1 DEF Readable, WholeLines
<1>4. ASSUME NEW r \in Held(<<file>>) PROVE r \in Held(<<f>>)
  <2>1. PICK k \in Readable(file) : file[k].of = r
    BY HeldOne
  <2> QED BY <1>1, <1>3, <2>1, HeldOne
<1>5. ASSUME p.whole, ~EndsTorn(file) PROVE p.of \in Held(<<f>>)
  <2>1. new \in WholeLines(f)
    BY <1>1, <1>5 DEF WholeLines
  <2>2. new = 1 \/ new - 1 \in WholeLines(f)
    <3>1. CASE file = << >>
      BY <1>0, <3>1
    <3>2. CASE file # << >>
      <4>1. file[Len(file)].whole /\ Len(file) \in DOMAIN file
        BY <1>2, <1>5, <3>2 DEF EndsTorn
      <4> QED BY <1>1, <4>1 DEF WholeLines
    <3> QED BY <3>1, <3>2
  <2>3. new \in Readable(f)
    BY <2>1, <2>2 DEF Readable
  <2> QED BY <1>1, <2>3, HeldOne
<1>6. EndsTorn(f) <=> ~p.whole
  <2>1. f # << >>
    BY <1>1
  <2> QED BY <1>1, <2>1 DEF EndsTorn
<1> QED BY <1>4, <1>5, <1>6 DEF f

\* Neither does a file that is put before the others.
LEMMA HeldPrepend ==
    ASSUME NEW file \in Files, NEW files \in Seq(Files)
    PROVE  /\ <<file>> \o files \in Seq(Files) /\ Len(<<file>> \o files) = Len(files) + 1
           /\ \A i \in DOMAIN (<<file>> \o files) :
                 (<<file>> \o files)[i] = file \/ \E j \in DOMAIN files : (<<file>> \o files)[i] = files[j]
           /\ Held(<<file>>) \cup Held(files) \subseteq Held(<<file>> \o files)
<1> DEFINE all == <<file>> \o files
<1>1. /\ all \in Seq(Files) /\ Len(all) = Len(files) + 1 /\ 1 \in DOMAIN all /\ all[1] = file
      /\ \A j \in DOMAIN files : j + 1 \in DOMAIN all /\ all[j + 1] = files[j]
      /\ \A i \in DOMAIN all : i = 1 \/ i - 1 \in DOMAIN files
  OBVIOUS
<1> HIDE DEF all
<1>3. \A i \in DOMAIN all : all[i] = file \/ \E j \in DOMAIN files : all[i] = files[j]
  <2> TAKE i \in DOMAIN all
  <2>1. CASE i = 1
    BY <1>1, <2>1
  <2>2. CASE i - 1 \in DOMAIN files
    <3>1. i \in Int /\ (i - 1) + 1 = i
      BY <1>1
    <3> QED BY <1>1, <2>2, <3>1
  <2> QED BY <1>1, <2>1, <2>2
<1>4. ASSUME NEW r \in Held(<<file>>) PROVE r \in Held(all)
  <2>1. \E k \in Readable(file) : file[k].of = r
    BY <1>4, HeldOne
  <2>2. 1 \in DOMAIN all /\ all[1] = file
    BY <1>1
  <2>3. \E i \in DOMAIN all : \E k \in Readable(all[i]) : all[i][k].of = r
    BY <2>1, <2>2
  <2>4. all \in Seq(Files)
    BY <1>1
  <2> QED BY ONLY <2>3, <2>4, HeldLines
<1>5. ASSUME NEW r \in Held(files) PROVE r \in Held(all)
  <2>1. PICK j \in DOMAIN files : \E k \in Readable(files[j]) : files[j][k].of = r
    BY HeldLines
  <2>2. j + 1 \in DOMAIN all /\ all[j + 1] = files[j]
    BY <1>1
  <2>3. \E i \in DOMAIN all : \E k \in Readable(all[i]) : all[i][k].of = r
    BY ONLY <2>1, <2>2, Zenon
  <2>4. all \in Seq(Files)
    BY <1>1
  <2> QED BY ONLY <2>3, <2>4, HeldLines
<1> QED BY <1>1, <1>3, <1>4, <1>5 DEF all

\* Pruning moves what the files beyond the first n hold into the history.
LEMMA HeldPrune ==
    ASSUME NEW files \in Seq(Files), NEW n \in 0 .. Len(files)
    PROVE  /\ SubSeq(files, 1, n) \in Seq(Files) /\ Len(SubSeq(files, 1, n)) = n
           /\ \A i \in DOMAIN SubSeq(files, 1, n) : i \in DOMAIN files /\ SubSeq(files, 1, n)[i] = files[i]
           /\ Held(files) \subseteq
                 Held(SubSeq(files, 1, n)) \cup Held(SubSeq(files, n + 1, Len(files)))
           /\ Held(SubSeq(files, n + 1, Len(files))) \subseteq AuditRecords \cup {None}
<1> DEFINE front == SubSeq(files, 1, n)
           rest == SubSeq(files, n + 1, Len(files))
<1>1. /\ front \in Seq(Files) /\ Len(front) = n /\ DOMAIN front = 1 .. n
      /\ \A i \in 1 .. n : i \in DOMAIN files /\ front[i] = files[i]
  OBVIOUS
<1>2. /\ rest \in Seq(Files) /\ DOMAIN rest = 1 .. (Len(files) - n)
      /\ \A i \in 1 .. (Len(files) - n) : rest[i] = files[n + i]
  OBVIOUS
<1> HIDE DEF front, rest
<1>3. ASSUME NEW r \in Held(files) PROVE r \in Held(front) \cup Held(rest)
  <2>1. PICK j \in DOMAIN files : \E k \in Readable(files[j]) : files[j][k].of = r
    BY HeldLines
  <2>2. CASE j <= n
    <3>1. j \in DOMAIN front /\ front[j] = files[j]
      BY <1>1, <2>2
    <3>2. \E i \in DOMAIN front : \E k \in Readable(front[i]) : front[i][k].of = r
      BY ONLY <2>1, <3>1, Zenon
    <3>3. front \in Seq(Files)
      BY <1>1
    <3> QED BY ONLY <3>2, <3>3, HeldLines
  <2>3. CASE j > n
    <3>1. j - n \in DOMAIN rest /\ rest[j - n] = files[j]
      BY <1>2, <2>3
    <3>2. \E i \in DOMAIN rest : \E k \in Readable(rest[i]) : rest[i][k].of = r
      BY ONLY <2>1, <3>1, Zenon
    <3>3. rest \in Seq(Files)
      BY <1>2
    <3> QED BY ONLY <3>2, <3>3, HeldLines
  <2> QED BY <2>2, <2>3
<1>4. ASSUME NEW r \in Held(rest) PROVE r \in AuditRecords \cup {None}
  <2>0. rest \in Seq(Files)
    BY <1>2
  <2>1. PICK j \in DOMAIN rest : \E k \in Readable(rest[j]) : rest[j][k].of = r
    BY ONLY <1>4, <2>0, HeldLines
  <2>2. PICK k \in DOMAIN rest[j] : rest[j][k].of = r
    BY <2>1 DEF Readable, WholeLines
  <2>3. rest[j] \in Seq(Pieces)
    BY <1>2 DEF Files
  <2>4. rest[j][k] \in Pieces
    BY <2>3
  <2> QED BY <2>2, <2>4 DEF Pieces
<1> QED BY <1>1, <1>3, <1>4 DEF front, rest

\* One line is appended to a log that has room for an event.
LEMMA LineAdded ==
    ASSUME TrailInv, NEW r \in AuditRecords, NEW whole \in BOOLEAN, ~Overflows(log),
           log' = Append(log, Line(r, whole))
    PROVE  /\ log' \in Files /\ Size(log)' <= MaxFileBytes
           /\ Held(<<log>>) \subseteq Held(<<log>>)'
           /\ whole /\ ~EndsTorn(log) /\ calls[r] = "effect" => r \in Held(<<log>>)'
           /\ EndsTorn(log)' <=> ~whole
<1>1. log \in Files /\ Line(r, whole) \in Pieces /\ Line(r, whole).whole = whole
  BY DEF TrailInv, ShapeInv, Line, Pieces
<1>2. calls[r] = "effect" => Line(r, whole).of = r
  BY DEF Line
<1>3. Size(log) \in Nat /\ Size(log) + EventBytes <= MaxFileBytes
  BY <1>1, SizeType, SizeEmpty, AuditAssumption DEF Overflows
<1> HIDE DEF Line
<1>4. Size(Append(log, Line(r, whole))) <= MaxFileBytes
  BY <1>1, <1>3, SizeAppend, AuditAssumption
<1> QED BY <1>1, <1>2, <1>4, SizeAppend, HeldAppend

\* The deletion's effect comes before its event.
LEMMA DeleteEffectKeeps ==
    ASSUME TrailInv, NEW r \in AuditRecords, DeleteEffect(r)
    PROVE  TrailInv'
<1>1. /\ calls \in [AuditRecords -> CallStates] /\ calls' \in [AuditRecords -> CallStates]
      /\ present' \subseteq present /\ UNCHANGED <<sink, log, rotated, acked, shared, torn, pruned>>
      /\ \A q \in AuditRecords : calls'[q] = "deleted" => calls[q] = "deleted"
      /\ \A q \in AuditRecords : calls'[q] = "effect" => calls[q] = "effect" \/ q \notin present'
  BY DEF TrailInv, ShapeInv, AuditTypeOK, CallStates, DeleteEffect, sinkVars
<1>2. ShapeInv' /\ EffectInv'
  BY <1>1 DEF TrailInv, ShapeInv, AuditTypeOK, EffectInv
<1>3. FragmentInv'
  BY <1>1 DEF TrailInv, FragmentInv, EndsTorn
<1>4. AcknowledgedKept'
  BY <1>1 DEF TrailInv, AcknowledgedKept
<1>5. AuditBounded'
  BY <1>1 DEF TrailInv, AuditBounded
<1> QED BY <1>2, <1>3, <1>4, <1>5 DEF TrailInv

\* An event that is written whole fits, and can be read unless a fragment was before it.
LEMMA EmitOkKeeps ==
    ASSUME TrailInv, NEW r \in AuditRecords, EmitOk(r)
    PROVE  TrailInv'
<1>1. /\ log' \in Files /\ Size(log)' <= MaxFileBytes
      /\ Held(<<log>>) \subseteq Held(<<log>>)'
      /\ ~EndsTorn(log) /\ calls[r] = "effect" => r \in Held(<<log>>)'
      /\ ~EndsTorn(log)'
  BY LineAdded DEF EmitOk
<1>2. /\ calls \in [AuditRecords -> CallStates] /\ calls' \in [AuditRecords -> CallStates]
      /\ \A q \in AuditRecords : calls'[q] = "deleted" =>
            calls[q] = "deleted" \/ (q = r /\ calls[r] = "effect")
      /\ \A q \in AuditRecords : calls'[q] = "effect" => calls[q] = "effect"
      /\ UNCHANGED <<sink, rotated, present, torn, pruned>>
  BY DEF TrailInv, ShapeInv, AuditTypeOK, CallStates, EmitOk, AnswerTo
<1>3. /\ acked \subseteq acked' /\ acked' \subseteq AuditRecords /\ shared' \subseteq acked'
      /\ calls[r] = "effect" => r \in acked'
  BY DEF TrailInv, ShapeInv, AuditTypeOK, EmitOk
<1>4. ShapeInv' /\ EffectInv'
  BY <1>1, <1>2, <1>3 DEF TrailInv, ShapeInv, AuditTypeOK, EffectInv
<1>5. FragmentInv' /\ Cardinality(shared') <= torn'
  <2>1. shared \subseteq AuditRecords /\ shared' \subseteq AuditRecords /\ torn \in Nat
    BY <1>3, RecordsCounted DEF TrailInv, ShapeInv, AuditTypeOK
  <2>2. torn = Cardinality(AuditRecords) \/ Cardinality(shared') <= torn
    <3>1. CASE shared' = shared
      BY <3>1 DEF TrailInv, FragmentInv
    <3>2. CASE shared' = shared \cup {r} /\ EndsTorn(log)
      <4>1. Cardinality(shared') <= Cardinality(shared) + 1
        BY <2>1, <3>2, RecordsCounted
      <4>2. Cardinality(shared) \in Nat /\ Cardinality(shared') \in Nat
        BY <2>1, RecordsCounted
      <4> QED BY <2>1, <3>2, <4>1, <4>2 DEF TrailInv, FragmentInv
    <3> QED BY <3>1, <3>2 DEF EmitOk
  <2>3. Cardinality(shared') <= Cardinality(AuditRecords)
    BY <2>1, RecordsCounted
  <2> QED BY <1>1, <1>2, <2>2, <2>3 DEF FragmentInv
<1>6. AuditBounded'
  BY <1>1, <1>2 DEF TrailInv, AuditBounded
<1>7. acked' \ shared' \subseteq Held(<<log>>)' \cup Held(rotated)' \cup pruned'
  BY <1>1 DEF TrailInv, AcknowledgedKept, EmitOk
<1>8. \A q \in AuditRecords : calls'[q] = "deleted" => q \in acked' /\ q \notin present'
  BY <1>2, <1>3 DEF TrailInv, EffectInv, AcknowledgedKept
<1> QED BY <1>4, <1>5, <1>6, <1>7, <1>8 DEF TrailInv, AcknowledgedKept

\* A torn event adds no more than a torn line and acknowledges nothing.
LEMMA EmitFailsKeeps ==
    ASSUME TrailInv, NEW r \in AuditRecords, EmitFails(r)
    PROVE  TrailInv'
<1>0. /\ calls' \in [AuditRecords -> CallStates]
      /\ \A q \in AuditRecords : calls'[q] \in {calls[q], "failed"}
      /\ UNCHANGED <<sink, rotated, present, acked, shared, pruned>>
  BY DEF TrailInv, ShapeInv, AuditTypeOK, CallStates, EmitFails
<1>1. /\ log' \in Files /\ Size(log)' <= MaxFileBytes /\ Held(<<log>>) \subseteq Held(<<log>>)'
      /\ \/ torn' = torn /\ (EndsTorn(log)' => EndsTorn(log))
         \/ torn' = IF torn < Cardinality(AuditRecords) THEN torn + 1 ELSE torn
  <2>1. CASE UNCHANGED <<log, torn>>
    BY <2>1 DEF TrailInv, ShapeInv, AuditBounded, EndsTorn
  <2>2. CASE ~Overflows(log) /\ log' = Append(log, Line(r, TRUE)) /\ UNCHANGED torn
    BY <2>2, LineAdded
  <2>3. CASE /\ ~Overflows(log) /\ log' = Append(log, Line(r, FALSE))
             /\ torn' = IF torn < Cardinality(AuditRecords) THEN torn + 1 ELSE torn
    BY <2>3, LineAdded
  <2> QED BY <2>1, <2>2, <2>3 DEF EmitFails
<1>2. torn' \in 0 .. Cardinality(AuditRecords) /\ FragmentInv' /\ Cardinality(shared') <= torn'
  <2>1. shared \subseteq AuditRecords /\ torn \in 0 .. Cardinality(AuditRecords)
    BY DEF TrailInv, ShapeInv, AuditTypeOK
  <2>2. Cardinality(shared) \in Nat /\ Cardinality(AuditRecords) \in Nat
        /\ Cardinality(shared) <= torn
    BY <2>1, RecordsCounted DEF TrailInv, AcknowledgedKept
  <2>3. CASE torn' = torn /\ (EndsTorn(log)' => EndsTorn(log))
    BY <1>0, <2>1, <2>2, <2>3 DEF TrailInv, FragmentInv
  <2>4. CASE torn' = IF torn < Cardinality(AuditRecords) THEN torn + 1 ELSE torn
    BY <1>0, <2>1, <2>2, <2>4 DEF FragmentInv
  <2> QED BY <1>1, <2>3, <2>4
<1>3. ShapeInv' /\ EffectInv'
  BY <1>0, <1>1, <1>2 DEF TrailInv, ShapeInv, AuditTypeOK, EffectInv
<1>4. AuditBounded'
  BY <1>0, <1>1 DEF TrailInv, AuditBounded
<1>5. AcknowledgedKept'
  BY <1>0, <1>1, <1>2 DEF TrailInv, AcknowledgedKept
<1> QED BY <1>2, <1>3, <1>4, <1>5 DEF TrailInv

\* The rename moves the log's events to the first rotated file.
LEMMA RotateRenameKeeps ==
    ASSUME TrailInv, RotateRename
    PROVE  TrailInv'
<1>1. CASE rotated' = <<log>> \o rotated /\ log' = << >> /\ sink' \in {"rotating", "closed"}
  <2>1. log \in Files /\ rotated \in Seq(Files) /\ Size(log) <= MaxFileBytes
        /\ Len(rotated) <= MaxFiles /\ \A i \in DOMAIN rotated : Size(rotated[i]) <= MaxFileBytes
    BY DEF TrailInv, ShapeInv, AuditBounded, RotateRename
  <2>2. /\ rotated' \in Seq(Files) /\ Len(rotated') = Len(rotated) + 1
        /\ \A i \in DOMAIN rotated' : rotated'[i] = log \/ \E j \in DOMAIN rotated : rotated'[i] = rotated[j]
        /\ Held(<<log>>) \cup Held(rotated) \subseteq Held(rotated)'
    BY <1>1, <2>1, HeldPrepend
  <2>3. \A i \in DOMAIN rotated' : Size(rotated'[i]) <= MaxFileBytes
    BY <2>1, <2>2
  <2>4. log' \in Files /\ Size(log)' <= MaxFileBytes
    BY <1>1, SizeEmpty, AuditAssumption
  <2>5. AuditBounded'
    <3>1. Len(rotated) \in Nat
      BY <2>1
    <3> QED BY <1>1, <2>1, <2>2, <2>3, <2>4, <3>1, AuditAssumption DEF AuditBounded
  <2>6. ShapeInv' /\ EffectInv'
    BY <1>1, <2>2, <2>4 DEF TrailInv, ShapeInv, AuditTypeOK, EffectInv, RotateRename
  <2>7. AcknowledgedKept'
    BY <2>2 DEF TrailInv, AcknowledgedKept, RotateRename
  <2>8. FragmentInv'
    BY <1>1 DEF TrailInv, FragmentInv, AcknowledgedKept, EndsTorn, RotateRename
  <2> QED BY <2>5, <2>6, <2>7, <2>8 DEF TrailInv
<1>2. CASE sink' = "closed" /\ UNCHANGED <<log, rotated>>
  <2>1. UNCHANGED <<log, rotated, present, calls, acked, shared, torn, pruned>>
    BY <1>2 DEF RotateRename
  <2>2. ShapeInv' /\ EffectInv' /\ AcknowledgedKept'
    BY <1>2, <2>1 DEF TrailInv, ShapeInv, AuditTypeOK, EffectInv, AcknowledgedKept
  <2>3. FragmentInv' /\ AuditBounded'
    BY <1>2, <2>1 DEF TrailInv, FragmentInv, EndsTorn, AuditBounded
  <2> QED BY <2>2, <2>3 DEF TrailInv
<1> QED BY <1>1, <1>2 DEF RotateRename

\* Pruning, after a rotation or when the sink is built anew.
LEMMA PruneKeeps ==
    ASSUME TrailInv, NEW n \in Retained, Prune(n), sink' = "open",
           UNCHANGED <<log, present, acked, shared, torn>>, calls' \in [AuditRecords -> CallStates],
           \A r \in AuditRecords : calls'[r] \in {calls[r], "failed"}
    PROVE  TrailInv'
<1>1. log \in Files /\ rotated \in Seq(Files) /\ n \in 0 .. Len(rotated) /\ n <= MaxFiles
  BY DEF TrailInv, ShapeInv, Retained, Keep
<1>2. /\ rotated' \in Seq(Files) /\ Len(rotated') = n
      /\ \A i \in DOMAIN rotated' : i \in DOMAIN rotated /\ rotated'[i] = rotated[i]
      /\ Held(rotated) \subseteq Held(rotated)' \cup pruned'
      /\ pruned' \subseteq AuditRecords \cup {None} /\ pruned \subseteq pruned'
  BY <1>1, HeldPrune DEF Prune, TrailInv, ShapeInv, AuditTypeOK
<1>3. ShapeInv' /\ EffectInv'
  BY <1>2 DEF TrailInv, ShapeInv, AuditTypeOK, EffectInv
<1>4. AuditBounded'
  BY <1>1, <1>2, AuditAssumption DEF TrailInv, AuditBounded
<1>5. AcknowledgedKept'
  BY <1>2 DEF TrailInv, AcknowledgedKept
<1>6. FragmentInv'
  BY DEF TrailInv, FragmentInv, EndsTorn
<1> QED BY <1>3, <1>4, <1>5, <1>6 DEF TrailInv

\* Every step of the trail keeps the invariant.
LEMMA AuditStep ==
    ASSUME TrailInv, [AuditNext]_auditVars
    PROVE  TrailInv'
<1>1. ASSUME NEW r \in AuditRecords, DeleteEffect(r) \/ EmitOk(r) \/ EmitFails(r) PROVE TrailInv'
  BY <1>1, DeleteEffectKeeps, EmitOkKeeps, EmitFailsKeeps
<1>2. CASE RotateReopen
  <2>1. PICK n \in Retained : Prune(n)
    BY <1>2 DEF RotateReopen
  <2> QED BY <1>2, <2>1, PruneKeeps DEF RotateReopen, TrailInv, ShapeInv, AuditTypeOK
<1>3. CASE RestartSink
  <2>1. PICK n \in Retained : Prune(n)
    BY <1>3 DEF RestartSink
  <2>2. /\ calls' \in [AuditRecords -> CallStates]
        /\ \A r \in AuditRecords : calls'[r] \in {calls[r], "failed"}
    BY <1>3 DEF RestartSink, TrailInv, ShapeInv, AuditTypeOK, CallStates
  <2> QED BY <1>3, <2>1, <2>2, PruneKeeps DEF RestartSink
<1>4. CASE UNCHANGED auditVars
  BY <1>4
  DEF auditVars, TrailInv, ShapeInv, AuditTypeOK, EffectInv, FragmentInv, EndsTorn, AuditBounded,
      AcknowledgedKept
<1> QED BY <1>1, <1>2, <1>3, <1>4, RotateRenameKeeps DEF AuditNext

\* An empty trail.
LEMMA AuditInitial ==
    ASSUME AuditInit
    PROVE  TrailInv
<1>1. << >> \in Seq(Files) /\ DOMAIN << >> = {} /\ Len(<< >>) = 0
  OBVIOUS
<1>0. Cardinality({}) = 0 /\ Cardinality(AuditRecords) \in Nat
  BY FS_EmptySet, RecordsCounted
<1>2. ShapeInv /\ EffectInv /\ FragmentInv
  BY <1>0, <1>1, SizeEmpty
  DEF AuditInit, ShapeInv, AuditTypeOK, CallStates, EffectInv, FragmentInv, EndsTorn
<1>3. AuditBounded
  BY <1>1, SizeEmpty, AuditAssumption DEF AuditInit, AuditBounded
<1>4. AcknowledgedKept
  BY <1>0 DEF AuditInit, AcknowledgedKept
<1> QED BY <1>2, <1>3, <1>4 DEF TrailInv

\* The files of the audit log stay within their limits, torn lines included, an open sink
\* keeps no more rotated files than configured, an acknowledged event can be read in them
\* until it is pruned unless it went on in the line of a torn write, of which each costs
\* one acknowledged event at most, and whoever was told that a record is deleted can count on it, through
\* failed writes, rotations that die half-way and restarts (OwnerOnlyAuditFileSink,
\* AuditedStorageBackend).
THEOREM AuditTrailKept == AuditSpec => []TrailKept
<1>1. AuditInit => TrailInv
  BY AuditInitial
<1>2. TrailInv /\ [AuditNext]_auditVars => TrailInv'
  BY AuditStep
<1>3. TrailInv => TrailKept
  BY DEF TrailInv, ShapeInv, TrailKept
<1> QED BY <1>1, <1>2, <1>3, PTL DEF AuditSpec
=============================================================================
