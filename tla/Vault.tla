------------------------------- MODULE Vault -------------------------------
(***************************************************************************)
(* The record keys and everything wrapped with them: the OS keyring        *)
(* provider (crypto/keyring.py), the explicit GPG fallback (registry.py,   *)
(* gpg.py), the envelopes of the encryption stage (envelope.py,            *)
(* processor.py), purge-all (retention/purge.py) and the backup archive    *)
(* (backup/).  Key material is a number drawn once; an envelope records    *)
(* the handle it names and the material that really wrapped its data key.  *)
(* Stage thread and daemon loop interleave between two keyring calls; a    *)
(* backend call that raises between two writes leaves the first behind.    *)
(***************************************************************************)
EXTENDS Integers, FiniteSets, Options

CONSTANTS
    VaultRecords,   \* record ids
    MaxVersion,     \* bound on the key versions
    MaxKeys,        \* bound on the keys generated
    Fallback,       \* encryption.fallback_provider_id: None or "gpg"
    Crypter         \* BackupEngine.crypter is set

ASSUME VaultAssumption ==
    /\ MaxVersion \in Nat \ {0} /\ MaxKeys \in Nat \ {0} /\ None \notin Nat
    /\ Fallback \in {None, "gpg"} /\ Crypter \in BOOLEAN

VARIABLES
    material,   \* "<purpose>:v<n>" entries of the keyring
    pointer,    \* its "<purpose>:active" entry
    generated,  \* keys drawn so far
    stored,     \* canonical storage: record id -> envelope
    flight,     \* the encryption stage: record id -> envelope in the making
    rewrapping, \* records whose data key a rewrap holds
    archive,    \* the exported file
    restoring,  \* records a restore has still to look at, or None
    purging,    \* records a purge has still to delete, or None
    revoked,    \* history: keys deliberately destroyed
    misused     \* history: the active version destroyed or a stale handle rotated

keyringVars == <<material, pointer, generated, revoked, misused>>
vaultVars == <<keyringVars, stored, flight, rewrapping, archive, restoring, purging>>

Versions == 1..MaxVersion
Recipient == 0      \* the GPG recipient's key
KeyNames == Recipient..MaxKeys

Handle(provider, version) == [provider |-> provider, version |-> version, key |-> None]

EnvelopesOver(keys) ==
    [provider : {"os-keyring", "gpg"}, version : Versions, key : keys]

VaultInit ==
    /\ material = [v \in Versions |-> None] /\ pointer = None /\ generated = 0
    /\ stored = [r \in VaultRecords |-> None]
    /\ flight = [r \in VaultRecords |-> None]
    /\ rewrapping = {}
    /\ archive = None /\ restoring = None /\ purging = None
    /\ revoked = {} /\ misused = FALSE

-----------------------------------------------------------------------------
(* OSKeyringProvider and EnvelopeCipher.                                   *)

\* unwrap_data_key and decrypt_frames: the handle's material must be the one that
\* wrapped the data key, or authentication fails.
Opens(e) ==
    \/ e.provider = "gpg"
    \/ e.provider = "os-keyring" /\ material[e.version] = e.key

\* wrap_data_key: the data key under the material the handle's version has now, None
\* when that material is gone.
WrapWith(handle) ==
    CASE handle.provider = "gpg" -> [handle EXCEPT !.key = Recipient]
      [] handle.provider # "gpg" /\ material[handle.version] # None ->
            [handle EXCEPT !.key = material[handle.version]]
      [] OTHER -> None

\* active_key succeeds on an existing pointer only when its material loads.
ActiveLoads == pointer # None /\ material[pointer] # None

\* _store_master.
StoreMaster(v) ==
    /\ generated < MaxKeys
    /\ generated' = generated + 1
    /\ material' = [material EXCEPT ![v] = generated + 1]

\* The handle that create_if_missing generates a key for.
CreateInitial ==
    /\ pointer = None
    /\ StoreMaster(1)

\* Mutant of NextVersion: a rotation reuses the version it was given.
NextVersionSame(v) == v

\* rotate's next_version.
NextVersion(v) == v + 1

\* rotate with the handle of version v, fresh or not; _set_active may raise.
Rotate(v) ==
    /\ material[v] # None /\ NextVersion(v) \in Versions
    /\ StoreMaster(NextVersion(v))
    /\ pointer' \in {NextVersion(v), pointer}
    /\ misused' = (misused \/ v # pointer)
    /\ UNCHANGED <<revoked, stored, flight, rewrapping, archive, restoring, purging>>

\* Mutant of DestroyKey: only the pointer goes.
DestroyKeyPointer(v) ==
    /\ material[v] # None
    /\ revoked' = revoked \cup {material[v]}
    /\ pointer' = IF pointer = v THEN None ELSE pointer
    /\ misused' = (misused \/ v = pointer)
    /\ UNCHANGED <<material, generated>>

\* destroy: the material, then the pointer when it names this version; the backend
\* may raise between the two.
DestroyKey(v) ==
    /\ material[v] # None
    /\ revoked' = revoked \cup {material[v]}
    /\ material' = [material EXCEPT ![v] = None]
    /\ pointer' \in {IF pointer = v THEN None ELSE pointer, pointer}
    /\ misused' = (misused \/ v = pointer)
    /\ UNCHANGED generated

Destroy(v) ==
    /\ DestroyKey(v)
    /\ UNCHANGED <<stored, flight, rewrapping, archive, restoring, purging>>

-----------------------------------------------------------------------------
(* EnvelopeEncryptionStageProcessor.process: the provider and its active   *)
(* key are chosen, then the data key is wrapped, then the record is put.   *)

\* KeyProviderRegistry.select with create_if_missing: the keyring when it is ready,
\* the fallback when it is configured and the keyring is not, otherwise a failure.  A
\* rewrap asks for the active key of its replacement provider in the same way.
ChooseKey(r) ==
    /\ stored[r] = None \/ r \in rewrapping
    /\ flight[r] = None
    /\ \/ /\ ActiveLoads
          /\ flight' = [flight EXCEPT ![r] = Handle("os-keyring", pointer)]
          /\ UNCHANGED keyringVars
       \/ /\ CreateInitial
          /\ \/ /\ pointer' = 1
                /\ flight' = [flight EXCEPT ![r] = Handle("os-keyring", 1)]
             \/ UNCHANGED <<pointer, flight>>
          /\ UNCHANGED <<revoked, misused>>
       \/ /\ Fallback = "gpg"
          /\ flight' = [flight EXCEPT ![r] = Handle("gpg", 1)]
          /\ UNCHANGED keyringVars
    /\ UNCHANGED <<stored, rewrapping, archive, restoring, purging>>

\* EnvelopeCipher.encrypt_frames with the provider and the handle chosen before; a version
\* that is gone, a provider that fails or a cancellation leaves no envelope and ends a rewrap.
Wrap(r) ==
    /\ flight[r] # None /\ flight[r].key = None
    /\ \E e \in {WrapWith(flight[r]), None} :
          /\ flight' = [flight EXCEPT ![r] = e]
          /\ rewrapping' = IF e = None THEN rewrapping \ {r} ELSE rewrapping
    /\ UNCHANGED <<keyringVars, stored, archive, restoring, purging>>

\* The storage stage writes the envelope; another one of that record refuses it.
PutEnvelope(r) ==
    /\ flight[r] # None /\ flight[r].key # None /\ r \notin rewrapping
    /\ stored' = IF stored[r] = None THEN [stored EXCEPT ![r] = flight[r]] ELSE stored
    /\ flight' = [flight EXCEPT ![r] = None]
    /\ UNCHANGED <<keyringVars, rewrapping, archive, restoring, purging>>

\* rewrap_data_key: the data key is unwrapped with the envelope's handle, then comes
\* active_key with create_if_missing (ChooseKey), then wrap_data_key (Wrap).
Unwrap(r) ==
    /\ stored[r] # None /\ Opens(stored[r])
    /\ r \notin rewrapping /\ flight[r] = None
    /\ rewrapping' = rewrapping \cup {r}
    /\ UNCHANGED <<keyringVars, stored, flight, archive, restoring, purging>>

\* active_key fails: REWRAP_FAILED.
RewrapFails(r) ==
    /\ r \in rewrapping /\ flight[r] = None
    /\ rewrapping' = rewrapping \ {r}
    /\ UNCHANGED <<keyringVars, stored, flight, archive, restoring, purging>>

\* The new envelope replaces the stored one, if there still is one; or its caller fails.
Rewrap(r) ==
    /\ r \in rewrapping /\ flight[r] # None /\ flight[r].key # None
    /\ stored' \in {IF stored[r] = None THEN stored ELSE [stored EXCEPT ![r] = flight[r]], stored}
    /\ flight' = [flight EXCEPT ![r] = None]
    /\ rewrapping' = rewrapping \ {r}
    /\ UNCHANGED <<keyringVars, archive, restoring, purging>>

-----------------------------------------------------------------------------
(* PurgeAllEngine.purge.                                                   *)

PurgeBegin ==
    /\ purging = None
    /\ purging' = {r \in VaultRecords : stored[r] # None}
    /\ UNCHANGED <<keyringVars, stored, flight, rewrapping, archive, restoring>>

PurgeDelete(r) ==
    /\ purging # None /\ r \in purging
    /\ \/ stored' = [stored EXCEPT ![r] = None] /\ purging' = purging \ {r}
       \/ UNCHANGED stored /\ purging' = None
    /\ UNCHANGED <<keyringVars, flight, rewrapping, archive, restoring>>

\* _destroy_active_key: a missing key is not a failure.
PurgeKey ==
    /\ purging = {}
    /\ purging' = None
    /\ IF ActiveLoads THEN DestroyKey(pointer) ELSE UNCHANGED keyringVars
    /\ UNCHANGED <<stored, flight, rewrapping, archive, restoring>>

-----------------------------------------------------------------------------
(* BackupEngine.                                                           *)

\* _collect between two days: pages of ready rows, each followed by its get; a record
\* deleted in between is skipped.  The caller's bounds leave any set of days out.
Collected(left) == [r \in VaultRecords |-> IF r \in left THEN None ELSE stored[r]]

\* BackupArchive.write: the header, the manifest with the body's digest and count, the
\* body; a write cut short leaves a file whose digest does not match.
Archived(envelopes, whole) == [sealed |-> FALSE, whole |-> whole, envelopes |-> envelopes]

\* BackupArchive.read: header, manifest, schema version, digest, every frame and the
\* count must agree, which only a file written to its end can do.
ReadsBack(file) == ~file.sealed /\ file.whole

\* export writes the archive, then seals it in place: crypter.encrypt may fail and leave
\* the unsealed file, the process may die while it writes.
Export ==
    /\ restoring = None
    /\ \E left \in SUBSET VaultRecords, whole \in BOOLEAN, s \in {FALSE, Crypter} :
          archive' = [Archived(Collected(left), whole) EXCEPT !.sealed = s]
    /\ UNCHANGED <<keyringVars, stored, flight, rewrapping, restoring, purging>>

\* restore: a crypter first decrypts the file in place, and fails on a file that is not
\* sealed or not whole; only then is the target looked at, which must be empty unless
\* the caller allows otherwise, and the archive read.
RestoreBegin ==
    /\ archive # None /\ restoring = None
    /\ archive.sealed = Crypter /\ (Crypter => archive.whole)
    /\ LET file == [archive EXCEPT !.sealed = FALSE]
           empty == \A r \in VaultRecords : stored[r] = None
       IN /\ archive' = file
          /\ \E allowNonEmpty \in BOOLEAN :
                restoring' = IF (empty \/ allowNonEmpty) /\ ReadsBack(file)
                             THEN {r \in VaultRecords : archive.envelopes[r] # None}
                             ELSE None
    /\ UNCHANGED <<keyringVars, stored, flight, rewrapping, purging>>

\* Mutant of RestoreRecord: the target is written without looking at it.
RestoreRecordBlind(r) ==
    /\ restoring # None /\ r \in restoring
    /\ stored' = [stored EXCEPT ![r] = archive.envelopes[r]]
    /\ restoring' = restoring \ {r}
    /\ UNCHANGED <<keyringVars, flight, rewrapping, archive, purging>>

\* One envelope: absent is put, identical is skipped; a different one, or a put that
\* fails, ends the restore with what it has put so far.
RestoreRecord(r) ==
    /\ restoring # None /\ r \in restoring
    /\ \/ /\ stored[r] = None
          /\ stored' = [stored EXCEPT ![r] = archive.envelopes[r]]
          /\ restoring' = restoring \ {r}
       \/ /\ stored[r] = archive.envelopes[r]
          /\ restoring' = restoring \ {r} /\ UNCHANGED stored
       \/ /\ stored[r] # archive.envelopes[r]
          /\ restoring' = None /\ UNCHANGED stored
    /\ UNCHANGED <<keyringVars, flight, rewrapping, archive, purging>>

RestoreEnd ==
    /\ restoring = {}
    /\ restoring' = None
    /\ UNCHANGED <<keyringVars, stored, flight, rewrapping, archive, purging>>

-----------------------------------------------------------------------------
VaultNext ==
    \/ \E v \in Versions : Rotate(v) \/ Destroy(v)
    \/ \E r \in VaultRecords :
          ChooseKey(r) \/ Wrap(r) \/ PutEnvelope(r) 
          \/ Unwrap(r) \/ RewrapFails(r) \/ Rewrap(r)
          \/ PurgeDelete(r) \/ RestoreRecord(r)
    \/ PurgeBegin \/ PurgeKey
    \/ Export \/ RestoreBegin \/ RestoreEnd

VaultSpec == VaultInit /\ [][VaultNext]_vaultVars

-----------------------------------------------------------------------------
VaultTypeOK ==
    /\ material \in [Versions -> 1..MaxKeys \cup {None}]
    /\ pointer \in Versions \cup {None} /\ generated \in 0..MaxKeys
    /\ stored \in [VaultRecords -> EnvelopesOver(KeyNames) \cup {None}]
    /\ flight \in [VaultRecords -> EnvelopesOver(KeyNames \cup {None}) \cup {None}]
    /\ archive # None =>
          /\ archive.envelopes \in [VaultRecords -> EnvelopesOver(KeyNames) \cup {None}]
          /\ restoring # None => ReadsBack(archive)
    /\ purging = None \/ purging \subseteq VaultRecords
    /\ restoring = None \/ restoring \subseteq VaultRecords
    /\ rewrapping \subseteq VaultRecords
    /\ revoked \subseteq KeyNames /\ misused \in BOOLEAN

\* Every envelope there is: in storage, on its way to it, in the archive.
Envelopes ==
    {e \in {stored[r] : r \in VaultRecords} \cup {flight[r] : r \in VaultRecords}
           \cup (IF archive = None THEN {} ELSE {archive.envelopes[r] : r \in VaultRecords}) :
        e # None /\ e.key # None}

\* docs/encryption.md: "Destroying a key version makes records still wrapped by that
\* version unrecoverable": once destroyed, by revocation or by purge-all, a key opens no
\* envelope again, wherever the envelope was kept, also after the version number is
\* generated anew, after an interrupted destruction and after a restored backup.
RevokedNeverOpens == \A e \in Envelopes : e.key \in revoked => ~Opens(e)

\* "A master-key version is retained after rotation so existing records remain
\* decryptable until they are rewrapped or deliberately revoked", through failed
\* rotations, half-made initial keys and rewraps, as long as nobody destroys the active
\* version and rotations start from the active handle.
EnvelopeOpens ==
    ~misused => \A e \in Envelopes : Opens(e) \/ e.key \in revoked

\* Key versions govern envelopes: a destroyed key opens nothing any more, and every other
\* key still opens what was sealed with it, through rotations, restores and purges.
KeysGovern == VaultTypeOK /\ RevokedNeverOpens /\ EnvelopeOpens

\* A restore, a purge or a late put never gives a stored record another wrapping: what is
\* stored stays as it is, is deleted, or is replaced by the rewrap of it that is under way.
\* That rewrap never goes back to an older version of the keyring's key, although rotations,
\* exports, deletions and restores come between its three calls and its replacement, as
\* long as rotations start from the active handle and the active version is not destroyed.
StoredNeverRolledBack ==
    [][\A r \in VaultRecords :
          stored[r] # None /\ stored'[r] # None /\ stored'[r] # stored[r] =>
             /\ r \in rewrapping /\ stored'[r] = flight[r]
             /\ ~misused /\ stored[r].provider = "os-keyring" /\ flight[r].provider = "os-keyring"
                   => stored[r].version <= flight[r].version]_vaultVars

\* Keys and stored records together: envelopes open as their keys say, and no step of a
\* restore or a rewrap brings back an older envelope.
VaultSound == []KeysGovern /\ StoredNeverRolledBack
=============================================================================
