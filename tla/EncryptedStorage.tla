-------------------------- MODULE EncryptedStorage --------------------------
(***************************************************************************)
(* Shards encrypted at rest (src/src/encryption.rs) under keys of the key  *)
(* manager.                                                                *)
(*                                                                         *)
(* A client retrieves key material and keeps it, encrypts shards with what *)
(* it keeps and decrypts the shard in storage, at any time: before and     *)
(* after rotations, revocations and repeated generation of a version.  The *)
(* storage may damage or mix up ciphertext and metadata in between.        *)
(***************************************************************************)
EXTENDS KeyManagement, FiniteSets

CONSTANTS
    Tiers,        \* TierId
    ShardSeeds,   \* the u64 seeds a client may pass
    Plaintexts,   \* contents of shards
    NoBytes,      \* key material of no bytes
    MaxWrites     \* bound: distinct encryptions

ASSUME WritesAssumption == MaxWrites \in Nat
ASSUME NoBytesAssumption == NoBytes \notin Material

VARIABLES
    held,     \* what the client retrieved: [ref, bytes]
    stored,   \* the set of the shard in storage: empty or one EncryptedShard
    written,  \* history: every successful encryption
    result    \* what the last call of this component returned

storageVars == <<held, stored, written, result>>
allVars == <<vars, storageVars>>

\* Variant: the derivation ignores the tier.
deriveNoTier(bytes, tier, seed) == [bytes |-> <<bytes, seed>>, nonce |-> <<"LLMK", seed>>]

\* DerivedKey::derive.  HKDF-SHA256 is taken to be collision free; its info is
\* "tier:seed", two numbers.  The nonce is a fixed prefix and the seed.
derive(bytes, tier, seed) == [bytes |-> <<bytes, tier, seed>>, nonce |-> <<"LLMK", seed>>]

\* AES-256-GCM: what is sealed opens under the same key and nonce only.
Seal(key, plaintext) == <<key.bytes, key.nonce, plaintext>>
Opens(key, ciphertext) == \E p \in Plaintexts : ciphertext = Seal(key, p)
Opened(key, ciphertext) == CHOOSE p \in Plaintexts : ciphertext = Seal(key, p)

\* A ciphertext that is none, nonces that are not 12 bytes of hex, and a nonce whose
\* prefix, which decryption does not look at, is damaged.
BadCiphertext == <<"noise">>
BadNonce == <<"not hex">>
Nonces == {BadNonce} \cup ({"LLMK", "damaged"} \X ShardSeeds)

Shard(tier, ref, key, plaintext) ==
    [ciphertext |-> Seal(key, plaintext),
     metadata |-> [tier |-> tier, key_id |-> ref.key_id, key_version |-> ref.version,
                   nonce_hex |-> key.nonce]]

\* Variant: the reference is not compared with the metadata.
DecryptOutcomeAnyRef(shard, ref, bytes) ==
    IF shard.metadata.nonce_hex = BadNonce THEN "DecryptionFailed"
    ELSE IF ~Opens(derive(bytes, shard.metadata.tier, shard.metadata.nonce_hex[2]), shard.ciphertext)
    THEN "IntegrityViolation"
    ELSE "Ok"

\* What decrypt_shard_at_rest answers, without the plaintext.
DecryptOutcome(shard, ref, bytes) ==
    IF shard.metadata.key_id # ref.key_id \/ shard.metadata.key_version # ref.version
    THEN "DecryptionFailed"
    ELSE IF shard.metadata.nonce_hex = BadNonce THEN "DecryptionFailed"
    ELSE IF ~Opens(derive(bytes, shard.metadata.tier, shard.metadata.nonce_hex[2]), shard.ciphertext)
    THEN "IntegrityViolation"
    ELSE "Ok"
Decrypted(shard, bytes) ==
    Opened(derive(bytes, shard.metadata.tier, shard.metadata.nonce_hex[2]), shard.ciphertext)

-----------------------------------------------------------------------------
(* Operations.                                                             *)

StorageInit ==
    /\ Init
    /\ held = {}
    /\ stored = {}
    /\ written = {}
    /\ result = [op |-> "none", result |-> "Ok", value |-> {}]

Answer(op, res, value) == result' = [op |-> op, result |-> res, value |-> value]

\* The key manager works on its own; the client keeps nothing of it.
Manage == Next /\ UNCHANGED storageVars

Retrieve(who, ref, day) ==
    /\ RetrieveOutcome(who, ref, day) = "Ok"
    /\ retrieve_key(who, ref, day)
    /\ held' = held \cup {[ref |-> ref, bytes |-> FirstOf(keys[ref.key_id], ref.version).material]}
    /\ UNCHANGED <<stored, written, result>>

encrypt_shard_at_rest(plaintext, tier, ref, bytes, seed) ==
    LET key == derive(bytes, tier, seed)
        write == [ref |-> ref, bytes |-> bytes, tier |-> tier, seed |-> seed,
                  plaintext |-> plaintext, shard |-> Shard(tier, ref, key, plaintext)]
    IN  \/ /\ bytes = NoBytes
           /\ Answer("encrypt", "EncryptionFailed", {})
           /\ UNCHANGED <<vars, held, stored, written>>
        \/ /\ bytes # NoBytes
           /\ Cardinality(written \cup {write}) <= MaxWrites
           /\ stored' = {write.shard}
           /\ written' = written \cup {write}
           /\ Answer("encrypt", "Ok", {})
           /\ UNCHANGED <<vars, held>>

decrypt_shard_at_rest(shard, ref, bytes) ==
    /\ IF DecryptOutcome(shard, ref, bytes) = "Ok"
       THEN Answer("decrypt", "Ok", {Decrypted(shard, bytes)})
       ELSE Answer("decrypt", DecryptOutcome(shard, ref, bytes), {})
    /\ UNCHANGED <<vars, held, stored, written>>

\* The storage returns some ciphertext it was given, or noise, under some metadata.
Damage(ciphertext, tier, ref, nonce) ==
    /\ stored # {}
    /\ stored' = {[ciphertext |-> ciphertext,
                   metadata |-> [tier |-> tier, key_id |-> ref.key_id,
                                 key_version |-> ref.version, nonce_hex |-> nonce]]}
    /\ UNCHANGED <<vars, held, written, result>>

Ciphertexts == {w.shard.ciphertext : w \in written} \cup {BadCiphertext}

StorageNext ==
    \/ Manage
    \/ \E who \in Identities, ref \in KeyMaterialRef, day \in Days : Retrieve(who, ref, day)
    \/ \E plaintext \in Plaintexts, tier \in Tiers, seed \in ShardSeeds, k \in held :
          \E bytes \in {k.bytes, NoBytes} :
             encrypt_shard_at_rest(plaintext, tier, k.ref, bytes, seed)
    \/ \E shard \in stored, k \in held : decrypt_shard_at_rest(shard, k.ref, k.bytes)
    \/ \E ciphertext \in Ciphertexts, tier \in Tiers, k \in held, nonce \in Nonces :
          Damage(ciphertext, tier, k.ref, nonce)

StorageSpec == StorageInit /\ [][StorageNext]_allVars

-----------------------------------------------------------------------------
(* Properties.                                                             *)

\* Whatever the storage did to ciphertext and metadata, what decrypts under material
\* the client retrieved is a plaintext that was encrypted under the key id, the
\* version and the tier the metadata names: the unauthenticated metadata cannot
\* pass off a shard of another tier or key.
DecryptedWasEncrypted ==
    \A shard \in stored, k \in held :
        DecryptOutcome(shard, k.ref, k.bytes) = "Ok"
        => \E w \in written : /\ w.plaintext = Decrypted(shard, k.bytes)
                              /\ w.bytes = k.bytes
                              /\ w.tier = shard.metadata.tier
                              /\ w.ref.key_id = shard.metadata.key_id
                              /\ w.ref.version = shard.metadata.key_version

\* As long as the manager serves the key a shard was encrypted under, the shard as
\* encrypted decrypts to its plaintext: no rotation and no repeated generation of
\* the version leaves it unreadable.
ReadableWhileServed ==
    \A w \in written, who \in Identities, day \in Days :
        RetrieveOutcome(who, w.ref, day) = "Ok"
        => LET bytes == FirstOf(keys[w.ref.key_id], w.ref.version).material
           IN  /\ DecryptOutcome(w.shard, w.ref, bytes) = "Ok"
               /\ Decrypted(w.shard, bytes) = w.plaintext

\* Two encryptions share key and nonce only when the client repeated a seed for one
\* tier and one version of one key.
KeyAndNonceNotShared ==
    \A v, w \in written :
        derive(v.bytes, v.tier, v.seed) = derive(w.bytes, w.tier, w.seed)
        => /\ v.tier = w.tier /\ v.seed = w.seed
           /\ v.ref.key_id = w.ref.key_id /\ v.ref.version = w.ref.version
=============================================================================
