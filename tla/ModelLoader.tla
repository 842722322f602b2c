----------------------------- MODULE ModelLoader -----------------------------
(***************************************************************************)
(* Signed model manifests and the loader of src/src/integrity.rs.          *)
(*                                                                         *)
(* A publisher edits a manifest, stores its recomputed hash in it and      *)
(* signs the stored hash, in any order and any number of times; a user     *)
(* registers verifying keys and loads.  The manifest and the keys are      *)
(* borrowed by load and cannot change under it; the artifact store is a    *)
(* trait object whose content can: load reads it shard by shard, so every  *)
(* shard is a step of its own.                                             *)
(***************************************************************************)
EXTENDS Integers, Sequences, FiniteSets
Seqs == INSTANCE SequencesExt  \* FlattenSeq, SetToSortSeq
LOCAL INSTANCE TLC            \* ToString

CONSTANTS
    Drafts,          \* manifests as edited: [model_id, version, tiers, shards]
    Paths, Tiers,    \* what the drafts name
    PathOrder,       \* the place of each path in the order of strings
    Payloads,        \* contents of artifacts
    Size,            \* their length in bytes
    SigningKeys,     \* Ed25519 secret keys; a key stands for its public key too
    KeyIds,          \* identifiers keys are registered under
    NoKey,           \* not a key: nothing registered
    SupportedMajor,  \* supported_major_version of the loader
    ExpectedTiers,   \* its expected_tiers
    MaxSignatures    \* bound: distinct signatures the publisher makes

\* A name (a model_id, a path) is a sequence of words and separators.
Name == Seq(STRING)
BlankModel == <<>>   \* a model_id that trims to the empty string
BlankPath == <<>>    \* a shard path that does

ASSUME PathAssumption == Paths \subseteq Name
ASSUME OrderAssumption ==
    /\ \A p \in Paths : PathOrder[p] \in Nat
    /\ \A p, q \in Paths : PathOrder[p] = PathOrder[q] => p = q
ASSUME SizeAssumption == \A p \in Payloads : Size[p] \in Nat
ASSUME NoKeyAssumption == NoKey \notin SigningKeys
ASSUME BoundAssumption == MaxSignatures \in Nat
ManifestShard ==
    [path : Paths, tier : Tiers, bytes : Nat,
     digest : [algorithm : STRING, hex : STRING \X Payloads]]
ASSUME DraftAssumption ==
    Drafts \subseteq [model_id : Name, version : Nat \X Nat, tiers : Seq(Tiers),
                      shards : Seq(ManifestShard)]

VARIABLES
    manifest,  \* SecureModelManifest: a draft with its stored hash and its envelope
    pub_keys,  \* SignatureVerifier: key id -> verifying key
    store,     \* the artifact store: path -> the set of its content, empty or one payload
    shard,     \* number of the shard load checks next; 0: no load runs
    verified,  \* verified_shards of the running load; empty when none runs
    response,  \* what the last call returned
    hashed,    \* history: what the stored hash was computed from, <<>> if from nothing
    signed,    \* history: every signature sign_with made: its key, its hash, and what
               \* that hash was computed from
    held       \* history: every <<path, payload>> in the store since the running load began

vars == <<manifest, pub_keys, store, shard, verified, response, hashed, signed, held>>

-----------------------------------------------------------------------------
(* Digests and signatures, identified by what they are made from.          *)

SHA256_ALGORITHM == "sha256"
SHA512_ALGORITHM == "sha512"
Supported(algorithm) == algorithm \in {SHA256_ALGORITHM, SHA512_ALGORITHM}
from_payload(payload, algorithm) == [algorithm |-> algorithm, hex |-> <<algorithm, payload>>]

\* Strings that are no digest and no signature: an empty one, one that is not hex.
Empty == <<"">>
NotHex == <<"not hex">>
Signature(key, hash) == <<"ed25519", key, hash>>

-----------------------------------------------------------------------------
(* The manifest.                                                           *)

\* A sorted list is represented by how often each value occurs in it.
Sorted(s, Values) == [v \in Values |-> Cardinality({i \in 1 .. Len(s) : s[i] = v})]

\* Variant: shards are listed in the order of the manifest.
PlaceUnsorted(shards, i) == i

\* The place of shard i in the list sorted by path; the sort is stable, so shards with
\* one path keep their order.
Place(shards, i) ==
    Cardinality({j \in 1 .. Len(shards) :
        \/ PathOrder[shards[j].path] < PathOrder[shards[i].path]
        \/ PathOrder[shards[j].path] = PathOrder[shards[i].path] /\ j <= i})

\* The fields the canonical form is written from.
canonical_fields(m) ==
    [model_id |-> m.model_id, version |-> m.version, tiers |-> Sorted(m.tiers, Tiers),
     shards |-> {<<Place(m.shards, i), m.shards[i]>> : i \in 1 .. Len(m.shards)}]

TiersLine(counts) ==
    LET sorted == Seqs!SetToSortSeq(Tiers, <)
    IN  Seqs!FlattenSeq([i \in 1 .. Len(sorted) |-> [n \in 1 .. counts[sorted[i]] |-> ToString(sorted[i])]])

ShardLine(s) ==
    <<"shard", "|">> \o s.path \o <<"|", ToString(s.tier), "|", s.digest.algorithm, "|">>
    \o s.digest.hex \o <<"|", ToString(s.bytes), "newline">>

\* The text: names are written as they are, with whatever separators they have.  Dots
\* and commas only stand between numbers and are the borders of those words.
Text(fields) ==
    <<"model_id=">> \o fields.model_id \o <<"newline", "version=">>
    \o <<ToString(fields.version[1]), ToString(fields.version[2]), "newline", "tiers=">>
    \o TiersLine(fields.tiers) \o <<"newline">>
    \o Seqs!FlattenSeq([k \in 1 .. Cardinality(fields.shards) |->
                      ShardLine((CHOOSE e \in fields.shards : e[1] = k)[2])])

canonical_payload(m) == Text(canonical_fields(m))

recompute_hash(m) == <<"sha256", canonical_payload(m)>>

validate_shape(m) ==
    /\ m.model_id # BlankModel
    /\ m.tiers # <<>>
    /\ m.shards # <<>>
    /\ \A i \in 1 .. Len(m.shards) : m.shards[i].path # BlankPath /\ m.shards[i].bytes > 0

-----------------------------------------------------------------------------
(* Verification.                                                           *)

\* Variant: a key registered under any id will do.
verify_signature_any_key(hash, envelope) ==
    IF pub_keys[envelope.key_id] = NoKey THEN "KeyNotFound"
    ELSE IF envelope.signature_hex \in {Empty, NotHex} THEN "IntegrityViolation"
    ELSE IF envelope.signature_hex \notin {Signature(k, hash) : k \in SigningKeys}
    THEN "SignatureInvalid"
    ELSE "Ok"

\* The envelope's signer_id is neither signed nor checked.
verify_signature(hash, envelope) ==
    IF pub_keys[envelope.key_id] = NoKey THEN "KeyNotFound"
    ELSE IF NotHex \in {hash, envelope.signature_hex} THEN "IntegrityViolation"
    ELSE IF envelope.signature_hex = Empty THEN "IntegrityViolation"
    ELSE IF envelope.signature_hex # Signature(pub_keys[envelope.key_id], hash)
    THEN "SignatureInvalid"
    ELSE "Ok"

TierSet(m) == {m.tiers[i] : i \in 1 .. Len(m.tiers)}

\* Variant: the stored hash is not compared with the recomputed one.
CheckManifestStoredHash(m) ==
    IF ~validate_shape(m) THEN "InvalidInput"
    ELSE IF m.version[1] # SupportedMajor THEN "IntegrityViolation"
    ELSE IF TierSet(m) # ExpectedTiers THEN "IntegrityViolation"
    ELSE verify_signature(m.manifest_hash_hex, m.signature)

\* load up to its loop over the shards.
CheckManifest(m) ==
    IF ~validate_shape(m) THEN "InvalidInput"
    ELSE IF m.version[1] # SupportedMajor THEN "IntegrityViolation"
    ELSE IF TierSet(m) # ExpectedTiers THEN "IntegrityViolation"
    ELSE IF recompute_hash(m) # m.manifest_hash_hex THEN "IntegrityViolation"
    ELSE verify_signature(m.manifest_hash_hex, m.signature)

\* verify of the digest verifier.
verify(payload, expected) ==
    IF ~Supported(expected.algorithm) THEN "InvalidConfig"
    ELSE IF from_payload(payload, expected.algorithm).hex # expected.hex THEN "IntegrityViolation"
    ELSE "Ok"

\* Variant: the size is all that is compared.
CheckShardSizeOnly(m, s) ==
    IF s.tier \notin TierSet(m) THEN "IntegrityViolation"
    ELSE IF \A p \in store[s.path] : Size[p] # s.bytes THEN "IntegrityViolation"
    ELSE "Ok"

\* The body of the loop, up to the push: an unknown tier, a missing shard or one of
\* another size is refused before its digest is computed.
CheckShard(m, s) ==
    IF s.tier \notin TierSet(m) THEN "IntegrityViolation"
    ELSE IF \A p \in store[s.path] : Size[p] # s.bytes THEN "IntegrityViolation"
    ELSE verify(CHOOSE p \in store[s.path] : TRUE, s.digest)

\* Variant: a path is pushed once.
PushOnce(paths, path) ==
    IF \E i \in 1 .. Len(paths) : paths[i] = path THEN paths ELSE Append(paths, path)

Push(paths, path) == Append(paths, path)

-----------------------------------------------------------------------------
(* Operations.                                                             *)

Idle == shard = 0

Init ==
    /\ \E d \in Drafts, k \in KeyIds :
          manifest = [model_id |-> d.model_id, version |-> d.version, tiers |-> d.tiers,
                      shards |-> d.shards, manifest_hash_hex |-> Empty,
                      signature |-> [key_id |-> k, signature_hex |-> Empty]]
    /\ pub_keys = [id \in KeyIds |-> NoKey]
    /\ store = [p \in Paths |-> {}]
    /\ shard = 0
    /\ verified = <<>>
    /\ response = [op |-> "new", result |-> "Ok", model |-> <<>>]
    /\ hashed = <<>>
    /\ signed = {}
    /\ held = {}

Return(op, result) == response' = [op |-> op, result |-> result, model |-> <<>>]

\* The fields are public: the publisher, or the way to the user, changes what the
\* manifest says and leaves its hash and its signature.
Edit(d) ==
    /\ Idle
    /\ manifest' = [manifest EXCEPT !.model_id = d.model_id, !.version = d.version,
                                    !.tiers = d.tiers, !.shards = d.shards]
    /\ Return("edit", "Ok")
    /\ UNCHANGED <<pub_keys, store, shard, verified, hashed, signed, held>>

\* The stored hash is damaged.
DamageHash ==
    /\ Idle
    /\ manifest' = [manifest EXCEPT !.manifest_hash_hex = NotHex]
    /\ hashed' = <<>>
    /\ Return("edit", "Ok")
    /\ UNCHANGED <<pub_keys, store, shard, verified, signed, held>>

\* The envelope names another key id, or holds a damaged or an older signature.
ChangeEnvelope(signature) ==
    /\ Idle
    /\ manifest' = [manifest EXCEPT !.signature = signature]
    /\ Return("edit", "Ok")
    /\ UNCHANGED <<pub_keys, store, shard, verified, hashed, signed, held>>
OtherEnvelopes ==
    [key_id : KeyIds,
     signature_hex : {manifest.signature.signature_hex, NotHex}
                     \cup {Signature(one.key, one.hash) : one \in signed}]

\* manifest.manifest_hash_hex = manifest.recompute_hash().
StoreHash ==
    /\ Idle
    /\ manifest' = [manifest EXCEPT !.manifest_hash_hex = recompute_hash(manifest)]
    /\ hashed' = <<canonical_fields(manifest)>>
    /\ Return("recompute_hash", "Ok")
    /\ UNCHANGED <<pub_keys, store, shard, verified, signed, held>>

\* Variant: the previous envelope's key id is kept.
EnvelopeOldKeyId(key, key_id) ==
    [key_id |-> manifest.signature.key_id,
     signature_hex |-> Signature(key, manifest.manifest_hash_hex)]

Envelope(key, key_id) ==
    [key_id |-> key_id, signature_hex |-> Signature(key, manifest.manifest_hash_hex)]

Made(key) == [key |-> key, hash |-> manifest.manifest_hash_hex, of |-> hashed]

\* What is signed is the stored hash, also when it is stale or empty; a stored hash
\* that is not hex panics.
sign_with(key, key_id) ==
    /\ Idle
    /\ \/ /\ manifest.manifest_hash_hex = NotHex
          /\ Return("sign_with", "panic")
          /\ UNCHANGED <<manifest, signed>>
       \/ /\ manifest.manifest_hash_hex # NotHex
          /\ Cardinality(signed \cup {Made(key)}) <= MaxSignatures
          /\ manifest' = [manifest EXCEPT !.signature = Envelope(key, key_id)]
          /\ signed' = signed \cup {Made(key)}
          /\ Return("sign_with", "Ok")
    /\ UNCHANGED <<pub_keys, store, shard, verified, hashed, held>>

\* A key registered under an id replaces the one before.
register_key(key_id, key) ==
    /\ Idle
    /\ pub_keys' = [pub_keys EXCEPT ![key_id] = key]
    /\ Return("register_key", "Ok")
    /\ UNCHANGED <<manifest, store, shard, verified, hashed, signed, held>>

\* register_key_from_hex with text that is not the hex of a public key; with other
\* text it does what register_key does.
register_key_from_bad_hex ==
    /\ Idle
    /\ Return("register_key_from_hex", "InvalidConfig")
    /\ UNCHANGED <<manifest, pub_keys, store, shard, verified, hashed, signed, held>>

Contents(s) == UNION {{p} \X s[p] : p \in Paths}

\* The store gets or loses an artifact, also while a load runs.
ChangeStore(path, content) ==
    /\ store' = [store EXCEPT ![path] = content]
    /\ held' = IF Idle THEN held ELSE held \cup Contents(store')
    /\ UNCHANGED <<manifest, pub_keys, shard, verified, response, hashed, signed>>

\* load: the checks of the manifest, which touch nothing that could change.
LoadStart ==
    /\ Idle
    /\ \/ /\ CheckManifest(manifest) # "Ok"
          /\ Return("load", CheckManifest(manifest))
          /\ UNCHANGED <<shard, held>>
       \/ /\ CheckManifest(manifest) = "Ok"
          /\ shard' = 1
          /\ held' = Contents(store)
          /\ UNCHANGED response
    /\ UNCHANGED <<manifest, pub_keys, store, verified, hashed, signed>>

\* Variant: a path verified twice is reported once.
LoadedModelOnce(paths) ==
    [model_id |-> manifest.model_id, loaded_tiers |-> manifest.tiers,
     verified_shards |-> [p \in Paths |-> IF Sorted(paths, Paths)[p] = 0 THEN 0 ELSE 1]]

LoadedModel(paths) ==
    [model_id |-> manifest.model_id, loaded_tiers |-> manifest.tiers,
     verified_shards |-> Sorted(paths, Paths)]

\* load returns: its local variables are gone.
LoadReturn(result, model) ==
    /\ response' = [op |-> "load", result |-> result, model |-> model]
    /\ shard' = 0
    /\ verified' = <<>>
    /\ held' = {}

\* Variant: a path listed again is taken for a damaged manifest.
LoadShardRefusesRepeat ==
    /\ ~Idle
    /\ LET s == manifest.shards[shard]
           outcome == IF \E i \in 1 .. Len(verified) : verified[i] = s.path THEN "IntegrityViolation"
                      ELSE CheckShard(manifest, s)
           paths == Push(verified, s.path)
       IN  \/ /\ outcome # "Ok"
              /\ LoadReturn(outcome, <<>>)
           \/ /\ outcome = "Ok" /\ shard < Len(manifest.shards)
              /\ shard' = shard + 1
              /\ verified' = paths
              /\ UNCHANGED <<response, held>>
           \/ /\ outcome = "Ok" /\ shard = Len(manifest.shards)
              /\ LoadReturn("Ok", <<LoadedModel(paths)>>)
    /\ UNCHANGED <<manifest, pub_keys, store, hashed, signed>>

\* load: one turn of its loop, and its end when the turn fails or was the last.
LoadShard ==
    /\ ~Idle
    /\ LET s == manifest.shards[shard]
           outcome == CheckShard(manifest, s)
           paths == Push(verified, s.path)
       IN  \/ /\ outcome # "Ok"
              /\ LoadReturn(outcome, <<>>)
           \/ /\ outcome = "Ok" /\ shard < Len(manifest.shards)
              /\ shard' = shard + 1
              /\ verified' = paths
              /\ UNCHANGED <<response, held>>
           \/ /\ outcome = "Ok" /\ shard = Len(manifest.shards)
              /\ LoadReturn("Ok", <<LoadedModel(paths)>>)
    /\ UNCHANGED <<manifest, pub_keys, store, hashed, signed>>

Next ==
    \/ \E d \in Drafts : Edit(d)
    \/ DamageHash
    \/ \E signature \in OtherEnvelopes : ChangeEnvelope(signature)
    \/ StoreHash
    \/ \E key \in SigningKeys, key_id \in KeyIds : sign_with(key, key_id)
    \/ \E key \in SigningKeys, key_id \in KeyIds : register_key(key_id, key)
    \/ register_key_from_bad_hex
    \/ \E path \in Paths \ {BlankPath}, content \in {{}} \cup {{p} : p \in Payloads} :
          ChangeStore(path, content)
    \/ LoadStart
    \/ LoadShard

Spec == Init /\ [][Next]_vars

\* A load that has begun is a running call: its loop takes its next turn.
FairSpec == Spec /\ WF_vars(LoadShard)

-----------------------------------------------------------------------------
(* Properties.                                                             *)

Outcomes == {"Ok", "InvalidInput", "InvalidConfig", "IntegrityViolation", "KeyNotFound",
             "SignatureInvalid", "panic"}

\* The manifest is a draft with a hash and an envelope, and a load in progress has
\* verified exactly the shards before the one it is at.
TypeOK ==
    /\ \E d \in Drafts : /\ manifest.model_id = d.model_id /\ manifest.version = d.version
                         /\ manifest.tiers = d.tiers /\ manifest.shards = d.shards
    /\ manifest.signature.key_id \in KeyIds
    /\ pub_keys \in [KeyIds -> SigningKeys \cup {NoKey}]
    /\ store \in [Paths -> SUBSET Payloads]
    /\ \A p \in Paths : Cardinality(store[p]) <= 1
    /\ shard \in 0 .. Len(manifest.shards)
    /\ Len(verified) = (IF Idle THEN 0 ELSE shard - 1)
    /\ \A i \in 1 .. Len(verified) : verified[i] = manifest.shards[i].path
    /\ response.result \in Outcomes
    /\ held \subseteq Paths \X Payloads
    /\ Cardinality(signed) <= MaxSignatures

Loaded == ~Idle /\ shard' = 0 /\ response'.result = "Ok"

\* A manifest loads only when the key now registered under its key id signed the hash
\* of the canonical form it has now: no signature of a key since replaced or known under
\* another id, no older signature and no stale hash makes a manifest load, and an edit
\* only when it leaves the canonical form.
LoadedHashWasSigned ==
    [][Loaded => \E one \in signed : /\ one.key = pub_keys[manifest.signature.key_id]
                                     /\ one.hash = recompute_hash(manifest)]_vars

\* A manifest loads only when what it says, its name, version, tiers and shards, is what
\* a manifest said whose hash that key signed: the canonical form tells manifests apart.
LoadedAsPublished ==
    [][Loaded => \E one \in signed : /\ one.key = pub_keys[manifest.signature.key_id]
                                     /\ one.of = <<canonical_fields(manifest)>>]_vars

\* However the store changes between the reads of a load, every shard of a loaded
\* model matched its size and digest at some moment during that load; together the
\* matches need not have held at any one moment.
ShardsMatchedDuringLoad ==
    [][Loaded => \A i \in 1 .. Len(manifest.shards) :
          LET s == manifest.shards[i]
          IN  \E p \in Payloads : /\ <<s.path, p>> \in held
                                  /\ Size[p] = s.bytes
                                  /\ from_payload(p, s.digest.algorithm).hex = s.digest.hex]_vars

\* The manifest would load from the store as it is.
WouldLoad(m) ==
    /\ CheckManifest(m) = "Ok"
    /\ \A i \in 1 .. Len(m.shards) : CheckShard(m, m.shards[i]) = "Ok"

Swapped(s, i) == [s EXCEPT ![i] = s[i + 1], ![i + 1] = s[i]]

\* Sorting makes the listing order irrelevant: exchanging neighbouring tiers, or
\* neighbouring shards with different paths, neither breaks nor mends a manifest.
VerdictIgnoresOrder ==
    /\ \A i \in 1 .. (Len(manifest.shards) - 1) :
          manifest.shards[i].path # manifest.shards[i + 1].path
          => (WouldLoad(manifest)
              <=> WouldLoad([manifest EXCEPT !.shards = Swapped(manifest.shards, i)]))
    /\ \A i \in 1 .. (Len(manifest.tiers) - 1) :
          WouldLoad(manifest)
          <=> WouldLoad([manifest EXCEPT !.tiers = Swapped(manifest.tiers, i)])

\* Signing a freshly hashed manifest with a key that is registered under the id it is
\* signed for always yields a manifest the loader takes to its shards, whatever
\* hashes and signatures it carried before.
SignedManifestIsAccepted ==
    [][\A key \in SigningKeys, key_id \in KeyIds :
          /\ sign_with(key, key_id)
          /\ manifest.manifest_hash_hex = recompute_hash(manifest)
          /\ pub_keys[key_id] = key
          /\ validate_shape(manifest) /\ manifest.version[1] = SupportedMajor
          /\ TierSet(manifest) = ExpectedTiers
          => CheckManifest(manifest)' = "Ok"]_vars

\* A load that has begun returns the model if from then on every shard in the store
\* matches, also when shards are listed twice, out of order or share a path.
StableLoadSucceeds ==
    [](~Idle /\ []WouldLoad(manifest)
       => <>(Idle /\ response.op = "load" /\ response.result = "Ok"))
==============================================================================
