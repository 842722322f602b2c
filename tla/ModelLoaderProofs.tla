-------------------------- MODULE ModelLoaderProofs --------------------------
(***************************************************************************)
(* Proofs about the model loader, for every set of manifests, artifacts,   *)
(* keys and tiers, every manifest length and every interleaving of store   *)
(* changes with the reads of a load.                                       *)
(***************************************************************************)
EXTENDS LoaderRefinement, FiniteSetTheorems, TLAPS

-----------------------------------------------------------------------------
(* The inductive invariant.                                                *)

\* The fields of a manifest.
ManifestShape(m) ==
    /\ m = [model_id |-> m.model_id, version |-> m.version, tiers |-> m.tiers,
            shards |-> m.shards, manifest_hash_hex |-> m.manifest_hash_hex,
            signature |-> m.signature]
    /\ m.signature = [key_id |-> m.signature.key_id, signature_hex |-> m.signature.signature_hex]
    /\ m.shards \in Seq(ManifestShard)

\* Every signature was made by sign_with, with the key and over the hash recorded.
SignedWith(k, h) == \E one \in signed : one.key = k /\ one.hash = h
SignatureMade ==
    \A k, h : manifest.signature.signature_hex = Signature(k, h) => SignedWith(k, h)

\* What one shard matched during the running load.
Matched(s) ==
    \E p \in Payloads : /\ <<s.path, p>> \in held
                        /\ Size[p] = s.bytes
                        /\ from_payload(p, s.digest.algorithm).hex = s.digest.hex

\* While a load runs its manifest is an accepted one, everything now in the store is
\* recorded as held, and the shards behind it matched.
LoadSound ==
    ~Idle => /\ CheckManifest(manifest) = "Ok"
             /\ shard \in 1 .. Len(manifest.shards)
             /\ Contents(store) \subseteq held
             /\ \A i \in 1 .. (shard - 1) : Matched(manifest.shards[i])

\* Each path of the store holds at most one payload.
StoreShape ==
    /\ store \in [Paths -> SUBSET Payloads]
    /\ \A p \in Paths : \A x, y \in store[p] : x = y

LoaderInv ==
    /\ ManifestShape(manifest)
    /\ StoreShape
    /\ SignatureMade
    /\ LoadSound

\* A signature is none of the strings that are not one, and determines its parts.
LEMMA SignatureFacts ==
    ASSUME NEW k, NEW h, NEW l, NEW g
    PROVE  /\ Signature(k, h) # Empty /\ Signature(k, h) # NotHex
           /\ Signature(k, h) = Signature(l, g) => k = l /\ h = g
<1>1. Signature(k, h) # Empty /\ Signature(k, h) # NotHex
  BY DEF Signature, Empty, NotHex
<1>2. Signature(k, h) = Signature(l, g) => k = l /\ h = g
  BY DEF Signature
<1> QED BY <1>1, <1>2

\* An accepted manifest carries the signature, by the key registered under its key id,
\* of the hash of what it says.
LEMMA AcceptedIsSigned ==
    ASSUME NEW m, CheckManifest(m) = "Ok"
    PROVE  /\ validate_shape(m)
           /\ m.signature.signature_hex
                = Signature(pub_keys[m.signature.key_id], recompute_hash(m))
BY DEF CheckManifest, verify_signature

\* A shard the loop accepts matches what the store holds.
LEMMA AcceptedShardMatches ==
    ASSUME NEW m, NEW s \in ManifestShard, StoreShape, Contents(store) \subseteq held,
           CheckShard(m, s) = "Ok"
    PROVE  Matched(s)
<1>1. s.path \in Paths
  BY DEF ManifestShard
<1>2. PICK p \in store[s.path] : Size[p] = s.bytes
  BY DEF CheckShard
<1>3. (CHOOSE q \in store[s.path] : TRUE) = p
  BY <1>1 DEF StoreShape
<1>4. verify(p, s.digest) = "Ok"
  BY <1>2, <1>3 DEF CheckShard
<1>5. from_payload(p, s.digest.algorithm).hex = s.digest.hex
  BY <1>4 DEF verify
<1>6. p \in Payloads /\ <<s.path, p>> \in held
  BY <1>1 DEF Contents, StoreShape
<1> QED BY <1>2, <1>5, <1>6 DEF Matched

-----------------------------------------------------------------------------
(* Steps.                                                                  *)

\* Outside a load, a step that leaves the load idle has nothing more to show for it.
LEMMA IdleStaysSound ==
    ASSUME shard' = 0
    PROVE  LoadSound'
BY DEF LoadSound, Idle

\* Every step keeps the invariant.
LEMMA LoaderStep ==
    ASSUME LoaderInv, [Next]_vars
    PROVE  LoaderInv'
<1>1. ASSUME NEW d \in Drafts, Edit(d) PROVE LoaderInv'
  <2>1. d.shards \in Seq(ManifestShard)
    BY DraftAssumption
  <2>2. ManifestShape(manifest')
    BY <1>1, <2>1 DEF Edit, LoaderInv, ManifestShape
  <2>3. manifest'.signature = manifest.signature
    BY <1>1 DEF Edit, LoaderInv, ManifestShape
  <2>4. SignatureMade'
    BY <1>1, <2>3 DEF Edit, LoaderInv, SignatureMade, SignedWith
  <2> QED BY <1>1, <2>2, <2>4, IdleStaysSound DEF Edit, Idle, LoaderInv, StoreShape, ManifestShape
<1>2. CASE DamageHash
  <2>1. ManifestShape(manifest') /\ manifest'.signature = manifest.signature
    BY <1>2 DEF DamageHash, LoaderInv, ManifestShape
  <2>2. SignatureMade'
    BY <1>2, <2>1 DEF DamageHash, LoaderInv, SignatureMade, SignedWith
  <2> QED BY <1>2, <2>1, <2>2, IdleStaysSound
          DEF DamageHash, Idle, LoaderInv, StoreShape, ManifestShape
<1>11. ASSUME NEW signature \in OtherEnvelopes, ChangeEnvelope(signature) PROVE LoaderInv'
  <2>1. /\ ManifestShape(manifest') /\ manifest'.signature = signature
        /\ signed' = signed
    BY <1>11 DEF ChangeEnvelope, OtherEnvelopes, LoaderInv, ManifestShape
  <2>2. SignatureMade'
    <3> SUFFICES ASSUME NEW k, NEW h, signature.signature_hex = Signature(k, h)
                 PROVE  SignedWith(k, h)
      BY <2>1 DEF SignatureMade, SignedWith
    <3>1. CASE signature.signature_hex \in {manifest.signature.signature_hex, NotHex}
      BY <3>1, SignatureFacts DEF LoaderInv, SignatureMade
    <3>2. CASE signature.signature_hex \in {Signature(one.key, one.hash) : one \in signed}
      <4>1. PICK one \in signed : Signature(k, h) = Signature(one.key, one.hash)
        BY <3>2
      <4>2. k = one.key /\ h = one.hash
        BY <4>1, SignatureFacts
      <4> QED BY <4>2 DEF SignedWith
    <3> QED BY <3>1, <3>2 DEF OtherEnvelopes
  <2> QED BY <1>11, <2>1, <2>2, IdleStaysSound
          DEF ChangeEnvelope, Idle, LoaderInv, StoreShape, ManifestShape
<1>3. CASE StoreHash
  <2>1. ManifestShape(manifest') /\ manifest'.signature = manifest.signature
    BY <1>3 DEF StoreHash, LoaderInv, ManifestShape
  <2>2. SignatureMade'
    BY <1>3, <2>1 DEF StoreHash, LoaderInv, SignatureMade, SignedWith
  <2> QED BY <1>3, <2>1, <2>2, IdleStaysSound
          DEF StoreHash, Idle, LoaderInv, StoreShape, ManifestShape
<1>4. ASSUME NEW key \in SigningKeys, NEW key_id \in KeyIds, sign_with(key, key_id)
      PROVE  LoaderInv'
  <2>1. CASE UNCHANGED <<manifest, signed>>
    BY <1>4, <2>1, IdleStaysSound
       DEF sign_with, Idle, LoaderInv, StoreShape, ManifestShape, SignatureMade, SignedWith
  <2>2. CASE /\ manifest' = [manifest EXCEPT !.signature = Envelope(key, key_id)]
             /\ signed' = signed \cup {Made(key)}
    <3>1. ManifestShape(manifest') /\ manifest'.signature = Envelope(key, key_id)
      BY <2>2 DEF LoaderInv, ManifestShape, Envelope
    <3>2. manifest'.signature.signature_hex = Signature(key, manifest.manifest_hash_hex)
      BY <3>1 DEF Envelope
    <3>3. ASSUME NEW k, NEW h, manifest'.signature.signature_hex = Signature(k, h)
          PROVE  SignedWith(k, h)'
      <4>1. Signature(k, h) = Signature(key, manifest.manifest_hash_hex)
        BY <3>2, <3>3
      <4>2. k = key /\ h = manifest.manifest_hash_hex
        BY <4>1, SignatureFacts
      <4>3. Made(key) \in signed' /\ Made(key).key = key /\ Made(key).hash = manifest.manifest_hash_hex
        BY <2>2 DEF Made
      <4> QED BY <4>2, <4>3 DEF SignedWith
    <3>4. SignatureMade'
      BY <3>3 DEF SignatureMade
    <3> QED BY <1>4, <3>1, <3>4, IdleStaysSound
            DEF sign_with, Idle, LoaderInv, StoreShape, ManifestShape
  <2> QED BY <1>4, <2>1, <2>2 DEF sign_with
<1>5. ASSUME NEW key \in SigningKeys, NEW key_id \in KeyIds, register_key(key_id, key)
      PROVE  LoaderInv'
  BY <1>5, IdleStaysSound
     DEF register_key, Idle, LoaderInv, StoreShape, ManifestShape, SignatureMade, SignedWith
<1>6. CASE register_key_from_bad_hex
  BY <1>6, IdleStaysSound
     DEF register_key_from_bad_hex, Idle, LoaderInv, StoreShape, ManifestShape, SignatureMade, SignedWith
<1>7. ASSUME NEW path \in Paths \ {BlankPath},
             NEW content \in {{}} \cup {{p} : p \in Payloads}, ChangeStore(path, content)
      PROVE  LoaderInv'
  <2>1. StoreShape'
    BY <1>7 DEF ChangeStore, LoaderInv, StoreShape
  <2>2. LoadSound'
    <3>1. CASE Idle
      BY <1>7, <3>1, IdleStaysSound DEF ChangeStore, Idle
    <3>2. CASE ~Idle
      <4>1. /\ held' = held \cup Contents(store')
            /\ manifest' = manifest /\ shard' = shard /\ pub_keys' = pub_keys
        BY <1>7, <3>2 DEF ChangeStore
      <4>2. CheckManifest(manifest)' = "Ok"
        BY <3>2, <4>1 DEF LoaderInv, LoadSound, CheckManifest, verify_signature
      <4>3. \A i \in 1 .. (shard - 1) : Matched(manifest.shards[i])'
        BY <3>2, <4>1 DEF LoaderInv, LoadSound, Matched
      <4>4. Contents(store)' \subseteq held'
        BY <4>1 DEF Contents
      <4> QED BY <3>2, <4>1, <4>2, <4>3, <4>4 DEF LoaderInv, LoadSound
    <3> QED BY <3>1, <3>2
  <2> QED BY <1>7, <2>1, <2>2 DEF ChangeStore, LoaderInv, ManifestShape, SignatureMade, SignedWith
<1>8. CASE LoadStart
  <2>1. CASE UNCHANGED <<shard, held>>
    BY <1>8, <2>1, IdleStaysSound
       DEF LoadStart, Idle, LoaderInv, StoreShape, ManifestShape, SignatureMade, SignedWith
  <2>2. CASE CheckManifest(manifest) = "Ok" /\ shard' = 1 /\ held' = Contents(store)
    <3>1. UNCHANGED <<manifest, pub_keys, store, signed>>
      BY <1>8 DEF LoadStart
    <3>2. 1 \in 1 .. Len(manifest.shards)
      <4>1. manifest.shards \in Seq(ManifestShard) /\ manifest.shards # <<>>
        BY <2>2, AcceptedIsSigned DEF validate_shape, LoaderInv, ManifestShape
      <4> QED BY <4>1
    <3>3. CheckManifest(manifest)' = "Ok"
      BY <2>2, <3>1 DEF CheckManifest, verify_signature
    <3>4. LoadSound'
      BY <2>2, <3>1, <3>2, <3>3 DEF LoadSound, Contents
    <3> QED BY <3>1, <3>4 DEF LoaderInv, StoreShape, ManifestShape, SignatureMade, SignedWith
  <2> QED BY <1>8, <2>1, <2>2 DEF LoadStart
<1>9. CASE LoadShard
  <2>1. UNCHANGED <<manifest, pub_keys, store, signed>>
    BY <1>9 DEF LoadShard
  <2>2. CASE shard' = 0
    BY <2>1, <2>2, IdleStaysSound DEF LoaderInv, StoreShape, ManifestShape, SignatureMade, SignedWith
  <2>3. CASE /\ CheckShard(manifest, manifest.shards[shard]) = "Ok"
             /\ shard < Len(manifest.shards) /\ shard' = shard + 1 /\ held' = held
    <3>1. /\ shard \in 1 .. Len(manifest.shards) /\ Len(manifest.shards) \in Nat
          /\ manifest.shards[shard] \in ManifestShard
          /\ Contents(store) \subseteq held
          /\ CheckManifest(manifest) = "Ok"
          /\ \A i \in 1 .. (shard - 1) : Matched(manifest.shards[i])
      BY <1>9 DEF LoadShard, LoaderInv, LoadSound, ManifestShape
    <3>2. Matched(manifest.shards[shard])
      BY <2>3, <3>1, AcceptedShardMatches DEF LoaderInv
    <3>3. \A i \in 1 .. shard : Matched(manifest.shards[i])
      BY <3>1, <3>2
    <3>4. \A i \in 1 .. (shard' - 1) : Matched(manifest.shards[i])'
      <4> SUFFICES ASSUME NEW i \in 1 .. (shard' - 1) PROVE Matched(manifest.shards[i])'
        OBVIOUS
      <4>1. i \in 1 .. shard
        BY <2>3, <3>1
      <4>2. Matched(manifest.shards[i])
        BY <3>3, <4>1
      <4> QED BY <2>1, <2>3, <4>2 DEF Matched
    <3>5. CheckManifest(manifest)' = "Ok"
      BY <2>1, <3>1 DEF CheckManifest, verify_signature
    <3>6. shard' \in 1 .. Len(manifest'.shards) /\ Contents(store)' \subseteq held'
      BY <2>1, <2>3, <3>1 DEF Contents
    <3>7. LoadSound'
      BY <3>4, <3>5, <3>6 DEF LoadSound
    <3> QED BY <2>1, <3>7 DEF LoaderInv, StoreShape, ManifestShape, SignatureMade, SignedWith
  <2> QED BY <1>9, <2>2, <2>3 DEF LoadShard, LoadReturn
<1>10. CASE UNCHANGED vars
  BY <1>10 DEF vars, LoaderInv, StoreShape, ManifestShape, SignatureMade, SignedWith, LoadSound, Idle,
               CheckManifest, verify_signature, Matched, Contents
<1> QED BY <1>1, <1>2, <1>3, <1>4, <1>5, <1>6, <1>7, <1>8, <1>9, <1>10, <1>11 DEF Next

\* The invariant holds in every reachable state.
THEOREM LoaderInvariant == Spec => []LoaderInv
<1>1. Init => LoaderInv
  <2> SUFFICES ASSUME Init PROVE LoaderInv
    OBVIOUS
  <2>1. PICK d \in Drafts, k \in KeyIds :
           manifest = [model_id |-> d.model_id, version |-> d.version, tiers |-> d.tiers,
                       shards |-> d.shards, manifest_hash_hex |-> Empty,
                       signature |-> [key_id |-> k, signature_hex |-> Empty]]
    BY DEF Init
  <2>2. d.shards \in Seq(ManifestShard)
    BY DraftAssumption
  <2>3. ManifestShape(manifest) /\ manifest.signature.signature_hex = Empty
    BY <2>1, <2>2 DEF ManifestShape
  <2>4. SignatureMade
    BY <2>3, SignatureFacts DEF SignatureMade
  <2> QED BY <2>3, <2>4 DEF Init, LoaderInv, StoreShape, LoadSound, Idle
<1>2. LoaderInv /\ [Next]_vars => LoaderInv'
  BY LoaderStep
<1> QED BY <1>1, <1>2, PTL DEF Spec

\* The step that returns a loaded model is the last turn of the loop.
LEMMA LoadedStep ==
    ASSUME LoaderInv, Next, Loaded
    PROVE  /\ CheckManifest(manifest) = "Ok"
           /\ shard = Len(manifest.shards) /\ shard \in Nat
           /\ \A i \in 1 .. shard : Matched(manifest.shards[i])
<1>1. LoadShard
  BY DEF Next, Loaded, Idle, Edit, DamageHash, ChangeEnvelope, StoreHash, sign_with, register_key,
         register_key_from_bad_hex, ChangeStore, LoadStart
<1>2. /\ shard \in 1 .. Len(manifest.shards)
      /\ manifest.shards[shard] \in ManifestShard
      /\ Contents(store) \subseteq held
      /\ CheckManifest(manifest) = "Ok"
      /\ \A i \in 1 .. (shard - 1) : Matched(manifest.shards[i])
  BY DEF Loaded, LoaderInv, LoadSound, ManifestShape
<1>3. CheckShard(manifest, manifest.shards[shard]) = "Ok" /\ shard = Len(manifest.shards)
  BY <1>1, <1>2 DEF Loaded, LoadShard, LoadReturn
<1>4. Matched(manifest.shards[shard])
  BY <1>2, <1>3, AcceptedShardMatches DEF LoaderInv
<1> QED BY <1>2, <1>3, <1>4

\* What loads was signed, as it is, by the key registered under its key id.
THEOREM LoadedWasSigned == Spec => LoadedHashWasSigned
<1>1. LoaderInv /\ [Next]_vars =>
        [Loaded => \E one \in signed : /\ one.key = pub_keys[manifest.signature.key_id]
                                       /\ one.hash = recompute_hash(manifest)]_vars
  <2> SUFFICES ASSUME LoaderInv, Next, Loaded
               PROVE  SignedWith(pub_keys[manifest.signature.key_id], recompute_hash(manifest))
    BY DEF SignedWith
  <2>1. CheckManifest(manifest) = "Ok"
    BY LoadedStep
  <2>2. manifest.signature.signature_hex
          = Signature(pub_keys[manifest.signature.key_id], recompute_hash(manifest))
    BY <2>1, AcceptedIsSigned
  <2> QED BY <2>2 DEF LoaderInv, SignatureMade
<1> QED BY <1>1, LoaderInvariant, PTL DEF Spec, LoadedHashWasSigned

\* Every shard of a loaded model matched its digest during the load.
THEOREM LoadedShardsMatched == Spec => ShardsMatchedDuringLoad
<1>1. LoaderInv /\ [Next]_vars =>
        [Loaded => \A i \in 1 .. Len(manifest.shards) :
           LET s == manifest.shards[i]
           IN  \E p \in Payloads : /\ <<s.path, p>> \in held
                                   /\ Size[p] = s.bytes
                                   /\ from_payload(p, s.digest.algorithm).hex = s.digest.hex]_vars
  <2> SUFFICES ASSUME LoaderInv, Next, Loaded, NEW i \in 1 .. Len(manifest.shards)
               PROVE  Matched(manifest.shards[i])
    BY DEF Matched
  <2> QED BY LoadedStep
<1> QED BY <1>1, LoaderInvariant, PTL DEF Spec, ShardsMatchedDuringLoad

\* The hash and the shape do not depend on the stored hash or the envelope.
LEMMA HashOfFields ==
    ASSUME NEW m, NEW n, m.model_id = n.model_id, m.version = n.version, m.tiers = n.tiers,
           m.shards = n.shards
    PROVE  /\ canonical_fields(m) = canonical_fields(n)
           /\ recompute_hash(m) = recompute_hash(n)
           /\ validate_shape(m) <=> validate_shape(n)
           /\ TierSet(m) = TierSet(n)
<1> DEFINE F(model_id, version, tiers, shards) ==
             [model_id |-> model_id, version |-> version, tiers |-> Sorted(tiers, Tiers),
              shards |-> {<<Place(shards, i), shards[i]>> : i \in 1 .. Len(shards)}]
<1>1. /\ canonical_fields(m) = F(m.model_id, m.version, m.tiers, m.shards)
      /\ canonical_fields(n) = F(n.model_id, n.version, n.tiers, n.shards)
  BY DEF canonical_fields
<1> HIDE DEF F
<1>2. canonical_fields(m) = canonical_fields(n)
  BY <1>1
<1>3. recompute_hash(m) = recompute_hash(n)
  BY <1>2 DEF recompute_hash, canonical_payload
<1> QED BY <1>2, <1>3 DEF validate_shape, TierSet

\* A freshly hashed manifest signed with a registered key is accepted, whatever it
\* carried before.
THEOREM SignedIsAccepted == Spec => SignedManifestIsAccepted
<1>1. LoaderInv =>
        [\A key \in SigningKeys, key_id \in KeyIds :
          /\ sign_with(key, key_id)
          /\ manifest.manifest_hash_hex = recompute_hash(manifest)
          /\ pub_keys[key_id] = key
          /\ validate_shape(manifest) /\ manifest.version[1] = SupportedMajor
          /\ TierSet(manifest) = ExpectedTiers
          => CheckManifest(manifest)' = "Ok"]_vars
  <2> SUFFICES ASSUME LoaderInv, NEW key \in SigningKeys, NEW key_id \in KeyIds,
                      sign_with(key, key_id),
                      manifest.manifest_hash_hex = recompute_hash(manifest),
                      pub_keys[key_id] = key,
                      validate_shape(manifest), manifest.version[1] = SupportedMajor,
                      TierSet(manifest) = ExpectedTiers
               PROVE  CheckManifest(manifest)' = "Ok"
    OBVIOUS
  <2>1. /\ manifest' = [manifest EXCEPT !.signature = Envelope(key, key_id)]
        /\ pub_keys' = pub_keys
    BY DEF sign_with, recompute_hash, NotHex
  <2>2. /\ manifest'.model_id = manifest.model_id
        /\ manifest'.version = manifest.version
        /\ manifest'.tiers = manifest.tiers
        /\ manifest'.shards = manifest.shards
        /\ manifest'.manifest_hash_hex = manifest.manifest_hash_hex
        /\ manifest'.signature = Envelope(key, key_id)
    BY <2>1 DEF LoaderInv, ManifestShape
  <2>3. /\ recompute_hash(manifest') = recompute_hash(manifest)
        /\ validate_shape(manifest')
        /\ TierSet(manifest') = ExpectedTiers
    BY <2>2, HashOfFields
  <2>4. /\ manifest'.signature.key_id = key_id
        /\ manifest'.signature.signature_hex = Signature(key, manifest'.manifest_hash_hex)
    BY <2>2 DEF Envelope
  <2>5. manifest'.manifest_hash_hex = recompute_hash(manifest')
    BY <2>2, <2>3
  <2>6. pub_keys'[key_id] = key /\ key # NoKey
    BY <2>1, NoKeyAssumption
  <2>7. manifest'.manifest_hash_hex # NotHex
    BY <2>5 DEF recompute_hash, NotHex
  <2>8. /\ manifest'.signature.signature_hex # Empty
        /\ manifest'.signature.signature_hex # NotHex
    BY <2>4, SignatureFacts
  <2>9. verify_signature(manifest.manifest_hash_hex, manifest.signature)' = "Ok"
    BY <2>4, <2>6, <2>7, <2>8 DEF verify_signature
  <2>10. manifest'.version[1] = SupportedMajor
    BY <2>2
  <2> QED BY <2>3, <2>5, <2>9, <2>10 DEF CheckManifest
<1> QED BY <1>1, LoaderInvariant, PTL DEF Spec, SignedManifestIsAccepted

-----------------------------------------------------------------------------
(* Types.                                                                  *)

\* What the manifest says is one of the drafts.
DraftShown ==
    \E d \in Drafts : /\ manifest.model_id = d.model_id /\ manifest.version = d.version
                      /\ manifest.tiers = d.tiers /\ manifest.shards = d.shards

\* The list of the running load has the paths of the shards behind it.
VerifiedShape ==
    /\ verified \in Seq(Paths)
    /\ Len(verified) = (IF Idle THEN 0 ELSE shard - 1)
    /\ \A i \in 1 .. Len(verified) : verified[i] = manifest.shards[i].path

\* The part of the type invariant that LoaderInv does not already say.
LoaderTypes ==
    /\ DraftShown
    /\ manifest.signature.key_id \in KeyIds
    /\ pub_keys \in [KeyIds -> SigningKeys \cup {NoKey}]
    /\ VerifiedShape
    /\ response.result \in Outcomes
    /\ held \subseteq Paths \X Payloads
    /\ Cardinality(signed) <= MaxSignatures

\* The checks of load return one of the errors of the crate.
LEMMA ChecksReturnOutcomes ==
    ASSUME NEW m, NEW s
    PROVE  CheckManifest(m) \in Outcomes /\ CheckShard(m, s) \in Outcomes
<1>1. verify_signature(m.manifest_hash_hex, m.signature) \in Outcomes
  BY DEF verify_signature, Outcomes
<1>2. CheckManifest(m) \in Outcomes
  BY <1>1 DEF CheckManifest, Outcomes
<1>3. CheckShard(m, s) \in Outcomes
  BY DEF CheckShard, verify, Outcomes
<1> QED BY <1>2, <1>3

\* What the store contains are payloads under paths.
LEMMA ContentsType ==
    ASSUME NEW s \in [Paths -> SUBSET Payloads]
    PROVE  Contents(s) \subseteq Paths \X Payloads
BY DEF Contents

\* With no load running the list is empty.
LEMMA IdleVerified ==
    ASSUME VerifiedShape, Idle, shard' = shard, verified' = verified
    PROVE  VerifiedShape'
BY DEF VerifiedShape, Idle

\* Every step keeps the types.
LEMMA TypesStep ==
    ASSUME LoaderInv, LoaderTypes, [Next]_vars
    PROVE  LoaderTypes'
<1>1. ASSUME NEW d \in Drafts, Edit(d) PROVE LoaderTypes'
  <2>1. /\ manifest'.model_id = d.model_id /\ manifest'.version = d.version
        /\ manifest'.tiers = d.tiers /\ manifest'.shards = d.shards
        /\ manifest'.signature = manifest.signature
    BY <1>1 DEF Edit, LoaderInv, ManifestShape
  <2>2. DraftShown'
    BY <2>1 DEF DraftShown
  <2>3. VerifiedShape'
    BY <1>1, IdleVerified DEF Edit, LoaderTypes
  <2> QED BY <1>1, <2>1, <2>2, <2>3 DEF Edit, Return, Outcomes, LoaderTypes
<1>2. CASE DamageHash
  <2>1. /\ manifest'.model_id = manifest.model_id /\ manifest'.version = manifest.version
        /\ manifest'.tiers = manifest.tiers /\ manifest'.shards = manifest.shards
        /\ manifest'.signature = manifest.signature
    BY <1>2 DEF DamageHash, LoaderInv, ManifestShape
  <2>2. DraftShown'
    BY <2>1 DEF DraftShown, LoaderTypes
  <2>3. VerifiedShape'
    BY <1>2, IdleVerified DEF DamageHash, LoaderTypes
  <2> QED BY <1>2, <2>1, <2>2, <2>3 DEF DamageHash, Return, Outcomes, LoaderTypes
<1>11. ASSUME NEW signature \in OtherEnvelopes, ChangeEnvelope(signature) PROVE LoaderTypes'
  <2>1. /\ manifest'.model_id = manifest.model_id /\ manifest'.version = manifest.version
        /\ manifest'.tiers = manifest.tiers /\ manifest'.shards = manifest.shards
        /\ manifest'.signature = signature /\ signature.key_id \in KeyIds
    BY <1>11 DEF ChangeEnvelope, OtherEnvelopes, LoaderInv, ManifestShape
  <2>2. DraftShown'
    BY <2>1 DEF DraftShown, LoaderTypes
  <2>3. VerifiedShape'
    BY <1>11, IdleVerified DEF ChangeEnvelope, LoaderTypes
  <2> QED BY <1>11, <2>1, <2>2, <2>3 DEF ChangeEnvelope, Return, Outcomes, LoaderTypes
<1>3. CASE StoreHash
  <2>1. /\ manifest'.model_id = manifest.model_id /\ manifest'.version = manifest.version
        /\ manifest'.tiers = manifest.tiers /\ manifest'.shards = manifest.shards
        /\ manifest'.signature = manifest.signature
    BY <1>3 DEF StoreHash, LoaderInv, ManifestShape
  <2>2. DraftShown'
    BY <2>1 DEF DraftShown, LoaderTypes
  <2>3. VerifiedShape'
    BY <1>3, IdleVerified DEF StoreHash, LoaderTypes
  <2> QED BY <1>3, <2>1, <2>2, <2>3 DEF StoreHash, Return, Outcomes, LoaderTypes
<1>4. ASSUME NEW key \in SigningKeys, NEW key_id \in KeyIds, sign_with(key, key_id)
      PROVE  LoaderTypes'
  <2>1. VerifiedShape'
    BY <1>4, IdleVerified DEF sign_with, LoaderTypes
  <2>2. /\ pub_keys' = pub_keys /\ held' = held
        /\ response'.result \in Outcomes
    BY <1>4 DEF sign_with, Return, Outcomes
  <2>3. CASE UNCHANGED <<manifest, signed>>
    BY <2>1, <2>2, <2>3 DEF LoaderTypes, DraftShown
  <2>4. CASE /\ manifest' = [manifest EXCEPT !.signature = Envelope(key, key_id)]
             /\ Cardinality(signed \cup {Made(key)}) <= MaxSignatures
             /\ signed' = signed \cup {Made(key)}
    <3>1. /\ manifest'.model_id = manifest.model_id /\ manifest'.version = manifest.version
          /\ manifest'.tiers = manifest.tiers /\ manifest'.shards = manifest.shards
          /\ manifest'.signature.key_id = key_id
      BY <2>4 DEF LoaderInv, ManifestShape, Envelope
    <3>2. DraftShown'
      BY <3>1 DEF DraftShown, LoaderTypes
    <3>3. Cardinality(signed)' <= MaxSignatures
      BY <2>4
    <3> QED BY <2>1, <2>2, <3>1, <3>2, <3>3 DEF LoaderTypes
  <2> QED BY <1>4, <2>3, <2>4 DEF sign_with
<1>5. ASSUME NEW key \in SigningKeys, NEW key_id \in KeyIds, register_key(key_id, key)
      PROVE  LoaderTypes'
  <2>1. VerifiedShape'
    BY <1>5, IdleVerified DEF register_key, LoaderTypes
  <2>2. pub_keys' \in [KeyIds -> SigningKeys \cup {NoKey}]
    BY <1>5 DEF register_key, LoaderTypes
  <2> QED BY <1>5, <2>1, <2>2 DEF register_key, Return, Outcomes, LoaderTypes, DraftShown
<1>6. CASE register_key_from_bad_hex
  <2>1. VerifiedShape'
    BY <1>6, IdleVerified DEF register_key_from_bad_hex, LoaderTypes
  <2> QED BY <1>6, <2>1 DEF register_key_from_bad_hex, Return, Outcomes, LoaderTypes, DraftShown
<1>7. ASSUME NEW path \in Paths \ {BlankPath},
             NEW content \in {{}} \cup {{p} : p \in Payloads}, ChangeStore(path, content)
      PROVE  LoaderTypes'
  <2>1. store' \in [Paths -> SUBSET Payloads]
    BY <1>7 DEF ChangeStore, LoaderInv, StoreShape
  <2>2. Contents(store') \subseteq Paths \X Payloads
    BY <2>1, ContentsType
  <2>3. held' \subseteq Paths \X Payloads
    BY <1>7, <2>2 DEF ChangeStore, LoaderTypes
  <2>4. VerifiedShape'
    BY <1>7 DEF ChangeStore, LoaderTypes, VerifiedShape, Idle
  <2> QED BY <1>7, <2>3, <2>4 DEF ChangeStore, LoaderTypes, DraftShown
<1>8. CASE LoadStart
  <2>1. UNCHANGED <<manifest, pub_keys, verified, signed>> /\ Idle
    BY <1>8 DEF LoadStart
  <2>2. CASE CheckManifest(manifest) # "Ok" /\ Return("load", CheckManifest(manifest))
             /\ UNCHANGED <<shard, held>>
    <3>1. VerifiedShape'
      BY <2>1, <2>2, IdleVerified DEF LoaderTypes
    <3>2. response'.result \in Outcomes
      BY <2>2, ChecksReturnOutcomes DEF Return
    <3> QED BY <2>1, <2>2, <3>1, <3>2 DEF LoaderTypes, DraftShown
  <2>3. CASE shard' = 1 /\ held' = Contents(store) /\ UNCHANGED response
    <3>1. held' \subseteq Paths \X Payloads
      BY <2>3, ContentsType DEF LoaderInv, StoreShape
    <3>2. VerifiedShape'
      BY <2>1, <2>3 DEF LoaderTypes, VerifiedShape, Idle
    <3> QED BY <2>1, <2>3, <3>1, <3>2 DEF LoaderTypes, DraftShown
  <2> QED BY <1>8, <2>2, <2>3 DEF LoadStart
<1>9. CASE LoadShard
  <2>1. UNCHANGED <<manifest, pub_keys, signed>> /\ ~Idle
    BY <1>9 DEF LoadShard
  <2>2. ASSUME NEW result \in Outcomes, NEW model, LoadReturn(result, model)
        PROVE  LoaderTypes'
    <3>1. VerifiedShape'
      BY <2>2 DEF LoadReturn, VerifiedShape, Idle
    <3> QED BY <2>1, <2>2, <3>1 DEF LoadReturn, LoaderTypes, DraftShown
  <2>3. CASE /\ shard' = shard + 1
             /\ verified' = Append(verified, manifest.shards[shard].path)
             /\ UNCHANGED <<response, held>>
    <3>1. /\ shard \in Nat /\ shard >= 1
          /\ manifest.shards[shard] \in ManifestShard
      BY <2>1 DEF LoaderInv, LoadSound, ManifestShape
    <3>2. manifest.shards[shard].path \in Paths
      BY <3>1 DEF ManifestShard
    <3>3. /\ verified \in Seq(Paths) /\ Len(verified) = shard - 1
          /\ \A i \in 1 .. Len(verified) : verified[i] = manifest.shards[i].path
      BY <2>1 DEF LoaderTypes, VerifiedShape
    <3>4. /\ verified' \in Seq(Paths) /\ Len(verified') = shard
          /\ \A i \in 1 .. shard : verified'[i] = manifest.shards[i].path
      BY <2>3, <3>1, <3>2, <3>3
    <3>5. VerifiedShape'
      BY <2>1, <2>3, <3>1, <3>4 DEF VerifiedShape, Idle
    <3> QED BY <2>1, <2>3, <3>5 DEF LoaderTypes, DraftShown
  <2>4. CheckShard(manifest, manifest.shards[shard]) \in Outcomes /\ "Ok" \in Outcomes
    BY ChecksReturnOutcomes DEF Outcomes
  <2> QED BY <1>9, <2>2, <2>3, <2>4 DEF LoadShard, Push
<1>10. CASE UNCHANGED vars
  BY <1>10 DEF vars, LoaderTypes, DraftShown, VerifiedShape, Idle
<1> QED BY <1>1, <1>2, <1>3, <1>4, <1>5, <1>6, <1>7, <1>8, <1>9, <1>10, <1>11 DEF Next

\* A set with at most one element has at most one element.
LEMMA AtMostOne ==
    ASSUME NEW S, \A x, y \in S : x = y
    PROVE  Cardinality(S) <= 1
<1>1. CASE S = {}
  BY <1>1, FS_EmptySet
<1>2. CASE S # {}
  <2>1. PICK x : S = {x}
    BY <1>2
  <2> QED BY <2>1, FS_Singleton
<1> QED BY <1>1, <1>2

\* The types hold in every reachable state.
THEOREM TypesInvariant == Spec => []LoaderTypes
<1>1. Init => LoaderTypes
  <2> SUFFICES ASSUME Init PROVE LoaderTypes
    OBVIOUS
  <2>1. PICK d \in Drafts, k \in KeyIds :
           manifest = [model_id |-> d.model_id, version |-> d.version, tiers |-> d.tiers,
                       shards |-> d.shards, manifest_hash_hex |-> Empty,
                       signature |-> [key_id |-> k, signature_hex |-> Empty]]
    BY DEF Init
  <2>2. DraftShown /\ manifest.signature.key_id \in KeyIds
    BY <2>1 DEF DraftShown
  <2>3. VerifiedShape
    BY DEF Init, VerifiedShape, Idle
  <2>4. Cardinality(signed) <= MaxSignatures
    BY FS_EmptySet, BoundAssumption DEF Init
  <2> QED BY <2>2, <2>3, <2>4 DEF Init, LoaderTypes, Outcomes
<1>2. LoaderInv /\ LoaderTypes /\ [Next]_vars => LoaderTypes'
  BY TypesStep
<1> QED BY <1>1, <1>2, LoaderInvariant, PTL DEF Spec

\* The type invariant: the manifest is a draft with a hash and an envelope, every path
\* of the store holds at most one artifact, and a running load has verified exactly
\* the shards before the one it is at.
THEOREM LoaderTypeCorrect == Spec => []TypeOK
<1>1. LoaderInv /\ LoaderTypes => TypeOK
  <2> SUFFICES ASSUME LoaderInv, LoaderTypes PROVE TypeOK
    OBVIOUS
  <2>1. \A p \in Paths : Cardinality(store[p]) <= 1
    BY AtMostOne DEF LoaderInv, StoreShape
  <2>2. shard \in 0 .. Len(manifest.shards)
    <3>1. Len(manifest.shards) \in Nat
      BY DEF LoaderInv, ManifestShape
    <3> QED BY <3>1 DEF LoaderInv, LoadSound, Idle
  <2> QED BY <2>1, <2>2 DEF LoaderInv, StoreShape, LoaderTypes, DraftShown, VerifiedShape, TypeOK
<1> QED BY <1>1, LoaderInvariant, TypesInvariant, PTL

-----------------------------------------------------------------------------
(* The order of a listing.                                                 *)

\* Where an element is after neighbours i and i + 1 changed places.
Pi(i, k) == IF k = i THEN i + 1 ELSE IF k = i + 1 THEN i ELSE k

\* t is s with the elements i and i + 1 exchanged.
Exchanged(s, t, i) ==
    /\ i \in Nat /\ i >= 1 /\ i + 1 <= Len(s) /\ Len(s) \in Nat /\ Len(t) = Len(s)
    /\ \A k \in 1 .. Len(s) : t[k] = s[Pi(i, k)]

\* Exchanging neighbours is its own inverse.
LEMMA PiFacts ==
    ASSUME NEW i \in Nat, i >= 1, NEW n \in Nat, i + 1 <= n, NEW k \in 1 .. n
    PROVE  Pi(i, k) \in 1 .. n /\ Pi(i, Pi(i, k)) = k
BY DEF Pi

\* So does the exchange of two elements of a sequence.
LEMMA ExchangedBack ==
    ASSUME NEW s, NEW t, NEW i, Exchanged(s, t, i)
    PROVE  Exchanged(t, s, i)
<1>1. \A k \in 1 .. Len(s) : Pi(i, k) \in 1 .. Len(s) /\ Pi(i, Pi(i, k)) = k
  BY PiFacts DEF Exchanged
<1> QED BY <1>1 DEF Exchanged

\* Swapped exchanges.
LEMMA SwappedExchanges ==
    ASSUME NEW S, NEW s \in Seq(S), NEW i \in 1 .. (Len(s) - 1)
    PROVE  Swapped(s, i) \in Seq(S) /\ Exchanged(s, Swapped(s, i), i)
<1>1. Len(s) \in Nat /\ i \in 1 .. Len(s) /\ i + 1 \in 1 .. Len(s) /\ i # i + 1
  OBVIOUS
<1>2. s \in [1 .. Len(s) -> S]
  OBVIOUS
<1>3. /\ Swapped(s, i) \in [1 .. Len(s) -> S]
      /\ Swapped(s, i)[i] = s[i + 1] /\ Swapped(s, i)[i + 1] = s[i]
      /\ \A k \in 1 .. Len(s) : k # i /\ k # i + 1 => Swapped(s, i)[k] = s[k]
  BY <1>1, <1>2 DEF Swapped
<1>4. \A f \in [1 .. Len(s) -> S] : f \in Seq(S) /\ Len(f) = Len(s)
  BY <1>1
<1>5. Swapped(s, i) \in Seq(S) /\ Len(Swapped(s, i)) = Len(s)
  BY <1>3, <1>4
<1>6. \A k \in 1 .. Len(s) : Swapped(s, i)[k] = s[Pi(i, k)]
  BY <1>1, <1>3 DEF Pi
<1> QED BY <1>1, <1>5, <1>6 DEF Exchanged

\* Each element of either sequence is one of the other, and neither is empty.
LEMMA ExchangeKeepsElements ==
    ASSUME NEW S, NEW s \in Seq(S), NEW t \in Seq(S), NEW i, Exchanged(s, t, i)
    PROVE  /\ s # <<>> /\ t # <<>>
           /\ \A k \in 1 .. Len(s) : \E l \in 1 .. Len(t) : s[k] = t[l]
           /\ \A k \in 1 .. Len(t) : \E l \in 1 .. Len(s) : t[k] = s[l]
<1>1. PICK n \in Nat : n = Len(s) /\ n = Len(t) /\ i \in Nat /\ i >= 1 /\ i + 1 <= n
  BY DEF Exchanged
<1>2. Len(s) # 0 /\ Len(t) # 0
  BY <1>1
<1>3. s # <<>> /\ t # <<>>
  BY <1>2
<1>4. \A k \in 1 .. n : Pi(i, k) \in 1 .. n
  BY <1>1, PiFacts
<1>5. \A k \in 1 .. n : t[k] = s[Pi(i, k)]
  BY <1>1 DEF Exchanged
<1>6. Exchanged(t, s, i)
  BY ExchangedBack
<1>7. \A k \in 1 .. n : s[k] = t[Pi(i, k)]
  BY <1>1, <1>6 DEF Exchanged
<1> QED BY <1>1, <1>3, <1>4, <1>5, <1>7

\* The exchange maps sets of positions into each other.
Correspond(i, n, A, B) ==
    /\ i \in Nat /\ i >= 1 /\ n \in Nat /\ i + 1 <= n
    /\ A \subseteq 1 .. n /\ B \subseteq 1 .. n
    /\ \A k \in A : Pi(i, k) \in B
    /\ \A k \in B : Pi(i, k) \in A

\* Such sets have one cardinality.
LEMMA ExchangeCounts ==
    ASSUME NEW i, NEW n, NEW A, NEW B, Correspond(i, n, A, B)
    PROVE  Cardinality(A) = Cardinality(B)
<1> USE DEF Correspond
<1> DEFINE f == [k \in A |-> Pi(i, k)]
<1>1. f \in [A -> B]
  OBVIOUS
<1>2. \A k \in 1 .. n : Pi(i, Pi(i, k)) = k
  BY PiFacts
<1>3. \A a, b \in A : f[a] = f[b] => a = b
  <2> SUFFICES ASSUME NEW a \in A, NEW b \in A, f[a] = f[b] PROVE a = b
    OBVIOUS
  <2>1. Pi(i, a) = Pi(i, b)
    OBVIOUS
  <2>2. Pi(i, Pi(i, a)) = a /\ Pi(i, Pi(i, b)) = b
    BY <1>2
  <2> QED BY <2>1, <2>2
<1>4. \A b \in B : \E a \in A : f[a] = b
  <2> SUFFICES ASSUME NEW b \in B PROVE \E a \in A : f[a] = b
    OBVIOUS
  <2>1. Pi(i, b) \in A /\ Pi(i, Pi(i, b)) = b
    BY <1>2
  <2> QED BY <2>1
<1> HIDE DEF f
<1>5. f \in Bijection(A, B)
  BY <1>1, <1>3, <1>4 DEF Bijection, Injection, Surjection, IsInjective
<1>6. IsFiniteSet(A)
  <2>1. IsFiniteSet(1 .. n)
    BY FS_Interval
  <2> QED BY <2>1, FS_Subset
<1> QED BY <1>5, <1>6, FS_Bijection DEF ExistsBijection

\* A sorted list forgets an exchange.
LEMMA SortedForgets ==
    ASSUME NEW s, NEW t, NEW i, Exchanged(s, t, i), NEW Values
    PROVE  Sorted(s, Values) = Sorted(t, Values)
<1>1. ASSUME NEW v
      PROVE  Cardinality({k \in 1 .. Len(s) : s[k] = v}) = Cardinality({k \in 1 .. Len(t) : t[k] = v})
  <2>1. PICK n \in Nat : n = Len(s) /\ n = Len(t)
    BY DEF Exchanged
  <2> DEFINE A == {k \in 1 .. n : s[k] = v}
             B == {k \in 1 .. n : t[k] = v}
  <2>2. i \in Nat /\ i >= 1 /\ i + 1 <= n
    BY <2>1 DEF Exchanged
  <2>3. \A k \in 1 .. n : Pi(i, k) \in 1 .. n /\ t[k] = s[Pi(i, k)] /\ s[k] = t[Pi(i, k)]
    BY <2>1, <2>2, PiFacts, ExchangedBack DEF Exchanged
  <2>4. (\A k \in A : Pi(i, k) \in B) /\ (\A k \in B : Pi(i, k) \in A)
    BY <2>3
  <2>5. A \in SUBSET (1 .. n) /\ B \in SUBSET (1 .. n)
    OBVIOUS
  <2>6. Cardinality(A) = Cardinality(B)
    <3>1. Correspond(i, n, A, B)
      BY <2>2, <2>4, <2>5 DEF Correspond
    <3> QED BY <3>1, ExchangeCounts
  <2> QED BY <2>1, <2>6
<1> QED BY <1>1 DEF Sorted

\* Shard j comes no later than shard k in the sorted list.
NoLater(s, j, k) ==
    \/ PathOrder[s[j].path] < PathOrder[s[k].path]
    \/ PathOrder[s[j].path] = PathOrder[s[k].path] /\ j <= k
Upto(s, k) == {j \in 1 .. Len(s) : NoLater(s, j, k)}

\* A list of shards with neighbours i and i + 1 that have different paths.
Apart(s, i) == s \in Seq(ManifestShard) /\ s[i].path # s[i + 1].path

\* The exchange of shards with different paths keeps which comes no later.
LEMMA ExchangeMapsPlaces ==
    ASSUME NEW s, NEW t, NEW i, Exchanged(s, t, i), Apart(s, i),
           NEW k \in 1 .. Len(s), NEW j \in Upto(t, k)
    PROVE  Pi(i, j) \in Upto(s, Pi(i, k))
<1>1. PICK n \in Nat : n = Len(s) /\ n = Len(t) /\ i \in Nat /\ i >= 1 /\ i + 1 <= n
  BY DEF Exchanged
<1>2. PICK a \in 1 .. n, b \in 1 .. n : a = Pi(i, j) /\ b = Pi(i, k)
  BY <1>1, PiFacts DEF Upto
<1>3. /\ k \in 1 .. n /\ j \in 1 .. n /\ NoLater(t, j, k)
      /\ t[j] = s[a] /\ t[k] = s[b]
  BY <1>1, <1>2 DEF Upto, Exchanged
<1>4. s[a].path \in Paths /\ s[b].path \in Paths /\ s[i].path \in Paths /\ s[i + 1].path \in Paths
  <2>1. s \in Seq(ManifestShard)
    BY DEF Apart
  <2>2. ASSUME NEW l \in 1 .. n PROVE s[l] \in ManifestShard
    <3>1. l \in 1 .. Len(s)
      BY <1>1
    <3> QED BY <2>1, <3>1
  <2> QED BY <1>1, <1>2, <2>2 DEF ManifestShard
<1>5. NoLater(s, a, b)
  <2>1. CASE PathOrder[t[j].path] < PathOrder[t[k].path]
    BY <1>3, <2>1 DEF NoLater
  <2>2. CASE PathOrder[t[j].path] = PathOrder[t[k].path] /\ j <= k
    <3>1. s[a].path = s[b].path
      BY <1>3, <1>4, <2>2, OrderAssumption
    <3>2. ~(j = i /\ k = i + 1)
      BY <1>1, <1>2, <3>1 DEF Apart, Pi
    <3>3. a <= b
      BY <1>1, <1>2, <1>3, <2>2, <3>2 DEF Pi
    <3> QED BY <3>1, <3>3 DEF NoLater
  <2> QED BY <1>3, <2>1, <2>2 DEF NoLater
<1> QED BY <1>1, <1>2, <1>5 DEF Upto

\* The place is the number of the shards that come no later.
LEMMA PlaceCounts ==
    ASSUME NEW s, NEW k
    PROVE  Place(s, k) = Cardinality(Upto(s, k))
BY DEF Place, Upto, NoLater

\* Places move with their shards.
LEMMA PlaceMoves ==
    ASSUME NEW s, NEW t, NEW i, Exchanged(s, t, i), Apart(s, i), Apart(t, i),
           NEW k \in 1 .. Len(s)
    PROVE  Place(t, k) = Place(s, Pi(i, k))
<1>1. PICK n \in Nat : n = Len(s) /\ n = Len(t) /\ i \in Nat /\ i >= 1 /\ i + 1 <= n
  BY DEF Exchanged
<1>2. PICK l \in 1 .. n : l = Pi(i, k) /\ Pi(i, l) = k
  BY <1>1, PiFacts
<1>3. Exchanged(t, s, i)
  BY ExchangedBack
<1>4. \A j \in Upto(t, k) : Pi(i, j) \in Upto(s, l)
  BY <1>2, ExchangeMapsPlaces
<1>5. \A j \in Upto(s, l) : Pi(i, j) \in Upto(t, k)
  BY <1>1, <1>2, <1>3, ExchangeMapsPlaces
<1>6. Correspond(i, n, Upto(t, k), Upto(s, l))
  BY <1>1, <1>4, <1>5 DEF Correspond, Upto
<1>7. Cardinality(Upto(t, k)) = Cardinality(Upto(s, l))
  BY <1>6, ExchangeCounts
<1> QED BY <1>2, <1>7, PlaceCounts

\* The canonical list of shards.
Placed(s) == {<<Place(s, k), s[k]>> : k \in 1 .. Len(s)}

\* The canonical list of shards forgets the exchange of shards with different paths.
LEMMA PlacedForgets ==
    ASSUME NEW s, NEW t, NEW i, Exchanged(s, t, i), Apart(s, i), Apart(t, i)
    PROVE  Placed(s) = Placed(t)
<1>1. PICK n \in Nat : n = Len(s) /\ n = Len(t) /\ i \in Nat /\ i >= 1 /\ i + 1 <= n
  BY DEF Exchanged
<1>2. ASSUME NEW k \in 1 .. n
      PROVE  /\ Pi(i, k) \in 1 .. n /\ Pi(i, Pi(i, k)) = k
             /\ Place(t, k) = Place(s, Pi(i, k)) /\ t[k] = s[Pi(i, k)]
  <2>1. Pi(i, k) \in 1 .. n /\ Pi(i, Pi(i, k)) = k
    BY <1>1, PiFacts
  <2>2. Place(t, k) = Place(s, Pi(i, k))
    <3>1. k \in 1 .. Len(s)
      BY <1>1
    <3> QED BY <3>1, PlaceMoves
  <2>3. t[k] = s[Pi(i, k)]
    BY <1>1 DEF Exchanged
  <2> QED BY <2>1, <2>2, <2>3
<1>3. ASSUME NEW k \in 1 .. n
      PROVE  \E l \in 1 .. n : Place(s, k) = Place(t, l) /\ s[k] = t[l]
  <2>1. PICK l \in 1 .. n : l = Pi(i, k) /\ Pi(i, l) = k
    BY <1>2
  <2> QED BY <1>2, <2>1
<1>4. ASSUME NEW k \in 1 .. n
      PROVE  \E l \in 1 .. n : Place(t, k) = Place(s, l) /\ t[k] = s[l]
  BY <1>2
<1>5. {<<Place(s, k), s[k]>> : k \in 1 .. n} \subseteq {<<Place(t, k), t[k]>> : k \in 1 .. n}
  BY <1>3
<1>6. {<<Place(t, k), t[k]>> : k \in 1 .. n} \subseteq {<<Place(s, k), s[k]>> : k \in 1 .. n}
  BY <1>4
<1> QED BY <1>1, <1>5, <1>6 DEF Placed

\* What the loader reads of a manifest besides its shards: two manifests that agree on it
\* get the same verdict before the loop.
LEMMA SameChecks ==
    ASSUME NEW m, NEW n, validate_shape(m) <=> validate_shape(n), m.version = n.version,
           TierSet(m) = TierSet(n), recompute_hash(m) = recompute_hash(n),
           m.manifest_hash_hex = n.manifest_hash_hex, m.signature = n.signature
    PROVE  CheckManifest(m) = CheckManifest(n)
BY DEF CheckManifest

\* And the same verdict on a shard.
LEMMA SameShardChecks ==
    ASSUME NEW m, NEW n, NEW s, TierSet(m) = TierSet(n)
    PROVE  CheckShard(m, s) = CheckShard(n, s)
BY DEF CheckShard

\* Exchanging neighbouring shards with different paths keeps every check.
LEMMA ShardOrderForgotten ==
    ASSUME NEW m, NEW n, NEW i, Exchanged(m.shards, n.shards, i),
           m.shards \in Seq(ManifestShard), n.shards \in Seq(ManifestShard),
           m.shards[i].path # m.shards[i + 1].path,
           m.model_id = n.model_id, m.version = n.version, m.tiers = n.tiers,
           m.manifest_hash_hex = n.manifest_hash_hex, m.signature = n.signature
    PROVE  WouldLoad(m) => WouldLoad(n)
<1>1. PICK s \in Seq(ManifestShard), t \in Seq(ManifestShard) : s = m.shards /\ t = n.shards
  OBVIOUS
<1>2. Exchanged(s, t, i)
  BY <1>1
<1>3. /\ s # <<>> /\ t # <<>>
      /\ \A k \in 1 .. Len(s) : \E l \in 1 .. Len(t) : s[k] = t[l]
      /\ \A k \in 1 .. Len(t) : \E l \in 1 .. Len(s) : t[k] = s[l]
  BY <1>2, ExchangeKeepsElements
<1>4. validate_shape(m) <=> validate_shape(n)
  <2>1. (\A k \in 1 .. Len(s) : s[k].path # BlankPath /\ s[k].bytes > 0)
          <=> (\A k \in 1 .. Len(t) : t[k].path # BlankPath /\ t[k].bytes > 0)
    BY <1>3
  <2> QED BY <1>1, <1>3, <2>1 DEF validate_shape
<1>5. TierSet(m) = TierSet(n)
  BY DEF TierSet
<1>6. recompute_hash(m) = recompute_hash(n)
  <2>1. Apart(s, i) /\ Apart(t, i)
    <3>1. t[i] = s[i + 1] /\ t[i + 1] = s[i]
      BY <1>2 DEF Exchanged, Pi
    <3> QED BY <1>1, <3>1 DEF Apart
  <2>2. Placed(s) = Placed(t)
    BY <1>2, <2>1, PlacedForgets
  <2>3. canonical_fields(m) = canonical_fields(n)
    BY <1>1, <2>2 DEF canonical_fields, Placed
  <2> QED BY <2>3 DEF recompute_hash, canonical_payload
<1>7. CheckManifest(m) = CheckManifest(n)
  BY <1>4, <1>5, <1>6, SameChecks
<1>8. ASSUME \A l \in 1 .. Len(s) : CheckShard(m, s[l]) = "Ok", NEW j \in 1 .. Len(t)
      PROVE  CheckShard(n, t[j]) = "Ok"
  <2>1. PICK l \in 1 .. Len(s) : t[j] = s[l]
    BY <1>3
  <2>2. CheckShard(m, t[j]) = "Ok"
    BY <1>8, <2>1
  <2> QED BY <1>5, <2>2, SameShardChecks
<1> QED BY <1>1, <1>7, <1>8 DEF WouldLoad

\* So does exchanging neighbouring tiers.
LEMMA TierOrderForgotten ==
    ASSUME NEW m, NEW n, NEW i, Exchanged(m.tiers, n.tiers, i),
           m.tiers \in Seq(Tiers), n.tiers \in Seq(Tiers),
           m.model_id = n.model_id, m.version = n.version, m.shards = n.shards,
           m.manifest_hash_hex = n.manifest_hash_hex, m.signature = n.signature
    PROVE  WouldLoad(m) => WouldLoad(n)
<1>1. PICK s \in Seq(Tiers), t \in Seq(Tiers) : s = m.tiers /\ t = n.tiers
  OBVIOUS
<1>2. Exchanged(s, t, i)
  BY <1>1
<1>3. /\ s # <<>> /\ t # <<>>
      /\ \A k \in 1 .. Len(s) : \E l \in 1 .. Len(t) : s[k] = t[l]
      /\ \A k \in 1 .. Len(t) : \E l \in 1 .. Len(s) : t[k] = s[l]
  BY <1>2, ExchangeKeepsElements
<1>4. validate_shape(m) <=> validate_shape(n)
  BY <1>1, <1>3 DEF validate_shape
<1>5. TierSet(m) = TierSet(n)
  <2>1. \A x : (\E k \in 1 .. Len(s) : x = s[k]) <=> (\E k \in 1 .. Len(t) : x = t[k])
    BY <1>3
  <2>2. \A x : x \in TierSet(m) <=> \E k \in 1 .. Len(s) : x = s[k]
    BY <1>1 DEF TierSet
  <2>3. \A x : x \in TierSet(n) <=> \E k \in 1 .. Len(t) : x = t[k]
    BY <1>1 DEF TierSet
  <2>4. \A x : x \in TierSet(m) <=> x \in TierSet(n)
    BY <2>1, <2>2, <2>3
  <2>5. TierSet(m) \subseteq TierSet(n) /\ TierSet(n) \subseteq TierSet(m)
    BY <2>4
  <2> QED BY <2>5
<1>6. recompute_hash(m) = recompute_hash(n)
  <2>1. Sorted(m.tiers, Tiers) = Sorted(n.tiers, Tiers)
    BY SortedForgets
  <2>2. canonical_fields(m) = canonical_fields(n)
    BY <2>1 DEF canonical_fields
  <2> QED BY <2>2 DEF recompute_hash, canonical_payload
<1>7. CheckManifest(m) = CheckManifest(n)
  BY <1>4, <1>5, <1>6, SameChecks
<1>8. \A x : CheckShard(m, x) = CheckShard(n, x)
  BY <1>5, SameShardChecks
<1> QED BY <1>7, <1>8 DEF WouldLoad

\* The order in which tiers, and shards with different paths, are listed never decides
\* whether a manifest loads.
THEOREM OrderIsIrrelevant == Spec => []VerdictIgnoresOrder
<1>1. LoaderInv /\ TypeOK => VerdictIgnoresOrder
  <2> SUFFICES ASSUME LoaderInv, TypeOK PROVE VerdictIgnoresOrder
    OBVIOUS
  <2>1. PICK m : m = manifest
    OBVIOUS
  <2>2. ManifestShape(m) /\ m.tiers \in Seq(Tiers)
    BY <2>1, DraftAssumption DEF LoaderInv, TypeOK
  <2>3. ASSUME NEW i \in 1 .. (Len(m.shards) - 1), m.shards[i].path # m.shards[i + 1].path
        PROVE  WouldLoad(m) <=> WouldLoad([m EXCEPT !.shards = Swapped(m.shards, i)])
    <3>1. PICK s : s = Swapped(m.shards, i)
      OBVIOUS
    <3>2. m.shards \in Seq(ManifestShard)
      BY <2>2 DEF ManifestShape
    <3>3. s \in Seq(ManifestShard) /\ Exchanged(m.shards, s, i)
      BY <3>1, <3>2, SwappedExchanges
    <3>4. Exchanged(s, m.shards, i)
      BY <3>3, ExchangedBack
    <3>5. s[i].path # s[i + 1].path
      BY <2>3, <3>3 DEF Exchanged, Pi
    <3>6. PICK n : n = [m EXCEPT !.shards = s]
      OBVIOUS
    <3>7. /\ n.shards = s
          /\ m.model_id = n.model_id /\ m.version = n.version /\ m.tiers = n.tiers
          /\ m.manifest_hash_hex = n.manifest_hash_hex /\ m.signature = n.signature
      BY <2>2, <3>6 DEF ManifestShape
    <3>8. WouldLoad(m) => WouldLoad(n)
      BY <2>3, <3>2, <3>3, <3>7, ShardOrderForgotten
    <3>9. WouldLoad(n) => WouldLoad(m)
      BY <3>2, <3>3, <3>4, <3>5, <3>7, ShardOrderForgotten
    <3> QED BY <3>1, <3>6, <3>8, <3>9
  <2>4. ASSUME NEW i \in 1 .. (Len(m.tiers) - 1)
        PROVE  WouldLoad(m) <=> WouldLoad([m EXCEPT !.tiers = Swapped(m.tiers, i)])
    <3>1. PICK s : s = Swapped(m.tiers, i)
      OBVIOUS
    <3>2. s \in Seq(Tiers) /\ Exchanged(m.tiers, s, i)
      BY <2>2, <3>1, SwappedExchanges
    <3>3. Exchanged(s, m.tiers, i)
      BY <3>2, ExchangedBack
    <3>4. PICK n : n = [m EXCEPT !.tiers = s]
      OBVIOUS
    <3>5. /\ n.tiers = s
          /\ m.model_id = n.model_id /\ m.version = n.version /\ m.shards = n.shards
          /\ m.manifest_hash_hex = n.manifest_hash_hex /\ m.signature = n.signature
      BY <2>2, <3>4 DEF ManifestShape
    <3>6. WouldLoad(m) => WouldLoad(n)
      BY <2>2, <3>2, <3>5, TierOrderForgotten
    <3>7. WouldLoad(n) => WouldLoad(m)
      BY <2>2, <3>2, <3>3, <3>5, TierOrderForgotten
    <3> QED BY <3>1, <3>4, <3>6, <3>7
  <2> QED BY <2>1, <2>3, <2>4 DEF VerdictIgnoresOrder
<1> QED BY <1>1, LoaderInvariant, LoaderTypeCorrect, PTL

-----------------------------------------------------------------------------
(* The refinement: what is loaded was approved.                            *)

\* Two shards with one path have different places.
LEMMA PlacesDiffer ==
    ASSUME NEW s, Len(s) \in Nat, NEW i \in 1 .. Len(s), NEW j \in 1 .. Len(s), i < j,
           s[i].path = s[j].path, PathOrder[s[i].path] \in Nat
    PROVE  Place(s, i) # Place(s, j)
<1>1. Upto(s, i) \in SUBSET Upto(s, j)
  BY DEF Upto, NoLater
<1>2. j \in Upto(s, j) /\ j \notin Upto(s, i)
  BY DEF Upto, NoLater
<1>3. IsFiniteSet(Upto(s, j))
  <2>1. IsFiniteSet(1 .. Len(s))
    BY FS_Interval
  <2>2. Upto(s, j) \in SUBSET (1 .. Len(s))
    BY DEF Upto
  <2> QED BY <2>1, <2>2, FS_Subset
<1>4. Upto(s, i) # Upto(s, j)
  BY <1>2
<1>5. Cardinality(Upto(s, i)) # Cardinality(Upto(s, j))
  BY <1>1, <1>3, <1>4, FS_Subset
<1> QED BY <1>5, PlaceCounts

\* The positions of the shards with a path, and their entries in the canonical list.
At(s, p) == {i \in 1 .. Len(s) : s[i].path = p}
Entries(s, p) == {e \in Placed(s) : e[2].path = p}

\* The canonical list has one entry for each shard, also for shards that are equal.
LEMMA EntriesCount ==
    ASSUME NEW s, Len(s) \in Nat, NEW p \in Paths
    PROVE  Cardinality(Entries(s, p)) = Cardinality(At(s, p))
<1> DEFINE f == [i \in At(s, p) |-> <<Place(s, i), s[i]>>]
<1>1. f \in [At(s, p) -> Entries(s, p)]
  <2> SUFFICES ASSUME NEW i \in At(s, p) PROVE <<Place(s, i), s[i]>> \in Entries(s, p)
    OBVIOUS
  <2> QED BY DEF At, Entries, Placed
<1>2. ASSUME NEW i \in At(s, p), NEW j \in At(s, p), f[i] = f[j] PROVE i = j
  <2>1. Place(s, i) = Place(s, j)
    BY <1>2
  <2>2. /\ i \in 1 .. Len(s) /\ j \in 1 .. Len(s)
        /\ s[i].path = p /\ s[j].path = p /\ PathOrder[p] \in Nat
    BY OrderAssumption DEF At
  <2>3. ~(i < j)
    BY <2>1, <2>2, PlacesDiffer
  <2>4. ~(j < i)
    BY <2>1, <2>2, PlacesDiffer
  <2> QED BY <2>2, <2>3, <2>4
<1>3. ASSUME NEW e \in Entries(s, p) PROVE \E i \in At(s, p) : f[i] = e
  <2>1. PICK i \in 1 .. Len(s) : e = <<Place(s, i), s[i]>>
    BY DEF Entries, Placed
  <2>2. e[2] = s[i] /\ e[2].path = p
    BY <2>1 DEF Entries
  <2>3. i \in At(s, p)
    BY <2>2 DEF At
  <2> QED BY <2>1, <2>3
<1> HIDE DEF f
<1>4. f \in Bijection(At(s, p), Entries(s, p))
  BY <1>1, <1>2, <1>3 DEF Bijection, Injection, Surjection, IsInjective
<1>5. IsFiniteSet(At(s, p))
  <2>1. IsFiniteSet(1 .. Len(s))
    BY FS_Interval
  <2>2. At(s, p) \in SUBSET (1 .. Len(s))
    BY DEF At
  <2> QED BY <2>1, <2>2, FS_Subset
<1> QED BY <1>4, <1>5, FS_Bijection DEF ExistsBijection

\* The paths of all shards, sorted, are counted by the canonical list.
LEMMA PathsCounted ==
    ASSUME NEW s, NEW paths, Len(s) \in Nat, Len(paths) = Len(s),
           \A i \in 1 .. Len(s) : paths[i] = s[i].path
    PROVE  Sorted(paths, Paths) = [p \in Paths |-> Cardinality(Entries(s, p))]
<1>1. ASSUME NEW p PROVE {i \in 1 .. Len(paths) : paths[i] = p} = At(s, p)
  BY DEF At
<1>2. ASSUME NEW p \in Paths
      PROVE  Cardinality({i \in 1 .. Len(paths) : paths[i] = p}) = Cardinality(Entries(s, p))
  <2>1. Cardinality(Entries(s, p)) = Cardinality(At(s, p))
    BY EntriesCount
  <2> QED BY <1>1, <2>1
<1> QED BY <1>2 DEF Sorted

\* The model a manifest yields is the one its canonical form describes.
LEMMA LoadedIsDescribed ==
    ASSUME NEW m, NEW paths, Len(m.shards) \in Nat, Len(paths) = Len(m.shards),
           \A i \in 1 .. Len(m.shards) : paths[i] = m.shards[i].path
    PROVE  Shown([model_id |-> m.model_id, loaded_tiers |-> m.tiers,
                  verified_shards |-> Sorted(paths, Paths)])
             = Abstract!Described(canonical_fields(m))
<1>1. PICK s : s = m.shards
  OBVIOUS
<1>2. Sorted(paths, Paths) = [p \in Paths |-> Cardinality(Entries(s, p))]
  BY <1>1, PathsCounted
<1>3. PICK content : content = canonical_fields(m)
  OBVIOUS
<1>4. content.model_id = m.model_id /\ content.tiers = Sorted(m.tiers, Tiers) /\ content.shards = Placed(s)
  BY <1>1, <1>3 DEF canonical_fields, Placed
<1>5. ASSUME NEW S PROVE Abstract!Cardinality(S) = Cardinality(S)
  BY DEF Abstract!Cardinality, Cardinality
<1>6. Abstract!Described(content)
        = [model_id |-> content.model_id, tiers |-> content.tiers,
           shards |-> [p \in Paths |-> Cardinality(Entries(s, p))]]
  BY <1>4, <1>5 DEF Abstract!Described, Entries
<1> QED BY <1>2, <1>3, <1>4, <1>6 DEF Shown

\* A step that loads nothing and touches neither keys nor signatures.
LEMMA QuietStep ==
    ASSUME pub_keys' = pub_keys, signed' = signed, response'.model = <<>>
    PROVE  Abstract!Refuse
BY DEF Abstract!Refuse, Approved, Answer

\* A step within a load, or of the store alone, is not seen.
LEMMA HiddenStep ==
    ASSUME UNCHANGED <<pub_keys, signed, response>>
    PROVE  UNCHANGED Abstract!vars
BY DEF Abstract!vars, Approved, Answer

\* A signature approves a content, or nothing.
LEMMA SigningApproves ==
    ASSUME NEW one, signed' = signed \cup {one}
    PROVE  \/ Approved' = Approved
           \/ /\ <<one.key, one.of[1]>> \in Approved'
              /\ Approved' = Approved \cup {<<one.key, one.of[1]>>}
<1>1. CASE one.of = <<>>
  <2>1. {o \in signed : o.of # <<>>}' = {o \in signed : o.of # <<>>}
    BY <1>1
  <2> QED BY <2>1 DEF Approved
<1>2. CASE one.of # <<>>
  <2>1. {o \in signed : o.of # <<>>}' = {o \in signed : o.of # <<>>} \cup {one}
    BY <1>2
  <2>2. ASSUME NEW S, NEW x
        PROVE  {<<o.key, o.of[1]>> : o \in S \cup {x}}
                 = {<<o.key, o.of[1]>> : o \in S} \cup {<<x.key, x.of[1]>>}
    OBVIOUS
  <2>3. PICK S : S = {o \in signed : o.of # <<>>}
    OBVIOUS
  <2>4. Approved = {<<o.key, o.of[1]>> : o \in S}
    BY <2>3 DEF Approved
  <2>5. Approved' = {<<o.key, o.of[1]>> : o \in S \cup {one}}
    BY <2>1, <2>3 DEF Approved
  <2>6. Approved' = Approved \cup {<<one.key, one.of[1]>>}
    BY <2>2, <2>4, <2>5
  <2> QED BY <2>6
<1> QED BY <1>1, <1>2

\* What a stored hash was computed from: a draft, or nothing.
ComputedFrom(hash, of) ==
    \/ hash \in {Empty, NotHex} /\ of = <<>>
    \/ \E d \in Drafts : of = <<canonical_fields(d)>> /\ hash = recompute_hash(d)

\* The history is right about the stored hash and about every hash that was signed.
HashesMade ==
    /\ ComputedFrom(manifest.manifest_hash_hex, hashed)
    /\ \A one \in signed : ComputedFrom(one.hash, one.of)

\* Every step keeps it.
LEMMA HashesStep ==
    ASSUME LoaderInv, LoaderTypes, HashesMade, [Next]_vars
    PROVE  HashesMade'
<1>1. CASE UNCHANGED <<hashed, signed>> /\ manifest'.manifest_hash_hex = manifest.manifest_hash_hex
  BY <1>1 DEF HashesMade
<1>2. ASSUME NEW d \in Drafts, Edit(d) PROVE HashesMade'
  <2>1. manifest'.manifest_hash_hex = manifest.manifest_hash_hex
    BY <1>2 DEF Edit, LoaderInv, ManifestShape
  <2> QED BY <1>1, <1>2, <2>1 DEF Edit
<1>3. CASE DamageHash
  <2>1. manifest'.manifest_hash_hex = NotHex /\ hashed' = <<>> /\ signed' = signed
    BY <1>3 DEF DamageHash, LoaderInv, ManifestShape
  <2>2. ComputedFrom(NotHex, <<>>)
    BY DEF ComputedFrom
  <2> QED BY <2>1, <2>2 DEF HashesMade
<1>4. ASSUME NEW signature \in OtherEnvelopes, ChangeEnvelope(signature) PROVE HashesMade'
  <2>1. manifest'.manifest_hash_hex = manifest.manifest_hash_hex
    BY <1>4 DEF ChangeEnvelope, LoaderInv, ManifestShape
  <2> QED BY <1>1, <1>4, <2>1 DEF ChangeEnvelope
<1>5. CASE StoreHash
  <2>1. PICK h : h = recompute_hash(manifest)
    OBVIOUS
  <2>2. manifest'.manifest_hash_hex = h /\ hashed' = <<canonical_fields(manifest)>> /\ signed' = signed
    BY <1>5, <2>1 DEF StoreHash, LoaderInv, ManifestShape
  <2>3. PICK e \in Drafts : /\ manifest.model_id = e.model_id /\ manifest.version = e.version
                           /\ manifest.tiers = e.tiers /\ manifest.shards = e.shards
    BY DEF LoaderTypes, DraftShown
  <2>4. h = recompute_hash(e) /\ canonical_fields(manifest) = canonical_fields(e)
    BY <2>1, <2>3, HashOfFields
  <2>5. ComputedFrom(h, <<canonical_fields(manifest)>>)
    BY <2>4 DEF ComputedFrom
  <2> QED BY <2>2, <2>5 DEF HashesMade
<1>6. ASSUME NEW key, NEW key_id, sign_with(key, key_id) PROVE HashesMade'
  <2>1. CASE UNCHANGED <<manifest, signed>>
    BY <1>1, <1>6, <2>1 DEF sign_with
  <2>2. CASE /\ manifest' = [manifest EXCEPT !.signature = Envelope(key, key_id)]
             /\ signed' = signed \cup {Made(key)}
    <3>1. manifest'.manifest_hash_hex = manifest.manifest_hash_hex /\ hashed' = hashed
      BY <1>6, <2>2 DEF sign_with, LoaderInv, ManifestShape
    <3>2. ComputedFrom(Made(key).hash, Made(key).of)
      BY DEF HashesMade, Made
    <3> QED BY <2>2, <3>1, <3>2 DEF HashesMade
  <2> QED BY <1>6, <2>1, <2>2 DEF sign_with
<1>7. ASSUME UNCHANGED <<manifest, hashed, signed>> PROVE HashesMade'
  BY <1>1, <1>7
<1> QED BY <1>2, <1>3, <1>4, <1>5, <1>6, <1>7
        DEF Next, vars, register_key, register_key_from_bad_hex, ChangeStore, LoadStart, LoadShard

\* The history is right in every reachable state.
THEOREM HashesInvariant == Spec => []HashesMade
<1>1. Init => HashesMade
  BY DEF Init, HashesMade, ComputedFrom
<1>2. LoaderInv /\ LoaderTypes /\ HashesMade /\ [Next]_vars => HashesMade'
  BY HashesStep
<1> QED BY <1>1, <1>2, LoaderInvariant, TypesInvariant, PTL DEF Spec

\* What an accepted manifest says is what a manifest said whose hash was signed.
LEMMA AcceptedWasPublished ==
    ASSUME TextsUnambiguous, LoaderInv, LoaderTypes, HashesMade, CheckManifest(manifest) = "Ok"
    PROVE  \E one \in signed : /\ one.key = pub_keys[manifest.signature.key_id]
                               /\ one.of = <<canonical_fields(manifest)>>
<1>1. manifest.signature.signature_hex
        = Signature(pub_keys[manifest.signature.key_id], recompute_hash(manifest))
  BY AcceptedIsSigned
<1>2. PICK one \in signed : /\ one.key = pub_keys[manifest.signature.key_id]
                           /\ one.hash = recompute_hash(manifest)
  BY <1>1 DEF LoaderInv, SignatureMade, SignedWith
<1>3. PICK d \in Drafts : one.of = <<canonical_fields(d)>> /\ one.hash = recompute_hash(d)
  <2>1. recompute_hash(manifest) # Empty /\ recompute_hash(manifest) # NotHex
    BY DEF recompute_hash, Empty, NotHex
  <2>2. ComputedFrom(one.hash, one.of)
    BY DEF HashesMade
  <2> QED BY <1>2, <2>1, <2>2 DEF ComputedFrom
<1>4. PICK e \in Drafts : /\ manifest.model_id = e.model_id /\ manifest.version = e.version
                         /\ manifest.tiers = e.tiers /\ manifest.shards = e.shards
  BY DEF LoaderTypes, DraftShown
<1>5. recompute_hash(e) = recompute_hash(manifest) /\ canonical_fields(e) = canonical_fields(manifest)
  BY <1>4, HashOfFields
<1>6. canonical_payload(d) = canonical_payload(e)
  BY <1>2, <1>3, <1>5 DEF recompute_hash
<1>7. canonical_fields(d) = canonical_fields(e)
  BY <1>6 DEF TextsUnambiguous
<1> QED BY <1>2, <1>3, <1>5, <1>7

\* As long as texts are unambiguous, what loads is what a manifest said whose hash the
\* key registered under the key id signed.
THEOREM LoadedWasPublished ==
    ASSUME TextsUnambiguous
    PROVE  Spec => LoadedAsPublished
<1>1. LoaderInv /\ LoaderTypes /\ HashesMade /\ [Next]_vars =>
        [Loaded => \E one \in signed : /\ one.key = pub_keys[manifest.signature.key_id]
                                       /\ one.of = <<canonical_fields(manifest)>>]_vars
  BY LoadedStep, AcceptedWasPublished
<1> QED BY <1>1, LoaderInvariant, TypesInvariant, HashesInvariant, PTL DEF Spec, LoadedAsPublished

\* The step that returns a model loads an approved one.
LEMMA LoadingIsApproved ==
    ASSUME TextsUnambiguous, LoaderInv, LoaderTypes, HashesMade, LoadShard, shard = Len(manifest.shards),
           CheckShard(manifest, manifest.shards[shard]) = "Ok"
    PROVE  Abstract!Load(manifest.signature.key_id)
<1>1. PICK m : m = manifest
  OBVIOUS
<1>2. /\ shard \in Nat /\ shard >= 1 /\ shard = Len(m.shards)
      /\ m.shards[shard] \in ManifestShard
      /\ CheckManifest(m) = "Ok"
  BY <1>1 DEF LoadShard, LoaderInv, LoadSound, ManifestShape
<1>3. PICK paths : paths = Append(verified, m.shards[shard].path)
  OBVIOUS
<1>4. Len(paths) = Len(m.shards) /\ \A i \in 1 .. Len(m.shards) : paths[i] = m.shards[i].path
  <2>1. m.shards[shard].path \in Paths
    BY <1>2 DEF ManifestShard
  <2>2. /\ verified \in Seq(Paths) /\ Len(verified) = shard - 1
        /\ \A i \in 1 .. Len(verified) : verified[i] = m.shards[i].path
    BY <1>1 DEF LoadShard, LoaderTypes, VerifiedShape
  <2> QED BY <1>2, <1>3, <2>1, <2>2
<1>5. response'.model = <<LoadedModel(paths)>> /\ UNCHANGED <<pub_keys, signed>>
  BY <1>1, <1>2, <1>3 DEF LoadShard, LoadReturn, Push
<1>6. LoadedModel(paths) = [model_id |-> m.model_id, loaded_tiers |-> m.tiers,
                            verified_shards |-> Sorted(paths, Paths)]
  BY <1>1 DEF LoadedModel
<1>7. Shown(LoadedModel(paths)) = Abstract!Described(canonical_fields(m))
  BY <1>2, <1>4, <1>6, LoadedIsDescribed
<1>8. Answer' = <<Abstract!Described(canonical_fields(m))>>
  BY <1>5, <1>7 DEF Answer
<1>9. <<pub_keys[m.signature.key_id], canonical_fields(m)>> \in Approved
  <2>1. PICK one \in signed : /\ one.key = pub_keys[m.signature.key_id]
                             /\ one.of = <<canonical_fields(m)>>
    BY <1>1, <1>2, AcceptedWasPublished
  <2>2. one.of # <<>> /\ one.of[1] = canonical_fields(m)
    BY <2>1
  <2> QED BY <2>1, <2>2 DEF Approved
<1>10. Approved' = Approved
  BY <1>5 DEF Approved
<1> QED BY <1>1, <1>5, <1>8, <1>9, <1>10 DEF Abstract!Load

\* Every step of the loader is a step of the abstract specification, or none.
LEMMA ApprovalStep ==
    ASSUME TextsUnambiguous, LoaderInv, LoaderTypes, HashesMade, [Next]_vars
    PROVE  [Abstract!Next]_(Abstract!vars)
<1>1. ASSUME NEW d \in Drafts, Edit(d) PROVE Abstract!Refuse
  BY <1>1, QuietStep DEF Edit, Return
<1>2. CASE DamageHash
  <2>1. Abstract!Refuse
    BY <1>2, QuietStep DEF DamageHash, Return
  <2> QED BY <2>1 DEF Abstract!Next
<1>12. ASSUME NEW signature, ChangeEnvelope(signature) PROVE Abstract!Next
  <2>1. Abstract!Refuse
    BY <1>12, QuietStep DEF ChangeEnvelope, Return
  <2> QED BY <2>1 DEF Abstract!Next
<1>3. CASE StoreHash
  <2>1. Abstract!Refuse
    BY <1>3, QuietStep DEF StoreHash, Return
  <2> QED BY <2>1 DEF Abstract!Next
<1>4. ASSUME NEW key \in SigningKeys, NEW key_id \in KeyIds, sign_with(key, key_id)
      PROVE  Abstract!Next
  <2>1. response'.model = <<>> /\ pub_keys' = pub_keys
    BY <1>4 DEF sign_with, Return
  <2>2. CASE signed' = signed
    <3>1. Abstract!Refuse
      BY <2>1, <2>2, QuietStep
    <3> QED BY <3>1 DEF Abstract!Next
  <2>3. CASE signed' = signed \cup {Made(key)}
    <3>1. PICK content : content = Made(key).of[1]
      OBVIOUS
    <3>2. \/ Approved' = Approved
          \/ <<key, content>> \in Approved' /\ Approved' = Approved \cup {<<key, content>>}
      <4>1. Made(key).key = key
        BY DEF Made
      <4> QED BY <2>3, <3>1, <4>1, SigningApproves
    <3>3. Answer' = <<>>
      BY <2>1 DEF Answer
    <3>4. Abstract!Refuse \/ Abstract!Approve(key)
      BY <2>1, <3>2, <3>3 DEF Abstract!Refuse, Abstract!Approve
    <3> QED BY <3>4 DEF Abstract!Next
  <2> QED BY <1>4, <2>2, <2>3 DEF sign_with
<1>5. ASSUME NEW key \in SigningKeys, NEW key_id \in KeyIds, register_key(key_id, key)
      PROVE  Abstract!Next
  <2>1. Abstract!Trust(key_id, key)
    BY <1>5 DEF register_key, Return, Abstract!Trust, Approved, Answer
  <2> QED BY <2>1 DEF Abstract!Next
<1>6. CASE register_key_from_bad_hex
  <2>1. Abstract!Refuse
    BY <1>6, QuietStep DEF register_key_from_bad_hex, Return
  <2> QED BY <2>1 DEF Abstract!Next
<1>7. ASSUME NEW path, NEW content, ChangeStore(path, content)
      PROVE  UNCHANGED Abstract!vars
  BY <1>7, HiddenStep DEF ChangeStore
<1>8. CASE LoadStart
  <2>1. CASE Return("load", CheckManifest(manifest))
    <3>1. Abstract!Refuse
      BY <1>8, <2>1, QuietStep DEF LoadStart, Return
    <3> QED BY <3>1 DEF Abstract!Next
  <2>2. CASE UNCHANGED response
    BY <1>8, <2>2, HiddenStep DEF LoadStart
  <2> QED BY <1>8, <2>1, <2>2 DEF LoadStart
<1>9. CASE LoadShard
  <2>1. pub_keys' = pub_keys /\ signed' = signed
    BY <1>9 DEF LoadShard
  <2>2. CASE response'.model = <<>>
    <3>1. Abstract!Refuse
      BY <2>1, <2>2, QuietStep
    <3> QED BY <3>1 DEF Abstract!Next
  <2>3. CASE UNCHANGED response
    BY <2>1, <2>3, HiddenStep
  <2>4. CASE /\ CheckShard(manifest, manifest.shards[shard]) = "Ok"
             /\ shard = Len(manifest.shards)
    <3>1. manifest.signature.key_id \in KeyIds
      BY DEF LoaderTypes
    <3>2. Abstract!Load(manifest.signature.key_id)
      BY <1>9, <2>4, LoadingIsApproved
    <3> QED BY <3>1, <3>2 DEF Abstract!Next
  <2> QED BY <1>9, <2>2, <2>3, <2>4 DEF LoadShard, LoadReturn
<1>10. CASE UNCHANGED vars
  BY <1>10, HiddenStep DEF vars
<1>11. (\E d \in Drafts : Edit(d)) => Abstract!Next
  BY <1>1 DEF Abstract!Next
<1> QED BY <1>2, <1>3, <1>4, <1>5, <1>6, <1>7, <1>8, <1>9, <1>10, <1>11, <1>12 DEF Next

\* As long as texts are unambiguous, the loader loads nothing but what the holder of a
\* trusted key approved, whole.
THEOREM LoaderImplementsApproval ==
    ASSUME TextsUnambiguous
    PROVE  Spec => ImplementsApproval
<1>1. Init => Abstract!Init
  BY DEF Init, Abstract!Init, Approved, Answer
<1>2. LoaderInv /\ LoaderTypes /\ HashesMade /\ [Next]_vars => [Abstract!Next]_(Abstract!vars)
  BY ApprovalStep
<1> QED BY <1>1, <1>2, LoaderInvariant, TypesInvariant, HashesInvariant, PTL
        DEF Spec, ImplementsApproval, Abstract!Spec
==============================================================================
