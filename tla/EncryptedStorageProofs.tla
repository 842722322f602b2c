----------------------- MODULE EncryptedStorageProofs -----------------------
(***************************************************************************)
(* Theorems about shards at rest, for every number of keys, writes, tiers  *)
(* and seeds.  The argument rests on two facts about the key manager: the  *)
(* material a version resolves to never changes, and it is derived from    *)
(* the identifier and version it is found under.                           *)
(***************************************************************************)
EXTENDS EncryptedStorage, KeyManagementProofs

-----------------------------------------------------------------------------
(* The key manager below the client.                                       *)

\* The client's steps are calls of the key manager or leave it alone, so all that
\* holds of the manager holds here.
LEMMA ManagerUnderneath == StorageSpec => Spec
<1>1. StorageInit => Init
  BY DEF StorageInit
<1>2. [StorageNext]_allVars => [Next]_vars
  <2> SUFFICES ASSUME [StorageNext]_allVars PROVE [Next]_vars
    OBVIOUS
  <2>1. CASE UNCHANGED allVars
    BY <2>1 DEF allVars
  <2>2. CASE Manage
    BY <2>2 DEF Manage
  <2>3. ASSUME NEW who \in Identities, NEW ref \in KeyMaterialRef, NEW day \in Days,
               Retrieve(who, ref, day)
        PROVE  Next
    BY <2>3 DEF Retrieve, Next
  <2>4. ASSUME NEW plaintext, NEW tier, NEW ref, NEW bytes, NEW seed,
               encrypt_shard_at_rest(plaintext, tier, ref, bytes, seed)
        PROVE  UNCHANGED vars
    BY <2>4 DEF encrypt_shard_at_rest
  <2>5. ASSUME NEW shard, NEW ref, NEW bytes, decrypt_shard_at_rest(shard, ref, bytes)
        PROVE  UNCHANGED vars
    BY <2>5 DEF decrypt_shard_at_rest
  <2>6. ASSUME NEW ciphertext, NEW tier, NEW ref, NEW nonce,
               Damage(ciphertext, tier, ref, nonce)
        PROVE  UNCHANGED vars
    BY <2>6 DEF Damage
  <2> QED  BY <2>1, <2>2, <2>3, <2>4, <2>5, <2>6 DEF StorageNext
<1> QED  BY <1>1, <1>2, PTL DEF StorageSpec, Spec

\* The material of every key in a bucket was derived for its identifier and version.
MaterialNames(s, id) ==
    \A i \in 1 .. Len(s) : s[i].material.key_id = id /\ s[i].material.version = VersionAt(s, i)
MaterialsNamed == \A id \in KeyIds : MaterialNames(keys[id], id)

\* Storing a key that names its bucket keeps the materials of the bucket named.
LEMMA InsertKeepsNames ==
    ASSUME NEW id, NEW s \in Seq(ManagedKey), NEW p \in 0 .. Len(s), NEW key \in ManagedKey,
           MaterialNames(s, id), key.material.key_id = id,
           key.material.version = key.reference.version
    PROVE  MaterialNames(InsertAt(s, p, key), id)
<1> DEFINE t == InsertAt(s, p, key)
<1>1. Len(s) \in Nat
  OBVIOUS
<1>2. /\ Len(t) = Len(s) + 1
      /\ \A k \in 1 .. (Len(s) + 1) :
            t[k] = IF k <= p THEN s[k] ELSE IF k = p + 1 THEN key ELSE s[k - 1]
  BY InsertType, Zenon
<1> HIDE DEF t
<1>3. ASSUME NEW k \in 1 .. (Len(s) + 1)
      PROVE  t[k].material.key_id = id /\ t[k].material.version = VersionAt(t, k)
  <2>1. CASE k <= p
    <3>1. k \in 1 .. Len(s) /\ t[k] = s[k]
      BY <1>1, <1>2, <2>1
    <3> QED  BY <3>1 DEF MaterialNames, VersionAt
  <2>2. CASE k = p + 1
    <3>1. t[k] = key
      BY <1>1, <1>2, <2>2
    <3> QED  BY <3>1 DEF VersionAt
  <2>3. CASE k > p + 1
    <3>1. k - 1 \in 1 .. Len(s) /\ t[k] = s[k - 1]
      BY <1>1, <1>2, <2>3
    <3> QED  BY <3>1 DEF MaterialNames, VersionAt
  <2> QED  BY <1>1, <2>1, <2>2, <2>3
<1>4. MaterialNames(t, id)
  BY <1>2, <1>3 DEF MaterialNames
<1> QED  BY <1>4 DEF t

\* Revoking a key leaves its material alone.
LEMMA FlagKeepsNames ==
    ASSUME NEW id, NEW s \in Seq(ManagedKey), NEW i \in 1 .. Len(s), MaterialNames(s, id)
    PROVE  MaterialNames(Flag(s, i), id)
<1> DEFINE t == Flag(s, i)
<1>1. Len(t) = Len(s)
  BY FlagType
<1>2. ASSUME NEW j \in 1 .. Len(s)
      PROVE  t[j].material = s[j].material /\ VersionAt(t, j) = VersionAt(s, j)
  <2>1. t[j] = IF j = i THEN [s[i] EXCEPT !.revoked = TRUE] ELSE s[j]
    BY FlagType
  <2>2. s[i] \in ManagedKey
    OBVIOUS
  <2> HIDE DEF t
  <2> QED  BY <2>1, <2>2 DEF ManagedKey, VersionAt
<1> HIDE DEF t
<1>3. MaterialNames(t, id)
  BY <1>1, <1>2 DEF MaterialNames
<1> QED  BY <1>3 DEF t

\* Every call keeps the materials named.
LEMMA NamesStep ==
    ASSUME TypeOK, MaterialsNamed, KeysStep
    PROVE  MaterialsNamed'
<1>0. MaterialsNamed' <=> \A id \in KeyIds : MaterialNames(keys'[id], id)
  BY DEF MaterialsNamed, MaterialNames, VersionAt
<1>1. CASE keys' = keys
  BY <1>0, <1>1 DEF MaterialsNamed
<1>2. ASSUME NEW id \in KeyIds, NEW p \in 0 .. Len(keys[id]), NEW key \in ManagedKey,
             Inserts(id, p, key)
      PROVE  MaterialsNamed'
  <2>1. keys[id] \in Seq(ManagedKey) /\ MaterialNames(keys[id], id)
    BY DEF TypeOK, MaterialsNamed
  <2>2. key.material.key_id = id /\ key.material.version = key.reference.version
    BY <1>2 DEF Inserts
  <2>3. MaterialNames(InsertAt(keys[id], p, key), id)
    BY <2>1, <2>2, InsertKeepsNames
  <2>4. \A other \in KeyIds :
           keys'[other] = IF other = id THEN InsertAt(keys[id], p, key) ELSE keys[other]
    BY <1>2 DEF Inserts, TypeOK
  <2> QED  BY <1>0, <2>3, <2>4 DEF MaterialsNamed
<1>3. ASSUME NEW id \in KeyIds, NEW v \in U32, NEW i \in 1 .. Len(keys[id]), Revokes(id, v, i)
      PROVE  MaterialsNamed'
  <2>1. keys[id] \in Seq(ManagedKey) /\ MaterialNames(keys[id], id)
    BY DEF TypeOK, MaterialsNamed
  <2>2. MaterialNames(Flag(keys[id], i), id)
    BY <2>1, FlagKeepsNames
  <2>3. \A other \in KeyIds :
           keys'[other] = IF other = id THEN Flag(keys[id], i) ELSE keys[other]
    BY <1>3 DEF Revokes, TypeOK
  <2> QED  BY <1>0, <2>2, <2>3 DEF MaterialsNamed
<1> QED  BY <1>1, <1>2, <1>3 DEF KeysStep

\* The invariant of the key manager the client relies on.
Manager == TypeOK /\ MaterialsNamed

\* Every behaviour of the key manager keeps types and names.
LEMMA ManagerInvariant == Spec => []Manager
<1>1. Init => MaterialsNamed
  <2> SUFFICES ASSUME Init, NEW id \in KeyIds PROVE MaterialNames(keys[id], id)
    BY DEF MaterialsNamed
  <2>1. 1 .. Len(keys[id]) = {}
    BY DEF Init
  <2> QED  BY <2>1 DEF MaterialNames
<1>2. TypeOK /\ MaterialsNamed /\ [Next]_vars => MaterialsNamed'
  BY NextStep, NamesStep
<1> QED  BY <1>1, <1>2, TypeCorrect, PTL DEF Spec, Manager

-----------------------------------------------------------------------------
(* What the client holds and has written.                                  *)

\* bytes are what the reference resolves to, derived for what the reference names.
Resolves(ref, bytes) ==
    /\ ref \in KeyMaterialRef
    /\ HasVersion(keys[ref.key_id], ref.version)
    /\ FirstOf(keys[ref.key_id], ref.version).material = bytes
    /\ bytes.key_id = ref.key_id
    /\ bytes.version = ref.version

IsWrite(w) ==
    /\ Resolves(w.ref, w.bytes)
    /\ w.plaintext \in Plaintexts
    /\ w.shard = Shard(w.tier, w.ref, derive(w.bytes, w.tier, w.seed), w.plaintext)

HeldResolves == \A k \in held : Resolves(k.ref, k.bytes)
WrittenResolves == \A w \in written : IsWrite(w)
StoredWasWritten == \A shard \in stored : shard.ciphertext \in Ciphertexts
ClientInv == HeldResolves /\ WrittenResolves /\ StoredWasWritten

\* The material a reference resolves to survives every call.
LEMMA ResolvesStep ==
    ASSUME Manager, [Next]_vars, NEW ref, NEW bytes, Resolves(ref, bytes)
    PROVE  Resolves(ref, bytes)'
<1>1. KeysStep
  BY NextStep DEF Manager
<1>2. ref \in KeyMaterialRef /\ ref.key_id \in KeyIds /\ keys[ref.key_id] \in Seq(ManagedKey)
  BY DEF Resolves, Manager, TypeOK, KeyMaterialRef
<1> DEFINE old == FirstOf(keys[ref.key_id], ref.version)
           new == FirstOf(keys'[ref.key_id], ref.version)
<1>3. HasVersion(keys[ref.key_id], ref.version) /\ old.material = bytes
  BY DEF Resolves
<1>4. old \in ManagedKey
  BY <1>2, <1>3, FoundKey
<1>5. /\ HasVersion(keys'[ref.key_id], ref.version)
      /\ new = old \/ new = [old EXCEPT !.revoked = TRUE]
  BY <1>1, <1>2, <1>3, LookupStep DEF Manager
<1> HIDE DEF old, new
<1>6. new.material = bytes
  BY <1>3, <1>4, <1>5 DEF ManagedKey
<1>7. HasVersion(keys[ref.key_id], ref.version)' /\ FirstOf(keys[ref.key_id], ref.version)' = new
  BY <1>5 DEF new, HasVersion, FirstOf, IsFirst, VersionAt
<1> QED  BY <1>2, <1>6, <1>7 DEF Resolves

\* What a lookup finds was derived for the reference.
LEMMA RetrievedResolves ==
    ASSUME Manager, NEW ref \in KeyMaterialRef, HasVersion(keys[ref.key_id], ref.version)
    PROVE  Resolves(ref, FirstOf(keys[ref.key_id], ref.version).material)
<1>1. ref.key_id \in KeyIds /\ keys[ref.key_id] \in Seq(ManagedKey)
  BY DEF Manager, TypeOK, KeyMaterialRef
<1>2. PICK i \in 1 .. Len(keys[ref.key_id]) :
         /\ IsFirst(keys[ref.key_id], ref.version, i)
         /\ FirstOf(keys[ref.key_id], ref.version) = keys[ref.key_id][i]
  BY <1>1, FoundKey
<1>3. VersionAt(keys[ref.key_id], i) = ref.version
  BY <1>2 DEF IsFirst
<1>4. /\ keys[ref.key_id][i].material.key_id = ref.key_id
      /\ keys[ref.key_id][i].material.version = ref.version
  BY <1>1, <1>3 DEF Manager, MaterialsNamed, MaterialNames
<1> QED  BY <1>2, <1>4 DEF Resolves

\* What the client holds keeps resolving whatever the key manager does.
LEMMA HeldStep ==
    ASSUME Manager, [Next]_vars, HeldResolves
    PROVE  \A k \in held : Resolves(k.ref, k.bytes)'
BY ResolvesStep DEF HeldResolves

\* The same for what it wrote.
LEMMA WrittenStep ==
    ASSUME Manager, [Next]_vars, WrittenResolves
    PROVE  \A w \in written : IsWrite(w)'
BY ResolvesStep DEF WrittenResolves, IsWrite

\* Retrieval adds material that resolves.
LEMMA RetrieveKeeps ==
    ASSUME Manager, HeldResolves, NEW who \in Identities, NEW ref \in KeyMaterialRef,
           NEW day \in Days, Retrieve(who, ref, day)
    PROVE  HeldResolves'
<1>1. Next
  BY DEF Retrieve, Next
<1>2. HasVersion(keys[ref.key_id], ref.version)
  BY DEF Retrieve, RetrieveOutcome
<1>3. PICK bytes : bytes = FirstOf(keys[ref.key_id], ref.version).material
  OBVIOUS
<1>4. held' = held \cup {[ref |-> ref, bytes |-> bytes]}
  BY <1>3 DEF Retrieve
<1>5. Resolves(ref, bytes)'
  <2>1. Resolves(ref, bytes)
    BY <1>2, <1>3, RetrievedResolves
  <2> QED  BY <1>1, <2>1, ResolvesStep
<1>6. \A k \in held : Resolves(k.ref, k.bytes)'
  BY <1>1, HeldStep
<1>7. ASSUME NEW k \in held' PROVE Resolves(k.ref, k.bytes)'
  <2>1. CASE k \in held
    BY <1>6, <2>1
  <2>2. CASE k = [ref |-> ref, bytes |-> bytes]
    <3>1. k.ref = ref /\ k.bytes = bytes
      BY <2>2
    <3> QED  BY <1>5, <3>1
  <2> QED  BY <1>4, <1>7, <2>1, <2>2
<1> QED  BY <1>7 DEF HeldResolves

\* Encryption writes a shard under material the client holds.
LEMMA EncryptKeeps ==
    ASSUME Manager, ClientInv, NEW plaintext \in Plaintexts, NEW tier, NEW k \in held,
           NEW bytes \in {k.bytes, NoBytes}, NEW seed,
           encrypt_shard_at_rest(plaintext, tier, k.ref, bytes, seed)
    PROVE  WrittenResolves' /\ StoredWasWritten'
<1> DEFINE shard == Shard(tier, k.ref, derive(bytes, tier, seed), plaintext)
           write == [ref |-> k.ref, bytes |-> bytes, tier |-> tier, seed |-> seed,
                     plaintext |-> plaintext, shard |-> shard]
<1>0. UNCHANGED vars
  BY DEF encrypt_shard_at_rest
<1>1. \A w \in written : IsWrite(w)'
  BY <1>0, WrittenStep DEF ClientInv
<1>2. CASE UNCHANGED <<stored, written>>
  BY <1>1, <1>2 DEF ClientInv, WrittenResolves, StoredWasWritten, Ciphertexts
<1>3. CASE bytes # NoBytes /\ stored' = {shard} /\ written' = written \cup {write}
  <2>1. Resolves(k.ref, k.bytes)'
    BY <1>0, HeldStep DEF ClientInv
  <2>2. bytes = k.bytes
    BY <1>3
  <2>3. IsWrite(write)'
    BY <2>1, <2>2 DEF IsWrite
  <2>4. write \in written' /\ write.shard = shard
    BY <1>3
  <2> HIDE DEF write
  <2>5. WrittenResolves'
    BY <1>1, <1>3, <2>3 DEF WrittenResolves
  <2>6. shard.ciphertext \in Ciphertexts'
    BY <2>4 DEF Ciphertexts
  <2> QED  BY <1>3, <2>5, <2>6 DEF StoredWasWritten
<1> QED  BY <1>2, <1>3 DEF encrypt_shard_at_rest

\* The inductive invariant of the client.
THEOREM ClientInvariant == StorageSpec => [](Manager /\ ClientInv)
<1>1. StorageInit => ClientInv
  BY DEF StorageInit, ClientInv, HeldResolves, WrittenResolves, StoredWasWritten
<1>2. Manager /\ ClientInv /\ [Next]_vars /\ [StorageNext]_allVars => ClientInv'
  <2> SUFFICES ASSUME Manager, ClientInv, [Next]_vars, [StorageNext]_allVars PROVE ClientInv'
    OBVIOUS
  <2>1. ASSUME UNCHANGED held PROVE HeldResolves'
    BY <2>1, HeldStep DEF ClientInv, HeldResolves
  <2>2. ASSUME UNCHANGED written PROVE WrittenResolves'
    BY <2>2, WrittenStep DEF ClientInv, WrittenResolves
  <2>3. ASSUME UNCHANGED <<stored, written>> PROVE StoredWasWritten'
    BY <2>3 DEF ClientInv, StoredWasWritten, Ciphertexts
  <2>4. CASE UNCHANGED allVars
    BY <2>1, <2>2, <2>3, <2>4 DEF allVars, storageVars, ClientInv
  <2>5. CASE Manage
    BY <2>1, <2>2, <2>3, <2>5 DEF Manage, storageVars, ClientInv
  <2>6. ASSUME NEW who \in Identities, NEW ref \in KeyMaterialRef, NEW day \in Days,
               Retrieve(who, ref, day)
        PROVE  ClientInv'
    <3>1. HeldResolves'
      BY <2>6, RetrieveKeeps DEF ClientInv
    <3>2. UNCHANGED <<stored, written>>
      BY <2>6 DEF Retrieve
    <3> QED  BY <2>2, <2>3, <3>1, <3>2 DEF ClientInv
  <2>7. ASSUME NEW plaintext \in Plaintexts, NEW tier \in Tiers, NEW seed \in ShardSeeds,
               NEW k \in held, NEW bytes \in {k.bytes, NoBytes},
               encrypt_shard_at_rest(plaintext, tier, k.ref, bytes, seed)
        PROVE  ClientInv'
    <3>1. WrittenResolves' /\ StoredWasWritten'
      BY <2>7, EncryptKeeps
    <3>2. UNCHANGED held
      BY <2>7 DEF encrypt_shard_at_rest
    <3> QED  BY <2>1, <3>1, <3>2 DEF ClientInv
  <2>8. ASSUME NEW shard \in stored, NEW k \in held, decrypt_shard_at_rest(shard, k.ref, k.bytes)
        PROVE  ClientInv'
    BY <2>1, <2>2, <2>3, <2>8 DEF decrypt_shard_at_rest, ClientInv
  <2>9. ASSUME NEW ciphertext \in Ciphertexts, NEW tier \in Tiers, NEW k \in held,
               NEW nonce \in Nonces, Damage(ciphertext, tier, k.ref, nonce)
        PROVE  ClientInv'
    <3>1. UNCHANGED <<held, written>>
      BY <2>9 DEF Damage
    <3>2. \A shard \in stored' : shard.ciphertext = ciphertext
      BY <2>9 DEF Damage
    <3>3. StoredWasWritten'
      BY <3>1, <3>2 DEF StoredWasWritten, Ciphertexts
    <3> QED  BY <2>1, <2>2, <3>1, <3>3 DEF ClientInv
  <2> QED  BY <2>4, <2>5, <2>6, <2>7, <2>8, <2>9 DEF StorageNext
<1>3. StorageSpec => []Manager
  BY ManagerUnderneath, ManagerInvariant, PTL
<1> QED  BY <1>1, <1>2, <1>3, ManagerUnderneath, PTL DEF StorageSpec, Spec

-----------------------------------------------------------------------------
(* The properties.                                                         *)

\* A derived key determines what it was derived from.
LEMMA DeriveInjective ==
    ASSUME NEW b, NEW t, NEW s, NEW c, NEW u, NEW r, derive(b, t, s) = derive(c, u, r)
    PROVE  b = c /\ t = u /\ s = r
<1>1. derive(b, t, s).bytes = <<b, t, s>> /\ derive(c, u, r).bytes = <<c, u, r>>
  BY DEF derive
<1> QED  BY <1>1

\* A ciphertext determines the key that sealed it and the plaintext.
LEMMA SealInjective ==
    ASSUME NEW key, NEW p, NEW other, NEW q, Seal(key, p) = Seal(other, q)
    PROVE  key.bytes = other.bytes /\ p = q
BY DEF Seal

\* A ciphertext that was damaged opens under no key.
LEMMA NoiseIsNotSealed ==
    ASSUME NEW key, NEW p
    PROVE  BadCiphertext # Seal(key, p)
<1>1. Len(BadCiphertext) = 1 /\ Len(Seal(key, p)) = 3
  BY DEF BadCiphertext, Seal
<1> QED  BY <1>1

\* The seed can be read from the nonce of a derived key.
LEMMA NonceOfDerived ==
    ASSUME NEW b, NEW t, NEW s
    PROVE  derive(b, t, s).nonce # BadNonce /\ derive(b, t, s).nonce[2] = s
<1>1. derive(b, t, s).nonce = <<"LLMK", s>>
  BY DEF derive
<1>2. Len(<<"LLMK", s>>) = 2 /\ Len(BadNonce) = 1
  BY DEF BadNonce
<1> QED  BY <1>1, <1>2

\* What decrypts, whatever happened in storage, was encrypted by the client under the
\* identifier, version and tier that the metadata names.
THEOREM DecryptionIsRight == StorageSpec => []DecryptedWasEncrypted
<1>1. ClientInv => DecryptedWasEncrypted
  <2> SUFFICES ASSUME ClientInv, NEW shard \in stored, NEW k \in held,
                      DecryptOutcome(shard, k.ref, k.bytes) = "Ok"
               PROVE  \E w \in written : /\ w.plaintext = Decrypted(shard, k.bytes)
                                         /\ w.bytes = k.bytes
                                         /\ w.tier = shard.metadata.tier
                                         /\ w.ref.key_id = shard.metadata.key_id
                                         /\ w.ref.version = shard.metadata.key_version
    BY DEF DecryptedWasEncrypted
  <2> DEFINE tier == shard.metadata.tier
             seed == shard.metadata.nonce_hex[2]
             key == derive(k.bytes, tier, seed)
  <2>1. /\ shard.metadata.key_id = k.ref.key_id
        /\ shard.metadata.key_version = k.ref.version
        /\ Opens(key, shard.ciphertext)
    BY DEF DecryptOutcome
  <2>2. PICK p \in Plaintexts : shard.ciphertext = Seal(key, p)
    BY <2>1 DEF Opens
  <2>3. PICK w \in written : shard.ciphertext = w.shard.ciphertext
    <3>1. shard.ciphertext \in Ciphertexts
      BY DEF ClientInv, StoredWasWritten
    <3>2. shard.ciphertext # BadCiphertext
      BY <2>2, NoiseIsNotSealed
    <3> QED  BY <3>1, <3>2 DEF Ciphertexts
  <2>4. IsWrite(w)
    BY DEF ClientInv, WrittenResolves
  <2>5. w.shard.ciphertext = Seal(derive(w.bytes, w.tier, w.seed), w.plaintext)
    BY <2>4 DEF IsWrite, Shard
  <2>6. w.bytes = k.bytes /\ w.tier = tier /\ w.plaintext = p
    <3>1. Seal(derive(w.bytes, w.tier, w.seed), w.plaintext) = Seal(derive(k.bytes, tier, seed), p)
      BY <2>2, <2>3, <2>5
    <3>2. derive(w.bytes, w.tier, w.seed).bytes = derive(k.bytes, tier, seed).bytes
          /\ w.plaintext = p
      BY <3>1, SealInjective
    <3>3. <<w.bytes, w.tier, w.seed>> = <<k.bytes, tier, seed>>
      BY <3>2 DEF derive
    <3> QED  BY <3>2, <3>3
  <2>7. Decrypted(shard, k.bytes) = p
    <3>1. ASSUME NEW q \in Plaintexts, shard.ciphertext = Seal(key, q) PROVE q = p
      <4>1. Seal(key, q) = Seal(key, p)
        BY <2>2, <3>1
      <4> HIDE DEF key
      <4> QED  BY <4>1, SealInjective
    <3>2. Opened(key, shard.ciphertext) = p
      BY <2>2, <3>1 DEF Opened
    <3> QED  BY <3>2 DEF Decrypted
  <2>8. w.ref.key_id = k.ref.key_id /\ w.ref.version = k.ref.version
    BY <2>4, <2>6 DEF IsWrite, Resolves, ClientInv, HeldResolves
  <2> QED  BY <2>1, <2>6, <2>7, <2>8
<1> QED  BY <1>1, ClientInvariant, PTL

\* As long as the manager serves its key, a shard decrypts to its plaintext.
THEOREM WrittenIsReadable == StorageSpec => []ReadableWhileServed
<1>1. ClientInv => ReadableWhileServed
  <2> SUFFICES ASSUME ClientInv, NEW w \in written
               PROVE  LET bytes == FirstOf(keys[w.ref.key_id], w.ref.version).material
                      IN  /\ DecryptOutcome(w.shard, w.ref, bytes) = "Ok"
                          /\ Decrypted(w.shard, bytes) = w.plaintext
    BY DEF ReadableWhileServed
  <2> DEFINE key == derive(w.bytes, w.tier, w.seed)
  <2>1. IsWrite(w)
    BY DEF ClientInv, WrittenResolves
  <2>2. FirstOf(keys[w.ref.key_id], w.ref.version).material = w.bytes
    BY <2>1 DEF IsWrite, Resolves
  <2>3. /\ w.shard.ciphertext = Seal(key, w.plaintext)
        /\ w.shard.metadata.tier = w.tier
        /\ w.shard.metadata.key_id = w.ref.key_id
        /\ w.shard.metadata.key_version = w.ref.version
        /\ w.shard.metadata.nonce_hex = key.nonce
    BY <2>1 DEF IsWrite, Shard
  <2>4. w.shard.metadata.nonce_hex # BadNonce /\ w.shard.metadata.nonce_hex[2] = w.seed
    BY <2>3, NonceOfDerived
  <2>5. derive(w.bytes, w.shard.metadata.tier, w.shard.metadata.nonce_hex[2]) = key
    BY <2>3, <2>4
  <2>6. w.plaintext \in Plaintexts
    BY <2>1 DEF IsWrite
  <2>7. Opens(key, w.shard.ciphertext)
    BY <2>3, <2>6 DEF Opens
  <2>8. Opened(key, w.shard.ciphertext) = w.plaintext
    <3>1. ASSUME NEW q \in Plaintexts, w.shard.ciphertext = Seal(key, q) PROVE q = w.plaintext
      <4>1. Seal(key, q) = Seal(key, w.plaintext)
        BY <2>3, <3>1
      <4> HIDE DEF key
      <4> QED  BY <4>1, SealInjective
    <3> QED  BY <2>3, <2>6, <3>1 DEF Opened
  <2> HIDE DEF key
  <2>9. DecryptOutcome(w.shard, w.ref, w.bytes) = "Ok"
    BY <2>3, <2>4, <2>5, <2>7 DEF DecryptOutcome
  <2>10. Decrypted(w.shard, w.bytes) = w.plaintext
    BY <2>5, <2>8 DEF Decrypted
  <2> QED  BY <2>2, <2>9, <2>10
<1> QED  BY <1>1, ClientInvariant, PTL

\* Key and nonce are shared only by encryptions that repeat a seed for one tier and
\* one version of one key.
THEOREM NonceReuseIsTheCallers == StorageSpec => []KeyAndNonceNotShared
<1>1. ClientInv => KeyAndNonceNotShared
  <2> SUFFICES ASSUME ClientInv, NEW v \in written, NEW w \in written,
                      derive(v.bytes, v.tier, v.seed) = derive(w.bytes, w.tier, w.seed)
               PROVE  /\ v.tier = w.tier /\ v.seed = w.seed
                      /\ v.ref.key_id = w.ref.key_id /\ v.ref.version = w.ref.version
    BY DEF KeyAndNonceNotShared
  <2>1. v.bytes = w.bytes /\ v.tier = w.tier /\ v.seed = w.seed
    BY DeriveInjective
  <2>2. IsWrite(v) /\ IsWrite(w)
    BY DEF ClientInv, WrittenResolves
  <2> QED  BY <2>1, <2>2 DEF IsWrite, Resolves
<1> QED  BY <1>1, ClientInvariant, PTL
=============================================================================
